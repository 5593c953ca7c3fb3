-------------------------- MODULE ApprovalProperties --------------------------
(***************************************************************************)
(* What the transactions of ApprovalAuthority owe each other: one answer,  *)
(* asked only after its fee is paid; one live authority per piece of work; *)
(* a budget overshot by at most one grant; and no unknown deadlock.        *)
(***************************************************************************)
EXTENDS ApprovalAuthority

\* Nobody is asked, and nothing is decided, before the fee of the question has
\* settled on the chain and its call is final (finalizeSettlement).
PaidBeforeAsked ==
  \A i \in Intents :
    request[i] \in {"PENDING", "APPROVED", "REJECTED", "EXPIRED"} =>
      fee[i] = "PAID" /\ call[i] = "FINALIZED"

\* A requote that became answerable has retired the question it replaces, and
\* the authority that question had won (supersedePriorQuote).
RetiresItsPrior ==
  \A i \in Intents : call[i] = "FINALIZED" /\ replaces[i] # None =>
    request[replaces[i]] = "SUPERSEDED" /\ ~Standing(replaces[i])

\* Only a requote whose own fee was paid retires another question.
RetiredByThePaid ==
  \A j \in Intents : request[j] = "SUPERSEDED" =>
    \E i \in Intents : replaces[i] = j /\ fee[i] = "PAID" /\ call[i] = "FINALIZED"

SupersessionIsExact == RetiresItsPrior /\ RetiredByThePaid

\* Whatever presses, expiries, payments and requotes race on it, a question has
\* one outcome; only a yes can still be retired (actOnApproval).
OneOutcome ==
  [][\A i \in Intents :
       /\ request[i] \in {"REJECTED", "EXPIRED", "PAYMENT_FAILED", "SUPERSEDED"}
            => request'[i] = request[i]
       /\ request[i] = "APPROVED" => request'[i] \in {"APPROVED", "SUPERSEDED"}]_vars

LiveExposure == Cardinality({i \in Intents : hold[i] = "ACTIVE"})

\* The two doors to a grant do not exclude each other; each excludes itself, so
\* the budget is overshot by one grant and never by two (lockPartition, and the
\* advisory lock of actOnApproval).
OvershootIsOne == LiveExposure <= Daily + 1

\* Transactions that wait for each other in a circle are of two known kinds: an
\* answer that has the row and a finalizer that repeats itself on the same finished
\* call; and a sweep, which locks many rows in no agreed order, with another sweep or
\* the preflight of a requote that has one of them.  No other circle exists.
Transactions == Actors \cup Sweeps
Entangled ==
  {p \in Transactions : /\ \E q \in Transactions : BlockedBy(p, q)
                        /\ \E q \in Transactions : BlockedBy(q, p)}
Repeats(a, f) ==
  /\ a \in Answerers /\ f \in Finalizers
  /\ tx[a].intent = tx[f].intent /\ call[tx[f].intent] = "FINALIZED"
Crosses(s, q) ==
  /\ s \in Sweeps
  /\ \/ q \in Sweeps \ {s}
     \/ q \in Callers /\ At(q, "effects") /\ tx[q].prior \in Asked \ locked[s]
WaitsAreKnown ==
  \A circle \in SUBSET Entangled :
    circle # {} /\ (\A p \in circle : \E q \in circle : BlockedBy(p, q))
      => \E p \in circle, q \in circle : Repeats(p, q) \/ Crosses(p, q)

\* What is paid and not yet asked stays on the reconciler's list, whatever a late
\* or a failed finalization wrote about it (reconcileOnce).
PaidStaysListed ==
  \A i \in Intents : fee[i] = "PAID" /\ request[i] = "PROVISIONAL" =>
    call[i] \in Listed /\ attempt[i] = "OPEN"

\* Above the threshold nothing but a recorded yes, to a question that was paid for
\* and has not been retired since, is authority to spend (actOnApproval,
\* persistEscalatedApproval, supersedePriorQuote).
AuthorityByConsent ==
  \A i \in Escalating : Standing(i) =>
    request[i] = "APPROVED" /\ <<i, "APPROVE">> \in decisions /\ fee[i] = "PAID"

\* Of the questions put about one piece of work at most one can still be answered or
\* spent on, however requotes race with each other's payments, with answers to the
\* question they replace and with its expiry (supersedePriorQuote, the PROVISIONAL
\* index of migration 031).  A requote the engine approves outright is no question:
\* it retires nothing.
Alive(i) == request[i] \in {"PENDING", "APPROVED"} \/ Standing(i)
OneLivePerLineage ==
  \A i, k \in Escalating : i # k /\ lineage[i] = lineage[k] => ~(Alive(i) /\ Alive(k))

\* The transactions, whatever they race for, do together what GrantPromise allows
\* in single steps, one grant past the daily budget.
Question ==
  [i \in Intents |->
     CASE request[i] = "NONE"        -> "none"
       [] request[i] = "PROVISIONAL" -> "unpaid"
       [] request[i] = "PENDING"     -> "open"
       [] request[i] = "APPROVED"    -> "yes"
       [] request[i] = "REJECTED"    -> "no"
       [] OTHER                      -> "closed"]
Authority ==
  [i \in Intents |->
     CASE hold[i] = "NONE" -> "none" [] hold[i] = "ACTIVE" -> "live" [] OTHER -> "gone"]
Tolerable == {S \in SUBSET Intents : Cardinality(S) <= Daily + 1}
Promise == INSTANCE GrantPromise
             WITH question <- Question, authority <- Authority, Allowed <- Tolerable
KeepsGrantPromise == Promise!Spec

-----------------------------------------------------------------------------
\* REFUTED.  policy-engine's rules.ts: the hold of an approval is what stops two
\* agents each being approved against the same remaining capacity.
ExposureWithinDaily == LiveExposure <= Daily
=============================================================================
