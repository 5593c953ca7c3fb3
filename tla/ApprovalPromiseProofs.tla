------------------------ MODULE ApprovalPromiseProofs ------------------------
(***************************************************************************)
(* ApprovalAuthority implements GrantPromise, for any number of intents    *)
(* and of transactions.                                                    *)
(*                                                                         *)
(* The proof first forgets the locks: GrantSteps says which of nine things *)
(* a step may do to the questions, the holds and the decisions; Expires of *)
(* ApprovalProofs is the one that ends many questions.  IInv is used there *)
(* and for the limit.  Consent, which relates an authority to the yes it   *)
(* comes from, is then kept by each of the nine, and each of them is a     *)
(* step of the promise.                                                    *)
(***************************************************************************)
EXTENDS ApprovalProofs

USE PolicyAssumption, ActorsAssumption

\* What was decided, what a question says of it, and what is held for it.
Consent ==
  /\ \A i \in Escalating : hold[i] = "NONE" <=> <<i, "APPROVE">> \notin decisions
  /\ \A i \in Escalating : Standing(i) => request[i] = "APPROVED"
  /\ \A i \in Intents : <<i, "DENY">> \in decisions <=> request[i] = "REJECTED"
  /\ \A i \in Intents : <<i, "APPROVE">> \in decisions => request[i] \in {"APPROVED", "SUPERSEDED"}
  /\ \A i \in Intents : request[i] = "APPROVED" => <<i, "APPROVE">> \in decisions
  /\ \A i \in Intents : hold[i] = "SUPERSEDED" => request[i] = "SUPERSEDED"

-----------------------------------------------------------------------------
\* WHAT A STEP DOES TO QUESTIONS AND AUTHORITY

Same == UNCHANGED <<request, hold, decisions>>
Asks(i) ==
  /\ i \in Escalating /\ request[i] = "NONE"
  /\ request' = [request EXCEPT ![i] = "PROVISIONAL"] /\ UNCHANGED <<hold, decisions>>
Fails(i) ==
  /\ request[i] = "PROVISIONAL" /\ request' = [request EXCEPT ![i] = "PAYMENT_FAILED"]
  /\ UNCHANGED <<hold, decisions>>
Denies(i) ==
  /\ request[i] = "PENDING" /\ request' = [request EXCEPT ![i] = "REJECTED"]
  /\ decisions' = decisions \cup {<<i, "DENY">>} /\ UNCHANGED hold
Approves(i) ==
  /\ i \in Escalating /\ request[i] = "PENDING" /\ request' = [request EXCEPT ![i] = "APPROVED"]
  /\ <<i, "APPROVE">> \notin decisions
  /\ decisions' = decisions \cup {<<i, "APPROVE">>} /\ hold' = [hold EXCEPT ![i] = "ACTIVE"]
Reserves(i) ==
  /\ i \notin Escalating /\ hold[i] = "NONE"
  /\ hold' = [hold EXCEPT ![i] = "ACTIVE"] /\ UNCHANGED <<request, decisions>>
Lapses(i) ==
  /\ hold[i] = "ACTIVE"
  /\ hold' = [hold EXCEPT ![i] = "LAPSED"] /\ UNCHANGED <<request, decisions>>
Opens(i, j) ==
  /\ request[i] = "PROVISIONAL" /\ j = replaces[i] /\ j # i /\ i \in Escalating
  /\ j # None => j \in Escalating /\ request[j] \in Supersedable
  /\ request' = [k \in Intents |-> IF k = i THEN "PENDING"
                                   ELSE IF k = j THEN "SUPERSEDED" ELSE request[k]]
  /\ hold' = Retired(j) /\ UNCHANGED decisions

Does(i) ==
  \/ Asks(i) \/ Fails(i) \/ Denies(i) \/ Approves(i) \/ Reserves(i) \/ Lapses(i)
  \/ \E j \in Intents \cup {None} : Opens(i, j)

LEMMA CallerGrants ==
  ASSUME IInv, NEW c \in Callers, Submit(c) \/ CallerStep(c)
  PROVE  Same \/ \E i \in Intents : Does(i)
<1> USE DEF IInv
<1>1. CASE Submit(c) \/ LockPartition(c) \/ ValidateRequoteClaim(c)
  BY <1>1 DEF Submit, Begin, LockPartition, ValidateRequoteClaim, rows, Same
<1>2. CASE PersistEscalatedApproval(c)
  <2>1. tx[c].intent \in Intents
    BY <1>2 DEF PersistEscalatedApproval, At, Roles, CallerFrame
  <2> QED
    BY <1>2, <2>1 DEF PersistEscalatedApproval, Insertable, Same, Does, Asks
<1>3. CASE CommitApproved(c)
  <2>1. tx[c].intent \in Intents
    BY <1>3 DEF CommitApproved, At, Roles, CallerFrame
  <2> QED
    BY <1>3, <2>1 DEF CommitApproved, Same, Does, Reserves
<1> QED
  BY <1>1, <1>2, <1>3 DEF CallerStep

LEMMA AnswererGrants ==
  ASSUME IInv, NEW a \in Answerers, Press(a) \/ AnswererStep(a)
  PROVE  Same \/ \E i \in Intents : Does(i)
<1> USE DEF IInv
<1>1. CASE Press(a) \/ LockRequest(a) \/ LockServiceCall(a) \/ Recheck(a)
  BY <1>1 DEF Press, Begin, LockRequest, LockServiceCall, Recheck, rows, Same
<1>2. CASE Deny(a) \/ Approve(a)
  <2> DEFINE i == tx[a].intent
  <2>1. i \in Intents /\ request[i] = "PENDING" /\ i \in Escalating
    BY <1>2 DEF Deny, Approve, At, Roles, AnswerFrame, Answering, Ledger
  <2>2. CASE Deny(a)
    BY <2>1, <2>2 DEF Deny, Decide, Does, Denies
  <2>3. CASE Approve(a)
    <3>1. <<i, "APPROVE">> \notin decisions
      BY <2>3 DEF Approve, Decide
    <3> QED
      BY <2>1, <2>3, <3>1 DEF Approve, Decide, Does, Approves
  <2> QED
    BY <1>2, <2>2, <2>3
<1> QED
  BY <1>1, <1>2 DEF AnswererStep

LEMMA FinalizerGrants ==
  ASSUME IInv, NEW f \in Finalizers, AskAuthority(f) \/ FinalizerStep(f)
  PROVE  Same \/ \E i \in Intents : Does(i)
<1> USE DEF IInv
<1>1. CASE \/ AskAuthority(f) \/ LockCall(f) \/ AlreadyActive(f) \/ LeaveUnresolved(f)
           \/ LockPrior(f) \/ NotSupersedable(f)
  BY <1>1 DEF AskAuthority, AskFor, Begin, LockCall, AlreadyActive, LeaveUnresolved, LockPrior,
              NotSupersedable, rows, Same
<1>2. CASE RecordFailure(f)
  <2> DEFINE i == tx[f].intent
  <2>1. i \in Intents
    BY <1>2 DEF RecordFailure, Finds, Judging, At, Roles, FinalFrame
  <2>2. CASE request[i] = "PROVISIONAL"
    BY <1>2, <2>1, <2>2 DEF RecordFailure, Does, Fails
  <2>3. CASE request[i] # "PROVISIONAL"
    BY <1>2, <2>3 DEF RecordFailure, Same, TypeOK
  <2> QED
    BY <2>2, <2>3
<1>3. CASE Activate(f)
  <2>1. PICK j \in Intents \cup {None} : Activates(f, tx[f].intent, j)
    BY <1>3, ActivateActivates
  <2>2. Opens(tx[f].intent, j)
    BY <2>1 DEF Activates, Opens, Ledger, Supersedable
  <2> QED
    BY <2>1, <2>2 DEF Does, Activates
<1> QED
  BY <1>1, <1>2, <1>3 DEF FinalizerStep

LEMMA GrantSteps ==
  ASSUME IInv, [Next]_vars
  PROVE  Same \/ (\E i \in Intents : Does(i)) \/ \E S \in SUBSET Intents : Expires(S)
<1>1. CASE UNCHANGED vars
  BY <1>1 DEF vars, rows, Same
<1>2. CASE \E p \in Actors : Abort(p)
  BY <1>2 DEF Abort, rows, Same
<1>3. CASE Sweep /\ UNCHANGED <<fee, tx>>
  BY <1>3, ExpireExpires DEF Sweep, LockOverdue, AbortSweep, rows, Same
<1>4. CASE \E i \in Intents : SettleFee(i)
  BY <1>4 DEF SettleFee, rows, Same
<1>5. CASE \E i \in Intents : Lapse(i)
  BY <1>5 DEF Lapse, Does, Lapses
<1> QED
  BY <1>1, <1>2, <1>3, <1>4, <1>5, CallerGrants, AnswererGrants, FinalizerGrants DEF Next, Step

-----------------------------------------------------------------------------
\* AUTHORITY AND CONSENT

LEMMA ConsentKept ==
  ASSUME TypeOK, Consent, NEW i \in Intents, Does(i)
  PROVE  Consent'
<1> USE DEF TypeOK, Consent, Standing
<1>1. CASE Asks(i)
  BY <1>1 DEF Asks
<1>2. CASE Fails(i)
  BY <1>2 DEF Fails
<1>3. CASE Denies(i)
  BY <1>3 DEF Denies
<1>4. CASE Approves(i)
  BY <1>4 DEF Approves
<1>5. CASE Reserves(i)
  BY <1>5 DEF Reserves
<1>6. CASE Lapses(i)
  BY <1>6 DEF Lapses
<1>7. ASSUME NEW j \in Intents \cup {None}, Opens(i, j) PROVE Consent'
  BY <1>7 DEF Opens, Retired, Supersedable
<1> QED
  BY <1>1, <1>2, <1>3, <1>4, <1>5, <1>6, <1>7 DEF Does

LEMMA ConsentOutlivesSweeps ==
  ASSUME Consent, NEW S \in SUBSET Intents, Expires(S)
  PROVE  Consent'
BY DEF Expires, Consent, Standing

LEMMA ConsentInvariance ==
  Spec => [](IInv /\ Consent)
<1>1. Init => Consent
  BY DEF Init, Consent, Standing
<1>2. IInv /\ Consent /\ [Next]_vars => Consent'
  <2> SUFFICES ASSUME IInv, Consent, [Next]_vars PROVE Consent'
    OBVIOUS
  <2>1. CASE Same
    BY <2>1 DEF Same, Consent, Standing
  <2> QED
    BY <2>1, GrantSteps, ConsentKept, ConsentOutlivesSweeps DEF IInv
<1> QED
  BY <1>1, <1>2, Invariance, PTL DEF Spec

\* Above the threshold every standing authority comes from a yes to a paid
\* question, whatever preflights, presses, expiries and requotes race.
THEOREM AuthorityIsConsent ==
  Spec => []AuthorityByConsent
<1>1. IInv /\ Consent => AuthorityByConsent
  BY DEF IInv, Consent, AuthorityByConsent, PaidBeforeAsked
<1> QED
  BY <1>1, ConsentInvariance, PTL

-----------------------------------------------------------------------------
\* THE REFINEMENT

\* What the mapping makes of an intent.
LEMMA Mapped ==
  ASSUME TypeOK, NEW i \in Intents
  PROVE  /\ Question[i] = "none" <=> request[i] = "NONE"
         /\ Question[i] = "unpaid" <=> request[i] = "PROVISIONAL"
         /\ Question[i] = "open" <=> request[i] = "PENDING"
         /\ Question[i] = "yes" <=> request[i] = "APPROVED"
         /\ Authority[i] = "none" <=> hold[i] = "NONE"
         /\ Authority[i] = "live" <=> hold[i] = "ACTIVE"
BY DEF TypeOK, RequestStates, Question, Authority

\* Authority that begins, begins within the limit.
LEMMA BeginsPromised ==
  ASSUME IInv, IInv', NEW i \in Intents, hold[i] = "NONE",
         hold' = [hold EXCEPT ![i] = "ACTIVE"]
  PROVE  Promise!Begins(i)
<1> USE DEF IInv
<1>1. Promise!Live \cup {i} = Held'
  BY Mapped DEF Promise!Live, Held, TypeOK
<1>2. Cardinality(Held') <= Daily + 1
  <2>1. IsFiniteSet(Held') /\ Cardinality(Held') \in Nat
    BY FS_Subset, FS_CardinalityType DEF Held
  <2> QED
    BY <2>1 DEF Slack, One
<1>3. Authority' = [Authority EXCEPT ![i] = "live"]
  BY DEF Authority, TypeOK
<1>4. Held' \in Tolerable
  BY <1>2 DEF Tolerable, Held
<1> QED
  BY <1>1, <1>3, <1>4, Mapped DEF Promise!Begins

\* Questions that end unanswered are closed.
LEMMA ClosesPromised ==
  ASSUME TypeOK, NEW S \in SUBSET Intents, NEW end \in {"PAYMENT_FAILED", "EXPIRED"},
         \A i \in S : request[i] \in {"PROVISIONAL", "PENDING"},
         request' = [i \in Intents |-> IF i \in S THEN end ELSE request[i]], UNCHANGED hold
  PROVE  Promise!Next
<1>1. S \in SUBSET {i \in Intents : Question[i] \in {"unpaid", "open"}}
  BY Mapped
<1>2. Question' = [i \in Intents |-> IF i \in S THEN "closed" ELSE Question[i]]
  BY DEF Question
<1>3. UNCHANGED Authority
  BY DEF Authority
<1>4. Promise!Close(S)
  BY <1>2, <1>3 DEF Promise!Close
<1> QED
  BY <1>1, <1>4 DEF Promise!Next

LEMMA DoesPromised ==
  ASSUME IInv, Consent, IInv', NEW i \in Intents, Does(i)
  PROVE  Promise!Next
<1> USE DEF IInv
<1> DEFINE To(s) == Question' = [Question EXCEPT ![i] = s]
<1>1. CASE Asks(i)
  <2>1. To("unpaid")
    BY <1>1 DEF Asks, Question, TypeOK
  <2>2. UNCHANGED Authority
    BY <1>1 DEF Asks, Authority
  <2>3. Promise!Put(i)
    BY <1>1, <2>1, <2>2, Mapped DEF Asks, Promise!Put, Promise!Becomes
  <2> QED
    BY <2>3 DEF Promise!Next
<1>2. CASE Fails(i)
  <2> DEFINE S == {i}
  <2>1. /\ S \in SUBSET Intents /\ \A k \in S : request[k] \in {"PROVISIONAL", "PENDING"}
        /\ request' = [k \in Intents |-> IF k \in S THEN "PAYMENT_FAILED" ELSE request[k]]
        /\ UNCHANGED hold
    BY <1>2 DEF Fails, TypeOK
  <2> HIDE DEF S
  <2> QED
    BY <2>1, ClosesPromised
<1>3. CASE Denies(i)
  <2>1. To("no")
    BY <1>3 DEF Denies, Question, TypeOK
  <2>2. UNCHANGED Authority
    BY <1>3 DEF Denies, Authority
  <2>3. Promise!Refuse(i)
    BY <1>3, <2>1, <2>2, Mapped DEF Denies, Promise!Refuse, Promise!Becomes
  <2> QED
    BY <2>3 DEF Promise!Next
<1>4. CASE Approves(i)
  <2>1. To("yes")
    BY <1>4 DEF Approves, Question, TypeOK
  <2>2. Promise!Begins(i)
    BY <1>4, BeginsPromised DEF Approves, Consent
  <2>3. Promise!Agree(i)
    BY <1>4, <2>1, <2>2, Mapped DEF Approves, Promise!Agree, Promise!Becomes
  <2> QED
    BY <2>3 DEF Promise!Next
<1>5. CASE Reserves(i)
  <2>1. UNCHANGED Question
    BY <1>5 DEF Reserves, Question
  <2>2. Promise!Grant(i)
    BY <1>5, <2>1, BeginsPromised DEF Reserves, Promise!Grant
  <2> QED
    BY <2>2 DEF Promise!Next
<1>6. CASE Lapses(i)
  <2>1. UNCHANGED Question
    BY <1>6 DEF Lapses, Question
  <2>2. Authority' = [Authority EXCEPT ![i] = "gone"]
    BY <1>6 DEF Lapses, Authority, TypeOK
  <2>3. Promise!Lapse(i)
    BY <1>6, <2>1, <2>2, Mapped DEF Lapses, Promise!Lapse, Promise!Live
  <2> QED
    BY <2>3 DEF Promise!Next
<1>7. ASSUME NEW j \in Intents \cup {None}, Opens(i, j) PROVE Promise!Next
  <2> DEFINE R == {j} \ {None}
  <2>1. Question[i] = "unpaid" /\ \A k \in R : Question[k] \in {"unpaid", "open", "yes"}
    BY <1>7, Mapped DEF Opens, Supersedable
  <2>2. Question' = [k \in Intents |-> IF k = i THEN "open"
                                       ELSE IF k \in R THEN "closed" ELSE Question[k]]
    BY <1>7 DEF Opens, Question
  <2>3. Authority' = [k \in Intents |-> IF k \in R \cap Promise!Live THEN "gone" ELSE Authority[k]]
    <3> SUFFICES ASSUME NEW k \in Intents
                 PROVE  Authority'[k] =
                          IF k \in R \cap Promise!Live THEN "gone" ELSE Authority[k]
      BY DEF Authority
    <3>1. hold'[k] = IF k = j /\ Standing(k) THEN "SUPERSEDED" ELSE hold[k]
      BY <1>7 DEF Opens, Retired
    <3>2. k \in R \cap Promise!Live <=> k = j /\ hold[k] = "ACTIVE"
      BY Mapped DEF Promise!Live
    <3> QED
      BY <3>1, <3>2 DEF Authority, Standing
  <2>4. Promise!Open(i, R)
    BY <2>1, <2>2, <2>3 DEF Promise!Open
  <2>5. R = {} \/ \E k \in Intents \ {i} : R = {k}
    BY <1>7 DEF Opens
  <2> QED
    BY <2>4, <2>5 DEF Promise!Next
<1> QED
  BY <1>1, <1>2, <1>3, <1>4, <1>5, <1>6, <1>7 DEF Does

\* Every transaction, and every race between them, does what GrantPromise allows:
\* at most one question retired and one authority begun in a step, questions that
\* expire taking no authority with them, and no grant past one more than the daily
\* budget.
THEOREM GrantsArePromised ==
  Spec => KeepsGrantPromise
<1>1. Init => Promise!Init
  BY DEF Init, Promise!Init, Question, Authority
<1>2. IInv /\ Consent /\ IInv' /\ [Next]_vars => [Promise!Next]_(Promise!vars)
  <2> SUFFICES ASSUME IInv, Consent, IInv', [Next]_vars PROVE [Promise!Next]_(Promise!vars)
    OBVIOUS
  <2>1. CASE Same
    BY <2>1 DEF Same, Question, Authority, Promise!vars
  <2>2. ASSUME NEW S \in SUBSET Intents, Expires(S) PROVE Promise!Next
    BY <2>2, ClosesPromised DEF IInv, Expires
  <2> QED
    BY <2>1, <2>2, GrantSteps, DoesPromised
<1> QED
  BY <1>1, <1>2, ConsentInvariance, PTL DEF Spec, KeepsGrantPromise, Promise!Spec
=============================================================================
