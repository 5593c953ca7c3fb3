-------------------------- MODULE ApprovalAuthority --------------------------
(***************************************************************************)
(* Who may spend under one policy: the paid preflight that approves an     *)
(* intent or escalates it (public-dto/preflight.ts), the finalizer that    *)
(* makes an escalation answerable once its fee has settled                 *)
(* (x402-service-calls.ts), the person who answers it                      *)
(* (approval-decision.ts), the requote that replaces it                    *)
(* (approval-supersession.ts), and the sweep that ends what nobody         *)
(* answered (approvals.ts).                                                *)
(*                                                                         *)
(* Each is a Postgres transaction.  An action takes one lock and decides   *)
(* under it where to go; the last one commits, which shows what was        *)
(* written and releases the locks.  An intent is also the name of its      *)
(* approval request, service call and reservation; every amount is 1.      *)
(* That a question's window has closed is told apart from EXPIRED only by  *)
(* refusing an answer; a clock read before a lock counts as read after it. *)
(***************************************************************************)
EXTENDS FiniteSets, Naturals

CONSTANTS
  Intents,
  Escalating,   \* those above the policy's escalateAbove
  Callers,      \* preflight transactions
  Answerers,    \* channels on which the owner can press a button
  Finalizers,   \* the hook of the settled response, the reconciler
  Sweeps,       \* expiry sweeps: three jobs and two reads start one, none waits for another
  Daily,        \* the policy's daily budget
  None

ASSUME PolicyAssumption ==
  /\ IsFiniteSet(Intents) /\ Escalating \subseteq Intents /\ None \notin Intents
  /\ Daily \in Nat

ASSUME ActorsAssumption ==
  /\ Callers \cap Answerers = {} /\ Callers \cap Finalizers = {}
  /\ Answerers \cap Finalizers = {} /\ Sweeps \cap (Callers \cup Answerers \cup Finalizers) = {}

VARIABLES
  request,    \* untch_approval_requests.state
  replaces,   \* its supersedes_approval_request_id
  lineage,    \* its quote_lineage_id, named by the first request of the lineage
  call,       \* untch_x402_service_calls.state
  attempt,    \* untch_x402_payment_attempts.state; OPEN is VERIFIED, SETTLEMENT_PENDING or UNKNOWN
  fee,        \* what became of the fee on the chain
  hold,       \* untch_budget_reservations.status; LAPSED is ACTIVE past its expires_at
  decisions,  \* untch_approval_decisions: request, answer
  tx,         \* where each transaction stands
  locked      \* the rows a sweep's one UPDATE has locked so far

rows == <<request, replaces, lineage, call, attempt, hold, decisions>>
vars == <<rows, fee, tx, locked>>

Actors == Callers \cup Answerers \cup Finalizers
RequestStates == {"NONE", "PROVISIONAL", "PENDING", "PAYMENT_FAILED", "APPROVED",
                  "REJECTED", "EXPIRED", "SUPERSEDED"}
CallStates == {"NONE", "PAYMENT_AUTH_VERIFIED", "SETTLEMENT_PENDING", "SETTLEMENT_FAILED",
               "FINALIZED"}
Answers == {"APPROVE", "DENY"}
Evidence == {"CONFIRMED", "FAILED", "UNRESOLVED"}

Idle == [at |-> "idle", intent |-> None, prior |-> None, says |-> "-"]
Frames == [at : {"idle", "partition", "claim", "effects", "request", "fee", "recheck", "decide",
                 "call", "own", "prior"},
           intent : Intents \cup {None}, prior : Intents \cup {None},
           says : Answers \cup Evidence \cup {"HELD", "BARE", "-"}]

TypeOK ==
  /\ request \in [Intents -> RequestStates]
  /\ replaces \in [Intents -> Intents \cup {None}] /\ lineage \in [Intents -> Intents]
  /\ call \in [Intents -> CallStates]
  /\ attempt \in [Intents -> {"NONE", "OPEN", "SETTLED", "FAILED"}]
  /\ fee \in [Intents -> {"OPEN", "PAID", "LOST"}]
  /\ hold \in [Intents -> {"NONE", "ACTIVE", "LAPSED", "SUPERSEDED"}]
  /\ decisions \in SUBSET (Intents \X Answers)
  /\ tx \in [Actors -> Frames]
  /\ locked \in [Sweeps -> SUBSET Intents]

Init ==
  /\ request = [i \in Intents |-> "NONE"] /\ replaces = [i \in Intents |-> None]
  /\ lineage = [i \in Intents |-> i]
  /\ call = [i \in Intents |-> "NONE"] /\ attempt = [i \in Intents |-> "NONE"]
  /\ fee = [i \in Intents |-> "OPEN"] /\ hold = [i \in Intents |-> "NONE"]
  /\ decisions = {}
  /\ tx = [p \in Actors |-> Idle]
  /\ locked = [s \in Sweeps |-> {}]

-----------------------------------------------------------------------------
\* Locks: the three advisory keys, and the rows taken FOR UPDATE or by an UPDATE.
\* An answer queues behind the answers under its policy, not behind the preflights.
PolicyKey == <<"policy:", None>>
BudgetKey == <<"untch.policy.budget.", None>>
LineageKey(l) == <<"untch.quote.lineage.", l>>
Row(i) == <<"request", i>>
Call(i) == <<"call", i>>

BudgetKeyOfRequest(p) == <<"untch.policy.budget.", tx[p].intent>>  \* a lock no other answer takes
BudgetKeyOfLedger(p) == PolicyKey  \* one key for both doors
BudgetKeyOf(p) == BudgetKey

Has(p, l) ==
  LET t == tx[p] IN
  \/ l = PolicyKey /\ t.at \in {"claim", "effects"}
  \/ l = BudgetKeyOf(p) /\ t.at = "decide"
  \/ l = Row(t.intent) /\ t.at \in {"fee", "recheck", "decide", "prior"}
  \/ l = Call(t.intent) /\ t.at \in {"recheck", "decide", "own", "prior"}
  \/ l = Row(t.prior) /\ t.at = "effects"
  \/ t.at = "prior" /\ l = LineageKey(lineage[t.intent])

\* Questions put to replace another, and not paid for yet.
Requotes == {i \in Intents : request[i] = "PROVISIONAL" /\ replaces[i] # None}

Awaited(p) ==
  LET t == tx[p] IN
  CASE t.at = "partition"             -> {PolicyKey}
    [] t.at = "recheck"               -> {BudgetKeyOf(p)}
    [] t.at = "request"               -> {Row(t.intent)}
    [] t.at = "own"                   ->
         {Row(t.intent)} \cup {LineageKey(lineage[i]) : i \in {t.intent} \cap Requotes}
    [] t.at \in {"claim", "prior"}    -> {Row(t.prior)}
    [] t.at \in {"fee", "call"}       -> {Call(t.intent)}
    [] t.at = "effects"               -> {Call(t.intent) : i \in {t.intent} \cap Escalating}
    [] OTHER                          -> {}

\* The rows a sweep may still want: its snapshot may be older than their answer.
Asked == {i \in Intents : call[i] = "FINALIZED"}

Free(l) ==
  /\ \A p \in Actors : ~Has(p, l)
  /\ \A s \in Sweeps : \A i \in locked[s] : l # Row(i)

Holds(p, l) == IF p \in Sweeps THEN \E i \in locked[p] : l = Row(i) ELSE Has(p, l)
Wants(p) == IF p \in Sweeps THEN {Row(i) : i \in Asked \ locked[p]} ELSE Awaited(p)
BlockedBy(p, q) == \E l \in Wants(p) : Holds(q, l)

At(p, stage) == tx[p].at = stage
Goto(p, stage) == tx' = [tx EXCEPT ![p].at = stage]
Finish(p) == tx' = [tx EXCEPT ![p] = Idle]
Begin(p, frame) == At(p, "idle") /\ tx' = [tx EXCEPT ![p] = frame] /\ UNCHANGED rows

\* Live authority, what budgetExposure and activeReservedExposure sum.
Held == {i \in Intents : hold[i] = "ACTIVE"}
Affordable == Cardinality(Held) + 1 <= Daily
Standing(i) == hold[i] \in {"ACTIVE", "LAPSED"}

-----------------------------------------------------------------------------
\* The paid preflight; a claim of a requote names the reservation it saw, if any.
Submit(c) ==
  \E i \in Intents, j \in Intents \cup {None} :
    /\ j # None => j # i /\ request[j] # "NONE"
    /\ Begin(c, [at |-> "partition", intent |-> i, prior |-> j,
                 says |-> IF j # None /\ Standing(j) THEN "HELD" ELSE "BARE"])

LockPartition(c) ==
  /\ At(c, "partition") /\ Free(PolicyKey)
  /\ \/ ~Affordable /\ Finish(c)
     \/ Affordable /\ Goto(c, IF tx[c].prior = None THEN "effects" ELSE "claim")
  /\ UNCHANGED rows

Supersedable == {"PROVISIONAL", "PENDING", "APPROVED"}
InFlight(l) == {k \in Intents : request[k] = "PROVISIONAL" /\ lineage[k] = l}

RequoteStands(c) ==
  LET j == tx[c].prior IN
  /\ request[j] \in Supersedable
  /\ (tx[c].says = "HELD") = Standing(j)
  /\ request[j] = "APPROVED" => Standing(j)
  /\ InFlight(lineage[j]) \ {j} = {}

ValidateRequoteClaim(c) ==
  /\ At(c, "claim") /\ Free(Row(tx[c].prior))
  /\ \/ RequoteStands(c) /\ Goto(c, "effects")
     \/ ~RequoteStands(c) /\ Finish(c)
  /\ UNCHANGED rows

\* One request per intent and per service call, one PROVISIONAL per lineage: the
\* unique indexes of migrations 028 and 031.
Insertable(i, j) == request[i] = "NONE" /\ (j # None => InFlight(lineage[j]) = {})

PersistEscalatedApproval(c) ==
  LET i == tx[c].intent  j == tx[c].prior IN
  /\ At(c, "effects") /\ i \in Escalating /\ Free(Call(i))
  /\ \/ /\ Insertable(i, j)
        /\ request' = [request EXCEPT ![i] = "PROVISIONAL"]
        /\ replaces' = [replaces EXCEPT ![i] = j]
        /\ lineage' = [lineage EXCEPT ![i] = IF j = None THEN i ELSE lineage[j]]
        /\ call' = [call EXCEPT ![i] = "PAYMENT_AUTH_VERIFIED"]
        /\ attempt' = [attempt EXCEPT ![i] = "OPEN"]
     \/ ~Insertable(i, j) /\ UNCHANGED <<request, replaces, lineage, call, attempt>>
  /\ Finish(c) /\ UNCHANGED <<hold, decisions>>

CommitApprovedAgain(c) ==  \* a replay reserves anew
  LET i == tx[c].intent IN
  /\ At(c, "effects") /\ i \notin Escalating
  /\ hold' = [hold EXCEPT ![i] = "ACTIVE"]
  /\ Finish(c) /\ UNCHANGED <<request, replaces, lineage, call, attempt, decisions>>

\* The replay marker admits an intent once.
CommitApproved(c) ==
  LET i == tx[c].intent IN
  /\ At(c, "effects") /\ i \notin Escalating
  /\ \/ hold[i] = "NONE" /\ hold' = [hold EXCEPT ![i] = "ACTIVE"]
     \/ hold[i] # "NONE" /\ UNCHANGED hold
  /\ Finish(c) /\ UNCHANGED <<request, replaces, lineage, call, attempt, decisions>>

-----------------------------------------------------------------------------
\* actOnApproval, behind a button that resolved when it was pressed.
Press(a) ==
  \E i \in Intents, answer \in Answers :
    /\ request[i] = "PENDING"
    /\ Begin(a, [at |-> "request", intent |-> i, prior |-> None, says |-> answer])

StillOpenIfPaid(i) == call[i] = "FINALIZED"  \* the state is not read again under the lock
StillOpen(i) == request[i] = "PENDING"

\* Refused if it was resolved before, or its window has closed.
LockRequest(a) ==
  /\ At(a, "request") /\ Free(Row(tx[a].intent))
  /\ \/ StillOpen(tx[a].intent) /\ Goto(a, "fee")
     \/ Finish(a)
  /\ UNCHANGED rows

\* Refused if the call is not FINALIZED, or the channel's binding or token fails.
LockServiceCall(a) ==
  /\ At(a, "fee") /\ Free(Call(tx[a].intent))
  /\ \/ Finish(a)
     \/ call[tx[a].intent] = "FINALIZED" /\ tx[a].says = "APPROVE" /\ Goto(a, "recheck")
  /\ UNCHANGED rows

\* The deferred trigger of migration 030: one decision binds a request.
Decide(a, answer) ==
  LET i == tx[a].intent IN
  /\ tx[a].says = answer /\ \A d \in decisions : d[1] # i
  /\ decisions' = decisions \cup {<<i, answer>>}
  /\ Finish(a) /\ UNCHANGED <<replaces, lineage, call, attempt>>

Deny(a) ==
  LET i == tx[a].intent IN
  /\ At(a, "fee") /\ Free(Call(i)) /\ call[i] = "FINALIZED" /\ Decide(a, "DENY")
  /\ request' = [request EXCEPT ![i] = "REJECTED"] /\ UNCHANGED hold

\* Refused too if the policy or the wallet's authority is gone.
Recheck(a) ==
  /\ At(a, "recheck") /\ Free(BudgetKeyOf(a))
  /\ \/ Affordable /\ Goto(a, "decide")
     \/ Finish(a)
  /\ UNCHANGED rows

Approve(a) ==
  LET i == tx[a].intent IN
  /\ At(a, "decide") /\ Decide(a, "APPROVE")
  /\ request' = [request EXCEPT ![i] = "APPROVED"] /\ hold' = [hold EXCEPT ![i] = "ACTIVE"]

\* PgApprovalStore.expire, one UPDATE: each overdue row is locked in its turn, a
\* row somebody else holds is waited for, and the lock stays though the row turns
\* out to be answered.
LockOverdue(s) ==
  \E i, next \in Asked \ locked[s] :
    i # next /\ Free(Row(i)) /\ locked' = [locked EXCEPT ![s] = @ \cup {i}] /\ UNCHANGED rows

Release(s) == locked' = [locked EXCEPT ![s] = {}]

\* The last row, and the commit that ends what is still open.
Expire(s) ==
  \E last \in Asked \ locked[s] :
    /\ Free(Row(last)) /\ Release(s)
    /\ request' = [i \in Intents |-> IF i \in locked[s] \cup {last} /\ request[i] = "PENDING"
                                     THEN "EXPIRED" ELSE request[i]]
    /\ UNCHANGED <<replaces, lineage, call, attempt, hold, decisions>>

AbortSweep(s) == locked[s] # {} /\ Release(s) /\ UNCHANGED rows

-----------------------------------------------------------------------------
\* finalizeSettlement, on evidence asked for before its transaction began.
ListedUnasked == {"PAYMENT_AUTH_VERIFIED"}  \* a call once asked about is not asked about again
Listed == {"PAYMENT_AUTH_VERIFIED", "SETTLEMENT_PENDING"}

Truth(i) ==
  {"UNRESOLVED"} \cup (IF fee[i] = "PAID" THEN {"CONFIRMED"} ELSE {})
                 \cup (IF fee[i] = "LOST" THEN {"FAILED"} ELSE {})

AskFor(f, i, evidence) ==
  /\ call[i] \in Listed /\ attempt[i] \in {"OPEN", "SETTLED"} /\ evidence \in Truth(i)
  /\ Begin(f, [at |-> "call", intent |-> i, prior |-> None, says |-> evidence])

AskAuthority(f) == \E i \in Intents, evidence \in Evidence : AskFor(f, i, evidence)

LockCall(f) ==
  /\ At(f, "call") /\ Free(Call(tx[f].intent)) /\ Goto(f, "own") /\ UNCHANGED rows

\* The call and its request are both locked.
Judging(f) == At(f, "own") /\ Free(Row(tx[f].intent))

AlreadyActive(f) ==
  Judging(f) /\ call[tx[f].intent] = "FINALIZED" /\ Finish(f) /\ UNCHANGED rows

Finds(f, evidence) ==
  Judging(f) /\ call[tx[f].intent] # "FINALIZED" /\ tx[f].says = evidence

RecordFailure(f) ==
  LET i == tx[f].intent IN
  /\ Finds(f, "FAILED")
  /\ attempt' = [attempt EXCEPT ![i] = IF @ = "OPEN" THEN "FAILED" ELSE @]
  /\ call' = [call EXCEPT ![i] = "SETTLEMENT_FAILED"]
  /\ request' = [request EXCEPT ![i] = IF @ = "PROVISIONAL" THEN "PAYMENT_FAILED" ELSE @]
  /\ Finish(f) /\ UNCHANGED <<replaces, lineage, hold, decisions>>

\* Writes the attempt's state on the call.
LeaveUnknown(f) ==
  /\ Finds(f, "UNRESOLVED")
  /\ call' = [call EXCEPT ![tx[f].intent] = "UNKNOWN"]
  /\ Finish(f) /\ UNCHANGED <<request, replaces, lineage, attempt, hold, decisions>>

LeaveUnresolved(f) ==
  /\ Finds(f, "UNRESOLVED")
  /\ call' = [call EXCEPT ![tx[f].intent] = "SETTLEMENT_PENDING"]
  /\ Finish(f) /\ UNCHANGED <<request, replaces, lineage, attempt, hold, decisions>>

ConfirmedOrPending(f) == \E e \in {"CONFIRMED", "UNRESOLVED"} : Finds(f, e)  \* a pending success
Confirmed(f) == Finds(f, "CONFIRMED")

\* The throw for a request that is not PROVISIONAL is out of reach: the facilitator
\* never calls one fee both paid and lost.  The lineage is locked before the prior:
\* with one PROVISIONAL question in it, nobody else ever holds that key.
LockPrior(f) ==
  LET i == tx[f].intent IN
  /\ Confirmed(f) /\ i \in Requotes /\ Free(LineageKey(lineage[i]))
  /\ tx' = [tx EXCEPT ![f].at = "prior", ![f].prior = replaces[i]] /\ UNCHANGED rows

PriorLocked(f) == At(f, "prior") /\ Free(Row(tx[f].prior))

NotSupersedable(f) ==
  PriorLocked(f) /\ request[tx[f].prior] \notin Supersedable /\ Finish(f) /\ UNCHANGED rows

RetiredInName(j) == hold  \* the authority outlives its question
Retired(j) == [k \in Intents |-> IF k = j /\ Standing(k) THEN "SUPERSEDED" ELSE hold[k]]

\* supersedePriorQuote, when there is one, and the activation, in one commit.
Activate(f) ==
  LET i == tx[f].intent  j == tx[f].prior IN
  /\ \/ Confirmed(f) /\ request[i] = "PROVISIONAL" /\ replaces[i] = None
     \/ PriorLocked(f) /\ request[j] \in Supersedable
  /\ request' = [k \in Intents |-> IF k = i THEN "PENDING"
                                   ELSE IF k = j THEN "SUPERSEDED" ELSE request[k]]
  /\ hold' = Retired(j)
  /\ call' = [call EXCEPT ![i] = "FINALIZED"]
  /\ attempt' = [attempt EXCEPT ![i] = "SETTLED"]
  /\ Finish(f) /\ UNCHANGED <<replaces, lineage, decisions>>

-----------------------------------------------------------------------------
\* A transaction that dies, or that Postgres ends because it waits for one that
\* waits for it, has written nothing.
Abort(p) == tx[p] # Idle /\ Finish(p) /\ UNCHANGED rows

\* The chain and the clock.
SettleFee(i) ==
  /\ call[i] # "NONE" /\ fee[i] = "OPEN"
  /\ \E end \in {"PAID", "LOST"} : fee' = [fee EXCEPT ![i] = end]
  /\ UNCHANGED rows

Lapse(i) ==
  /\ hold[i] = "ACTIVE" /\ hold' = [hold EXCEPT ![i] = "LAPSED"]
  /\ UNCHANGED <<request, replaces, lineage, call, attempt, decisions, fee>>

CallerStep(c) ==
  LockPartition(c) \/ ValidateRequoteClaim(c) \/ PersistEscalatedApproval(c) \/ CommitApproved(c)
AnswererStep(a) == LockRequest(a) \/ LockServiceCall(a) \/ Deny(a) \/ Recheck(a) \/ Approve(a)
FinalizerStep(f) ==
  \/ LockCall(f) \/ AlreadyActive(f) \/ RecordFailure(f) \/ LeaveUnresolved(f)
  \/ LockPrior(f) \/ NotSupersedable(f) \/ Activate(f)

Step ==
  \/ \E c \in Callers : Submit(c) \/ CallerStep(c)
  \/ \E a \in Answerers : Press(a) \/ AnswererStep(a)
  \/ \E f \in Finalizers : AskAuthority(f) \/ FinalizerStep(f)
  \/ \E p \in Actors : Abort(p)

Sweep == \E s \in Sweeps : LockOverdue(s) \/ Expire(s) \/ AbortSweep(s)

Next ==
  \/ Step /\ UNCHANGED <<fee, locked>>
  \/ Sweep /\ UNCHANGED <<fee, tx>>
  \/ (\E i \in Intents : SettleFee(i) \/ Lapse(i)) /\ UNCHANGED <<tx, locked>>

Spec == Init /\ [][Next]_vars
=============================================================================
