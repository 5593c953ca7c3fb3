-------------------------- MODULE ApprovalWaitsProofs --------------------------
(***************************************************************************)
(* Who waits for whom among the transactions of ApprovalAuthority, for any *)
(* number of them: every circle of waiting transactions holds an answer    *)
(* and a finalizer that repeats itself on the same finished call, or a     *)
(* sweep and what it crosses: another sweep, or the preflight of a requote *)
(* of a question the sweep still wants.                                    *)
(*                                                                         *)
(* IInv of ApprovalProofs is not enough.  That a requote never waits for   *)
(* the requote it replaces takes one PROVISIONAL question per lineage;     *)
(* that a preflight and the finalizer of a rival requote never wait for    *)
(* each other takes what the preflight saw under the policy's lock.        *)
(*                                                                         *)
(* The same facts, with what ApprovalPromiseProofs says of questions and   *)
(* of consent, show that a lineage has one live question: a requote on its *)
(* way to be one replaces the one there is, and a preflight past the check *)
(* of its claim holds the row of the question it replaces.                 *)
(***************************************************************************)
EXTENDS ApprovalPromiseProofs

USE PolicyAssumption, ActorsAssumption

\* One PROVISIONAL question per lineage, which a requote shares with its prior.
Lineages ==
  /\ \A i \in Intents : request[i] # "NONE" => request[lineage[i]] # "NONE"
  /\ \A i \in Intents : replaces[i] # None =>
       /\ request[i] # "NONE" /\ request[replaces[i]] # "NONE"
       /\ lineage[i] = lineage[replaces[i]]
  /\ \A i, k \in Intents :
       request[i] = "PROVISIONAL" /\ request[k] = "PROVISIONAL" /\ lineage[i] = lineage[k] => i = k

\* A preflight past the check of its claim has no rival in its lineage.
ClaimFrame(t) ==
  t.prior # None =>
    /\ request[t.prior] # "NONE"
    /\ t.at = "effects" => InFlight(lineage[t.prior]) \subseteq {t.prior}

\* A call is owned by one finalizer at a time.
Owning(t) == t.at \in {"own", "prior"}
Owners ==
  \A f, g \in Finalizers :
    Owning(tx[f]) /\ Owning(tx[g]) /\ tx[f].intent = tx[g].intent => f = g

Claims == \A c \in Callers : ClaimFrame(tx[c])

WInv == Lineages /\ Claims /\ Owners

-----------------------------------------------------------------------------
\* WHAT A STEP DOES TO THE QUESTIONS

\* No question appears, and none becomes PROVISIONAL.
KeepsQuestions ==
  /\ UNCHANGED <<replaces, lineage>>
  /\ \A i \in Intents : /\ request'[i] = "NONE" <=> request[i] = "NONE"
                        /\ request'[i] = "PROVISIONAL" => request[i] = "PROVISIONAL"

\* A preflight that holds the policy's lock puts one.
Puts(c) ==
  LET i == tx[c].intent  j == tx[c].prior IN
  /\ tx[c].at = "effects" /\ i \in Intents /\ j \in Intents \cup {None} /\ j # i
  /\ Insertable(i, j) /\ Finish(c)
  /\ request' = [request EXCEPT ![i] = "PROVISIONAL"]
  /\ replaces' = [replaces EXCEPT ![i] = j]
  /\ lineage' = [lineage EXCEPT ![i] = IF j = None THEN i ELSE lineage[j]]

LEMMA QuestionSteps ==
  ASSUME IInv, [Next]_vars
  PROVE  KeepsQuestions \/ \E c \in Callers : Puts(c)
<1> USE DEF IInv
<1>1. CASE UNCHANGED <<request, replaces, lineage>>
  BY <1>1 DEF KeepsQuestions
<1>2. ASSUME NEW i \in Intents, NEW end \in RequestStates \ {"NONE", "PROVISIONAL"},
             request[i] # "NONE", request' = [request EXCEPT ![i] = end],
             UNCHANGED <<replaces, lineage>>
      PROVE  KeepsQuestions
  BY <1>2 DEF KeepsQuestions, TypeOK
<1>3. CASE \E c \in Callers : PersistEscalatedApproval(c)
  <2>1. PICK c \in Callers : PersistEscalatedApproval(c)
    BY <1>3
  <2>2. c \in Actors /\ tx[c] \in Frames /\ tx[c].at = "effects" /\ CallerFrame(tx[c])
    BY <2>1 DEF PersistEscalatedApproval, At, Actors, TypeOK, Roles
  <2>3. /\ tx[c].intent \in Intents /\ tx[c].prior \in Intents \cup {None}
        /\ tx[c].prior # tx[c].intent
    BY <2>2 DEF CallerFrame, Frames
  <2> QED
    BY <1>1, <2>1, <2>2, <2>3 DEF PersistEscalatedApproval, Puts
<1>4. CASE \E a \in Answerers : Deny(a) \/ Approve(a)
  <2>1. PICK a \in Answerers : Deny(a) \/ Approve(a)
    BY <1>4
  <2>2. tx[a].intent \in Intents /\ request[tx[a].intent] = "PENDING"
    BY <2>1 DEF Deny, Approve, At, Roles, AnswerFrame, Answering
  <2> QED
    BY <1>2, <2>1, <2>2 DEF Deny, Approve, Decide, RequestStates
<1>5. CASE \E f \in Finalizers : RecordFailure(f)
  <2>1. PICK f \in Finalizers : RecordFailure(f)
    BY <1>5
  <2>2. tx[f].intent \in Intents
    BY <2>1 DEF RecordFailure, Finds, Judging, At, Roles, FinalFrame
  <2> QED
    BY <2>1, <2>2 DEF RecordFailure, KeepsQuestions, TypeOK
<1>6. CASE \E f \in Finalizers : Activate(f)
  <2>1. PICK f \in Finalizers : Activate(f)
    BY <1>6
  <2>2. PICK j \in Intents \cup {None} : Activates(f, tx[f].intent, j)
    BY <2>1, ActivateActivates
  <2>3. j # None => request[j] # "NONE"
    BY <2>2 DEF Activates, Supersedable
  <2> QED
    BY <2>2, <2>3 DEF Activates, KeepsQuestions
<1>7. CASE Sweep /\ UNCHANGED <<fee, tx>>
  <2>1. UNCHANGED <<request, replaces, lineage>> \/ \E S \in SUBSET Intents : Expires(S)
    BY <1>7, ExpireExpires DEF Sweep, LockOverdue, AbortSweep, rows
  <2> QED
    BY <1>1, <2>1 DEF Expires, KeepsQuestions
<1> QED
  BY <1>1, <1>3, <1>4, <1>5, <1>6, <1>7
  DEF Next, Step, vars, rows, CallerStep, AnswererStep, FinalizerStep, Submit, Begin, LockPartition,
      ValidateRequoteClaim, CommitApproved, Press, LockRequest, LockServiceCall, Recheck,
      AskAuthority, AskFor, LockCall, AlreadyActive, LeaveUnresolved, LockPrior, NotSupersedable,
      Abort, SettleFee, Lapse

LEMMA LineagesHold ==
  ASSUME IInv, Lineages, Claims, [Next]_vars
  PROVE  Lineages'
<1> TypeOK /\ Ledger
  BY DEF IInv
<1>1. CASE KeepsQuestions
  BY <1>1 DEF Lineages, KeepsQuestions, TypeOK
<1>2. ASSUME NEW c \in Callers, Puts(c)
      PROVE  Lineages'
  <2> DEFINE i == tx[c].intent
             j == tx[c].prior
  <2>1. /\ i \in Intents /\ j \in Intents \cup {None} /\ j # i /\ request[i] = "NONE"
        /\ request' = [request EXCEPT ![i] = "PROVISIONAL"]
        /\ replaces' = [replaces EXCEPT ![i] = j]
        /\ lineage' = [lineage EXCEPT ![i] = IF j = None THEN i ELSE lineage[j]]
    BY <1>2 DEF Puts, Insertable
  <2>2. j # None => request[j] # "NONE" /\ InFlight(lineage[j]) = {}
    BY <1>2 DEF Puts, Insertable, Claims, ClaimFrame
  <2>3. \A k \in Intents : replaces[k] # i
    BY <2>1 DEF Lineages
  <2>4. \A k \in Intents : request[k] = "PROVISIONAL" => lineage[k] # lineage'[i]
    BY <2>1, <2>2 DEF Lineages, InFlight, TypeOK
  <2>5. \A k \in Intents : request'[k] # "NONE" => request'[lineage'[k]] # "NONE"
    BY <2>1, <2>2 DEF Lineages, TypeOK
  <2>6. \A k \in Intents : replaces'[k] # None =>
          /\ request'[k] # "NONE" /\ request'[replaces'[k]] # "NONE"
          /\ lineage'[k] = lineage'[replaces'[k]]
    BY <2>1, <2>2, <2>3 DEF Lineages, TypeOK
  <2>7. \A k, m \in Intents : request'[k] = "PROVISIONAL" /\ request'[m] = "PROVISIONAL"
          /\ lineage'[k] = lineage'[m] => k = m
    BY <2>1, <2>4 DEF Lineages, TypeOK
  <2> QED
    BY <2>5, <2>6, <2>7 DEF Lineages
<1> QED
  BY <1>1, <1>2, QuestionSteps

-----------------------------------------------------------------------------
\* WHAT A STEP DOES TO THE FRAMES

LEMMA CallerSteps ==
  ASSUME IInv, [Next]_vars, NEW c \in Callers
  PROVE  \/ tx'[c] \in {tx[c], Idle}
         \/ /\ UNCHANGED rows
            /\ tx'[c].prior # None => request[tx'[c].prior] # "NONE" \/ tx'[c].prior = tx[c].prior
            /\ tx'[c].at = "effects" /\ tx'[c].prior # None =>
                 tx'[c].prior = tx[c].prior /\ RequoteStands(c) /\ ValidateRequoteClaim(c)
<1> c \in Actors /\ tx \in [Actors -> Frames]
  BY DEF Actors, IInv, TypeOK
<1>1. ASSUME NEW p \in Actors, p # c, NEW t, tx' = [tx EXCEPT ![p] = t]
      PROVE  tx'[c] = tx[c]
  BY <1>1
<1>2. ASSUME NEW p \in Actors, Finish(p)
      PROVE  tx'[c] \in {tx[c], Idle}
  BY <1>2 DEF Finish
<1>3. CASE UNCHANGED tx
  BY <1>3
<1>4. CASE Submit(c)
  <2>1. PICK i \in Intents, j \in Intents \cup {None} :
          /\ j # None => j # i /\ request[j] # "NONE"
          /\ Begin(c, [at |-> "partition", intent |-> i, prior |-> j,
                       says |-> IF j # None /\ Standing(j) THEN "HELD" ELSE "BARE"])
    BY <1>4 DEF Submit
  <2> QED
    BY <2>1 DEF Begin
<1>5. CASE LockPartition(c)
  <2>1. CASE Goto(c, IF tx[c].prior = None THEN "effects" ELSE "claim") /\ UNCHANGED rows
    <3>1. tx'[c] = [tx[c] EXCEPT !.at = IF tx[c].prior = None THEN "effects" ELSE "claim"]
      BY <2>1 DEF Goto
    <3> QED
      BY <2>1, <3>1 DEF Frames
  <2> QED
    BY <1>2, <1>5, <2>1 DEF LockPartition
<1>6. CASE ValidateRequoteClaim(c)
  <2>1. CASE RequoteStands(c) /\ Goto(c, "effects") /\ UNCHANGED rows
    <3>1. tx'[c] = [tx[c] EXCEPT !.at = "effects"]
      BY <2>1 DEF Goto
    <3> QED
      BY <1>6, <2>1, <3>1 DEF Frames
  <2> QED
    BY <1>2, <1>6, <2>1 DEF ValidateRequoteClaim
<1>7. CASE PersistEscalatedApproval(c) \/ CommitApproved(c)
  BY <1>2, <1>7 DEF PersistEscalatedApproval, CommitApproved
<1>8. ASSUME NEW d \in Callers, d # c, Submit(d) \/ CallerStep(d)
      PROVE  tx'[c] = tx[c]
  BY <1>1, <1>8 DEF Submit, CallerStep, LockPartition, ValidateRequoteClaim,
     PersistEscalatedApproval, CommitApproved, Begin, Goto, Finish, Actors
<1>9. ASSUME NEW a \in Answerers, Press(a) \/ AnswererStep(a)
      PROVE  tx'[c] = tx[c]
  BY <1>1, <1>9 DEF Press, AnswererStep, LockRequest, LockServiceCall, Deny, Recheck, Approve,
     Decide, Begin, Goto, Finish, Actors
<1>10. ASSUME NEW f \in Finalizers, AskAuthority(f) \/ FinalizerStep(f)
       PROVE  tx'[c] = tx[c]
  BY <1>1, <1>10 DEF AskAuthority, AskFor, FinalizerStep, LockCall, AlreadyActive, RecordFailure,
     LeaveUnresolved, LockPrior, NotSupersedable, Activate, Begin, Goto, Finish, Actors
<1>11. CASE \E p \in Actors : Abort(p)
  BY <1>2, <1>11 DEF Abort
<1> QED
  BY <1>3, <1>4, <1>5, <1>6, <1>7, <1>8, <1>9, <1>10, <1>11
  DEF Next, Step, CallerStep, vars

LEMMA ClaimsHold ==
  ASSUME IInv, Lineages, Claims, [Next]_vars
  PROVE  Claims'
<1> TypeOK /\ Apart
  BY DEF IInv
<1> SUFFICES ASSUME NEW c \in Callers, tx'[c].prior # None
             PROVE  /\ request'[tx'[c].prior] # "NONE"
                    /\ tx'[c].at = "effects" =>
                         InFlight(lineage[tx[c].prior])' \subseteq {tx'[c].prior}
  BY DEF Claims, ClaimFrame
<1> DEFINE j == tx'[c].prior
<1> c \in Actors
  BY DEF Actors
<1>1. tx'[c] # Idle
  BY DEF Idle
<1>2. j \in Intents
  BY NextIsSound DEF IInv, TypeOK, Frames
<1>3. CASE tx'[c] = tx[c]
  <2>1. request[j] # "NONE" /\ (tx[c].at = "effects" => InFlight(lineage[j]) \subseteq {j})
    BY <1>3 DEF Claims, ClaimFrame
  <2>2. CASE KeepsQuestions
    BY <1>2, <1>3, <2>1, <2>2 DEF KeepsQuestions, InFlight
  <2>3. ASSUME NEW d \in Callers, Puts(d)
        PROVE  /\ request'[j] # "NONE" /\ tx'[c].at # "effects"
    <3>1. InPolicy(tx[d]) /\ d \in Actors /\ tx'[d] = Idle
      BY <2>3 DEF Puts, InPolicy, Finish, TypeOK, Actors
    <3>2. c # d
      BY <1>1, <3>1
    <3> QED
      BY <1>2, <1>3, <2>1, <2>3, <3>1, <3>2 DEF Puts, Apart, InPolicy, TypeOK
  <2> QED
    BY <2>2, <2>3, QuestionSteps
<1>4. CASE /\ UNCHANGED rows
           /\ request[j] # "NONE" \/ j = tx[c].prior
           /\ tx'[c].at = "effects" => j = tx[c].prior /\ RequoteStands(c)
  <2>1. request[j] # "NONE"
    BY <1>4 DEF Claims, ClaimFrame
  <2> QED
    BY <1>4, <2>1 DEF rows, RequoteStands, InFlight
<1> QED
  BY <1>1, <1>3, <1>4, CallerSteps

LEMMA FinalizerSteps ==
  ASSUME IInv, [Next]_vars, NEW f \in Finalizers, Owning(tx'[f])
  PROVE  \/ Owning(tx[f]) /\ tx'[f].intent = tx[f].intent
         \/ /\ tx'[f].intent = tx[f].intent /\ Free(Call(tx[f].intent))
            /\ \A g \in Finalizers \ {f} : tx'[g] = tx[g]
<1> f \in Actors /\ tx \in [Actors -> Frames]
  BY DEF Actors, IInv, TypeOK
<1>1. ASSUME NEW p \in Actors, p # f, NEW t, tx' = [tx EXCEPT ![p] = t]
      PROVE  tx'[f] = tx[f]
  BY <1>1
<1>2. ASSUME NEW p \in Actors, Finish(p)
      PROVE  tx'[f] = tx[f]
  BY <1>2 DEF Finish, Owning, Idle
<1>3. CASE UNCHANGED tx
  BY <1>3
<1>4. CASE AskAuthority(f)
  <2>1. tx'[f].at = "call"
    BY <1>4 DEF AskAuthority, AskFor, Begin
  <2> QED
    BY <2>1 DEF Owning
<1>5. CASE LockCall(f)
  <2>1. tx'[f] = [tx[f] EXCEPT !.at = "own"] /\ \A g \in Finalizers \ {f} : tx'[g] = tx[g]
    BY <1>5 DEF LockCall, Goto, Actors
  <2> QED
    BY <1>5, <2>1 DEF LockCall, Frames
<1>6. CASE LockPrior(f)
  <2>1. /\ tx[f].at = "own"
        /\ tx'[f] = [tx[f] EXCEPT !.at = "prior", !.prior = replaces[tx[f].intent]]
    BY <1>6 DEF LockPrior, Confirmed, Finds, Judging, At
  <2> QED
    BY <2>1 DEF Owning, Frames
<1>7. CASE AlreadyActive(f) \/ RecordFailure(f) \/ LeaveUnresolved(f) \/ NotSupersedable(f) \/ Activate(f)
  BY <1>2, <1>7 DEF AlreadyActive, RecordFailure, LeaveUnresolved, NotSupersedable, Activate
<1>8. ASSUME NEW c \in Callers, Submit(c) \/ CallerStep(c)
      PROVE  tx'[f] = tx[f]
  BY <1>1, <1>8 DEF Submit, CallerStep, LockPartition, ValidateRequoteClaim,
     PersistEscalatedApproval, CommitApproved, Begin, Goto, Finish, Actors
<1>9. ASSUME NEW a \in Answerers, Press(a) \/ AnswererStep(a)
      PROVE  tx'[f] = tx[f]
  BY <1>1, <1>9 DEF Press, AnswererStep, LockRequest, LockServiceCall, Deny, Recheck, Approve,
     Decide, Begin, Goto, Finish, Actors
<1>10. ASSUME NEW g \in Finalizers, g # f, AskAuthority(g) \/ FinalizerStep(g)
       PROVE  tx'[f] = tx[f]
  BY <1>1, <1>10 DEF AskAuthority, AskFor, FinalizerStep, LockCall, AlreadyActive, RecordFailure,
     LeaveUnresolved, LockPrior, NotSupersedable, Activate, Begin, Goto, Finish, Actors
<1>11. CASE \E p \in Actors : Abort(p)
  BY <1>2, <1>11 DEF Abort
<1> QED
  BY <1>3, <1>4, <1>5, <1>6, <1>7, <1>8, <1>9, <1>10, <1>11
  DEF Next, Step, FinalizerStep, vars

LEMMA FreeCall ==
  ASSUME NEW i \in Intents, Free(Call(i)), NEW q \in Actors
  PROVE  Owning(tx[q]) => tx[q].intent # i
BY DEF Free, Has, Owning

LEMMA OwnersHold ==
  ASSUME IInv, Owners, [Next]_vars
  PROVE  Owners'
<1> SUFFICES ASSUME NEW f \in Finalizers, NEW g \in Finalizers, f # g,
                    Owning(tx'[f]), Owning(tx'[g]), tx'[f].intent = tx'[g].intent
             PROVE  FALSE
  BY DEF Owners, Owning
<1> f \in Actors /\ g \in Actors
  BY DEF Actors
<1>1. tx'[f].intent \in Intents
  <2>1. FinalFrame(tx[f])'
    BY NextIsSound DEF IInv, Roles
  <2> QED
    BY <2>1 DEF FinalFrame, Owning
<1>2. ~(Free(Call(tx[f].intent)) /\ tx'[f].intent = tx[f].intent /\ tx'[g] = tx[g])
  BY <1>1, FreeCall
<1>3. ~(Free(Call(tx[g].intent)) /\ tx'[g].intent = tx[g].intent /\ tx'[f] = tx[f])
  BY <1>1, FreeCall
<1> QED
  BY <1>2, <1>3, FinalizerSteps DEF Owners

-----------------------------------------------------------------------------
\* THE CIRCLES

LEMMA WaitInvariance ==
  Spec => [](IInv /\ WInv)
<1>1. Init => WInv
  BY DEF Init, WInv, Lineages, Claims, ClaimFrame, Owners, Owning, Idle, Actors
<1>2. IInv /\ WInv /\ [Next]_vars => WInv'
  BY LineagesHold, ClaimsHold, OwnersHold DEF WInv
<1> QED
  BY <1>1, <1>2, Invariance, PTL DEF Spec

\* A finalizer that waits for a row does not wait for another finalizer, a
\* preflight waits for one that owns the call it wants, and so on: one wait.
LEMMA OneWait ==
  ASSUME IInv, WInv, NEW p \in Actors, NEW q \in Actors, BlockedBy(p, q)
  PROVE  /\ tx[p].at \notin {"idle", "decide"}
         /\ tx[p].at = "recheck" => tx[q].at = "decide"
         /\ tx[p].at = "fee" => Repeats(p, q)
         /\ tx[p].at = "partition" => InPolicy(tx[q])
         /\ tx[p].at = "claim" => Answering(tx[q]) \/ tx[q].at = "prior"
         /\ tx[p].at = "effects" =>
              tx[q].intent = tx[p].intent /\ (Answering(tx[q]) \/ Owning(tx[q]))
         /\ tx[p].at = "request" => Answering(tx[q]) \/ tx[q].at \in {"prior", "effects"}
         /\ tx[p].at = "call" => Answering(tx[q]) \/ Owning(tx[q])
         /\ tx[p].at = "own" =>
              Answering(tx[q]) \/ (tx[q].at = "effects" /\ tx[q].prior = tx[p].intent)
         /\ tx[p].at = "prior" =>
              Answering(tx[q]) \/ (tx[q].at = "effects" /\ tx[q].prior = tx[p].prior)
<1> TypeOK /\ Roles /\ Apart /\ Ledger /\ PaidBeforeAsked
  BY DEF IInv
<1> USE DEF Awaited, BudgetKeyOf, BudgetKey, PolicyKey, LineageKey, Row, Call
<1>1. PICK l \in Awaited(p) : Has(q, l)
  BY DEF BlockedBy, Wants, Holds, Actors
<1>2. tx[p] \in Frames /\ tx[q] \in Frames
  BY DEF TypeOK
<1>3. tx[p].at \notin {"idle", "decide"}
  BY <1>1
<1>4. tx[p].at = "recheck" => tx[q].at = "decide"
  BY <1>1 DEF Has
<1>5. tx[p].at = "partition" => InPolicy(tx[q])
  BY <1>1 DEF Has, InPolicy
<1>6. tx[p].at \in {"fee", "call"} =>
        tx[q].intent = tx[p].intent /\ tx[q].at \in {"recheck", "decide", "own", "prior"}
  BY <1>1 DEF Has
<1>7. tx[p].at = "effects" =>
        tx[q].intent = tx[p].intent /\ tx[q].at \in {"recheck", "decide", "own", "prior"}
  BY <1>1 DEF Has
<1>8. tx[p].at \in {"request", "own"} =>
        \/ tx[q].intent = tx[p].intent /\ (Answering(tx[q]) \/ tx[q].at = "prior")
        \/ tx[q].prior = tx[p].intent /\ tx[q].at = "effects"
  <2>1. CASE l = Row(tx[p].intent)
    BY <1>1, <2>1 DEF Has, Answering
  <2>2. CASE /\ tx[p].at = "own" /\ tx[p].intent \in Requotes
             /\ l = LineageKey(lineage[tx[p].intent])
    <3>1. tx[q].at = "prior" /\ lineage[tx[q].intent] = lineage[tx[p].intent]
      BY <1>1, <2>2 DEF Has
    <3>2. tx[q].intent \in Intents /\ request[tx[q].intent] = "PROVISIONAL"
      BY <3>1 DEF Actors, Roles, CallerFrame, AnswerFrame, FinalFrame
    <3> QED
      BY <2>2, <3>1, <3>2 DEF Requotes, WInv, Lineages
  <2> QED
    BY <1>1, <2>1, <2>2
<1>9. tx[p].at \in {"claim", "prior"} =>
        \/ tx[q].intent = tx[p].prior /\ (Answering(tx[q]) \/ tx[q].at = "prior")
        \/ tx[q].prior = tx[p].prior /\ tx[q].at = "effects"
  BY <1>1 DEF Has, Answering
<1>10. tx[p].at = "fee" => Repeats(p, q)
  <2> SUFFICES ASSUME tx[p].at = "fee" PROVE Repeats(p, q)
    OBVIOUS
  <2>1. p \in Answerers /\ tx[p].intent \in Intents /\ request[tx[p].intent] = "PENDING"
    BY DEF Actors, Roles, CallerFrame, AnswerFrame, FinalFrame, Answering
  <2>2. tx[q].at \notin {"recheck", "decide"}
    <3> SUFFICES ASSUME tx[q].at \in {"recheck", "decide"} PROVE FALSE
      OBVIOUS
    <3>1. q \in Answerers
      BY DEF Actors, Roles, CallerFrame, FinalFrame
    <3> QED
      BY <1>6, <2>1, <3>1 DEF Apart, Answering
  <2>3. q \in Finalizers /\ tx[q].intent = tx[p].intent
    BY <1>6, <2>2 DEF Actors, Roles, CallerFrame, AnswerFrame
  <2> QED
    BY <2>1, <2>3 DEF Repeats, PaidBeforeAsked
<1>11. tx[p].at = "claim" => tx[q].at # "effects"
  BY <1>1 DEF Actors, Roles, AnswerFrame, FinalFrame, CallerFrame, Apart, InPolicy
<1>12. tx[p].at = "own" => tx[q].at # "prior" \/ tx[q].intent # tx[p].intent
  BY DEF Actors, Roles, AnswerFrame, CallerFrame, WInv, Owners, Owning
<1>13. tx[p].at = "prior" => tx[q].at # "prior" \/ tx[q].intent # tx[p].prior
  <2> SUFFICES ASSUME tx[p].at = "prior", tx[q].at = "prior", tx[q].intent = tx[p].prior
               PROVE  FALSE
    OBVIOUS
  <2>1. p \in Finalizers /\ q \in Finalizers
    BY DEF Actors, Roles, AnswerFrame, CallerFrame
  <2> DEFINE i == tx[p].intent
             j == tx[q].intent
  <2>2. /\ i \in Intents /\ request[i] = "PROVISIONAL" /\ j = replaces[i] /\ j # None
        /\ j \in Intents /\ request[j] = "PROVISIONAL"
    BY <2>1 DEF Roles, FinalFrame
  <2> QED
    BY <2>2 DEF WInv, Lineages, Ledger
<1> QED
  BY <1>3, <1>4, <1>5, <1>6, <1>7, <1>8, <1>9, <1>10, <1>11, <1>12, <1>13
  DEF InPolicy, Answering, Owning

\* A preflight that waits for the owner of its call is not waited for by it.
LEMMA NoWaitBack ==
  ASSUME IInv, WInv, NEW c \in Actors, NEW f \in Actors, NEW d \in Actors,
         tx[c].at = "effects", tx[f].intent = tx[c].intent, tx[d].at = "effects",
         \/ tx[f].at = "own" /\ tx[d].prior = tx[f].intent
         \/ tx[f].at = "prior" /\ tx[d].prior = tx[f].prior
  PROVE  FALSE
<1> TypeOK /\ Roles /\ Apart /\ Ledger
  BY DEF IInv
<1>1. c \in Callers /\ d \in Callers /\ f \in Finalizers
  BY DEF Actors, Roles, AnswerFrame, FinalFrame, CallerFrame
<1>2. d = c
  BY <1>1 DEF Apart, InPolicy
<1>3. CASE tx[f].at = "own" /\ tx[d].prior = tx[f].intent
  <2>1. tx[c].intent \in Intents /\ (tx[c].prior # None => tx[c].prior # tx[c].intent)
    BY <1>1 DEF Roles, CallerFrame
  <2> QED
    BY <1>2, <1>3, <2>1
<1>4. CASE tx[f].at = "prior" /\ tx[d].prior = tx[f].prior
  <2> DEFINE i == tx[f].intent
             j == tx[f].prior
  <2>1. i \in Intents /\ request[i] = "PROVISIONAL" /\ j = replaces[i] /\ j # None
    BY <1>1, <1>4 DEF Roles, FinalFrame
  <2>2. InFlight(lineage[j]) \subseteq {j}
    BY <1>1, <1>2, <1>4, <2>1 DEF WInv, Claims, ClaimFrame
  <2>3. i \in InFlight(lineage[j])
    BY <2>1 DEF InFlight, WInv, Lineages
  <2> QED
    BY <2>1, <2>2, <2>3 DEF Ledger
<1> QED
  BY <1>3, <1>4

\* A sweep holds rows, and waits for those who hold one.
LEMMA SweepHolds ==
  ASSUME NEW p \in Actors, NEW s \in Sweeps, BlockedBy(p, s)
  PROVE  ~Answering(tx[p])
<1>1. PICK i \in locked[s] : Row(i) \in Awaited(p)
  BY DEF BlockedBy, Wants, Holds, Actors
<1> QED
  BY <1>1 DEF Awaited, Answering, Row, Call, BudgetKeyOf, BudgetKey

LEMMA SweepWaits ==
  ASSUME IInv, NEW s \in Sweeps, NEW q \in Transactions, BlockedBy(s, q)
  PROVE  Crosses(s, q) \/ (q \in Actors /\ Answering(tx[q]))
<1> Roles /\ Ledger
  BY DEF IInv
<1>1. PICK i \in Asked \ locked[s] : Holds(q, Row(i))
  BY DEF BlockedBy, Wants
<1>2. CASE q \in Sweeps
  BY <1>1, <1>2 DEF Holds, Row, Crosses
<1>3. CASE q \in Actors
  <2>1. Has(q, Row(i))
    BY <1>1, <1>3 DEF Holds, Actors
  <2>2. \/ Answering(tx[q])
        \/ tx[q].at = "prior" /\ tx[q].intent = i
        \/ tx[q].at = "effects" /\ tx[q].prior = i
    BY <2>1 DEF Has, Row, Call, PolicyKey, BudgetKeyOf, BudgetKey, LineageKey, Answering
  <2>3. ~(tx[q].at = "prior" /\ tx[q].intent = i)
    BY <1>1, <1>3 DEF Asked, Listed, Actors, Roles, CallerFrame, AnswerFrame, FinalFrame, Ledger
  <2>4. tx[q].at = "effects" => q \in Callers
    BY <1>3 DEF Actors, Roles, AnswerFrame, FinalFrame
  <2> QED
    BY <1>1, <1>3, <2>2, <2>3, <2>4 DEF Crosses, At
<1> QED
  BY <1>2, <1>3 DEF Transactions

LEMMA CirclesRepeat ==
  ASSUME IInv, WInv
  PROVE  WaitsAreKnown
<1> SUFFICES ASSUME NEW circle \in SUBSET Entangled, circle # {},
                    \A p \in circle : \E q \in circle : BlockedBy(p, q),
                    \A p, q \in circle : ~(Repeats(p, q) \/ Crosses(p, q))
             PROVE  FALSE
  BY DEF WaitsAreKnown
<1>1. circle \subseteq Transactions
  BY DEF Entangled
<1>2. \A p \in circle \cap Actors : ~Answering(tx[p])
  <2> SUFFICES ASSUME NEW p \in circle, p \in Actors, Answering(tx[p]) PROVE FALSE
    OBVIOUS
  <2>1. PICK q \in circle : BlockedBy(p, q)
    OBVIOUS
  <2>2. q \in Actors
    BY <1>1, <2>1, SweepHolds DEF Transactions
  <2>3. tx[q].at = "decide"
    BY <2>1, <2>2, OneWait DEF Answering
  <2>4. PICK r \in circle : BlockedBy(q, r)
    OBVIOUS
  <2>5. r \in Actors
    BY <1>1, <2>2, <2>3, <2>4, SweepHolds DEF Transactions, Answering
  <2> QED
    BY <2>2, <2>3, <2>4, <2>5, OneWait
<1>3. circle \subseteq Actors
  BY <1>1, <1>2, SweepWaits DEF Transactions
<1>4. \A p \in circle : tx[p].at # "idle"
  BY <1>3, OneWait
<1>5. \A f \in circle : Owning(tx[f]) => \E d \in circle :
        /\ tx[d].at = "effects"
        /\ \/ tx[f].at = "own" /\ tx[d].prior = tx[f].intent
           \/ tx[f].at = "prior" /\ tx[d].prior = tx[f].prior
  BY <1>2, <1>3, OneWait DEF Owning
<1>6. \A c \in circle : tx[c].at # "effects"
  <2> SUFFICES ASSUME NEW c \in circle, tx[c].at = "effects" PROVE FALSE
    OBVIOUS
  <2>1. PICK f \in circle : tx[f].intent = tx[c].intent /\ Owning(tx[f])
    BY <1>2, <1>3, OneWait
  <2> QED
    BY <1>3, <1>5, <2>1, NoWaitBack
<1>7. \A p \in circle : ~Owning(tx[p])
  BY <1>5, <1>6
<1>8. \A p \in circle : tx[p].at \notin {"claim", "request", "call"}
  <2> SUFFICES ASSUME NEW p \in circle PROVE tx[p].at \notin {"claim", "request", "call"}
    OBVIOUS
  <2>1. PICK q \in circle : BlockedBy(p, q)
    OBVIOUS
  <2>2. ~Answering(tx[q]) /\ tx[q].at # "effects" /\ ~Owning(tx[q])
    BY <1>2, <1>3, <1>6, <1>7
  <2> QED
    BY <1>3, <2>1, <2>2, OneWait DEF Owning
<1>9. \A p \in circle : tx[p].at # "partition"
  <2> SUFFICES ASSUME NEW p \in circle PROVE tx[p].at # "partition"
    OBVIOUS
  <2>1. PICK q \in circle : BlockedBy(p, q)
    OBVIOUS
  <2> QED
    BY <1>3, <1>6, <1>8, <2>1, OneWait DEF InPolicy
<1>10. \A p \in circle : tx[p].at \in Stages
  BY <1>3 DEF IInv, TypeOK, Frames, Stages
<1> QED
  BY <1>2, <1>3, <1>4, <1>6, <1>7, <1>8, <1>9, <1>10 DEF Stages, Answering, Owning

\* However many transactions there are, among those that wait for each other in a
\* circle are an answer and a finalizer that repeats itself on its finished call, or
\* a sweep and another, or a sweep and the preflight of a requote that holds a row
\* the sweep still wants.
THEOREM CirclesAreKnown ==
  Spec => []WaitsAreKnown
<1>1. IInv /\ WInv => WaitsAreKnown
  BY CirclesRepeat
<1> QED
  BY <1>1, WaitInvariance, PTL
-----------------------------------------------------------------------------
\* ONE LIVE QUESTION PER LINEAGE

\* A question that can be answered, or was with a yes that stands.
Lives(i) == request[i] \in {"PENDING", "APPROVED"}

\* A lineage has one of them, and a requote on its way replaces it.
Kin ==
  /\ \A i, k \in Intents : Lives(i) /\ Lives(k) /\ lineage[i] = lineage[k] => i = k
  /\ \A i, k \in Intents :
       request[i] = "PROVISIONAL" /\ Lives(k) /\ lineage[i] = lineage[k] => k = replaces[i]

\* A preflight past the check of its claim holds the row of the question it replaces.
PriorKept(t) ==
  t.at = "effects" /\ t.prior # None =>
    /\ request[t.prior] \in Supersedable
    /\ \A a \in Answerers : Answering(tx[a]) => tx[a].intent # t.prior
Priors == \A c \in Callers : PriorKept(tx[c])

LEMMA AnswererSteps ==
  ASSUME IInv, [Next]_vars, NEW a \in Answerers, Answering(tx'[a])
  PROVE  \/ Answering(tx[a]) /\ tx'[a].intent = tx[a].intent
         \/ LockRequest(a) /\ tx'[a].intent = tx[a].intent
<1> a \in Actors /\ tx \in [Actors -> Frames]
  BY DEF Actors, IInv, TypeOK
<1>1. ASSUME NEW p \in Actors, p # a, NEW t, tx' = [tx EXCEPT ![p] = t]
      PROVE  tx'[a] = tx[a]
  BY <1>1
<1>2. ASSUME NEW p \in Actors, Finish(p)
      PROVE  tx'[a] = tx[a]
  BY <1>2 DEF Finish, Answering, Idle
<1>3. CASE UNCHANGED tx
  BY <1>3
<1>4. CASE Press(a)
  <2>1. tx'[a].at = "request"
    BY <1>4 DEF Press, Begin
  <2> QED
    BY <2>1 DEF Answering
<1>5. ASSUME NEW stage, Goto(a, stage) PROVE tx'[a].intent = tx[a].intent
  <2>1. tx'[a] = [tx[a] EXCEPT !.at = stage]
    BY <1>5 DEF Goto
  <2> QED
    BY <2>1 DEF Frames
<1>6. CASE LockRequest(a)
  BY <1>2, <1>5, <1>6 DEF LockRequest
<1>7. CASE LockServiceCall(a) \/ Recheck(a)
  BY <1>2, <1>5, <1>7 DEF LockServiceCall, Recheck, At, Answering
<1>8. CASE Deny(a) \/ Approve(a)
  BY <1>2, <1>8 DEF Deny, Approve, Decide
<1>9. ASSUME NEW c \in Callers, Submit(c) \/ CallerStep(c)
      PROVE  tx'[a] = tx[a]
  BY <1>1, <1>9 DEF Submit, CallerStep, LockPartition, ValidateRequoteClaim,
     PersistEscalatedApproval, CommitApproved, Begin, Goto, Finish, Actors
<1>10. ASSUME NEW b \in Answerers, b # a, Press(b) \/ AnswererStep(b)
       PROVE  tx'[a] = tx[a]
  BY <1>1, <1>10 DEF Press, AnswererStep, LockRequest, LockServiceCall, Deny, Recheck, Approve,
     Decide, Begin, Goto, Finish, Actors
<1>11. ASSUME NEW f \in Finalizers, AskAuthority(f) \/ FinalizerStep(f)
       PROVE  tx'[a] = tx[a]
  BY <1>1, <1>11 DEF AskAuthority, AskFor, FinalizerStep, LockCall, AlreadyActive, RecordFailure,
     LeaveUnresolved, LockPrior, NotSupersedable, Activate, Begin, Goto, Finish, Actors
<1>12. CASE \E p \in Actors : Abort(p)
  BY <1>2, <1>12 DEF Abort
<1> QED
  BY <1>3, <1>4, <1>6, <1>7, <1>8, <1>9, <1>10, <1>11, <1>12
  DEF Next, Step, AnswererStep, vars

\* A row that is free, or that an answer holds, is the prior of no such preflight.
LEMMA NotKept ==
  ASSUME NEW j \in Intents, Priors, NEW c \in Callers, tx[c].at = "effects",
         Free(Row(j)) \/ \E a \in Answerers : Answering(tx[a]) /\ tx[a].intent = j
  PROVE  tx[c].prior # j
<1>1. CASE Free(Row(j))
  BY <1>1 DEF Free, Has, Actors
<1>2. CASE \E a \in Answerers : Answering(tx[a]) /\ tx[a].intent = j
  BY <1>2 DEF Priors, PriorKept
<1> QED
  BY <1>1, <1>2

\* What ends a question holds its row, so it is not one that a preflight keeps.
LEMMA KeptStays ==
  ASSUME IInv, Priors, [Next]_vars, NEW c \in Callers, tx[c].at = "effects",
         NEW j \in Intents, tx[c].prior = j, request[j] \in Supersedable
  PROVE  request'[j] \in Supersedable
<1> USE DEF IInv
<1>1. CASE UNCHANGED request
  BY <1>1
<1>2. ASSUME NEW k \in Intents, NEW end, request' = [request EXCEPT ![k] = end],
             k # j \/ end \in Supersedable
      PROVE  request'[j] \in Supersedable
  BY <1>2 DEF TypeOK
<1>3. CASE \E d \in Callers : PersistEscalatedApproval(d)
  BY <1>1, <1>3 DEF PersistEscalatedApproval, Insertable, Supersedable, TypeOK
<1>4. CASE \E a \in Answerers : Deny(a) \/ Approve(a)
  <2>1. PICK a \in Answerers : Deny(a) \/ Approve(a)
    BY <1>4
  <2>2. tx[a].intent \in Intents /\ tx[a].intent # j
    BY <2>1, NotKept DEF Deny, Approve, At, Roles, AnswerFrame, Answering
  <2> QED
    BY <1>2, <2>1, <2>2 DEF Deny, Approve
<1>5. CASE \E f \in Finalizers : RecordFailure(f)
  <2>1. PICK f \in Finalizers : RecordFailure(f)
    BY <1>5
  <2>2. tx[f].intent \in Intents /\ tx[f].intent # j
    BY <2>1, NotKept DEF RecordFailure, Finds, Judging, At, Roles, FinalFrame
  <2> QED
    BY <2>1, <2>2 DEF RecordFailure, TypeOK
<1>6. CASE \E f \in Finalizers : Activate(f)
  <2>1. PICK f \in Finalizers : Activate(f)
    BY <1>6
  <2>2. tx[f].prior # j
    <3>1. CASE tx[f].at = "own"
      BY <3>1 DEF Roles, FinalFrame
    <3>2. CASE PriorLocked(f)
      BY <3>2, NotKept DEF PriorLocked
    <3> QED
      BY <2>1, <3>1, <3>2 DEF Activate, Confirmed, Finds, Judging, At
  <2> QED
    BY <2>1, <2>2 DEF Activate, Supersedable
<1>7. CASE Sweep /\ UNCHANGED <<fee, tx>>
  <2>1. UNCHANGED request \/ \E S \in SUBSET Intents : Expires(S) /\ j \notin S
    BY <1>7, ExpireExpires DEF Sweep, LockOverdue, AbortSweep, rows
  <2> QED
    BY <1>1, <2>1 DEF Expires
<1> QED
  BY <1>1, <1>3, <1>4, <1>5, <1>6, <1>7
  DEF Next, Step, vars, rows, CallerStep, AnswererStep, FinalizerStep, Submit, Begin, LockPartition,
      ValidateRequoteClaim, CommitApproved, Press, LockRequest, LockServiceCall, Recheck,
      AskAuthority, AskFor, LockCall, AlreadyActive, LeaveUnresolved, LockPrior, NotSupersedable,
      Abort, SettleFee, Lapse

LEMMA PriorsHold ==
  ASSUME IInv, Priors, [Next]_vars
  PROVE  Priors'
<1> TypeOK
  BY DEF IInv
<1> SUFFICES ASSUME NEW c \in Callers, tx'[c].at = "effects", tx'[c].prior # None
             PROVE  /\ request'[tx'[c].prior] \in Supersedable
                    /\ \A a \in Answerers : Answering(tx'[a]) => tx'[a].intent # tx'[c].prior
  BY DEF Priors, PriorKept, Answering, Supersedable
<1> DEFINE j == tx'[c].prior
<1> c \in Actors
  BY DEF Actors
<1>1. j \in Intents
  BY NextIsSound DEF IInv, TypeOK, Frames
<1>2. CASE tx'[c] = tx[c]
  <2>1. request'[j] \in Supersedable
    BY <1>1, <1>2, KeptStays DEF Priors, PriorKept
  <2>2. ASSUME NEW a \in Answerers, Answering(tx'[a]) PROVE tx'[a].intent # j
    <3>1. CASE Answering(tx[a]) /\ tx'[a].intent = tx[a].intent
      BY <1>2, <3>1 DEF Priors, PriorKept
    <3>2. CASE LockRequest(a) /\ tx'[a].intent = tx[a].intent
      BY <1>1, <1>2, <3>2, NotKept DEF LockRequest
    <3> QED
      BY <2>2, <3>1, <3>2, AnswererSteps
  <2> QED
    BY <2>1, <2>2
<1>3. CASE /\ UNCHANGED rows
           /\ j = tx[c].prior /\ RequoteStands(c) /\ ValidateRequoteClaim(c)
  <2>1. request'[j] \in Supersedable
    BY <1>3 DEF RequoteStands, rows
  <2>2. ASSUME NEW a \in Answerers, Answering(tx'[a]) PROVE tx'[a].intent # j
    <3>1. a \in Actors /\ a # c
      BY DEF Actors
    <3>2. Free(Row(j))
      BY <1>3 DEF ValidateRequoteClaim
    <3>3. tx'[a] = tx[a]
      BY <1>3, <3>1 DEF ValidateRequoteClaim, Goto, Finish, TypeOK
    <3> QED
      BY <1>1, <2>2, <3>1, <3>2, <3>3, FreeRow DEF Answering
  <2> QED
    BY <2>1, <2>2
<1> QED
  BY <1>2, <1>3, CallerSteps DEF Idle

LEMMA KinHold ==
  ASSUME IInv, WInv, Kin, Priors, [Next]_vars
  PROVE  Kin'
<1> TypeOK /\ Lineages /\ Ledger
  BY DEF IInv, WInv
<1>1. ASSUME KeepsQuestions, \A i \in Intents : Lives(i)' => Lives(i)
      PROVE  Kin'
  BY <1>1 DEF KeepsQuestions, Kin
<1>2. ASSUME NEW c \in Callers, Puts(c)
      PROVE  Kin'
  <2> DEFINE i == tx[c].intent
             j == tx[c].prior
  <2>1. /\ i \in Intents /\ j \in Intents \cup {None} /\ j # i /\ request[i] = "NONE"
        /\ request' = [request EXCEPT ![i] = "PROVISIONAL"]
        /\ replaces' = [replaces EXCEPT ![i] = j]
        /\ lineage' = [lineage EXCEPT ![i] = IF j = None THEN i ELSE lineage[j]]
    BY <1>2 DEF Puts, Insertable
  <2>2. j # None => Lives(j)
    BY <1>2, <2>1 DEF Puts, Insertable, InFlight, Priors, PriorKept, Supersedable, Lives
  <2>3. \A k \in Intents : Lives(k)' <=> Lives(k)
    BY <2>1 DEF Lives, TypeOK
  <2>4. \A k \in Intents : Lives(k) /\ lineage[k] = lineage'[i] => k = j
    BY <2>1, <2>2 DEF Kin, Lineages, Lives, TypeOK
  <2>5. \A k \in Intents \ {i} : lineage'[k] = lineage[k] /\ replaces'[k] = replaces[k]
                                 /\ request'[k] = request[k]
    BY <2>1 DEF TypeOK
  <2>6. ~Lives(i)
    BY <2>1 DEF Lives
  <2>7. \A k, m \in Intents : Lives(k)' /\ Lives(m)' /\ lineage'[k] = lineage'[m] => k = m
    BY <2>3, <2>5, <2>6 DEF Kin
  <2>8. \A k, m \in Intents :
          request'[k] = "PROVISIONAL" /\ Lives(m)' /\ lineage'[k] = lineage'[m] => m = replaces'[k]
    BY <2>1, <2>3, <2>4, <2>5, <2>6 DEF Kin, TypeOK
  <2> QED
    BY <2>7, <2>8 DEF Kin
<1>3. ASSUME KeepsQuestions, NEW i \in Intents, NEW j \in Intents \cup {None}, Opens(i, j)
      PROVE  Kin'
  <2>1. /\ request[i] = "PROVISIONAL" /\ j = replaces[i] /\ j # i
        /\ UNCHANGED <<replaces, lineage>>
        /\ request' = [k \in Intents |-> IF k = i THEN "PENDING"
                                         ELSE IF k = j THEN "SUPERSEDED" ELSE request[k]]
    BY <1>3 DEF Opens, KeepsQuestions
  <2>2. \A k \in Intents \ {i} : Lives(k)' => Lives(k) /\ lineage[k] # lineage[i]
    BY <2>1 DEF Lives, Kin
  <2>3. \A k \in Intents : request'[k] = "PROVISIONAL" => request[k] = "PROVISIONAL" /\ lineage[k] # lineage[i]
    BY <2>1 DEF Lineages
  <2> QED
    BY <2>1, <2>2, <2>3 DEF Kin
<1>4. ASSUME KeepsQuestions, NEW i \in Intents, Does(i)
      PROVE  Kin'
  <2>1. CASE Asks(i)
    BY <1>4, <2>1 DEF Asks, KeepsQuestions, TypeOK
  <2>2. CASE Fails(i) \/ Denies(i) \/ Approves(i) \/ Reserves(i) \/ Lapses(i)
    BY <1>1, <1>4, <2>2 DEF Fails, Denies, Approves, Reserves, Lapses, Lives, TypeOK
  <2> QED
    BY <1>3, <1>4, <2>1, <2>2 DEF Does
<1>5. CASE Same /\ KeepsQuestions
  BY <1>1, <1>5 DEF Same, Lives
<1>6. ASSUME KeepsQuestions, NEW S \in SUBSET Intents, Expires(S)
      PROVE  Kin'
  BY <1>1, <1>6 DEF Expires, Lives
<1> QED
  BY <1>2, <1>4, <1>5, <1>6, QuestionSteps, GrantSteps

\* However requotes of one piece of work race with payments, answers and expiries,
\* at most one of its questions can be answered or spent on.
THEOREM LineagesLiveOnce ==
  Spec => []OneLivePerLineage
<1>1. Init => Kin /\ Priors
  BY DEF Init, Kin, Lives, Priors, PriorKept, Idle, Actors
<1>2. IInv /\ WInv /\ Kin /\ Priors /\ [Next]_vars => (Kin /\ Priors)'
  BY KinHold, PriorsHold
<1>3. Consent /\ Kin => OneLivePerLineage
  BY PolicyAssumption DEF Consent, Kin, Lives, Alive, OneLivePerLineage
<1> QED
  BY <1>1, <1>2, <1>3, WaitInvariance, ConsentInvariance, PTL DEF Spec
=============================================================================
