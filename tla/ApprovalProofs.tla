---------------------------- MODULE ApprovalProofs ----------------------------
(***************************************************************************)
(* What the transactions of ApprovalAuthority owe each other, for any      *)
(* number of intents, preflights, channels and finalizers.                 *)
(*                                                                         *)
(* The safety properties are not inductive: a transaction commits on what  *)
(* it read under locks it took some steps ago.  IInv says what each stage  *)
(* may still trust, and which stages its locks keep apart.                 *)
(***************************************************************************)
EXTENDS ApprovalProperties, TLAPS, FiniteSetTheorems

USE PolicyAssumption, ActorsAssumption

InPolicy(t) == t.at \in {"claim", "effects"}
Answering(t) == t.at \in {"fee", "recheck", "decide"}

\* What the frame of each kind of transaction may be.
CallerFrame(t) ==
  /\ t.at \in {"idle", "partition", "claim", "effects"}
  /\ t.at # "idle" => t.intent \in Intents
  /\ t.prior # None => t.prior # t.intent
AnswerFrame(t) ==
  /\ t.at \in {"idle", "request", "fee", "recheck", "decide"}
  /\ t.at # "idle" => t.intent \in Intents
  /\ Answering(t) => request[t.intent] = "PENDING"
FinalFrame(t) ==
  /\ t.at \in {"idle", "call", "own", "prior"}
  /\ t.at # "prior" => t.prior = None
  /\ t.at # "idle" => t.intent \in Intents /\ call[t.intent] # "NONE"
  /\ t.at # "idle" /\ t.says = "CONFIRMED" => fee[t.intent] = "PAID"
  /\ t.at = "prior" => /\ t.says = "CONFIRMED" /\ request[t.intent] = "PROVISIONAL"
                       /\ t.prior = replaces[t.intent] /\ t.prior # None

Roles ==
  /\ \A c \in Callers : CallerFrame(tx[c])
  /\ \A a \in Answerers : AnswerFrame(tx[a])
  /\ \A f \in Finalizers : FinalFrame(tx[f])

\* What the locks keep apart.
Apart ==
  /\ \A c, d \in Callers : InPolicy(tx[c]) /\ InPolicy(tx[d]) => c = d
  /\ \A a, b \in Answerers : tx[a].at = "decide" /\ tx[b].at = "decide" => a = b
  /\ \A a, b \in Answerers :
       Answering(tx[a]) /\ Answering(tx[b]) /\ tx[a].intent = tx[b].intent => a = b
  /\ \A f, g \in Finalizers :
       tx[f].at = "prior" /\ tx[g].at = "prior" /\ tx[f].intent = tx[g].intent => f = g

\* A row that a sweep has locked is answered by nobody, and kept by no preflight
\* past the check of its claim.
Swept ==
  \A s \in Sweeps : \A i \in locked[s] :
    /\ \A a \in Answerers : Answering(tx[a]) => tx[a].intent # i
    /\ \A c \in Callers : tx[c].at = "effects" => tx[c].prior # i

\* A question, its call and its attempt.
Ledger ==
  \A i \in Intents :
    /\ request[i] = "PROVISIONAL" => call[i] \in Listed /\ attempt[i] = "OPEN"
    /\ call[i] = "NONE" <=> request[i] = "NONE"
    /\ request[i] # "NONE" => i \in Escalating
    /\ replaces[i] # i

\* Each door has at most one grant under way.
One(P) == IF P THEN 1 ELSE 0
Preflighting == \E c \in Callers : InPolicy(tx[c])
Deciding == \E a \in Answerers : tx[a].at = "decide"
Slack == Cardinality(Held) + One(Preflighting) + One(Deciding) <= Daily + 1

IInv == /\ TypeOK /\ Roles /\ Apart /\ Swept /\ Ledger
        /\ PaidBeforeAsked /\ SupersessionIsExact /\ Slack

-----------------------------------------------------------------------------
\* THE LOCKS AND THE COUNT

LEMMA FreeRow ==
  ASSUME NEW i \in Intents, Free(Row(i)), NEW q \in Actors
  PROVE  tx[q].at \in {"fee", "recheck", "decide", "prior"} => tx[q].intent # i
BY DEF Free, Has

LEMMA FreeOfSweeps ==
  ASSUME NEW i, Free(Row(i)), NEW s \in Sweeps
  PROVE  i \notin locked[s]
BY DEF Free

LEMMA FreePolicy ==
  ASSUME Free(PolicyKey), NEW q \in Actors
  PROVE  ~InPolicy(tx[q])
BY DEF Free, Has, InPolicy

LEMMA FreeBudget ==
  ASSUME NEW p \in Actors, Free(BudgetKeyOf(p)), NEW q \in Actors
  PROVE  tx[q].at # "decide"
BY DEF Free, Has, BudgetKeyOf

LEMMA HeldIsFinite ==
  IsFiniteSet(Held) /\ Cardinality(Held) \in Nat
BY FS_Subset, FS_CardinalityType DEF Held

LEMMA HeldShrinks ==
  ASSUME Held' \subseteq Held
  PROVE  Cardinality(Held') \in Nat /\ Cardinality(Held') <= Cardinality(Held)
BY HeldIsFinite, FS_Subset, FS_CardinalityType

LEMMA HeldGrows ==
  ASSUME NEW i \in Intents, Held' \subseteq Held \cup {i}
  PROVE  Cardinality(Held') \in Nat /\ Cardinality(Held') <= Cardinality(Held) + 1
<1>1. IsFiniteSet(Held \cup {i}) /\ Cardinality(Held \cup {i}) <= Cardinality(Held) + 1
  <2>1. /\ IsFiniteSet(Held \cup {i})
        /\ Cardinality(Held \cup {i}) = IF i \in Held THEN Cardinality(Held)
                                                    ELSE Cardinality(Held) + 1
    BY HeldIsFinite, FS_AddElement
  <2> QED
    BY <2>1, HeldIsFinite
<1>2. IsFiniteSet(Held') /\ Cardinality(Held') <= Cardinality(Held \cup {i})
  BY <1>1, FS_Subset
<1> QED
  BY <1>1, <1>2, HeldIsFinite, FS_CardinalityType

-----------------------------------------------------------------------------
\* THE STEPS THAT ONLY MOVE A TRANSACTION

Moves(p, t) == tx' = [tx EXCEPT ![p] = t]

\* What a frame of p must be for the rest of the state to bear it.
Bearable(p, t) ==
  /\ t \in Frames
  /\ p \in Callers =>
       /\ CallerFrame(t)
       /\ InPolicy(t) /\ ~InPolicy(tx[p]) =>
            Affordable /\ \A c \in Callers : ~InPolicy(tx[c])
       /\ t.at = "effects" => \A s \in Sweeps : t.prior \notin locked[s]
  /\ p \in Answerers =>
       /\ AnswerFrame(t)
       /\ Answering(t) => \A a \in Answerers \ {p} : Answering(tx[a]) => tx[a].intent # t.intent
       /\ Answering(t) => \A s \in Sweeps : t.intent \notin locked[s]
       /\ t.at = "decide" => Affordable /\ \A a \in Answerers \ {p} : tx[a].at # "decide"
  /\ p \in Finalizers =>
       /\ FinalFrame(t)
       /\ t.at = "prior" =>
            \A f \in Finalizers \ {p} : tx[f].at = "prior" => tx[f].intent # t.intent

LEMMA IdleIsBearable ==
  ASSUME NEW p \in Actors
  PROVE  Bearable(p, Idle)
BY DEF Bearable, Idle, Frames, CallerFrame, AnswerFrame, FinalFrame, InPolicy, Answering

LEMMA MoveStep ==
  ASSUME IInv, NEW p \in Actors, NEW t, Bearable(p, t), Moves(p, t), UNCHANGED <<rows, fee, locked>>
  PROVE  IInv'
<1> USE DEF IInv, Moves, rows
<1>1. TypeOK' /\ tx'[p] = t /\ \A q \in Actors \ {p} : tx'[q] = tx[q]
  BY DEF TypeOK, Bearable
<1>2. Roles'
  BY <1>1 DEF Roles, Bearable, CallerFrame, AnswerFrame, FinalFrame, Answering, Actors
<1>3. Apart'
  <2>1. \A c, d \in Callers : InPolicy(tx'[c]) /\ InPolicy(tx'[d]) => c = d
    BY <1>1 DEF Apart, Bearable, Actors
  <2>2. \A a, b \in Answerers : tx'[a].at = "decide" /\ tx'[b].at = "decide" => a = b
    BY <1>1 DEF Apart, Bearable, Actors
  <2>3. \A a, b \in Answerers :
          Answering(tx'[a]) /\ Answering(tx'[b]) /\ tx'[a].intent = tx'[b].intent => a = b
    BY <1>1 DEF Apart, Bearable, Actors
  <2>4. \A f, g \in Finalizers :
          tx'[f].at = "prior" /\ tx'[g].at = "prior" /\ tx'[f].intent = tx'[g].intent => f = g
    BY <1>1 DEF Apart, Bearable, Actors
  <2> QED
    BY <2>1, <2>2, <2>3, <2>4 DEF Apart, InPolicy, Answering
<1>4. Swept'
  BY <1>1 DEF Swept, Bearable, Answering, Actors
<1>5. Ledger' /\ PaidBeforeAsked' /\ SupersessionIsExact'
  BY DEF Ledger, PaidBeforeAsked, SupersessionIsExact, RetiresItsPrior, RetiredByThePaid, Standing
<1>6. Slack'
  <2>1. Held' = Held
    BY DEF Held
  <2>2. CASE Affordable
    BY <2>1, <2>2, HeldIsFinite DEF Slack, One, Affordable
  <2>3. CASE ~Affordable
    <3>1. Preflighting' => Preflighting
      BY <1>1, <2>3 DEF Preflighting, Bearable, InPolicy, Actors
    <3>2. Deciding' => Deciding
      BY <1>1, <2>3 DEF Deciding, Bearable, Actors
    <3> QED
      BY <2>1, <3>1, <3>2, HeldIsFinite DEF Slack, One
  <2> QED
    BY <2>2, <2>3
<1> QED
  BY <1>1, <1>2, <1>3, <1>4, <1>5, <1>6

Staged(p, stage) == [tx[p] EXCEPT !.at = stage]
Stages == {"idle", "partition", "claim", "effects", "request", "fee", "recheck", "decide",
           "call", "own", "prior"}

LEMMA StagedFrame ==
  ASSUME TypeOK, NEW p \in Actors, NEW stage \in Stages
  PROVE  /\ Staged(p, stage) \in Frames
         /\ Staged(p, stage).at = stage
         /\ Staged(p, stage).intent = tx[p].intent
         /\ Staged(p, stage).prior = tx[p].prior
         /\ Staged(p, stage).says = tx[p].says
         /\ Goto(p, stage) => Moves(p, Staged(p, stage))
<1>1. tx[p] \in Frames
  BY DEF TypeOK
<1> QED
  BY <1>1 DEF Frames, Staged, Stages, Goto, Moves

LEMMA FinishStep ==
  ASSUME IInv, NEW p \in Actors, Finish(p), UNCHANGED <<rows, fee, locked>>
  PROVE  IInv'
BY MoveStep, IdleIsBearable DEF Finish, Moves

LEMMA CallerMoves ==
  ASSUME IInv, NEW c \in Callers, UNCHANGED <<fee, locked>>,
         Submit(c) \/ LockPartition(c) \/ ValidateRequoteClaim(c)
  PROVE  IInv'
<1> c \in Actors /\ c \notin Answerers /\ c \notin Finalizers
  BY DEF Actors
<1> USE DEF IInv
<1>1. CASE Submit(c)
  <2>1. PICK i \in Intents : \E j \in Intents \cup {None} :
          /\ j # None => j # i /\ request[j] # "NONE"
          /\ Begin(c, [at |-> "partition", intent |-> i, prior |-> j,
                       says |-> IF j # None /\ Standing(j) THEN "HELD" ELSE "BARE"])
    BY <1>1 DEF Submit
  <2>2. PICK j \in Intents \cup {None} :
          /\ j # None => j # i /\ request[j] # "NONE"
          /\ Begin(c, [at |-> "partition", intent |-> i, prior |-> j,
                       says |-> IF j # None /\ Standing(j) THEN "HELD" ELSE "BARE"])
    BY <2>1
  <2> DEFINE t == [at |-> "partition", intent |-> i, prior |-> j,
                   says |-> IF j # None /\ Standing(j) THEN "HELD" ELSE "BARE"]
  <2>3. Bearable(c, t)
    BY <2>2 DEF Bearable, Frames, CallerFrame, InPolicy
  <2>4. Moves(c, t) /\ UNCHANGED rows
    BY <2>2 DEF Begin, Moves
  <2> QED
    BY <2>3, <2>4, MoveStep
<1>2. CASE LockPartition(c)
  <2>1. CASE Finish(c)
    BY <1>2, <2>1, FinishStep DEF LockPartition
  <2>2. CASE Affordable /\ Goto(c, IF tx[c].prior = None THEN "effects" ELSE "claim")
    <3> DEFINE stage == IF tx[c].prior = None THEN "effects" ELSE "claim"
    <3>1. /\ At(c, "partition") /\ \A d \in Callers : ~InPolicy(tx[d])
      BY <1>2, FreePolicy DEF LockPartition, Actors
    <3>2. stage \in Stages /\ stage \in {"claim", "effects"}
      BY DEF Stages
    <3>3. Bearable(c, Staged(c, stage)) /\ Moves(c, Staged(c, stage))
      BY <2>2, <3>1, <3>2, StagedFrame DEF Bearable, CallerFrame, Roles, At, TypeOK
    <3> QED
      BY <1>2, <3>3, MoveStep DEF LockPartition
  <2> QED
    BY <1>2, <2>1, <2>2 DEF LockPartition
<1>3. CASE ValidateRequoteClaim(c)
  <2>1. CASE Finish(c)
    BY <1>3, <2>1, FinishStep DEF ValidateRequoteClaim
  <2>2. CASE Goto(c, "effects")
    <3>1. Bearable(c, Staged(c, "effects")) /\ Moves(c, Staged(c, "effects"))
      BY <1>3, <2>2, StagedFrame, FreeOfSweeps
      DEF Bearable, CallerFrame, InPolicy, Roles, At, ValidateRequoteClaim, Stages
    <3> QED
      BY <1>3, <3>1, MoveStep DEF ValidateRequoteClaim
  <2> QED
    BY <1>3, <2>1, <2>2 DEF ValidateRequoteClaim
<1> QED
  BY <1>1, <1>2, <1>3

LEMMA AnswererMoves ==
  ASSUME IInv, NEW a \in Answerers, UNCHANGED <<fee, locked>>,
         Press(a) \/ LockRequest(a) \/ LockServiceCall(a) \/ Recheck(a)
  PROVE  IInv'
<1> a \in Actors /\ a \notin Callers /\ a \notin Finalizers
  BY DEF Actors
<1> USE DEF IInv
<1>1. CASE Press(a)
  <2>1. PICK i \in Intents : \E answer \in Answers :
          Begin(a, [at |-> "request", intent |-> i, prior |-> None, says |-> answer])
    BY <1>1 DEF Press
  <2>2. PICK answer \in Answers :
          Begin(a, [at |-> "request", intent |-> i, prior |-> None, says |-> answer])
    BY <2>1
  <2> DEFINE t == [at |-> "request", intent |-> i, prior |-> None, says |-> answer]
  <2>3. Bearable(a, t)
    BY DEF Bearable, Frames, AnswerFrame, Answering
  <2>4. Moves(a, t) /\ UNCHANGED rows
    BY <2>2 DEF Begin, Moves
  <2> QED
    BY <2>3, <2>4, MoveStep
<1>2. CASE LockRequest(a)
  <2>1. CASE Finish(a)
    BY <1>2, <2>1, FinishStep DEF LockRequest
  <2>2. CASE StillOpen(tx[a].intent) /\ Goto(a, "fee")
    <3>1. At(a, "request") /\ tx[a].intent \in Intents
      BY <1>2 DEF LockRequest, At, Roles, AnswerFrame
    <3>2. /\ \A b \in Answerers : Answering(tx[b]) => tx[b].intent # tx[a].intent
          /\ \A s \in Sweeps : tx[a].intent \notin locked[s]
      BY <1>2, <3>1, FreeRow, FreeOfSweeps DEF LockRequest, Answering, Actors
    <3>3. Bearable(a, Staged(a, "fee")) /\ Moves(a, Staged(a, "fee"))
      BY <2>2, <3>1, <3>2, StagedFrame
      DEF Bearable, AnswerFrame, Answering, StillOpen, Stages
    <3> QED
      BY <1>2, <3>3, MoveStep DEF LockRequest
  <2> QED
    BY <1>2, <2>1, <2>2 DEF LockRequest
<1>3. CASE LockServiceCall(a)
  <2>1. CASE Finish(a)
    BY <1>3, <2>1, FinishStep DEF LockServiceCall
  <2>2. CASE Goto(a, "recheck")
    <3>1. /\ At(a, "fee") /\ Answering(tx[a]) /\ tx[a].intent \in Intents
          /\ request[tx[a].intent] = "PENDING"
      BY <1>3 DEF LockServiceCall, At, Roles, AnswerFrame, Answering
    <3>2. /\ \A b \in Answerers \ {a} : Answering(tx[b]) => tx[b].intent # tx[a].intent
          /\ \A s \in Sweeps : tx[a].intent \notin locked[s]
      BY <3>1 DEF Apart, Swept
    <3>3. Bearable(a, Staged(a, "recheck")) /\ Moves(a, Staged(a, "recheck"))
      BY <2>2, <3>1, <3>2, StagedFrame DEF Bearable, AnswerFrame, Answering, Stages
    <3> QED
      BY <1>3, <3>3, MoveStep DEF LockServiceCall
  <2> QED
    BY <1>3, <2>1, <2>2 DEF LockServiceCall
<1>4. CASE Recheck(a)
  <2>1. CASE Finish(a)
    BY <1>4, <2>1, FinishStep DEF Recheck
  <2>2. CASE Affordable /\ Goto(a, "decide")
    <3>1. /\ At(a, "recheck") /\ Answering(tx[a]) /\ tx[a].intent \in Intents
          /\ request[tx[a].intent] = "PENDING"
      BY <1>4 DEF Recheck, At, Roles, AnswerFrame, Answering
    <3>2. /\ \A b \in Answerers \ {a} :
               tx[b].at # "decide" /\ (Answering(tx[b]) => tx[b].intent # tx[a].intent)
          /\ \A s \in Sweeps : tx[a].intent \notin locked[s]
      BY <1>4, <3>1, FreeBudget DEF Apart, Swept, Recheck, Actors
    <3>3. Bearable(a, Staged(a, "decide")) /\ Moves(a, Staged(a, "decide"))
      BY <2>2, <3>1, <3>2, StagedFrame DEF Bearable, AnswerFrame, Answering, Stages
    <3> QED
      BY <1>4, <3>3, MoveStep DEF Recheck
  <2> QED
    BY <1>4, <2>1, <2>2 DEF Recheck
<1> QED
  BY <1>1, <1>2, <1>3, <1>4

LEMMA FinalizerMoves ==
  ASSUME IInv, NEW f \in Finalizers, UNCHANGED <<fee, locked>>,
         AskAuthority(f) \/ LockCall(f) \/ AlreadyActive(f) \/ LockPrior(f) \/ NotSupersedable(f)
  PROVE  IInv'
<1> f \in Actors /\ f \notin Callers /\ f \notin Answerers
  BY DEF Actors
<1> USE DEF IInv
<1>1. CASE AskAuthority(f)
  <2>1. PICK i \in Intents : \E evidence \in Evidence : AskFor(f, i, evidence)
    BY <1>1 DEF AskAuthority
  <2>2. PICK evidence \in Evidence : AskFor(f, i, evidence)
    BY <2>1
  <2> DEFINE t == [at |-> "call", intent |-> i, prior |-> None, says |-> evidence]
  <2>3. evidence = "CONFIRMED" => fee[i] = "PAID"
    BY <2>2 DEF AskFor, Truth
  <2>4. Bearable(f, t)
    BY <2>2, <2>3 DEF AskFor, Listed, Bearable, Frames, FinalFrame
  <2>5. Moves(f, t) /\ UNCHANGED rows
    BY <2>2 DEF AskFor, Begin, Moves
  <2> QED
    BY <2>4, <2>5, MoveStep
<1>2. CASE LockCall(f)
  <2>1. Bearable(f, Staged(f, "own")) /\ Moves(f, Staged(f, "own"))
    BY <1>2, StagedFrame DEF LockCall, At, Bearable, FinalFrame, Roles, Stages
  <2> QED
    BY <1>2, <2>1, MoveStep DEF LockCall
<1>3. CASE AlreadyActive(f) \/ NotSupersedable(f)
  BY <1>3, FinishStep DEF AlreadyActive, NotSupersedable
<1>4. CASE LockPrior(f)
  <2> DEFINE i == tx[f].intent
             t == [tx[f] EXCEPT !.at = "prior", !.prior = replaces[i]]
  <2>1. /\ tx[f].at = "own" /\ tx[f].says = "CONFIRMED" /\ Free(Row(i))
        /\ request[i] = "PROVISIONAL" /\ replaces[i] # None
    BY <1>4 DEF LockPrior, Requotes, Confirmed, Finds, Judging, At
  <2>2. tx[f] \in Frames /\ i \in Intents /\ call[i] # "NONE" /\ fee[i] = "PAID"
    BY <2>1 DEF Roles, FinalFrame, TypeOK
  <2>3. /\ t \in Frames /\ t.at = "prior" /\ t.prior = replaces[i]
        /\ t.intent = i /\ t.says = "CONFIRMED"
    BY <2>1, <2>2 DEF Frames, TypeOK
  <2>4. \A g \in Finalizers : tx[g].at = "prior" => tx[g].intent # i
    BY <2>1, <2>2, FreeRow DEF Actors
  <2>5. Bearable(f, t)
    BY <2>1, <2>2, <2>3, <2>4 DEF Bearable, FinalFrame
  <2>6. Moves(f, t) /\ UNCHANGED rows
    BY <1>4 DEF LockPrior, Moves
  <2> QED
    BY <2>5, <2>6, MoveStep
<1> QED
  BY <1>1, <1>2, <1>3, <1>4

-----------------------------------------------------------------------------
\* THE STEPS THAT COMMIT

\* What the frames of the others still trust, after the commit of p.
Undisturbed(p) ==
  /\ \A a \in Answerers \ {p} : Answering(tx[a]) => request'[tx[a].intent] = "PENDING"
  /\ \A f \in Finalizers \ {p} : tx[f].at # "idle" => call'[tx[f].intent] # "NONE"
  /\ \A f \in Finalizers \ {p} : tx[f].at = "prior" =>
       /\ request'[tx[f].intent] = "PROVISIONAL"
       /\ replaces'[tx[f].intent] = replaces[tx[f].intent]

\* A grant, by a transaction that its door has admitted.
Grants(p) ==
  /\ \E i \in Intents : Held' \subseteq Held \cup {i}
  /\ \/ p \in Callers /\ InPolicy(tx[p])
     \/ p \in Answerers /\ tx[p].at = "decide"

LEMMA CommitStep ==
  ASSUME IInv, NEW p \in Actors, Finish(p), UNCHANGED <<fee, locked>>, TypeOK', Undisturbed(p),
         Ledger', PaidBeforeAsked', SupersessionIsExact', Held' \subseteq Held \/ Grants(p)
  PROVE  IInv'
<1> USE DEF IInv
<1>1. tx'[p] = Idle /\ \A q \in Actors \ {p} : tx'[q] = tx[q]
  BY DEF TypeOK, Finish
<1>2. Roles'
  <2>1. \A c \in Callers : CallerFrame(tx'[c])
    BY <1>1 DEF Roles, Idle, CallerFrame, Actors
  <2>2. \A a \in Answerers : AnswerFrame(tx[a])'
    BY <1>1 DEF Roles, Idle, AnswerFrame, Answering, Undisturbed, Actors
  <2>3. \A f \in Finalizers : FinalFrame(tx[f])'
    BY <1>1 DEF Roles, Idle, FinalFrame, Undisturbed, Actors
  <2> QED
    BY <2>1, <2>2, <2>3 DEF Roles, CallerFrame
<1>3. Apart'
  BY <1>1 DEF Apart, Idle, InPolicy, Answering, Actors
<1>4. Swept'
  BY <1>1 DEF Swept, Idle, Answering, Actors
<1>5. Slack'
  <2>1. Preflighting' => Preflighting
    BY <1>1 DEF Preflighting, Idle, InPolicy, Actors
  <2>2. Deciding' => Deciding
    BY <1>1 DEF Deciding, Idle, Actors
  <2>3. CASE Held' \subseteq Held
    BY <2>1, <2>2, <2>3, HeldShrinks, HeldIsFinite DEF Slack, One
  <2>4. CASE Grants(p)
    <3>1. Cardinality(Held') \in Nat /\ Cardinality(Held') <= Cardinality(Held) + 1
      BY <2>4, HeldGrows DEF Grants
    <3>2. CASE p \in Callers /\ InPolicy(tx[p])
      <4>1. Preflighting /\ ~Preflighting'
        BY <1>1, <3>2 DEF Preflighting, Apart, Idle, InPolicy, Actors
      <4> QED
        BY <2>2, <3>1, <4>1, HeldIsFinite DEF Slack, One
    <3>3. CASE p \in Answerers /\ tx[p].at = "decide"
      <4>1. Deciding /\ ~Deciding'
        BY <1>1, <3>3 DEF Deciding, Apart, Idle, Actors
      <4> QED
        BY <2>1, <3>1, <4>1, HeldIsFinite DEF Slack, One
    <3> QED
      BY <2>4, <3>2, <3>3 DEF Grants
  <2> QED
    BY <2>3, <2>4
<1> QED
  BY <1>2, <1>3, <1>4, <1>5

LEMMA PersistCommits ==
  ASSUME IInv, NEW c \in Callers, PersistEscalatedApproval(c), UNCHANGED <<fee, locked>>
  PROVE  IInv'
<1> c \in Actors /\ c \notin Answerers /\ c \notin Finalizers
  BY DEF Actors
<1> USE DEF IInv
<1> DEFINE i == tx[c].intent
           j == tx[c].prior
<1>1. /\ i \in Intents /\ i \in Escalating /\ j \in Intents \cup {None} /\ j # i
      /\ Finish(c) /\ UNCHANGED <<hold, decisions>> /\ tx' \in [Actors -> Frames]
  <2>1. At(c, "effects") /\ tx[c] \in Frames /\ Idle \in Frames
    BY DEF PersistEscalatedApproval, TypeOK, Idle, Frames
  <2> QED
    BY <2>1 DEF PersistEscalatedApproval, At, Roles, CallerFrame, Frames, Finish, TypeOK
<1>2. CASE ~Insertable(i, j) /\ UNCHANGED <<request, replaces, lineage, call, attempt>>
  BY <1>1, <1>2, FinishStep DEF rows
<1>3. CASE /\ Insertable(i, j)
           /\ request' = [request EXCEPT ![i] = "PROVISIONAL"]
           /\ replaces' = [replaces EXCEPT ![i] = j]
           /\ lineage' = [lineage EXCEPT ![i] = IF j = None THEN i ELSE lineage[j]]
           /\ call' = [call EXCEPT ![i] = "PAYMENT_AUTH_VERIFIED"]
           /\ attempt' = [attempt EXCEPT ![i] = "OPEN"]
  <2>1. request[i] = "NONE" /\ call[i] = "NONE"
    BY <1>1, <1>3 DEF Insertable, Ledger
  <2>2. TypeOK'
    BY <1>1, <1>3 DEF TypeOK, RequestStates, CallStates
  <2>3. Undisturbed(c)
    BY <1>1, <1>3, <2>1 DEF Undisturbed, Roles, AnswerFrame, FinalFrame, TypeOK
  <2>4. Ledger'
    BY <1>1, <1>3, <2>1 DEF Ledger, Listed, TypeOK
  <2>5. PaidBeforeAsked'
    BY <1>1, <1>3, <2>1 DEF PaidBeforeAsked, TypeOK
  <2>6. RetiresItsPrior'
    BY <1>1, <1>3, <2>1 DEF SupersessionIsExact, RetiresItsPrior, Standing, TypeOK
  <2>7. RetiredByThePaid'
    BY <1>1, <1>3, <2>1 DEF SupersessionIsExact, RetiredByThePaid, TypeOK
  <2>8. Held' = Held
    BY <1>1 DEF Held
  <2> QED
    BY <1>1, <2>2, <2>3, <2>4, <2>5, <2>6, <2>7, <2>8, CommitStep DEF SupersessionIsExact
<1> QED
  BY <1>2, <1>3 DEF PersistEscalatedApproval

LEMMA ApprovedCommits ==
  ASSUME IInv, NEW c \in Callers, CommitApproved(c), UNCHANGED <<fee, locked>>
  PROVE  IInv'
<1> c \in Actors /\ c \notin Answerers /\ c \notin Finalizers
  BY DEF Actors
<1> USE DEF IInv
<1> DEFINE i == tx[c].intent
<1>1. /\ i \in Intents /\ i \notin Escalating /\ At(c, "effects") /\ Finish(c)
      /\ UNCHANGED <<request, replaces, lineage, call, attempt, decisions>>
      /\ tx' \in [Actors -> Frames]
  <2>1. At(c, "effects") /\ tx[c] \in Frames /\ Idle \in Frames
    BY DEF CommitApproved, TypeOK, Idle, Frames
  <2> QED
    BY <2>1 DEF CommitApproved, At, Roles, CallerFrame, Frames, Finish, TypeOK
<1>2. CASE UNCHANGED hold
  BY <1>1, <1>2, FinishStep DEF rows
<1>3. CASE hold' = [hold EXCEPT ![i] = "ACTIVE"]
  <2>1. TypeOK'
    BY <1>1, <1>3 DEF TypeOK
  <2>2. Undisturbed(c) /\ Ledger' /\ PaidBeforeAsked'
    BY <1>1 DEF Undisturbed, Ledger, PaidBeforeAsked, Roles, AnswerFrame, FinalFrame
  <2>3. SupersessionIsExact'
    <3>1. request[i] # "SUPERSEDED"
      BY <1>1 DEF Ledger
    <3>2. RetiresItsPrior'
      BY <1>1, <1>3, <3>1 DEF SupersessionIsExact, RetiresItsPrior, Standing, TypeOK
    <3>3. RetiredByThePaid'
      BY <1>1 DEF SupersessionIsExact, RetiredByThePaid
    <3> QED
      BY <3>2, <3>3 DEF SupersessionIsExact
  <2>4. Grants(c)
    <3>1. Held' \subseteq Held \cup {i}
      BY <1>1, <1>3 DEF Held, TypeOK
    <3> QED
      BY <1>1, <3>1 DEF Grants, At, InPolicy
  <2> QED
    BY <1>1, <2>1, <2>2, <2>3, <2>4, CommitStep
<1> QED
  BY <1>2, <1>3 DEF CommitApproved

\* The yes and the no of a person.
LEMMA AnswerCommits ==
  ASSUME IInv, NEW a \in Answerers, Deny(a) \/ Approve(a), UNCHANGED <<fee, locked>>
  PROVE  IInv'
<1> a \in Actors /\ a \notin Callers /\ a \notin Finalizers
  BY DEF Actors
<1> USE DEF IInv
<1> DEFINE i == tx[a].intent
<1>1. /\ Answering(tx[a]) /\ i \in Intents /\ request[i] = "PENDING" /\ Finish(a)
      /\ tx' \in [Actors -> Frames] /\ UNCHANGED <<replaces, lineage, call, attempt>>
      /\ decisions' \in SUBSET (Intents \X Answers)
  <2>1. Idle \in Frames
    BY DEF Idle, Frames
  <2>2. Answering(tx[a])
    BY DEF Deny, Approve, At, Answering
  <2> QED
    BY <2>1, <2>2 DEF Deny, Approve, Decide, Finish, TypeOK, Roles, AnswerFrame, Answering, Answers
<1>2. fee[i] = "PAID" /\ call[i] = "FINALIZED"
  BY <1>1 DEF PaidBeforeAsked
<1>3. \E end \in {"REJECTED", "APPROVED"} : request' = [request EXCEPT ![i] = end]
  BY DEF Deny, Approve
<1>4. \/ hold' = hold
      \/ At(a, "decide") /\ hold' = [hold EXCEPT ![i] = "ACTIVE"]
  BY DEF Deny, Approve
<1>5. TypeOK'
  BY <1>1, <1>3, <1>4 DEF TypeOK, RequestStates
<1>6. Undisturbed(a)
  BY <1>1, <1>3 DEF Undisturbed, Roles, AnswerFrame, FinalFrame, Apart, Answering, TypeOK
<1>7. Ledger'
  BY <1>1, <1>3 DEF Ledger, TypeOK
<1>8. PaidBeforeAsked'
  BY <1>1, <1>2, <1>3 DEF PaidBeforeAsked, TypeOK
<1>9. SupersessionIsExact'
  <2>1. RetiresItsPrior'
    BY <1>1, <1>3, <1>4 DEF SupersessionIsExact, RetiresItsPrior, Standing, TypeOK
  <2>2. RetiredByThePaid'
    BY <1>1, <1>3 DEF SupersessionIsExact, RetiredByThePaid, TypeOK
  <2> QED
    BY <2>1, <2>2 DEF SupersessionIsExact
<1>10. Held' \subseteq Held \/ Grants(a)
  BY <1>1, <1>4 DEF Held, Grants, At, TypeOK
<1> QED
  BY <1>1, <1>5, <1>6, <1>7, <1>8, <1>9, <1>10, CommitStep

LEMMA EvidenceCommits ==
  ASSUME IInv, NEW f \in Finalizers, RecordFailure(f) \/ LeaveUnresolved(f), UNCHANGED <<fee, locked>>
  PROVE  IInv'
<1> f \in Actors /\ f \notin Callers /\ f \notin Answerers
  BY DEF Actors
<1> USE DEF IInv
<1> DEFINE i == tx[f].intent
<1>1. /\ tx[f].at = "own" /\ Free(Row(i)) /\ call[i] # "FINALIZED" /\ Finish(f)
      /\ UNCHANGED <<replaces, lineage, hold, decisions>> /\ tx' \in [Actors -> Frames]
  <2>1. Idle \in Frames
    BY DEF Idle, Frames
  <2> QED
    BY <2>1 DEF RecordFailure, LeaveUnresolved, Finds, Judging, At, Finish, TypeOK
<1>2. i \in Intents /\ call[i] # "NONE" /\ request[i] # "NONE"
  BY <1>1 DEF Roles, FinalFrame, Ledger
<1>3. \A g \in Finalizers : tx[g].at = "prior" => tx[g].intent # i
  BY <1>1, <1>2, FreeRow DEF Actors
<1>4. \A a \in Answerers : Answering(tx[a]) => tx[a].intent # i
  BY <1>1, <1>2, FreeRow DEF Actors, Answering
<1>5. request[i] \notin {"PENDING", "APPROVED", "REJECTED", "EXPIRED"}
  BY <1>1, <1>2 DEF PaidBeforeAsked
<1>6. \/ /\ request[i] = "PROVISIONAL" /\ request' = [request EXCEPT ![i] = "PAYMENT_FAILED"]
         /\ call' = [call EXCEPT ![i] = "SETTLEMENT_FAILED"]
         /\ \E end \in {"FAILED", "SETTLED", "NONE", "OPEN"} : attempt' = [attempt EXCEPT ![i] = end]
      \/ /\ request' = request /\ request[i] # "PROVISIONAL"
         /\ call' = [call EXCEPT ![i] = "SETTLEMENT_FAILED"]
         /\ \E end \in {"FAILED", "SETTLED", "NONE", "OPEN"} : attempt' = [attempt EXCEPT ![i] = end]
      \/ /\ request' = request /\ attempt' = attempt
         /\ call' = [call EXCEPT ![i] = "SETTLEMENT_PENDING"]
  BY <1>2 DEF RecordFailure, LeaveUnresolved, TypeOK
<1>7. TypeOK'
  BY <1>1, <1>2, <1>6 DEF TypeOK, RequestStates, CallStates
<1>8. Undisturbed(f)
  <2>1. \A g \in Finalizers : tx[g].at # "idle" => tx[g].intent \in Intents /\ call[tx[g].intent] # "NONE"
    BY DEF Roles, FinalFrame
  <2>2. \A k \in Intents : call[k] # "NONE" => call'[k] # "NONE"
    BY <1>2, <1>6 DEF TypeOK
  <2>3. \A k \in Intents \ {i} : request'[k] = request[k]
    BY <1>6 DEF TypeOK
  <2> QED
    BY <1>1, <1>3, <1>4, <2>1, <2>2, <2>3 DEF Undisturbed, Roles, AnswerFrame, FinalFrame, Answering
<1>9. Ledger'
  BY <1>1, <1>2, <1>6 DEF Ledger, Listed, TypeOK
<1>10. PaidBeforeAsked'
  BY <1>2, <1>5, <1>6 DEF PaidBeforeAsked, TypeOK
<1>11. RetiresItsPrior'
  BY <1>1, <1>2, <1>6 DEF SupersessionIsExact, RetiresItsPrior, Standing, TypeOK
<1>12. RetiredByThePaid'
  BY <1>1, <1>2, <1>6 DEF SupersessionIsExact, RetiredByThePaid, TypeOK
<1>13. Held' = Held
  BY <1>1 DEF Held
<1> QED
  BY <1>1, <1>7, <1>8, <1>9, <1>10, <1>11, <1>12, <1>13, CommitStep DEF SupersessionIsExact

\* An activation finds its own question PROVISIONAL and paid, and the one it
\* retires, if any, alive and locked.
Activates(f, i, j) ==
  /\ i \in Intents /\ j \in Intents \cup {None} /\ i = tx[f].intent
  /\ replaces[i] = j /\ request[i] = "PROVISIONAL" /\ fee[i] = "PAID"
  /\ \A g \in Finalizers \ {f} : tx[g].at = "prior" => tx[g].intent \notin {i, j}
  /\ \A a \in Answerers : Answering(tx[a]) => tx[a].intent # j
  /\ j # None => request[j] \in Supersedable
  /\ request' = [k \in Intents |-> IF k = i THEN "PENDING"
                                   ELSE IF k = j THEN "SUPERSEDED" ELSE request[k]]
  /\ hold' = Retired(j)
  /\ call' = [call EXCEPT ![i] = "FINALIZED"]
  /\ attempt' = [attempt EXCEPT ![i] = "SETTLED"]
  /\ Finish(f) /\ UNCHANGED <<replaces, lineage, decisions>>

LEMMA ActivateActivates ==
  ASSUME IInv, NEW f \in Finalizers, Activate(f)
  PROVE  \E j \in Intents \cup {None} : Activates(f, tx[f].intent, j)
<1> f \in Actors
  BY DEF Actors
<1> USE DEF IInv
<1> DEFINE i == tx[f].intent
           j == tx[f].prior
<1>1. CASE Confirmed(f) /\ request[i] = "PROVISIONAL" /\ replaces[i] = None
  <2>1. /\ tx[f].at = "own" /\ tx[f].says = "CONFIRMED" /\ Free(Row(i))
        /\ i \in Intents /\ fee[i] = "PAID"
    BY <1>1 DEF Confirmed, Finds, Judging, At, Roles, FinalFrame
  <2>2. \A g \in Finalizers : tx[g].at = "prior" => tx[g].intent \in Intents /\ tx[g].intent # i
    BY <2>1, FreeRow DEF Actors, Roles, FinalFrame
  <2>3. \A a \in Answerers : Answering(tx[a]) => tx[a].intent \in Intents
    BY DEF Roles, AnswerFrame, Answering
  <2>4. /\ request' = [k \in Intents |-> IF k = i THEN "PENDING"
                                         ELSE IF k = None THEN "SUPERSEDED" ELSE request[k]]
        /\ hold' = Retired(None)
    <3>1. j = None
      BY <2>1 DEF Roles, FinalFrame
    <3> QED
      BY <3>1 DEF Activate
  <2> QED
    BY <1>1, <2>1, <2>2, <2>3, <2>4 DEF Activates, Activate
<1>2. CASE PriorLocked(f) /\ request[j] \in Supersedable
  <2>1. /\ tx[f].at = "prior" /\ Free(Row(j)) /\ i \in Intents /\ fee[i] = "PAID"
        /\ request[i] = "PROVISIONAL" /\ j = replaces[i] /\ j # None
    BY <1>2 DEF PriorLocked, At, Roles, FinalFrame
  <2>2. j \in Intents
    BY <2>1 DEF TypeOK
  <2>3. \A g \in Finalizers \ {f} : tx[g].at = "prior" => tx[g].intent \notin {i, j}
    BY <2>1, <2>2, FreeRow DEF Actors, Apart
  <2>4. \A a \in Answerers : Answering(tx[a]) => tx[a].intent # j
    BY <2>1, <2>2, FreeRow DEF Actors, Answering
  <2> QED
    BY <1>2, <2>1, <2>2, <2>3, <2>4 DEF Activates, Activate
<1> QED
  BY <1>1, <1>2 DEF Activate

LEMMA ActivateCommits ==
  ASSUME IInv, NEW f \in Finalizers, Activate(f), UNCHANGED <<fee, locked>>
  PROVE  IInv'
<1> f \in Actors /\ f \notin Callers /\ f \notin Answerers
  BY DEF Actors
<1> USE DEF IInv
<1> DEFINE i == tx[f].intent
<1>1. PICK j \in Intents \cup {None} : Activates(f, i, j)
  BY ActivateActivates
<1> USE <1>1 DEF Activates
<1>2. i # j /\ call[i] \in Listed
  BY DEF Ledger
<1>3. TypeOK'
  <2>1. Idle \in Frames
    BY DEF Idle, Frames
  <2> QED
    BY <2>1 DEF TypeOK, Finish, Retired, RequestStates, CallStates
<1>4. Undisturbed(f)
  BY DEF Undisturbed, Roles, AnswerFrame, FinalFrame, TypeOK, Answering
<1>5. Ledger'
  BY <1>2 DEF Ledger, TypeOK, Supersedable
<1>6. PaidBeforeAsked'
  BY DEF PaidBeforeAsked, TypeOK
<1>7. RetiresItsPrior'
  BY <1>2 DEF SupersessionIsExact, RetiresItsPrior, Standing, Retired, TypeOK
<1>8. RetiredByThePaid'
  BY <1>2 DEF SupersessionIsExact, RetiredByThePaid, TypeOK, Listed
<1>9. Held' \subseteq Held
  BY DEF Held, Retired
<1> QED
  BY <1>3, <1>4, <1>5, <1>6, <1>7, <1>8, <1>9, CommitStep DEF SupersessionIsExact

\* What a sweep does to the rows: some open questions expire together.
Expires(S) ==
  /\ \A i \in S : request[i] = "PENDING"
  /\ request' = [i \in Intents |-> IF i \in S THEN "EXPIRED" ELSE request[i]]
  /\ UNCHANGED <<replaces, lineage, call, attempt, hold, decisions, fee, tx>>

LEMMA ExpireExpires ==
  ASSUME IInv, NEW s \in Sweeps, Expire(s), UNCHANGED <<fee, tx>>
  PROVE  \E S \in SUBSET Intents :
           /\ Expires(S)
           /\ \A a \in Answerers : Answering(tx[a]) => tx[a].intent \notin S
           /\ \A c \in Callers : tx[c].at = "effects" => tx[c].prior \notin S
<1>1. PICK last \in Intents :
        /\ Free(Row(last))
        /\ request' = [i \in Intents |-> IF i \in locked[s] \cup {last} /\ request[i] = "PENDING"
                                         THEN "EXPIRED" ELSE request[i]]
        /\ UNCHANGED <<replaces, lineage, call, attempt, hold, decisions>>
  BY DEF Expire, Asked
<1> DEFINE S == {i \in Intents : i \in locked[s] \cup {last} /\ request[i] = "PENDING"}
<1>2. Expires(S)
  BY <1>1 DEF Expires
<1>3. \A a \in Answerers : Answering(tx[a]) => tx[a].intent \notin S
  BY <1>1, FreeRow DEF IInv, Swept, Answering, Actors
<1>4. \A c \in Callers : tx[c].at = "effects" => tx[c].prior \notin S
  <2>1. \A c \in Callers : tx[c].at = "effects" => tx[c].prior # last
    BY <1>1 DEF Free, Has, Actors
  <2> QED
    BY <2>1 DEF IInv, Swept
<1> QED
  BY <1>2, <1>3, <1>4

\* While the rows stand, a sweep's locks matter to nothing else.
LEMMA RowsStand ==
  ASSUME IInv, TypeOK', Swept', UNCHANGED <<rows, fee, tx>>
  PROVE  IInv'
<1> USE DEF IInv, rows
<1>1. Roles' /\ Apart'
  BY DEF Roles, Apart, CallerFrame, AnswerFrame, FinalFrame, InPolicy, Answering
<1>2. Ledger' /\ PaidBeforeAsked' /\ SupersessionIsExact'
  BY DEF Ledger, PaidBeforeAsked, SupersessionIsExact, RetiresItsPrior, RetiredByThePaid, Standing
<1>3. Slack'
  BY DEF Slack, Held, Preflighting, Deciding, InPolicy
<1> QED
  BY <1>1, <1>2, <1>3

LEMMA SweepSteps ==
  ASSUME IInv, Sweep, UNCHANGED <<fee, tx>>
  PROVE  IInv'
<1> USE DEF IInv
<1>1. PICK s \in Sweeps : LockOverdue(s) \/ Expire(s) \/ AbortSweep(s)
  BY DEF Sweep
<1>2. CASE LockOverdue(s)
  <2>1. PICK i \in Intents :
          Free(Row(i)) /\ locked' = [locked EXCEPT ![s] = @ \cup {i}] /\ UNCHANGED rows
    BY <1>2 DEF LockOverdue, Asked
  <2>2. /\ \A a \in Answerers : Answering(tx[a]) => tx[a].intent # i
        /\ \A c \in Callers : tx[c].at = "effects" => tx[c].prior # i
    <3>1. \A c \in Callers : tx[c].at = "effects" => tx[c].prior # i
      BY <2>1 DEF Free, Has, Actors
    <3> QED
      BY <2>1, <3>1, FreeRow DEF Answering, Actors
  <2>3. Swept'
    BY <2>1, <2>2 DEF Swept, TypeOK, Answering
  <2> QED
    BY <2>1, <2>3, RowsStand DEF TypeOK, rows
<1>3. CASE AbortSweep(s)
  <2>1. locked' = [locked EXCEPT ![s] = {}] /\ UNCHANGED rows
    BY <1>3 DEF AbortSweep, Release
  <2>2. Swept'
    BY <2>1 DEF Swept, TypeOK, Answering
  <2> QED
    BY <2>1, <2>2, RowsStand DEF TypeOK, rows
<1>4. CASE Expire(s)
  <2>1. PICK S \in SUBSET Intents :
          Expires(S) /\ \A a \in Answerers : Answering(tx[a]) => tx[a].intent \notin S
    BY <1>4, ExpireExpires
  <2> USE <2>1 DEF Expires
  <2>2. locked' = [locked EXCEPT ![s] = {}]
    BY <1>4 DEF Expire, Release
  <2>3. TypeOK' /\ Ledger' /\ Apart'
    BY <2>2 DEF TypeOK, RequestStates, Ledger, Apart, InPolicy, Answering
  <2>4. Roles'
    BY DEF Roles, CallerFrame, AnswerFrame, FinalFrame, Answering, TypeOK
  <2>5. Swept'
    BY <2>2 DEF Swept, TypeOK, Answering
  <2>6. PaidBeforeAsked'
    BY DEF PaidBeforeAsked, TypeOK
  <2>7. SupersessionIsExact'
    BY DEF SupersessionIsExact, RetiresItsPrior, RetiredByThePaid, Standing, TypeOK
  <2>8. Slack'
    BY DEF Slack, Preflighting, Deciding, InPolicy, Held
  <2> QED
    BY <2>3, <2>4, <2>5, <2>6, <2>7, <2>8
<1> QED
  BY <1>1, <1>2, <1>3, <1>4

\* The chain and the clock.
LEMMA WorldSteps ==
  ASSUME IInv, NEW i \in Intents, UNCHANGED <<tx, locked>>, SettleFee(i) \/ Lapse(i)
  PROVE  IInv'
<1> USE DEF IInv
<1>1. CASE SettleFee(i)
  <2>1. /\ fee[i] = "OPEN" /\ \E end \in {"PAID", "LOST"} : fee' = [fee EXCEPT ![i] = end]
        /\ UNCHANGED <<request, replaces, lineage, call, attempt, hold, decisions, tx>>
    BY <1>1 DEF SettleFee, rows
  <2>2. TypeOK' /\ Ledger' /\ Apart' /\ Swept'
    BY <2>1 DEF TypeOK, Ledger, Apart, Swept, InPolicy, Answering
  <2>3. Roles'
    BY <2>1 DEF Roles, CallerFrame, AnswerFrame, FinalFrame, Answering, TypeOK
  <2>4. PaidBeforeAsked'
    BY <2>1 DEF PaidBeforeAsked, TypeOK
  <2>5. SupersessionIsExact'
    BY <2>1 DEF SupersessionIsExact, RetiresItsPrior, RetiredByThePaid, Standing, TypeOK
  <2>6. Held' = Held
    BY <2>1 DEF Held
  <2> QED
    BY <2>1, <2>2, <2>3, <2>4, <2>5, <2>6 DEF Slack, Preflighting, Deciding, InPolicy
<1>2. CASE Lapse(i)
  <2>1. /\ hold[i] = "ACTIVE" /\ hold' = [hold EXCEPT ![i] = "LAPSED"]
        /\ UNCHANGED <<request, replaces, lineage, call, attempt, decisions, tx, fee>>
    BY <1>2 DEF Lapse
  <2>2. TypeOK' /\ Ledger' /\ Apart' /\ Swept' /\ PaidBeforeAsked'
    BY <2>1 DEF TypeOK, Ledger, Apart, Swept, InPolicy, Answering, PaidBeforeAsked
  <2>3. Roles'
    BY <2>1 DEF Roles, CallerFrame, AnswerFrame, FinalFrame, Answering
  <2>4. SupersessionIsExact'
    BY <2>1 DEF SupersessionIsExact, RetiresItsPrior, RetiredByThePaid, Standing, TypeOK
  <2>5. Held' \subseteq Held
    BY <2>1 DEF Held, TypeOK
  <2>6. Slack'
    <3>1. UNCHANGED <<Preflighting, Deciding>>
      BY <2>1 DEF Preflighting, Deciding, InPolicy
    <3> QED
      BY <2>5, <3>1, HeldShrinks, HeldIsFinite DEF Slack, One
  <2> QED
    BY <2>2, <2>3, <2>4, <2>6
<1> QED
  BY <1>1, <1>2

-----------------------------------------------------------------------------
\* THE INVARIANT

LEMMA InitIsSound ==
  Init => IInv
<1> SUFFICES ASSUME Init PROVE IInv
  OBVIOUS
<1> USE DEF Init
<1>1. Idle \in Frames
  BY DEF Idle, Frames
<1>2. TypeOK
  BY <1>1 DEF TypeOK, RequestStates, CallStates
<1>3. Roles /\ Apart /\ Swept
  BY DEF Roles, Apart, Swept, CallerFrame, AnswerFrame, FinalFrame, InPolicy, Answering, Idle, Actors
<1>4. Ledger /\ PaidBeforeAsked /\ SupersessionIsExact
  BY DEF Ledger, PaidBeforeAsked, SupersessionIsExact, RetiresItsPrior, RetiredByThePaid
<1>5. Slack
  <2>1. Held = {}
    BY DEF Held
  <2>2. ~Preflighting /\ ~Deciding
    BY DEF Preflighting, Deciding, InPolicy, Idle, Actors
  <2> QED
    BY <2>1, <2>2, FS_EmptySet DEF Slack, One
<1> QED
  BY <1>2, <1>3, <1>4, <1>5 DEF IInv

LEMMA NextIsSound ==
  ASSUME IInv, [Next]_vars
  PROVE  IInv'
<1>1. CASE UNCHANGED vars
  BY <1>1, RowsStand DEF vars, rows, IInv, TypeOK, Swept, Answering
<1>2. ASSUME NEW c \in Callers, Submit(c) \/ CallerStep(c), UNCHANGED <<fee, locked>>
      PROVE  IInv'
  BY <1>2, CallerMoves, PersistCommits, ApprovedCommits DEF CallerStep
<1>3. ASSUME NEW a \in Answerers, Press(a) \/ AnswererStep(a), UNCHANGED <<fee, locked>>
      PROVE  IInv'
  BY <1>3, AnswererMoves, AnswerCommits DEF AnswererStep
<1>4. ASSUME NEW f \in Finalizers, AskAuthority(f) \/ FinalizerStep(f), UNCHANGED <<fee, locked>>
      PROVE  IInv'
  BY <1>4, FinalizerMoves, EvidenceCommits, ActivateCommits DEF FinalizerStep
<1>5. ASSUME NEW p \in Actors, Abort(p), UNCHANGED <<fee, locked>>
      PROVE  IInv'
  BY <1>5, FinishStep DEF Abort
<1>6. ASSUME Sweep, UNCHANGED <<fee, tx>>
      PROVE  IInv'
  BY <1>6, SweepSteps
<1>7. ASSUME NEW i \in Intents, SettleFee(i) \/ Lapse(i), UNCHANGED <<tx, locked>>
      PROVE  IInv'
  BY <1>7, WorldSteps
<1>8. Next \/ UNCHANGED vars
  OBVIOUS
<1> QED
  BY <1>1, <1>2, <1>3, <1>4, <1>5, <1>6, <1>7, <1>8 DEF Next, Step

THEOREM Invariance ==
  Spec => []IInv
BY InitIsSound, NextIsSound, PTL DEF Spec

-----------------------------------------------------------------------------
\* THE PROPERTIES

\* Every variable and every transaction keeps its type.
THEOREM ApprovalsTyped ==
  Spec => []TypeOK
BY Invariance, PTL DEF IInv

\* Nobody is asked, and nothing is decided, on a fee that did not settle.
THEOREM AskedIsPaid ==
  Spec => []PaidBeforeAsked
BY Invariance, PTL DEF IInv

\* A requote retires exactly what it replaces, and only once it is paid for.
THEOREM RequotesRetire ==
  Spec => []SupersessionIsExact
BY Invariance, PTL DEF IInv

\* However many preflights and channels race, the budget is overshot by one grant
\* at most: each door admits one transaction at a time.
THEOREM OvershootBounded ==
  Spec => []OvershootIsOne
<1>1. IInv => OvershootIsOne
  BY HeldIsFinite DEF IInv, Slack, One, OvershootIsOne, LiveExposure, Held
<1> QED
  BY <1>1, Invariance, PTL

\* What is paid and not yet asked is listed for the reconciler.
THEOREM NothingPaidIsForgotten ==
  Spec => []PaidStaysListed
<1>1. IInv => PaidStaysListed
  BY DEF IInv, Ledger, PaidStaysListed
<1> QED
  BY <1>1, Invariance, PTL

LEMMA OutcomesHold ==
  ASSUME IInv, [Next]_vars, NEW i \in Intents
  PROVE  /\ request[i] \in {"REJECTED", "EXPIRED", "PAYMENT_FAILED", "SUPERSEDED"}
              => request'[i] = request[i]
         /\ request[i] = "APPROVED" => request'[i] \in {"APPROVED", "SUPERSEDED"}
<1> USE DEF IInv
<1>1. CASE UNCHANGED request
  BY <1>1
<1>2. ASSUME NEW k \in Intents, NEW end, request' = [request EXCEPT ![k] = end],
             request[k] \in {"NONE", "PROVISIONAL", "PENDING"}
      PROVE  request[i] = request'[i] \/ request[i] \in {"NONE", "PROVISIONAL", "PENDING"}
  BY <1>2 DEF TypeOK
<1>3. CASE \E c \in Callers : PersistEscalatedApproval(c)
  <2>1. PICK c \in Callers : PersistEscalatedApproval(c)
    BY <1>3
  <2>2. tx[c].intent \in Intents
    BY <2>1 DEF PersistEscalatedApproval, At, Roles, CallerFrame
  <2> QED
    BY <1>1, <1>2, <2>1, <2>2 DEF PersistEscalatedApproval, Insertable
<1>4. CASE \E a \in Answerers : Deny(a) \/ Approve(a)
  <2>1. PICK a \in Answerers : Deny(a) \/ Approve(a)
    BY <1>4
  <2>2. tx[a].intent \in Intents /\ request[tx[a].intent] = "PENDING"
    BY <2>1 DEF Deny, Approve, At, Roles, AnswerFrame, Answering
  <2> QED
    BY <1>2, <2>1, <2>2 DEF Deny, Approve
<1>5. CASE \E f \in Finalizers : RecordFailure(f)
  <2>1. PICK f \in Finalizers : RecordFailure(f)
    BY <1>5
  <2>2. tx[f].intent \in Intents
    BY <2>1 DEF RecordFailure, Finds, Judging, At, Roles, FinalFrame
  <2> QED
    BY <2>1, <2>2 DEF RecordFailure, TypeOK
<1>6. CASE \E f \in Finalizers : Activate(f)
  <2>1. PICK f \in Finalizers : Activate(f)
    BY <1>6
  <2>2. PICK j \in Intents \cup {None} : Activates(f, tx[f].intent, j)
    BY <2>1, ActivateActivates
  <2> QED
    BY <2>2 DEF Activates, Supersedable
<1>7. CASE Sweep /\ UNCHANGED <<fee, tx>>
  <2>1. UNCHANGED request \/ \E S \in SUBSET Intents : Expires(S)
    BY <1>7, ExpireExpires DEF Sweep, LockOverdue, AbortSweep, rows
  <2> QED
    BY <2>1 DEF Expires
<1> QED
  BY <1>1, <1>3, <1>4, <1>5, <1>6, <1>7
  DEF Next, Step, vars, rows, CallerStep, AnswererStep, FinalizerStep, Submit, Begin, LockPartition,
      ValidateRequoteClaim, CommitApproved, Press, LockRequest, LockServiceCall, Recheck,
      AskAuthority, AskFor, LockCall, AlreadyActive, LeaveUnresolved, LockPrior, NotSupersedable,
      Abort, SettleFee, Lapse

\* A question has one outcome, whoever races for it.
THEOREM OutcomesAreFinal ==
  Spec => OneOutcome
<1>1. IInv /\ [Next]_vars =>
        [\A i \in Intents :
           /\ request[i] \in {"REJECTED", "EXPIRED", "PAYMENT_FAILED", "SUPERSEDED"}
                => request'[i] = request[i]
           /\ request[i] = "APPROVED" => request'[i] \in {"APPROVED", "SUPERSEDED"}]_vars
  BY OutcomesHold
<1> QED
  BY <1>1, Invariance, PTL DEF Spec, OneOutcome
=============================================================================
