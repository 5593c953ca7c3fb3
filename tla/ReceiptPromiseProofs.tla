------------------------- MODULE ReceiptPromiseProofs -------------------------
(***************************************************************************)
(* The receipt writer implements ReceiptPromise, for any number of         *)
(* receipts, batches, transactions and loops.                              *)
(*                                                                         *)
(* IInv says what a loop may trust of hashes and depths; the refinement    *)
(* also needs what it may trust of batches: that the one it is at, and     *)
(* each on its list, was created (WorkHeld), and that the next number is   *)
(* free, so that a claim never joins a group that exists (Numbered).       *)
(***************************************************************************)
EXTENDS ReceiptProofs, FiniteSetTheorems

\* Batches are numbered without gaps.
Numbered == \E n \in 0..MaxBatches : Created = 1..n

\* A frame that is at an existing batch and lists existing batches.
Founded(frame) ==
  /\ frame.step = "claim" => frame.rows # {}
  /\ frame.step \in {"submit", "sent", "error", "degrade", "confirm"} => frame.batch \in Created
  /\ \A e \in frame.todo : e[1] \in Created

WorkHeld ==
  /\ \A t \in Loops : Founded(loop[t])
  /\ \A x \in Txs : tx[x].fate # "free" => tx[x].batch \in Created

GInv == IInv /\ Numbered /\ WorkHeld

-----------------------------------------------------------------------------
\* THE FRAMES

\* The number a claim takes belongs to no batch yet, and leaves no gap.
LEMMA NextNumberIsFree ==
  ASSUME Numbered
  PROVE  /\ Cardinality(Created) \in Nat
         /\ Cardinality(Created) + 1 \notin Created
         /\ Created = 1..Cardinality(Created)
<1>1. PICK n \in 0..MaxBatches : Created = 1..n
  BY DEF Numbered
<1>2. Cardinality(1..n) = n
  BY FS_Interval
<1> QED
  BY <1>1, <1>2

\* A loop goes to a founded frame, and no batch and no transaction is new.
LEMMA FoundedStep ==
  ASSUME GInv, NEW t \in Loops, NEW frame, Founded(frame), Goes(t, frame),
         Created' = Created, UNCHANGED tx
  PROVE  Numbered' /\ WorkHeld'
<1>1. \A u \in Loops : loop'[u] = loop[u] \/ loop'[u] = frame
  BY DEF GInv, IInv, TypeOK, Goes
<1> QED
  BY <1>1 DEF GInv, Numbered, WorkHeld, Founded

LEMMA RestingIsFounded == Founded(Resting)
BY DEF Founded, Resting

LEMMA OnwardIsFounded ==
  ASSUME GInv, NEW t \in Loops
  PROVE  Founded(Onward(t))
BY DEF GInv, WorkHeld, Founded, Onward, Resting

LEMMA PoppedIsFounded ==
  ASSUME GInv, NEW t \in Loops, NEW e \in First(t)
  PROVE  /\ e[1] \in Created
         /\ Founded(Popped(t, e))
         /\ \A step \in {"submit", "degrade", "confirm"} :
              Founded([Popped(t, e) EXCEPT !.step = step, !.batch = e[1]])
         /\ Founded([Popped(t, e) EXCEPT !.step = "submit", !.batch = e[1], !.attempt = 1])
BY DEF GInv, WorkHeld, Founded, Popped, Resting, First

\* A row that is written is the row of a batch that exists, and stays one.
LEMMA RowIsOld ==
  ASSUME IInv, NEW b \in Created, NEW row, row.status # "none",
         batch' = [batch EXCEPT ![b] = row]
  PROVE  Created' = Created
BY DEF IInv, TypeOK, Created

-----------------------------------------------------------------------------
\* THE STEPS

\* Steps of a loop that leave batches, rows and chain alone.
Silent(t) ==
  \/ t \in Flushers /\ SelectQueued(t)
  \/ t \in Recoverers /\ (List(t, "PENDING") \/ TakeUp(t))
  \/ t \in Reconcilers /\ (List(t, "SUBMITTED") \/ Inspect(t) \/ InspectUnanswered(t))
  \/ Rest(t) \/ SendFails(t) \/ MarkFails(t) \/ Retry(t) \/ Dies(t)

LEMMA SilentStep ==
  ASSUME GInv, NEW t \in Loops, Silent(t)
  PROVE  /\ UNCHANGED <<queued, batchOf, quarantined, batch, tx>>
         /\ Numbered' /\ WorkHeld'
<1>1. UNCHANGED <<queued, batchOf, quarantined, batch, tx>>
  BY DEF Silent, SelectQueued, List, TakeUp, Inspect, InspectUnanswered, Rest, SendFails,
     MarkFails, Retry, Dies
<1>2. Created' = Created
  BY <1>1 DEF Created
<1>3. Founded(loop[t]) /\ loop[t] \in Frames
  BY DEF GInv, WorkHeld, IInv, TypeOK
<1>4. \E frame : Founded(frame) /\ Goes(t, frame)
  <2>1. CASE SelectQueued(t)
    BY <2>1 DEF SelectQueued, Founded, Resting
  <2>2. ASSUME NEW status \in {"PENDING", "SUBMITTED"}, List(t, status)
        PROVE  \E frame : Founded(frame) /\ Goes(t, frame)
    <3> DEFINE frame == [Resting EXCEPT !.step = "next", !.todo = Listed(status)]
    <3>1. \A e \in Listed(status) : e[1] \in Created
      BY DEF Listed, Created
    <3>2. Founded(frame)
      BY <3>1 DEF Founded, Resting
    <3> QED
      BY <2>2, <3>2 DEF List
  <2>3. CASE TakeUp(t)
    BY <2>3, PoppedIsFounded DEF TakeUp
  <2>4. CASE t \in Reconcilers /\ Inspect(t)
    <3>1. PICK e \in First(t) : \E step \in Looked(e[2]) :
             Goes(t, IF step = "next" THEN Popped(t, e)
                     ELSE [Popped(t, e) EXCEPT !.step = step, !.batch = e[1]])
      BY <2>4 DEF Inspect
    <3>2. e[2] \in Txs
      BY <2>4, PoppedIsBearable DEF Logs, GInv
    <3>3. tx[e[2]].fate \in {"free", "pool", "mined", "reverted", "final", "dropped"}
      BY <3>2 DEF GInv, IInv, TypeOK
    <3>4. Looked(e[2]) \subseteq {"submit", "degrade", "next", "confirm"}
      BY <3>3 DEF Looked
    <3> QED
      BY <3>1, <3>4, PoppedIsFounded
  <2>5. CASE InspectUnanswered(t)
    BY <2>5, PoppedIsFounded DEF InspectUnanswered
  <2>6. CASE Rest(t) \/ Dies(t)
    BY <2>6, RestingIsFounded DEF Rest, Dies
  <2>7. CASE SendFails(t)
    BY <1>3, <2>7 DEF SendFails, At, Founded, Frames
  <2>8. CASE MarkFails(t)
    BY <1>3, <2>8 DEF MarkFails, At, Founded, Frames
  <2>9. CASE Retry(t)
    BY <1>3, <2>9, OnwardIsFounded DEF Retry, At, Founded, Frames
  <2> QED
    BY <2>1, <2>2, <2>3, <2>4, <2>5, <2>6, <2>7, <2>8, <2>9 DEF Silent
<1> QED
  BY <1>1, <1>2, <1>4, FoundedStep

\* A claim creates the next batch, and its loop goes on with it.
LEMMA ClaimStep ==
  ASSUME GInv, NEW t \in Loops, CommitClaim(t)
  PROVE  Numbered' /\ WorkHeld'
<1> DEFINE b == Cardinality(Created) + 1
           frame == [Resting EXCEPT !.step = "submit", !.batch = b, !.attempt = 1]
<1>1. /\ b \in BatchIds /\ UNCHANGED tx /\ Goes(t, frame)
      /\ batch' = [batch EXCEPT ![b].status = "PENDING"]
  BY DEF CommitClaim
<1>2. b \notin Created /\ Created = 1..(b - 1) /\ b - 1 \in Nat
  BY NextNumberIsFree DEF GInv
<1>3. frame.step = "submit" /\ frame.batch = b /\ frame.todo = {}
  BY DEF Resting
<1> HIDE DEF b, frame
<1>4. Created' = Created \cup {b}
  BY <1>1 DEF Created, GInv, IInv, TypeOK
<1>5. Numbered'
  BY <1>1, <1>2, <1>4 DEF Numbered, BatchIds
<1>6. \A u \in Loops : loop'[u] = loop[u] \/ loop'[u] = frame
  BY <1>1 DEF GInv, IInv, TypeOK, Goes
<1>7. WorkHeld'
  BY <1>1, <1>3, <1>4, <1>6 DEF GInv, WorkHeld, Founded
<1> QED
  BY <1>5, <1>7

\* What is sent logs the batch in hand.
LEMMA SendFounds ==
  ASSUME GInv, NEW t \in Loops, Send(t)
  PROVE  Numbered' /\ WorkHeld'
<1>1. PICK x \in Txs :
         /\ tx' = [tx EXCEPT ![x] = [batch |-> loop[t].batch, fate |-> "pool"]]
         /\ Goes(t, [loop[t] EXCEPT !.step = "sent", !.tx = x])
  BY DEF Send
<1>2. At(t, "submit") /\ Created' = Created /\ UNCHANGED batch
  BY DEF Send, Created
<1>3. loop[t] \in Frames /\ Founded(loop[t]) /\ loop[t].batch \in Created
  BY <1>2 DEF GInv, IInv, TypeOK, WorkHeld, Founded, At
<1> DEFINE frame == [loop[t] EXCEPT !.step = "sent", !.tx = x]
<1>4. Founded(frame)
  BY <1>3 DEF Founded, Frames
<1>5. \A u \in Loops : loop'[u] = loop[u] \/ loop'[u] = frame
  BY <1>1 DEF GInv, IInv, TypeOK, Goes
<1> HIDE DEF frame
<1>6. \A y \in Txs : tx'[y].fate # "free" => tx'[y].batch \in Created
  BY <1>1, <1>3 DEF GInv, WorkHeld, IInv, TypeOK
<1> QED
  BY <1>2, <1>4, <1>5, <1>6 DEF GInv, Numbered, WorkHeld, Founded

\* The row of the batch in hand, however late it is written.
LEMMA WriteStep ==
  ASSUME GInv, NEW t \in Loops, MarkSubmitted(t) \/ MarkDegraded(t) \/ MarkConfirmed(t)
  PROVE  /\ loop[t].batch \in Created
         /\ Numbered' /\ WorkHeld'
<1> DEFINE b == loop[t].batch
<1>1. b \in Created
  BY DEF GInv, WorkHeld, Founded, MarkSubmitted, MarkDegraded, MarkConfirmed, At
<1>2. batch[b] \in [status : Statuses \cup {"none"}, tx : Txs \cup {NoTx}]
  BY <1>1 DEF Created, GInv, IInv, TypeOK
<1>3. Created' = Created
  <2>1. CASE batch' = batch
    BY <2>1 DEF Created
  <2>2. ASSUME NEW row, row.status # "none", batch' = [batch EXCEPT ![b] = row]
        PROVE  Created' = Created
    BY <1>1, <2>2, RowIsOld DEF GInv
  <2>3. CASE MarkSubmitted(t)
    <3> DEFINE row == [status |-> "SUBMITTED", tx |-> loop[t].tx]
    <3>1. row.status # "none" /\ batch' = [batch EXCEPT ![b] = row]
      BY <2>3 DEF MarkSubmitted
    <3> QED
      BY <2>2, <3>1
  <2>4. ASSUME NEW word \in {"DEGRADED_UNANCHORED", "CONFIRMED"},
               batch' = [batch EXCEPT ![b].status = word]
        PROVE  Created' = Created
    <3> DEFINE row == [batch[b] EXCEPT !.status = word]
    <3>1. row.status # "none" /\ batch' = [batch EXCEPT ![b] = row]
      BY <1>2, <2>4
    <3> QED
      BY <2>2, <3>1
  <2>5. CASE MarkDegraded(t) \/ MarkConfirmed(t)
    BY <2>1, <2>4, <2>5 DEF MarkDegraded, MarkConfirmed
  <2> QED
    BY <2>3, <2>5
<1>4. UNCHANGED tx /\ (Goes(t, Resting) \/ Goes(t, Onward(t)))
  BY DEF MarkSubmitted, MarkDegraded, MarkConfirmed, PastTrigger
<1> QED
  BY <1>1, <1>3, <1>4, RestingIsFounded, OnwardIsFounded, FoundedStep

\* Nobody but a claim creates a batch, and the chain only ages transactions.
LEMMA OutsideStep ==
  ASSUME GInv,
         \/ \E r \in Receipts : Enqueue(r) \/ Annotate(r)
         \/ \E b \in BatchIds : RedriveDegraded(b)
         \/ \E x \in Txs : Include(x) \/ Revert(x) \/ Settle(x) \/ Drop(x)
         \/ UNCHANGED vars
  PROVE  Numbered' /\ WorkHeld'
<1>1. UNCHANGED loop
  BY DEF Enqueue, Annotate, RedriveDegraded, Include, Revert, Settle, Drop, ChainOnly, vars
<1>2. Created' = Created
  BY DEF Enqueue, Annotate, RedriveDegraded, Include, Revert, Settle, Drop, ChainOnly, vars,
     Created, GInv, IInv, TypeOK
<1>3. \A y \in Txs : tx'[y].batch = tx[y].batch /\ (tx'[y].fate # "free" => tx[y].fate # "free")
  BY DEF Enqueue, Annotate, RedriveDegraded, Include, Revert, Settle, Drop, Becomes, vars,
     GInv, IInv, TypeOK
<1> QED
  BY <1>1, <1>2, <1>3 DEF GInv, Numbered, WorkHeld, Founded

LEMMA InitGInv == Init => GInv
<1> SUFFICES ASSUME Init PROVE Numbered /\ WorkHeld
  BY InitIInv DEF GInv
<1>1. Created = 1..0
  BY DEF Init, Created
<1>2. Numbered
  <2>1. 0 \in 0..MaxBatches
    BY SizesAssumption
  <2> QED
    BY <1>1, <2>1, Zenon DEF Numbered
<1>3. WorkHeld
  BY RestingIsFounded DEF Init, WorkHeld
<1> QED
  BY <1>2, <1>3

LEMMA NextGInv == GInv /\ [Next]_vars => GInv'
<1> SUFFICES ASSUME GInv, [Next]_vars PROVE Numbered' /\ WorkHeld'
  BY NextKeeps DEF GInv
<1>1. ASSUME NEW t \in Loops, Silent(t) PROVE Numbered' /\ WorkHeld'
  BY <1>1, SilentStep
<1>2. ASSUME NEW t \in Loops, CommitClaim(t) PROVE Numbered' /\ WorkHeld'
  BY <1>2, ClaimStep
<1>3. ASSUME NEW t \in Loops, Send(t) PROVE Numbered' /\ WorkHeld'
  BY <1>3, SendFounds
<1>4. ASSUME NEW t \in Loops, MarkSubmitted(t) \/ MarkDegraded(t) \/ MarkConfirmed(t)
      PROVE  Numbered' /\ WorkHeld'
  BY <1>4, WriteStep
<1>5. CASE \/ \E r \in Receipts : Enqueue(r) \/ Annotate(r)
           \/ \E b \in BatchIds : RedriveDegraded(b)
           \/ \E x \in Txs : Include(x) \/ Revert(x) \/ Settle(x) \/ Drop(x)
           \/ UNCHANGED vars
  BY <1>5, OutsideStep
<1> QED
  BY <1>1, <1>2, <1>3, <1>4, <1>5 DEF Next, Work, Silent

-----------------------------------------------------------------------------
\* THE REFINEMENT

\* What the mapping sees of a step that writes the row of one batch.
LEMMA RowSeen ==
  ASSUME GInv, NEW b \in BatchIds, NEW row, batch' = [batch EXCEPT ![b] = row]
  PROVE  Status' = [Status EXCEPT ![b] = row.status]
BY DEF GInv, IInv, TypeOK, Status

\* ... or of the status in it.
LEMMA WordSeen ==
  ASSUME GInv, NEW b \in BatchIds, NEW word, batch' = [batch EXCEPT ![b].status = word]
  PROVE  Status' = [Status EXCEPT ![b] = word]
BY DEF GInv, IInv, TypeOK, Status

\* Transactions that were not final and are not: the mapping sees nothing.
LEMMA ChainUnseen ==
  ASSUME GInv, NEW x \in Txs, NEW log, tx' = [tx EXCEPT ![x] = log],
         tx[x].fate # "final", log.fate # "final"
  PROVE  Anchored' = Anchored
BY DEF GInv, IInv, TypeOK, Anchored, OnChain

\* A step that leaves rows, batches and chain as they are is a stutter.
LEMMA Unseen ==
  ASSUME UNCHANGED <<queued, batchOf, quarantined, batch, tx>>
  PROVE  UNCHANGED Promise!vars
BY DEF Promise!vars, Enqueued, Status, Anchored, OnChain

LEMMA EnqueueRefines ==
  ASSUME GInv, NEW r \in Receipts, Enqueue(r)
  PROVE  Promise!Accept(r)
BY DEF Enqueue, Promise!Accept, Enqueued, Status, Anchored, OnChain

LEMMA AnnotateRefines ==
  ASSUME GInv, NEW r \in Receipts, Annotate(r)
  PROVE  Promise!Withhold(r)
BY DEF Annotate, Promise!Withhold, Enqueued, Status, Anchored, OnChain

\* A claim gathers rows that nobody else has into a batch that did not exist.
LEMMA ClaimRefines ==
  ASSUME GInv, NEW t \in Loops, CommitClaim(t)
  PROVE  \E b \in BatchIds : \E rows \in SUBSET Receipts : Promise!Gather(b, rows)
<1> DEFINE b == Cardinality(Created) + 1
           rows == loop[t].rows
<1>1. /\ b \in BatchIds
      /\ batch' = [batch EXCEPT ![b].status = "PENDING"]
      /\ queued' = queued \ rows
      /\ batchOf' = [r \in Receipts |-> IF r \in rows THEN b ELSE batchOf[r]]
      /\ UNCHANGED <<quarantined, tx>>
  BY DEF CommitClaim
<1>2. b \notin Created
  BY NextNumberIsFree DEF GInv
<1>3. rows # {} /\ rows \in SUBSET Receipts
  BY DEF GInv, WorkHeld, Founded, CommitClaim, At, IInv, TypeOK, Frames
<1>4. \A r \in rows : r \in queued /\ batchOf[r] = NoBatch
  BY DEF GInv, IInv, RowsHeld
<1>5. b # NoBatch
  BY <1>1 DEF BatchIds, NoBatch
<1> HIDE DEF b, rows
<1>6. Status' = [Status EXCEPT ![b] = "PENDING"]
  BY <1>1, WordSeen
<1>7. Enqueued' = Enqueued
  BY <1>1, <1>3, <1>4, <1>5 DEF Enqueued
<1>8. Anchored' = Anchored
  BY <1>1 DEF Anchored, OnChain
<1>9. Status[b] = "none"
  BY <1>1, <1>2 DEF Status, Created
<1>10. \A r \in rows : r \in Enqueued /\ batchOf[r] = NoBatch
  BY <1>3, <1>4 DEF Enqueued
<1> QED
  BY <1>1, <1>3, <1>6, <1>7, <1>8, <1>9, <1>10
     DEF Promise!Gather, Promise!Exists, Promise!Records

\* A row that is written says what the promise lets it say.
LEMMA WriteRefines ==
  ASSUME GInv, NEW t \in Loops, MarkSubmitted(t) \/ MarkDegraded(t) \/ MarkConfirmed(t)
  PROVE  \/ UNCHANGED Promise!vars
         \/ \E b \in BatchIds : Promise!Submit(b) \/ Promise!GiveUp(b) \/ Promise!Confirm(b)
<1> DEFINE b == loop[t].batch
<1>1. b \in Created /\ b \in BatchIds
  BY WriteStep DEF Created
<1>2. batch[b] \in [status : Statuses \cup {"none"}, tx : Txs \cup {NoTx}]
  BY <1>1 DEF GInv, IInv, TypeOK
<1>3. Status[b] # "none"
  BY <1>1 DEF Status, Created
<1>4. UNCHANGED <<Enqueued, batchOf, quarantined, Anchored>>
  BY DEF MarkSubmitted, MarkDegraded, MarkConfirmed, Enqueued, Anchored, OnChain
<1>5. ~Refused(b) => \A r \in quarantined : batchOf[r] # b
  BY DEF Refused, Members, GInv, IInv, TypeOK
<1>6. CASE MarkSubmitted(t)
  <2> DEFINE row == [status |-> "SUBMITTED", tx |-> loop[t].tx]
  <2>1. batch' = [batch EXCEPT ![b] = row] /\ row.status = "SUBMITTED" /\ ~Refused(b)
    BY <1>6 DEF MarkSubmitted
  <2>2. Status' = [Status EXCEPT ![b] = "SUBMITTED"]
    BY <1>1, <2>1, RowSeen
  <2> QED
    BY <1>1, <1>3, <1>4, <1>5, <2>1, <2>2
       DEF Promise!Submit, Promise!Exists, Promise!Clean, Promise!Records
<1>7. CASE MarkDegraded(t)
  BY <1>1, <1>3, <1>4, <1>7, WordSeen
     DEF MarkDegraded, Promise!GiveUp, Promise!Exists, Promise!Records
<1>8. CASE MarkConfirmed(t) /\ Refused(b)
  BY <1>8, Unseen DEF MarkConfirmed
<1>9. CASE MarkConfirmed(t) /\ ~Refused(b)
  <2>1. b \in Anchored
    BY <1>1, <1>9 DEF MarkConfirmed, GInv, IInv, DepthHeld, Anchored
  <2>2. Status' = [Status EXCEPT ![b] = "CONFIRMED"]
    BY <1>1, <1>9, WordSeen DEF MarkConfirmed
  <2> QED
    BY <1>1, <1>4, <1>5, <1>9, <2>1, <2>2
       DEF Promise!Confirm, Promise!Clean, Promise!Records
<1> QED
  BY <1>6, <1>7, <1>8, <1>9

LEMMA RedriveRefines ==
  ASSUME GInv, NEW b \in BatchIds, RedriveDegraded(b)
  PROVE  Promise!Redrive(b)
<1>1. Status' = [Status EXCEPT ![b] = "PENDING"]
  BY WordSeen DEF RedriveDegraded
<1>2. Status[b] = "DEGRADED_UNANCHORED"
  BY DEF RedriveDegraded, Status
<1>3. UNCHANGED <<Enqueued, batchOf, quarantined, Anchored>>
  BY DEF RedriveDegraded, Enqueued, Anchored, OnChain
<1> QED
  BY <1>1, <1>2, <1>3 DEF Promise!Redrive, Promise!Records

\* A transaction that is sent, mined, reverted or dropped anchors nothing yet.
LEMMA SendUnseen ==
  ASSUME GInv, NEW t \in Loops, Send(t)
  PROVE  UNCHANGED Promise!vars
<1>1. PICK x \in Txs :
         Unused(x) /\ tx' = [tx EXCEPT ![x] = [batch |-> loop[t].batch, fate |-> "pool"]]
  BY DEF Send
<1> DEFINE log == [batch |-> loop[t].batch, fate |-> "pool"]
<1>2. tx[x].fate # "final" /\ log.fate # "final"
  BY <1>1 DEF Unused
<1>3. Anchored' = Anchored
  BY <1>1, <1>2, ChainUnseen
<1>4. UNCHANGED <<queued, batchOf, quarantined, batch>>
  BY DEF Send
<1> QED
  BY <1>3, <1>4 DEF Promise!vars, Enqueued, Status

\* One that is settled anchors the batch it was sent for, which exists.
LEMMA ChainRefines ==
  ASSUME GInv, NEW x \in Txs, Include(x) \/ Revert(x) \/ Settle(x) \/ Drop(x)
  PROVE  UNCHANGED Promise!vars \/ \E b \in BatchIds : Promise!Anchor(b)
<1>1. UNCHANGED <<queued, batchOf, quarantined, batch>>
  BY DEF Include, Revert, Settle, Drop, ChainOnly
<1>2. UNCHANGED <<Enqueued, Status>>
  BY <1>1 DEF Enqueued, Status
<1>3. ASSUME NEW fate \in {"mined", "reverted", "dropped"}, Becomes(x, fate), tx[x].fate # "final"
      PROVE  UNCHANGED Promise!vars
  <2> DEFINE log == [tx[x] EXCEPT !.fate = fate]
  <2>1. tx' = [tx EXCEPT ![x] = log] /\ log.fate = fate
    BY <1>3 DEF Becomes, GInv, IInv, TypeOK
  <2>2. Anchored' = Anchored
    BY <1>3, <2>1, ChainUnseen
  <2> QED
    BY <1>1, <1>2, <2>2 DEF Promise!vars
<1>4. CASE Include(x) \/ Revert(x) \/ Drop(x)
  BY <1>3, <1>4 DEF Include, Revert, Drop
<1>5. CASE Settle(x)
  <2> DEFINE b == tx[x].batch
  <2>1. b \in Created /\ b \in BatchIds
    BY <1>5 DEF Settle, GInv, WorkHeld, Created
  <2>2. tx'[x] = [batch |-> b, fate |-> "final"] /\ \A y \in Txs \ {x} : tx'[y] = tx[y]
    BY <1>5 DEF Settle, Becomes, GInv, IInv, TypeOK
  <2>3. Anchored' = Anchored \cup {b}
    BY <1>5, <2>1, <2>2 DEF Settle, Anchored, OnChain
  <2>4. Status[b] # "none"
    BY <2>1 DEF Status, Created
  <2> QED
    BY <1>1, <1>2, <2>1, <2>3, <2>4 DEF Promise!Anchor, Promise!Exists
<1> QED
  BY <1>4, <1>5

\* Every step of the writer is one of the promise, or none.
LEMMA StepRefines == GInv /\ [Next]_vars => [Promise!Next]_(Promise!vars)
<1> SUFFICES ASSUME GInv, [Next]_vars
             PROVE  Promise!Next \/ UNCHANGED Promise!vars
  OBVIOUS
<1>1. ASSUME NEW r \in Receipts, Enqueue(r) \/ Annotate(r) PROVE Promise!Next
  BY <1>1, EnqueueRefines, AnnotateRefines DEF Promise!Next
<1>2. ASSUME NEW t \in Loops, Silent(t) PROVE UNCHANGED Promise!vars
  BY <1>2, SilentStep, Unseen
<1>3. ASSUME NEW t \in Loops, CommitClaim(t) PROVE Promise!Next
  BY <1>3, ClaimRefines DEF Promise!Next
<1>4. ASSUME NEW t \in Loops, Send(t) PROVE UNCHANGED Promise!vars
  BY <1>4, SendUnseen
<1>5. ASSUME NEW t \in Loops, MarkSubmitted(t) \/ MarkDegraded(t) \/ MarkConfirmed(t)
      PROVE  Promise!Next \/ UNCHANGED Promise!vars
  BY <1>5, WriteRefines DEF Promise!Next
<1>6. ASSUME NEW b \in BatchIds, RedriveDegraded(b) PROVE Promise!Next
  BY <1>6, RedriveRefines DEF Promise!Next
<1>7. ASSUME NEW x \in Txs, Include(x) \/ Revert(x) \/ Settle(x) \/ Drop(x)
      PROVE  Promise!Next \/ UNCHANGED Promise!vars
  BY <1>7, ChainRefines DEF Promise!Next
<1>8. CASE UNCHANGED vars
  BY <1>8, Unseen DEF vars
<1> QED
  BY <1>1, <1>2, <1>3, <1>4, <1>5, <1>6, <1>7, <1>8 DEF Next, Work, Silent

\* Loops that overlap, retry, list stale batches and die anywhere: the receipt
\* writer keeps ReceiptPromise.
THEOREM ReceiptsArePromised == Spec => KeepsReceiptPromise
<1>1. Init => Promise!Init
  BY DEF Init, Promise!Init, Enqueued, Status, Anchored, OnChain, NoBatch
<1>2. Spec => []GInv
  BY InitGInv, NextGInv, PTL DEF Spec
<1>3. Spec => Promise!Init /\ [][Promise!Next]_(Promise!vars)
  BY <1>1, <1>2, StepRefines, PTL DEF Spec
<1> QED
  BY <1>3 DEF KeepsReceiptPromise, Promise!Spec
=============================================================================
