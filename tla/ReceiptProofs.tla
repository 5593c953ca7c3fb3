---------------------------- MODULE ReceiptProofs ----------------------------
(***************************************************************************)
(* What the receipt writer keeps, for any number of receipts, of batches,  *)
(* of transactions and of loops.                                           *)
(*                                                                         *)
(* The safety properties are not inductive: a loop acts on what it listed, *)
(* sent or saw several awaits ago.  IInv says what such a frame may still  *)
(* be trusted for.                                                         *)
(***************************************************************************)
EXTENDS ReceiptProperties, TLAPS

USE SizesAssumption, LoopsAssumption, TxsAssumption

\* x was sent for b.
Logs(x, b) == x \in Txs /\ tx[x].batch = b /\ tx[x].fate # "free"

\* What the loops hold: locked rows that no batch has, hashes that were sent,
\* confirmations of what is final.
RowsHeld ==
  /\ \A r \in queued : batchOf[r] = NoBatch
  /\ \A t \in Loops : loop[t].rows \subseteq queued
  /\ \A t, u \in Loops : t # u => loop[t].rows \cap loop[u].rows = {}
SentHeld == \A t \in Loops : At(t, "sent") => Logs(loop[t].tx, loop[t].batch)
ListHeld == \A t \in Reconcilers : \A e \in loop[t].todo : Logs(e[2], e[1])
DepthHeld == \A t \in Loops : At(t, "confirm") => OnChain(loop[t].batch)
SubmittedHasTx == \A b \in BatchIds : batch[b].status = "SUBMITTED" => batch[b].tx # NoTx

IInv == /\ TypeOK /\ RowsHeld
        /\ RecordedWasSent /\ SubmittedHasTx /\ SentHeld /\ ListHeld
        /\ DepthHeld /\ ConfirmedIsFinal

-----------------------------------------------------------------------------
\* THE FRAMES

\* What a frame of t must be for the rest of the state to bear it.
Bearable(t, frame) ==
  /\ frame \in Frames
  /\ frame.rows \subseteq Claimable \cup loop[t].rows
  /\ frame.step = "sent" => Logs(frame.tx, frame.batch)
  /\ t \in Reconcilers => \A e \in frame.todo : Logs(e[2], e[1])
  /\ frame.step = "confirm" => OnChain(frame.batch)

LEMMA RestingIsBearable ==
  ASSUME IInv, NEW t \in Loops
  PROVE  Bearable(t, Resting)
BY DEF Bearable, Frames, Resting, NoBatch

\* A loop that rests but for its list is at a frame.
LEMMA ListsAreFrames ==
  ASSUME NEW todo \in SUBSET (BatchIds \X (Txs \cup {NoTx}))
  PROVE  [Resting EXCEPT !.step = "next", !.todo = todo] \in Frames
<1>1. NoBatch \in BatchIds \cup {NoBatch} /\ NoTx \in Txs \cup {NoTx} /\ 0 \in 0..RetryMax
  OBVIOUS
<1> QED
  BY <1>1 DEF Frames, Resting

\* A loop goes from one frame to a bearable one, and nothing else happens.
LEMMA FrameStep ==
  ASSUME IInv, NEW t \in Loops, NEW frame, Bearable(t, frame), Goes(t, frame),
         UNCHANGED <<queued, batchOf, quarantined, batch, tx, drops>>,
         faults' \in 0..MaxFaults
  PROVE  IInv'
<1> USE DEF IInv, Goes, Bearable
<1>1. TypeOK'
  BY DEF TypeOK
<1>2. RowsHeld'
  <2>1. \A u \in Loops \ {t} : Claimable \cap loop[u].rows = {}
    BY DEF Claimable, Locked
  <2> QED
    BY <2>1 DEF RowsHeld, TypeOK, Claimable
<1>3. RecordedWasSent' /\ SubmittedHasTx' /\ ConfirmedIsFinal'
  BY DEF RecordedWasSent, SubmittedHasTx, ConfirmedIsFinal
<1>4. SentHeld'
  BY DEF SentHeld, At, Logs, TypeOK
<1>5. ListHeld'
  BY DEF ListHeld, Logs, TypeOK, Loops
<1>6. DepthHeld'
  BY DEF DepthHeld, At, OnChain, TypeOK
<1> QED
  BY <1>1, <1>2, <1>3, <1>4, <1>5, <1>6

\* The row of a batch, as a loop may write it.
Writable(b, row) ==
  /\ row \in [status : Statuses \cup {"none"}, tx : Txs \cup {NoTx}]
  /\ row.tx # NoTx => Logs(row.tx, b)
  /\ row.status = "SUBMITTED" => row.tx # NoTx
  /\ row.status = "CONFIRMED" => OnChain(b)

\* A loop writes the row of a batch as it goes to another frame.
LEMMA RowStep ==
  ASSUME IInv, NEW t \in Loops, NEW frame, Bearable(t, frame), Goes(t, frame),
         NEW b \in BatchIds, NEW row, Writable(b, row), batch' = [batch EXCEPT ![b] = row],
         UNCHANGED <<queued, batchOf, quarantined, tx, drops, faults>>
  PROVE  IInv'
<1> USE DEF IInv, Goes, Bearable, Writable
<1>1. TypeOK'
  BY DEF TypeOK
<1>2. RowsHeld'
  <2>1. \A u \in Loops \ {t} : Claimable \cap loop[u].rows = {}
    BY DEF Claimable, Locked
  <2> QED
    BY <2>1 DEF RowsHeld, TypeOK, Claimable
<1>3. RecordedWasSent'
  BY DEF RecordedWasSent, TypeOK, Logs
<1>4. SubmittedHasTx' /\ ConfirmedIsFinal'
  BY DEF SubmittedHasTx, ConfirmedIsFinal, OnChain, TypeOK
<1>5. SentHeld' /\ ListHeld'
  BY DEF SentHeld, ListHeld, At, Logs, TypeOK, Loops
<1>6. DepthHeld'
  BY DEF DepthHeld, At, OnChain, TypeOK
<1> QED
  BY <1>1, <1>2, <1>3, <1>4, <1>5, <1>6

\* The frames a loop comes to are bearable.
LEMMA OnwardIsBearable ==
  ASSUME IInv, NEW t \in Loops
  PROVE  Bearable(t, Onward(t))
<1>1. loop[t].todo \in SUBSET (BatchIds \X (Txs \cup {NoTx}))
  BY DEF IInv, TypeOK, Frames
<1>2. Onward(t) \in Frames
  BY <1>1, ListsAreFrames, RestingIsBearable DEF Onward, Bearable
<1> QED
  BY <1>2 DEF Bearable, Onward, Resting, IInv, ListHeld

LEMMA PoppedIsBearable ==
  ASSUME IInv, NEW t \in Loops, NEW e \in First(t)
  PROVE  /\ Bearable(t, Popped(t, e))
         /\ e[1] \in BatchIds
         /\ t \in Reconcilers => Logs(e[2], e[1])
<1>1. e \in loop[t].todo /\ loop[t].todo \in SUBSET (BatchIds \X (Txs \cup {NoTx}))
  BY DEF First, IInv, TypeOK, Frames
<1>2. loop[t].todo \ {e} \in SUBSET (BatchIds \X (Txs \cup {NoTx}))
  BY <1>1
<1>3. Popped(t, e) \in Frames
  BY <1>2, ListsAreFrames DEF Popped
<1> QED
  BY <1>1, <1>3 DEF Bearable, Popped, Resting, IInv, ListHeld

-----------------------------------------------------------------------------
\* THE STEPS OF A LOOP

LEMMA SelectStep ==
  ASSUME IInv, NEW t \in Loops, SelectQueued(t)
  PROVE  IInv'
<1>1. PICK rows \in SUBSET Claimable :
         Goes(t, [Resting EXCEPT !.step = "claim", !.rows = rows])
  BY DEF SelectQueued
<1> DEFINE frame == [Resting EXCEPT !.step = "claim", !.rows = rows]
<1>2. NoBatch \in BatchIds \cup {NoBatch} /\ NoTx \in Txs \cup {NoTx} /\ 0 \in 0..RetryMax
  OBVIOUS
<1>3. rows \in SUBSET Receipts
  BY DEF Claimable, IInv, TypeOK
<1>4. frame \in Frames
  BY <1>2, <1>3 DEF Frames, Resting
<1>5. Bearable(t, frame)
  BY <1>4 DEF Bearable, Resting
<1>6. faults' \in 0..MaxFaults /\ UNCHANGED <<queued, batchOf, quarantined, batch, tx, drops>>
  BY DEF SelectQueued, IInv, TypeOK
<1> QED
  BY <1>1, <1>5, <1>6, FrameStep

LEMMA CommitStep ==
  ASSUME IInv, NEW t \in Loops, CommitClaim(t)
  PROVE  IInv'
<1> DEFINE b == Cardinality(Created) + 1
           frame == [Resting EXCEPT !.step = "submit", !.batch = b, !.attempt = 1]
<1>1. /\ b \in BatchIds
      /\ batch' = [batch EXCEPT ![b].status = "PENDING"]
      /\ queued' = queued \ loop[t].rows
      /\ batchOf' = [r \in Receipts |-> IF r \in loop[t].rows THEN b ELSE batchOf[r]]
      /\ Goes(t, frame)
      /\ UNCHANGED <<quarantined, tx, drops, faults>>
  BY DEF CommitClaim
<1>2. /\ frame.step = "submit" /\ frame.rows = {} /\ frame.todo = {}
  BY DEF Resting
<1>3. frame \in Frames
  <2>1. b \in BatchIds \cup {NoBatch} /\ NoTx \in Txs \cup {NoTx} /\ 1 \in 0..RetryMax
    BY <1>1
  <2> HIDE DEF b
  <2> QED
    BY <2>1 DEF Frames, Resting
<1> HIDE DEF b, frame
<1> USE DEF IInv
<1>4. TypeOK'
  BY <1>1, <1>3 DEF TypeOK, Goes, Statuses
<1>5. RowsHeld'
  BY <1>1, <1>2 DEF RowsHeld, Goes, TypeOK
<1>6. RecordedWasSent' /\ SubmittedHasTx' /\ ConfirmedIsFinal'
  BY <1>1 DEF RecordedWasSent, SubmittedHasTx, ConfirmedIsFinal, TypeOK
<1>7. SentHeld' /\ ListHeld' /\ DepthHeld'
  BY <1>1, <1>2 DEF SentHeld, ListHeld, DepthHeld, OnChain, Logs, At, Goes, TypeOK, Loops
<1> QED
  BY <1>4, <1>5, <1>6, <1>7

LEMMA ListStep ==
  ASSUME IInv, NEW t \in Loops, NEW status, List(t, status),
         t \in Reconcilers => status = "SUBMITTED"
  PROVE  IInv'
<1> DEFINE frame == [Resting EXCEPT !.step = "next", !.todo = Listed(status)]
<1>1. \A e \in Listed(status) :
        /\ e[1] \in BatchIds /\ e[2] \in Txs \cup {NoTx} /\ e = <<e[1], e[2]>>
        /\ batch[e[1]].status = status /\ e[2] = batch[e[1]].tx
  BY DEF Listed, IInv, TypeOK
<1>2. Listed(status) \in SUBSET (BatchIds \X (Txs \cup {NoTx}))
  BY <1>1
<1>3. frame \in Frames
  BY <1>2, ListsAreFrames
<1>4. t \in Reconcilers => \A e \in Listed(status) : Logs(e[2], e[1])
  BY <1>1 DEF IInv, SubmittedHasTx, RecordedWasSent, Logs
<1>5. Bearable(t, frame)
  BY <1>3, <1>4 DEF Bearable, Resting
<1>6. /\ Goes(t, frame)
      /\ faults' \in 0..MaxFaults /\ UNCHANGED <<queued, batchOf, quarantined, batch, tx, drops>>
  BY DEF List, IInv, TypeOK
<1> QED
  BY <1>5, <1>6, FrameStep

LEMMA TakeUpStep ==
  ASSUME IInv, NEW t \in Recoverers, TakeUp(t)
  PROVE  IInv'
<1>0. t \in Loops /\ t \notin Reconcilers
  BY DEF Loops
<1>1. PICK e \in First(t) :
         Goes(t, [Popped(t, e) EXCEPT !.step = "submit", !.batch = e[1], !.attempt = 1])
  BY DEF TakeUp
<1> DEFINE frame == [Popped(t, e) EXCEPT !.step = "submit", !.batch = e[1], !.attempt = 1]
<1>2. /\ Popped(t, e) \in Frames /\ e[1] \in BatchIds /\ Bearable(t, Popped(t, e))
      /\ 1 \in 0..RetryMax
  BY <1>0, PoppedIsBearable DEF Bearable
<1>3. frame \in Frames
  BY <1>2 DEF Frames
<1>4. Bearable(t, frame)
  BY <1>0, <1>2, <1>3 DEF Bearable, Frames
<1>5. faults' \in 0..MaxFaults /\ UNCHANGED <<queued, batchOf, quarantined, batch, tx, drops>>
  BY DEF TakeUp, IInv, TypeOK
<1> QED
  BY <1>0, <1>1, <1>4, <1>5, FrameStep

\* What a step that left the list alone, and is neither a send nor a confirmation,
\* does to a popped list.
LEMMA PoppedToIsBearable ==
  ASSUME IInv, NEW t \in Reconcilers, NEW e \in First(t), NEW step \in {"submit", "degrade", "confirm"},
         step = "confirm" => OnChain(e[1])
  PROVE  Bearable(t, [Popped(t, e) EXCEPT !.step = step, !.batch = e[1]])
<1>1. t \in Loops
  BY DEF Loops
<1>2. Popped(t, e) \in Frames /\ e[1] \in BatchIds /\ Bearable(t, Popped(t, e))
  BY <1>1, PoppedIsBearable DEF Bearable
<1>3. [Popped(t, e) EXCEPT !.step = step, !.batch = e[1]] \in Frames
  BY <1>2 DEF Frames
<1> QED
  BY <1>2, <1>3 DEF Bearable, Frames

LEMMA InspectStep ==
  ASSUME IInv, NEW t \in Reconcilers, Inspect(t)
  PROVE  IInv'
<1>0. t \in Loops
  BY DEF Loops
<1>A. PICK e \in First(t) : \E step \in Looked(e[2]) :
         Goes(t, IF step = "next" THEN Popped(t, e)
                 ELSE [Popped(t, e) EXCEPT !.step = step, !.batch = e[1]])
  BY DEF Inspect
<1>1. PICK step \in Looked(e[2]) :
         Goes(t, IF step = "next" THEN Popped(t, e)
                 ELSE [Popped(t, e) EXCEPT !.step = step, !.batch = e[1]])
  BY <1>A
<1>2. faults' \in 0..MaxFaults /\ UNCHANGED <<queued, batchOf, quarantined, batch, tx, drops>>
  BY DEF Inspect, IInv, TypeOK
<1>3. Bearable(t, Popped(t, e)) /\ Logs(e[2], e[1]) /\ e[1] \in BatchIds
  BY <1>0, PoppedIsBearable
<1>4. /\ tx[e[2]] \in [batch : BatchIds \cup {NoBatch},
                       fate : {"free", "pool", "mined", "reverted", "final", "dropped"}]
  BY <1>3 DEF Logs, IInv, TypeOK
<1>5. CASE step = "next"
  BY <1>0, <1>1, <1>2, <1>3, <1>5, FrameStep
<1>6. CASE step # "next"
  <2>1. step \in {"submit", "degrade", "confirm"} /\ (step = "confirm" => tx[e[2]].fate = "final")
    BY <1>4, <1>6 DEF Looked
  <2>2. step = "confirm" => OnChain(e[1])
    BY <1>3, <1>4, <2>1 DEF OnChain, Logs
  <2>3. Bearable(t, [Popped(t, e) EXCEPT !.step = step, !.batch = e[1]])
    BY <2>1, <2>2, PoppedToIsBearable
  <2> QED
    BY <1>0, <1>1, <1>2, <1>6, <2>3, FrameStep
<1> QED
  BY <1>5, <1>6

LEMMA InspectUnansweredStep ==
  ASSUME IInv, NEW t \in Reconcilers, InspectUnanswered(t)
  PROVE  IInv'
<1>0. t \in Loops
  BY DEF Loops
<1>1. PICK e \in First(t) : Goes(t, [Popped(t, e) EXCEPT !.step = "submit", !.batch = e[1]])
  BY DEF InspectUnanswered
<1>2. Bearable(t, [Popped(t, e) EXCEPT !.step = "submit", !.batch = e[1]])
  BY PoppedToIsBearable
<1>3. faults' \in 0..MaxFaults /\ UNCHANGED <<queued, batchOf, quarantined, batch, tx, drops>>
  BY DEF InspectUnanswered, IInv, TypeOK
<1> QED
  BY <1>0, <1>1, <1>2, <1>3, FrameStep

\* A name that is used again was nobody's: what others trust stays true.
LEMMA SendStep ==
  ASSUME IInv, NEW t \in Loops, Send(t)
  PROVE  IInv'
<1> USE DEF IInv
<1>1. PICK x \in Txs :
         /\ Unused(x)
         /\ tx' = [tx EXCEPT ![x] = [batch |-> loop[t].batch, fate |-> "pool"]]
         /\ Goes(t, [loop[t] EXCEPT !.step = "sent", !.tx = x])
  BY DEF Send
<1>2. UNCHANGED <<queued, batchOf, quarantined, batch, drops, faults>>
  BY DEF Send
<1>3. loop[t] \in Frames
  BY DEF TypeOK
<1>4. [loop[t] EXCEPT !.step = "sent", !.tx = x] \in Frames
  BY <1>3 DEF Frames
<1>5. TypeOK'
  BY <1>1, <1>2, <1>3, <1>4 DEF TypeOK, Goes, Frames
<1>6. RowsHeld'
  BY <1>1, <1>2, <1>3 DEF RowsHeld, Goes, TypeOK, Frames
<1>7. \A y \in Txs, b \in BatchIds : tx[y] = [batch |-> b, fate |-> "final"] => y # x
  BY <1>1 DEF Unused
<1>8. \A y \in Txs \ {x} : tx'[y] = tx[y]
  BY <1>1 DEF TypeOK
<1>9. \A b \in BatchIds : OnChain(b) => OnChain(b)'
  BY <1>7, <1>8 DEF OnChain
<1>10. RecordedWasSent' /\ SubmittedHasTx'
  BY <1>1, <1>2, <1>8 DEF RecordedWasSent, SubmittedHasTx, Unused, TypeOK
<1>11. SentHeld'
  BY <1>1, <1>3, <1>8 DEF SentHeld, At, Logs, Goes, Unused, TypeOK, Frames
<1>12. ListHeld'
  <2>1. SUFFICES ASSUME NEW u \in Reconcilers, NEW e \in loop'[u].todo
                 PROVE  Logs(e[2], e[1])'
    BY DEF ListHeld
  <2>2. u \in Loops /\ e \in loop[u].todo
    BY <1>1, <1>3, <2>1 DEF Goes, TypeOK, Frames, Loops
  <2>3. Logs(e[2], e[1]) /\ e[2] # x
    BY <1>1, <2>1, <2>2 DEF ListHeld, Logs, Unused
  <2> QED
    BY <1>8, <2>3 DEF Logs
<1>13. DepthHeld' /\ ConfirmedIsFinal'
  <2>1. \A u \in Loops : loop[u].batch \in BatchIds \cup {NoBatch}
    BY DEF TypeOK, Frames
  <2>2. \A u \in Loops : OnChain(loop[u].batch) => OnChain(loop[u].batch)'
    BY <1>1, <1>3, <1>8 DEF OnChain, Goes, TypeOK, Unused, Frames
  <2> QED
    BY <1>1, <1>2, <1>3, <1>9, <2>2 DEF DepthHeld, ConfirmedIsFinal, OnChain, At, Goes, TypeOK, Frames
<1> QED
  BY <1>5, <1>6, <1>10, <1>11, <1>12, <1>13

\* Steps that change only the frame: a failed send, a failed record, the next
\* attempt, the end of a list, a death.
LEMMA QuietSteps ==
  ASSUME IInv, NEW t \in Loops,
         Rest(t) \/ SendFails(t) \/ MarkFails(t) \/ Retry(t) \/ Dies(t)
  PROVE  IInv'
<1>1. loop[t] \in Frames
  BY DEF IInv, TypeOK
<1>2. Bearable(t, Resting) /\ Bearable(t, Onward(t))
  BY RestingIsBearable, OnwardIsBearable
<1>3. /\ UNCHANGED <<queued, batchOf, quarantined, batch, tx, drops>>
      /\ faults' \in 0..MaxFaults
  BY DEF Rest, SendFails, MarkFails, Retry, Dies, IInv, TypeOK
<1>4. ASSUME NEW frame \in Frames, frame.rows = loop[t].rows, frame.todo = loop[t].todo,
             frame.step \in {"error", "submit", "degrade"}
      PROVE  Bearable(t, frame)
  BY <1>4 DEF Bearable, IInv, ListHeld
<1>5. CASE Rest(t)
  BY <1>2, <1>3, <1>5, FrameStep DEF Rest
<1>6. CASE SendFails(t)
  <2> DEFINE frame == [loop[t] EXCEPT !.step = "error"]
  <2>1. Bearable(t, frame)
    BY <1>1, <1>4 DEF Frames
  <2> QED
    BY <1>3, <1>6, <2>1, FrameStep DEF SendFails
<1>7. CASE MarkFails(t)
  <2> DEFINE frame == [loop[t] EXCEPT !.step = "error", !.tx = NoTx]
  <2>1. frame \in Frames
    BY <1>1 DEF Frames
  <2>2. Bearable(t, frame)
    BY <1>1, <1>4, <2>1 DEF Frames
  <2> QED
    BY <1>3, <1>7, <2>2, FrameStep DEF MarkFails
<1>8. CASE Retry(t)
  <2>1. CASE t \in Reconcilers
    BY <1>2, <1>3, <1>8, <2>1, FrameStep DEF Retry
  <2>2. CASE t \notin Reconcilers /\ loop[t].attempt < RetryMax
    <3> DEFINE frame == [loop[t] EXCEPT !.step = "submit", !.attempt = @ + 1]
    <3>1. loop[t].attempt + 1 \in 0..RetryMax
      BY <1>1, <2>2 DEF Frames
    <3>2. frame \in Frames
      BY <1>1, <3>1 DEF Frames
    <3>3. Bearable(t, frame)
      BY <1>1, <1>4, <3>2 DEF Frames
    <3> QED
      BY <1>3, <1>8, <2>2, <3>3, FrameStep DEF Retry
  <2>3. CASE t \notin Reconcilers /\ ~(loop[t].attempt < RetryMax)
    <3> DEFINE frame == [loop[t] EXCEPT !.step = "degrade"]
    <3>1. Bearable(t, frame)
      BY <1>1, <1>4 DEF Frames
    <3> QED
      BY <1>3, <1>8, <2>3, <3>1, FrameStep DEF Retry
  <2> QED
    BY <2>1, <2>2, <2>3
<1>9. CASE Dies(t)
  BY <1>2, <1>3, <1>9, FrameStep DEF Dies
<1> QED
  BY <1>5, <1>6, <1>7, <1>8, <1>9

\* Steps that write the row of the batch in hand.
LEMMA RowSteps ==
  ASSUME IInv, NEW t \in Loops, MarkSubmitted(t) \/ MarkDegraded(t) \/ MarkConfirmed(t)
  PROVE  IInv'
<1> DEFINE b == loop[t].batch
<1>1. loop[t] \in Frames /\ batch \in [BatchIds -> [status : Statuses \cup {"none"}, tx : Txs \cup {NoTx}]]
  BY DEF IInv, TypeOK
<1>2. Bearable(t, Resting) /\ Bearable(t, Onward(t))
  BY RestingIsBearable, OnwardIsBearable
<1>3. UNCHANGED <<queued, batchOf, quarantined, tx, drops, faults>> /\ faults' \in 0..MaxFaults
  BY DEF MarkSubmitted, MarkDegraded, MarkConfirmed, IInv, TypeOK
<1>4. ASSUME batch' = batch, NEW frame, Bearable(t, frame), Goes(t, frame)
      PROVE  IInv'
  BY <1>3, <1>4, FrameStep
<1>5. CASE b \notin BatchIds
  <2>1. batch' = batch
    BY <1>1, <1>5 DEF MarkSubmitted, MarkDegraded, MarkConfirmed
  <2>2. Goes(t, Resting) \/ Goes(t, Onward(t))
    BY DEF MarkSubmitted, MarkDegraded, MarkConfirmed, PastTrigger
  <2> QED
    BY <1>2, <1>4, <2>1, <2>2
<1>6. CASE b \in BatchIds /\ MarkSubmitted(t)
  <2> DEFINE row == [status |-> "SUBMITTED", tx |-> loop[t].tx]
  <2>1. Writable(b, row)
    BY <1>6, TxsAssumption DEF Writable, MarkSubmitted, IInv, SentHeld, Logs, Statuses
  <2> QED
    BY <1>2, <1>3, <1>6, <2>1, RowStep DEF MarkSubmitted
<1>7. CASE b \in BatchIds /\ MarkDegraded(t)
  <2> DEFINE row == [batch[b] EXCEPT !.status = "DEGRADED_UNANCHORED"]
  <2>1. Writable(b, row)
    BY <1>1, <1>7 DEF Writable, IInv, RecordedWasSent, Logs, Statuses
  <2>2. batch' = [batch EXCEPT ![b] = row] /\ Goes(t, Onward(t))
    BY <1>1, <1>7 DEF MarkDegraded
  <2> QED
    BY <1>2, <1>3, <1>7, <2>1, <2>2, RowStep
<1>8. CASE b \in BatchIds /\ MarkConfirmed(t) /\ ~Refused(b)
  <2> DEFINE row == [batch[b] EXCEPT !.status = "CONFIRMED"]
  <2>1. OnChain(b)
    BY <1>8 DEF MarkConfirmed, IInv, DepthHeld
  <2>2. Writable(b, row)
    BY <1>1, <1>8, <2>1 DEF Writable, IInv, RecordedWasSent, Logs, Statuses
  <2>3. batch' = [batch EXCEPT ![b] = row] /\ Goes(t, Onward(t))
    BY <1>1, <1>8 DEF MarkConfirmed
  <2> QED
    BY <1>2, <1>3, <1>8, <2>2, <2>3, RowStep
<1>9. CASE b \in BatchIds /\ MarkConfirmed(t) /\ Refused(b)
  <2>1. batch' = batch /\ (Goes(t, Resting) \/ Goes(t, Onward(t)))
    BY <1>9 DEF MarkConfirmed, PastTrigger
  <2> QED
    BY <1>2, <1>4, <2>1
<1> QED
  BY <1>5, <1>6, <1>7, <1>8, <1>9

-----------------------------------------------------------------------------
\* THE REST OF THE WORLD

LEMMA RowsAreAdded ==
  ASSUME IInv, NEW r \in Receipts, Enqueue(r) \/ Annotate(r)
  PROVE  IInv'
<1> USE DEF IInv
<1>1. UNCHANGED <<batchOf, batch, loop, tx, drops, faults>> /\ queued \subseteq queued'
  BY DEF Enqueue, Annotate
<1>2. TypeOK'
  BY <1>1 DEF TypeOK, Enqueue, Annotate
<1>3. RowsHeld'
  BY <1>1 DEF RowsHeld, Enqueue, Annotate, Enqueued
<1> QED
  BY <1>1, <1>2, <1>3 DEF RecordedWasSent, SubmittedHasTx, SentHeld, ListHeld, DepthHeld,
     ConfirmedIsFinal, OnChain, Logs, At

LEMMA RedriveStep ==
  ASSUME IInv, NEW b \in BatchIds, RedriveDegraded(b)
  PROVE  IInv'
<1> USE DEF IInv
<1>1. /\ UNCHANGED <<queued, batchOf, quarantined, loop, tx, drops, faults>>
      /\ batch' = [batch EXCEPT ![b].status = "PENDING"]
  BY DEF RedriveDegraded
<1>2. TypeOK'
  BY <1>1 DEF TypeOK, Statuses
<1>3. RecordedWasSent' /\ SubmittedHasTx' /\ ConfirmedIsFinal'
  BY <1>1 DEF TypeOK, RecordedWasSent, SubmittedHasTx, ConfirmedIsFinal
<1> QED
  BY <1>1, <1>2, <1>3 DEF RowsHeld, SentHeld, ListHeld, DepthHeld, OnChain, Logs, At

\* The chain moves no transaction to another batch, and none that is final.
LEMMA ChainStep ==
  ASSUME IInv, NEW x \in Txs, Include(x) \/ Revert(x) \/ Settle(x) \/ Drop(x)
  PROVE  IInv'
<1> USE DEF IInv
<1>1. PICK fate \in {"mined", "reverted", "final", "dropped"} : tx' = [tx EXCEPT ![x].fate = fate]
  BY DEF Include, Revert, Settle, Drop, Becomes
<1>2. /\ UNCHANGED <<queued, batchOf, quarantined, batch, loop, faults>>
      /\ drops' \in 0..MaxDrops
      /\ tx[x].fate # "final"
  BY DEF Include, Revert, Settle, Drop, ChainOnly, TypeOK
<1>3. TypeOK'
  BY <1>1, <1>2 DEF TypeOK
<1>4. \A y \in Txs : /\ tx'[y].batch = tx[y].batch
                     /\ tx[y].fate # "free" => tx'[y].fate # "free"
                     /\ tx[y].fate = "final" => tx'[y] = tx[y]
  BY <1>1, <1>2 DEF TypeOK
<1>5. \A y, b : Logs(y, b) => Logs(y, b)'
  BY <1>4 DEF Logs
<1>6. RecordedWasSent' /\ SubmittedHasTx'
  BY <1>2, <1>4 DEF RecordedWasSent, SubmittedHasTx, TypeOK
<1>7. \A y \in Txs : tx[y].fate = "final" => tx'[y] = tx[y]
  BY <1>4
<1>8. DepthHeld' /\ ConfirmedIsFinal'
  BY <1>2, <1>7 DEF DepthHeld, ConfirmedIsFinal, OnChain, At
<1>9. RowsHeld' /\ SentHeld' /\ ListHeld'
  BY <1>2, <1>5 DEF RowsHeld, SentHeld, ListHeld, At
<1> QED
  BY <1>3, <1>6, <1>8, <1>9

-----------------------------------------------------------------------------
\* THE INVARIANT AND WHAT FOLLOWS

LEMMA InitIInv == Init => IInv
<1> SUFFICES ASSUME Init PROVE IInv
  OBVIOUS
<1>1. Resting \in Frames
  <2>1. NoBatch \in BatchIds \cup {NoBatch} /\ NoTx \in Txs \cup {NoTx} /\ 0 \in 0..RetryMax
    OBVIOUS
  <2> QED
    BY <2>1 DEF Frames, Resting
<1>2. TypeOK
  BY <1>1 DEF Init, TypeOK
<1>3. RowsHeld /\ RecordedWasSent /\ SubmittedHasTx /\ ConfirmedIsFinal
  BY DEF Init, RowsHeld, RecordedWasSent, SubmittedHasTx, ConfirmedIsFinal, Resting
<1>4. \A t \in Loops : loop[t] = Resting
  BY DEF Init
<1>5. SentHeld /\ ListHeld /\ DepthHeld
  BY <1>4 DEF SentHeld, ListHeld, DepthHeld, At, Resting, Loops
<1> QED
  BY <1>2, <1>3, <1>5 DEF IInv

LEMMA WorkKeeps ==
  ASSUME IInv, NEW t \in Loops, Work(t)
  PROVE  IInv'
<1>1. CASE t \in Flushers /\ (SelectQueued(t) \/ CommitClaim(t))
  BY <1>1, SelectStep, CommitStep
<1>2. CASE t \in Recoverers /\ (List(t, "PENDING") \/ TakeUp(t))
  BY <1>2, ListStep, TakeUpStep
<1>3. CASE t \in Reconcilers /\ (List(t, "SUBMITTED") \/ Inspect(t) \/ InspectUnanswered(t))
  BY <1>3, ListStep, InspectStep, InspectUnansweredStep
<1>4. CASE Rest(t) \/ SendFails(t) \/ MarkFails(t) \/ Retry(t)
  BY <1>4, QuietSteps
<1>5. CASE Send(t)
  BY <1>5, SendStep
<1>6. CASE MarkSubmitted(t) \/ MarkDegraded(t) \/ MarkConfirmed(t)
  BY <1>6, RowSteps
<1> QED
  BY <1>1, <1>2, <1>3, <1>4, <1>5, <1>6 DEF Work

LEMMA NextKeeps == IInv /\ [Next]_vars => IInv'
<1> SUFFICES ASSUME IInv, [Next]_vars PROVE IInv'
  OBVIOUS
<1>1. ASSUME NEW r \in Receipts, Enqueue(r) \/ Annotate(r) PROVE IInv'
  BY <1>1, RowsAreAdded
<1>2. ASSUME NEW t \in Loops, Work(t) PROVE IInv'
  BY <1>2, WorkKeeps
<1>3. ASSUME NEW t \in Loops, Dies(t) PROVE IInv'
  BY <1>3, QuietSteps
<1>4. ASSUME NEW b \in BatchIds, RedriveDegraded(b) PROVE IInv'
  BY <1>4, RedriveStep
<1>5. ASSUME NEW x \in Txs, Include(x) \/ Revert(x) \/ Settle(x) \/ Drop(x) PROVE IInv'
  BY <1>5, ChainStep
<1>6. CASE UNCHANGED vars
  BY <1>6 DEF vars, IInv, TypeOK, RowsHeld, RecordedWasSent, SubmittedHasTx, SentHeld,
     ListHeld, DepthHeld, ConfirmedIsFinal, OnChain, Logs, At
<1> QED
  BY <1>1, <1>2, <1>3, <1>4, <1>5, <1>6 DEF Next

\* What loops trust of their frames is always so.
THEOREM Invariance == Spec => []IInv
BY InitIInv, NextKeeps, PTL DEF Spec

\* Every variable keeps its type: no attempt beyond RetryMax, no status of its own.
THEOREM ReceiptsTyped == Spec => []TypeOK
BY Invariance, PTL DEF IInv

\* A batch that says CONFIRMED has a transaction on the chain below every reorg.
THEOREM ConfirmedStays == Spec => []ConfirmedIsFinal
BY Invariance, PTL DEF IInv

\* A recorded hash is that of a transaction sent for the batch, although names of
\* dead transactions are used again and rows are written unconditionally.
THEOREM RecordsAreTrue == Spec => []RecordedWasSent
BY Invariance, PTL DEF IInv

\* No interleaving of claims gives a receipt two batches or loses it.
THEOREM ClaimsAreExclusive == Spec => ClaimedOnce
<1> DEFINE Kept(r) == /\ batchOf[r] # NoBatch => batchOf'[r] = batchOf[r]
                      /\ r \in Enqueued => r \in Enqueued'
           Step == \A r \in Receipts : Kept(r)
<1>1. IInv /\ [Next]_vars => [Step]_vars
  <2> SUFFICES ASSUME IInv, Next, NEW r \in Receipts PROVE Kept(r)
    BY DEF Next
  <2>1. CASE UNCHANGED <<queued, batchOf>>
    BY <2>1 DEF Enqueued
  <2>2. CASE \E s \in Receipts : Enqueue(s)
    BY <2>2 DEF Enqueue, Enqueued
  <2>3. ASSUME NEW t \in Loops, CommitClaim(t) PROVE Kept(r)
    <3>1. loop[t].rows \subseteq queued /\ \A s \in queued : batchOf[s] = NoBatch
      BY DEF IInv, RowsHeld
    <3>2. NoBatch \notin BatchIds
      BY DEF NoBatch, BatchIds
    <3>3. PICK b \in BatchIds :
            /\ queued' = queued \ loop[t].rows
            /\ batchOf' = [s \in Receipts |-> IF s \in loop[t].rows THEN b ELSE batchOf[s]]
      BY <2>3 DEF CommitClaim
    <3> QED
      BY <3>1, <3>2, <3>3 DEF Enqueued
  <2>4. ASSUME NEW t \in Loops, Work(t), ~CommitClaim(t) PROVE UNCHANGED <<queued, batchOf>>
    BY <2>4 DEF Work, SelectQueued, List, TakeUp, Inspect, InspectUnanswered, Rest, Send,
       SendFails, MarkSubmitted, MarkFails, Retry, MarkDegraded, MarkConfirmed
  <2>5. ASSUME NEW x \in Txs, Include(x) \/ Revert(x) \/ Settle(x) \/ Drop(x)
        PROVE  UNCHANGED <<queued, batchOf>>
    BY <2>5 DEF Include, Revert, Settle, Drop, ChainOnly
  <2>6. ASSUME NEW s \in Receipts, Annotate(s) PROVE UNCHANGED <<queued, batchOf>>
    BY <2>6 DEF Annotate
  <2>7. ASSUME NEW b \in BatchIds, RedriveDegraded(b) PROVE UNCHANGED <<queued, batchOf>>
    BY <2>7 DEF RedriveDegraded
  <2>8. ASSUME NEW t \in Loops, Dies(t) PROVE UNCHANGED <<queued, batchOf>>
    BY <2>8 DEF Dies
  <2> QED
    BY <2>1, <2>2, <2>3, <2>4, <2>5, <2>6, <2>7, <2>8 DEF Next
<1> QED
  BY <1>1, Invariance, PTL DEF Spec, ClaimedOnce

\* No loop, however late, records an annotated receipt as anchored.
THEOREM QuarantineHolds == Spec => QuarantineIsKept
<1> DEFINE Kept(b) == batch'[b] # batch[b] /\ batch'[b].status \in {"SUBMITTED", "CONFIRMED"}
                        => Members(b) \cap quarantined = {}
           Step == \A b \in BatchIds : Kept(b)
<1>1. IInv /\ [Next]_vars => [Step]_vars
  <2> SUFFICES ASSUME IInv, Next, NEW b \in BatchIds PROVE Kept(b)
    BY DEF Next
  <2>0. batch \in [BatchIds -> [status : Statuses \cup {"none"}, tx : Txs \cup {NoTx}]]
    BY DEF IInv, TypeOK
  <2>1. ASSUME NEW t \in Loops, MarkSubmitted(t) PROVE Kept(b)
    BY <2>0, <2>1 DEF MarkSubmitted, Refused
  <2>2. ASSUME NEW t \in Loops, MarkConfirmed(t) PROVE Kept(b)
    BY <2>0, <2>2 DEF MarkConfirmed, Refused
  <2>3. ASSUME NEW t \in Loops, MarkDegraded(t) PROVE Kept(b)
    BY <2>0, <2>3 DEF MarkDegraded
  <2>4. ASSUME NEW t \in Loops, CommitClaim(t) PROVE Kept(b)
    <3>1. PICK c \in BatchIds : batch' = [batch EXCEPT ![c].status = "PENDING"]
      BY <2>4 DEF CommitClaim
    <3> QED
      BY <2>0, <3>1
  <2>5. ASSUME NEW c \in BatchIds, RedriveDegraded(c) PROVE Kept(b)
    BY <2>0, <2>5 DEF RedriveDegraded
  <2>6. ASSUME NEW t \in Loops, Work(t), ~MarkSubmitted(t), ~MarkConfirmed(t), ~MarkDegraded(t),
               ~CommitClaim(t)
        PROVE  batch' = batch
    BY <2>6 DEF Work, SelectQueued, List, TakeUp, Inspect, InspectUnanswered, Rest, Send,
       SendFails, MarkFails, Retry
  <2>7. ASSUME NEW t \in Loops, Dies(t) PROVE batch' = batch
    BY <2>7 DEF Dies
  <2>8. ASSUME NEW r \in Receipts, Enqueue(r) \/ Annotate(r) PROVE batch' = batch
    BY <2>8 DEF Enqueue, Annotate
  <2>9. ASSUME NEW x \in Txs, Include(x) \/ Revert(x) \/ Settle(x) \/ Drop(x) PROVE batch' = batch
    BY <2>9 DEF Include, Revert, Settle, Drop, ChainOnly
  <2> QED
    BY <2>1, <2>2, <2>3, <2>4, <2>5, <2>6, <2>7, <2>8, <2>9 DEF Next
<1> QED
  BY <1>1, Invariance, PTL DEF Spec, QuarantineIsKept
=============================================================================
