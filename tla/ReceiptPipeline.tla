--------------------------- MODULE ReceiptPipeline ---------------------------
(***************************************************************************)
(* The receipt writer of @untch/receipt-writer: rows that are durable the  *)
(* moment they are enqueued (repo-pg.ts), and the loops of any number of   *)
(* worker processes (worker.ts, anchorer.ts) that take them to the chain.  *)
(*                                                                         *)
(* An action is what a loop does between two of its awaits.  Flushers are  *)
(* the batcher's serialised flushes and the safety sweep, Recoverers the   *)
(* loops over PENDING batches, Reconcilers those over SUBMITTED ones.  A   *)
(* receipt's status is its batch's, once it has one: every write of the    *)
(* one writes the other in the same transaction.                           *)
(***************************************************************************)
EXTENDS FiniteSets, Naturals

CONSTANTS
  Receipts,
  Leaked,          \* those a migration may annotate
  Flushers, Recoverers, Reconcilers,
  BatchMaxSize, RetryMax,
  MaxBatches,      \* bound: batches created
  Txs,             \* bound: transactions that are not dropped, or still referred to
  MaxDrops,        \* bound: transactions the chain drops, or takes back in a reorg
  MaxFaults        \* bound: deaths of a loop and errors of the database

ASSUME SizesAssumption ==
  /\ BatchMaxSize \in Nat \ {0} /\ RetryMax \in Nat \ {0}
  /\ MaxBatches \in Nat /\ MaxDrops \in Nat /\ MaxFaults \in Nat
  /\ IsFiniteSet(Receipts) /\ Leaked \subseteq Receipts

ASSUME LoopsAssumption == Recoverers \cap Reconcilers = {}

NoTx == "none"
ASSUME TxsAssumption == NoTx \notin Txs

VARIABLES
  queued,       \* the receipts in status QUEUED
  batchOf,      \* the batch of a receipt that was claimed
  quarantined,  \* the receipts annotated ineligible for anchoring
  batch,        \* the table batches: status and the recorded tx_hash
  loop,         \* where each loop of each worker stands
  tx,           \* the chain: which batch a transaction logs, and how far it got
  drops, faults

vars == <<queued, batchOf, quarantined, batch, loop, tx, drops, faults>>

BatchIds == 1..MaxBatches
Loops == Flushers \cup Recoverers \cup Reconcilers
NoBatch == 0
Statuses == {"PENDING", "SUBMITTED", "CONFIRMED", "DEGRADED_UNANCHORED"}

Resting == [step |-> "idle", rows |-> {}, todo |-> {}, batch |-> NoBatch,
            tx |-> NoTx, attempt |-> 0]
Frames == [step : {"idle", "claim", "next", "submit", "sent", "error", "degrade", "confirm"},
           rows : SUBSET Receipts,
           todo : SUBSET (BatchIds \X (Txs \cup {NoTx})),
           batch : BatchIds \cup {NoBatch}, tx : Txs \cup {NoTx}, attempt : 0..RetryMax]

TypeOK ==
  /\ queued \subseteq Receipts /\ batchOf \in [Receipts -> BatchIds \cup {NoBatch}]
  /\ quarantined \subseteq Receipts
  /\ batch \in [BatchIds -> [status : Statuses \cup {"none"}, tx : Txs \cup {NoTx}]]
  /\ loop \in [Loops -> Frames]
  /\ tx \in [Txs -> [batch : BatchIds \cup {NoBatch},
                     fate : {"free", "pool", "mined", "reverted", "final", "dropped"}]]
  /\ drops \in 0..MaxDrops /\ faults \in 0..MaxFaults

Init ==
  /\ queued = {} /\ batchOf = [r \in Receipts |-> NoBatch] /\ quarantined = {}
  /\ batch = [b \in BatchIds |-> [status |-> "none", tx |-> NoTx]]
  /\ loop = [t \in Loops |-> Resting]
  /\ tx = [x \in Txs |-> [batch |-> NoBatch, fate |-> "free"]]
  /\ drops = 0 /\ faults = 0

At(t, step) == loop[t].step = step
Goes(t, frame) == loop' = [loop EXCEPT ![t] = frame]
Members(b) == {r \in Receipts : batchOf[r] = b}
Enqueued == queued \cup {r \in Receipts : batchOf[r] # NoBatch}

-----------------------------------------------------------------------------
\* ENQUEUE: receipt and ledger row in one transaction.  An id that is there is
\* left alone (ON CONFLICT DO NOTHING); the tick after it is only a hint.
Enqueue(r) ==
  /\ r \notin Enqueued
  /\ queued' = queued \cup {r}
  /\ UNCHANGED <<batchOf, quarantined, batch, loop, tx, drops, faults>>

\* A migration annotates a receipt, wherever it has got to; annotations stay.
Annotate(r) ==
  /\ r \in Leaked \cap Enqueued
  /\ quarantined' = quarantined \cup {r}
  /\ UNCHANGED <<queued, batchOf, batch, loop, tx, drops, faults>>

-----------------------------------------------------------------------------
\* FAULTY: no row is locked.
LockedNone == {}

\* CLAIM: SELECT ... FOR UPDATE SKIP LOCKED, then INSERT and UPDATE, one
\* transaction; a loop that dies in between leaves the rows as they were.
Locked == UNION {loop[t].rows : t \in Loops}
Claimable == queued \ (quarantined \cup Locked)

SelectQueued(t) ==
  /\ At(t, "idle")
  /\ \E rows \in SUBSET Claimable :
       /\ rows # {}
       /\ Cardinality(rows) = BatchMaxSize \/ (rows = Claimable /\ Cardinality(rows) < BatchMaxSize)
       /\ Goes(t, [Resting EXCEPT !.step = "claim", !.rows = rows])
  /\ UNCHANGED <<queued, batchOf, quarantined, batch, tx, drops, faults>>

Created == {b \in BatchIds : batch[b].status # "none"}

CommitClaim(t) ==
  /\ At(t, "claim")
  /\ LET b == Cardinality(Created) + 1
     IN  /\ b \in BatchIds
         /\ batch' = [batch EXCEPT ![b].status = "PENDING"]
         /\ queued' = queued \ loop[t].rows
         /\ batchOf' = [r \in Receipts |-> IF r \in loop[t].rows THEN b ELSE batchOf[r]]
         /\ Goes(t, [Resting EXCEPT !.step = "submit", !.batch = b, !.attempt = 1])
  /\ UNCHANGED <<quarantined, tx, drops, faults>>

-----------------------------------------------------------------------------
\* FAULTY: batches whose transaction was never recorded are not listed.
ListedSent(status) ==
  {<<b, batch[b].tx>> : b \in {c \in BatchIds : batch[c].status = status /\ batch[c].tx # NoTx}}

\* THE TWO RECOVERY LOOPS list their batches, and work through the list whatever
\* becomes of them meanwhile.  The reconciler also remembers the tx_hash it read.
Listed(status) == {<<b, batch[b].tx>> : b \in {c \in BatchIds : batch[c].status = status}}

List(t, status) ==
  /\ At(t, "idle")
  /\ Listed(status) # {}
  /\ Goes(t, [Resting EXCEPT !.step = "next", !.todo = Listed(status)])
  /\ UNCHANGED <<queued, batchOf, quarantined, batch, tx, drops, faults>>

\* The entry a loop is at, the oldest of its list, and the list without it.
First(t) == {e \in loop[t].todo : \A f \in loop[t].todo : e[1] <= f[1]}
Popped(t, e) == [Resting EXCEPT !.step = "next", !.todo = loop[t].todo \ {e}]

Rest(t) ==
  /\ At(t, "next")
  /\ loop[t].todo = {}
  /\ Goes(t, Resting)
  /\ UNCHANGED <<queued, batchOf, quarantined, batch, tx, drops, faults>>

\* flushPendingOnce submits every batch it listed.
TakeUp(t) ==
  /\ At(t, "next")
  /\ \E e \in First(t) :
       Goes(t, [Popped(t, e) EXCEPT !.step = "submit", !.batch = e[1], !.attempt = 1])
  /\ UNCHANGED <<queued, batchOf, quarantined, batch, tx, drops, faults>>

\* FAULTY: any depth will do.
LookedShallow(x) ==
  CASE tx[x].fate \in {"pool", "dropped", "free"} -> {"submit"}
    [] tx[x].fate = "reverted"                    -> {"degrade"}
    [] OTHER                                      -> {"next", "confirm"}

\* reconcileOnce asks the chain.  A transaction that is merely pending is not
\* included; a head read too early, or a block too shallow, leaves the batch for
\* a later sweep.
Looked(x) ==
  CASE tx[x].fate \in {"pool", "dropped", "free"} -> {"submit"}
    [] tx[x].fate = "reverted"                    -> {"degrade"}
    [] tx[x].fate = "mined"                       -> {"next"}
    [] tx[x].fate = "final"                       -> {"next", "confirm"}

Inspect(t) ==
  /\ At(t, "next")
  /\ \E e \in First(t) : \E step \in Looked(e[2]) :
       Goes(t, IF step = "next" THEN Popped(t, e)
               ELSE [Popped(t, e) EXCEPT !.step = step, !.batch = e[1]])
  /\ UNCHANGED <<queued, batchOf, quarantined, batch, tx, drops, faults>>

\* The RPC answers no receipt, for whatever reason: the same as not included.
InspectUnanswered(t) ==
  /\ At(t, "next")
  /\ \E e \in First(t) :
       Goes(t, [Popped(t, e) EXCEPT !.step = "submit", !.batch = e[1]])
  /\ UNCHANGED <<queued, batchOf, quarantined, batch, tx, drops, faults>>

-----------------------------------------------------------------------------
\* SUBMIT

\* A dropped or reverted transaction does not come back: its name is free again
\* once nobody refers to it.
Unused(x) ==
  \/ tx[x].fate = "free"
  \/ /\ tx[x].fate \in {"dropped", "reverted"}
     /\ \A b \in BatchIds : batch[b].tx # x
     /\ \A t \in Loops : loop[t].tx # x /\ \A e \in loop[t].todo : e[2] # x

\* logReceipts is sent, without waiting for it.
Send(t) ==
  /\ At(t, "submit")
  /\ \E x \in Txs :
       /\ Unused(x)
       /\ tx' = [tx EXCEPT ![x] = [batch |-> loop[t].batch, fate |-> "pool"]]
       /\ Goes(t, [loop[t] EXCEPT !.step = "sent", !.tx = x])
  /\ UNCHANGED <<queued, batchOf, quarantined, batch, drops, faults>>

\* FAULTY: a refused transaction is recorded like a sent one.
SendFailsQuietly(t) ==
  /\ At(t, "submit")
  /\ \E x \in Txs : Unused(x) /\ Goes(t, [loop[t] EXCEPT !.step = "sent", !.tx = x])
  /\ UNCHANGED <<queued, batchOf, quarantined, batch, tx, drops, faults>>

\* The RPC refuses, or the nonce is taken; also what stands for Txs running out.
SendFails(t) ==
  /\ At(t, "submit")
  /\ Goes(t, [loop[t] EXCEPT !.step = "error"])
  /\ UNCHANGED <<queued, batchOf, quarantined, batch, tx, drops, faults>>

\* What a loop goes on with after a batch: its list, if it has one.
Onward(t) == IF t \in Flushers THEN Resting
             ELSE [Resting EXCEPT !.step = "next", !.todo = loop[t].todo]

\* FAULTY: no trigger.
RefusedNever(b) == FALSE

\* The triggers of migration 022: no batch with an annotated receipt is recorded
\* as submitted or confirmed.
Refused(b) == Members(b) \cap quarantined # {}

\* Unconditional: whatever the batch has become meanwhile.
MarkSubmitted(t) ==
  /\ At(t, "sent")
  /\ ~Refused(loop[t].batch)
  /\ batch' = [batch EXCEPT ![loop[t].batch] = [status |-> "SUBMITTED", tx |-> loop[t].tx]]
  /\ Goes(t, Onward(t))
  /\ UNCHANGED <<queued, batchOf, quarantined, tx, drops, faults>>

\* The transaction is sent and its hash is lost: a trigger or the database throws.
MarkFails(t) ==
  /\ At(t, "sent")
  /\ \/ Refused(loop[t].batch) /\ UNCHANGED faults
     \/ ~Refused(loop[t].batch) /\ faults < MaxFaults /\ faults' = faults + 1
  /\ Goes(t, [loop[t] EXCEPT !.step = "error", !.tx = NoTx])
  /\ UNCHANGED <<queued, batchOf, quarantined, batch, tx, drops>>

\* FAULTY: one attempt more than RetryMax.
RetryOnceMore(t) ==
  /\ At(t, "error")
  /\ Goes(t, IF t \in Reconcilers THEN Onward(t)
             ELSE IF loop[t].attempt <= RetryMax
               THEN [loop[t] EXCEPT !.step = "submit", !.attempt = @ + 1]
               ELSE [loop[t] EXCEPT !.step = "degrade"])
  /\ UNCHANGED <<queued, batchOf, quarantined, batch, tx, drops, faults>>

\* recordBatchError, which only counts; then another attempt, or none: the
\* reconciler leaves it at one, and the batch as it is.
Retry(t) ==
  /\ At(t, "error")
  /\ Goes(t, IF t \in Reconcilers THEN Onward(t)
             ELSE IF loop[t].attempt < RetryMax
               THEN [loop[t] EXCEPT !.step = "submit", !.attempt = @ + 1]
               ELSE [loop[t] EXCEPT !.step = "degrade"])
  /\ UNCHANGED <<queued, batchOf, quarantined, batch, tx, drops, faults>>

MarkDegraded(t) ==
  /\ At(t, "degrade")
  /\ batch' = [batch EXCEPT ![loop[t].batch].status = "DEGRADED_UNANCHORED"]
  /\ Goes(t, Onward(t))
  /\ UNCHANGED <<queued, batchOf, quarantined, tx, drops, faults>>

\* What the trigger throws here ends the whole sweep; a batch confirmed already,
\* and in the same block, passes it.
PastTrigger(t) == IF batch[loop[t].batch].status = "CONFIRMED"
                  THEN {Resting, Onward(t)} ELSE {Resting}

MarkConfirmed(t) ==
  /\ At(t, "confirm")
  /\ IF Refused(loop[t].batch)
       THEN /\ \E frame \in PastTrigger(t) : Goes(t, frame)
            /\ UNCHANGED batch
       ELSE /\ batch' = [batch EXCEPT ![loop[t].batch].status = "CONFIRMED"]
            /\ Goes(t, Onward(t))
  /\ UNCHANGED <<queued, batchOf, quarantined, tx, drops, faults>>

\* FAULTY: the status is not compared.
RedriveAny(b) ==
  /\ batch[b].status # "none"
  /\ batch' = [batch EXCEPT ![b].status = "PENDING"]
  /\ UNCHANGED <<queued, batchOf, quarantined, loop, tx, drops, faults>>

\* An operator re-drives a degraded batch (compare-and-set on the status).
RedriveDegraded(b) ==
  /\ batch[b].status = "DEGRADED_UNANCHORED"
  /\ batch' = [batch EXCEPT ![b].status = "PENDING"]
  /\ UNCHANGED <<queued, batchOf, quarantined, loop, tx, drops, faults>>

\* A process dies, or a statement outside the try block throws.
Dies(t) ==
  /\ ~At(t, "idle")
  /\ faults < MaxFaults
  /\ faults' = faults + 1
  /\ Goes(t, Resting)
  /\ UNCHANGED <<queued, batchOf, quarantined, batch, tx, drops>>

-----------------------------------------------------------------------------
\* THE CHAIN

Becomes(x, fate) == tx' = [tx EXCEPT ![x].fate = fate]
ChainOnly == UNCHANGED <<queued, batchOf, quarantined, batch, loop, faults>>

Include(x) ==
  /\ tx[x].fate = "pool"
  /\ Becomes(x, "mined")
  /\ ChainOnly /\ UNCHANGED drops

Revert(x) ==
  /\ tx[x].fate = "pool"
  /\ Becomes(x, "reverted")
  /\ ChainOnly /\ UNCHANGED drops

\* confirmDepth blocks on it: no reorg reaches that deep.
Settle(x) ==
  /\ tx[x].fate = "mined"
  /\ Becomes(x, "final")
  /\ ChainOnly /\ UNCHANGED drops

Drop(x) ==
  /\ tx[x].fate \in {"pool", "mined", "reverted"}
  /\ drops < MaxDrops
  /\ drops' = drops + 1
  /\ Becomes(x, "dropped")
  /\ ChainOnly

-----------------------------------------------------------------------------
Work(t) ==
  \/ t \in Flushers /\ (SelectQueued(t) \/ CommitClaim(t))
  \/ t \in Recoverers /\ (List(t, "PENDING") \/ TakeUp(t))
  \/ t \in Reconcilers /\ (List(t, "SUBMITTED") \/ Inspect(t) \/ InspectUnanswered(t))
  \/ Rest(t) \/ Send(t) \/ SendFails(t) \/ MarkSubmitted(t) \/ MarkFails(t)
  \/ Retry(t) \/ MarkDegraded(t) \/ MarkConfirmed(t)

Next ==
  \/ \E r \in Receipts : Enqueue(r) \/ Annotate(r)
  \/ \E t \in Loops : Work(t) \/ Dies(t)
  \/ \E b \in BatchIds : RedriveDegraded(b)
  \/ \E x \in Txs : Include(x) \/ Revert(x) \/ Settle(x) \/ Drop(x)

Spec == Init /\ [][Next]_vars

\* The loops are timers that keep going; the RPC does not refuse every transaction
\* for ever, nor the chain revert them all.  Nobody has to re-drive, and nothing is
\* asked of the ticks in Redis.
FairSpec ==
  /\ Spec
  /\ \A t \in Loops : WF_vars(Work(t)) /\ SF_vars(Send(t))
  /\ \A x \in Txs : SF_vars(Include(x)) /\ WF_vars(Settle(x))
=============================================================================
