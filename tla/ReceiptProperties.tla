-------------------------- MODULE ReceiptProperties --------------------------
(***************************************************************************)
(* Receipts reach the chain or are known not to have: no loop loses one,   *)
(* claims one twice, or believes the chain too early.                      *)
(***************************************************************************)
EXTENDS ReceiptPipeline

\* Whatever loops claim, list, retry and re-drive at once, a receipt belongs to
\* one batch for good, and never leaves the database (claimQueuedBatch).
ClaimedOnce ==
  [][\A r \in Receipts :
       /\ batchOf[r] # NoBatch => batchOf'[r] = batchOf[r]
       /\ r \in Enqueued => r \in Enqueued']_vars

\* A batch that says CONFIRMED is on the chain for good, although a late loop
\* may have rewritten its tx_hash since (reconcileOnce, markConfirmed).
ConfirmedIsFinal ==
  \A b \in BatchIds : batch[b].status = "CONFIRMED" =>
    \E x \in Txs : tx[x] = [batch |-> b, fate |-> "final"]

\* A hash on record was really sent, and for this batch (markSubmitted).
RecordedWasSent ==
  \A b \in BatchIds : batch[b].tx # NoTx =>
    tx[batch[b].tx].batch = b /\ tx[batch[b].tx].fate # "free"

\* No loop records an annotated receipt as anchored, however long before the
\* annotation it began (the triggers of migration 022).
QuarantineIsKept ==
  [][\A b \in BatchIds :
       batch'[b] # batch[b] /\ batch'[b].status \in {"SUBMITTED", "CONFIRMED"}
         => Members(b) \cap quarantined = {}]_vars

\* A batch the reconciler cannot confirm, before others on its list.
Poisoned == \E b \in BatchIds : batch[b].status = "SUBMITTED" /\ Refused(b)

OnChain(b) == \E x \in Txs : tx[x] = [batch |-> b, fate |-> "final"]

\* An enqueued receipt reaches the chain, or its batch says that it did not,
\* with ticks lost and loops dying anywhere (worker.ts: a crash restarts clean).
EnqueuedIsSettled ==
  \A r \in Receipts :
    r \in queued ~>
      \/ r \in quarantined \/ Poisoned
      \/ \E b \in BatchIds :
           batchOf[r] = b /\ (OnChain(b) \/ batch[b].status = "DEGRADED_UNANCHORED")

-----------------------------------------------------------------------------
\* The refinement mapping: a receipt is known once it has a row, and a batch is
\* anchored once a transaction that logs it is too deep for a reorg.
Status == [b \in BatchIds |-> batch[b].status]
Anchored == {b \in BatchIds : OnChain(b)}

Promise == INSTANCE ReceiptPromise
             WITH Groups <- BatchIds, NoGroup <- NoBatch, known <- Enqueued,
                  groupOf <- batchOf, withheld <- quarantined,
                  status <- Status, anchored <- Anchored

\* Whatever the loops do at once, and wherever they die, each of their steps is
\* one ReceiptPromise allows, or none at all (worker.ts, anchorer.ts, repo-pg.ts).
KeepsReceiptPromise == Promise!Spec

-----------------------------------------------------------------------------
\* REFUTED.  Migration 022: "Never anchored" has to be a property of the row, not
\* a rule the anchorer follows: no transaction that logs an annotated receipt is
\* sent after the annotation.
NeverAnchored ==
  [][\A x \in Txs : tx'[x].fate = "pool" /\ tx[x].fate # "pool"
       => Members(tx'[x].batch) \cap quarantined = {}]_vars
=============================================================================
