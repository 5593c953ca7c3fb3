----------------------- MODULE ConsumerIntentProperties -----------------------
(***************************************************************************)
(* What must hold of one intent whoever runs when: safety, the refinement  *)
(* of PurchasePromise, progress under FairSpec, and three statements of    *)
(* the documentation the code does not keep.                               *)
(***************************************************************************)
EXTENDS ConsumerIntent

\* Overlapping execution ticks, deaths and the reconciler never get the provider
\* paid a second time (executeIntent: the compare-and-set into
\* PROVIDER_PAYMENT_PENDING, the single-use capability).
PaidAtMostOnce == paid <= 1

\* No payment leaves without a row on record that the reconciler can find, and
\* an intent never gets a second attempt (prepareExecution before execute).
PaymentOnRecord == paid <= Len(execs) /\ Len(execs) <= 1

\* Untch never pays a provider before the caller's own money is booked, through
\* whatever route, replay or race the intent came to be queued
\* (recordFunding: receipt and FUNDING group in one transaction).
PaymentFunded == paid > 0 => receipt /\ "FUNDING" \in ledger

\* A provider that was paid is never accompanied by a refund to the caller, nor
\* by an intent that says nothing was paid (failBeforePayment against a
\* concurrent executeIntent).
PaidNeverRefunded ==
  paid > 0 => /\ "REFUND" \notin ledger
              /\ state \notin {"FAILED_BEFORE_PAYMENT", "REFUND_PENDING",
                               "BLOCKED", "EXPIRED"}

\* The obligation to the caller is discharged at most once, and only if there
\* is one: complete, failBeforePayment and handlePostPaymentFailure, run by
\* different actors, never book two of RECOGNITION, REFUND and SUSPENSE_MOVE.
DischargedOnce == Obligation \in {0, 1}

\* assertIntentSettled: a COMPLETED intent owes its caller nothing, and what
\* its provider was paid is on the ledger.
CompletedIsSettled ==
  state = "COMPLETED" => /\ Obligation = 0
                         /\ paid = 1
                         /\ "SETTLEMENT" \in ledger

\* A purchase the engine escalated is paid for only if the operator said yes,
\* however polls, rewrites of the approval row and executions interleave.
NoPaymentWithoutApproval == paid > 0 /\ needsApproval => operator = "APPROVED"

\* Only a fault of the process or the store strands a purchase.  No tick lists
\* PROVIDER_PAYMENT_PENDING, PROVIDER_PAID or DELIVERY_VERIFIED, so a run that will
\* take the intent out of such a state must be under way, whatever the provider
\* answered, which writes were lost and whoever overtook whom (executeIntent with
\* its catch block, verifyAndComplete).
Carrying == {"prepare", "adapter", "rail", "answer", "row_paid", "settle", "mark_paid",
             "caught_maybe", "caught_never", "review", "fail_after"}
Closing == {"recognise", "complete"}
Carried(unlisted, labels) == state = unlisted => \E p \in Runs : pc[p] \in labels

OnlyFaultsStrand ==
  faults = 0 =>
    /\ Carried("PROVIDER_PAYMENT_PENDING", Carrying)
    /\ Carried("PROVIDER_PAID", {"mark_acked"})
    /\ Carried("DELIVERY_VERIFIED", Closing)

\* An intent whose end says where the caller's money went is right: a refund that
\* is pending is booked, whatever died.  Unless something did, an intent that failed
\* before payment or was sent to a human has its money booked out of the obligation,
\* or a run is about to do it (failBeforePayment, handlePostPaymentFailure, both of
\* which move the state first, and book in a second transaction).
Ending(end, group, label) ==
  state = end /\ receipt => group \in ledger \/ \E p \in Runs : pc[p] = label

EndsAreBooked ==
  /\ state = "REFUND_PENDING" => "REFUND" \in ledger
  /\ faults = 0 => /\ Ending("FAILED_BEFORE_PAYMENT", "REFUND", "refund")
                   /\ Ending("MANUAL_REVIEW", "SUSPENSE_MOVE", "suspend")

\* The operator's side is used as OperatorPromise allows: however many requests
\* run the policy, the question is put once and its answer never put aside
\* (requestApproval, resolveApproval).
Operator == INSTANCE OperatorPromise
AsksOnce == Operator!Spec

-----------------------------------------------------------------------------
\* The refinement mapping: the ledger says where the money is, the state what
\* the intent says of itself.
Money ==
  CASE "RECOGNITION" \in ledger   -> "recognised"
    [] "REFUND" \in ledger        -> "refunding"
    [] "SUSPENSE_MOVE" \in ledger -> "parked"
    [] OTHER -> IF "FUNDING" \in ledger THEN "held" ELSE "none"

Verdict ==
  CASE state = "COMPLETED"     -> "completed"
    [] state = "MANUAL_REVIEW" -> "review"
    [] state \in {"FAILED_BEFORE_PAYMENT", "REFUND_PENDING"} -> "aborted"
    [] OTHER -> "open"

Promise == INSTANCE PurchasePromise
             WITH money <- Money, payments <- paid, verdict <- Verdict

\* Every step of every run is a step PurchasePromise allows, or none at all.
KeepsPromise == Promise!Spec

-----------------------------------------------------------------------------
\* The inductive invariant behind the safety properties.

\* The provider may have been paid only in these states.
Committed == {"PROVIDER_PAYMENT_PENDING", "PROVIDER_PAID", "PROVIDER_ACKNOWLEDGED",
              "DELIVERY_PENDING", "DELIVERY_VERIFIED", "COMPLETED",
              "FAILED_AFTER_PAYMENT", "MANUAL_REVIEW"}
Acknowledged == {"PROVIDER_PAID", "PROVIDER_ACKNOWLEDGED", "DELIVERY_PENDING",
                 "DELIVERY_VERIFIED", "COMPLETED"}
Aborted == {"FAILED_BEFORE_PAYMENT", "REFUND_PENDING"}
Undecided == {"CREATED", "DISCOVERING", "QUOTED", "POLICY_CHECKING"}
Agreed == Committed \cup {"APPROVED", "AWAITING_FUNDING", "FUNDED", "EXECUTION_QUEUED"}

Spending == {"prepare", "adapter", "rail"}     \* committed, the rail not yet used
Paying   == {"answer", "row_paid", "settle", "mark_paid"}     \* the rail used
Asking   == {"approval", "escalate"}

\* At most one run is between the commit and the rail, and then nothing was paid.
OneSpender ==
  /\ paid \in {0, 1}
  /\ \A p \in Runs : pc[p] \in Spending => paid = 0 /\ state \in Committed
  /\ \A p, q \in Runs : pc[p] \in Spending /\ pc[q] \in Spending => p = q
  /\ paid = 1 => state \in Committed

\* The execution row comes into being with the commit, before the payment.
RowsMatch ==
  /\ state \notin Committed => execs = << >>
  /\ \A p \in Runs : pc[p] = "prepare" => execs = << >>
  /\ \A p \in Runs : pc[p] \in {"adapter", "rail"} => Len(execs) = 1
  /\ paid <= Len(execs)
  /\ Len(execs) <= 1

\* Every discharge goes with the states of its own branch, which no run leaves
\* for those of another, and with funding that was booked.
LedgerMatchesState ==
  /\ receipt <=> "FUNDING" \in ledger
  /\ state \in Committed \cup {"FUNDED", "EXECUTION_QUEUED"} => receipt
  /\ \A p \in Runs : pc[p] = "funded" => receipt
  /\ "REFUND" \in ledger => state \in Aborted /\ receipt
  /\ \A p \in Runs : pc[p] \in {"refund", "mark_refund"} => state \in Aborted
  /\ "RECOGNITION" \in ledger => state \in {"DELIVERY_VERIFIED", "COMPLETED"}
  /\ \A p \in Runs : pc[p] \in {"recognise", "complete"} =>
       state \in {"DELIVERY_VERIFIED", "COMPLETED"}
  /\ \A p \in Runs : pc[p] = "complete" => "RECOGNITION" \in ledger
  /\ state = "COMPLETED" => "RECOGNITION" \in ledger
  /\ "SUSPENSE_MOVE" \in ledger => state = "MANUAL_REVIEW" /\ receipt
  /\ \A p \in Runs : pc[p] = "suspend" => state = "MANUAL_REVIEW"

\* An intent that says its provider was paid is right, and the ledger agrees.
PaidIsBooked ==
  /\ \A p \in Runs : pc[p] \in Paying => paid = 1
  /\ \A p \in Runs : pc[p] = "mark_paid" => "SETTLEMENT" \in ledger
  /\ state \in Acknowledged => paid = 1 /\ "SETTLEMENT" \in ledger

\* The operator is asked once, by the one run that moved the intent there, and
\* an escalated intent goes on only with the operator's yes.
OperatorAgreed ==
  /\ state \in Undecided => operator = "NONE"
  /\ \A p \in Runs : pc[p] \in Asking => operator = "NONE" /\ state \notin Undecided
  /\ \A p, q \in Runs : pc[p] \in Asking /\ pc[q] \in Asking => p = q
  /\ \A p \in Runs : pc[p] \in {"outcome", "apply"} =>
       local[p].heard = "DENIED" \/ operator = "APPROVED"
  /\ state \in Agreed /\ needsApproval => operator = "APPROVED"

Safe == OneSpender /\ RowsMatch /\ LedgerMatchesState /\ PaidIsBooked /\ OperatorAgreed

IInv == TypeOK /\ Safe

-----------------------------------------------------------------------------
\* A queued intent is picked up whatever became of the workers that tried: it
\* is executed, or failed and refunded when its quote or approval has lapsed.
QueuedIsPickedUp == (state = "EXECUTION_QUEUED") ~> (state # "EXECUTION_QUEUED")

\* An acknowledged purchase is verified even if the tick that began dies
\* between the two transitions of verifyAndComplete.
DeliveryIsVerified ==
  (state \in {"PROVIDER_ACKNOWLEDGED", "DELIVERY_PENDING"})
    ~> (state \in {"DELIVERY_VERIFIED", "COMPLETED"})

\* An intent whose window lapsed does not linger: expireStale reaches it in any
\* of the expirable states, unless the window is opened again or money arrives.
LapsedIsExpired ==
  (state \in Expirable /\ ~windowOpen) ~> (state \notin Expirable \/ windowOpen)

\* Where no run is cut short, every queued purchase comes to rest: completed,
\* with a human, or failed with its refund booked and pending.
UndisturbedSettles ==
  [](faults = 0) =>
    ((state = "EXECUTION_QUEUED")
       ~> (state \in {"COMPLETED", "MANUAL_REVIEW", "FAILED_AFTER_PAYMENT",
                      "REFUND_PENDING"}))

-----------------------------------------------------------------------------
\* Said of FAILED_AFTER_PAYMENT: the provider "definitely did not" act.
FailedMeansNothingMoved == state = "FAILED_AFTER_PAYMENT" => paid = 0

\* Said of failures before payment: the caller's funding is recoverable in full.
ExpiredHoldsNoMoney == state = "EXPIRED" => Obligation = 0

\* Said of an ambiguous in-flight payment: it has exactly three exits, and the
\* reconciler resolves what a crash left.
AmbiguousIsResolved ==
  (state = "PROVIDER_PAYMENT_PENDING" /\ \E n \in DOMAIN execs : execs[n] = "AMBIGUOUS")
    ~> (state # "PROVIDER_PAYMENT_PENDING")
=============================================================================
