---------------------------- MODULE ConsumerIntent ----------------------------
(***************************************************************************)
(* The life of one consumer intent: the orchestrator's methods             *)
(* (services/asp/src/consumer/orchestrator.ts), run by HTTP requests,      *)
(* execution ticks and sweep ticks over the rows of IntentStore.  Each     *)
(* await is one step, so that runs on one instance or on several           *)
(* interleave between any two database or provider calls.  A run may end   *)
(* at any await: its process dies, or a store call it does not catch       *)
(* throws.                                                                 *)
(*                                                                         *)
(* Time is four facts that lapse: the intent's window (expires_at), the    *)
(* quote, a capability, and the 120 seconds after which the reconciler     *)
(* looks at an execution row.                                              *)
(***************************************************************************)
EXTENDS IntentStore

CONSTANTS
  Requests,       \* HTTP handlers in flight
  Workers,        \* execution ticks: setInterval never waits for the last one
  Sweepers,       \* sweep ticks
  MaxCharges,     \* bound on payments of the funding route
  MaxFaults       \* bound on runs cut short

Runs == Requests \cup Workers \cup Sweepers

ASSUME RolesAssumption ==
  /\ Requests \cap Workers = {}
  /\ Requests \cap Sweepers = {}
  /\ Workers \cap Sweepers = {}
ASSUME BoundsAssumption == MaxCharges \in Nat /\ MaxFaults \in Nat

VARIABLES
  windowOpen,     \* expires_at is in the future
  quoteFresh,     \* the quote's expires_at is in the future
  rowsOld,        \* started_at of the execution rows is past the cutoff
  policyVersion,  \* the stored policy, 0 when there is none
  operator,       \* what the escalation pipeline answers to a poll, once asked
  charges,        \* payments the x402 middleware settled for the funding route
  paid,           \* payments a rail made to the provider
  faults,         \* runs cut short so far
  pc,             \* where each run stands
  local           \* what each run remembers

rowVars   == <<needsApproval, approval, receipt, ledger, cap, execs>>
clockVars == <<windowOpen, quoteFresh, rowsOld>>
worldVars == <<policyVersion, operator, charges, paid, faults>>
runVars   == <<pc, local>>
vars == <<state, rowVars, clockVars, worldVars, runVars>>

Labels ==
  { "idle",
    \* requests
    "mint", "ask", "offer", "terminalise", "policy", "check", "decide", "approval",
    "escalate", "reread", "rewrite", "outcome", "apply", "funding", "window",
    "paying", "record", "funded", "queue",
    \* execution ticks
    "gate", "issue", "commit", "prepare", "adapter", "rail", "answer", "row_paid",
    "settle", "mark_paid", "mark_acked", "evidence", "caught_maybe", "caught_never",
    "review", "suspend", "fail_after", "abort", "refund", "mark_refund",
    "pending", "deliver", "recognise", "complete",
    \* sweep ticks
    "expire", "status", "row_acked" }

\* seen: the state read at the start; goal: where a discovery read leads; heard
\* and version: an approval outcome and a policy version read earlier; row: the
\* execution row worked on; holds: does this run hold the capability object?
Frames == [seen : States, goal : {"DISCOVERING", "QUOTED"}, heard : Outcomes,
           version : Versions, row : Nat, holds : BOOLEAN]
Blank == [seen |-> "CREATED", goal |-> "QUOTED", heard |-> "PENDING",
          version |-> 0, row |-> 0, holds |-> FALSE]

TypeOK ==
  /\ StoreTypeOK
  /\ windowOpen \in BOOLEAN
  /\ quoteFresh \in BOOLEAN
  /\ rowsOld \in BOOLEAN
  /\ policyVersion \in Versions
  /\ operator \in Outcomes \cup {"NONE"}
  /\ charges \in 0..MaxCharges
  /\ paid \in Nat
  /\ faults \in 0..MaxFaults
  /\ pc \in [Runs -> Labels]
  /\ local \in [Runs -> Frames]

Init ==
  /\ StoreInit
  /\ windowOpen = TRUE
  /\ quoteFresh = FALSE
  /\ rowsOld = FALSE
  /\ policyVersion \in {0, 1} \cap Versions
  /\ operator = "NONE"
  /\ charges = 0
  /\ paid = 0
  /\ faults = 0
  /\ pc = [p \in Runs |-> "idle"]
  /\ local = [p \in Runs |-> Blank]

At(p, label)   == pc[p] = label
Goto(p, label) == pc' = [pc EXCEPT ![p] = label]
Recall(p, frame) == local' = [local EXCEPT ![p] = frame]
Return(p) == Goto(p, "idle") /\ Recall(p, Blank)

-----------------------------------------------------------------------------
\* FAULTY VARIANTS.  Each is an action below with one mistake planted in it; the
\* properties are tried against them, and no specification uses them.

\* A poll that is still PENDING passes for a yes.
PollApprovalOptimistic(p) ==
  /\ p \in Requests /\ At(p, "idle")
  /\ state = "AWAITING_APPROVAL"
  /\ approval # NoApproval
  /\ operator # "DENIED"
  /\ Goto(p, "outcome")
  /\ Recall(p, [Blank EXCEPT !.heard = "APPROVED"])
  /\ UNCHANGED <<state, rowVars, clockVars, worldVars>>

\* The funding handler advances the state without a receipt.
PayFundingUnrecorded(p) ==
  /\ At(p, "paying")
  /\ charges < MaxCharges
  /\ charges' = charges + 1
  /\ Goto(p, "funded")
  /\ UNCHANGED <<state, rowVars, clockVars, policyVersion, operator, paid, faults, local>>

\* A stale quote keeps the intent in the queue instead of failing it.
BeginExecutionWhenFresh(p) ==
  /\ p \in Workers /\ At(p, "idle")
  /\ state = "EXECUTION_QUEUED"
  /\ quoteFresh /\ Goto(p, "gate")
  /\ UNCHANGED <<state, rowVars, clockVars, worldVars, local>>

\* The transition into PROVIDER_PAYMENT_PENDING is not a compare-and-set.
CommitWithoutCas(p) ==
  /\ At(p, "commit")
  /\ state' = "PROVIDER_PAYMENT_PENDING"
  /\ Goto(p, "prepare")
  /\ UNCHANGED <<rowVars, clockVars, worldVars, local>>

\* The execution row is written after the payment, with the answer.
PrepareLater(p) ==
  /\ At(p, "prepare")
  /\ Goto(p, "adapter")
  /\ UNCHANGED <<state, rowVars, clockVars, worldVars, local>>

\* The settlement is not booked before the intent says PROVIDER_PAID.
RecordPaidOnly(p) ==
  /\ At(p, "row_paid")
  /\ UpdateRow(local[p].row, "PAID")
  /\ Goto(p, "mark_paid")
  /\ UNCHANGED <<state, needsApproval, approval, receipt, ledger, cap,
                 clockVars, worldVars, local>>

\* The row takes the state of the intent.
RecordFailureAsState(p) ==
  /\ At(p, "caught_maybe")
  /\ UpdateRow(local[p].row, "MANUAL_REVIEW")
  /\ Goto(p, "review")
  /\ UNCHANGED <<state, needsApproval, approval, receipt, ledger, cap,
                 clockVars, worldVars, local>>

\* The catch block writes the row and leaves the intent to the reconciler.
RecordFailureOnly(p) ==
  /\ \/ At(p, "caught_maybe") /\ UpdateRow(local[p].row, "AMBIGUOUS")
     \/ At(p, "caught_never") /\ UpdateRow(local[p].row, "FAILED")
  /\ Return(p)
  /\ UNCHANGED <<state, needsApproval, approval, receipt, ledger, cap,
                 clockVars, worldVars>>

\* A later offer replaces the one the intent was judged by.
PublishOfferWithoutCas(p) ==
  /\ At(p, "offer")
  /\ CanTransition(local[p].seen, local[p].goal)
  /\ state' = local[p].goal
  /\ quoteFresh' = TRUE
  /\ IF local[p].goal = "QUOTED" THEN Goto(p, "policy") ELSE Goto(p, "idle")
  /\ Recall(p, Blank)
  /\ UNCHANGED <<rowVars, windowOpen, rowsOld, worldVars>>

\* The failure handler moves the intent from whatever state it finds it in.
SendToReviewFromAnywhere(p) ==
  /\ At(p, "review")
  /\ IF CanTransition(state, "MANUAL_REVIEW")
       THEN state' = "MANUAL_REVIEW" /\ Goto(p, "suspend") /\ UNCHANGED local
       ELSE Return(p) /\ UNCHANGED state
  /\ UNCHANGED <<rowVars, clockVars, worldVars>>

\* A failure after payment gives the money back like one before it.
FailAfterPaymentWithRefund(p) ==
  /\ At(p, "fail_after")
  /\ Transition("PROVIDER_PAYMENT_PENDING", "FAILED_AFTER_PAYMENT")
  /\ Goto(p, "refund")
  /\ UNCHANGED <<rowVars, clockVars, worldVars, local>>

\* The suspense group is booked first, whatever the transition then says.
ReviewSuspendsFirst(p) ==
  /\ At(p, "review")
  /\ ledger' = ledger \cup {"SUSPENSE_MOVE"}
  /\ IF state = "PROVIDER_PAYMENT_PENDING"
       THEN Transition("PROVIDER_PAYMENT_PENDING", "MANUAL_REVIEW")
       ELSE UNCHANGED state
  /\ Return(p)
  /\ UNCHANGED <<needsApproval, approval, receipt, cap, execs, clockVars, worldVars>>

\* The refund is booked and the intent never says so.
BookRefundOnly(p) ==
  /\ At(p, "refund")
  /\ AppendGroup("REFUND")
  /\ Goto(p, "idle")
  /\ UNCHANGED <<state, needsApproval, approval, receipt, cap, execs,
                 clockVars, worldVars, local>>

\* The money is parked only if the provider is known to have been paid.
BookSuspenseIfPaid(p) ==
  /\ At(p, "suspend")
  /\ IF paid > 0 /\ ~AlreadyBooked("SUSPENSE_MOVE")
       THEN AppendGroup("SUSPENSE_MOVE")
       ELSE UNCHANGED ledger
  /\ Return(p)
  /\ UNCHANGED <<state, needsApproval, approval, receipt, cap, execs,
                 clockVars, worldVars>>

\* The tick looks for acknowledged purchases only.
BeginVerifyAcknowledged(p) ==
  /\ p \in Workers /\ At(p, "idle")
  /\ state = "PROVIDER_ACKNOWLEDGED" /\ Goto(p, "pending")
  /\ UNCHANGED <<state, rowVars, clockVars, worldVars, local>>

\* The sweeper forgets the last expirable state.
FindExpirableUnfunded(p) ==
  /\ p \in Sweepers /\ At(p, "idle")
  /\ ~windowOpen
  /\ state \in Expirable \ {"AWAITING_FUNDING"}
  /\ Goto(p, "expire")
  /\ Recall(p, [Blank EXCEPT !.seen = state])
  /\ UNCHANGED <<state, rowVars, clockVars, worldVars>>

-----------------------------------------------------------------------------
\* DISCOVER and QUOTE.  A search or a quote request found the intent CREATED
\* (a replay of a later one answers from the store); mustGet then reads it.
BeginOffer(p, goal) ==
  /\ p \in Requests /\ At(p, "idle")
  /\ state \in {"CREATED", "DISCOVERING"}
  /\ Goto(p, "mint")
  /\ Recall(p, [Blank EXCEPT !.seen = state, !.goal = goal])
  /\ UNCHANGED <<state, rowVars, clockVars, worldVars>>

\* mintDiscoveryCapability: a refusal (a pause, a cap, no known recipient, the
\* slot taken) is logged and the read goes on without a capability.
MintDiscovery(p) ==
  /\ At(p, "mint")
  /\ \/ UNCHANGED <<cap, local>>
     \/ /\ ~SlotTaken
        /\ MintCapability
        /\ Recall(p, [local[p] EXCEPT !.holds = TRUE])
  /\ Goto(p, "ask")
  /\ UNCHANGED <<state, needsApproval, approval, receipt, ledger, execs,
                 clockVars, worldVars>>

\* The finally block: releaseDiscoveryCapability consumes with a zero spend.
\* (A provider that charged for the read consumed it already: no difference.)
Release(p) == IF local[p].holds THEN Consume ELSE UNCHANGED cap

\* The adapter answers.
ReceiveOffer(p) ==
  /\ At(p, "ask")
  /\ Release(p)
  /\ Goto(p, "offer")
  /\ Recall(p, [local[p] EXCEPT !.holds = FALSE])
  /\ UNCHANGED <<state, needsApproval, approval, receipt, ledger, execs,
                 clockVars, worldVars>>

\* Whatever discover or quote throws, the public routes leave the intent as it is.
\* The operator route, which only quotes, terminalises it.
LeaveOffer(p) ==
  \/ Goto(p, "idle")
  \/ local[p].goal = "QUOTED" /\ Goto(p, "terminalise")

\* The adapter throws.
OfferFails(p) ==
  /\ At(p, "ask")
  /\ Release(p)
  /\ LeaveOffer(p)
  /\ Recall(p, Blank)
  /\ UNCHANGED <<state, needsApproval, approval, receipt, ledger, execs,
                 clockVars, worldVars>>

Terminalise(p) ==
  /\ At(p, "terminalise")
  /\ IF state \in {"CREATED", "DISCOVERING"}
       THEN Transition(state, "FAILED_BEFORE_PAYMENT")
       ELSE UNCHANGED state
  /\ Return(p)
  /\ UNCHANGED <<rowVars, clockVars, worldVars>>

\* insertQuote and the transition that makes the quote the intent's.
PublishOffer(p) ==
  /\ At(p, "offer")
  /\ LET goal == local[p].goal IN
     \/ /\ Transition(local[p].seen, goal)
        /\ IF goal = "QUOTED"
             THEN quoteFresh' = TRUE /\ Goto(p, "policy")
             ELSE UNCHANGED quoteFresh /\ Goto(p, "idle")
     \/ /\ TransitionThrows(local[p].seen, goal)
        /\ LeaveOffer(p)
        /\ UNCHANGED quoteFresh
  /\ Recall(p, Blank)
  /\ UNCHANGED <<rowVars, windowOpen, rowsOld, worldVars>>

-----------------------------------------------------------------------------
\* POLICY.  runPolicy follows in the same request.
ReadPolicy(p) ==
  /\ At(p, "policy")
  /\ IF quoteFresh
       THEN /\ Goto(p, "check")
            /\ Recall(p, [Blank EXCEPT !.seen = state, !.version = policyVersion])
       ELSE Return(p)
  /\ UNCHANGED <<state, rowVars, clockVars, worldVars>>

BeginCheck(p) ==
  /\ At(p, "check")
  /\ \/ /\ Transition(local[p].seen, "POLICY_CHECKING")
        /\ Goto(p, "decide")
        /\ UNCHANGED local
     \/ /\ TransitionThrows(local[p].seen, "POLICY_CHECKING")
        /\ Return(p)
  /\ UNCHANGED <<rowVars, clockVars, worldVars>>

\* The engine's verdict; without a stored policy it is a block.
Decide(p) ==
  /\ At(p, "decide")
  /\ \/ /\ local[p].version # 0
        /\ Transition("POLICY_CHECKING", "APPROVED")
        /\ needsApproval' = FALSE
        /\ Goto(p, "funding")
        /\ Recall(p, Blank)
     \/ /\ local[p].version # 0
        /\ Transition("POLICY_CHECKING", "AWAITING_APPROVAL")
        /\ needsApproval' = TRUE
        /\ Goto(p, "approval")
        /\ UNCHANGED local
     \/ /\ Transition("POLICY_CHECKING", "BLOCKED")
        /\ Return(p)
        /\ UNCHANGED needsApproval
     \/ /\ state # "POLICY_CHECKING"
        /\ Return(p)
        /\ UNCHANGED <<state, needsApproval>>
  /\ UNCHANGED <<approval, receipt, ledger, cap, execs, clockVars, worldVars>>

InsertApproval(p) ==
  /\ At(p, "approval")
  /\ UpsertApproval("PENDING", local[p].version)
  /\ Goto(p, "escalate")
  /\ UNCHANGED <<state, needsApproval, receipt, ledger, cap, execs,
                 clockVars, worldVars, local>>

\* requestApproval hands the question to the escalation pipeline.
AskOperator(p) ==
  /\ At(p, "escalate")
  /\ operator' = "PENDING"
  /\ Goto(p, "reread")
  /\ UNCHANGED <<state, rowVars, clockVars, policyVersion, charges, paid, faults, local>>

\* getApproval ...
RereadApproval(p) ==
  /\ At(p, "reread")
  /\ IF approval # NoApproval
       THEN /\ Goto(p, "rewrite")
            /\ Recall(p, [local[p] EXCEPT !.heard = approval.outcome])
       ELSE Return(p)
  /\ UNCHANGED <<state, rowVars, clockVars, worldVars>>

\* ... and upsertApproval of the row read, whatever was decided in between.
RewriteApproval(p) ==
  /\ At(p, "rewrite")
  /\ UpsertApproval(local[p].heard, local[p].version)
  /\ Return(p)
  /\ UNCHANGED <<state, needsApproval, receipt, ledger, cap, execs,
                 clockVars, worldVars>>

-----------------------------------------------------------------------------
\* APPROVAL.  resolveApproval, run by an execute request: a poll that is not
\* PENDING is stored, then applied.
PollApproval(p) ==
  /\ p \in Requests /\ At(p, "idle")
  /\ state = "AWAITING_APPROVAL"
  /\ approval # NoApproval
  /\ operator \in {"APPROVED", "DENIED"}
  /\ Goto(p, "outcome")
  /\ Recall(p, [Blank EXCEPT !.heard = operator])
  /\ UNCHANGED <<state, rowVars, clockVars, worldVars>>

StoreOutcome(p) ==
  /\ At(p, "outcome")
  /\ ResolveApproval(local[p].heard)
  /\ Goto(p, "apply")
  /\ UNCHANGED <<state, needsApproval, receipt, ledger, cap, execs,
                 clockVars, worldVars, local>>

ApplyOutcome(p) ==
  /\ At(p, "apply")
  /\ LET to == IF local[p].heard = "DENIED" THEN "BLOCKED" ELSE "APPROVED" IN
     \/ /\ Transition("AWAITING_APPROVAL", to)
        /\ IF to = "APPROVED" THEN Goto(p, "funding") ELSE Goto(p, "idle")
     \/ /\ TransitionThrows("AWAITING_APPROVAL", to)
        /\ Goto(p, "idle")
  /\ Recall(p, Blank)
  /\ UNCHANGED <<rowVars, clockVars, worldVars>>

-----------------------------------------------------------------------------
\* FUNDING.  An execute request that finds the intent APPROVED asks for money.
BeginFunding(p) ==
  /\ p \in Requests /\ At(p, "idle")
  /\ state = "APPROVED"
  /\ Goto(p, "funding")
  /\ UNCHANGED <<state, rowVars, clockVars, worldVars, local>>

\* requestFunding reads the intent again and refuses a stale quote.
ReadForFunding(p) ==
  /\ At(p, "funding")
  /\ IF quoteFresh
       THEN /\ Goto(p, "window")
            /\ Recall(p, [Blank EXCEPT !.seen = state])
       ELSE Return(p)
  /\ UNCHANGED <<state, rowVars, clockVars, worldVars>>

\* The transition from the state READ opens a new window.  The operator-funded
\* route goes on to confirm the funding itself, with no charge.
RequestFunding(p) ==
  /\ At(p, "window")
  /\ \/ /\ Transition(local[p].seen, "AWAITING_FUNDING")
        /\ windowOpen' = TRUE
        /\ Goto(p, "idle") \/ Goto(p, "record")
     \/ /\ TransitionThrows(local[p].seen, "AWAITING_FUNDING")
        /\ Goto(p, "idle")
        /\ UNCHANGED windowOpen
  /\ Recall(p, Blank)
  /\ UNCHANGED <<rowVars, quoteFresh, rowsOld, worldVars>>

\* The DynamicPrice of the funding route: five refusals, then a price.
PriceFunding(p) ==
  /\ p \in Requests /\ At(p, "idle")
  /\ state = "AWAITING_FUNDING"
  /\ ~receipt
  /\ windowOpen
  /\ quoteFresh
  /\ Goto(p, "paying")
  /\ UNCHANGED <<state, rowVars, clockVars, worldVars, local>>

\* The caller pays the price, the middleware settles, and the handler runs:
\* confirmFunding returns at once for an intent already FUNDED.
PayFunding(p) ==
  /\ At(p, "paying")
  /\ charges < MaxCharges
  /\ charges' = charges + 1
  /\ IF state = "FUNDED" THEN Goto(p, "queue") ELSE Goto(p, "record")
  /\ UNCHANGED <<state, rowVars, clockVars, policyVersion, operator, paid, faults, local>>

\* recordFunding looks at the receipts, not at the intent's state.  A duplicate
\* returns without a transition; the handler then tries to queue either way.
RecordFunding(p) ==
  /\ At(p, "record")
  /\ RecordReceipt
  /\ IF receipt THEN Goto(p, "queue") ELSE Goto(p, "funded")
  /\ UNCHANGED <<state, needsApproval, approval, cap, execs, clockVars, worldVars, local>>

MarkFunded(p) ==
  /\ At(p, "funded")
  /\ \/ Transition("AWAITING_FUNDING", "FUNDED") /\ Goto(p, "queue")
     \/ TransitionThrows("AWAITING_FUNDING", "FUNDED") /\ Goto(p, "idle")
  /\ UNCHANGED <<rowVars, clockVars, worldVars, local>>

\* An execute request that finds the intent FUNDED queues it.
BeginQueue(p) ==
  /\ p \in Requests /\ At(p, "idle")
  /\ state = "FUNDED"
  /\ Goto(p, "queue")
  /\ UNCHANGED <<state, rowVars, clockVars, worldVars, local>>

QueueExecution(p) ==
  /\ At(p, "queue")
  /\ \/ Transition("FUNDED", "EXECUTION_QUEUED")
     \/ TransitionThrows("FUNDED", "EXECUTION_QUEUED")
  /\ Return(p)
  /\ UNCHANGED <<rowVars, clockVars, worldVars>>

-----------------------------------------------------------------------------
\* EXECUTE.  A tick lists the EXECUTION_QUEUED intents and runs executeIntent,
\* which reads the intent again.  The flags and the quote are judged at once.
BeginExecution(p) ==
  /\ p \in Workers /\ At(p, "idle")
  /\ state = "EXECUTION_QUEUED"
  /\ \/ quoteFresh /\ Goto(p, "gate")
     \/ Goto(p, "abort")                        \* a flag or the quote refuses
  /\ UNCHANGED <<state, rowVars, clockVars, worldVars, local>>

\* assertApprovalStillBinds: without a row, only an intent that needed none may
\* go on; with one, it must be APPROVED and bound to the policy stored now.
\* (Quote, provider, recipient and ceiling cannot have changed: a quote is
\* written to the intent once, before the approval.)
ApprovalBinds ==
  IF approval = NoApproval
    THEN ~needsApproval
    ELSE /\ approval.outcome = "APPROVED"
         /\ policyVersion # 0
         /\ policyVersion = approval.version

CheckApproval(p) ==
  /\ At(p, "gate")
  /\ IF ApprovalBinds THEN Goto(p, "issue") ELSE Goto(p, "abort")
  /\ UNCHANGED <<state, rowVars, clockVars, worldVars, local>>

\* The registry, the circuit breaker and the treasury's own checks may refuse;
\* so does the unique index when some unconsumed capability holds the slot.
IssueCapability(p) ==
  /\ At(p, "issue")
  /\ \/ /\ ~SlotTaken
        /\ MintCapability
        /\ Goto(p, "commit")
        /\ Recall(p, [Blank EXCEPT !.holds = TRUE])
     \/ /\ Goto(p, "abort")
        /\ UNCHANGED <<cap, local>>
  /\ UNCHANGED <<state, needsApproval, approval, receipt, ledger, execs,
                 clockVars, worldVars>>

\* The point of no return.
CommitToPay(p) ==
  /\ At(p, "commit")
  /\ \/ /\ Transition("EXECUTION_QUEUED", "PROVIDER_PAYMENT_PENDING")
        /\ Goto(p, "prepare")
        /\ UNCHANGED local
     \/ /\ TransitionThrows("EXECUTION_QUEUED", "PROVIDER_PAYMENT_PENDING")
        /\ Return(p)
  /\ UNCHANGED <<rowVars, clockVars, worldVars>>

PrepareExecution(p) ==
  /\ At(p, "prepare")
  /\ InsertRow
  /\ rowsOld' = FALSE
  /\ Goto(p, "adapter")
  /\ Recall(p, [local[p] EXCEPT !.row = Len(execs) + 1])
  /\ UNCHANGED <<state, needsApproval, approval, receipt, ledger, cap,
                 windowOpen, quoteFresh, worldVars>>

\* The adapter refuses the provider's challenge, or pay() finds the capability
\* expired, before anything is redeemed: no side effect is possible.
AdapterRefuses(p) ==
  /\ At(p, "adapter")
  /\ Goto(p, "caught_never")
  /\ UNCHANGED <<state, rowVars, clockVars, worldVars, local>>

\* pay() redeems the capability before the rail signs.
RedeemCapability(p) ==
  /\ At(p, "adapter")
  /\ local[p].holds
  /\ cap = "live"
  /\ Consume
  /\ Goto(p, "rail")
  /\ Recall(p, [local[p] EXCEPT !.holds = FALSE])
  /\ UNCHANGED <<state, needsApproval, approval, receipt, ledger, execs,
                 clockVars, worldVars>>

\* The rail signs and the paid request leaves.  Unpaid, the error is the rail's:
\* known not to have settled, or unknown.
RailPays(p) ==
  /\ At(p, "rail")
  /\ \/ paid' = paid + 1 /\ Goto(p, "answer")
     \/ paid' = paid /\ Goto(p, "caught_maybe")
     \/ paid' = paid /\ Goto(p, "caught_never")
  /\ UNCHANGED <<state, rowVars, clockVars, policyVersion, operator, charges, faults, local>>

\* The paid answer: an execution, a lost or malformed response, or an HTTP
\* error, which classifyStatus calls free of side effects although the payment
\* went with the request.
ProviderAnswers(p) ==
  /\ At(p, "answer")
  /\ \/ Goto(p, "row_paid")
     \/ Goto(p, "caught_maybe")
     \/ Goto(p, "caught_never")
  /\ UNCHANGED <<state, rowVars, clockVars, worldVars, local>>

RecordPaid(p) ==
  /\ At(p, "row_paid")
  /\ UpdateRow(local[p].row, "PAID")
  /\ Goto(p, "settle")
  /\ UNCHANGED <<state, needsApproval, approval, receipt, ledger, cap,
                 clockVars, worldVars, local>>

\* settlementTreasuryRef, which throws TREASURY_INSUFFICIENT when no account is
\* registered: an error classified as free of side effects, after the payment.
\* Then recordSettlement: SETTLEMENT group and PAID row in one transaction.
BookSettlement(p) ==
  /\ At(p, "settle")
  /\ \/ /\ ~AlreadyBooked("SETTLEMENT")
        /\ AppendGroup("SETTLEMENT")
        /\ UpdateRow(local[p].row, "PAID")
        /\ Goto(p, "mark_paid")
     \/ /\ AlreadyBooked("SETTLEMENT")
        /\ Goto(p, "caught_maybe")
        /\ UNCHANGED <<ledger, execs>>
     \/ /\ Goto(p, "caught_never")
        /\ UNCHANGED <<ledger, execs>>
  /\ UNCHANGED <<state, needsApproval, approval, receipt, cap,
                 clockVars, worldVars, local>>

MarkPaid(p) ==
  /\ At(p, "mark_paid")
  /\ \/ /\ Transition("PROVIDER_PAYMENT_PENDING", "PROVIDER_PAID")
        /\ Goto(p, "mark_acked")
     \/ /\ TransitionThrows("PROVIDER_PAYMENT_PENDING", "PROVIDER_PAID")
        /\ Goto(p, "caught_maybe")
  /\ UNCHANGED <<rowVars, clockVars, worldVars, local>>

MarkAcknowledged(p) ==
  /\ At(p, "mark_acked")
  /\ IF state = "PROVIDER_PAID"
       THEN /\ Transition("PROVIDER_PAID", "PROVIDER_ACKNOWLEDGED")
            /\ Goto(p, "evidence")
       ELSE Goto(p, "caught_maybe") /\ UNCHANGED state
  /\ UNCHANGED <<rowVars, clockVars, worldVars, local>>

\* verifyDelivery and upsertDeliveryEvidence, still inside the try block.
RecordEvidence(p) ==
  /\ At(p, "evidence")
  /\ \/ Return(p)
     \/ Goto(p, "caught_maybe") /\ UNCHANGED local
     \/ Goto(p, "caught_never") /\ UNCHANGED local
  /\ UNCHANGED <<state, rowVars, clockVars, worldVars>>

\* The catch block writes the row AMBIGUOUS or FAILED by sideEffectPossible.
RecordFailure(p) ==
  /\ \/ /\ At(p, "caught_maybe")
        /\ UpdateRow(local[p].row, "AMBIGUOUS")
        /\ Goto(p, "review")
     \/ /\ At(p, "caught_never")
        /\ UpdateRow(local[p].row, "FAILED")
        /\ Goto(p, "fail_after")
  /\ UNCHANGED <<state, needsApproval, approval, receipt, ledger, cap,
                 clockVars, worldVars, local>>

\* handlePostPaymentFailure, for a worker and for the reconciler.
SendToReview(p) ==
  /\ At(p, "review")
  /\ \/ /\ Transition("PROVIDER_PAYMENT_PENDING", "MANUAL_REVIEW")
        /\ Goto(p, "suspend")
        /\ UNCHANGED local
     \/ /\ TransitionThrows("PROVIDER_PAYMENT_PENDING", "MANUAL_REVIEW")
        /\ Return(p)
  /\ UNCHANGED <<rowVars, clockVars, worldVars>>

BookSuspense(p) ==
  /\ At(p, "suspend")
  /\ IF receipt /\ ~AlreadyBooked("SUSPENSE_MOVE")
       THEN AppendGroup("SUSPENSE_MOVE")
       ELSE UNCHANGED ledger
  /\ Return(p)
  /\ UNCHANGED <<state, needsApproval, approval, receipt, cap, execs,
                 clockVars, worldVars>>

FailAfterPayment(p) ==
  /\ At(p, "fail_after")
  /\ \/ Transition("PROVIDER_PAYMENT_PENDING", "FAILED_AFTER_PAYMENT")
     \/ TransitionThrows("PROVIDER_PAYMENT_PENDING", "FAILED_AFTER_PAYMENT")
  /\ Return(p)
  /\ UNCHANGED <<rowVars, clockVars, worldVars>>

\* failBeforePayment: the state, then the REFUND group, then REFUND_PENDING.
FailBeforePayment(p) ==
  /\ At(p, "abort")
  /\ \/ /\ Transition("EXECUTION_QUEUED", "FAILED_BEFORE_PAYMENT")
        /\ Goto(p, "refund")
     \/ /\ TransitionThrows("EXECUTION_QUEUED", "FAILED_BEFORE_PAYMENT")
        /\ Goto(p, "idle")
  /\ UNCHANGED <<rowVars, clockVars, worldVars, local>>

BookRefund(p) ==
  /\ At(p, "refund")
  /\ IF receipt /\ ~AlreadyBooked("REFUND")
       THEN AppendGroup("REFUND") /\ Goto(p, "mark_refund")
       ELSE Goto(p, "idle") /\ UNCHANGED ledger
  /\ UNCHANGED <<state, needsApproval, approval, receipt, cap, execs,
                 clockVars, worldVars, local>>

MarkRefundPending(p) ==
  /\ At(p, "mark_refund")
  /\ IF state = "FAILED_BEFORE_PAYMENT"
       THEN Transition("FAILED_BEFORE_PAYMENT", "REFUND_PENDING")
       ELSE UNCHANGED state
  /\ Goto(p, "idle")
  /\ UNCHANGED <<rowVars, clockVars, worldVars, local>>

-----------------------------------------------------------------------------
\* VERIFY and COMPLETE.  The tick lists acknowledged, then pending deliveries.
BeginVerify(p) ==
  /\ p \in Workers /\ At(p, "idle")
  /\ \/ state = "PROVIDER_ACKNOWLEDGED" /\ Goto(p, "pending")
     \/ state = "DELIVERY_PENDING" /\ Goto(p, "deliver")
  /\ UNCHANGED <<state, rowVars, clockVars, worldVars, local>>

AwaitDelivery(p) ==
  /\ At(p, "pending")
  /\ \/ /\ Transition("PROVIDER_ACKNOWLEDGED", "DELIVERY_PENDING")
        /\ Goto(p, "deliver")
     \/ /\ TransitionThrows("PROVIDER_ACKNOWLEDGED", "DELIVERY_PENDING")
        /\ Goto(p, "idle")
  /\ UNCHANGED <<rowVars, clockVars, worldVars, local>>

VerifyDelivery(p) ==
  /\ At(p, "deliver")
  /\ \/ /\ Transition("DELIVERY_PENDING", "DELIVERY_VERIFIED")
        /\ Goto(p, "recognise")
     \/ /\ TransitionThrows("DELIVERY_PENDING", "DELIVERY_VERIFIED")
        /\ Goto(p, "idle")
  /\ UNCHANGED <<rowVars, clockVars, worldVars, local>>

\* complete: the obligation is discharged, a receipt is attempted (its failure
\* changes nothing here), and the intent closes.
Recognise(p) ==
  /\ At(p, "recognise")
  /\ IF AlreadyBooked("RECOGNITION")
       THEN Goto(p, "idle") /\ UNCHANGED ledger
       ELSE AppendGroup("RECOGNITION") /\ Goto(p, "complete")
  /\ UNCHANGED <<state, needsApproval, approval, receipt, cap, execs,
                 clockVars, worldVars, local>>

Complete(p) ==
  /\ At(p, "complete")
  /\ IF state = "DELIVERY_VERIFIED"
       THEN Transition("DELIVERY_VERIFIED", "COMPLETED")
       ELSE UNCHANGED state
  /\ Goto(p, "idle")
  /\ UNCHANGED <<rowVars, clockVars, worldVars, local>>

-----------------------------------------------------------------------------
\* SWEEPS.  expireStale: find, then expire from the state found.
FindExpirable(p) ==
  /\ p \in Sweepers /\ At(p, "idle")
  /\ ~windowOpen
  /\ state \in Expirable
  /\ Goto(p, "expire")
  /\ Recall(p, [Blank EXCEPT !.seen = state])
  /\ UNCHANGED <<state, rowVars, clockVars, worldVars>>

Expire(p) ==
  /\ At(p, "expire")
  /\ \/ Transition(local[p].seen, "EXPIRED")
     \/ TransitionThrows(local[p].seen, "EXPIRED")
  /\ Return(p)
  /\ UNCHANGED <<rowVars, clockVars, worldVars>>

\* reconcileAmbiguous: an old SENT or AMBIGUOUS row, and the intent as it is.
FindAmbiguous(p) ==
  /\ p \in Sweepers /\ At(p, "idle")
  /\ rowsOld
  /\ \E n \in DOMAIN execs :
       /\ execs[n] \in {"SENT", "AMBIGUOUS"}
       /\ Recall(p, [Blank EXCEPT !.seen = state, !.row = n])
  /\ Goto(p, "status")
  /\ UNCHANGED <<state, rowVars, clockVars, worldVars>>

\* Below the try block: an intent READ as pending goes to a human.
LeaveToHuman(p) ==
  IF local[p].seen = "PROVIDER_PAYMENT_PENDING"
    THEN Goto(p, "review") /\ UNCHANGED local
    ELSE Return(p)

\* getStatus: FULFILLED or IN_PROGRESS (an adapter that asks by domain may say so
\* of a purchase nobody paid for), or anything else, or an error.
AskProvider(p) ==
  /\ At(p, "status")
  /\ \/ Goto(p, "row_acked") /\ UNCHANGED local
     \/ LeaveToHuman(p)
  /\ UNCHANGED <<state, rowVars, clockVars, worldVars>>

\* The row is resolved; the intent is left as it was.
AcknowledgeRow(p) ==
  /\ At(p, "row_acked")
  /\ UpdateRow(local[p].row, "ACKNOWLEDGED")
  /\ Return(p)
  /\ UNCHANGED <<state, needsApproval, approval, receipt, ledger, cap,
                 clockVars, worldVars>>

-----------------------------------------------------------------------------
\* THE WORLD: time passes, a policy is edited, an operator decides, runs die.
WindowLapses ==
  /\ windowOpen
  /\ windowOpen' = FALSE
  /\ UNCHANGED <<state, rowVars, quoteFresh, rowsOld, worldVars, runVars>>

QuoteLapses ==
  /\ quoteFresh
  /\ quoteFresh' = FALSE
  /\ UNCHANGED <<state, rowVars, windowOpen, rowsOld, worldVars, runVars>>

CapabilityLapses ==
  /\ cap = "live"
  /\ cap' = "expired"
  /\ UNCHANGED <<state, needsApproval, approval, receipt, ledger, execs,
                 clockVars, worldVars, runVars>>

RowsAge ==
  /\ ~rowsOld /\ execs # << >>
  /\ rowsOld' = TRUE
  /\ UNCHANGED <<state, rowVars, windowOpen, quoteFresh, worldVars, runVars>>

EditPolicy ==
  /\ policyVersion < MaxPolicyVersion
  /\ policyVersion' = policyVersion + 1
  /\ UNCHANGED <<state, rowVars, clockVars, operator, charges, paid, faults, runVars>>

OperatorAnswers ==
  /\ operator = "PENDING"
  /\ operator' \in {"APPROVED", "DENIED"}
  /\ UNCHANGED <<state, rowVars, clockVars, policyVersion, charges, paid, faults, runVars>>

\* A run ends at the await it stands at.  A capability it held stays unconsumed.
RunDies(p) ==
  /\ ~At(p, "idle")
  /\ faults < MaxFaults
  /\ faults' = faults + 1
  /\ Return(p)
  /\ UNCHANGED <<state, rowVars, clockVars, policyVersion, operator, charges, paid>>

\* A store call of a try block throws.  In executeIntent that is an unclassified
\* error, hence a possible side effect; in reconcileAmbiguous it is swallowed.
StoreThrows(p) ==
  /\ \/ /\ pc[p] \in {"row_paid", "settle", "mark_paid", "mark_acked", "evidence"}
        /\ Goto(p, "caught_maybe")
        /\ UNCHANGED local
     \/ At(p, "row_acked") /\ LeaveToHuman(p)
  /\ faults < MaxFaults
  /\ faults' = faults + 1
  /\ UNCHANGED <<state, rowVars, clockVars, policyVersion, operator, charges, paid>>

-----------------------------------------------------------------------------
BeginRequest(p) ==
  \/ \E goal \in {"DISCOVERING", "QUOTED"} : BeginOffer(p, goal)
  \/ PollApproval(p) \/ BeginFunding(p) \/ PriceFunding(p) \/ BeginQueue(p)

\* What a run does next once it has begun; a payer may let a price lapse.
Continue(p) ==
  \/ MintDiscovery(p) \/ ReceiveOffer(p) \/ OfferFails(p)
  \/ Terminalise(p) \/ PublishOffer(p)
  \/ ReadPolicy(p) \/ BeginCheck(p) \/ Decide(p) \/ InsertApproval(p)
  \/ AskOperator(p) \/ RereadApproval(p) \/ RewriteApproval(p)
  \/ StoreOutcome(p) \/ ApplyOutcome(p)
  \/ ReadForFunding(p) \/ RequestFunding(p)
  \/ RecordFunding(p) \/ MarkFunded(p) \/ QueueExecution(p)
  \/ CheckApproval(p) \/ IssueCapability(p) \/ CommitToPay(p) \/ PrepareExecution(p)
  \/ AdapterRefuses(p) \/ RedeemCapability(p) \/ RailPays(p) \/ ProviderAnswers(p)
  \/ RecordPaid(p) \/ BookSettlement(p) \/ MarkPaid(p) \/ MarkAcknowledged(p)
  \/ RecordEvidence(p) \/ RecordFailure(p)
  \/ SendToReview(p) \/ BookSuspense(p) \/ FailAfterPayment(p)
  \/ FailBeforePayment(p) \/ BookRefund(p) \/ MarkRefundPending(p)
  \/ AwaitDelivery(p) \/ VerifyDelivery(p) \/ Recognise(p) \/ Complete(p)
  \/ Expire(p) \/ AskProvider(p) \/ AcknowledgeRow(p)

World ==
  \/ WindowLapses \/ QuoteLapses \/ CapabilityLapses \/ RowsAge
  \/ EditPolicy \/ OperatorAnswers

Next ==
  \/ \E p \in Runs :
       \/ BeginRequest(p) \/ PayFunding(p)
       \/ BeginExecution(p) \/ BeginVerify(p)
       \/ FindExpirable(p) \/ FindAmbiguous(p)
       \/ Continue(p)
       \/ RunDies(p) \/ StoreThrows(p)
  \/ World

Spec == Init /\ [][Next]_vars

\* startConsumerWorkers: every tick starts its sweep again whatever became of
\* the last, a run that has begun goes on, and execution rows grow old.
\* Nothing obliges a caller to ask, an operator to answer or a payer to pay.
Fairness ==
  /\ WF_vars(RowsAge)
  /\ \A p \in Runs : WF_vars(Continue(p))
  /\ \A w \in Workers : WF_vars(BeginExecution(w)) /\ WF_vars(BeginVerify(w))
  /\ \A s \in Sweepers : WF_vars(FindExpirable(s)) /\ WF_vars(FindAmbiguous(s))

FairSpec == Spec /\ Fairness
=============================================================================
