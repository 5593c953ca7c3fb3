----------------------------- MODULE IntentStore -----------------------------
(***************************************************************************)
(* The rows of one consumer intent and the guarded writes of the store     *)
(* (packages/consumer-core/src/repo-pg.ts over migration 007).  Every      *)
(* write is one database transaction: a compare-and-set on the intent's    *)
(* state, an insert some unique index may refuse, or an update by id.      *)
(* Rows of different intents never meet here; what they share, the         *)
(* treasury float, is not part of this module.                             *)
(***************************************************************************)
EXTENDS IntentStates, Integers, Sequences

CONSTANT MaxPolicyVersion   \* bound on policy edits

ASSUME PolicyAssumption == MaxPolicyVersion \in Nat

VARIABLES
  state,          \* consumer_intents.state
  needsApproval,  \* consumer_intents.approval_required
  approval,       \* consumer_approvals: outcome and bound policy version
  receipt,        \* consumer_funding_receipts: has this intent a row?
  ledger,         \* the kinds of ledger group written for this intent
  cap,            \* the unconsumed capability: "none", "live" or "expired"
  execs           \* consumer_provider_executions: row states by attempt

storeVars == <<state, needsApproval, approval, receipt, ledger, cap, execs>>

GroupKinds == {"FUNDING", "SETTLEMENT", "RECOGNITION", "REFUND", "SUSPENSE_MOVE"}
Discharges == {"RECOGNITION", "REFUND", "SUSPENSE_MOVE"}
RowStates  == {"SENT", "PAID", "ACKNOWLEDGED", "AMBIGUOUS", "FAILED"}
Outcomes   == {"PENDING", "APPROVED", "DENIED"}
Versions   == 0..MaxPolicyVersion      \* 0: no stored policy
NoApproval == [outcome |-> "NONE", version |-> 0]
Approvals  == [outcome : Outcomes, version : Versions] \cup {NoApproval}

StoreTypeOK ==
  /\ state \in States
  /\ needsApproval \in BOOLEAN
  /\ approval \in Approvals
  /\ receipt \in BOOLEAN
  /\ ledger \subseteq GroupKinds
  /\ cap \in {"none", "live", "expired"}
  /\ execs \in Seq(RowStates)

StoreInit ==
  /\ state = "CREATED"
  /\ needsApproval = FALSE
  /\ approval = NoApproval
  /\ receipt = FALSE
  /\ ledger = {}
  /\ cap = "none"
  /\ execs = << >>

-----------------------------------------------------------------------------
\* transition: the only writer of state.  assertTransition judges the edge the
\* caller read, then UPDATE ... WHERE state = expected finds the row or does not.
Transition(from, to) ==
  /\ CanTransition(from, to)
  /\ state = from
  /\ state' = to

\* The two ways transition throws: InvalidStateTransitionError, StaleIntentStateError.
TransitionThrows(from, to) ==
  /\ ~CanTransition(from, to) \/ state # from
  /\ UNCHANGED state

\* upsertApproval: a conflict on intent_id overwrites the outcome and who
\* resolved it; the bound version of the first insert stays.
UpsertApproval(outcome, version) ==
  approval' = IF approval = NoApproval
                THEN [outcome |-> outcome, version |-> version]
                ELSE [approval EXCEPT !.outcome = outcome]

\* resolveApproval: UPDATE ... SET outcome WHERE intent_id, if there is a row.
ResolveApproval(outcome) ==
  approval' = IF approval = NoApproval THEN approval
                                       ELSE [approval EXCEPT !.outcome = outcome]

\* recordFunding: receipt and FUNDING group in one transaction, refused whole
\* (ON CONFLICT DO NOTHING) when the intent has a receipt.
RecordReceipt ==
  /\ receipt' = TRUE
  /\ ledger' = IF receipt THEN ledger ELSE ledger \cup {"FUNDING"}

\* consumer_ledger_group_once_idx: one group of a kind per intent.
AlreadyBooked(kind) == kind \in ledger

\* appendLedgerGroup, when the index lets it through.
AppendGroup(kind) == ledger' = ledger \cup {kind}

\* consumer_capability_intent_idx: a second unconsumed capability is refused,
\* and an expired one that nobody consumed still counts.
SlotTaken == cap # "none"
MintCapability == cap' = "live"

\* consumeCapability returns null for an expired row, which then stays unconsumed.
Consume == cap' = IF cap = "live" THEN "none" ELSE cap

\* prepareExecution: the next attempt, written SENT before the request leaves.
InsertRow == execs' = Append(execs, "SENT")

\* updateExecution: by execution id, whatever the row's state.
UpdateRow(n, rowState) == execs' = [execs EXCEPT ![n] = rowState]

\* assertIntentSettled: what the intent's USER_OBLIGATION account nets to,
\* in units of the funded amount.  FUNDING credits it; RECOGNITION, REFUND and
\* SUSPENSE_MOVE each debit the whole amount.
Obligation ==
  (IF "FUNDING" \in ledger THEN 1 ELSE 0)
    - (IF "RECOGNITION" \in ledger THEN 1 ELSE 0)
    - (IF "REFUND" \in ledger THEN 1 ELSE 0)
    - (IF "SUSPENSE_MOVE" \in ledger THEN 1 ELSE 0)
=============================================================================
