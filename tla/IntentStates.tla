---------------------------- MODULE IntentStates ----------------------------
(***************************************************************************)
(* The consumer intent lifecycle: the states of an intent and the frozen   *)
(* adjacency map every state change is judged by                           *)
(* (packages/consumer-core/src/state.ts).                                  *)
(***************************************************************************)

\* The map TRANSITIONS: what may follow each state.
Successors ==
  [ CREATED           |-> {"DISCOVERING", "QUOTED", "FAILED_BEFORE_PAYMENT",
                           "CANCELLED", "EXPIRED"},
    DISCOVERING       |-> {"QUOTED", "FAILED_BEFORE_PAYMENT", "CANCELLED", "EXPIRED"},
    QUOTED            |-> {"POLICY_CHECKING", "EXPIRED", "CANCELLED",
                           "FAILED_BEFORE_PAYMENT"},
    POLICY_CHECKING   |-> {"BLOCKED", "AWAITING_APPROVAL", "APPROVED",
                           "FAILED_BEFORE_PAYMENT", "EXPIRED", "CANCELLED"},
    BLOCKED           |-> {},
    AWAITING_APPROVAL |-> {"APPROVED", "BLOCKED", "EXPIRED", "CANCELLED",
                           "FAILED_BEFORE_PAYMENT"},
    APPROVED          |-> {"AWAITING_FUNDING", "EXPIRED", "CANCELLED",
                           "FAILED_BEFORE_PAYMENT"},
    AWAITING_FUNDING  |-> {"FUNDED", "EXPIRED", "CANCELLED", "FAILED_BEFORE_PAYMENT"},
    FUNDED            |-> {"EXECUTION_QUEUED", "AWAITING_FUNDING",
                           "FAILED_BEFORE_PAYMENT", "REFUND_PENDING", "CANCELLED"},
    EXECUTION_QUEUED  |-> {"PROVIDER_PAYMENT_PENDING", "FAILED_BEFORE_PAYMENT",
                           "MANUAL_REVIEW"},
    PROVIDER_PAYMENT_PENDING
                      |-> {"PROVIDER_PAID", "FAILED_AFTER_PAYMENT", "MANUAL_REVIEW"},
    PROVIDER_PAID     |-> {"PROVIDER_ACKNOWLEDGED", "FAILED_AFTER_PAYMENT",
                           "MANUAL_REVIEW"},
    PROVIDER_ACKNOWLEDGED
                      |-> {"DELIVERY_PENDING", "DELIVERY_VERIFIED",
                           "FAILED_AFTER_PAYMENT", "MANUAL_REVIEW"},
    DELIVERY_PENDING  |-> {"DELIVERY_VERIFIED", "FAILED_AFTER_PAYMENT", "MANUAL_REVIEW"},
    DELIVERY_VERIFIED |-> {"COMPLETED", "MANUAL_REVIEW"},
    COMPLETED         |-> {},
    FAILED_BEFORE_PAYMENT
                      |-> {"REFUND_PENDING", "REFUNDED", "MANUAL_REVIEW"},
    FAILED_AFTER_PAYMENT
                      |-> {"MANUAL_REVIEW", "REFUND_PENDING"},
    REFUND_PENDING    |-> {"REFUNDED", "MANUAL_REVIEW"},
    REFUNDED          |-> {},
    MANUAL_REVIEW     |-> {"COMPLETED", "REFUND_PENDING", "REFUNDED",
                           "FAILED_AFTER_PAYMENT", "CANCELLED"},
    EXPIRED           |-> {},
    CANCELLED         |-> {} ]

States == DOMAIN Successors

\* canTransition: the one judge of an edge.
CanTransition(from, to) == to \in Successors[from]

\* EXPIRABLE_STATES: the states the sweeper may expire.
Expirable == {"CREATED", "DISCOVERING", "QUOTED", "POLICY_CHECKING",
              "AWAITING_APPROVAL", "APPROVED", "AWAITING_FUNDING"}

\* TERMINAL_STATES: no transition leaves these.
Terminal == {"COMPLETED", "BLOCKED", "REFUNDED", "EXPIRED", "CANCELLED"}
=============================================================================
