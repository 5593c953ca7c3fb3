--------------------------- MODULE PurchasePromise ---------------------------
(***************************************************************************)
(* What the Consumer Pack promises about the money of one intent, with no  *)
(* requests, ticks, rows or crashes in sight: the caller's funding is held *)
(* once and leaves in one direction only, the provider is paid at most     *)
(* once and never after the intent gave up, and the words of the intent    *)
(* never contradict its money.                                             *)
(***************************************************************************)
EXTENDS Naturals

VARIABLES
  money,     \* the caller's funding: where it is
  payments,  \* how often the provider was paid
  verdict    \* what the intent says of itself

vars == <<money, payments, verdict>>

TypeOK ==
  /\ money \in {"none", "held", "recognised", "refunding", "parked"}
  /\ payments \in 0..1
  /\ verdict \in {"open", "completed", "aborted", "review"}

Init == money = "none" /\ payments = 0 /\ verdict = "open"

Fund ==
  /\ money = "none"
  /\ money' = "held"
  /\ UNCHANGED <<payments, verdict>>

\* The provider is paid from held funding; a payment already on its way when
\* the intent went to a human may still land.
Pay ==
  /\ payments = 0
  /\ money \in {"held", "parked"}
  /\ verdict \in {"open", "review"}
  /\ payments' = 1
  /\ UNCHANGED <<money, verdict>>

\* Giving up is for an intent whose provider was never paid ...
Abort ==
  /\ verdict = "open"
  /\ payments = 0
  /\ verdict' = "aborted"
  /\ UNCHANGED <<money, payments>>

\* ... and only giving up gives the money back.
Refund ==
  /\ verdict = "aborted"
  /\ money = "held"
  /\ money' = "refunding"
  /\ UNCHANGED <<payments, verdict>>

Escalate ==
  /\ verdict = "open"
  /\ verdict' = "review"
  /\ UNCHANGED <<money, payments>>

Park ==
  /\ verdict = "review"
  /\ money = "held"
  /\ money' = "parked"
  /\ UNCHANGED <<payments, verdict>>

\* Untch keeps the money for a purchase it paid for, and then closes it.
Recognise ==
  /\ verdict = "open"
  /\ payments = 1
  /\ money = "held"
  /\ money' = "recognised"
  /\ UNCHANGED <<payments, verdict>>

Complete ==
  /\ verdict = "open"
  /\ money = "recognised"
  /\ verdict' = "completed"
  /\ UNCHANGED <<money, payments>>

Next == Fund \/ Pay \/ Abort \/ Refund \/ Escalate \/ Park \/ Recognise \/ Complete

Spec == Init /\ [][Next]_vars
=============================================================================
