------------------------ MODULE EscalationProperties ------------------------
(***************************************************************************)
(* One escalation is decided once, by the operator or by the clock, and    *)
(* everybody who asks hears that decision, with one exception: the bridge  *)
(* to the consumer intents, which hears nothing.                           *)
(***************************************************************************)
EXTENDS Escalation

\* Answers on several channels, the timeout job, the sweep, late polls and the
\* end of a slow fan-out race on one row: its status never goes back, a decision
\* is never replaced, and nothing is confirmed after it (transition's guard).
Rank == [s \in {"NONE"} \cup Open \cup Decided |->
           CASE s = "NONE"                    -> 0
             [] s = "PENDING"                 -> 1
             [] s = "NOTIFY_FAILED"           -> 2
             [] s = "AWAITING_SECOND_CHANNEL" -> 3
             [] OTHER                         -> 4]

OnlyForward ==
  [][/\ status' # status => Rank[status'] > Rank[status]
     /\ status \in Decided => confirmed' = confirmed
     /\ owner # Nobody => owner' = owner]_vars

\* An approved escalation was approved by the operator, for this escalation, on
\* every channel it counts, none of them capped, and on two where two are needed:
\* not by a first channel that answers twice, nor by what two concurrent first
\* answers add up to (handleInbound).
ApprovedByConsent ==
  status = "APPROVED" =>
    /\ \A ch \in confirmed : ch \in consent /\ ch \notin capped
    /\ Cardinality(confirmed) >= IF needsTwo THEN 2 ELSE 1

\* A guard that heard APPROVED may rely on it, and no guard hears DENIED while
\* the operator still has time and has not said no (getState).
HeardMatchesRow ==
  /\ "APPROVED" \in heard => status = "APPROVED"
  /\ "DENIED" \in heard => status \in {"DENIED", "EXPIRED"} \/ clock > Deadline

\* To whoever asked, the escalation is an operator that answers once.
Operator == IF status = "NONE" THEN "NONE"
            ELSE IF status = "APPROVED" THEN "APPROVED"
            ELSE IF status \in Decided THEN "DENIED" ELSE "PENDING"

Promise == INSTANCE OperatorPromise WITH operator <- Operator

KeepsOperatorPromise == Promise!Spec

\* Unanswered, undelivered, with the asker dead and the job lost, an escalation
\* still ends, and a guard that keeps polling hears how (sweepExpired, getState).
GuardHearsDecision == status # "NONE" ~> heard # {}

-----------------------------------------------------------------------------
\* REFUTED.  bridges.ts: "EXPIRED, DENIED and NOTIFY_FAILED all resolve to
\* DENIED": a consumer intent that keeps polling hears of a denial.
IntentHearsDenial == status \in {"DENIED", "EXPIRED"} ~> relayed = "DENIED"
=============================================================================
