---------------------------- MODULE GrantPromise ----------------------------
(***************************************************************************)
(* What a policy promises about authority to spend, with no locks,         *)
(* transactions, fees or clocks in sight: above the escalation threshold   *)
(* authority is born from a yes and from nothing else, once; a yes can be  *)
(* given only to a question that was paid for and is still open; a paid    *)
(* requote takes its predecessor's question and authority in one step; and *)
(* no grant takes live authority past the limit.                           *)
(***************************************************************************)
CONSTANTS
  Intents,
  Escalating,  \* those a person is asked about
  Allowed      \* the sets of them that may be live together

VARIABLES
  question,   \* where the question about an intent stands
  authority   \* its right to spend

vars == <<question, authority>>

TypeOK ==
  /\ question \in [Intents -> {"none", "unpaid", "open", "yes", "no", "closed"}]
  /\ authority \in [Intents -> {"none", "live", "gone"}]

Init ==
  /\ question = [i \in Intents |-> "none"]
  /\ authority = [i \in Intents |-> "none"]

Live == {i \in Intents : authority[i] = "live"}

\* Authority begins once, within the limit.
Begins(i) ==
  /\ authority[i] = "none" /\ Live \cup {i} \in Allowed
  /\ authority' = [authority EXCEPT ![i] = "live"]

Becomes(i, old, new) == question[i] \in old /\ question' = [question EXCEPT ![i] = new]

Put(i)    == i \in Escalating /\ Becomes(i, {"none"}, "unpaid") /\ UNCHANGED authority
Refuse(i) == Becomes(i, {"open"}, "no") /\ UNCHANGED authority
Agree(i)  == Becomes(i, {"open"}, "yes") /\ Begins(i)
Grant(i)  == i \notin Escalating /\ Begins(i) /\ UNCHANGED question
Lapse(i)  == i \in Live /\ authority' = [authority EXCEPT ![i] = "gone"] /\ UNCHANGED question

\* Questions close unanswered, several of them at once.
Close(unanswered) ==
  /\ question' = [i \in Intents |-> IF i \in unanswered THEN "closed" ELSE question[i]]
  /\ UNCHANGED authority

\* A question opens once it is paid for, in place of the one it was put to replace.
Open(i, retired) ==
  /\ question[i] = "unpaid"
  /\ \A j \in retired : question[j] \in {"unpaid", "open", "yes"}
  /\ question' = [k \in Intents |-> IF k = i THEN "open"
                                    ELSE IF k \in retired THEN "closed" ELSE question[k]]
  /\ authority' = [k \in Intents |-> IF k \in retired \cap Live THEN "gone" ELSE authority[k]]

Next ==
  \/ \E i \in Intents :
       \/ Put(i) \/ Refuse(i) \/ Agree(i) \/ Grant(i) \/ Lapse(i)
       \/ Open(i, {}) \/ \E j \in Intents \ {i} : Open(i, {j})
  \/ \E unanswered \in SUBSET {i \in Intents : question[i] \in {"unpaid", "open"}} : Close(unanswered)

Spec == Init /\ [][Next]_vars
=============================================================================
