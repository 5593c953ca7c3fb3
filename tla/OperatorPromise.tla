--------------------------- MODULE OperatorPromise ---------------------------
(***************************************************************************)
(* What an escalation promises whoever asked for it: once asked, the       *)
(* operator's side settles on one answer, and never takes it back.  It is  *)
(* the operator ConsumerIntent takes for granted (AskOperator,             *)
(* OperatorAnswers).                                                       *)
(***************************************************************************)
VARIABLE operator

TypeOK == operator \in {"NONE", "PENDING", "APPROVED", "DENIED"}

Init == operator = "NONE"

Ask    == operator = "NONE" /\ operator' = "PENDING"
Answer == operator = "PENDING" /\ operator' \in {"APPROVED", "DENIED"}

Spec == Init /\ [][Ask \/ Answer]_operator
=============================================================================
