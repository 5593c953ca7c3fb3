---------------------------- MODULE MCEscalation ----------------------------
(***************************************************************************)
(* Model-checking instances of Escalation.                                 *)
(***************************************************************************)
EXTENDS EscalationProperties

MCCaps == {{}, {"telegram"}}
=============================================================================
