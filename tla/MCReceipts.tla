----------------------------- MODULE MCReceipts -----------------------------
(***************************************************************************)
(* Model-checking instances of ReceiptPipeline.                            *)
(***************************************************************************)
EXTENDS ReceiptProperties
=============================================================================
