-------------------------- MODULE MCInvoiceLedger ---------------------------
(* Instances of InvoiceLedger for TLC: the .cfg files hold the constants. *)
EXTENDS InvoiceLedger
=============================================================================
