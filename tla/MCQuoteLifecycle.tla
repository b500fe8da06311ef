-------------------------- MODULE MCQuoteLifecycle --------------------------
(* An instance of QuoteLifecycle for TLC. *)
EXTENDS QuoteLifecycle
=============================================================================
