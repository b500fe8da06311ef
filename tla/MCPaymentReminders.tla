------------------------- MODULE MCPaymentReminders -------------------------
(* An instance of PaymentReminders for TLC. *)
EXTENDS PaymentReminders, TLC

MCSymmetry == Permutations(Reminders)
=============================================================================
