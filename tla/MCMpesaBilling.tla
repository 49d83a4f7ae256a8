--------------------------- MODULE MCMpesaBilling ---------------------------
(* Two payments, a webhook and a reconciliation run, a plan the renewal job *)
(* selects and one it does not.                                             *)
EXTENDS MpesaBillingProperties, TLC

CONSTANTS starter, business

MCSymmetry == Permutations(Payments)
=============================================================================
