----------------------------- MODULE MCMoneyCalls -----------------------------
(* Small instances of MoneyCalls for TLC. *)
EXTENDS MoneyCalls
=============================================================================
