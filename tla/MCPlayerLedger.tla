--------------------------- MODULE MCPlayerLedger ---------------------------
(* A small instance of PlayerLedger for TLC. *)
EXTENDS PlayerLedger

CONSTANTS custodial, external

Transfer(k, ps) == [kind |-> k, payers |-> ps, amount |-> 2]

\* USDC of one player; and another token, of two players in one transaction
MCTransfers == {Transfer("direct", {external}), Transfer("foreign", {custodial, external})}
=============================================================================
