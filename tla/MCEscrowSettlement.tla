------------------------ MODULE MCEscrowSettlement ------------------------
(* A small instance of EscrowSettlement for TLC. *)
EXTENDS EscrowSettlement
===========================================================================
