-------------------------- MODULE MCVaultMonitor --------------------------
(* A small instance of VaultMonitor for TLC. *)
EXTENDS VaultMonitor
===========================================================================
