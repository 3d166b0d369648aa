--------------------------- MODULE MCPoolHealth ---------------------------
(* A small instance of PoolHealth for TLC. *)
EXTENDS PoolHealth, TLC

MCCover == [p \in Policies |-> 2]
MCVaultOf == [p \in Policies |-> "vault"]
\* Nothing usable, one and a half times and twice one policy's coverage, with an owned
\* object, and twice that of both.
MCAccounts ==
  {[balance |-> 1, owners |-> 0], [balance |-> 4, owners |-> 0],
   [balance |-> 6, owners |-> 1], [balance |-> 9, owners |-> 0]}
Symmetry == Permutations(Policies)
===========================================================================
