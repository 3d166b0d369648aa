---- MODULE MCMutualPool ----
(* Three institutions with contributions of different sizes. *)
EXTENDS MutualPool
====
