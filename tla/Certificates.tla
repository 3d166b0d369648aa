---------------------------- MODULE Certificates ----------------------------
(***************************************************************************)
(* A certificate from its lifecycle to the watch over it: a bundle that    *)
(* the structural gate accepts is entered in the index, with the transport *)
(* of its network, and its working directory is left; the days then pass.  *)
(***************************************************************************)
EXTENDS Evidence, Heartbeat

VARIABLE left  \* the working directory has been left

vars == <<evidenceVars, watchVars, left>>

Init == EvidenceInit /\ HeartbeatInit /\ left = FALSE

Work ==
    /\ ~left
    /\ EvidenceNext
    /\ UNCHANGED <<watchVars, left>>

\* By hand, as the index is kept; also without anything to publish.
Leave ==
    /\ ~left
    /\ writing = NoFile
    /\ \/ GateAccepts(bundle, archive) /\ AddEntry(bundle.network)
       \/ UNCHANGED watchVars
    /\ left' = TRUE
    /\ pc' = "done"
    /\ artifact' = NoFile /\ bundle' = NoFile /\ archive' = NoFile
    /\ issues' = 0 /\ seen' = [i \in {} |-> 0]
    /\ retried' = FALSE /\ resolved' = FALSE
    /\ UNCHANGED writing
    /\ results' = NoResults
    /\ ledger' = [ledger EXCEPT !.deposit = FALSE, !.nft = FALSE, !.premium = FALSE,
                    !.pool = 0, !.own = NoLoan, !.other = NoLoan]

Watch ==
    /\ left
    /\ HeartbeatNext
    /\ UNCHANGED <<evidenceVars, left>>

Next == Work \/ Leave \/ Watch

Spec == Init /\ [][Next]_vars

TypeOK == EvidenceTypeOK /\ HeartbeatTypeOK
=============================================================================
