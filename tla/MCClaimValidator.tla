------------------------- MODULE MCClaimValidator -------------------------
(* A small instance of ClaimValidator for TLC. *)
EXTENDS ClaimValidator

Policy(taxon, readable, numeric, expiry, coverage, claimed, loanVault) ==
  [taxon |-> taxon, readable |-> readable, numeric |-> numeric, expiry |-> expiry,
   coverage |-> coverage, vault |-> "vault", claimed |-> claimed, loanVault |-> loanVault]

\* One policy of each way to go wrong, and one of each way to go right.
MCPolicies ==
  { Policy(TRUE, TRUE, TRUE, 2, 3, "vault", "vault"),
    Policy(TRUE, TRUE, TRUE, 1, 1, "vault", "vault"),
    Policy(TRUE, TRUE, TRUE, 2, 3, "vault", "elsewhere"),
    Policy(TRUE, TRUE, TRUE, 2, 3, "elsewhere", "vault"),
    Policy(TRUE, TRUE, TRUE, 2, 0, "vault", "vault"),
    Policy(TRUE, TRUE, FALSE, 2, 0, "vault", "vault"),
    Policy(TRUE, FALSE, TRUE, 2, 3, "vault", "vault"),
    Policy(FALSE, TRUE, TRUE, 2, 3, "vault", "vault") }

Ledger(time, premium) ==
  [time |-> time, holder |-> "claimant", premium |-> premium, flag |-> FALSE, gross |-> 2,
   cover |-> 1, usable |-> 3, eligible |-> [g \in Gates |-> TRUE]]

\* The loan falls default-ready during the call, or was before an unpaid policy's.
MCLedgers == {Ledger(0, TRUE), Ledger(1, FALSE)}

MCPoolLevels == {-1, 1, 2}
===========================================================================
