----------------------------- MODULE PoolHealth -----------------------------
(***************************************************************************)
(* PoolHealthMonitor of ward/pool.py over the premium payments of          *)
(* PremiumLedger: one process with its registry of policies, and a         *)
(* get_health call, which reads the account and then the payment history   *)
(* page by page, each request an await during which policies are bought,   *)
(* paid, registered and burned.                                            *)
(***************************************************************************)
EXTENDS PremiumLedger

CONSTANTS
  VaultOf,     \* the vault of each policy; all are one depositor's
  PageSize,    \* account_tx limit
  Accounts,    \* states of the pool's account: balance and owner count
  BaseReserve, OwnerReserve

Vaults == {VaultOf[p] : p \in Policies}

ASSUME PoolAssumption ==
  /\ DOMAIN VaultOf = Policies
  /\ PageSize \in Nat \ {0} /\ Accounts \subseteq [balance : Nat, owners : Nat]
  /\ BaseReserve \in Nat /\ OwnerReserve \in Nat

VARIABLES
  account,       \* external: the pool's balance and owner count
  registry,      \* keys of _coverage_registry
  vaultCoverage, \* _vault_coverage; 0 for no entry
  health         \* a get_health call, "summing", or the snapshot it returned, "taken"

vars == <<premiumVars, account, registry, vaultCoverage, health>>

NoHealth == [at |-> "none"]
Newest == -1  \* no marker yet

Init ==
  /\ PremiumInit
  /\ account \in Accounts
  /\ registry = {} /\ vaultCoverage = [v \in Vaults |-> 0]
  /\ health = NoHealth

----------------------------------------------------------------------------
(* Tiers and the minting gate.                                             *)

RiskTiers == <<"safest", "safe", "moderate", "elevated", "high">>
\* RISK_TIER_THRESHOLDS, in halves.
Thresholds == <<10, 6, 4, 3, 0>>

\* _classify_tier.  Without coverage the ratio is infinite.
RiskTier(usable, coverage) ==
  RiskTiers[Min({i \in 1 .. Len(RiskTiers) : 2 * usable >= Thresholds[i] * coverage})]

TierMintGates ==
  [starter    |-> {"safest", "safe", "moderate"},
   standard   |-> {"safest", "safe", "moderate", "elevated"},
   enterprise |-> {"safest", "safe", "moderate", "elevated"}]

IsMintingAllowed(snapshot, license) == snapshot.tier \in TierMintGates[license]

UsableDrops ==
  Max({0, account.balance - (BaseReserve + account.owners * OwnerReserve)})

----------------------------------------------------------------------------
(* The ledger, the registry and the process.                               *)

AccountMoves ==
  /\ account' \in Accounts
  /\ account' # account
  /\ UNCHANGED <<premiumVars, registry, vaultCoverage, health>>

\* register_policy, after the mint.
RegisterPolicy(p) ==
  /\ status[p] = "minted" /\ p \notin registry
  /\ registry' = registry \cup {p}
  /\ vaultCoverage' = [vaultCoverage EXCEPT ![VaultOf[p]] = @ + Cover[p]]
  /\ UNCHANGED <<premiumVars, account, health>>

\* Mutant: the vault keeps what the burned policy covered.
KeepVault(p) == vaultCoverage

\* The vault's entry is popped, and with it what other policies cover.
PopVault(p) == [vaultCoverage EXCEPT ![VaultOf[p]] = 0]

\* deregister_policy, after the burn.
DeregisterPolicy(p) ==
  /\ status[p] = "burned"
  /\ registry' = registry \ {p}
  /\ vaultCoverage' = PopVault(p)
  /\ UNCHANGED <<premiumVars, account, health>>

Restart ==
  /\ registry' = {} /\ vaultCoverage' = [v \in Vaults |-> 0]
  /\ health' = NoHealth
  /\ UNCHANGED <<premiumVars, account>>

----------------------------------------------------------------------------
(* get_health.                                                             *)

\* With an empty registry no policy is left out.
Known(p) == registry = {} \/ p \in registry

\* The policies this process knows of, if it also knows the one by which their payment
\* goes, which for a batch is the first.
Owed ==
  {p \in Policies : /\ Known(p)
                    /\ \E premium \in paid : p \in premium.for /\ Known(premium.first)}

\* AccountInfo is answered; the registry is read before the next await.  owed and sum
\* are history: what is owed, and the sum of all payments at the first page.
ReadAccount ==
  /\ health.at # "summing"
  /\ health' = [at |-> "summing", usable |-> UsableDrops, filter |-> registry,
                next |-> Newest, total |-> 0, sum |-> 0,
                owed |-> SumFunctionOnSet(Cover, Owed)]
  /\ UNCHANGED <<premiumVars, account, registry, vaultCoverage>>

Return(total, complete, sum) ==
  health' = [at |-> "taken", usable |-> health.usable, coverage |-> total,
             tier |-> RiskTier(health.usable, total),
             complete |-> complete, sum |-> sum, owed |-> health.owed]

\* Mutant: the marker's entry is read again.
PageFromAgain(from) == {i \in 1 .. from + 1 : i > from - PageSize /\ i <= Len(payments)}

\* A page of account_tx, newest first from the marker.
PageFrom(from) == {i \in 1 .. from : i > from - PageSize}

\* What is paid meanwhile is newer than the marker.
ReadPage ==
  /\ health.at = "summing"
  /\ LET first == health.next = Newest
         from  == IF first THEN Len(payments) ELSE health.next
         total == health.total + Counted(PageFrom(from), health.filter)
         sum   == IF first THEN Counted(1 .. from, health.filter) ELSE health.sum
     IN  IF from <= PageSize THEN Return(total, TRUE, sum)
         ELSE health' = [health EXCEPT !.next = from - PageSize, !.total = total, !.sum = sum]
  /\ UNCHANGED <<premiumVars, account, registry, vaultCoverage>>

\* A request that fails ends the sum with what it has.
PageFails ==
  /\ health.at = "summing"
  /\ Return(health.total, FALSE, health.sum)
  /\ UNCHANGED <<premiumVars, account, registry, vaultCoverage>>

GetHealth == ReadAccount \/ ReadPage \/ PageFails

Environment ==
  \/ Purchases /\ UNCHANGED <<account, registry, vaultCoverage, health>>
  \/ AccountMoves

Next ==
  \/ Environment \/ GetHealth \/ Restart
  \/ \E p \in Policies : RegisterPolicy(p) \/ DeregisterPolicy(p)

Spec == Init /\ [][Next]_vars

----------------------------------------------------------------------------
(* Properties.                                                             *)

\* Every variable has its type; no vault is credited with more than the coverage of the
\* policies that are registered for it; and of the purchases paid with the id of their
\* first NFT, only those of a single policy have the payment that a claim asks for.
TypeOK ==
  /\ status \in [Policies -> {"new", "built", "minted", "burned"}]
  /\ \A premium \in premiums : premium.for \in Batch /\ premium.first \in premium.for
  /\ \A premium \in paid :
       /\ premium.for \in Batch /\ premium.first \in premium.for
       /\ \A p \in premium.for : HasMatchingPremium(p) <=> premium.for = {p}
  /\ \A i \in 1 .. Len(payments) : payments[i].id \in Policies \cup {Placeholder}
  /\ account \in Accounts
  /\ registry \subseteq Policies
  /\ \A v \in Vaults :
       vaultCoverage[v] \in
         0 .. SumFunctionOnSet(Cover, {p \in registry : VaultOf[p] = v})
  /\ health.at \in {"none", "summing", "taken"}

\* A snapshot counts every premium that was paid when its first page was read exactly
\* once, whatever is paid between the pages, and no more than that if a page failed
\* (the marker loop of get_active_coverage_drops).
SummedOnce ==
  health.at = "taken" =>
    /\ health.coverage <= health.sum
    /\ health.complete => health.coverage = health.sum

\* A licence may mint on a snapshot only if the pool then held the ratio of its tier
\* over the coverage of every policy that it knew of and that was paid for when the
\* call began, each policy of a batch included, although registry, payments and balance
\* are read at different moments.  What it does not say: once the first policy of a
\* batch is deregistered, or was never registered, the payment is filtered out and the
\* other policies of the batch, live and paid for, count for nothing.
GateBacked ==
  health.at = "taken" /\ health.complete =>
    /\ IsMintingAllowed(health, "starter") => 2 * health.usable >= 4 * health.owed
    /\ \A license \in {"standard", "enterprise"} :
         IsMintingAllowed(health, license) => 2 * health.usable >= 3 * health.owed
=============================================================================
