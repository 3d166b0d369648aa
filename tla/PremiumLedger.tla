--------------------------- MODULE PremiumLedger ---------------------------
(***************************************************************************)
(* The purchase of policies (ward/client.py) and the premium payments by   *)
(* which ward/coverage.py finds them again in a pool's history.            *)
(*                                                                         *)
(* WardClient builds an NFTokenMint and a premium Payment; the institution *)
(* submits them.  The id of the NFT is known only once it is minted, so    *)
(* the memo that is to name it is built with a placeholder, which the      *)
(* institution replaces or forgets.                                        *)
(***************************************************************************)
EXTENDS Integers, Sequences, FiniteSets, FiniteSetsExt, Functions

CONSTANTS
  Policies,   \* purchases of coverage, each one NFT
  Cover,      \* coverage_drops of each policy
  MaxPayments \* bound on payments in the pool's history

Placeholder == "pending_institution_signature"
Batch == {S \in SUBSET Policies : S # {}}

ASSUME PremiumAssumption ==
  /\ IsFiniteSet(Policies) /\ Placeholder \notin Policies
  /\ Cover \in [Policies -> Nat \ {0}]
  /\ MaxPayments \in Nat

VARIABLES
  status,    \* each policy: "new", "built", "minted", "burned"
  premiums,  \* premium payments built and not submitted
  payments,  \* external: the pool's payment history, oldest first
  paid       \* history: premiums paid with a memo that names the first NFT

premiumVars == <<status, premiums, payments, paid>>

\* A premium payment: the policies it is for, the one its memo is to name, and the
\* coverage the memo states.
Premium(S, first, cover) == [for |-> S, first |-> first, cover |-> cover]
Memo(id, cover) == [id |-> id, cover |-> cover]

PremiumInit ==
  /\ status = [p \in Policies |-> "new"]
  /\ premiums = {} /\ payments = <<>> /\ paid = {}

\* purchase_coverage.
PurchaseCoverage(p) ==
  /\ status[p] = "new"
  /\ status' = [status EXCEPT ![p] = "built"]
  /\ premiums' = premiums \cup {Premium({p}, p, Cover[p])}
  /\ UNCHANGED <<payments, paid>>

\* purchase_multi_vault_coverage: one policy a vault, all of the same coverage, and one
\* payment, whose memo names the first and states the coverage of all.
PurchaseMultiVaultCoverage(S, first) ==
  /\ first \in S /\ Cardinality(S) > 1
  /\ \A p \in S : status[p] = "new" /\ Cover[p] = Cover[first]
  /\ status' = [p \in Policies |-> IF p \in S THEN "built" ELSE status[p]]
  /\ premiums' = premiums \cup {Premium(S, first, Cover[first] * Cardinality(S))}
  /\ UNCHANGED <<payments, paid>>

SubmitMint(p) ==
  /\ status[p] = "built"
  /\ status' = [status EXCEPT ![p] = "minted"]
  /\ UNCHANGED <<premiums, payments, paid>>

Burn(p) ==
  /\ status[p] = "minted"
  /\ status' = [status EXCEPT ![p] = "burned"]
  /\ UNCHANGED <<premiums, payments, paid>>

Arrives(memo) ==
  /\ Len(payments) < MaxPayments
  /\ payments' = Append(payments, memo)

\* The institution submits the payment as built, or with the id of the minted NFT.
SubmitPremium(premium) ==
  /\ premium \in premiums
  /\ premiums' = premiums \ {premium}
  /\ \/ Arrives(Memo(Placeholder, premium.cover)) /\ UNCHANGED paid
     \/ /\ status[premium.first] \in {"minted", "burned"}
        /\ Arrives(Memo(premium.first, premium.cover))
        /\ paid' = paid \cup {premium}
  /\ UNCHANGED status

\* Any other payment to the pool; _extract_coverage_from_tx returns None for it.
OtherPayment ==
  /\ Arrives(Memo(Placeholder, 0))
  /\ UNCHANGED <<status, premiums, paid>>

Purchases ==
  \/ \E p \in Policies : PurchaseCoverage(p) \/ SubmitMint(p) \/ Burn(p)
  \/ \E S \in Batch, first \in Policies : PurchaseMultiVaultCoverage(S, first)
  \/ \E premium \in premiums : SubmitPremium(premium)
  \/ OtherPayment

----------------------------------------------------------------------------
(* ward/coverage.py.                                                       *)

\* The payments with a premium memo: _extract_coverage_from_tx asks for the length of
\* an NFT id, which the placeholder has not.
IsPremium(i) == payments[i].id # Placeholder

\* has_matching_premium_payment, for a payment of the claimant's.
HasMatchingPremium(p) ==
  \E i \in 1 .. Len(payments) : payments[i] = Memo(p, Cover[p])

CoverStated == [i \in 1 .. Len(payments) |-> payments[i].cover]

\* Mutant: an empty registry filters everything out.
CountedOfRegistered(page, filter) ==
  SumFunctionOnSet(CoverStated, {i \in page : IsPremium(i) /\ payments[i].id \in filter})

\* What get_active_coverage_drops adds for the payments of a page: those of
\* the policies in the filter, or all when there is no filter.
Counted(page, filter) ==
  SumFunctionOnSet(CoverStated,
                   {i \in page : IsPremium(i) /\ (filter = {} \/ payments[i].id \in filter)})
============================================================================
