-------------------------- MODULE ClaimValidator --------------------------
(***************************************************************************)
(* ClaimValidator.validate_claim of ward/validator.py: the nine steps of a *)
(* claim, each reading a ledger that moves on meanwhile.                   *)
(*                                                                         *)
(* A call is one coroutine.  Every await is a step of its own: the three   *)
(* coroutines under asyncio.gather interleave with each other and with the *)
(* ledger, and no request names a ledger index.  What follows the premium  *)
(* read has no await in it, so steps 3 to 9 are one step of the model.     *)
(* Any request may fail; the code turns each failure into a value or a     *)
(* rejection, and so does the model.                                       *)
(***************************************************************************)
EXTENDS Integers, FiniteSets, FiniteSetsExt

CONSTANTS
  Gates,       \* the eligibility gates switched on: "credential", "domain"
  Policies,    \* URIs and call arguments to try
  Ledgers,     \* ledger states a call may start from
  PoolLevels,  \* usable pool balances the ledger may move to
  MaxTime,     \* bound on ledger close time
  MaxMoves,    \* bound on ledger moves
  MaxSlots,    \* CLAIM_RATE_LIMIT_MAX
  ReadyAt, DrawLimit, RatioNum, RatioDen,
  ReadsMayFail \* whether requests may fail

LedgerType ==
  [time : 0 .. MaxTime, holder : {"claimant", "other", "burned"}, premium : BOOLEAN,
   flag : BOOLEAN, gross : Nat, cover : Nat, usable : Int, eligible : [Gates -> BOOLEAN]]

ASSUME ClaimAssumption ==
  /\ Gates \subseteq {"credential", "domain"}
  /\ MaxTime \in Nat /\ MaxMoves \in Nat /\ MaxSlots \in Nat \ {0}
  /\ ReadyAt \in Nat \ {0} /\ DrawLimit \in Nat
  /\ RatioNum \in Nat /\ RatioDen \in Nat \ {0} /\ RatioNum >= RatioDen
  /\ ReadsMayFail \in BOOLEAN
  /\ Ledgers \subseteq LedgerType /\ PoolLevels \subseteq Int
  /\ \A p \in Policies : p.expiry \in Int /\ p.coverage \in Int

VARIABLES
  ledger,   \* external: the validated ledger
  moves,    \* ledger moves so far
  slots,    \* what the rate limiter has left for this NFT
  policy,   \* the NFT's taxon and URI, and the vault and loan the call names
  pc,       \* where the call is
  gate,     \* the eligibility gates it has still to pass
  nft,      \* step 1: "unread", "missing", "wrong_taxon", "found"
  loan,     \* step 4: the coroutine's place, then its result
  pool,     \* _fetch_pool_info: its result
  terms,    \* step 2: the ledger time read, and whether a premium was found
  verdict,  \* the ValidationResult: approved or not, payout, steps_passed
  seen      \* history: ledger states since the call began

vars == <<ledger, moves, slots, policy, pc, gate, nft, loan, pool, terms,
          verdict, seen>>
reads == <<gate, nft, loan, pool, terms>>

NoLoan == [at |-> "loan", gross |-> 0, isDefault |-> FALSE, loss |-> 0, blind |-> FALSE]
NoTime == -1
NoTerms == [time |-> NoTime, premium |-> FALSE]
NoPool == [read |-> FALSE, ok |-> FALSE, usable |-> 0]
Open == [kind |-> "open", payout |-> 0, steps |-> 0]

Init ==
  /\ ledger \in Ledgers
  /\ moves = 0
  /\ slots \in 0 .. MaxSlots
  /\ policy \in Policies
  /\ pc = "idle"
  /\ gate = {} /\ nft = "unread" /\ loan = NoLoan /\ pool = NoPool /\ terms = NoTerms
  /\ verdict = [kind |-> "none", payout |-> 0, steps |-> 0]
  /\ seen = {}

----------------------------------------------------------------------------
(* The ledger.                                                             *)

Draw(gross, cover) == Min({DrawLimit, gross, cover})

LedgerMoves(new) ==
  /\ moves < MaxMoves
  /\ moves' = moves + 1
  /\ ledger' = new
  /\ seen' = IF pc = "idle" THEN seen ELSE seen \cup {new}
  /\ UNCHANGED <<slots, policy, pc, verdict, reads>>

Close == ledger.time < MaxTime /\ LedgerMoves([ledger EXCEPT !.time = @ + 1])

\* The holder sells the policy NFT, or burns it as it may at any time.
NftMoves ==
  /\ ledger.holder # "burned"
  /\ \E h \in {"claimant", "other", "burned"} \ {ledger.holder} :
       LedgerMoves([ledger EXCEPT !.holder = h])

\* A matching Payment enters the pool's history.  The check looks at no result
\* code, so a payment that failed with a tec result counts as well.
PremiumArrives == ~ledger.premium /\ LedgerMoves([ledger EXCEPT !.premium = TRUE])

\* tfLoanDefault clears the outstanding value and draws on the cover, at once.
LoanDefaults ==
  /\ ~ledger.flag /\ ledger.time >= ReadyAt
  /\ LedgerMoves([ledger EXCEPT !.flag = TRUE, !.gross = 0,
                                !.cover = @ - Draw(ledger.gross, ledger.cover)])

LoanRepaid == ~ledger.flag /\ ledger.gross > 0 /\ LedgerMoves([ledger EXCEPT !.gross = 0])

PoolMoves ==
  \E u \in PoolLevels \ {ledger.usable} : LedgerMoves([ledger EXCEPT !.usable = u])

EligibilityMoves ==
  \E g \in Gates : LedgerMoves([ledger EXCEPT !.eligible[g] = ~@])

\* A stamp of this NFT leaves the limiter's window.
SlotExpires ==
  /\ slots < MaxSlots
  /\ slots' = slots + 1
  /\ UNCHANGED <<ledger, moves, policy, pc, verdict, seen, reads>>

----------------------------------------------------------------------------
(* The call.                                                               *)

Begin ==
  /\ pc = "idle"
  /\ pc' = "gates"
  /\ gate' = Gates
  /\ nft' = "unread" /\ loan' = NoLoan /\ pool' = NoPool /\ terms' = NoTerms
  /\ verdict' = Open
  /\ seen' = {ledger}
  /\ UNCHANGED <<ledger, moves, slots, policy>>

Return(kind, payout, steps) ==
  /\ verdict' = [kind |-> kind, payout |-> payout, steps |-> steps]
  /\ pc' = "idle"

\* Mutant: steps_passed is the step less one, also for a claim no step has looked at.
RejectBeforeSteps(step) == Return("rejected", 0, step - 1)

\* ValidationResult(approved=False) with steps_passed = step - 1, or 0 for the gates.
Reject(step) == Return("rejected", 0, IF step = 0 THEN 0 ELSE step - 1)

\* The credential gate runs before the domain gate.  Either rejects on a negative
\* answer, and the LedgerError of a failed request ends the call the same way.
NextGate == IF "credential" \in gate THEN "credential" ELSE "domain"

EligibilityGate ==
  /\ pc = "gates"
  /\ IF gate = {} THEN pc' = "gather" /\ UNCHANGED <<gate, verdict>>
     ELSE \/ /\ ledger.eligible[NextGate]
             /\ gate' = gate \ {NextGate}
             /\ UNCHANGED <<pc, verdict>>
          \/ /\ ~ledger.eligible[NextGate] \/ ReadsMayFail
             /\ Reject(0)
             /\ UNCHANGED gate
  /\ UNCHANGED <<ledger, moves, slots, policy, seen, nft, loan, pool, terms>>

Step1VerifyNftExists ==
  /\ pc = "gather" /\ nft = "unread"
  /\ \/ nft' = IF ledger.holder # "claimant" THEN "missing"
               ELSE IF policy.taxon THEN "found" ELSE "wrong_taxon"
     \/ ReadsMayFail /\ nft' = "missing"
  /\ UNCHANGED <<ledger, moves, slots, policy, pc, verdict, seen, gate, loan, pool, terms>>

NoDefault == [NoLoan EXCEPT !.at = "done"]

\* Mutant: the gross loss, whatever the cover.
NetLossGross(gross, cover) == gross

NetLoss(gross, cover) == gross - Draw(gross, cover)
DefaultReady(time) == time >= ReadyAt

Step4Read(next) ==
  /\ pc = "gather"
  /\ loan' = next
  /\ UNCHANGED <<ledger, moves, slots, policy, pc, verdict, seen, gate, nft, pool, terms>>

\* The loan object: its flag decides whether the ledger time is asked for.
Step4ReadLoan ==
  /\ loan.at = "loan"
  /\ \/ Step4Read([loan EXCEPT !.gross = ledger.gross, !.isDefault = ledger.flag,
                               !.at = IF ledger.flag THEN "broker" ELSE "time"])
     \/ ReadsMayFail /\ Step4Read(NoDefault)

\* Not flagged: default-ready counts, if the grace period is over and value is owed.
Step4ReadTime ==
  /\ loan.at = "time"
  /\ \/ Step4Read(IF DefaultReady(ledger.time) /\ loan.gross > 0
                  THEN [loan EXCEPT !.at = "broker"] ELSE NoDefault)
     \/ ReadsMayFail /\ Step4Read(NoDefault)

\* The broker's cover nets the loss; a failed request is taken as no cover at all.
Step4ReadBroker ==
  /\ loan.at = "broker"
  /\ \/ Step4Read([loan EXCEPT !.at = "done", !.isDefault = TRUE,
                               !.loss = NetLoss(loan.gross, ledger.cover)])
     \/ /\ ReadsMayFail
        /\ Step4Read([loan EXCEPT !.at = "done", !.isDefault = TRUE,
                                  !.loss = loan.gross, !.blind = TRUE])

FetchPoolInfo ==
  /\ pc = "gather" /\ ~pool.read
  /\ \/ pool' = [read |-> TRUE, ok |-> TRUE, usable |-> ledger.usable]
     \/ ReadsMayFail /\ pool' = [read |-> TRUE, ok |-> FALSE, usable |-> 0]
  /\ UNCHANGED <<ledger, moves, slots, policy, pc, verdict, seen, gate, nft, loan, terms>>

\* gather returns when all three have; step 1 and the URI are judged at once.
GatherReturns ==
  /\ pc = "gather" /\ nft # "unread" /\ loan.at = "done" /\ pool.read
  /\ IF nft # "found" THEN Reject(1)
     ELSE IF ~policy.readable THEN Reject(2)
     ELSE pc' = "expiry" /\ UNCHANGED verdict
  /\ UNCHANGED <<ledger, moves, slots, policy, seen, reads>>

\* int() of a coverage field that is no number raises through validate_claim.
Step2CheckExpiry ==
  /\ pc = "expiry"
  /\ \/ /\ terms' = [terms EXCEPT !.time = ledger.time]
        /\ IF policy.expiry < ledger.time THEN Reject(2)
           ELSE IF ~policy.numeric THEN Return("raised", 0, 0)
           ELSE IF policy.coverage <= 0 THEN Reject(2)
           ELSE pc' = "premium" /\ UNCHANGED verdict
     \/ ReadsMayFail /\ Reject(2) /\ UNCHANGED terms
  /\ UNCHANGED <<ledger, moves, slots, policy, seen, gate, nft, loan, pool>>

Payout == Min({loan.loss, policy.coverage})

\* Step 6 lets an overdrawn pool through: _step6_check_coverage_breach marks it
\* breached, and the caller rejects only an error that is not marked.
Step6Passes == pool.ok /\ (pool.usable < 0 \/ pool.usable >= loan.loss)

Solvent == pool.usable >= Payout /\ pool.usable * RatioDen >= RatioNum * Payout

\* The step that rejects, of those that follow the premium check, or 0 for none
\* of steps 3 to 8.  Steps 7 and 8 look at step 1's read again: they cannot fail.
FailsAt(step) ==
  CASE step = 3 -> policy.vault # policy.claimed
    [] step = 4 -> ~loan.isDefault
    [] step = 5 -> loan.loss <= 0
    [] step = 6 -> ~Step6Passes
    [] step \in {7, 8} -> nft # "found"
    [] OTHER -> FALSE

\* Mutant: the last step that fails is the one named.
LastFailure ==
  LET failed == {step \in 3 .. 8 : FailsAt(step)}
  IN  IF failed = {} THEN 0 ELSE Max(failed)

FirstFailure ==
  LET failed == {step \in 3 .. 8 : FailsAt(step)}
  IN  IF failed = {} THEN 0 ELSE Min(failed)

\* Mutant: the limiter is asked before the steps are judged.
DecideLimiterFirst ==
  IF slots = 0 THEN Reject(9) /\ UNCHANGED slots
  ELSE /\ slots' = slots - 1
       /\ IF FirstFailure # 0 THEN Reject(FirstFailure)
          ELSE IF ~Solvent THEN Reject(9) ELSE Return("approved", Payout, 9)

\* Steps 3 to 8, then the limiter, then solvency: a claim that fails only on
\* solvency has used up one of its slots.
Decide ==
  IF FirstFailure # 0 THEN Reject(FirstFailure) /\ UNCHANGED slots
  ELSE IF slots = 0 THEN Reject(9) /\ UNCHANGED slots
  ELSE /\ slots' = slots - 1
       /\ IF Solvent THEN Return("approved", Payout, 9) ELSE Reject(9)

Step2VerifyPremium ==
  /\ pc = "premium"
  /\ \/ ledger.premium /\ terms' = [terms EXCEPT !.premium = TRUE] /\ Decide
     \/ (~ledger.premium \/ ReadsMayFail) /\ Reject(2) /\ UNCHANGED <<slots, terms>>
  /\ UNCHANGED <<ledger, moves, policy, seen, gate, nft, loan, pool>>

Environment ==
  \/ Close \/ NftMoves \/ PremiumArrives \/ LoanDefaults \/ LoanRepaid
  \/ PoolMoves \/ EligibilityMoves \/ SlotExpires

Step4 == Step4ReadLoan \/ Step4ReadTime \/ Step4ReadBroker

Call ==
  \/ EligibilityGate \/ Step1VerifyNftExists \/ Step4 \/ FetchPoolInfo
  \/ GatherReturns \/ Step2CheckExpiry \/ Step2VerifyPremium

Next == Environment \/ Begin \/ Call

Spec == Init /\ [][Next]_vars

----------------------------------------------------------------------------
(* Properties.                                                             *)

\* Every variable has its type; a call is open exactly while its coroutine runs.
TypeOK ==
  /\ ledger \in LedgerType
  /\ moves \in 0 .. MaxMoves /\ slots \in 0 .. MaxSlots /\ policy \in Policies
  /\ pc \in {"idle", "gates", "gather", "expiry", "premium"}
  /\ gate \subseteq Gates /\ nft \in {"unread", "missing", "wrong_taxon", "found"}
  /\ loan \in [at : {"loan", "time", "broker", "done"}, gross : Nat, isDefault : BOOLEAN,
               loss : Nat, blind : BOOLEAN]
  /\ pool \in [read : BOOLEAN, ok : BOOLEAN, usable : Int]
  /\ terms \in [time : 0 .. MaxTime \cup {NoTime}, premium : BOOLEAN]
  /\ verdict \in [kind : {"none", "open", "approved", "rejected", "raised"},
                  payout : Nat, steps : 0 .. 9]
  /\ pc = "idle" <=> verdict.kind # "open"

\* What a call returns is justified by ledger states of that call: every
\* condition of an approval held at some moment since it began, and the payout is
\* at most the policy's cover and the net loss those moments give (validate_claim
\* as a whole).  Except, by an action of the promise named for it, after a failed
\* LoanBroker request: then the payout is at most the gross loss.
Promise ==
  INSTANCE ClaimPromise WITH
    verdict <- [kind |-> verdict.kind, payout |-> verdict.payout], blind <- loan.blind
PromiseKept == Promise!PSpec

\* The nine rules as ward/conformance_rules.py publishes them, for what the call
\* has read when it returns; nothing is said of what it did with its readings.
Rule(n) ==
  CASE n \in {1, 7, 8} -> nft = "found"
    [] n = 2 -> /\ policy.readable /\ policy.numeric /\ policy.coverage > 0
                /\ terms'.time # NoTime /\ terms'.time <= policy.expiry
                /\ terms'.premium
    [] n = 3 -> policy.vault = policy.claimed
    [] n = 4 -> loan.isDefault /\ loan.loss > 0
    [] n = 5 -> loan.loss > 0
    [] n = 6 -> pool.ok /\ pool.usable >= loan.loss
    [] n = 9 -> /\ slots > 0
                /\ pool.usable * RatioDen >= RatioNum * Min({loan.loss, policy.coverage})

\* Where the code departs from them: it rejects a default without a net loss at
\* step 5, and an overdrawn pool at step 9.
Overdrawn == pool.ok /\ pool.usable < 0
Departs(n) == \/ n = 4 /\ loan.isDefault /\ loan.loss = 0
              \/ n = 6 /\ Overdrawn

\* The verdict names the first published rule that fails.  A claim is approved only
\* when all nine hold; it is rejected after k steps only when rules 1 to k hold and
\* rule k + 1 does not, the two departures aside; and it raises only when the first
\* to fail is rule 2.  (The eligibility gates come before the nine rules.)
ConformanceAgrees ==
  [][pc \notin {"idle", "gates"} /\ pc' = "idle" =>
       /\ verdict'.kind = "approved" => \A n \in 1 .. 9 : Rule(n)
       /\ verdict'.kind = "rejected" =>
            /\ \A n \in 1 .. verdict'.steps : Rule(n) \/ Departs(n)
            /\ ~Rule(verdict'.steps + 1)
       /\ verdict'.kind = "raised" => Rule(1) /\ ~Rule(2)]_vars

\* A slot of the limiter is used exactly by the claims that pass steps 1 to 8 and
\* find one left: whatever a claim is rejected for earlier, it may be made again.
SlotsForValidClaims ==
  [][/\ slots' < slots => slots' = slots - 1 /\ verdict'.kind # "open" /\ verdict'.steps >= 8
     /\ pc = "premium" /\ pc' = "idle" /\ slots > 0 /\ verdict'.steps >= 8 => slots' < slots]_vars

\* "Ward pays on the NET loss, not the gross loan": the loan and its broker are
\* read one after the other, so the payout should be at most the net loss of some
\* one ledger of the call.
PaysNetLoss ==
  verdict.kind = "approved" =>
    \E l \in seen : verdict.payout <= l.gross - Draw(l.gross, l.cover)
============================================================================
