--------------------------- MODULE ValidatorProofs ---------------------------
(***************************************************************************)
(* What a call of validate_claim returns, for any gates, policies, ledger  *)
(* states, ratio and number of moves: it implements ClaimPromise, agrees   *)
(* with the published rules, and uses a slot only for a good claim.        *)
(***************************************************************************)
EXTENDS ClaimValidator, TLAPS

-----------------------------------------------------------------------------
(* Least elements                                                          *)

LEMMA MinOfTwo ==
    ASSUME NEW a \in Int, NEW b \in Int
    PROVE  Min({a, b}) \in {a, b} /\ Min({a, b}) <= a /\ Min({a, b}) <= b
<1>1. \E x \in {a, b} : \A y \in {a, b} : x <= y
  OBVIOUS
<1> QED
  BY <1>1 DEF Min

LEMMA MinOfThree ==
    ASSUME NEW a \in Int, NEW b \in Int, NEW c \in Int
    PROVE  LET m == Min({a, b, c})
           IN  m \in {a, b, c} /\ m <= a /\ m <= b /\ m <= c
<1>1. \E x \in {a, b, c} : \A y \in {a, b, c} : x <= y
  OBVIOUS
<1> QED
  BY <1>1 DEF Min

\* The draw is at most the value and at most the cover (LoanManage).
LEMMA DrawBounds ==
    ASSUME NEW gross \in Nat, NEW cover \in Nat
    PROVE  Draw(gross, cover) \in Nat /\ Draw(gross, cover) <= gross
                                      /\ Draw(gross, cover) <= cover
<1>1. DrawLimit \in Nat
  BY ClaimAssumption
<1> QED
  BY <1>1, MinOfThree DEF Draw

LEMMA DrawPromised ==
    ASSUME NEW gross \in Nat, NEW cover \in Nat
    PROVE  Promise!Draw(gross, cover) = Draw(gross, cover)
<1>1. DrawLimit \in Nat
  BY ClaimAssumption
<1>2. /\ Draw(gross, cover) \in {DrawLimit, gross, cover}
      /\ Draw(gross, cover) <= DrawLimit
      /\ Draw(gross, cover) <= gross /\ Draw(gross, cover) <= cover
  <2>1. DrawLimit \in Int /\ gross \in Int /\ cover \in Int
    BY <1>1
  <2> DEFINE m == Min({DrawLimit, gross, cover})
  <2>2. m \in {DrawLimit, gross, cover} /\ m <= DrawLimit /\ m <= gross /\ m <= cover
    BY <2>1, MinOfThree
  <2> QED
    BY <2>2 DEF Draw
<1> QED
  BY <1>1, <1>2 DEF Promise!Draw, Promise!Least

\* The step named is the first that fails, and none before it does.
LEMMA FirstFailureFirst ==
    /\ FirstFailure = 0 => \A n \in 3 .. 8 : ~FailsAt(n)
    /\ FirstFailure # 0 => /\ FirstFailure \in 3 .. 8
                           /\ FailsAt(FirstFailure)
                           /\ \A n \in 3 .. 8 : n < FirstFailure => ~FailsAt(n)
<1> DEFINE failed == {step \in 3 .. 8 : FailsAt(step)}
<1>1. CASE failed = {}
  BY <1>1 DEF FirstFailure
<1>2. CASE failed # {}
  <2>1. failed \subseteq 3 .. 8
    OBVIOUS
  <2>2. \E x \in failed : \A y \in failed : x <= y
    <3> HIDE DEF failed
    <3>1. \A n \in failed : n \in Int /\ (n = 3 \/ n = 4 \/ n = 5 \/ n = 6 \/ n = 7 \/ n = 8)
      BY <2>1
    <3>2. CASE 3 \in failed
      BY <3>1, <3>2
    <3>3. CASE 3 \notin failed /\ 4 \in failed
      BY <3>1, <3>3
    <3>4. CASE {3, 4} \cap failed = {} /\ 5 \in failed
      BY <3>1, <3>4
    <3>5. CASE {3, 4, 5} \cap failed = {} /\ 6 \in failed
      BY <3>1, <3>5
    <3>6. CASE {3, 4, 5, 6} \cap failed = {}
      BY <1>2, <3>1, <3>6
    <3> QED
      BY <3>2, <3>3, <3>4, <3>5, <3>6
  <2>3. Min(failed) \in failed /\ \A y \in failed : Min(failed) <= y
    <3> HIDE DEF failed
    <3> QED
      BY <2>2 DEF Min
  <2>4. FirstFailure = Min(failed)
    BY <1>2 DEF FirstFailure
  <2> QED
    BY <2>3, <2>4
<1> QED
  BY <1>1, <1>2

-----------------------------------------------------------------------------
(* The invariant: what the call has read was so at a moment it has seen.   *)

LoanSeen ==
    /\ loan.at # "done" => ~loan.blind
    /\ loan.blind => ReadsMayFail
    /\ loan.at = "time" => \E l \in seen : loan.gross = l.gross
    /\ loan.at = "broker" =>
         \E l, t \in seen : loan.gross = l.gross /\ Promise!InDefault(l, t.time)
    /\ loan.at = "done" /\ loan.isDefault =>
         \E l, t, b \in seen :
           /\ Promise!InDefault(l, t.time)
           /\ loan.loss = IF loan.blind THEN l.gross ELSE l.gross - Draw(l.gross, b.cover)

CallSeen ==
    /\ ledger \in seen
    /\ nft = "found" => \E l \in seen : l.holder = "claimant"
    /\ LoanSeen
    /\ pool.ok => \E l \in seen : pool.usable = l.usable

\* What is settled of rules 1 and 2 where the call stands: the premium is the last
\* thing it reads.
Judged ==
    /\ pc # "idle" => ~terms.premium
    /\ pc \in {"expiry", "premium"} =>
         nft = "found" /\ policy.readable /\ loan.at = "done" /\ pool.read
    /\ pc = "premium" =>
         /\ policy.coverage > 0 /\ policy.numeric
         /\ terms.time # NoTime /\ terms.time <= policy.expiry
         /\ \E l \in seen : l.time <= policy.expiry

IInv ==
    /\ TypeOK
    /\ seen \subseteq LedgerType
    /\ pc # "idle" => CallSeen
    /\ Judged

LEMMA InitInv == Init => IInv
<1> SUFFICES ASSUME Init PROVE IInv
  OBVIOUS
<1> USE ClaimAssumption
<1>1. TypeOK
  BY DEF Init, TypeOK, NoLoan, NoPool, NoTerms
<1> QED
  BY <1>1 DEF Init, IInv, Judged

LEMMA MoveKeeps ==
    ASSUME IInv, NEW new \in LedgerType, LedgerMoves(new)
    PROVE  IInv'
<1>1. TypeOK'
  BY ClaimAssumption DEF IInv, TypeOK, LedgerMoves, reads
<1>2. seen' \subseteq LedgerType /\ seen \subseteq seen'
  BY DEF IInv, LedgerMoves
<1>3. UNCHANGED <<policy, pc, nft, loan, pool, terms>>
  BY DEF LedgerMoves, reads
<1>4. pc # "idle" => ledger' \in seen'
  BY DEF LedgerMoves
<1>5. pc' # "idle" => CallSeen'
  BY <1>2, <1>3, <1>4 DEF IInv, CallSeen, LoanSeen, Promise!InDefault
<1>6. Judged'
  BY <1>2, <1>3 DEF IInv, Judged
<1> QED
  BY <1>1, <1>2, <1>5, <1>6 DEF IInv

\* Every move of the environment is one to a ledger of the right type.
LEMMA MovesTyped ==
    ASSUME IInv,
           Close \/ NftMoves \/ PremiumArrives \/ LoanDefaults \/ LoanRepaid
             \/ PoolMoves \/ EligibilityMoves
    PROVE  \E new \in LedgerType : LedgerMoves(new)
<1>1. ledger \in LedgerType
  BY DEF IInv, TypeOK
<1>2. CASE Close
  BY <1>1, <1>2, ClaimAssumption DEF Close, LedgerType
<1>3. CASE NftMoves
  BY <1>1, <1>3 DEF NftMoves, LedgerType
<1>4. CASE PremiumArrives
  BY <1>1, <1>4 DEF PremiumArrives, LedgerType
<1>5. CASE LoanDefaults
  <2>1. /\ ledger.gross \in Nat /\ ledger.cover \in Nat
        /\ ledger.cover - Draw(ledger.gross, ledger.cover) \in Nat
    <3>1. ledger.gross \in Nat /\ ledger.cover \in Nat
      BY <1>1 DEF LedgerType
    <3>2. /\ Draw(ledger.gross, ledger.cover) \in Nat
          /\ Draw(ledger.gross, ledger.cover) <= ledger.cover
      BY <3>1, DrawBounds
    <3> QED
      BY <3>1, <3>2
  <2> QED
    BY <1>1, <1>5, <2>1 DEF LoanDefaults, LedgerType
<1>6. CASE LoanRepaid
  BY <1>1, <1>6 DEF LoanRepaid, LedgerType
<1>7. CASE PoolMoves
  BY <1>1, <1>7, ClaimAssumption DEF PoolMoves, LedgerType
<1>8. CASE EligibilityMoves
  BY <1>1, <1>8 DEF EligibilityMoves, LedgerType
<1> QED
  BY <1>2, <1>3, <1>4, <1>5, <1>6, <1>7, <1>8

LEMMA SlotKeeps == ASSUME IInv, SlotExpires PROVE IInv'
BY ClaimAssumption
   DEF IInv, SlotExpires, TypeOK, CallSeen, LoanSeen, Judged, Promise!InDefault, reads

LEMMA BeginKeeps == ASSUME IInv, Begin PROVE IInv'
<1>1. TypeOK'
  BY DEF IInv, TypeOK, Begin, NoLoan, NoPool, NoTerms, Open
<1> QED
  BY <1>1 DEF IInv, TypeOK, CallSeen, LoanSeen, Judged, Begin, NoLoan, NoPool, NoTerms

TermsType == [time : 0 .. MaxTime \cup {NoTime}, premium : BOOLEAN]

\* A return leaves what the call has read alone, the last terms aside, and the
\* call does not look at it again.
LEMMA ReturnKeeps ==
    ASSUME IInv, NEW kind \in {"approved", "rejected", "raised"}, NEW payout \in Nat,
           NEW steps \in 0 .. 9, Return(kind, payout, steps),
           slots' \in 0 .. MaxSlots, terms' \in TermsType,
           UNCHANGED <<ledger, moves, policy, seen, gate, nft, loan, pool>>
    PROVE  IInv'
<1>1. TypeOK'
  BY DEF IInv, TypeOK, Return, TermsType
<1> QED
  BY <1>1 DEF IInv, Judged, Return

LEMMA RejectKeeps ==
    ASSUME IInv, NEW step \in 0 .. 9, Reject(step),
           slots' \in 0 .. MaxSlots, terms' \in TermsType,
           UNCHANGED <<ledger, moves, policy, seen, gate, nft, loan, pool>>
    PROVE  IInv'
<1>1. (IF step = 0 THEN 0 ELSE step - 1) \in 0 .. 9
  OBVIOUS
<1> QED
  BY <1>1, ReturnKeeps DEF Reject

LEMMA GateKeeps == ASSUME IInv, EligibilityGate PROVE IInv'
<1>1. CASE pc' = pc \/ pc' = "gather"
  <2>1. TypeOK'
    BY <1>1 DEF IInv, TypeOK, EligibilityGate, Reject, Return
  <2> QED
    BY <1>1, <2>1 DEF IInv, CallSeen, LoanSeen, Judged, EligibilityGate, Promise!InDefault
<1>2. CASE Reject(0) /\ UNCHANGED gate
  <2>1. gate' = gate /\ terms' \in TermsType
    BY <1>2 DEF EligibilityGate, IInv, TypeOK, TermsType
  <2> QED
    BY <1>2, <2>1, RejectKeeps DEF EligibilityGate, IInv, TypeOK
<1> QED
  BY <1>1, <1>2 DEF EligibilityGate

LEMMA Step1Keeps == ASSUME IInv, Step1VerifyNftExists PROVE IInv'
<1>1. TypeOK'
  BY DEF IInv, TypeOK, Step1VerifyNftExists
<1>2. CallSeen'
  <2>1. nft' = "found" => \E l \in seen : l.holder = "claimant"
    BY DEF IInv, CallSeen, Step1VerifyNftExists
  <2> QED
    BY <2>1 DEF IInv, CallSeen, LoanSeen, Step1VerifyNftExists, Promise!InDefault
<1> QED
  BY <1>1, <1>2 DEF IInv, Judged, Step1VerifyNftExists

\* Step 4 has read a ledger there was, or one of its requests has failed.
LEMMA Step4Sound ==
    ASSUME IInv, Step4
    PROVE  /\ loan' \in [at : {"loan", "time", "broker", "done"}, gross : Nat,
                         isDefault : BOOLEAN, loss : Nat, blind : BOOLEAN]
           /\ LoanSeen'
           /\ pc = "gather" /\ loan.at # "done"
           /\ UNCHANGED <<ledger, moves, slots, policy, pc, verdict, seen, gate, nft, pool,
                      terms>>
<1>1. /\ pc = "gather" /\ loan.at # "done"
      /\ UNCHANGED <<ledger, moves, slots, policy, pc, verdict, seen, gate, nft, pool,
                      terms>>
  BY DEF Step4, Step4ReadLoan, Step4ReadTime, Step4ReadBroker, Step4Read
<1>2. /\ ledger \in seen /\ LoanSeen
      /\ ledger \in LedgerType
      /\ loan \in [at : {"loan", "time", "broker", "done"}, gross : Nat,
                   isDefault : BOOLEAN, loss : Nat, blind : BOOLEAN]
  BY <1>1 DEF IInv, CallSeen, TypeOK
<1>3. CASE loan' = NoDefault
  BY <1>1, <1>3 DEF NoDefault, NoLoan, LoanSeen
<1>4. CASE /\ loan.at = "loan"
           /\ loan' = [loan EXCEPT !.gross = ledger.gross, !.isDefault = ledger.flag,
                                   !.at = IF ledger.flag THEN "broker" ELSE "time"]
  BY <1>1, <1>2, <1>4 DEF LoanSeen, LedgerType, Promise!InDefault
<1>5. CASE /\ loan.at = "time" /\ DefaultReady(ledger.time) /\ loan.gross > 0
           /\ loan' = [loan EXCEPT !.at = "broker"]
  <2>1. PICK l \in seen : loan.gross = l.gross
    BY <1>2, <1>5 DEF LoanSeen
  <2>2. Promise!InDefault(l, ledger.time)
    BY <1>5, <2>1 DEF DefaultReady, Promise!InDefault
  <2> QED
    BY <1>1, <1>2, <1>5, <2>1, <2>2 DEF LoanSeen
<1>6. ASSUME loan.at = "broker",
             NEW loss \in Nat, NEW blind \in BOOLEAN, blind => ReadsMayFail,
             loss = IF blind THEN loan.gross ELSE NetLoss(loan.gross, ledger.cover),
             loan' = [loan EXCEPT !.at = "done", !.isDefault = TRUE, !.loss = loss,
                                  !.blind = blind]
      PROVE  /\ loan' \in [at : {"loan", "time", "broker", "done"}, gross : Nat,
                           isDefault : BOOLEAN, loss : Nat, blind : BOOLEAN]
             /\ LoanSeen'
  <2>1. PICK l, t \in seen : loan.gross = l.gross /\ Promise!InDefault(l, t.time)
    BY <1>2, <1>6 DEF LoanSeen
  <2>2. /\ loan'.at = "done" /\ loan'.loss = loss /\ loan'.blind = blind
        /\ loan' \in [at : {"loan", "time", "broker", "done"}, gross : Nat,
                      isDefault : BOOLEAN, loss : Nat, blind : BOOLEAN]
    BY <1>2, <1>6
  <2>3. loss = IF blind THEN l.gross ELSE l.gross - Draw(l.gross, ledger.cover)
    BY <1>6, <2>1 DEF NetLoss
  <2>4. \E k, m, b \in seen :
          /\ Promise!InDefault(k, m.time)
          /\ loss = IF blind THEN k.gross ELSE k.gross - Draw(k.gross, b.cover)
    BY <1>2, <2>1, <2>3
  <2>5. loan'.blind => ReadsMayFail
    BY <1>6, <2>2
  <2> QED
    BY <1>1, <2>2, <2>4, <2>5 DEF LoanSeen, Promise!InDefault
<1>7. CASE Step4ReadBroker
  <2>1. NetLoss(loan.gross, ledger.cover) \in Nat
    <3>1. loan.gross \in Nat /\ ledger.cover \in Nat
      BY <1>2 DEF LedgerType
    <3>2. /\ Draw(loan.gross, ledger.cover) \in Nat
          /\ Draw(loan.gross, ledger.cover) <= loan.gross
      BY <3>1, DrawBounds
    <3> QED
      BY <3>1, <3>2 DEF NetLoss
  <2>2. CASE loan' = [loan EXCEPT !.at = "done", !.isDefault = TRUE,
                                  !.loss = NetLoss(loan.gross, ledger.cover)]
    <3>1. ~loan.blind /\ loan.at = "broker"
      BY <1>2, <1>7 DEF LoanSeen, Step4ReadBroker
    <3>2. loan' = [loan EXCEPT !.at = "done", !.isDefault = TRUE,
                               !.loss = NetLoss(loan.gross, ledger.cover), !.blind = FALSE]
      BY <1>2, <2>2, <3>1
    <3> QED
      BY <1>1, <1>6, <2>1, <3>1, <3>2
  <2>3. CASE loan' = [loan EXCEPT !.at = "done", !.isDefault = TRUE,
                                  !.loss = loan.gross, !.blind = TRUE]
    <3>1. loan.at = "broker" /\ loan.gross \in Nat
      BY <1>2, <1>7 DEF Step4ReadBroker
    <3>2. ReadsMayFail
      <4>1. ~loan.blind
        BY <1>2, <3>1 DEF LoanSeen
      <4>2. loan'.blind /\ loan'.loss = loan.gross
        BY <1>2, <2>3
      <4>3. CASE loan' = [loan EXCEPT !.at = "done", !.isDefault = TRUE,
                                      !.loss = NetLoss(loan.gross, ledger.cover)]
        BY <1>2, <4>1, <4>2, <4>3
      <4> QED
        BY <1>7, <4>3 DEF Step4ReadBroker, Step4Read
    <3> QED
      BY <1>1, <1>6, <2>3, <3>1, <3>2
  <2> QED
    BY <1>7, <2>2, <2>3 DEF Step4ReadBroker, Step4Read
<1>8. CASE Step4ReadLoan
  BY <1>1, <1>3, <1>4, <1>8 DEF Step4ReadLoan, Step4Read, NoDefault, NoLoan
<1>9. CASE Step4ReadTime
  BY <1>1, <1>3, <1>5, <1>9 DEF Step4ReadTime, Step4Read, NoDefault, NoLoan
<1> QED
  BY <1>1, <1>7, <1>8, <1>9 DEF Step4

LEMMA Step4Keeps == ASSUME IInv, Step4 PROVE IInv'
<1>1. /\ LoanSeen' /\ pc = "gather"
      /\ UNCHANGED <<ledger, moves, slots, policy, pc, verdict, seen, gate, nft, pool,
                      terms>>
  BY Step4Sound
<1>2. TypeOK'
  BY <1>1, Step4Sound DEF IInv, TypeOK
<1> QED
  BY <1>1, <1>2 DEF IInv, CallSeen, Judged

LEMMA FetchKeeps == ASSUME IInv, FetchPoolInfo PROVE IInv'
<1>1. TypeOK'
  <2>1. ledger.usable \in Int
    BY DEF IInv, TypeOK, LedgerType
  <2>2. pool' \in [read : BOOLEAN, ok : BOOLEAN, usable : Int]
    <3>1. CASE pool' = [read |-> TRUE, ok |-> TRUE, usable |-> ledger.usable]
      BY <2>1, <3>1
    <3>2. CASE pool' = [read |-> TRUE, ok |-> FALSE, usable |-> 0]
      BY <3>2
    <3> QED
      BY <3>1, <3>2 DEF FetchPoolInfo
  <2> QED
    BY <2>2 DEF IInv, TypeOK, FetchPoolInfo
<1>2. CallSeen'
  <2>1. pool'.ok => \E l \in seen : pool'.usable = l.usable
    BY DEF IInv, CallSeen, FetchPoolInfo
  <2> QED
    BY <2>1 DEF IInv, CallSeen, LoanSeen, FetchPoolInfo, Promise!InDefault
<1> QED
  BY <1>1, <1>2 DEF IInv, Judged, FetchPoolInfo

LEMMA GatherKeeps == ASSUME IInv, GatherReturns PROVE IInv'
<1>1. CASE Reject(1) \/ Reject(2)
  <2>1. terms' \in TermsType
    BY DEF GatherReturns, IInv, TypeOK, TermsType, reads
  <2> QED
    BY <1>1, <2>1, RejectKeeps DEF GatherReturns, IInv, TypeOK, reads
<1>2. CASE pc' = "expiry" /\ UNCHANGED verdict /\ nft = "found" /\ policy.readable
  <2>1. UNCHANGED <<ledger, moves, slots, policy, seen, gate, nft, loan, pool, terms>>
    BY DEF GatherReturns, reads
  <2>2. pc = "gather" /\ loan.at = "done" /\ pool.read
    BY DEF GatherReturns
  <2>3. TypeOK'
    BY <1>2, <2>1, <2>2 DEF IInv, TypeOK
  <2> QED
    BY <1>2, <2>1, <2>2, <2>3 DEF IInv, CallSeen, LoanSeen, Judged, Promise!InDefault
<1> QED
  BY <1>1, <1>2 DEF GatherReturns

LEMMA ExpiryKeeps == ASSUME IInv, Step2CheckExpiry PROVE IInv'
<1>1. /\ pc = "expiry" /\ terms \in TermsType /\ ledger.time \in 0 .. MaxTime
      /\ UNCHANGED <<ledger, moves, slots, policy, seen, gate, nft, loan, pool>>
  BY DEF Step2CheckExpiry, IInv, TypeOK, LedgerType, TermsType
<1>2. /\ terms' \in TermsType /\ terms'.premium = terms.premium
      /\ ~(Reject(2) /\ UNCHANGED terms) => terms'.time = ledger.time
  BY <1>1 DEF Step2CheckExpiry, TermsType
<1>3. CASE Reject(2)
  BY <1>1, <1>2, <1>3, RejectKeeps DEF IInv, TypeOK
<1>4. CASE Return("raised", 0, 0)
  BY <1>1, <1>2, <1>4, ReturnKeeps DEF IInv, TypeOK
<1>5. CASE /\ ~(policy.expiry < ledger.time) /\ policy.numeric
           /\ ~(policy.coverage <= 0) /\ pc' = "premium" /\ UNCHANGED verdict
  <2>1. TypeOK'
    BY <1>1, <1>2, <1>5 DEF IInv, TypeOK, TermsType
  <2>2. terms'.time = ledger.time
    BY <1>1, <1>2, <1>5 DEF Reject, Return
  <2>3. /\ ledger.time <= policy.expiry /\ policy.coverage > 0
        /\ terms'.time # NoTime /\ terms'.time <= policy.expiry
    <3>1. ledger.time \in Nat /\ policy.expiry \in Int /\ policy.coverage \in Int
      BY <1>1, ClaimAssumption DEF IInv, TypeOK
    <3> QED
      BY <1>5, <2>2, <3>1 DEF NoTime
  <2>4. CallSeen'
    BY <1>1 DEF IInv, CallSeen, LoanSeen, Promise!InDefault
  <2>5. Judged'
    BY <1>1, <1>2, <1>5, <2>3 DEF IInv, Judged, CallSeen
  <2> QED
    BY <1>1, <2>1, <2>4, <2>5 DEF IInv
<1> QED
  BY <1>3, <1>4, <1>5 DEF Step2CheckExpiry

\* The payout is the lesser of the loss and the policy's cover.
LEMMA PayoutBounds ==
    ASSUME IInv, pc = "premium"
    PROVE  /\ Payout \in Nat /\ Payout <= loan.loss /\ Payout <= policy.coverage
           /\ loan.loss > 0 => Payout > 0
<1>1. loan.loss \in Nat /\ policy.coverage \in Int /\ policy.coverage > 0
  BY ClaimAssumption DEF IInv, TypeOK, Judged
<1>2. /\ Payout \in {loan.loss, policy.coverage}
      /\ Payout <= loan.loss /\ Payout <= policy.coverage
  <2>1. loan.loss \in Int
    BY <1>1
  <2> QED
    BY <1>1, <2>1, MinOfTwo DEF Payout
<1> QED
  BY <1>1, <1>2

\* A decision is a rejection by a step, or an approval of a claim that no step
\* fails and that the pool can bear.
LEMMA Decided ==
    ASSUME IInv, pc = "premium", Decide
    PROVE  \/ FirstFailure # 0 /\ Reject(FirstFailure) /\ slots' = slots
           \/ FirstFailure = 0 /\ slots = 0 /\ Reject(9) /\ slots' = slots
           \/ /\ FirstFailure = 0 /\ slots > 0 /\ slots' = slots - 1
              /\ \/ Solvent /\ Return("approved", Payout, 9)
                 \/ ~Solvent /\ Reject(9)
BY DEF Decide, IInv, TypeOK

LEMMA PremiumKeeps == ASSUME IInv, Step2VerifyPremium PROVE IInv'
<1>1. /\ pc = "premium" /\ UNCHANGED <<ledger, moves, policy, seen, gate, nft, loan, pool>>
      /\ terms' \in TermsType
  BY DEF Step2VerifyPremium, IInv, TypeOK, TermsType
<1>2. slots \in 0 .. MaxSlots /\ MaxSlots \in Nat
  BY ClaimAssumption DEF IInv, TypeOK
<1>3. CASE Reject(2) /\ UNCHANGED slots
  BY <1>1, <1>2, <1>3, RejectKeeps
<1>4. CASE Decide
  <2>1. slots' \in 0 .. MaxSlots
    BY <1>1, <1>2, <1>4, Decided
  <2>2. CASE FirstFailure # 0 /\ Reject(FirstFailure)
    BY <1>1, <2>1, <2>2, FirstFailureFirst, RejectKeeps
  <2>3. CASE Reject(9)
    BY <1>1, <2>1, <2>3, RejectKeeps
  <2>4. CASE Return("approved", Payout, 9)
    BY <1>1, <2>1, <2>4, PayoutBounds, ReturnKeeps
  <2> QED
    BY <1>1, <1>4, <2>2, <2>3, <2>4, Decided
<1> QED
  BY <1>3, <1>4 DEF Step2VerifyPremium

LEMMA NextInv == IInv /\ [Next]_vars => IInv'
<1> SUFFICES ASSUME IInv, [Next]_vars PROVE IInv'
  OBVIOUS
<1>1. CASE Environment
  BY <1>1, MovesTyped, MoveKeeps, SlotKeeps DEF Environment
<1>2. CASE Begin
  BY <1>2, BeginKeeps
<1>3. CASE Call
  BY <1>3, GateKeeps, Step1Keeps, Step4Keeps, FetchKeeps, GatherKeeps, ExpiryKeeps,
     PremiumKeeps DEF Call
<1>4. CASE UNCHANGED vars
  BY <1>4 DEF vars, reads, IInv, TypeOK, CallSeen, LoanSeen, Judged, Promise!InDefault
<1> QED
  BY <1>1, <1>2, <1>3, <1>4 DEF Next

THEOREM Invariance == Spec => []IInv
<1> QED
  BY InitInv, NextInv, PTL DEF Spec

\* Type correctness of a call; it is open exactly while its coroutine runs.
THEOREM TypeCorrect == Spec => []TypeOK
<1>1. IInv => TypeOK
  BY DEF IInv
<1> QED
  BY <1>1, Invariance, PTL

-----------------------------------------------------------------------------
(* The call implements its promise.                                        *)

\* A claim that no step fails and that the pool can bear is due; it is paid on the
\* net loss, or on the gross loss when the broker was not read.
LEMMA ApprovalJustified ==
    ASSUME IInv, pc = "premium", ledger.premium, FirstFailure = 0, Solvent
    PROVE  /\ Promise!Due(Payout)
           /\ ~loan.blind => Promise!LossSeen(Payout)
           /\ loan.blind => ReadsMayFail /\ Promise!GrossSeen(Payout)
<1>1. \A n \in 3 .. 8 : ~FailsAt(n)
  BY FirstFailureFirst
<1>2. /\ policy.vault = policy.claimed /\ loan.isDefault
      /\ loan.loss > 0 /\ Step6Passes
  <2>1. ~FailsAt(3) /\ ~FailsAt(4) /\ ~FailsAt(5) /\ ~FailsAt(6)
    BY <1>1
  <2>2. loan.loss \in Nat
    BY DEF IInv, TypeOK
  <2> QED
    BY <2>1, <2>2 DEF FailsAt
<1>3. CallSeen /\ Judged /\ seen \subseteq LedgerType
  BY DEF IInv
<1>4. /\ Payout \in Nat /\ Payout > 0
      /\ Payout <= loan.loss /\ Payout <= policy.coverage
  BY <1>2, PayoutBounds
<1>5. /\ \E l \in seen : l.holder = "claimant"
      /\ \E l \in seen : l.premium
      /\ \E l \in seen : l.time <= policy.expiry
  BY <1>3 DEF CallSeen, Judged
<1>6. /\ ~loan.blind => Promise!LossSeen(Payout)
      /\ loan.blind => ReadsMayFail /\ Promise!GrossSeen(Payout)
  <2>1. PICK l, t, b \in seen :
          /\ Promise!InDefault(l, t.time)
          /\ loan.loss = IF loan.blind THEN l.gross ELSE l.gross - Draw(l.gross, b.cover)
    BY <1>2, <1>3 DEF CallSeen, Judged, LoanSeen
  <2>2. l.gross \in Nat /\ b.cover \in Nat
    BY <1>3 DEF LedgerType
  <2>3. Promise!Draw(l.gross, b.cover) = Draw(l.gross, b.cover)
    BY <2>2, DrawPromised
  <2>4. Payout <= IF loan.blind THEN l.gross ELSE l.gross - Promise!Draw(l.gross, b.cover)
    BY <1>4, <2>1, <2>3
  <2>5. loan.blind => ReadsMayFail
    BY <1>3 DEF CallSeen, LoanSeen
  <2> QED
    BY <2>1, <2>4, <2>5 DEF Promise!LossSeen, Promise!GrossSeen
<1>7. Promise!Backed(Payout)
  <2>1. PICK l \in seen : pool.usable = l.usable
    BY <1>2, <1>3 DEF CallSeen, Step6Passes
  <2> QED
    BY <2>1 DEF Solvent, Promise!Backed
<1> QED
  BY <1>2, <1>4, <1>5, <1>6, <1>7 DEF Promise!Due

LEMMA InitPromised == Init => Promise!PInit
BY DEF Init, Promise!PInit, NoLoan

\* A step that neither opens nor closes a call: the ledger moves and is seen, or
\* the call reads it.
LEMMA ReadPromised ==
    ASSUME IInv, UNCHANGED <<ledger, seen, verdict, policy>>, pc # "idle",
           loan.blind => loan'.blind
    PROVE  Promise!PMove
<1>1. ledger \in seen /\ verdict.kind = "open"
  BY DEF IInv, CallSeen, TypeOK
<1> QED
  BY <1>1 DEF Promise!PMove

LEMMA RejectPromised ==
    ASSUME IInv, pc # "idle", NEW step \in 0 .. 9, Reject(step),
           UNCHANGED <<ledger, policy, seen, loan>>
    PROVE  Promise!PReject
<1>1. verdict.kind = "open"
  BY DEF IInv, TypeOK
<1> QED
  BY <1>1 DEF Reject, Return, Promise!PReject

LEMMA CallPromised ==
    ASSUME IInv, Call
    PROVE  \/ Promise!PMove \/ Promise!PReject \/ Promise!PApprove
           \/ ReadsMayFail /\ Promise!PApproveBlind
<1>1. CASE EligibilityGate
  <2>1. CASE Reject(0) /\ UNCHANGED gate
    BY <1>1, <2>1, RejectPromised DEF EligibilityGate
  <2>2. CASE UNCHANGED verdict
    BY <1>1, <2>2, ReadPromised DEF EligibilityGate
  <2> QED
    BY <1>1, <2>1, <2>2 DEF EligibilityGate
<1>2. CASE Step1VerifyNftExists
  BY <1>2, ReadPromised DEF Step1VerifyNftExists
<1>3. CASE Step4
  <2>1. ~loan.blind /\ UNCHANGED <<ledger, seen, verdict, policy>> /\ pc # "idle"
    BY <1>3, Step4Sound DEF IInv, CallSeen, LoanSeen
  <2> QED
    BY <2>1, ReadPromised
<1>4. CASE FetchPoolInfo
  BY <1>4, ReadPromised DEF FetchPoolInfo
<1>5. CASE GatherReturns
  <2>1. CASE Reject(1) \/ Reject(2)
    BY <1>5, <2>1, RejectPromised DEF GatherReturns, reads
  <2>2. CASE UNCHANGED verdict
    BY <1>5, <2>2, ReadPromised DEF GatherReturns, reads
  <2> QED
    BY <1>5, <2>1, <2>2 DEF GatherReturns
<1>6. CASE Step2CheckExpiry
  <2>1. CASE Reject(2)
    BY <1>6, <2>1, RejectPromised DEF Step2CheckExpiry
  <2>2. CASE Return("raised", 0, 0)
    <3>1. verdict.kind = "open"
      BY <1>6 DEF IInv, TypeOK, Step2CheckExpiry
    <3> QED
      BY <1>6, <2>2, <3>1 DEF Return, Promise!PReject, Step2CheckExpiry
  <2>3. CASE UNCHANGED verdict
    BY <1>6, <2>3, ReadPromised DEF Step2CheckExpiry
  <2> QED
    BY <1>6, <2>1, <2>2, <2>3 DEF Step2CheckExpiry
<1>7. CASE Step2VerifyPremium
  <2>1. pc = "premium" /\ UNCHANGED <<ledger, moves, policy, seen, gate, nft, loan, pool>>
    BY <1>7 DEF Step2VerifyPremium
  <2>2. CASE \E step \in 0 .. 9 : Reject(step)
    BY <2>1, <2>2, RejectPromised
  <2>3. CASE ledger.premium /\ Decide
    <3>1. CASE FirstFailure # 0 /\ Reject(FirstFailure)
      BY <2>2, <3>1, FirstFailureFirst
    <3>2. CASE Reject(9)
      BY <2>2, <3>2
    <3>3. CASE FirstFailure = 0 /\ Solvent /\ Return("approved", Payout, 9)
      <4>1. /\ Promise!Due(Payout)
            /\ ~loan.blind => Promise!LossSeen(Payout)
            /\ loan.blind => ReadsMayFail /\ Promise!GrossSeen(Payout)
        BY <2>1, <2>3, <3>3, ApprovalJustified
      <4>2. verdict.kind = "open" /\ UNCHANGED loan
        BY <2>1 DEF IInv, TypeOK
      <4>3. Promise!Approve
        BY <2>1, <3>3, <4>1, <4>2 DEF Return, Promise!Approve
      <4>4. verdict'.payout = Payout
        BY <3>3 DEF Return
      <4> QED
        BY <4>1, <4>3, <4>4 DEF Promise!PApprove, Promise!PApproveBlind
    <3> QED
      BY <2>1, <2>3, <3>1, <3>2, <3>3, Decided
  <2> QED
    BY <1>7, <2>2, <2>3 DEF Step2VerifyPremium
<1> QED
  BY <1>1, <1>2, <1>3, <1>4, <1>5, <1>6, <1>7 DEF Call

LEMMA NextPromised ==
    ASSUME IInv, [Next]_vars
    PROVE  \/ [Promise!PBegin \/ Promise!PMove \/ Promise!PReject
                 \/ Promise!PApprove]_(Promise!pvars)
           \/ ReadsMayFail /\ Promise!PApproveBlind
<1>1. CASE Environment
  <2>1. CASE \E new \in LedgerType : LedgerMoves(new)
    <3>1. pc = "idle" <=> verdict.kind # "open"
      BY DEF IInv, TypeOK
    <3> QED
      BY <2>1, <3>1 DEF LedgerMoves, Promise!PMove, reads
  <2>2. CASE SlotExpires
    BY <2>2 DEF SlotExpires, Promise!pvars, reads
  <2> QED
    BY <1>1, <2>1, <2>2, MovesTyped DEF Environment
<1>2. CASE Begin
  BY <1>2 DEF Begin, Promise!PBegin, NoLoan, Open, IInv, TypeOK
<1>3. CASE Call
  BY <1>3, CallPromised
<1>4. CASE UNCHANGED vars
  BY <1>4 DEF vars, reads, Promise!pvars
<1> QED
  BY <1>1, <1>2, <1>3, <1>4 DEF Next

\* validate_claim implements ClaimPromise: whatever the ledger does meanwhile, each
\* condition of an approval held at some moment of the call, and the payout is at
\* most the cover of the policy and the net loss that those moments give; or, only
\* if the LoanBroker request of the call failed, at most the gross loss.
THEOREM PromiseKeptHolds == Spec => PromiseKept
<1>1. IInv /\ [Next]_vars =>
        [Promise!PBegin \/ Promise!PMove \/ Promise!PReject \/ Promise!PApprove
           \/ Promise!PApproveBlind]_(Promise!pvars)
  BY NextPromised
<1> QED
  BY <1>1, InitPromised, Invariance, PTL DEF Spec, PromiseKept, Promise!PSpec

\* Where no request fails the documented promise is kept without the exception:
\* Ward pays on the net loss.
THEOREM NetLossWhenRead ==
    ASSUME ~ReadsMayFail
    PROVE  Spec => Promise!PStrict
<1>1. IInv /\ [Next]_vars =>
        [Promise!PBegin \/ Promise!PMove \/ Promise!PReject
           \/ Promise!PApprove]_(Promise!pvars)
  BY NextPromised
<1> QED
  BY <1>1, InitPromised, Invariance, PTL DEF Spec, Promise!PStrict

-----------------------------------------------------------------------------
(* Steps against published rules and slots                                 *)

\* What a finished decision says of each rule of ward/conformance_rules.py.
LEMMA RulesJudged ==
    ASSUME IInv, pc = "premium", terms'.time = terms.time, terms'.premium,
           NEW n \in 1 .. 8, n < 3 \/ ~FailsAt(n)
    PROVE  Rule(n) \/ Departs(n)
<1>1. /\ nft = "found" /\ policy.readable /\ policy.numeric /\ policy.coverage > 0
      /\ terms.time # NoTime /\ terms.time <= policy.expiry
  BY DEF IInv, Judged
<1>2. loan.loss \in Nat
  BY DEF IInv, TypeOK
<1>3. CASE n \in {1, 7, 8}
  <2>1. Rule(1) /\ Rule(7) /\ Rule(8)
    BY <1>1 DEF Rule
  <2> QED
    BY <1>3, <2>1
<1>4. CASE n = 2
  BY <1>1, <1>4 DEF Rule
<1>5. CASE n = 3
  BY <1>5 DEF Rule, FailsAt
<1>6. CASE n = 4
  BY <1>2, <1>6 DEF Rule, FailsAt, Departs
<1>7. CASE n = 5
  BY <1>2, <1>7 DEF Rule, FailsAt
<1>8. CASE n = 6
  BY <1>8 DEF Rule, FailsAt, Step6Passes, Overdrawn, Departs
<1> QED
  BY <1>3, <1>4, <1>5, <1>6, <1>7, <1>8

LEMMA FailureJudged ==
    ASSUME IInv, pc = "premium", NEW n \in 3 .. 8, FailsAt(n)
    PROVE  ~Rule(n)
<1>1. nft = "found" /\ loan.loss \in Nat /\ pool.usable \in Int
  BY DEF IInv, Judged, TypeOK
<1>2. n = 3 \/ n = 4 \/ n = 5 \/ n = 6
  BY <1>1 DEF FailsAt
<1>3. CASE n = 3
  BY <1>3 DEF Rule, FailsAt
<1>4. CASE n = 4
  BY <1>4 DEF Rule, FailsAt
<1>5. CASE n = 5
  BY <1>1, <1>5 DEF Rule, FailsAt
<1>6. CASE n = 6
  BY <1>1, <1>6 DEF Rule, FailsAt, Step6Passes
<1> QED
  BY <1>2, <1>3, <1>4, <1>5, <1>6

\* With a ratio of at least one, a pool that meets it has the payout.
LEMMA RatioSuffices ==
    ASSUME IInv, pc = "premium", FirstFailure = 0
    PROVE  /\ Solvent <=> pool.usable * RatioDen >= RatioNum * Payout
           /\ Solvent => ~Overdrawn
<1>1. /\ RatioNum \in Nat /\ RatioDen \in Nat /\ RatioDen > 0 /\ RatioNum >= RatioDen
  BY ClaimAssumption
<1>2. pool.usable \in Int /\ Payout \in Nat
  BY PayoutBounds DEF IInv, TypeOK
<1>3. ASSUME NEW u \in Int, NEW p \in Nat, u < p PROVE u * RatioDen < RatioNum * p
  <2>1. u + 1 <= p
    BY <1>3
  <2>2. (u + 1) * RatioDen <= p * RatioDen
    BY <1>1, <2>1
  <2>3. (u + 1) * RatioDen = u * RatioDen + RatioDen
    BY <1>1
  <2>4. p * RatioDen <= RatioNum * p
    BY <1>1
  <2> QED
    BY <1>1, <2>2, <2>3, <2>4
<1>4. pool.usable < Payout => ~(pool.usable * RatioDen >= RatioNum * Payout)
  <2>1. pool.usable < Payout => pool.usable * RatioDen < RatioNum * Payout
    BY <1>2, <1>3
  <2>2. pool.usable * RatioDen \in Int /\ RatioNum * Payout \in Int
    BY <1>1, <1>2
  <2> QED
    BY <2>1, <2>2
<1> QED
  BY <1>2, <1>4 DEF Solvent, Overdrawn

\* What ConformanceAgrees says of a return.
Agrees ==
    /\ verdict'.kind = "approved" => \A n \in 1 .. 9 : Rule(n)
    /\ verdict'.kind = "rejected" =>
         /\ \A n \in 1 .. verdict'.steps : Rule(n) \/ Departs(n)
         /\ ~Rule(verdict'.steps + 1)
    /\ verdict'.kind = "raised" => Rule(1) /\ ~Rule(2)

LEMMA DecisionJudged ==
    ASSUME IInv, pc = "premium", Decide, terms'.time = terms.time, terms'.premium
    PROVE  Agrees
<1>1. slots \in Nat
  BY ClaimAssumption DEF IInv, TypeOK
<1>2. CASE FirstFailure # 0 /\ Reject(FirstFailure)
  <2>1. PICK k \in 3 .. 8 : k = FirstFailure
    BY <1>2, FirstFailureFirst
  <2>2. verdict'.kind = "rejected" /\ verdict'.steps = k - 1
    BY <1>2, <2>1 DEF Reject, Return
  <2>3. ~Rule(k)
    BY <1>2, <2>1, FirstFailureFirst, FailureJudged
  <2>4. \A n \in 1 .. k - 1 : n \in 1 .. 8 /\ (n < 3 \/ ~FailsAt(n))
    BY <1>2, <2>1, FirstFailureFirst
  <2>5. \A n \in 1 .. k - 1 : Rule(n) \/ Departs(n)
    BY <2>4, RulesJudged
  <2>6. verdict'.steps + 1 = k
    BY <2>2
  <2> QED
    BY <2>2, <2>3, <2>5, <2>6 DEF Agrees
<1>3. CASE FirstFailure = 0
  <2>1. \A n \in 1 .. 8 : Rule(n) \/ Departs(n)
    BY <1>3, FirstFailureFirst, RulesJudged
  <2>2. Rule(9) <=> slots > 0 /\ Solvent
    BY <1>3, RatioSuffices DEF Rule, Payout
  <2>3. CASE Reject(9) /\ (slots = 0 \/ ~Solvent)
    <3>1. verdict'.kind = "rejected" /\ verdict'.steps = 8
      BY <2>3 DEF Reject, Return
    <3>2. verdict'.steps + 1 = 9 /\ ~Rule(9)
      BY <2>2, <2>3, <3>1
    <3> QED
      BY <2>1, <3>1, <3>2 DEF Agrees
  <2>4. CASE slots > 0 /\ Solvent /\ Return("approved", Payout, 9)
    <3>1. verdict'.kind = "approved"
      BY <2>4 DEF Return
    <3>2. ~Overdrawn /\ Rule(9)
      BY <1>3, <2>2, <2>4, RatioSuffices
    <3>3. \A n \in 1 .. 9 : n \in 1 .. 8 \/ n = 9
      OBVIOUS
    <3>4. loan.loss # 0
      <4>1. ~FailsAt(5)
        BY <1>3, FirstFailureFirst
      <4> QED
        BY <4>1 DEF FailsAt
    <3>5. \A n \in 1 .. 8 : ~Departs(n)
      BY <3>2, <3>4 DEF Departs
    <3> QED
      BY <2>1, <3>1, <3>2, <3>3, <3>5 DEF Agrees
  <2> QED
    BY <1>3, <2>3, <2>4, Decided
<1> QED
  BY <1>2, <1>3, Decided

\* A return at step 1 or 2 names the rule that the readings so far do not meet.
LEMMA EarlyJudged ==
    ASSUME IInv, pc \notin {"idle", "gates"}, terms'.premium = FALSE
    PROVE  /\ nft # "found" /\ Reject(1) => Agrees
           /\ nft = "found" /\ (Reject(2) \/ Return("raised", 0, 0)) => Agrees
<1>1. ~Rule(2)
  BY DEF Rule
<1>2. Rule(1) <=> nft = "found"
  BY DEF Rule
<1>3. \A n \in 1 .. 0 : FALSE
  OBVIOUS
<1>4. \A n \in 1 .. 1 : n = 1
  OBVIOUS
<1>5. ASSUME nft # "found", Reject(1) PROVE Agrees
  <2>1. verdict'.kind = "rejected" /\ verdict'.steps = 0 /\ verdict'.steps + 1 = 1
    BY <1>5 DEF Reject, Return
  <2> QED
    BY <1>2, <1>3, <1>5, <2>1 DEF Agrees
<1>6. ASSUME nft = "found", Reject(2) PROVE Agrees
  <2>1. verdict'.kind = "rejected" /\ verdict'.steps = 1 /\ verdict'.steps + 1 = 2
    BY <1>6 DEF Reject, Return
  <2> QED
    BY <1>1, <1>2, <1>4, <1>6, <2>1 DEF Agrees
<1>7. ASSUME nft = "found", Return("raised", 0, 0) PROVE Agrees
  <2>1. verdict'.kind = "raised"
    BY <1>7 DEF Return
  <2> QED
    BY <1>1, <1>2, <1>7, <2>1 DEF Agrees
<1> QED
  BY <1>5, <1>6, <1>7

LEMMA StepJudged ==
    ASSUME IInv, [Next]_vars, pc \notin {"idle", "gates"}, pc' = "idle"
    PROVE  Agrees
<1>1. ~terms.premium /\ (pc \in {"expiry", "premium"} => nft = "found")
  BY DEF IInv, Judged
<1>2. CASE GatherReturns
  <2>1. terms'.premium = FALSE
    BY <1>1, <1>2 DEF GatherReturns, reads, IInv, TypeOK
  <2>2. \/ nft # "found" /\ Reject(1)
        \/ nft = "found" /\ Reject(2)
    BY <1>2 DEF GatherReturns
  <2> QED
    BY <2>1, <2>2, EarlyJudged
<1>3. CASE Step2CheckExpiry
  <2>1. terms'.premium = FALSE /\ nft = "found"
    BY <1>1, <1>3 DEF Step2CheckExpiry, IInv, TypeOK
  <2>2. Reject(2) \/ Return("raised", 0, 0)
    BY <1>3 DEF Step2CheckExpiry
  <2> QED
    BY <2>1, <2>2, EarlyJudged
<1>4. CASE Step2VerifyPremium
  <2>1. CASE Reject(2) /\ UNCHANGED <<slots, terms>>
    <3>1. terms'.premium = FALSE /\ nft = "found"
      BY <1>1, <1>4, <2>1 DEF Step2VerifyPremium, IInv, TypeOK
    <3> QED
      BY <2>1, <3>1, EarlyJudged
  <2>2. CASE terms' = [terms EXCEPT !.premium = TRUE] /\ Decide
    <3>1. terms'.time = terms.time /\ terms'.premium /\ pc = "premium"
      BY <1>4, <2>2 DEF Step2VerifyPremium, IInv, TypeOK
    <3> QED
      BY <2>2, <3>1, DecisionJudged
  <2> QED
    BY <1>4, <2>1, <2>2 DEF Step2VerifyPremium
<1>5. CASE Environment
  <2>1. UNCHANGED pc
    BY <1>5 DEF Environment, Close, NftMoves, PremiumArrives, LoanDefaults, LoanRepaid,
           PoolMoves, EligibilityMoves, LedgerMoves, SlotExpires
  <2> QED
    BY <2>1
<1>6. CASE \/ Begin \/ EligibilityGate \/ Step1VerifyNftExists \/ Step4
           \/ FetchPoolInfo \/ UNCHANGED vars
  BY <1>6 DEF Begin, EligibilityGate, Step1VerifyNftExists, Step4, Step4ReadLoan,
         Step4ReadTime, Step4ReadBroker, Step4Read, FetchPoolInfo, vars
<1> QED
  BY <1>2, <1>3, <1>4, <1>5, <1>6 DEF Next, Call

\* The verdict names the first of the nine published rules that fails, at any step
\* and for whatever reads failed.  Two departures: a default without a net loss is
\* rejected by step 5, and an overdrawn pool by step 9.
THEOREM ConformanceAgreesHolds == Spec => ConformanceAgrees
<1>1. IInv /\ [Next]_vars => [pc \notin {"idle", "gates"} /\ pc' = "idle" => Agrees]_vars
  BY StepJudged
<1> QED
  BY <1>1, Invariance, PTL DEF Spec, ConformanceAgrees, Agrees

LEMMA StepSlots ==
    ASSUME IInv, [Next]_vars
    PROVE  /\ slots' < slots =>
                slots' = slots - 1 /\ verdict'.kind # "open" /\ verdict'.steps >= 8
           /\ pc = "premium" /\ pc' = "idle" /\ slots > 0 /\ verdict'.steps >= 8 =>
                slots' < slots
<1>1. slots \in Nat
  BY ClaimAssumption DEF IInv, TypeOK
<1>2. CASE Step2VerifyPremium
  <2>1. pc = "premium"
    BY <1>2 DEF Step2VerifyPremium
  <2>2. CASE Reject(2) /\ UNCHANGED <<slots, terms>>
    BY <1>1, <2>2 DEF Reject, Return
  <2>3. CASE FirstFailure # 0 /\ Reject(FirstFailure) /\ slots' = slots
    <3>1. FirstFailure \in 3 .. 8 /\ verdict'.steps = FirstFailure - 1
      BY <2>3, FirstFailureFirst DEF Reject, Return
    <3> QED
      BY <1>1, <2>3, <3>1
  <2>4. CASE slots = 0 /\ slots' = slots
    BY <2>4
  <2>5. CASE slots' = slots - 1 /\ (Reject(9) \/ Return("approved", Payout, 9))
    <3>1. verdict'.kind # "open" /\ verdict'.steps \in {8, 9}
      BY <2>5 DEF Reject, Return
    <3> QED
      BY <1>1, <2>5, <3>1
  <2> QED
    BY <1>2, <2>1, <2>2, <2>3, <2>4, <2>5, Decided DEF Step2VerifyPremium
<1>3. CASE slots' >= slots /\ slots' \in Nat /\ ~(pc = "premium" /\ pc' = "idle")
  BY <1>1, <1>3
<1>4. CASE Environment \/ Begin \/ UNCHANGED vars
  <2>1. slots' \in {slots, slots + 1} /\ ~(pc = "premium" /\ pc' = "idle")
    BY <1>4 DEF Environment, Close, NftMoves, PremiumArrives, LoanDefaults, LoanRepaid,
           PoolMoves, EligibilityMoves, LedgerMoves, SlotExpires, Begin, vars
  <2> QED
    BY <1>1, <1>3, <2>1
<1>5. CASE EligibilityGate \/ Step1VerifyNftExists \/ Step4 \/ FetchPoolInfo
             \/ GatherReturns \/ Step2CheckExpiry
  <2>1. slots' = slots
    BY <1>5 DEF EligibilityGate, Step1VerifyNftExists, Step4, Step4ReadLoan,
           Step4ReadTime, Step4ReadBroker, Step4Read, FetchPoolInfo, GatherReturns,
           Step2CheckExpiry
  <2>2. pc # "premium"
    BY <1>5 DEF EligibilityGate, Step1VerifyNftExists, Step4, Step4ReadLoan,
           Step4ReadTime, Step4ReadBroker, Step4Read, FetchPoolInfo, GatherReturns,
           Step2CheckExpiry
  <2> QED
    BY <1>1, <1>3, <2>1, <2>2
<1> QED
  BY <1>2, <1>4, <1>5 DEF Next, Call

\* A slot of the limiter goes exactly to the claims that pass steps 1 to 8 and find
\* one left.
THEOREM SlotsForValidClaimsHolds == Spec => SlotsForValidClaims
<1>1. IInv /\ [Next]_vars =>
        [/\ slots' < slots =>
              slots' = slots - 1 /\ verdict'.kind # "open" /\ verdict'.steps >= 8
         /\ pc = "premium" /\ pc' = "idle" /\ slots > 0 /\ verdict'.steps >= 8 =>
              slots' < slots]_vars
  BY StepSlots
<1> QED
  BY <1>1, Invariance, PTL DEF Spec, SlotsForValidClaims
=============================================================================
