---------------------------- MODULE EscrowProofs ----------------------------
(***************************************************************************)
(* Theorems of EscrowSettlement, for any claims, calls and times.          *)
(*                                                                         *)
(* Type correctness includes the account of the pool's drops, which holds  *)
(* because an escrow is created at most once per claim; the times of an    *)
(* escrow that pays follow from what is known of a finish transaction      *)
(* while it is in the institution's hands; and the lock keeps its holders  *)
(* apart because no start is nearer to its expiry than the lock's life.    *)
(***************************************************************************)
EXTENDS EscrowSettlement, FiniteSetTheorems, TLAPS

----------------------------------------------------------------------------
(* The invariant.                                                          *)

\* Claims whose drops have left the pool.
Drawn == {c \in Claims : escrow[c] \in {"held", "paid"}}

\* A claim has an escrow only after it is recorded, and a creation that is still to
\* be submitted is its first.
CreatedOnce ==
  \A c \in Claims :
    /\ Tx("create", c, TRUE) \in handed => record[c].at = "recorded" /\ escrow[c] = "none"
    /\ record[c].at # "recorded" => escrow[c] = "none"

\* A deadline is checked only while it lies ahead, and before a finish is handed over.
CheckedAhead ==
  \A c \in Claims :
    /\ latest[c] # Never => record[c].at = "recorded"
    /\ record[c].at = "recorded" => latest[c] < record[c].deadline
    /\ \A named \in BOOLEAN : Tx("finish", c, named) \in handed => latest[c] # Never
    /\ \A w \in Workers :
         /\ call[w].at # "idle" /\ call[w].claim = c => record[c].at = "recorded"
         /\ call[w].at = "checked" /\ call[w].claim = c => latest[c] # Never

\* Whoever got the lock, it expires no sooner than the lock's life after.
LockOutlives ==
  \A c \in Claims :
    /\ \A s \in starts[c] : s + LockTTL <= lock[c]
    /\ \A w \in Workers : Holds(w, c) => call[w].start + LockTTL <= lock[c]

----------------------------------------------------------------------------
(* Types.                                                                  *)

\* What SettlementAssumption says of the numbers.
LEMMA Numbers ==
  /\ MaxTime \in Nat /\ LockTTL \in Nat \ {0} /\ Payout \in Nat \ {0}
  /\ DisputeTime \in Nat \ {0} /\ CancelTime \in Nat /\ DisputeTime < CancelTime
  /\ LastCreate \in Nat /\ LastCreate + CancelTime < MaxTime
  /\ PoolDrops \in Nat /\ IsFiniteSet(Claims)
BY SettlementAssumption

\* TypeOK but for the account of the drops.
TypesOK ==
  /\ time \in Times /\ nft \in {"live", "burned"} /\ pool \in Nat
  /\ escrow \in [Claims -> {"none", "held", "paid", "returned"}]
  /\ lock \in [Claims -> 0 .. MaxTime + LockTTL]
  /\ record \in [Claims -> RecordType]
  /\ call \in [Workers -> CallType]
  /\ handed \subseteq [type : {"create", "finish", "burn", "cancel"}, claim : Claims,
                       named : BOOLEAN]
  /\ latest \in [Claims -> Times \cup {Never}] /\ starts \in [Claims -> SUBSET Times]

LEMMA TypesInit == Init => TypesOK
BY Numbers DEF Init, TypesOK, Times, RecordType, CallType, Idle, Never

\* What a record of a new escrow, and a call that has begun, look like.
LEMMA NewRecord ==
  ASSUME time \in Times, time <= LastCreate
  PROVE  /\ Record(time + DisputeTime, time + CancelTime) \in RecordType
         /\ Record(time + DisputeTime, time + CancelTime).at = "recorded"
         /\ Record(time + DisputeTime, time + CancelTime).deadline = time + DisputeTime
BY Numbers DEF Record, RecordType, Times

\* A record that has a sequence written into it keeps its place and its times.
LEMMA NamedRecord ==
  ASSUME TypesOK, NEW c \in Claims, NameEscrow(c)
  PROVE  /\ record' \in [Claims -> RecordType]
         /\ \A d \in Claims : record'[d].at = record[d].at
         /\ record[c].at = "recorded"
         /\ record'[c].deadline = record[c].deadline
         /\ record'[c].cancelAfter = record[c].cancelAfter
         /\ \A d \in Claims \ {c} : record'[d] = record[d]
         /\ UNCHANGED <<time, nft, pool, escrow, lock, call, handed, latest, starts>>
<1>1. record[c] \in RecordType /\ record[c].at = "recorded"
  BY DEF NameEscrow, TypesOK
<1>2. record' = [record EXCEPT ![c].named = TRUE]
  BY DEF NameEscrow
<1>3. /\ record[c] \in [at : {"recorded"}, deadline : Times, cancelAfter : Times,
                       named : BOOLEAN]
      /\ record[c].deadline < record[c].cancelAfter
  BY <1>1 DEF RecordType
<1>4. /\ record'[c] \in [at : {"recorded"}, deadline : Times, cancelAfter : Times,
                        named : BOOLEAN]
      /\ record'[c].deadline = record[c].deadline
      /\ record'[c].cancelAfter = record[c].cancelAfter
      /\ record'[c].at = "recorded"
  BY <1>2, <1>3 DEF TypesOK
<1>5. \A d \in Claims \ {c} : record'[d] = record[d]
  BY <1>2 DEF TypesOK
<1>6. record'[c] \in RecordType
  BY <1>3, <1>4 DEF RecordType
<1>7. record' \in [Claims -> RecordType]
  BY <1>2, <1>5, <1>6 DEF TypesOK
<1> QED
  BY <1>1, <1>4, <1>5, <1>7 DEF NameEscrow, ledger, history

\* What is handed over is a transaction.
LEMMA TxTyped ==
  \A type \in {"create", "finish", "burn", "cancel"}, c \in Claims, named \in BOOLEAN :
    Tx(type, c, named) \in [type : {"create", "finish", "burn", "cancel"}, claim : Claims,
                            named : BOOLEAN]
BY DEF Tx

\* Every action but those on the pool's drops keeps every type.
LEMMA TypesStep == ASSUME TypesOK, CheckedAhead, [Next]_vars PROVE TypesOK'
<1> USE Numbers DEF TypesOK
<1>1. CASE Tick
  BY <1>1 DEF Tick, ledger, history, Times
<1>2. ASSUME NEW c \in Claims, Approve(c) PROVE TypesOK'
  <2>1. [at |-> "approved"] \in RecordType
    BY DEF RecordType
  <2> QED
    BY <1>2, <2>1 DEF Approve, ledger, history
<1>3. ASSUME NEW c \in Claims, SubmitCreate(c) PROVE TypesOK'
  <2>1. \/ UNCHANGED <<escrow, pool>>
        \/ /\ pool >= Payout /\ pool' = pool - Payout
           /\ escrow' = [escrow EXCEPT ![c] = "held"]
    BY <1>3 DEF SubmitCreate
  <2>2. pool' \in Nat /\ escrow' \in [Claims -> {"none", "held", "paid", "returned"}]
    BY <2>1
  <2> QED
    BY <1>3, <2>2 DEF SubmitCreate, Submit, history
<1>4. ASSUME NEW c \in Claims, NEW named \in BOOLEAN, SubmitFinish(c, named)
      PROVE  TypesOK'
  BY <1>4 DEF SubmitFinish, Submit, history
<1>5. ASSUME NEW c \in Claims, NEW named \in BOOLEAN, SubmitCancel(c, named)
      PROVE  TypesOK'
  BY <1>5 DEF SubmitCancel, Submit, history
<1>6. ASSUME NEW c \in Claims, SubmitBurn(c) PROVE TypesOK'
  BY <1>6 DEF SubmitBurn, Submit, history
<1>7. ASSUME NEW c \in Claims, CreateClaimEscrow(c) PROVE TypesOK'
  <2>1. record' \in [Claims -> RecordType]
    BY <1>7, NewRecord DEF CreateClaimEscrow
  <2>2. handed' \subseteq [type : {"create", "finish", "burn", "cancel"}, claim : Claims,
                         named : BOOLEAN]
    <3>1. handed' = handed \cup {Tx("create", c, TRUE)}
      BY <1>7 DEF CreateClaimEscrow
    <3> QED
      BY <3>1, TxTyped
  <2> QED
    BY <1>7, <2>1, <2>2 DEF CreateClaimEscrow, ledger, history
<1>8. ASSUME NEW c \in Claims, CancelEscrow(c) PROVE TypesOK'
  <2>1. record[c].named \in BOOLEAN
    BY <1>8 DEF CancelEscrow, RecordType
  <2>2. handed' \subseteq [type : {"create", "finish", "burn", "cancel"}, claim : Claims,
                          named : BOOLEAN]
    <3>1. handed' = handed \cup {Tx("cancel", c, record[c].named)}
      BY <1>8 DEF CancelEscrow
    <3> QED
      BY <2>1, <3>1, TxTyped
  <2> QED
    BY <1>8, <2>2 DEF CancelEscrow, ledger, history
<1>9. ASSUME NEW w \in Workers, NEW c \in Claims, TakeLock(w, c) PROVE TypesOK'
  <2>1. lock' \in [Claims -> 0 .. MaxTime + LockTTL]
    BY <1>9 DEF TakeLock, Times
  <2>2. call' \in [Workers -> CallType]
    BY <1>9 DEF TakeLock, InCall, CallType
  <2> QED
    BY <1>9, <2>1, <2>2 DEF TakeLock, ledger, history
<1>10. ASSUME NEW w \in Workers, CheckDeadline(w) PROVE TypesOK'
  <2>1. call[w] \in [at : {"locked", "checked"}, claim : Claims, start : Times \cup {Unlocked}]
    BY <1>10 DEF CheckDeadline, CallType
  <2>2. call' \in [Workers -> CallType]
    BY <1>10, <2>1 DEF CheckDeadline, CallType, Idle
  <2>3. latest' \in [Claims -> Times \cup {Never}]
    BY <1>10, <2>1 DEF CheckDeadline
  <2> QED
    BY <1>10, <2>2, <2>3 DEF CheckDeadline, ledger
<1>11. ASSUME NEW w \in Workers, FinishReturns(w) PROVE TypesOK'
  <2>1. call[w] \in [at : {"locked", "checked"}, claim : Claims, start : Times \cup {Unlocked}]
    BY <1>11 DEF FinishReturns, CallType
  <2>2. call' \in [Workers -> CallType]
    BY <1>11 DEF FinishReturns, CallType, Idle
  <2>3. starts' \in [Claims -> SUBSET Times]
    <3>1. \/ UNCHANGED starts
          \/ starts' = [starts EXCEPT ![call[w].claim] = @ \cup ({call[w].start} \ {Unlocked})]
      BY <1>11 DEF FinishReturns
    <3>2. {call[w].start} \ {Unlocked} \in SUBSET Times
      BY <2>1
    <3> HIDE DEF TypesOK
    <3>3. starts \in [Claims -> SUBSET Times]
      BY DEF TypesOK
    <3> QED
      BY <2>1, <3>1, <3>2, <3>3
  <2>4. handed' \subseteq [type : {"create", "finish", "burn", "cancel"}, claim : Claims,
                         named : BOOLEAN]
    <3>1. record[call[w].claim].named \in BOOLEAN
      BY <2>1, <1>11 DEF CheckedAhead, FinishReturns, RecordType
    <3>2. \/ UNCHANGED handed
          \/ handed' = handed \cup {Tx("finish", call[w].claim, record[call[w].claim].named),
                                   Tx("burn", call[w].claim, TRUE)}
      BY <1>11 DEF FinishReturns
    <3>3. /\ Tx("finish", call[w].claim, record[call[w].claim].named) \in
               [type : {"create", "finish", "burn", "cancel"}, claim : Claims, named : BOOLEAN]
          /\ Tx("burn", call[w].claim, TRUE) \in
               [type : {"create", "finish", "burn", "cancel"}, claim : Claims, named : BOOLEAN]
      <4>1. call[w].claim \in Claims
        BY <2>1
      <4> HIDE DEF TypesOK
      <4> QED
        BY <3>1, <4>1, TxTyped
    <3> QED
      BY <3>2, <3>3
  <2> QED
    BY <1>11, <2>2, <2>3, <2>4 DEF FinishReturns, ledger
<1>12. CASE UNCHANGED vars
  BY <1>12 DEF vars, ledger, history
<1>13. ASSUME NEW c \in Claims, NameEscrow(c) PROVE TypesOK'
  BY <1>13, NamedRecord
<1> QED
  BY <1>1, <1>2, <1>3, <1>4, <1>5, <1>6, <1>7, <1>8, <1>9, <1>10, <1>11, <1>12, <1>13
  DEF Next, Environment, Submission, Finish

----------------------------------------------------------------------------
(* The account of the drops.                                               *)

\* Which creations and finishes are handed over, by the calls that hand over any.
LEMMA HandedOver ==
  /\ \A c, d \in Claims, n \in BOOLEAN :
       /\ Tx("create", d, TRUE) = Tx("create", c, TRUE) <=> c = d
       /\ Tx("finish", d, n) # Tx("create", c, TRUE)
  /\ \A c \in Claims : CancelEscrow(c) =>
       \A d \in Claims, n \in BOOLEAN :
         /\ Tx("create", d, TRUE) \in handed' => Tx("create", d, TRUE) \in handed
         /\ Tx("finish", d, n) \in handed' => Tx("finish", d, n) \in handed
  /\ \A w \in Workers : FinishReturns(w) =>
       \A d \in Claims, n \in BOOLEAN :
         /\ Tx("create", d, TRUE) \in handed' => Tx("create", d, TRUE) \in handed
         /\ Tx("finish", d, n) \in handed' =>
              Tx("finish", d, n) \in handed \/ d = call[w].claim
<1>1. \A c, d \in Claims, n \in BOOLEAN :
        /\ Tx("create", d, TRUE) = Tx("create", c, TRUE) <=> c = d
        /\ Tx("finish", d, n) # Tx("create", c, TRUE)
  BY DEF Tx
<1>2. ASSUME NEW c \in Claims, CancelEscrow(c), NEW d \in Claims, NEW n \in BOOLEAN
      PROVE  /\ Tx("create", d, TRUE) \in handed' => Tx("create", d, TRUE) \in handed
             /\ Tx("finish", d, n) \in handed' => Tx("finish", d, n) \in handed
  BY <1>2 DEF CancelEscrow, Tx
<1>3. ASSUME NEW w \in Workers, FinishReturns(w), NEW d \in Claims, NEW n \in BOOLEAN
      PROVE  /\ Tx("create", d, TRUE) \in handed' => Tx("create", d, TRUE) \in handed
             /\ Tx("finish", d, n) \in handed' =>
                  Tx("finish", d, n) \in handed \/ d = call[w].claim
  BY <1>3 DEF FinishReturns, Tx
<1> QED
  BY <1>1, <1>2, <1>3

LEMMA CreatedInit == Init => CreatedOnce
BY DEF Init, CreatedOnce

LEMMA CreatedStep == ASSUME TypesOK, CreatedOnce, [Next]_vars PROVE CreatedOnce'
<1> USE DEF CreatedOnce, TypesOK
<1>1. CASE Tick
  BY <1>1 DEF Tick, ledger
<1>2. ASSUME NEW c \in Claims, Approve(c) PROVE CreatedOnce'
  BY <1>2 DEF Approve, ledger
<1>3. ASSUME NEW c \in Claims, SubmitCreate(c) PROVE CreatedOnce'
  BY <1>3 DEF SubmitCreate, Submit
<1>4. ASSUME NEW c \in Claims, NEW named \in BOOLEAN, SubmitFinish(c, named)
      PROVE  CreatedOnce'
  BY <1>4 DEF SubmitFinish, Submit, LedgerFinishes
<1>5. ASSUME NEW c \in Claims, NEW named \in BOOLEAN, SubmitCancel(c, named)
      PROVE  CreatedOnce'
  BY <1>5 DEF SubmitCancel, Submit
<1>6. ASSUME NEW c \in Claims, SubmitBurn(c) PROVE CreatedOnce'
  BY <1>6 DEF SubmitBurn, Submit
<1>7. ASSUME NEW c \in Claims, CreateClaimEscrow(c) PROVE CreatedOnce'
  <2>1. record'[c].at = "recorded" /\ \A d \in Claims \ {c} : record'[d] = record[d]
    BY <1>7, NewRecord DEF CreateClaimEscrow
  <2> QED
    BY <1>7, <2>1, HandedOver DEF CreateClaimEscrow, ledger
<1>8. ASSUME NEW c \in Claims, CancelEscrow(c) PROVE CreatedOnce'
  BY <1>8, HandedOver DEF CancelEscrow, ledger
<1>9. ASSUME NEW w \in Workers, NEW c \in Claims, TakeLock(w, c) PROVE CreatedOnce'
  BY <1>9 DEF TakeLock, ledger
<1>10. ASSUME NEW w \in Workers, CheckDeadline(w) PROVE CreatedOnce'
  BY <1>10 DEF CheckDeadline, ledger
<1>11. ASSUME NEW w \in Workers, FinishReturns(w) PROVE CreatedOnce'
  <2>1. UNCHANGED <<record, escrow>>
    BY <1>11 DEF FinishReturns, ledger
  <2> QED
    BY <1>11, <2>1, HandedOver
<1>12. CASE UNCHANGED vars
  BY <1>12 DEF vars, ledger
<1>13. ASSUME NEW c \in Claims, NameEscrow(c) PROVE CreatedOnce'
  BY <1>13, NamedRecord
<1> QED
  BY <1>1, <1>2, <1>3, <1>4, <1>5, <1>6, <1>7, <1>8, <1>9, <1>10, <1>11, <1>12, <1>13
  DEF Next, Environment, Submission, Finish

LEMMA CheckedInit == Init => CheckedAhead
BY DEF Init, CheckedAhead, Idle

LEMMA CheckedStep == ASSUME TypesOK, CheckedAhead, [Next]_vars PROVE CheckedAhead'
<1> USE DEF CheckedAhead, TypesOK
<1>1. CASE Tick
  BY <1>1 DEF Tick, ledger, history
<1>2. ASSUME NEW c \in Claims, Approve(c) PROVE CheckedAhead'
  BY <1>2 DEF Approve, ledger, history
<1>3. ASSUME NEW c \in Claims, Submission(c) PROVE CheckedAhead'
  BY <1>3
  DEF Submission, SubmitCreate, SubmitFinish, SubmitCancel, SubmitBurn, Submit, history
<1>4. ASSUME NEW c \in Claims, CreateClaimEscrow(c) PROVE CheckedAhead'
  <2>1. /\ record'[c].at = "recorded" /\ record'[c].deadline = time + DisputeTime
        /\ \A d \in Claims \ {c} : record'[d] = record[d]
    BY <1>4, NewRecord DEF CreateClaimEscrow
  <2>2. latest[c] = Never /\ Never < time + DisputeTime
    BY <1>4, Numbers DEF CreateClaimEscrow, Never, Times
  <2>3. /\ \A d \in Claims, n \in BOOLEAN :
             Tx("finish", d, n) \in handed' => Tx("finish", d, n) \in handed
        /\ UNCHANGED <<call, latest>>
    BY <1>4, HandedOver DEF CreateClaimEscrow, history
  <2> HIDE DEF TypesOK
  <2> QED
    BY <2>1, <2>2, <2>3
<1>5. ASSUME NEW c \in Claims, CancelEscrow(c) PROVE CheckedAhead'
  BY <1>5, HandedOver DEF CancelEscrow, ledger, history
<1>6. ASSUME NEW w \in Workers, NEW c \in Claims, TakeLock(w, c) PROVE CheckedAhead'
  <2>1. /\ \A v \in Workers \ {w} : call'[v] = call[v]
        /\ call'[w].at = "locked" /\ call'[w].claim = c
        /\ record[c].at = "recorded"
    BY <1>6 DEF TakeLock, InCall
  <2>2. UNCHANGED <<record, handed, latest>>
    BY <1>6 DEF TakeLock, history
  <2> HIDE DEF TypesOK
  <2> QED
    BY <2>1, <2>2
<1>7. ASSUME NEW w \in Workers, CheckDeadline(w) PROVE CheckedAhead'
  <2>1. call[w].at = "locked" /\ call[w].claim \in Claims
    BY <1>7 DEF CheckDeadline, CallType
  <2>2. UNCHANGED <<record, handed>> /\ \A v \in Workers \ {w} : call'[v] = call[v]
    BY <1>7 DEF CheckDeadline, ledger
  <2>3. CASE call' = [call EXCEPT ![w] = Idle] /\ UNCHANGED latest
    <3>1. call'[w].at = "idle"
      BY <2>3 DEF Idle
    <3> HIDE DEF TypesOK
    <3> QED
      BY <2>2, <2>3, <3>1
  <2>4. CASE /\ BeforeDeadline(call[w].claim)
             /\ call' = [call EXCEPT ![w].at = "checked"]
             /\ latest' = [latest EXCEPT ![call[w].claim] = time]
    <3> DEFINE c == call[w].claim
    <3>1. call'[w].claim = c /\ record[c].at = "recorded"
      BY <2>1, <2>4 DEF CallType
    <3>2. latest'[c] = time /\ time # Never /\ time < record[c].deadline
      BY <2>1, <2>4, Numbers DEF BeforeDeadline, Never, Times
    <3>3. \A d \in Claims \ {c} : latest'[d] = latest[d]
      BY <2>1, <2>4
    <3> HIDE DEF TypesOK, c
    <3> QED
      BY <2>1, <2>2, <3>1, <3>2, <3>3
  <2> QED
    BY <1>7, <2>3, <2>4 DEF CheckDeadline
<1>8. ASSUME NEW w \in Workers, FinishReturns(w) PROVE CheckedAhead'
  <2>1. call[w].at = "checked" /\ call[w].claim \in Claims
    BY <1>8 DEF FinishReturns, CallType
  <2>2. latest[call[w].claim] # Never
    BY <2>1
  <2>3. /\ \A v \in Workers \ {w} : call'[v] = call[v]
        /\ call'[w].at = "idle"
        /\ UNCHANGED <<record, latest>>
        /\ \A d \in Claims, named \in BOOLEAN :
             Tx("finish", d, named) \in handed' \ handed => d = call[w].claim
    BY <1>8, HandedOver DEF FinishReturns, Idle
  <2> HIDE DEF TypesOK
  <2> QED
    BY <2>2, <2>3
<1>9. CASE UNCHANGED vars
  BY <1>9 DEF vars, ledger, history
<1>10. ASSUME NEW c \in Claims, NameEscrow(c) PROVE CheckedAhead'
  <2>1. \A d \in Claims : record[d].at = "recorded" => record'[d].deadline = record[d].deadline
    BY <1>10, NamedRecord
  <2>2. /\ \A d \in Claims : record'[d].at = record[d].at
        /\ UNCHANGED <<call, handed, latest>>
    BY <1>10, NamedRecord
  <2> HIDE DEF TypesOK
  <2> QED
    BY <2>1, <2>2
<1> QED
  BY <1>1, <1>2, <1>3, <1>4, <1>5, <1>6, <1>7, <1>8, <1>9, <1>10
  DEF Next, Environment, Finish

Accounted == pool + Payout * Cardinality(Drawn) = PoolDrops

LEMMA DrawnFinite == IsFiniteSet(Drawn) /\ Cardinality(Drawn) \in Nat
<1>1. Drawn \subseteq Claims
  BY DEF Drawn
<1> QED
  BY <1>1, Numbers, FS_Subset, FS_CardinalityType

\* One claim's drops leave the pool, or come back to it.
LEMMA OneDrawn ==
  ASSUME TypesOK, NEW c \in Claims, escrow[c] \notin {"held", "paid"},
         escrow' = [escrow EXCEPT ![c] = "held"]
  PROVE  Cardinality(Drawn') = Cardinality(Drawn) + 1
<1>1. Drawn' = Drawn \cup {c} /\ c \notin Drawn
  BY DEF Drawn, TypesOK
<1> QED
  BY <1>1, DrawnFinite, FS_AddElement

LEMMA OneReturned ==
  ASSUME TypesOK, NEW c \in Claims, escrow[c] = "held",
         escrow' = [escrow EXCEPT ![c] = "returned"]
  PROVE  Cardinality(Drawn') = Cardinality(Drawn) - 1
<1>1. Drawn' = Drawn \ {c} /\ c \in Drawn
  BY DEF Drawn, TypesOK
<1> QED
  BY <1>1, DrawnFinite, FS_RemoveElement

LEMMA AccountedStep == ASSUME TypesOK, CreatedOnce, Accounted, [Next]_vars PROVE Accounted'
<1> USE DEF TypesOK
<1>1. CASE UNCHANGED <<pool, escrow>>
  BY <1>1 DEF Accounted, Drawn
<1>2. ASSUME NEW c \in Claims, SubmitCreate(c) PROVE Accounted'
  <2>1. CASE pool' = pool - Payout /\ escrow' = [escrow EXCEPT ![c] = "held"]
    <3>1. escrow[c] = "none"
      BY <1>2 DEF SubmitCreate, Submit, CreatedOnce
    <3>2. Cardinality(Drawn') = Cardinality(Drawn) + 1
      BY <2>1, <3>1, OneDrawn
    <3>3. Payout * (Cardinality(Drawn) + 1) = Payout * Cardinality(Drawn) + Payout
      BY DrawnFinite, Numbers
    <3>4. Payout * Cardinality(Drawn) \in Nat
      BY DrawnFinite, Numbers
    <3> QED
      BY <2>1, <3>2, <3>3, <3>4, Numbers DEF Accounted
  <2> QED
    BY <1>1, <1>2, <2>1 DEF SubmitCreate
<1>3. ASSUME NEW c \in Claims, NEW named \in BOOLEAN, SubmitFinish(c, named)
      PROVE  Accounted'
  <2>1. CASE escrow[c] = "held" /\ escrow' = [escrow EXCEPT ![c] = "paid"]
    <3>1. Drawn' = Drawn
      BY <2>1 DEF Drawn
    <3> QED
      BY <1>3, <3>1 DEF SubmitFinish, Accounted
  <2> QED
    BY <1>1, <1>3, <2>1 DEF SubmitFinish, LedgerFinishes
<1>4. ASSUME NEW c \in Claims, NEW named \in BOOLEAN, SubmitCancel(c, named)
      PROVE  Accounted'
  <2>1. CASE /\ escrow[c] = "held" /\ pool' = pool + Payout
             /\ escrow' = [escrow EXCEPT ![c] = "returned"]
    <3>1. Cardinality(Drawn') = Cardinality(Drawn) - 1
      BY <2>1, OneReturned
    <3>2. Payout * (Cardinality(Drawn) - 1) = Payout * Cardinality(Drawn) - Payout
      BY DrawnFinite, Numbers
    <3>3. Payout * Cardinality(Drawn) \in Nat
      BY DrawnFinite, Numbers
    <3> QED
      BY <2>1, <3>1, <3>2, <3>3, Numbers DEF Accounted
  <2> QED
    BY <1>1, <1>4, <2>1 DEF SubmitCancel
<1> QED
  BY <1>1, <1>2, <1>3, <1>4
  DEF Next, Environment, Submission, Finish, Tick, Approve, NameEscrow, SubmitBurn,
      CreateClaimEscrow, CancelEscrow, TakeLock, CheckDeadline, FinishReturns, ledger, vars

\* Every variable of the settlement keeps its type, and the pool and the escrows
\* account for every drop, whatever the claims and however many calls there are.
THEOREM TypeCorrect == Spec => []TypeOK
<1> DEFINE Inv == TypesOK /\ CheckedAhead /\ CreatedOnce /\ Accounted
<1>1. Init => Inv
  <2> SUFFICES ASSUME Init PROVE Accounted
    BY TypesInit, CheckedInit, CreatedInit
  <2>1. Drawn = {}
    BY DEF Init, Drawn
  <2> QED
    BY <2>1, FS_EmptySet, Numbers DEF Init, Accounted
<1>2. Inv /\ [Next]_vars => Inv'
  BY TypesStep, CheckedStep, CreatedStep, AccountedStep
<1>3. Inv => TypeOK
  BY DEF TypesOK, TypeOK, Accounted, Drawn
<1> QED
  BY <1>1, <1>2, <1>3, PTL DEF Spec

----------------------------------------------------------------------------
(* The times of an escrow that pays.                                       *)

\* Every escrow that pays does so after its deadline, with a transaction obtained by a
\* check made before it (finish_escrow against the FinishAfter of create_claim_escrow).
THEOREM PaidAcrossDeadlineHolds == Spec => PaidAcrossDeadline
<1> DEFINE Inv == TypesOK /\ CheckedAhead
           Step == \A c \in Claims : Paid(c) =>
                     /\ latest[c] # Never /\ latest[c] < record[c].deadline
                     /\ record[c].deadline < time /\ time <= record[c].cancelAfter
<1>1. Init => Inv
  BY TypesInit, CheckedInit
<1>2. Inv /\ [Next]_vars => Inv'
  BY TypesStep, CheckedStep
<1>3. Inv /\ [Next]_vars => [Step]_vars
  <2> SUFFICES ASSUME Inv, Next, NEW c \in Claims, Paid(c)
               PROVE  /\ latest[c] # Never /\ latest[c] < record[c].deadline
                      /\ record[c].deadline < time /\ time <= record[c].cancelAfter
    OBVIOUS
  <2>1. PICK named \in BOOLEAN : SubmitFinish(c, named)
    <3> USE DEF TypesOK, Paid
    <3>1. CASE UNCHANGED escrow
      BY <3>1
    <3>2. ASSUME NEW d \in Claims, SubmitCreate(d) PROVE FALSE
      BY <3>2 DEF SubmitCreate
    <3>3. ASSUME NEW d \in Claims, NEW n \in BOOLEAN, SubmitCancel(d, n) PROVE FALSE
      BY <3>3 DEF SubmitCancel
    <3>4. ASSUME NEW d \in Claims, NEW n \in BOOLEAN, SubmitFinish(d, n) PROVE d = c
      BY <3>4 DEF SubmitFinish
    <3> QED
      BY <3>1, <3>2, <3>3, <3>4
      DEF Next, Environment, Submission, Finish, Tick, Approve, NameEscrow, SubmitBurn,
          CreateClaimEscrow, CancelEscrow, TakeLock, CheckDeadline, FinishReturns, ledger
  <2>2. Tx("finish", c, named) \in handed /\ LedgerFinishes(c)
    BY <2>1 DEF SubmitFinish, Submit, Paid
  <2> QED
    BY <2>2 DEF CheckedAhead, LedgerFinishes
<1> QED
  BY <1>1, <1>2, <1>3, PTL DEF Spec, PaidAcrossDeadline

----------------------------------------------------------------------------
(* The lock.                                                               *)

LockInv == LockedFinishesApart /\ LockOutlives

LEMMA LockInit == Init => LockInv
BY DEF Init, LockInv, LockedFinishesApart, LockOutlives, Holds, Idle

\* What the other actions and the calls of other claims leave alone.
LEMMA LockStutter ==
  ASSUME LockInv, UNCHANGED <<lock, call, starts>>
  PROVE  LockInv'
BY DEF LockInv, LockedFinishesApart, LockOutlives, Holds, Apart

LEMMA LockStep == ASSUME TypesOK, LockInv, [Next]_vars PROVE LockInv'
<1>1. CASE UNCHANGED <<lock, call, starts>>
  BY <1>1, LockStutter
<1>2. ASSUME NEW w \in Workers, NEW c \in Claims, TakeLock(w, c) PROVE LockInv'
  <2>1. /\ \A v \in Workers \ {w} : call'[v] = call[v]
        /\ UNCHANGED starts
        /\ \A d \in Claims \ {c} : lock'[d] = lock[d]
        /\ call'[w].claim = c
    BY <1>2 DEF TakeLock, InCall, TypesOK, history
  <2>2. CASE SetNX(c) /\ lock'[c] = time + LockTTL /\ call'[w].start = time
    <3>1. \A s \in starts[c] : s \in Int /\ s + LockTTL <= time
      BY <2>2, Numbers DEF SetNX, LockInv, LockOutlives, TypesOK, Times
    <3>2. ASSUME NEW v \in Workers, Holds(v, c)
          PROVE call[v].start \in Int /\ call[v].start + LockTTL <= time
      BY <2>2, <3>2, Numbers
      DEF SetNX, LockInv, LockOutlives, TypesOK, Times, Holds, CallType
    <3>3. time \in Int /\ LockTTL \in Int
      BY Numbers DEF TypesOK, Times
    <3>4. LockOutlives'
      <4> SUFFICES ASSUME NEW d \in Claims
                   PROVE /\ \A s \in starts[d] : s + LockTTL <= lock'[d]
                         /\ \A v \in Workers : Holds(v, d)' =>
                              call'[v].start + LockTTL <= lock'[d]
        BY <2>1 DEF LockOutlives
      <4>1. CASE d # c
        <5>1. lock'[d] = lock[d] /\ ~Holds(w, d)'
          BY <2>1, <4>1 DEF Holds
        <5>2. \A v \in Workers : Holds(v, d)' => Holds(v, d) /\ call'[v].start = call[v].start
          BY <2>1, <5>1 DEF Holds
        <5> QED
          BY <5>1, <5>2 DEF LockInv, LockOutlives
      <4>2. CASE d = c
        <5>1. \A s \in starts[c] : s + LockTTL <= time + LockTTL
          BY <3>1, <3>3, Numbers
        <5>2. ASSUME NEW v \in Workers, Holds(v, c)'
              PROVE call'[v].start + LockTTL <= time + LockTTL
          <6>1. CASE v = w
            BY <2>2, <3>3, <6>1
          <6>2. CASE v # w
            <7>1. Holds(v, c) /\ call'[v].start = call[v].start
              BY <2>1, <5>2, <6>2 DEF Holds
            <7> QED
              BY <3>2, <3>3, <7>1, Numbers
          <6> QED
            BY <6>1, <6>2
        <5> QED
          BY <2>2, <4>2, <5>1, <5>2
      <4> QED
        BY <4>1, <4>2
    <3>5. LockedFinishesApart'
      <4>1. \A s \in starts[c] : Apart(time, s) /\ Apart(s, time)
        BY <3>1, <3>3 DEF Apart
      <4>2. \A v \in Workers : Holds(v, c) => Apart(time, call[v].start) /\ Apart(call[v].start, time)
        BY <3>2, <3>3 DEF Apart
      <4>3. \A v \in Workers \ {w}, d \in Claims : Holds(v, d)' =>
              Holds(v, d) /\ call'[v].start = call[v].start
        BY <2>1 DEF Holds
      <4>4. \A d \in Claims : Holds(w, d)' => d = c
        BY <2>1 DEF Holds
      <4>5. \A s, t : Apart(s, t)' <=> Apart(s, t)
        BY DEF Apart
      <4> SUFFICES ASSUME NEW d \in Claims
                   PROVE /\ \A s, t \in starts[d] : s = t \/ Apart(s, t)
                         /\ \A v \in Workers : Holds(v, d)' =>
                              /\ \A s \in starts[d] : Apart(call'[v].start, s)
                              /\ \A u \in Workers \ {v} : Holds(u, d)' =>
                                   Apart(call'[v].start, call'[u].start)
        BY <2>1, <4>5 DEF LockedFinishesApart
      <4>6. \A s, t \in starts[d] : s = t \/ Apart(s, t)
        BY DEF LockInv, LockedFinishesApart
      <4>7. ASSUME NEW v \in Workers, Holds(v, d)'
            PROVE \A s \in starts[d] : Apart(call'[v].start, s)
        BY <2>2, <4>1, <4>3, <4>4, <4>7 DEF LockInv, LockedFinishesApart
      <4>8. ASSUME NEW v \in Workers, Holds(v, d)', NEW u \in Workers \ {v}, Holds(u, d)'
            PROVE Apart(call'[v].start, call'[u].start)
        <5>1. CASE v = w
          BY <2>2, <4>2, <4>3, <4>4, <4>8, <5>1
        <5>2. CASE u = w
          BY <2>2, <4>2, <4>3, <4>4, <4>8, <5>2
        <5>3. CASE v # w /\ u # w
          BY <4>3, <4>8, <5>3 DEF LockInv, LockedFinishesApart
        <5> QED
          BY <5>1, <5>2, <5>3
      <4> QED
        BY <4>6, <4>7, <4>8
    <3> QED
      BY <3>4, <3>5 DEF LockInv
  <2>3. CASE UNCHANGED lock /\ call'[w].start = Unlocked
    BY <2>1, <2>3 DEF LockInv, LockOutlives, LockedFinishesApart, Holds, Apart
  <2> QED
    BY <1>2, <2>2, <2>3 DEF TakeLock, InCall, TypesOK
<1>3. ASSUME NEW w \in Workers, CheckDeadline(w) PROVE LockInv'
  <2>1. /\ \A v \in Workers \ {w} : call'[v] = call[v]
        /\ UNCHANGED <<lock, starts>>
        /\ \/ call'[w].at = "idle"
           \/ /\ call[w].at # "idle" /\ call'[w].claim = call[w].claim
              /\ call'[w].start = call[w].start
    BY <1>3 DEF CheckDeadline, Idle, TypesOK, CallType
  <2>2. \A v \in Workers, c \in Claims : Holds(v, c)' =>
          Holds(v, c) /\ call'[v].start = call[v].start
    BY <2>1 DEF Holds
  <2> QED
    BY <2>1, <2>2 DEF LockInv, LockOutlives, LockedFinishesApart, Apart
<1>4. ASSUME NEW w \in Workers, FinishReturns(w) PROVE LockInv'
  <2> DEFINE c == call[w].claim
  <2>1. /\ \A v \in Workers \ {w} : call'[v] = call[v]
        /\ call'[w].at = "idle" /\ call[w].at # "idle"
        /\ UNCHANGED lock
        /\ \A d \in Claims \ {c} : starts'[d] = starts[d]
    BY <1>4 DEF FinishReturns, Idle, TypesOK
  <2>2. \A v \in Workers, d \in Claims : Holds(v, d)' =>
          v # w /\ Holds(v, d) /\ call'[v].start = call[v].start
    BY <2>1 DEF Holds
  <2>3. starts'[c] = starts[c] \/ (Holds(w, c) /\ starts'[c] = starts[c] \cup {call[w].start})
    <3>1. c \in Claims /\ starts[c] \in SUBSET Times
      BY <2>1 DEF TypesOK, CallType
    <3>2. starts' = starts \/ starts'[c] = starts[c] \cup ({call[w].start} \ {Unlocked})
      BY <1>4, <3>1 DEF FinishReturns, TypesOK
    <3>3. CASE call[w].start = Unlocked
      BY <3>2, <3>3
    <3>4. CASE call[w].start # Unlocked
      BY <2>1, <3>2, <3>4 DEF Holds
    <3> QED
      BY <3>3, <3>4
  <2>4. \A s, t \in Int : Apart(s, t) <=> Apart(t, s)
    BY DEF Apart
  <2>5. \A v \in Workers, d \in Claims : Holds(v, d) => call[v].start \in Int
    BY DEF Holds, TypesOK, CallType, Times, Unlocked
  <2>6. \A d \in Claims : starts[d] \subseteq Int
    BY DEF TypesOK, Times
  <2> HIDE DEF c
  <2>7. LockOutlives'
    BY <2>1, <2>2, <2>3 DEF LockInv, LockOutlives
  <2>8. LockedFinishesApart'
    <3> SUFFICES ASSUME NEW d \in Claims
                 PROVE /\ \A s, t \in starts'[d] : s = t \/ Apart(s, t)
                       /\ \A v \in Workers : Holds(v, d)' =>
                            /\ \A s \in starts'[d] : Apart(call'[v].start, s)
                            /\ \A u \in Workers \ {v} : Holds(u, d)' =>
                                 Apart(call'[v].start, call'[u].start)
      BY DEF LockedFinishesApart, Apart
    <3>1. starts'[d] = starts[d] \/ (Holds(w, d) /\ starts'[d] = starts[d] \cup {call[w].start})
      BY <2>1, <2>3
    <3> QED
      BY <2>2, <2>4, <2>5, <2>6, <3>1 DEF LockInv, LockedFinishesApart
  <2> QED
    BY <2>7, <2>8 DEF LockInv
<1> QED
  BY <1>1, <1>2, <1>3, <1>4
  DEF Next, Environment, Submission, Finish, Tick, Approve, NameEscrow, SubmitCreate,
      SubmitFinish, SubmitCancel, SubmitBurn, Submit, CreateClaimEscrow, CancelEscrow, history, vars

\* Calls that got the lock of one claim are a lock's life apart, for any number of
\* calls and whatever Redis fails to answer.
THEOREM LockedFinishesApartHolds == Spec => []LockedFinishesApart
<1>1. Init => TypesOK /\ CheckedAhead /\ LockInv
  BY TypesInit, CheckedInit, LockInit
<1>2. TypesOK /\ CheckedAhead /\ LockInv /\ [Next]_vars => (TypesOK /\ CheckedAhead /\ LockInv)'
  BY TypesStep, CheckedStep, LockStep
<1>3. LockInv => LockedFinishesApart
  BY DEF LockInv
<1> QED
  BY <1>1, <1>2, <1>3, PTL DEF Spec
=============================================================================
