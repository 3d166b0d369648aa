------------------------- MODULE EscrowSettlement -------------------------
(***************************************************************************)
(* EscrowSettlement of ward/settlement.py: the claims that an institution  *)
(* escrows, finishes and cancels on the policy NFT of one claimant.        *)
(*                                                                         *)
(* Ward builds transactions and signs none.  What a call returns is in     *)
(* `handed` until the institution submits it, which it may do at any later *)
(* time or never; the ledger then applies it or refuses it.  A call that   *)
(* fails hands over nothing, so only finish_escrow, which takes a lock     *)
(* before it can fail, has steps of its own.                               *)
(***************************************************************************)
EXTENDS Integers, FiniteSets

CONSTANTS
  Claims,      \* claim ids, all on one policy NFT
  Workers,     \* concurrent finish_escrow calls
  Payout,      \* drops an approved claim pays
  PoolDrops,   \* usable drops of the pool at the start
  DisputeTime, \* ESCROW_DISPUTE_HOURS
  CancelTime,  \* ESCROW_CANCEL_HOURS
  LockTTL,     \* _SETTLEMENT_LOCK_TTL
  LastCreate,  \* bound: escrows are created up to this time
  MaxTime,     \* bound on ledger close time
  RatioNum, RatioDen  \* MIN_COVERAGE_RATIO

ASSUME SettlementAssumption ==
  /\ IsFiniteSet(Claims)
  /\ Payout \in Nat \ {0} /\ PoolDrops \in Nat
  /\ DisputeTime \in Nat \ {0} /\ CancelTime \in Nat /\ DisputeTime < CancelTime
  /\ LockTTL \in Nat \ {0}
  /\ LastCreate \in Nat /\ MaxTime \in Nat /\ MaxTime > LastCreate + CancelTime
  /\ RatioNum \in Nat /\ RatioDen \in Nat \ {0} /\ RatioNum >= RatioDen

VARIABLES
  time,    \* external: ledger close time, which Redis's clock follows
  nft,     \* external: the policy NFT, "live" or "burned"
  pool,    \* external: usable drops of the pool
  escrow,  \* external: each claim's escrow: "none", "held", "paid", "returned"
  lock,    \* when the claim's settlement lock expires
  record,  \* each claim's EscrowRecord, or that it is "new" or "approved"
  call,    \* each worker's finish_escrow call
  handed,  \* transactions handed to the institution and not submitted
  latest,  \* history: when each claim's deadline was last checked and found ahead
  starts   \* history: when each claim's calls that held the lock and returned began

vars == <<time, nft, pool, escrow, lock, record, call, handed, latest, starts>>
ledger == <<nft, pool, escrow>>
history == <<latest, starts>>

Times == 0 .. MaxTime
Never == -1     \* no check of the deadline
Unlocked == -1  \* the start of a call that Redis gave no lock
Idle == [at |-> "idle"]
InCall(at, c, start) == [at |-> at, claim |-> c, start |-> start]

\* Mutant: the two times swapped.
RecordSwapped(deadline, cancelAfter) ==
  [at |-> "recorded", deadline |-> cancelAfter, cancelAfter |-> deadline, named |-> FALSE]

\* The record is returned with escrow_sequence = 0: it names no escrow.
Record(deadline, cancelAfter) ==
  [at |-> "recorded", deadline |-> deadline, cancelAfter |-> cancelAfter, named |-> FALSE]

Init ==
  /\ time = 0
  /\ nft = "live" /\ pool = PoolDrops
  /\ escrow = [c \in Claims |-> "none"]
  /\ lock = [c \in Claims |-> 0]
  /\ record = [c \in Claims |-> [at |-> "new"]]
  /\ call = [w \in Workers |-> Idle]
  /\ handed = {}
  /\ latest = [c \in Claims |-> Never] /\ starts = [c \in Claims |-> {}]

----------------------------------------------------------------------------
(* What happens around the calls.                                          *)

Tick ==
  /\ time < MaxTime
  /\ time' = time + 1
  /\ UNCHANGED <<ledger, lock, record, call, handed, history>>

\* validate_claim approves: the NFT is live and the pool solvent when they are read.
Approve(c) ==
  /\ record[c].at = "new"
  /\ nft = "live"
  /\ pool * RatioDen >= RatioNum * Payout
  /\ record' = [record EXCEPT ![c] = [at |-> "approved"]]
  /\ UNCHANGED <<time, ledger, lock, call, handed, history>>

\* `named` says that a finish or a cancel carries the sequence of the claim's escrow.
Tx(type, c, named) == [type |-> type, claim |-> c, named |-> named]

\* External: once it has submitted the creation the institution knows the sequence,
\* and may write it into the record.  Nothing in src/ does.
NameEscrow(c) ==
  /\ record[c].at = "recorded" /\ ~record[c].named
  /\ Tx("create", c, TRUE) \notin handed
  /\ record' = [record EXCEPT ![c].named = TRUE]
  /\ UNCHANGED <<time, ledger, lock, call, handed, history>>

\* A submitted transaction is applied if the ledger allows it, and gone either way.
Submit(tx) ==
  /\ tx \in handed
  /\ handed' = handed \ {tx}
  /\ UNCHANGED <<time, lock, record, call, history>>

\* EscrowCreate: FinishAfter has to lie ahead, and the pool has to hold the amount.
SubmitCreate(c) ==
  /\ Submit(Tx("create", c, TRUE))
  /\ IF time < record[c].deadline /\ pool >= Payout
     THEN /\ escrow' = [escrow EXCEPT ![c] = "held"]
          /\ pool' = pool - Payout
     ELSE UNCHANGED <<escrow, pool>>
  /\ UNCHANGED nft

\* EscrowFinish is refused up to and including FinishAfter, and after CancelAfter.  A
\* finish or a cancel that names no escrow is refused at any time.
LedgerFinishes(c) ==
  /\ escrow[c] = "held"
  /\ record[c].deadline < time
  /\ time <= record[c].cancelAfter

SubmitFinish(c, named) ==
  /\ Submit(Tx("finish", c, named))
  /\ IF named /\ LedgerFinishes(c)
     THEN escrow' = [escrow EXCEPT ![c] = "paid"]
     ELSE UNCHANGED escrow
  /\ UNCHANGED <<nft, pool>>

\* EscrowCancel is refused up to and including CancelAfter.
SubmitCancel(c, named) ==
  /\ Submit(Tx("cancel", c, named))
  /\ IF named /\ escrow[c] = "held" /\ record[c].cancelAfter < time
     THEN /\ escrow' = [escrow EXCEPT ![c] = "returned"]
          /\ pool' = pool + Payout
     ELSE UNCHANGED <<escrow, pool>>
  /\ UNCHANGED nft

SubmitBurn(c) ==
  /\ Submit(Tx("burn", c, TRUE))
  /\ nft' = "burned"
  /\ UNCHANGED <<pool, escrow>>

----------------------------------------------------------------------------
(* create_claim_escrow.                                                    *)

\* The institution asks for the escrow of an approved claim.  Both times count from
\* the close time read here, whenever the transaction is submitted.
CreateClaimEscrow(c) ==
  /\ record[c].at = "approved"
  /\ time <= LastCreate
  /\ record' = [record EXCEPT ![c] = Record(time + DisputeTime, time + CancelTime)]
  /\ handed' = handed \cup {Tx("create", c, TRUE)}
  /\ UNCHANGED <<time, ledger, lock, call, history>>

----------------------------------------------------------------------------
(* finish_escrow.                                                          *)

\* Mutant: SET without NX, so that every caller gets the lock.
SetWithoutNX(c) == TRUE

\* SET NX: a key that has expired is no key.
SetNX(c) == lock[c] <= time

\* The call begins with the lock: a lock that is taken raises, a Redis that does not
\* answer, or was not there when the process started, is passed over.
TakeLock(w, c) ==
  /\ call[w] = Idle /\ record[c].at = "recorded"
  /\ \/ /\ SetNX(c)
        /\ lock' = [lock EXCEPT ![c] = time + LockTTL]
        /\ call' = [call EXCEPT ![w] = InCall("locked", c, time)]
     \/ /\ call' = [call EXCEPT ![w] = InCall("locked", c, Unlocked)]
        /\ UNCHANGED lock
  /\ UNCHANGED <<time, ledger, record, handed, history>>

\* Mutant: the finish is built from the deadline on.
BeforeCancel(c) == time < record[c].cancelAfter

BeforeDeadline(c) == time < record[c].deadline

\* The ledger time is compared with the deadline.  Whether this raises or the
\* request fails, the lock stays taken.
CheckDeadline(w) ==
  /\ call[w].at = "locked"
  /\ \/ /\ BeforeDeadline(call[w].claim)
        /\ call' = [call EXCEPT ![w].at = "checked"]
        /\ latest' = [latest EXCEPT ![call[w].claim] = time]
     \/ call' = [call EXCEPT ![w] = Idle] /\ UNCHANGED latest
  /\ UNCHANGED <<time, ledger, lock, record, handed, starts>>

\* Both transactions are autofilled and handed over, or a request fails and neither
\* is.  The burn is a transaction of its own.
FinishReturns(w) ==
  /\ call[w].at = "checked"
  /\ call' = [call EXCEPT ![w] = Idle]
  /\ LET c == call[w].claim
     IN  \/ /\ handed' = handed \cup {Tx("finish", c, record[c].named), Tx("burn", c, TRUE)}
            /\ starts' = [starts EXCEPT ![c] = @ \cup ({call[w].start} \ {Unlocked})]
         \/ UNCHANGED <<handed, starts>>
  /\ UNCHANGED <<time, ledger, lock, record, latest>>

----------------------------------------------------------------------------
(* cancel_escrow.                                                          *)

\* Mutant: the comparison the other way round.
CancellableBefore(c) == time < record[c].cancelAfter

Cancellable(c) == time >= record[c].cancelAfter

CancelEscrow(c) ==
  /\ record[c].at = "recorded" /\ Cancellable(c)
  /\ handed' = handed \cup {Tx("cancel", c, record[c].named)}
  /\ UNCHANGED <<time, ledger, lock, record, call, history>>

----------------------------------------------------------------------------

Environment == Tick \/ \E c \in Claims : Approve(c) \/ NameEscrow(c)

Submission(c) ==
  \/ SubmitCreate(c) \/ SubmitBurn(c)
  \/ \E named \in BOOLEAN : SubmitFinish(c, named) \/ SubmitCancel(c, named)

Finish(w) == (\E c \in Claims : TakeLock(w, c)) \/ CheckDeadline(w) \/ FinishReturns(w)

Next ==
  \/ Environment
  \/ \E c \in Claims : Submission(c) \/ CreateClaimEscrow(c) \/ CancelEscrow(c)
  \/ \E w \in Workers : Finish(w)

\* Time goes on, and the pool that has an escrow to cancel asks for the
\* transaction and submits it.  Nobody is obliged to finish one, and nobody to
\* write the escrow's sequence into its record.
Fairness ==
  /\ WF_vars(Tick)
  /\ \A c \in Claims : WF_vars(CancelEscrow(c)) /\ WF_vars(SubmitCancel(c, TRUE))

Spec == Init /\ [][Next]_vars
FairSpec == Spec /\ Fairness

----------------------------------------------------------------------------
(* Properties.                                                             *)

RecordType ==
  [at : {"new", "approved"}]
  \cup {r \in [at : {"recorded"}, deadline : Times, cancelAfter : Times,
               named : BOOLEAN] : r.deadline < r.cancelAfter}

CallType ==
  [at : {"idle"}]
  \cup [at : {"locked", "checked"}, claim : Claims, start : Times \cup {Unlocked}]

\* Every variable has its type, and the pool and the escrows account for every drop.
TypeOK ==
  /\ time \in Times /\ nft \in {"live", "burned"} /\ pool \in Nat
  /\ escrow \in [Claims -> {"none", "held", "paid", "returned"}]
  /\ lock \in [Claims -> 0 .. MaxTime + LockTTL]
  /\ record \in [Claims -> RecordType]
  /\ call \in [Workers -> CallType]
  /\ handed \subseteq [type : {"create", "finish", "burn", "cancel"}, claim : Claims,
                       named : BOOLEAN]
  /\ latest \in [Claims -> Times \cup {Never}] /\ starts \in [Claims -> SUBSET Times]
  /\ pool + Payout * Cardinality({c \in Claims : escrow[c] \in {"held", "paid"}}) = PoolDrops

Paid(c) == escrow[c] # "paid" /\ escrow'[c] = "paid"

\* Every escrow that pays does so after its deadline, by a call of finish_escrow that
\* found the deadline ahead: the code permits a finish only while the ledger still
\* refuses it, so the institution has to hold the transaction back (the guard of
\* finish_escrow against the FinishAfter that create_claim_escrow sets).
PaidAcrossDeadline ==
  [][\A c \in Claims : Paid(c) =>
       /\ latest[c] # Never /\ latest[c] < record[c].deadline
       /\ record[c].deadline < time /\ time <= record[c].cancelAfter]_vars

Holds(w, c) == call[w].at # "idle" /\ call[w].claim = c /\ call[w].start # Unlocked
Apart(s, t) == s - t >= LockTTL \/ t - s >= LockTTL

\* Any two calls of finish_escrow that got the claim's lock began at least the lock's
\* life apart, whether they are under way or have returned, however many there were
\* and whichever of them Redis did not answer: nobody gives the lock back early.
LockedFinishesApart ==
  \A c \in Claims :
    /\ \A s, t \in starts[c] : s = t \/ Apart(s, t)
    /\ \A w \in Workers : Holds(w, c) =>
         /\ \A s \in starts[c] : Apart(call[w].start, s)
         /\ \A v \in Workers \ {w} : Holds(v, c) => Apart(call[w].start, call[v].start)

\* No drop stays for ever in an escrow whose sequence the institution has written
\* into the record: what is not paid goes back to the pool, however finish_escrow's
\* calls fail and whatever its lock still refuses (cancel_escrow takes no lock).  With
\* the record as create_claim_escrow returns it no cancel takes effect, and the drops
\* stay where they are.
HeldIsResolved ==
  \A c \in Claims :
    escrow[c] = "held" /\ record[c].named ~> escrow[c] \in {"paid", "returned"}

\* Before it produces settlement instructions Ward confirms that the policy has not
\* been settled or burned, so that one policy NFT is paid for once.
SettledOnce == Cardinality({c \in Claims : escrow[c] = "paid"}) <= 1
============================================================================
