--------------------------- MODULE ClaimPromise ---------------------------
(***************************************************************************)
(* What one call of ClaimValidator.validate_claim promises its caller: the *)
(* abstract specification that the nine steps of ClaimValidator implement. *)
(*                                                                         *)
(* The ledger moves on while a call reads it, one request at a time and    *)
(* none of them pinned to a ledger index.  So the promise cannot be that   *)
(* the conditions of an approval hold together; it is that each of them    *)
(* held at some moment of the call.  `seen` is the set of ledger states    *)
(* there have been since the call began.                                   *)
(***************************************************************************)
EXTENDS Integers

CONSTANTS
  ReadyAt,     \* NextPaymentDueDate + GracePeriod of the loan
  DrawLimit,   \* DebtTotal x CoverRateMinimum x CoverRateLiquidation
  RatioNum,    \* MIN_COVERAGE_RATIO is RatioNum / RatioDen
  RatioDen

VARIABLES
  ledger,   \* the validated ledger
  seen,     \* every ledger state since the call began
  blind,    \* the call could not read the LoanBroker
  policy,   \* what the policy NFT's URI says, and the vault the call names
  verdict   \* "none", "open", or the call's result

pvars == <<ledger, seen, blind, policy, verdict>>

Least(a, b) == IF a <= b THEN a ELSE b

\* First-loss capital a default would draw, as rippled's LoanManage computes it.
Draw(gross, cover) == Least(Least(DrawLimit, gross), cover)

\* The loan has defaulted, or may be defaulted as soon as anybody asks.
InDefault(l, time) == l.flag \/ (time >= ReadyAt /\ l.gross > 0)

\* The most that an approval may pay: the loss of one moment net of the cover of
\* one moment.
LossSeen(payout) ==
  \E l, t, b \in seen :
    InDefault(l, t.time) /\ payout <= l.gross - Draw(l.gross, b.cover)

\* What the code pays when it could not read the cover: the gross loss.
GrossSeen(payout) ==
  \E l, t \in seen : InDefault(l, t.time) /\ payout <= l.gross

Backed(payout) ==
  \E l \in seen : l.usable >= payout /\ l.usable * RatioDen >= RatioNum * payout

\* The conditions of an approval, its loss apart.
Due(payout) ==
  /\ payout > 0
  /\ payout <= policy.coverage
  /\ policy.vault = policy.claimed
  /\ \E l \in seen : l.holder = "claimant"
  /\ \E l \in seen : l.premium
  /\ \E l \in seen : l.time <= policy.expiry
  /\ Backed(payout)

PInit ==
  /\ seen = {}
  /\ blind = FALSE
  /\ verdict = [kind |-> "none", payout |-> 0]

PBegin ==
  /\ verdict.kind # "open"
  /\ verdict' = [kind |-> "open", payout |-> 0]
  /\ seen' = {ledger}
  /\ blind' = FALSE
  /\ UNCHANGED <<ledger, policy>>

\* The ledger moves, or the call makes progress that nobody can see.
PMove ==
  /\ seen' = IF verdict.kind = "open" THEN seen \cup {ledger'} ELSE seen
  /\ verdict' = verdict
  /\ blind => blind'
  /\ policy' = policy

PReject ==
  /\ verdict.kind = "open"
  /\ verdict' \in [kind : {"rejected", "raised"}, payout : {0}]
  /\ UNCHANGED <<ledger, seen, blind, policy>>

Approve ==
  /\ verdict.kind = "open"
  /\ verdict'.kind = "approved"
  /\ Due(verdict'.payout)
  /\ UNCHANGED <<ledger, seen, blind, policy>>

PApprove == Approve /\ LossSeen(verdict'.payout)

\* The exception: a call that failed to read the LoanBroker goes on as if there
\* were no cover, and may pay more than any net loss there was.  It contradicts
\* "unavailable ledger reads ... must fail closed" (INV-028) and "Ward pays on the
\* NET loss" (_step4_verify_default_flag), and is what the code does.
PApproveBlind == blind /\ Approve /\ GrossSeen(verdict'.payout)

\* The promise as documented, and the promise with its exception.
PStrict == PInit /\ [][PBegin \/ PMove \/ PReject \/ PApprove]_pvars

PSpec == PInit /\ [][PBegin \/ PMove \/ PReject \/ PApprove \/ PApproveBlind]_pvars
============================================================================
