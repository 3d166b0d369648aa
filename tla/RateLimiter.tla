---------------------------- MODULE RateLimiter ----------------------------
(***************************************************************************)
(* check_rate_limit of ward/primitives.py: the sliding-window limiter that *)
(* step 9 of the claim validator consults once per otherwise good claim.   *)
(*                                                                         *)
(* The limiter keeps one dict, from NFT token IDs to deques of the         *)
(* monotonic-clock stamps of the calls it let through.  A dict keeps the   *)
(* order in which its keys were inserted, and the size guard evicts from   *)
(* the front of that order, so the model keeps the order too.              *)
(*                                                                         *)
(* Two specifications share the operators.  In Spec a call reads the clock *)
(* and runs the locked section in one step: there is no await between the  *)
(* two, so coroutines of one event loop cannot come between them.  In      *)
(* ThreadedSpec the callers are threads, which the lock serialises but     *)
(* whose clock is read before the lock is taken.                           *)
(***************************************************************************)
EXTENDS Integers, Sequences, FiniteSets, SequencesExt

CONSTANTS
  Tokens,      \* NFT token IDs
  Threads,     \* callers of ThreadedSpec
  WindowS,     \* CLAIM_RATE_LIMIT_WINDOW_S
  MaxAttempts, \* CLAIM_RATE_LIMIT_MAX
  MaxEntries,  \* _MAX_RATE_LIMIT_ENTRIES
  EvictCount,  \* _RATE_LIMIT_EVICT_COUNT
  MaxTime,     \* bound on the clock
  MaxCalls     \* bound on the calls let through

ASSUME LimitAssumption ==
  /\ WindowS \in Nat \ {0}
  /\ MaxAttempts \in Nat \ {0}
  /\ MaxEntries \in Nat \ {0}
  /\ EvictCount \in 1 .. MaxEntries
  /\ MaxTime \in Nat
  /\ MaxCalls \in Nat

VARIABLES
  clock,     \* time.monotonic()
  windows,   \* _rate_limit_windows: the deque of each token, <<>> for no key
  order,     \* the dict's keys in insertion order
  outcome,   \* the last call: its token, its stamp, let through or refused
  stamp,     \* [Threads -> the token and the clock value a thread has read]
  accepted,  \* history: every stamp let through, per token, in lock order
  forgotten  \* history: how many of accepted[tok] an eviction dropped

vars == <<clock, windows, order, outcome, stamp, accepted, forgotten>>

NoRead == [token |-> "none", at |-> 0]
NoCall == [token |-> "none", at |-> 0, ok |-> TRUE]

Init ==
  /\ clock = 0
  /\ windows = [tok \in Tokens |-> << >>]
  /\ order = << >>
  /\ outcome = NoCall
  /\ stamp = [t \in Threads |-> NoRead]
  /\ accepted = [tok \in Tokens |-> << >>]
  /\ forgotten = [tok \in Tokens |-> 0]

----------------------------------------------------------------------------
(* The locked section.                                                     *)

\* Mutants: a window one tick short, and one that keeps its boundary stamp.
ExpiredEarly(now, s) == now - s >= WindowS - 1
ExpiredLate(now, s) == now - s > WindowS

Expired(now, s) == now - s >= WindowS

\* The popleft loop over deque w stops after k pops: each popped stamp has
\* expired, and it stops at the first that has not.
PopsTo(w, now, k) ==
  /\ \A i \in 1 .. k : Expired(now, w[i])
  /\ k < Len(w) => ~Expired(now, w[k + 1])

\* Mutant: one attempt too many.
FullLate(live) == Len(live) > MaxAttempts
Full(live) == Len(live) >= MaxAttempts

\* A key that is new, or whose deque came out empty and is deleted and created
\* again, goes to the end of the dict's order.
\* Without finds the key's position, if it has one, and removes it there.
Without(keys, tok) ==
  IF \E i \in 1 .. Len(keys) : keys[i] = tok
  THEN RemoveAt(keys, CHOOSE i \in 1 .. Len(keys) : keys[i] = tok)
  ELSE keys

Reinserted(tok, live) ==
  IF live = << >> THEN Append(Without(order, tok), tok) ELSE order

\* Mutant: the guard runs before the call's own key is in the dict.
EvictedCountBefore(keys) == IF Len(order) > MaxEntries THEN EvictCount ELSE 0

\* The size guard runs after the stamp is appended, so it may find one key too
\* many; it deletes the EvictCount keys inserted first.
EvictedCount(keys) == IF Len(keys) > MaxEntries THEN EvictCount ELSE 0

Refuse(tok, now, live) ==
  /\ Full(live)
  /\ windows' = [windows EXCEPT ![tok] = live]
  /\ outcome' = [token |-> tok, at |-> now, ok |-> FALSE]
  /\ UNCHANGED <<order, accepted, forgotten>>

Accept(tok, now, live) ==
  /\ ~Full(live)
  /\ LET keys == Reinserted(tok, live)
         gone == {keys[i] : i \in 1 .. EvictedCount(keys)}
     IN  /\ accepted' = [accepted EXCEPT ![tok] = Append(@, now)]
         /\ windows' = [x \in Tokens |->
              IF x \in gone THEN << >>
              ELSE IF x = tok THEN Append(live, now) ELSE windows[x]]
         /\ order' = SubSeq(keys, EvictedCount(keys) + 1, Len(keys))
         /\ forgotten' = [x \in Tokens |->
              IF x \notin gone THEN forgotten[x]
              ELSE Len(accepted[x]) + (IF x = tok THEN 1 ELSE 0)]
  /\ outcome' = [token |-> tok, at |-> now, ok |-> TRUE]

LockedSection(tok, now) ==
  \E k \in 0 .. Len(windows[tok]) :
    /\ PopsTo(windows[tok], now, k)
    /\ LET live == SubSeq(windows[tok], k + 1, Len(windows[tok]))
       IN  Refuse(tok, now, live) \/ Accept(tok, now, live)

----------------------------------------------------------------------------
Tick ==
  /\ clock < MaxTime
  /\ clock' = clock + 1
  /\ UNCHANGED <<windows, order, outcome, stamp, accepted, forgotten>>

\* check_rate_limit called from a coroutine.  CallsLeft bounds the history.
CallsLeft == \A tok \in Tokens : Len(accepted[tok]) < MaxCalls

Call(tok) ==
  /\ CallsLeft
  /\ LockedSection(tok, clock)
  /\ UNCHANGED <<clock, stamp>>

Next == Tick \/ \E tok \in Tokens : Call(tok)

Spec == Init /\ [][Next]_vars

\* check_rate_limit called from a thread: the clock first, the lock later.
ReadClock(t, tok) ==
  /\ stamp[t] = NoRead
  /\ stamp' = [stamp EXCEPT ![t] = [token |-> tok, at |-> clock]]
  /\ UNCHANGED <<clock, windows, order, outcome, accepted, forgotten>>

TakeLock(t) ==
  /\ stamp[t] # NoRead
  /\ CallsLeft
  /\ LockedSection(stamp[t].token, stamp[t].at)
  /\ stamp' = [stamp EXCEPT ![t] = NoRead]
  /\ UNCHANGED clock

ThreadedNext ==
  \/ Tick
  \/ \E t \in Threads : TakeLock(t) \/ \E tok \in Tokens : ReadClock(t, tok)

ThreadedSpec == Init /\ [][ThreadedNext]_vars

----------------------------------------------------------------------------
(* Properties.                                                             *)

\* Every variable has its type, and no deque holds more stamps than the limit.
TypeOK ==
  /\ clock \in Nat
  /\ windows \in [Tokens -> Seq(Nat)]
  /\ \A tok \in Tokens : Len(windows[tok]) <= MaxAttempts
  /\ order \in Seq(Tokens)
  /\ outcome \in [token : Tokens \cup {"none"}, at : Nat, ok : BOOLEAN]
  /\ stamp \in [Threads -> [token : Tokens \cup {"none"}, at : Nat]]
  /\ accepted \in [Tokens -> Seq(Nat)]
  /\ forgotten \in [Tokens -> Nat]

\* "Allows at most CLAIM_RATE_LIMIT_MAX attempts within any
\* CLAIM_RATE_LIMIT_WINDOW_S second window" (check_rate_limit's docstring), for
\* the calls let through since the size guard last evicted the token: their
\* stamps are in clock order, and any MaxAttempts + 1 in a row span a window.
WindowBound ==
  \A tok \in Tokens :
    LET log == accepted[tok]
    IN  \A i \in forgotten[tok] + 1 .. Len(log) :
          /\ i < Len(log) => log[i] <= log[i + 1]
          /\ i + MaxAttempts <= Len(log) => log[i + MaxAttempts] - log[i] >= WindowS

\* The docstring's sentence as it stands: every window of WindowS ticks holds at
\* most MaxAttempts of a token's stamps, whatever order they were taken in.
DocstringBound ==
  \A tok \in Tokens, from \in 0 .. MaxTime :
    Cardinality({i \in 1 .. Len(accepted[tok]) :
                   accepted[tok][i] \in from .. from + WindowS - 1}) <= MaxAttempts

\* A call is refused only when MaxAttempts earlier calls for its token really
\* fall inside the window that ends at its own stamp: the expiry loop never
\* leaves behind a stamp that no longer counts.
RefusalJustified ==
  ~outcome.ok =>
    LET log == accepted[outcome.token]
    IN  /\ Len(log) >= MaxAttempts
        /\ outcome.at - log[Len(log) - MaxAttempts + 1] < WindowS

\* Between calls the dict is never larger than the size guard allows, though a
\* call lets it outgrow the guard for a moment and the guard may evict the caller
\* itself; and its keys are exactly the tokens with a stamp in their deque, so
\* that no key stays behind that only a call for the same token would delete.
DictBounded ==
  /\ Len(order) <= MaxEntries
  /\ {order[i] : i \in 1 .. Len(order)} = {tok \in Tokens : windows[tok] # << >>}
============================================================================
