------------------------- MODULE RateLimiterProofs -------------------------
(***************************************************************************)
(* What the limiter promises, for every window length, attempt limit, dict *)
(* size and eviction count.                                                *)
(*                                                                         *)
(* WindowBound is not inductive: it does not say how the deque relates to  *)
(* the calls let through.  LogInv adds that.  The deque of a token is the  *)
(* tail of its log; the stamps between the last eviction and that tail     *)
(* have all expired, and stay so because the clock never goes back.        *)
(***************************************************************************)
EXTENDS RateLimiter, SequenceTheorems, TLAPS

Popped(tok) == Len(accepted[tok]) - Len(windows[tok])

DequeIsTail(tok) ==
  /\ forgotten[tok] <= Popped(tok)
  /\ Len(windows[tok]) <= MaxAttempts
  /\ \A i \in 1 .. Len(windows[tok]) :
       windows[tok][i] = accepted[tok][Popped(tok) + i]

PoppedExpired(tok) ==
  /\ \A i \in forgotten[tok] + 1 .. Popped(tok) : Expired(clock, accepted[tok][i])
  /\ \A i \in forgotten[tok] + 1 .. Len(accepted[tok]) : accepted[tok][i] <= clock

LogSpaced(tok) ==
  LET log == accepted[tok]
  IN  \A i \in forgotten[tok] + 1 .. Len(log) :
        /\ i < Len(log) => log[i] <= log[i + 1]
        /\ i + MaxAttempts <= Len(log) => log[i + MaxAttempts] - log[i] >= WindowS

LogInvOf(tok) == DequeIsTail(tok) /\ PoppedExpired(tok) /\ LogSpaced(tok)

LogInv == \A tok \in Tokens : LogInvOf(tok)

----------------------------------------------------------------------------
(* Types.                                                                  *)

\* Removing a key from a sequence of keys leaves a sequence of keys.
LEMMA WithoutType ==
  ASSUME NEW keys \in Seq(Tokens), NEW tok \in Tokens
  PROVE  Without(keys, tok) \in Seq(Tokens)
<1>1. CASE \E i \in 1 .. Len(keys) : keys[i] = tok
  <2> DEFINE p == CHOOSE i \in 1 .. Len(keys) : keys[i] = tok
  <2>1. p \in 1 .. Len(keys)
    BY <1>1
  <2> HIDE DEF p
  <2>2. SubSeq(keys, 1, p - 1) \in Seq(Tokens) /\ SubSeq(keys, p + 1, Len(keys)) \in Seq(Tokens)
    BY <2>1, SubSeqProperties
  <2>3. RemoveAt(keys, p) \in Seq(Tokens)
    BY <2>2, ConcatProperties DEF RemoveAt
  <2> QED
    BY <1>1, <2>3 DEF Without, p
<1>2. CASE ~ \E i \in 1 .. Len(keys) : keys[i] = tok
  BY <1>2 DEF Without
<1> QED
  BY <1>1, <1>2

\* What is left of a deque after k pops is a deque, shorter by k, of the later stamps.
LEMMA PoppedDeque ==
  ASSUME NEW w \in Seq(Nat), NEW k \in 0 .. Len(w)
  PROVE  LET live == SubSeq(w, k + 1, Len(w))
         IN  /\ live \in Seq(Nat)
             /\ Len(live) = Len(w) - k
             /\ \A i \in 1 .. Len(live) : live[i] = w[k + i]
<1> DEFINE live == SubSeq(w, k + 1, Len(w))
<1>1. k + 1 \in 1 .. Len(w) + 1 /\ Len(w) \in k .. Len(w)
  OBVIOUS
<1>2. live \in Seq(Nat) /\ Len(live) = Len(w) - k
  BY <1>1, SubSeqProperties
<1>3. \A i \in 1 .. Len(live) : live[i] = w[k + 1 + i - 1]
  BY <1>1, <1>2, SubSeqProperties
<1>4. \A i \in 1 .. Len(live) : live[i] = w[k + i]
  <2> HIDE DEF live
  <2> TAKE i \in 1 .. Len(live)
  <2>1. k + 1 + i - 1 = k + i
    BY <1>1, <1>2
  <2> QED
    BY <1>3, <2>1
<1> HIDE DEF live
<1>5. /\ live \in Seq(Nat)
      /\ Len(live) = Len(w) - k
      /\ \A i \in 1 .. Len(live) : live[i] = w[k + i]
  BY <1>2, <1>4
<1> QED
  BY <1>5 DEF live

\* The locked section, whether it lets the call through or refuses it, keeps
\* every variable in its type.
LEMMA SectionType ==
  ASSUME TypeOK, NEW tok \in Tokens, NEW now \in Nat, LockedSection(tok, now),
         clock' \in Nat, stamp' \in [Threads -> [token : Tokens \cup {"none"}, at : Nat]]
  PROVE  TypeOK'
<1> USE LimitAssumption DEF TypeOK
<1>1. PICK k \in 0 .. Len(windows[tok]) :
        LET live == SubSeq(windows[tok], k + 1, Len(windows[tok]))
        IN  Refuse(tok, now, live) \/ Accept(tok, now, live)
  BY DEF LockedSection
<1> DEFINE live == SubSeq(windows[tok], k + 1, Len(windows[tok]))
<1>2. live \in Seq(Nat) /\ Len(live) <= MaxAttempts
  <2>1. live \in Seq(Nat) /\ Len(live) = Len(windows[tok]) - k
    BY PoppedDeque
  <2> QED
    BY <2>1, LenProperties
<1> HIDE DEF live
<1>3. CASE Refuse(tok, now, live)
  BY <1>2, <1>3 DEF Refuse
<1>4. CASE Accept(tok, now, live)
  <2> DEFINE keys == Reinserted(tok, live)
             gone == {keys[i] : i \in 1 .. EvictedCount(keys)}
  <2>1. keys \in Seq(Tokens)
    BY WithoutType, AppendProperties DEF Reinserted
  <2>2. EvictedCount(keys) \in 0 .. Len(keys)
    BY <2>1 DEF EvictedCount
  <2> HIDE DEF keys
  <2>3. order' \in Seq(Tokens)
    <3>1. order' = SubSeq(keys, EvictedCount(keys) + 1, Len(keys))
      BY <1>4 DEF Accept, keys
    <3> HIDE DEF TypeOK
    <3>2. EvictedCount(keys) + 1 \in Int /\ Len(keys) \in Int
      BY <2>1, <2>2
    <3>3. \A i \in EvictedCount(keys) + 1 .. Len(keys) : keys[i] \in Tokens
      BY <2>1, <2>2
    <3>4. SubSeq(keys, EvictedCount(keys) + 1, Len(keys)) \in Seq(Tokens)
      BY <3>2, <3>3, SubSeqProperties
    <3> QED
      BY <3>1, <3>4
  <2>4. windows' \in [Tokens -> Seq(Nat)]
    <3>1. Append(live, now) \in Seq(Nat)
      BY <1>2, AppendProperties
    <3>2. windows' = [x \in Tokens |->
            IF x \in gone THEN << >>
            ELSE IF x = tok THEN Append(live, now) ELSE windows[x]]
      BY <1>4 DEF Accept, keys
    <3> QED
      BY <3>1, <3>2
  <2>8. \A x \in Tokens : Len(windows'[x]) <= MaxAttempts
    <3>1. Len(Append(live, now)) <= MaxAttempts
      BY <1>2, <1>4, AppendProperties, LenProperties DEF Accept, Full
    <3>2. \A x \in Tokens : windows'[x] \in {<< >>, Append(live, now), windows[x]}
      BY <1>4 DEF Accept
    <3>3. Len(<< >>) <= MaxAttempts
      BY EmptySeq
    <3>4. ASSUME NEW x \in Tokens PROVE Len(windows'[x]) <= MaxAttempts
      <4>1. Len(windows[x]) <= MaxAttempts
        OBVIOUS
      <4> HIDE DEF TypeOK
      <4> QED
        BY <3>1, <3>2, <3>3, <4>1
    <3> QED
      BY <3>4
  <2>5. accepted' \in [Tokens -> Seq(Nat)]
    BY <1>4, AppendProperties DEF Accept
  <2>6. forgotten' \in [Tokens -> Nat]
    BY <1>4 DEF Accept
  <2>7. outcome' \in [token : Tokens \cup {"none"}, at : Nat, ok : BOOLEAN]
    BY <1>4 DEF Accept
  <2> QED
    BY <2>3, <2>4, <2>5, <2>6, <2>7, <2>8
<1> QED
  BY <1>1, <1>3, <1>4 DEF live

\* A call keeps every variable in its type.
LEMMA CallType ==
  ASSUME TypeOK, NEW tok \in Tokens, Call(tok)
  PROVE  TypeOK'
<1>1. /\ LockedSection(tok, clock) /\ clock \in Nat /\ clock' \in Nat
      /\ stamp' \in [Threads -> [token : Tokens \cup {"none"}, at : Nat]]
  BY DEF Call, TypeOK
<1> QED
  BY <1>1, SectionType

\* Every variable of the limiter keeps its type.
THEOREM TypeCorrect == Spec => []TypeOK
<1>1. Init => TypeOK
  <2>1. Len(<< >>) = 0
    BY EmptySeq
  <2> QED
    BY <2>1, EmptySeq, LimitAssumption DEF Init, TypeOK, NoCall, NoRead
<1>2. TypeOK /\ [Next]_vars => TypeOK'
  <2> SUFFICES ASSUME TypeOK, [Next]_vars PROVE TypeOK'
    OBVIOUS
  <2>1. CASE Tick
    BY <2>1 DEF Tick, TypeOK
  <2>2. ASSUME NEW tok \in Tokens, Call(tok) PROVE TypeOK'
    BY <2>2, CallType
  <2>3. CASE UNCHANGED vars
    BY <2>3 DEF vars, TypeOK
  <2> QED
    BY <2>1, <2>2, <2>3 DEF Next
<1> QED
  BY <1>1, <1>2, PTL DEF Spec

----------------------------------------------------------------------------
(* The window bound.                                                       *)

\* A call changes nothing about a token it is not made for, unless the size guard forgets its whole log.
LEMMA OtherTokens ==
  ASSUME TypeOK, NEW tok \in Tokens, NEW x \in Tokens \ {tok},
         NEW now \in Nat, LockedSection(tok, now)
  PROVE  /\ accepted'[x] = accepted[x]
         /\ \/ windows'[x] = windows[x] /\ forgotten'[x] = forgotten[x]
            \/ windows'[x] = << >> /\ forgotten'[x] = Len(accepted[x])
<1>1. PICK k \in 0 .. Len(windows[tok]) :
        LET live == SubSeq(windows[tok], k + 1, Len(windows[tok]))
        IN  Refuse(tok, now, live) \/ Accept(tok, now, live)
  BY DEF LockedSection
<1> DEFINE live == SubSeq(windows[tok], k + 1, Len(windows[tok]))
<1> HIDE DEF live
<1>3. CASE Refuse(tok, now, live)
  BY <1>3 DEF Refuse, TypeOK
<1>4. CASE Accept(tok, now, live)
  <2> DEFINE keys == Reinserted(tok, live)
             gone == {keys[i] : i \in 1 .. EvictedCount(keys)}
  <2>1. windows' = [y \in Tokens |->
          IF y \in gone THEN << >>
          ELSE IF y = tok THEN Append(live, now) ELSE windows[y]]
    BY <1>4 DEF Accept
  <2>2. forgotten' = [y \in Tokens |->
          IF y \notin gone THEN forgotten[y]
          ELSE Len(accepted[y]) + (IF y = tok THEN 1 ELSE 0)]
    BY <1>4 DEF Accept
  <2>3. accepted'[x] = accepted[x]
    BY <1>4 DEF Accept, TypeOK
  <2> HIDE DEF gone
  <2>4. Len(accepted[x]) + 0 = Len(accepted[x])
    BY DEF TypeOK
  <2> QED
    BY <2>1, <2>2, <2>3, <2>4
<1> QED
  BY <1>1, <1>3, <1>4 DEF live

\* What a call stamped `now` does to its own token, k stamps popped.
RefuseEffect(tok, now, k) ==
  /\ Len(windows[tok]) - k = MaxAttempts
  /\ accepted'[tok] = accepted[tok]
  /\ forgotten'[tok] = forgotten[tok]
  /\ windows'[tok] = SubSeq(windows[tok], k + 1, Len(windows[tok]))
  /\ outcome' = [token |-> tok, at |-> now, ok |-> FALSE]

AcceptEffect(tok, now, k) ==
  /\ Len(windows[tok]) - k < MaxAttempts
  /\ accepted'[tok] = Append(accepted[tok], now)
  /\ \/ /\ forgotten'[tok] = forgotten[tok]
        /\ windows'[tok] = Append(SubSeq(windows[tok], k + 1, Len(windows[tok])), now)
     \/ /\ forgotten'[tok] = Len(accepted[tok]) + 1
        /\ windows'[tok] = << >>
  /\ outcome' = [token |-> tok, at |-> now, ok |-> TRUE]

\* A call has one of the two effects, after popping as many stamps as it may.
LEMMA CallEffect ==
  ASSUME TypeOK, NEW tok \in Tokens, NEW now \in Nat, LockedSection(tok, now)
  PROVE  \E k \in 0 .. Len(windows[tok]) :
           /\ PopsTo(windows[tok], now, k)
           /\ RefuseEffect(tok, now, k) \/ AcceptEffect(tok, now, k)
<1>1. PICK k \in 0 .. Len(windows[tok]) :
        /\ PopsTo(windows[tok], now, k)
        /\ LET live == SubSeq(windows[tok], k + 1, Len(windows[tok]))
           IN  Refuse(tok, now, live) \/ Accept(tok, now, live)
  BY DEF LockedSection
<1> DEFINE live == SubSeq(windows[tok], k + 1, Len(windows[tok]))
<1>2. live \in Seq(Nat) /\ Len(live) = Len(windows[tok]) - k
  BY PoppedDeque DEF TypeOK
<1>3. Len(windows[tok]) - k \in Nat /\ Len(windows[tok]) - k <= MaxAttempts
  BY LimitAssumption DEF TypeOK
<1> HIDE DEF live
<1>4. CASE Refuse(tok, now, live)
  <2>1. windows'[tok] = live
    BY <1>4 DEF Refuse, TypeOK
  <2>2. Len(windows[tok]) - k = MaxAttempts
    BY <1>2, <1>3, <1>4, LimitAssumption DEF Refuse, Full
  <2>3. RefuseEffect(tok, now, k)
    BY <1>4, <2>1, <2>2 DEF Refuse, RefuseEffect, live
  <2> QED
    BY <1>1, <2>3
<1>5. CASE Accept(tok, now, live)
  <2> DEFINE keys == Reinserted(tok, live)
             gone == {keys[i] : i \in 1 .. EvictedCount(keys)}
  <2>1. /\ accepted' = [accepted EXCEPT ![tok] = Append(@, now)]
        /\ windows' = [y \in Tokens |->
             IF y \in gone THEN << >>
             ELSE IF y = tok THEN Append(live, now) ELSE windows[y]]
        /\ forgotten' = [y \in Tokens |->
             IF y \notin gone THEN forgotten[y]
             ELSE Len(accepted[y]) + (IF y = tok THEN 1 ELSE 0)]
        /\ outcome' = [token |-> tok, at |-> now, ok |-> TRUE]
        /\ ~Full(live)
    BY <1>5 DEF Accept
  <2>2. accepted'[tok] = Append(accepted[tok], now)
    BY <2>1 DEF TypeOK
  <2>3. Len(windows[tok]) - k < MaxAttempts
    BY <1>2, <1>3, <2>1, LimitAssumption DEF Full
  <2> HIDE DEF gone
  <2>4. AcceptEffect(tok, now, k)
    BY <2>1, <2>2, <2>3 DEF AcceptEffect, live
  <2> QED
    BY <1>1, <2>4
<1> QED
  BY <1>1, <1>4, <1>5 DEF live

\* Popping k stamps leaves the deque a tail of the log.
LEMMA PopKeepsTail ==
  ASSUME TypeOK, NEW tok \in Tokens, DequeIsTail(tok), NEW k \in 0 .. Len(windows[tok])
  PROVE  LET live == SubSeq(windows[tok], k + 1, Len(windows[tok]))
             drop == Popped(tok) + k
         IN  /\ live \in Seq(Nat)
             /\ Len(live) = Len(accepted[tok]) - drop
             /\ drop \in forgotten[tok] .. Len(accepted[tok])
             /\ \A i \in 1 .. Len(live) : live[i] = accepted[tok][drop + i]
<1> DEFINE w == windows[tok]
           log == accepted[tok]
           from == forgotten[tok]
           popped == Popped(tok)
           live == SubSeq(w, k + 1, Len(w))
<1>1. w \in Seq(Nat) /\ log \in Seq(Nat) /\ from \in Nat
  BY DEF TypeOK
<1>2. from <= popped /\ \A i \in 1 .. Len(w) : w[i] = log[popped + i]
  BY DEF DequeIsTail
<1>3. popped = Len(log) - Len(w)
  BY DEF Popped
<1>4. /\ live \in Seq(Nat) /\ Len(live) = Len(w) - k
      /\ \A i \in 1 .. Len(live) : live[i] = w[k + i]
  BY <1>1, PoppedDeque
<1>6. k \in 0 .. Len(w) /\ Len(w) \in Nat /\ Len(log) \in Nat
  BY <1>1, LenProperties
<1> SUFFICES /\ Len(live) = Len(log) - (popped + k)
             /\ popped + k \in from .. Len(log)
             /\ \A i \in 1 .. Len(live) : live[i] = log[popped + k + i]
  BY <1>4
<1> HIDE DEF w, log, from, popped, live
<1>7. Len(live) = Len(log) - (popped + k) /\ popped + k \in from .. Len(log)
  BY <1>1, <1>2, <1>3, <1>4, <1>6
<1>8. ASSUME NEW i \in 1 .. Len(live) PROVE live[i] = log[popped + k + i]
  <2>1. k + i \in 1 .. Len(w) /\ popped + (k + i) = popped + k + i
    BY <1>3, <1>4, <1>6
  <2> QED
    BY <1>2, <1>4, <2>1
<1> QED
  BY <1>7, <1>8

\* Popping k expired stamps leaves only expired ones before the deque.
LEMMA PopKeepsExpired ==
  ASSUME TypeOK, LogInv, NEW tok \in Tokens, NEW k \in 0 .. Len(windows[tok]),
         PopsTo(windows[tok], clock, k)
  PROVE  \A i \in forgotten[tok] + 1 .. Popped(tok) + k : Expired(clock, accepted[tok][i])
<1> DEFINE w == windows[tok]
           log == accepted[tok]
           from == forgotten[tok]
           popped == Popped(tok)
<1>1. w \in Seq(Nat) /\ log \in Seq(Nat) /\ from \in Nat
  BY DEF TypeOK
<1>2. /\ \A i \in 1 .. Len(w) : w[i] = log[popped + i]
      /\ \A i \in from + 1 .. popped : Expired(clock, log[i])
  BY DEF LogInv, LogInvOf, DequeIsTail, PoppedExpired
<1>3. popped = Len(log) - Len(w)
  BY DEF Popped
<1>5. \A i \in 1 .. k : Expired(clock, w[i])
  BY DEF PopsTo
<1>6. k \in 0 .. Len(w) /\ Len(w) \in Nat /\ Len(log) \in Nat
  BY <1>1, LenProperties
<1> SUFFICES ASSUME NEW i \in from + 1 .. popped + k PROVE Expired(clock, log[i])
  OBVIOUS
<1> HIDE DEF w, log, from, popped
<1>7. CASE i <= popped
  BY <1>1, <1>2, <1>3, <1>6, <1>7
<1>8. CASE i > popped
  <2>1. /\ i - popped \in 1 .. k /\ i - popped \in 1 .. Len(w)
        /\ popped + (i - popped) = i
    BY <1>1, <1>3, <1>6, <1>8
  <2> QED
    BY <1>2, <1>5, <2>1
<1> QED
  BY <1>1, <1>3, <1>6, <1>7, <1>8

\* A refused call finds the deque full of live stamps: whatever its own stamp
\* is, MaxAttempts stamps of the log are within a window of it.
LEMMA RefusedInWindow ==
  ASSUME TypeOK, NEW tok \in Tokens, DequeIsTail(tok), NEW now \in Nat,
         NEW k \in 0 .. Len(windows[tok]), PopsTo(windows[tok], now, k),
         RefuseEffect(tok, now, k)
  PROVE  /\ Len(accepted[tok]) >= MaxAttempts
         /\ now - accepted[tok][Len(accepted[tok]) - MaxAttempts + 1] < WindowS
<1> DEFINE log == accepted[tok]
           live == SubSeq(windows[tok], k + 1, Len(windows[tok]))
           drop == Popped(tok) + k
<1>1. log \in Seq(Nat) /\ forgotten[tok] \in Nat /\ Len(log) \in Nat
  BY LenProperties DEF TypeOK
<1>2. /\ live \in Seq(Nat) /\ Len(live) = Len(log) - drop /\ drop \in forgotten[tok] .. Len(log)
      /\ \A i \in 1 .. Len(live) : live[i] = log[drop + i]
  BY PopKeepsTail
<1>3. Len(live) = MaxAttempts /\ live[1] = windows[tok][k + 1]
  BY PoppedDeque, LimitAssumption DEF TypeOK, RefuseEffect
<1>4. ~Expired(now, windows[tok][k + 1])
  <2>1. k < Len(windows[tok])
    BY LimitAssumption, LenProperties DEF TypeOK, RefuseEffect
  <2> QED
    BY <2>1 DEF PopsTo
<1>10. MaxAttempts \in Nat \ {0} /\ WindowS \in Nat
  BY LimitAssumption
<1> HIDE DEF live, drop, log
<1>11. Len(log) >= MaxAttempts /\ Len(log) - MaxAttempts + 1 = drop + 1
  <2>1. MaxAttempts = Len(log) - drop
    BY <1>2, <1>3
  <2> QED
    BY <1>1, <1>2, <1>10, <2>1
<1>12. now - log[drop + 1] < WindowS
  <2>1. log[drop + 1] = windows[tok][k + 1]
    BY <1>2, <1>3, <1>10
  <2>2. drop + 1 \in 1 .. Len(log)
    BY <1>1, <1>2, <1>3, <1>10
  <2>3. log[drop + 1] \in Nat
    BY <1>1, <2>2, ElementOfSeq
  <2> QED
    BY <1>4, <1>10, <2>1, <2>3 DEF Expired
<1> QED
  BY <1>11, <1>12 DEF log

\* Either effect leaves the deque the tail of the log, and its head where the
\* pops put it unless the size guard dropped it whole.
LEMMA EffectKeepsTail ==
  ASSUME TypeOK, NEW tok \in Tokens, DequeIsTail(tok), NEW now \in Nat,
         NEW k \in 0 .. Len(windows[tok]),
         RefuseEffect(tok, now, k) \/ AcceptEffect(tok, now, k)
  PROVE  /\ DequeIsTail(tok)'
         /\ \/ forgotten'[tok] = forgotten[tok] /\ Popped(tok)' = Popped(tok) + k
            \/ /\ AcceptEffect(tok, now, k)
               /\ forgotten'[tok] = Len(accepted[tok]) + 1
               /\ windows'[tok] = << >> /\ Popped(tok)' = forgotten'[tok]
<1> DEFINE log == accepted[tok]
           from == forgotten[tok]
           live == SubSeq(windows[tok], k + 1, Len(windows[tok]))
           drop == Popped(tok) + k
           new == Append(log, now)
<1>1. log \in Seq(Nat) /\ from \in Nat /\ Len(log) \in Nat
  BY LenProperties DEF TypeOK
<1>2. /\ live \in Seq(Nat) /\ Len(live) = Len(log) - drop /\ drop \in from .. Len(log)
      /\ \A i \in 1 .. Len(live) : live[i] = log[drop + i]
  BY PopKeepsTail
<1>3. Len(live) = Len(windows[tok]) - k
  BY PoppedDeque DEF TypeOK
<1>4. MaxAttempts \in Nat \ {0}
  BY LimitAssumption
<1>5. CASE RefuseEffect(tok, now, k)
  <2>1. /\ Popped(tok)' = Len(log) - Len(live) /\ windows'[tok] = live
        /\ accepted'[tok] = log /\ forgotten'[tok] = from /\ Len(live) = MaxAttempts
    BY <1>3, <1>5 DEF Popped, RefuseEffect
  <2> HIDE DEF live, drop
  <2>2. Popped(tok)' = drop
    BY <1>1, <1>2, <2>1
  <2>3. from <= drop /\ Len(live) <= MaxAttempts
    BY <1>1, <1>2, <1>4, <2>1
  <2>4. (\A i \in 1 .. Len(windows[tok]) :
          windows[tok][i] = accepted[tok][Popped(tok) + i])'
    BY <1>2, <2>1, <2>2
  <2>5. DequeIsTail(tok)'
    BY <2>1, <2>2, <2>3, <2>4 DEF DequeIsTail
  <2> QED
    BY <2>1, <2>2, <2>5 DEF drop
<1>6. CASE AcceptEffect(tok, now, k)
  <2>1. /\ new \in Seq(Nat) /\ Len(new) = Len(log) + 1 /\ new[Len(log) + 1] = now
        /\ \A i \in 1 .. Len(log) : new[i] = log[i]
    BY <1>1, AppendProperties
  <2>2. /\ accepted'[tok] = new /\ Len(live) < MaxAttempts
        /\ \/ forgotten'[tok] = from /\ windows'[tok] = Append(live, now)
           \/ forgotten'[tok] = Len(log) + 1 /\ windows'[tok] = << >>
    BY <1>3, <1>6 DEF AcceptEffect
  <2>3. CASE forgotten'[tok] = from /\ windows'[tok] = Append(live, now)
    <3>1. /\ Len(windows'[tok]) = Len(live) + 1
          /\ windows'[tok][Len(live) + 1] = now
          /\ \A i \in 1 .. Len(live) : windows'[tok][i] = live[i]
      <4> HIDE DEF log, live
      <4>1. live \in Seq(Nat) /\ windows'[tok] = Append(live, now)
        BY <1>2, <2>3
      <4> HIDE <2>3
      <4> QED
        BY <4>1, AppendProperties
    <3>2. Popped(tok)' = Len(new) - (Len(live) + 1)
      BY <2>2, <3>1 DEF Popped
    <3> HIDE DEF log, from, live, drop, new
    <3>3. Popped(tok)' = drop
      BY <1>1, <1>2, <2>1, <3>2
    <3>4. \A i \in 1 .. Len(live) + 1 : windows'[tok][i] = new[drop + i]
      <4> TAKE i \in 1 .. Len(live) + 1
      <4>1. CASE i = Len(live) + 1
        BY <1>1, <1>2, <2>1, <3>1, <4>1
      <4>2. CASE i <= Len(live)
        <5>1. i \in 1 .. Len(live) /\ drop + i \in 1 .. Len(log)
          <6>1. Len(live) = Len(log) - drop /\ drop \in Nat
            BY <1>1, <1>2
          <6> QED
            BY <1>1, <4>2, <6>1
        <5> QED
          BY <1>2, <2>1, <3>1, <5>1
      <4> QED
        BY <1>1, <1>2, <4>1, <4>2
    <3>5. DequeIsTail(tok)'
      <4>1. from <= drop /\ Len(live) + 1 <= MaxAttempts
        BY <1>1, <1>2, <1>4, <2>2
      <4> QED
        BY <2>2, <2>3, <3>1, <3>3, <3>4, <4>1 DEF DequeIsTail
    <3> QED
      BY <2>3, <3>3, <3>5 DEF from, drop
  <2>4. CASE forgotten'[tok] = Len(log) + 1 /\ windows'[tok] = << >>
    <3>1. Len(windows'[tok]) = 0
      BY <2>4, EmptySeq
    <3>2. Popped(tok)' = Len(new) - 0
      BY <2>2, <3>1 DEF Popped
    <3> HIDE DEF log, from, live, drop, new
    <3>3. Popped(tok)' = forgotten'[tok] /\ forgotten'[tok] \in Nat
      BY <1>1, <2>1, <2>4, <3>2
    <3>4. DequeIsTail(tok)'
      BY <1>4, <3>1, <3>3 DEF DequeIsTail
    <3> QED
      BY <1>6, <2>4, <3>3, <3>4 DEF log
  <2> QED
    BY <2>2, <2>3, <2>4
<1> QED
  BY <1>5, <1>6

\* A refused call changes the deque only.
LEMMA RefusedCall ==
  ASSUME TypeOK, LogInv, NEW tok \in Tokens, NEW k \in 0 .. Len(windows[tok]),
         PopsTo(windows[tok], clock, k), RefuseEffect(tok, clock, k), clock' = clock
  PROVE  LogInvOf(tok)'
<1>1. DequeIsTail(tok) /\ PoppedExpired(tok) /\ LogSpaced(tok) /\ clock \in Nat
  BY DEF LogInv, LogInvOf, TypeOK
<1>2. accepted'[tok] = accepted[tok] /\ forgotten'[tok] = forgotten[tok]
  BY DEF RefuseEffect
<1>3. DequeIsTail(tok)' /\ Popped(tok)' = Popped(tok) + k
  <2>1. outcome'.ok = FALSE
    BY DEF RefuseEffect
  <2>2. ~AcceptEffect(tok, clock, k)
    BY <2>1 DEF AcceptEffect
  <2> QED
    BY <1>1, <2>2, EffectKeepsTail
<1>4. PoppedExpired(tok)'
  <2>1. \A i \in forgotten[tok] + 1 .. Popped(tok) + k : Expired(clock, accepted[tok][i])
    BY PopKeepsExpired
  <2> QED
    BY <1>1, <1>2, <1>3, <2>1 DEF PoppedExpired, Expired
<1>5. LogSpaced(tok)'
  BY <1>1, <1>2 DEF LogSpaced
<1> QED
  BY <1>3, <1>4, <1>5 DEF LogInvOf

\* An integer at most one past another is below it, equal to it, or its successor.
LEMMA BelowOrNext ==
  ASSUME NEW a \in Int, NEW b \in Int, a <= b + 1
  PROVE  a <= b \/ a = b + 1
OBVIOUS

\* The arithmetic of one more stamp: if fewer than max of the stamps after the
\* first `drop` remain and every earlier one has expired, the log with `now` at
\* its end is in order, spaced, and not ahead of the clock.
LEMMA OneMoreStamp ==
  ASSUME NEW log \in Seq(Nat), NEW now \in Nat, NEW new,
         NEW from \in Nat, NEW drop \in from .. Len(log),
         Len(log) - drop < MaxAttempts,
         Len(new) = Len(log) + 1, new[Len(log) + 1] = now,
         \A i \in 1 .. Len(log) : new[i] = log[i],
         \A i \in from + 1 .. drop : now - log[i] >= WindowS,
         \A i \in from + 1 .. Len(log) : log[i] <= now,
         \A i \in from + 1 .. Len(log) :
           /\ i < Len(log) => log[i] <= log[i + 1]
           /\ i + MaxAttempts <= Len(log) => log[i + MaxAttempts] - log[i] >= WindowS
  PROVE  \A i \in from + 1 .. Len(new) :
           /\ i < Len(new) => new[i] <= new[i + 1]
           /\ i + MaxAttempts <= Len(new) => new[i + MaxAttempts] - new[i] >= WindowS
           /\ new[i] <= now
<1>1. Len(log) \in Nat /\ MaxAttempts \in Nat \ {0} /\ WindowS \in Nat
  BY LimitAssumption, LenProperties
<1> TAKE i \in from + 1 .. Len(new)
<1>2. CASE i = Len(log) + 1
  BY <1>1, <1>2
<1>3. CASE i <= Len(log)
  <2>1. new[i] = log[i] /\ log[i] <= now
    BY <1>1, <1>3
  <2>2. i < Len(new) => new[i] <= new[i + 1]
    <3>1. CASE i = Len(log)
      BY <2>1, <3>1
    <3>2. CASE i < Len(log)
      <4>1. i \in from + 1 .. Len(log) /\ i + 1 \in 1 .. Len(log)
        BY <1>1, <3>2
      <4>2. new[i + 1] = log[i + 1]
        BY <4>1
      <4>3. log[i] <= log[i + 1]
        BY <3>2, <4>1
      <4> QED
        BY <2>1, <4>2, <4>3
    <3> QED
      BY <1>1, <1>3, <3>1, <3>2
  <2>3. ASSUME i + MaxAttempts <= Len(new) PROVE new[i + MaxAttempts] - new[i] >= WindowS
    <3>1. CASE i + MaxAttempts <= Len(log)
      <4>1. i \in from + 1 .. Len(log) /\ i + MaxAttempts \in 1 .. Len(log)
        BY <1>1, <3>1
      <4>2. new[i + MaxAttempts] = log[i + MaxAttempts]
        BY <4>1
      <4>3. log[i + MaxAttempts] - log[i] >= WindowS
        BY <3>1, <4>1
      <4> QED
        BY <2>1, <4>2, <4>3
    <3>2. CASE i + MaxAttempts = Len(log) + 1
      <4>1. i <= drop /\ i \in from + 1 .. drop
        BY <1>1, <3>2
      <4>2. now - log[i] >= WindowS
        BY <4>1
      <4> QED
        BY <2>1, <3>2, <4>2
    <3>3. i + MaxAttempts <= Len(log) \/ i + MaxAttempts = Len(log) + 1
      <4>1. i \in Nat /\ i + MaxAttempts <= Len(log) + 1
        BY <1>1, <1>3, <2>3
      <4>2. i + MaxAttempts \in Int /\ Len(log) \in Int
        BY <1>1, <4>1
      <4> QED
        BY <4>1, <4>2, BelowOrNext
    <3> QED
      BY <3>1, <3>2, <3>3
  <2> QED
    BY <2>1, <2>2, <2>3
<1> QED
  BY <1>1, <1>2, <1>3

\* A call let through finds room, so the stamp MaxAttempts places before its own
\* was popped, or had been: it is at least a window older.
LEMMA AcceptedCall ==
  ASSUME TypeOK, LogInv, NEW tok \in Tokens, NEW k \in 0 .. Len(windows[tok]),
         PopsTo(windows[tok], clock, k), AcceptEffect(tok, clock, k), clock' = clock
  PROVE  LogInvOf(tok)'
<1> DEFINE log == accepted[tok]
           from == forgotten[tok]
           drop == Popped(tok) + k
           new == Append(log, clock)
<1>1. log \in Seq(Nat) /\ from \in Nat /\ Len(log) \in Nat /\ clock \in Nat
  BY LenProperties DEF TypeOK
<1>2. DequeIsTail(tok) /\ PoppedExpired(tok) /\ LogSpaced(tok)
  BY DEF LogInv, LogInvOf
<1>3. \A i \in from + 1 .. drop : Expired(clock, log[i])
  BY PopKeepsExpired
<1>4. MaxAttempts \in Nat \ {0} /\ WindowS \in Nat
  BY LimitAssumption
<1>5. /\ new \in Seq(Nat) /\ Len(new) = Len(log) + 1 /\ new[Len(log) + 1] = clock
      /\ \A i \in 1 .. Len(log) : new[i] = log[i]
  BY <1>1, AppendProperties
<1>6. drop \in from .. Len(log) /\ Len(log) - drop < MaxAttempts
  <2> DEFINE live == SubSeq(windows[tok], k + 1, Len(windows[tok]))
  <2>1. Len(live) = Len(log) - drop /\ drop \in from .. Len(log)
    BY <1>2, PopKeepsTail
  <2>2. Len(live) = Len(windows[tok]) - k
    BY PoppedDeque DEF TypeOK
  <2>3. Len(windows[tok]) - k < MaxAttempts
    BY DEF AcceptEffect
  <2> QED
    BY <2>1, <2>2, <2>3
<1>7. accepted'[tok] = new
  BY DEF AcceptEffect
<1>8. /\ DequeIsTail(tok)'
      /\ \/ forgotten'[tok] = from /\ Popped(tok)' = drop
         \/ forgotten'[tok] = Len(log) + 1 /\ Popped(tok)' = forgotten'[tok]
  BY <1>1, <1>2, EffectKeepsTail
<1>9. \A i \in from + 1 .. Len(new) :
        /\ i < Len(new) => new[i] <= new[i + 1]
        /\ i + MaxAttempts <= Len(new) => new[i + MaxAttempts] - new[i] >= WindowS
        /\ new[i] <= clock
  <2>1. /\ \A i \in from + 1 .. Len(log) : log[i] <= clock
        /\ \A i \in from + 1 .. Len(log) :
             /\ i < Len(log) => log[i] <= log[i + 1]
             /\ i + MaxAttempts <= Len(log) => log[i + MaxAttempts] - log[i] >= WindowS
    BY <1>2 DEF PoppedExpired, LogSpaced
  <2>2. \A i \in from + 1 .. drop : clock - log[i] >= WindowS
    BY <1>3 DEF Expired
  <2> HIDE DEF log, from, drop, new
  <2> QED
    BY <1>1, <1>5, <1>6, <2>1, <2>2, OneMoreStamp
<1> HIDE DEF log, from, drop, new
<1>10. CASE forgotten'[tok] = from /\ Popped(tok)' = drop
  <2>1. PoppedExpired(tok)'
    <3>1. \A i \in from + 1 .. drop : Expired(clock, new[i])
      <4> TAKE i \in from + 1 .. drop
      <4>1. i \in 1 .. Len(log)
        BY <1>1, <1>6
      <4> QED
        BY <1>3, <1>5, <4>1
    <3>2. \A i \in from + 1 .. Len(new) : new[i] <= clock
      BY <1>9
    <3> QED
      BY <1>7, <1>10, <3>1, <3>2 DEF PoppedExpired, Expired
  <2>2. LogSpaced(tok)'
    BY <1>7, <1>9, <1>10 DEF LogSpaced
  <2> QED
    BY <1>8, <2>1, <2>2 DEF LogInvOf
<1>11. CASE forgotten'[tok] = Len(log) + 1 /\ Popped(tok)' = forgotten'[tok]
  <2>1. Len(accepted'[tok]) = forgotten'[tok] /\ forgotten'[tok] \in Nat
    BY <1>1, <1>5, <1>7, <1>11
  <2> QED
    BY <1>4, <1>8, <1>11, <2>1 DEF LogInvOf, PoppedExpired, LogSpaced
<1> QED
  BY <1>8, <1>10, <1>11

\* LogInv is kept by a call: for its own token by the two lemmas above, and for
\* any other because that token's log does not move.
LEMMA CallKeepsLogInv ==
  ASSUME TypeOK, LogInv, NEW tok \in Tokens, Call(tok)
  PROVE  LogInv' /\ RefusalJustified'
<1>0. LockedSection(tok, clock) /\ clock' = clock /\ clock \in Nat
  BY DEF Call, TypeOK
<1>1. PICK k \in 0 .. Len(windows[tok]) :
        /\ PopsTo(windows[tok], clock, k)
        /\ RefuseEffect(tok, clock, k) \/ AcceptEffect(tok, clock, k)
  BY <1>0, CallEffect
<1>3. LogInvOf(tok)'
  BY <1>1, <1>0, RefusedCall, AcceptedCall
<1>4. ASSUME NEW x \in Tokens \ {tok} PROVE LogInvOf(x)'
  <2>1. /\ accepted'[x] = accepted[x]
        /\ \/ windows'[x] = windows[x] /\ forgotten'[x] = forgotten[x]
           \/ windows'[x] = << >> /\ forgotten'[x] = Len(accepted[x])
    BY <1>0, OtherTokens
  <2>2. LogInvOf(x)
    BY DEF LogInv
  <2>3. CASE windows'[x] = windows[x] /\ forgotten'[x] = forgotten[x]
    BY <1>0, <2>1, <2>2, <2>3
       DEF LogInvOf, DequeIsTail, PoppedExpired, LogSpaced, Popped, Expired
  <2>4. CASE windows'[x] = << >> /\ forgotten'[x] = Len(accepted[x])
    <3>1. Len(accepted[x]) \in Nat /\ MaxAttempts \in Nat
      BY LenProperties, LimitAssumption DEF TypeOK
    <3>2. Len(windows'[x]) = 0 /\ Popped(x)' = Len(accepted[x]) - 0
      BY <2>1, <2>4, EmptySeq DEF Popped
    <3> QED
      BY <2>1, <2>4, <3>1, <3>2 DEF LogInvOf, DequeIsTail, PoppedExpired, LogSpaced
  <2> QED
    BY <2>1, <2>3, <2>4
<1>5. LogInv'
  BY <1>3, <1>4 DEF LogInv
<1>6. RefusalJustified'
  <2>1. CASE RefuseEffect(tok, clock, k)
    <3>1. DequeIsTail(tok)
      BY DEF LogInv, LogInvOf
    <3>2. /\ Len(accepted[tok]) >= MaxAttempts
          /\ clock - accepted[tok][Len(accepted[tok]) - MaxAttempts + 1] < WindowS
      BY <1>1, <1>0, <2>1, <3>1, RefusedInWindow
    <3>3. outcome'.token = tok /\ outcome'.at = clock /\ accepted'[tok] = accepted[tok]
      BY <2>1 DEF RefuseEffect
    <3> QED
      BY <3>2, <3>3 DEF RefusalJustified
  <2>2. CASE AcceptEffect(tok, clock, k)
    BY <2>2 DEF AcceptEffect, RefusalJustified
  <2> QED
    BY <1>1, <2>1, <2>2
<1> QED
  BY <1>5, <1>6

\* The clock moves forward, so what has expired stays expired.
LEMMA TickKeepsLogInv ==
  ASSUME TypeOK, LogInv, RefusalJustified, Tick
  PROVE  LogInv' /\ RefusalJustified'
<1>1. /\ clock' = clock + 1 /\ clock \in Nat /\ WindowS \in Nat
      /\ UNCHANGED <<windows, accepted, forgotten, outcome>>
  BY LimitAssumption DEF Tick, TypeOK
<1>2. ASSUME NEW x \in Tokens PROVE LogInvOf(x)'
  <2>1. DequeIsTail(x)' /\ LogSpaced(x)' /\ Popped(x)' = Popped(x)
    BY <1>1 DEF LogInv, LogInvOf, DequeIsTail, LogSpaced, Popped
  <2>2. PoppedExpired(x)'
    <3> DEFINE log == accepted[x]
               popped == Popped(x)
    <3>1. /\ log \in Seq(Nat) /\ Len(log) \in Nat
          /\ Len(windows[x]) \in Nat /\ forgotten[x] \in Nat
      BY LenProperties DEF TypeOK
    <3>2. popped = Len(log) - Len(windows[x])
      BY DEF Popped
    <3>3. /\ \A i \in forgotten[x] + 1 .. popped : Expired(clock, log[i])
          /\ \A i \in forgotten[x] + 1 .. Len(log) : log[i] <= clock
      BY DEF LogInv, LogInvOf, PoppedExpired
    <3>4. /\ accepted'[x] = log /\ forgotten'[x] = forgotten[x] /\ Popped(x)' = popped
      BY <1>1, <2>1
    <3> HIDE DEF log, popped
    <3>5. \A i \in forgotten[x] + 1 .. Len(log) : log[i] \in Nat
      BY <3>1, ElementOfSeq
    <3>6. ASSUME NEW i \in forgotten[x] + 1 .. popped PROVE Expired(clock', log[i])
      <4>1. i \in forgotten[x] + 1 .. Len(log)
        BY <3>1, <3>2
      <4>2. log[i] \in Nat /\ Expired(clock, log[i])
        BY <3>3, <3>5, <4>1
      <4> QED
        BY <1>1, <4>2 DEF Expired
    <3>7. ASSUME NEW i \in forgotten[x] + 1 .. Len(log) PROVE log[i] <= clock'
      BY <1>1, <3>3, <3>5
    <3> QED
      BY <3>4, <3>6, <3>7 DEF PoppedExpired
  <2> QED
    BY <2>1, <2>2 DEF LogInvOf
<1> QED
  BY <1>1, <1>2 DEF LogInv, RefusalJustified

\* At no time have more than MaxAttempts calls for a token been let through in
\* one window since the size guard last evicted it, and every refused call
\* found that many inside its own window.
THEOREM LimitHolds == Spec => [](WindowBound /\ RefusalJustified)
<1>1. Init => LogInv /\ RefusalJustified
  BY LimitAssumption, EmptySeq
     DEF Init, NoCall, LogInv, LogInvOf, DequeIsTail, PoppedExpired, LogSpaced,
         Popped, RefusalJustified
<1>2. TypeOK /\ LogInv /\ RefusalJustified /\ [Next]_vars => LogInv' /\ RefusalJustified'
  <2> SUFFICES ASSUME TypeOK, LogInv, RefusalJustified, [Next]_vars
               PROVE  LogInv' /\ RefusalJustified'
    OBVIOUS
  <2>1. CASE Tick
    BY <2>1, TickKeepsLogInv
  <2>2. ASSUME NEW tok \in Tokens, Call(tok) PROVE LogInv' /\ RefusalJustified'
    BY <2>2, CallKeepsLogInv
  <2>3. CASE UNCHANGED vars
    BY <2>3 DEF vars, LogInv, LogInvOf, DequeIsTail, PoppedExpired, LogSpaced, Popped,
                Expired, RefusalJustified
  <2> QED
    BY <2>1, <2>2, <2>3 DEF Next
<1>3. LogInv => WindowBound
  BY DEF LogInv, LogInvOf, LogSpaced, WindowBound
<1> QED
  BY <1>1, <1>2, <1>3, TypeCorrect, PTL DEF Spec

\* The docstring's limit, counted since the token's last eviction.
THEOREM WindowBoundHolds == Spec => []WindowBound
BY LimitHolds, PTL

\* No call is refused that the limit would have let through.
THEOREM RefusalJustifiedHolds == Spec => []RefusalJustified
BY LimitHolds, PTL

----------------------------------------------------------------------------
(* The dict.                                                               *)

KeysOf(keys) == {keys[i] : i \in 1 .. Len(keys)}
OnlyOnce(keys) == \A i, j \in 1 .. Len(keys) : keys[i] = keys[j] => i = j

\* A dict's order names no key twice; DictBounded is inductive with that fact.
DictInv == DictBounded /\ OnlyOnce(order)

\* What is left of a sequence of keys without its first n.
LEMMA PoppedKeys ==
  ASSUME NEW keys \in Seq(Tokens), NEW n \in 0 .. Len(keys)
  PROVE  LET rest == SubSeq(keys, n + 1, Len(keys))
         IN  /\ rest \in Seq(Tokens)
             /\ Len(rest) = Len(keys) - n
             /\ \A i \in 1 .. Len(keys) - n : rest[i] = keys[n + i]
<1> DEFINE rest == SubSeq(keys, n + 1, Len(keys))
<1>1. n + 1 \in 1 .. Len(keys) + 1 /\ Len(keys) \in n .. Len(keys)
  OBVIOUS
<1>2. rest \in Seq(Tokens) /\ Len(rest) = Len(keys) - n
  BY <1>1, SubSeqProperties
<1>3. \A i \in 1 .. Len(keys) - n : rest[i] = keys[n + 1 + i - 1]
  BY <1>1, <1>2, SubSeqProperties
<1> HIDE DEF rest
<1>4. \A i \in 1 .. Len(keys) - n : n + 1 + i - 1 = n + i
  BY <1>1
<1>5. \A i \in 1 .. Len(keys) - n : rest[i] = keys[n + i]
  BY <1>3, <1>4
<1> QED
  BY <1>2, <1>5 DEF rest

\* Deleting a key closes the gap it leaves in the dict's order.
LEMMA WithoutKeys ==
  ASSUME NEW keys \in Seq(Tokens), OnlyOnce(keys), NEW tok \in Tokens
  PROVE  LET rest == Without(keys, tok)
         IN  /\ rest \in Seq(Tokens) /\ OnlyOnce(rest)
             /\ KeysOf(rest) = KeysOf(keys) \ {tok}
             /\ Len(rest) <= Len(keys)
<1>1. CASE \E i \in 1 .. Len(keys) : keys[i] = tok
  <2> DEFINE p == CHOOSE i \in 1 .. Len(keys) : keys[i] = tok
             rest == RemoveAt(keys, p)
  <2>1. p \in 1 .. Len(keys) /\ keys[p] = tok
    BY <1>1
  <2> HIDE DEF p
  <2>2. /\ SubSeq(keys, 1, p - 1) \in Seq(Tokens)
        /\ Len(SubSeq(keys, 1, p - 1)) = p - 1
        /\ \A i \in 1 .. p - 1 : SubSeq(keys, 1, p - 1)[i] = keys[i]
    BY <2>1, SubSeqProperties
  <2>3. /\ SubSeq(keys, p + 1, Len(keys)) \in Seq(Tokens)
        /\ Len(SubSeq(keys, p + 1, Len(keys))) = Len(keys) - p
        /\ \A i \in 1 .. Len(keys) - p : SubSeq(keys, p + 1, Len(keys))[i] = keys[p + i]
    BY <2>1, PoppedKeys
  <2>4. /\ rest \in Seq(Tokens)
        /\ Len(rest) = Len(keys) - 1
        /\ \A i \in 1 .. Len(keys) - 1 : rest[i] = IF i < p THEN keys[i] ELSE keys[i + 1]
    <3> DEFINE a == SubSeq(keys, 1, p - 1)
               b == SubSeq(keys, p + 1, Len(keys))
    <3>1. /\ a \o b \in Seq(Tokens) /\ Len(a \o b) = Len(a) + Len(b)
          /\ \A i \in 1 .. Len(a) + Len(b) :
               (a \o b)[i] = IF i <= Len(a) THEN a[i] ELSE b[i - Len(a)]
      BY <2>2, <2>3, ConcatProperties
    <3>2. rest = a \o b
      BY DEF RemoveAt
    <3> HIDE DEF a, b, rest
    <3>3. Len(a) + Len(b) = Len(keys) - 1 /\ Len(a) = p - 1 /\ Len(keys) \in Nat
      <4>1. Len(a) = p - 1
        BY <2>2 DEF a
      <4>2. Len(b) = Len(keys) - p
        BY <2>3 DEF b
      <4>3. Len(keys) \in Nat
        OBVIOUS
      <4> QED
        BY <2>1, <4>1, <4>2, <4>3
    <3>4. ASSUME NEW i \in 1 .. Len(keys) - 1
          PROVE  rest[i] = IF i < p THEN keys[i] ELSE keys[i + 1]
      <4>1. CASE i < p
        BY <2>1, <2>2, <3>1, <3>2, <3>3, <4>1 DEF a
      <4>2. CASE ~(i < p)
        <5>1. i - (p - 1) \in 1 .. Len(keys) - p /\ p + (i - (p - 1)) = i + 1
          BY <2>1, <3>3, <4>2
        <5>2. b[i - (p - 1)] = keys[i + 1]
          BY <2>3, <5>1 DEF b
        <5> QED
          BY <2>1, <3>1, <3>2, <3>3, <4>2, <5>2
      <4> QED
        BY <4>1, <4>2
    <3> QED
      BY <3>1, <3>2, <3>3, <3>4
  <2> HIDE DEF rest
  <2>5. Len(keys) \in Nat
    OBVIOUS
  <2>6. OnlyOnce(rest)
    BY <2>1, <2>4, <2>5 DEF OnlyOnce
  <2>7. KeysOf(rest) = KeysOf(keys) \ {tok}
    <3>1. ASSUME NEW x \in KeysOf(rest) PROVE x \in KeysOf(keys) \ {tok}
      <4>1. PICK i \in 1 .. Len(keys) - 1 : x = rest[i]
        BY <2>4 DEF KeysOf
      <4>2. PICK j \in 1 .. Len(keys) : x = keys[j] /\ j # p
        <5>1. CASE i < p
          BY <2>1, <2>4, <2>5, <4>1, <5>1
        <5>2. CASE ~(i < p)
          BY <2>1, <2>4, <2>5, <4>1, <5>2
        <5> QED
          BY <5>1, <5>2
      <4>3. x # tok
        BY <2>1, <4>2 DEF OnlyOnce
      <4> QED
        BY <4>2, <4>3 DEF KeysOf
    <3>2. ASSUME NEW x \in KeysOf(keys) \ {tok} PROVE x \in KeysOf(rest)
      <4>1. PICK i \in 1 .. Len(keys) : x = keys[i]
        BY DEF KeysOf
      <4>2. i # p
        BY <2>1, <4>1
      <4>3. CASE i < p
        BY <2>1, <2>4, <2>5, <4>1, <4>3 DEF KeysOf
      <4>4. CASE i > p
        <5>1. i - 1 \in 1 .. Len(keys) - 1 /\ ~(i - 1 < p) /\ (i - 1) + 1 = i
          BY <2>1, <2>5, <4>1, <4>4
        <5> QED
          BY <2>4, <4>1, <5>1 DEF KeysOf
      <4> QED
        BY <2>1, <4>1, <4>2, <4>3, <4>4
    <3> QED
      BY <3>1, <3>2
  <2>8. Without(keys, tok) = rest
    BY <1>1 DEF Without, rest, p
  <2> QED
    BY <2>4, <2>5, <2>6, <2>7, <2>8
<1>2. CASE ~ \E i \in 1 .. Len(keys) : keys[i] = tok
  <2>1. Without(keys, tok) = keys /\ tok \notin KeysOf(keys) /\ Len(keys) \in Nat
    BY <1>2 DEF Without, KeysOf
  <2> QED
    BY <2>1
<1> QED
  BY <1>1, <1>2

\* A key inserted anew goes to the end.
LEMMA InsertedKey ==
  ASSUME NEW keys \in Seq(Tokens), OnlyOnce(keys), NEW tok \in Tokens,
         tok \notin KeysOf(keys)
  PROVE  LET more == Append(keys, tok)
         IN  /\ more \in Seq(Tokens) /\ OnlyOnce(more)
             /\ KeysOf(more) = KeysOf(keys) \cup {tok}
             /\ Len(more) = Len(keys) + 1
<1> DEFINE more == Append(keys, tok)
<1>1. /\ more \in Seq(Tokens) /\ Len(more) = Len(keys) + 1
      /\ \A i \in 1 .. Len(keys) : more[i] = keys[i]
      /\ more[Len(keys) + 1] = tok
  BY AppendProperties
<1> HIDE DEF more
<1>2. Len(keys) \in Nat
  OBVIOUS
<1>3. 1 .. Len(keys) + 1 = 1 .. Len(keys) \cup {Len(keys) + 1}
  BY <1>2
<1>4. KeysOf(more) = KeysOf(keys) \cup {tok}
  BY <1>1, <1>2, <1>3 DEF KeysOf
<1>5. OnlyOnce(more)
  BY <1>1, <1>2, <1>3 DEF KeysOf, OnlyOnce
<1> QED
  BY <1>1, <1>4, <1>5 DEF more

\* Evicting the keys inserted first leaves the others.
LEMMA EvictedKeys ==
  ASSUME NEW keys \in Seq(Tokens), OnlyOnce(keys), NEW n \in 0 .. Len(keys)
  PROVE  LET rest == SubSeq(keys, n + 1, Len(keys))
         IN  /\ rest \in Seq(Tokens) /\ OnlyOnce(rest)
             /\ KeysOf(rest) = KeysOf(keys) \ {keys[i] : i \in 1 .. n}
             /\ Len(rest) = Len(keys) - n
<1> DEFINE rest == SubSeq(keys, n + 1, Len(keys))
<1>1. /\ rest \in Seq(Tokens) /\ Len(rest) = Len(keys) - n
      /\ \A i \in 1 .. Len(keys) - n : rest[i] = keys[n + i]
  BY PoppedKeys
<1> HIDE DEF rest
<1>2. Len(keys) \in Nat /\ n \in Nat
  OBVIOUS
<1>3. OnlyOnce(rest)
  BY <1>1, <1>2 DEF OnlyOnce
<1>4. KeysOf(rest) = KeysOf(keys) \ {keys[i] : i \in 1 .. n}
  <2>1. ASSUME NEW x \in KeysOf(rest) PROVE x \in KeysOf(keys) \ {keys[i] : i \in 1 .. n}
    <3>1. PICK i \in 1 .. Len(keys) - n : x = keys[n + i]
      BY <1>1 DEF KeysOf
    <3>2. n + i \in 1 .. Len(keys) /\ n + i \notin 1 .. n
      BY <1>2, <3>1
    <3> QED
      BY <1>2, <3>1, <3>2 DEF KeysOf, OnlyOnce
  <2>2. ASSUME NEW x \in KeysOf(keys) \ {keys[i] : i \in 1 .. n} PROVE x \in KeysOf(rest)
    <3>1. PICK i \in 1 .. Len(keys) : x = keys[i] /\ i \notin 1 .. n
      BY <1>2 DEF KeysOf
    <3>2. i - n \in 1 .. Len(keys) - n /\ n + (i - n) = i
      BY <1>2, <3>1
    <3> QED
      BY <1>1, <3>1, <3>2 DEF KeysOf
  <2> QED
    BY <2>1, <2>2
<1> QED
  BY <1>1, <1>3, <1>4 DEF rest

\* A pass through the locked section adds at most one key, and the guard makes room.
LEMMA SectionKeepsDict ==
  ASSUME TypeOK, DictInv, NEW tok \in Tokens, NEW now \in Nat, LockedSection(tok, now)
  PROVE  DictInv'
<1>1. PICK k \in 0 .. Len(windows[tok]) :
        LET live == SubSeq(windows[tok], k + 1, Len(windows[tok]))
        IN  Refuse(tok, now, live) \/ Accept(tok, now, live)
  BY DEF LockedSection
<1> DEFINE live == SubSeq(windows[tok], k + 1, Len(windows[tok]))
<1>2. /\ live \in Seq(Nat) /\ windows[tok] \in Seq(Nat)
      /\ Len(live) = Len(windows[tok]) - k
  BY PoppedDeque DEF TypeOK
<1>3. live # << >> => windows[tok] # << >>
  <2>1. live # << >> => Len(live) > 0
    BY <1>2, EmptySeq
  <2>2. windows[tok] = << >> => Len(windows[tok]) = 0
    BY EmptySeq
  <2> QED
    BY <1>2, <2>1, <2>2
<1> HIDE DEF live
<1>4. /\ order \in Seq(Tokens) /\ OnlyOnce(order) /\ Len(order) \in Nat
      /\ Len(order) <= MaxEntries /\ MaxEntries \in Nat
      /\ KeysOf(order) = {x \in Tokens : windows[x] # << >>}
  <2>1. order \in Seq(Tokens) /\ MaxEntries \in Nat
    BY LimitAssumption DEF TypeOK
  <2>2. /\ Len(order) <= MaxEntries
        /\ OnlyOnce(order)
        /\ {order[i] : i \in 1 .. Len(order)} = {x \in Tokens : windows[x] # << >>}
    BY DEF DictInv, DictBounded
  <2>3. Len(order) \in Nat
    BY <2>1
  <2> QED
    BY <2>1, <2>2, <2>3 DEF KeysOf
<1>5. CASE Refuse(tok, now, live)
  <2>1. live # << >>
    <3>1. Len(live) >= MaxAttempts /\ MaxAttempts > 0
      BY <1>5, LimitAssumption DEF Refuse, Full
    <3> QED
      BY <3>1, EmptySeq, LimitAssumption
  <2>2. \A x \in Tokens : windows'[x] # << >> <=> windows[x] # << >>
    BY <1>3, <1>5, <2>1 DEF Refuse, TypeOK
  <2>3. UNCHANGED order
    BY <1>5 DEF Refuse
  <2> QED
    BY <2>2, <2>3 DEF DictInv, DictBounded, OnlyOnce
<1>6. CASE Accept(tok, now, live)
  <2> DEFINE keys == Reinserted(tok, live)
             n == EvictedCount(keys)
             gone == {keys[i] : i \in 1 .. n}
  <2>1. /\ windows' = [x \in Tokens |->
             IF x \in gone THEN << >>
             ELSE IF x = tok THEN Append(live, now) ELSE windows[x]]
        /\ order' = SubSeq(keys, n + 1, Len(keys))
    BY <1>6 DEF Accept
  <2>2. /\ keys \in Seq(Tokens) /\ OnlyOnce(keys) /\ Len(keys) <= Len(order) + 1
        /\ KeysOf(keys) = KeysOf(order) \cup {tok}
    <3>1. CASE live = << >>
      <4> DEFINE rest == Without(order, tok)
      <4>1. /\ rest \in Seq(Tokens) /\ OnlyOnce(rest)
            /\ KeysOf(rest) = KeysOf(order) \ {tok} /\ Len(rest) <= Len(order)
        BY <1>4, WithoutKeys
      <4>2. keys = Append(rest, tok)
        BY <3>1 DEF Reinserted
      <4> HIDE DEF rest, keys
      <4>3. tok \notin KeysOf(rest) /\ Len(rest) \in Nat
        BY <4>1
      <4>4. /\ Append(rest, tok) \in Seq(Tokens) /\ OnlyOnce(Append(rest, tok))
            /\ KeysOf(Append(rest, tok)) = KeysOf(rest) \cup {tok}
            /\ Len(Append(rest, tok)) = Len(rest) + 1
        BY <4>1, <4>3, InsertedKey
      <4> QED
        BY <1>4, <4>1, <4>2, <4>3, <4>4
    <3>2. CASE live # << >>
      BY <1>3, <1>4, <3>2 DEF Reinserted
    <3> QED
      BY <3>1, <3>2
  <2>3. n = IF Len(keys) > MaxEntries THEN EvictCount ELSE 0
    BY DEF EvictedCount
  <2>4. Append(live, now) # << >>
    <3>1. Len(Append(live, now)) = Len(live) + 1 /\ Len(live) \in Nat
      <4>2. live \in Seq(Nat)
        BY <1>2
      <4>3. Len(live) \in Nat
        BY <4>2
      <4>4. Len(Append(live, now)) = Len(live) + 1
        BY <4>2, AppendProperties
      <4> QED
        BY <4>3, <4>4
    <3>2. Len(<< >>) = 0
      BY EmptySeq
    <3>3. Append(live, now) = << >> => Len(live) + 1 = 0
      BY <3>1, <3>2
    <3> QED
      BY <3>1, <3>3
  <2> HIDE DEF keys, n
  <2>5. Len(keys) \in Nat /\ EvictCount \in 1 .. MaxEntries
    BY <2>2, LimitAssumption
  <2>6. n \in 0 .. Len(keys) /\ Len(keys) - n <= MaxEntries
    BY <1>4, <2>2, <2>3, <2>5
  <2>7. /\ OnlyOnce(order') /\ Len(order') = Len(keys) - n
        /\ KeysOf(order') = KeysOf(keys) \ gone
    BY <2>1, <2>2, <2>6, EvictedKeys
  <2>8. KeysOf(order') = {x \in Tokens : windows'[x] # << >>}
    <3> HIDE DEF gone
    <3>1. \A x \in Tokens : windows'[x] # << >> <=>
             x \notin gone /\ (x = tok \/ windows[x] # << >>)
      BY <2>1, <2>4
    <3> QED
      BY <1>4, <2>2, <2>7, <3>1
  <2> QED
    BY <2>6, <2>7, <2>8 DEF DictInv, DictBounded, KeysOf
<1> QED
  BY <1>1, <1>5, <1>6 DEF live

\* Between calls the dict never outgrows its guard, and its keys are exactly the
\* tokens with a stamp in their deque.
THEOREM DictBoundedHolds == Spec => []DictBounded
<1>1. Init => DictInv
  <2>1. Len(<< >>) = 0
    BY EmptySeq
  <2> QED
    BY <2>1, LimitAssumption DEF Init, DictInv, DictBounded, OnlyOnce
<1>2. TypeOK /\ DictInv /\ [Next]_vars => DictInv'
  <2> SUFFICES ASSUME TypeOK, DictInv, [Next]_vars PROVE DictInv'
    OBVIOUS
  <2>1. CASE Tick \/ UNCHANGED vars
    BY <2>1 DEF Tick, vars, DictInv, DictBounded, OnlyOnce
  <2>2. ASSUME NEW tok \in Tokens, Call(tok) PROVE DictInv'
    <3>1. LockedSection(tok, clock) /\ clock \in Nat
      BY <2>2 DEF Call, TypeOK
    <3> QED
      BY <3>1, SectionKeepsDict
  <2> QED
    BY <2>1, <2>2 DEF Next
<1>3. DictInv => DictBounded
  BY DEF DictInv
<1> QED
  BY <1>1, <1>2, <1>3, TypeCorrect, PTL DEF Spec
----------------------------------------------------------------------------
(* Threads.  The lock serialises the locked sections but not the readings   *)
(* of the clock, so a deque need not be in order: WindowBound may fail, and *)
(* a call may be refused because of stamps that expired behind a later one. *)
(* What does not depend on the order is kept whatever stamps calls carry.   *)

TailInv == \A tok \in Tokens : DequeIsTail(tok)

\* A thread that waits for the lock has read the clock for some token.
StampInv == \A t \in Threads : stamp[t] = NoRead \/ stamp[t].token \in Tokens

ThreadInv == TypeOK /\ StampInv /\ TailInv /\ DictInv

\* A pass through the locked section, with any stamp, keeps each deque the tail
\* of its log, no longer than the limit.
LEMMA SectionKeepsTail ==
  ASSUME TypeOK, TailInv, NEW tok \in Tokens, NEW now \in Nat, LockedSection(tok, now)
  PROVE  TailInv'
<1>1. PICK k \in 0 .. Len(windows[tok]) :
        /\ PopsTo(windows[tok], now, k)
        /\ RefuseEffect(tok, now, k) \/ AcceptEffect(tok, now, k)
  BY CallEffect
<1>2. DequeIsTail(tok)
  BY DEF TailInv
<1>3. DequeIsTail(tok)'
  BY <1>1, <1>2, EffectKeepsTail
<1>4. ASSUME NEW x \in Tokens \ {tok} PROVE DequeIsTail(x)'
  <2>1. /\ accepted'[x] = accepted[x]
        /\ \/ windows'[x] = windows[x] /\ forgotten'[x] = forgotten[x]
           \/ windows'[x] = << >> /\ forgotten'[x] = Len(accepted[x])
    BY OtherTokens
  <2>2. CASE windows'[x] = windows[x] /\ forgotten'[x] = forgotten[x]
    BY <2>1, <2>2 DEF TailInv, DequeIsTail, Popped
  <2>3. CASE windows'[x] = << >> /\ forgotten'[x] = Len(accepted[x])
    <3>1. Len(accepted[x]) \in Nat /\ MaxAttempts \in Nat
      BY LenProperties, LimitAssumption DEF TypeOK
    <3>2. Len(windows'[x]) = 0 /\ Popped(x)' = Len(accepted[x]) - 0
      BY <2>1, <2>3, EmptySeq DEF Popped
    <3> QED
      BY <2>1, <2>3, <3>1, <3>2 DEF DequeIsTail
  <2> QED
    BY <2>1, <2>2, <2>3
<1> QED
  BY <1>3, <1>4 DEF TailInv

\* A thread's turn at the lock keeps the invariant.
LEMMA TakeLockKeeps ==
  ASSUME ThreadInv, NEW t \in Threads, TakeLock(t)
  PROVE  ThreadInv'
<1>1. /\ stamp[t].token \in Tokens /\ stamp[t].at \in Nat
      /\ LockedSection(stamp[t].token, stamp[t].at)
      /\ stamp' = [stamp EXCEPT ![t] = NoRead] /\ clock' = clock
  BY DEF ThreadInv, StampInv, TypeOK, TakeLock
<1>2. TailInv'
  BY <1>1, SectionKeepsTail DEF ThreadInv
<1>3. DictInv'
  BY <1>1, SectionKeepsDict DEF ThreadInv
<1>4. StampInv'
  BY <1>1 DEF ThreadInv, StampInv, TypeOK
<1>5. TypeOK'
  <2>1. clock' \in Nat /\ stamp' \in [Threads -> [token : Tokens \cup {"none"}, at : Nat]]
    BY <1>1 DEF ThreadInv, TypeOK, NoRead
  <2> QED
    BY <1>1, <2>1, SectionType DEF ThreadInv
<1> QED
  BY <1>2, <1>3, <1>4, <1>5 DEF ThreadInv

\* With callers in threads too, the dict stays within its guard with no empty
\* deque, and a token's deque is exactly its latest stamps let
\* through, in the order of the lock and at most MaxAttempts of them: waiting for
\* the lock with an old stamp loses no entry and leaks none.
THEOREM ThreadedHolds == ThreadedSpec => [](TypeOK /\ DictBounded /\ TailInv)
<1>1. Init => ThreadInv
  <2>1. Len(<< >>) = 0
    BY EmptySeq
  <2>2. Init => TypeOK
    BY <2>1, EmptySeq, LimitAssumption DEF Init, TypeOK, NoCall, NoRead
  <2>3. Init => StampInv
    BY DEF Init, StampInv
  <2>4. Init => TailInv
    BY <2>1, LimitAssumption DEF Init, TailInv, DequeIsTail, Popped
  <2>5. Init => DictInv
    BY <2>1, LimitAssumption DEF Init, DictInv, DictBounded, OnlyOnce
  <2> QED
    BY <2>2, <2>3, <2>4, <2>5 DEF ThreadInv
<1>2. ThreadInv /\ [ThreadedNext]_vars => ThreadInv'
  <2> SUFFICES ASSUME ThreadInv, [ThreadedNext]_vars PROVE ThreadInv'
    OBVIOUS
  <2>1. ASSUME UNCHANGED <<windows, order, outcome, accepted, forgotten>>,
               clock' \in Nat, StampInv',
               stamp' \in [Threads -> [token : Tokens \cup {"none"}, at : Nat]]
        PROVE  ThreadInv'
    BY <2>1 DEF ThreadInv, TypeOK, TailInv, DequeIsTail, Popped,
              DictInv, DictBounded, OnlyOnce
  <2>2. CASE Tick
    BY <2>1, <2>2 DEF Tick, ThreadInv, TypeOK, StampInv
  <2>3. ASSUME NEW t \in Threads, NEW tok \in Tokens, ReadClock(t, tok) PROVE ThreadInv'
    BY <2>1, <2>3 DEF ReadClock, ThreadInv, TypeOK, StampInv
  <2>4. ASSUME NEW t \in Threads, TakeLock(t) PROVE ThreadInv'
    BY <2>4, TakeLockKeeps
  <2>5. CASE UNCHANGED vars
    BY <2>1, <2>5 DEF vars, ThreadInv, TypeOK, StampInv
  <2> QED
    BY <2>2, <2>3, <2>4, <2>5 DEF ThreadedNext
<1>3. ThreadInv => TypeOK /\ DictBounded /\ TailInv
  BY DEF ThreadInv, DictInv
<1> QED
  BY <1>1, <1>2, <1>3, PTL DEF ThreadedSpec
============================================================================
