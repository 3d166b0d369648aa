--------------------------- MODULE ServiceProofs ----------------------------
(***************************************************************************)
(* The service for any number of keys, vaults, requests and restarts.      *)
(*                                                                         *)
(* A dead key is refused: a request is judged twice, when its dependency   *)
(* looks the key up and when the endpoint runs.  What was dead on arrival  *)
(* is not Live any more, no generated key is in the environment, and the   *)
(* service never issues a key again, so the first look-up refuses it.      *)
(* Then the webhooks, whose subscribers can tell the ratio from what they  *)
(* hear, and the registry, whose lists keep what was acknowledged.         *)
(***************************************************************************)
EXTENDS Service, FiniteSetTheorems, TLAPS

\* A key that was never issued has no record, and one that is dead has none that
\* the look-up accepts: its record is revoked, expired or lost.
DeadNotLive ==
    /\ issued \subseteq RawKey
    /\ dead \subseteq issued
    /\ \A k \in RawKey \ issued : keys[k] = NoKey
    /\ \A k \in dead : ~Live(k)

\* What a request remembers of its key is still so, and no request whose key was
\* dead on arrival has passed its dependency.
RequestsJudged ==
    \A s \in Slot :
        /\ request[s].dead => request[s].key \in dead
        /\ request[s].pc = "authorised" => ~request[s].dead

\* keys and request are functions on their domains.
Shapes ==
    /\ keys \in [RawKey -> [revoked : BOOLEAN,
                            expires : {"none", "never", "later", "past"}]]
    /\ request \in [Slot -> [pc : {"idle", "arrived", "authorised"},
                             op : KeyOps \cup {"none"}, key : Keys, dead : BOOLEAN]]
    /\ misused = FALSE

KeyInv == Shapes /\ DeadNotLive /\ RequestsJudged

-----------------------------------------------------------------------------

\* A dead key is refused by the look-up (verify_institution_key): it is not live
\* in the store, and it is none of the keys of the environment.
LEMMA DeadRefused ==
    ASSUME KeyInv, NEW k \in dead
    PROVE  AuthStatus(k) # 200
<1>1. k \in RawKey /\ ~Live(k)
  BY DEF KeyInv, DeadNotLive
<1>2. k \notin EnvKeys
  BY <1>1, ServiceAssumption
<1> QED
  BY <1>1, <1>2 DEF AuthStatus

\* The key that is generated next has not been issued (generate_key).
LEMMA FreshUnissued ==
    ASSUME KeyInv, issued # RawKey
    PROVE  Fresh \in RawKey \ issued
<1>1. \E k \in RawKey \ issued : TRUE
  BY DEF KeyInv, DeadNotLive
<1> QED
  BY <1>1 DEF Fresh

\* A process starts without keys and requests.
LEMMA InitKeyInv == Init => KeyInv
<1> SUFFICES ASSUME Init PROVE KeyInv
  OBVIOUS
<1> USE DEF Init, ServiceInit
<1>1. Idle \in [pc : {"idle", "arrived", "authorised"},
                op : KeyOps \cup {"none"}, key : Keys, dead : BOOLEAN]
  <2>1. \E k \in EnvKeys : TRUE
    BY ServiceAssumption
  <2> QED
    BY <2>1 DEF Idle, Keys
<1>2. Shapes
  BY <1>1 DEF Shapes, NoKey
<1>3. DeadNotLive
  BY DEF DeadNotLive
<1>4. RequestsJudged
  BY DEF RequestsJudged, Idle
<1> QED
  BY <1>2, <1>3, <1>4 DEF KeyInv

-----------------------------------------------------------------------------
(* The steps                                                               *)

\* A step that leaves the keys alone, and answers no request with success that
\* came with a dead key, keeps the invariant.
LEMMA KeysUnchanged ==
    ASSUME KeyInv, UNCHANGED <<keys, request, issued, dead>>,
           NEW status, NEW k \in Keys, status = 200 => k \notin dead,
           Answers(status, k \in dead)
    PROVE  KeyInv'
<1>1. misused' = FALSE
  BY DEF KeyInv, Shapes, Answers
<1> QED
  BY <1>1 DEF KeyInv, Shapes, DeadNotLive, RequestsJudged, Live, Recorded

\* An answer to a key that has passed verify_institution_key, whatever it is.
LEMMA AuthorisedAnswer ==
    ASSUME KeyInv, UNCHANGED <<keys, request, issued, dead>>,
           NEW status, NEW k \in Keys, AuthStatus(k) = 200, Answers(status, k \in dead)
    PROVE  KeyInv'
<1>1. k \notin dead
  BY DeadRefused
<1> QED
  BY <1>1, KeysUnchanged

LEMMA ArriveKeeps ==
    ASSUME KeyInv, NEW s \in Slot, NEW op \in KeyOps, NEW k \in Keys, Arrive(s, op, k)
    PROVE  KeyInv'
<1> USE DEF Arrive
<1>1. Shapes'
  BY DEF KeyInv, Shapes
<1>2. DeadNotLive'
  BY DEF KeyInv, DeadNotLive, Live, Recorded
<1>3. ASSUME NEW t \in Slot PROVE /\ request'[t].dead => request'[t].key \in dead'
                                  /\ request'[t].pc = "authorised" => ~request'[t].dead
  <2>1. CASE t = s
    BY <2>1 DEF KeyInv, Shapes
  <2>2. CASE t # s
    BY <2>2 DEF KeyInv, Shapes, RequestsJudged
  <2> QED
    BY <2>1, <2>2
<1> QED
  BY <1>1, <1>2, <1>3 DEF KeyInv, RequestsJudged

LEMMA IdleShape ==
    /\ Idle \in [pc : {"idle", "arrived", "authorised"}, op : KeyOps \cup {"none"},
                 key : Keys, dead : BOOLEAN]
    /\ Idle.pc = "idle" /\ ~Idle.dead
<1>1. \E k \in EnvKeys : TRUE
  BY ServiceAssumption
<1> QED
  BY <1>1 DEF Idle, Keys

LEMMA DependKeeps ==
    ASSUME KeyInv, NEW s \in Slot, Depend(s)
    PROVE  KeyInv'
<1> DEFINE r == request[s]
<1>1. r.dead => AuthStatus(r.key) # 200
  BY DeadRefused DEF KeyInv, RequestsJudged
<1>2. DeadNotLive'
  BY DEF KeyInv, DeadNotLive, Live, Recorded, Depend
<1>3. CASE AuthStatus(r.key) = 200
  <2>1. request' = [request EXCEPT ![s].pc = "authorised"] /\ misused' = misused
    BY <1>3 DEF Depend
  <2>2. Shapes'
    BY <2>1 DEF KeyInv, Shapes, Depend
  <2>3. ASSUME NEW t \in Slot PROVE /\ request'[t].dead => request'[t].key \in dead'
                                    /\ request'[t].pc = "authorised" => ~request'[t].dead
    <3>1. CASE t = s
      BY <1>1, <1>3, <2>1, <3>1 DEF KeyInv, Shapes, RequestsJudged, Depend
    <3>2. CASE t # s
      BY <2>1, <3>2 DEF KeyInv, Shapes, RequestsJudged, Depend
    <3> QED
      BY <3>1, <3>2
  <2> QED
    BY <1>2, <2>2, <2>3 DEF KeyInv, RequestsJudged
<1>4. CASE AuthStatus(r.key) # 200
  <2>1. request' = [request EXCEPT ![s] = Idle] /\ Answers(AuthStatus(r.key), r.dead)
    BY <1>4 DEF Depend
  <2>2. misused' = FALSE
    BY <1>4, <2>1 DEF Answers, KeyInv, Shapes
  <2>3. Shapes'
    BY <2>1, <2>2, IdleShape DEF KeyInv, Shapes, Depend
  <2>4. RequestsJudged'
    BY <2>1, IdleShape DEF KeyInv, Shapes, RequestsJudged, Depend
  <2> QED
    BY <1>2, <2>3, <2>4 DEF KeyInv
<1> QED
  BY <1>3, <1>4

\* A generated key is neither dead nor known before, so that nothing is revived.
LEMMA RegisterKeeps ==
    ASSUME KeyInv, NEW e \in {"never", "later"}, RegisterKey(e), dead' = dead
    PROVE  /\ DeadNotLive'
           /\ keys' \in [RawKey -> [revoked : BOOLEAN,
                                    expires : {"none", "never", "later", "past"}]]
<1>1. Fresh \in RawKey \ issued
  BY FreshUnissued DEF RegisterKey
<1>2. keys' = [keys EXCEPT ![Fresh] = [revoked |-> FALSE, expires |-> e]]
  BY DEF RegisterKey
<1>3. \A k \in dead : ~Live(k)'
  <2> SUFFICES ASSUME NEW k \in dead PROVE ~Live(k)'
    OBVIOUS
  <2>1. k # Fresh /\ k \in RawKey /\ ~Live(k)
    BY <1>1 DEF KeyInv, DeadNotLive
  <2>2. keys'[k] = keys[k]
    BY <1>2, <2>1 DEF KeyInv, Shapes
  <2> QED
    BY <2>1, <2>2 DEF Live, Recorded
<1>4. keys' \in [RawKey -> [revoked : BOOLEAN, expires : {"none", "never", "later", "past"}]]
  BY <1>1, <1>2 DEF KeyInv, Shapes
<1>5. \A k \in RawKey \ issued' : keys'[k] = NoKey
  BY <1>1, <1>2 DEF RegisterKey, KeyInv, Shapes, DeadNotLive
<1> QED
  BY <1>1, <1>3, <1>4, <1>5 DEF RegisterKey, KeyInv, DeadNotLive

\* A record that is marked revoked is live no more.
LEMMA RevokeKeeps ==
    ASSUME KeyInv, NEW k \in Keys, Recorded(k), keys' = Revoked(k),
           dead' = dead \cup {k}, issued' = issued
    PROVE  /\ DeadNotLive'
           /\ keys' \in [RawKey -> [revoked : BOOLEAN,
                                    expires : {"none", "never", "later", "past"}]]
<1>1. k \in issued /\ k \in RawKey
  BY DEF Recorded, KeyInv, DeadNotLive
<1>2. keys' = [keys EXCEPT ![k].revoked = TRUE]
  BY DEF Revoked
<1>3. keys' \in [RawKey -> [revoked : BOOLEAN, expires : {"none", "never", "later", "past"}]]
  BY <1>1, <1>2 DEF KeyInv, Shapes
<1>4. \A d \in dead' : ~Live(d)'
  <2> SUFFICES ASSUME NEW d \in dead' PROVE ~Live(d)'
    OBVIOUS
  <2>1. CASE d = k
    BY <1>1, <1>2, <2>1 DEF Live, KeyInv, Shapes
  <2>2. CASE d # k
    <3>1. d \in dead /\ d \in RawKey /\ ~Live(d)
      BY <2>2 DEF KeyInv, DeadNotLive
    <3>2. keys'[d] = keys[d]
      BY <1>2, <2>2, <3>1 DEF KeyInv, Shapes
    <3> QED
      BY <3>1, <3>2 DEF Live, Recorded
  <2> QED
    BY <2>1, <2>2
<1> QED
  BY <1>1, <1>2, <1>3, <1>4 DEF KeyInv, Shapes, DeadNotLive

LEMMA EndpointKeeps ==
    ASSUME KeyInv, NEW s \in Slot, Endpoint(s)
    PROVE  KeyInv'
<1> DEFINE r == request[s]
<1>1. r.pc = "authorised" /\ ~r.dead /\ request' = [request EXCEPT ![s] = Idle]
  BY DEF Endpoint, KeyInv, RequestsJudged
<1>2. misused' = FALSE
  BY <1>1 DEF Endpoint, Answers, KeyInv, Shapes
<1>3. dead \subseteq dead'
  BY DEF Endpoint
<1>4. RequestsJudged'
  BY <1>1, <1>3, IdleShape DEF KeyInv, Shapes, RequestsJudged
<1>5. /\ DeadNotLive'
      /\ keys' \in [RawKey -> [revoked : BOOLEAN, expires : {"none", "never", "later", "past"}]]
  <2>1. ASSUME UNCHANGED <<keys, issued, dead>>
        PROVE  /\ DeadNotLive'
               /\ keys' \in [RawKey -> [revoked : BOOLEAN,
                                        expires : {"none", "never", "later", "past"}]]
    BY <2>1 DEF KeyInv, Shapes, DeadNotLive, Live, Recorded
  <2>2. CASE r.op = "generate"
    BY <2>1, <2>2, RegisterKeeps DEF Endpoint
  <2>3. CASE r.op = "verify"
    BY <2>1, <2>3 DEF Endpoint
  <2>4. CASE r.op = "revoke"
    <3>1. r.key \in Keys
      BY DEF KeyInv, Shapes
    <3>2. CASE Recorded(r.key)
      BY <2>4, <3>1, <3>2, RevokeKeeps DEF Endpoint
    <3>3. CASE ~Recorded(r.key)
      BY <2>1, <2>4, <3>3 DEF Endpoint
    <3> QED
      BY <3>2, <3>3
  <2>5. CASE r.op = "rotate"
    <3>1. CASE Recorded(r.key)
      BY <2>5, <3>1, RegisterKeeps DEF Endpoint
    <3>2. CASE ~Recorded(r.key)
      BY <2>1, <2>5, <3>2 DEF Endpoint
    <3> QED
      BY <3>1, <3>2
  <2> QED
    BY <2>2, <2>3, <2>4, <2>5 DEF Endpoint
<1>6. Shapes'
  BY <1>1, <1>2, <1>5, IdleShape DEF KeyInv, Shapes
<1> QED
  BY <1>4, <1>5, <1>6 DEF KeyInv

\* A key that expires has been issued, since one without a record has no expiry.
LEMMA KeyExpiresKeeps ==
    ASSUME KeyInv, NEW k \in RawKey, KeyExpires(k)
    PROVE  KeyInv'
<1>1. k \in issued
  BY DEF KeyExpires, KeyInv, DeadNotLive, NoKey
<1>2. keys' = [keys EXCEPT ![k].expires = "past"] /\ dead' = dead \cup {k} /\ issued' = issued
  BY DEF KeyExpires
<1>3. Shapes'
  BY <1>2 DEF KeyExpires, KeyInv, Shapes
<1>4. \A d \in dead' : ~Live(d)'
  <2> SUFFICES ASSUME NEW d \in dead' PROVE ~Live(d)'
    OBVIOUS
  <2>1. CASE d = k
    BY <1>2, <2>1 DEF Live, KeyInv, Shapes
  <2>2. CASE d # k
    <3>1. d \in dead /\ d \in RawKey /\ ~Live(d)
      BY <1>2, <2>2 DEF KeyInv, DeadNotLive
    <3>2. keys'[d] = keys[d]
      BY <1>2, <2>2, <3>1 DEF KeyInv, Shapes
    <3> QED
      BY <3>1, <3>2 DEF Live, Recorded
  <2> QED
    BY <2>1, <2>2
<1>5. DeadNotLive'
  BY <1>1, <1>2, <1>4 DEF KeyInv, Shapes, DeadNotLive
<1>6. RequestsJudged'
  BY <1>2 DEF KeyExpires, KeyInv, RequestsJudged
<1> QED
  BY <1>3, <1>5, <1>6 DEF KeyInv

\* A restart forgets every key, revoked ones included, and every request.
LEMMA RestartKeeps ==
    ASSUME KeyInv, Restart
    PROVE  KeyInv'
<1>1. Shapes'
  BY IdleShape DEF Restart, KeyInv, Shapes, NoKey
<1>2. DeadNotLive'
  BY DEF Restart, KeyInv, DeadNotLive, Live, Recorded
<1>3. RequestsJudged'
  BY IdleShape DEF Restart, RequestsJudged
<1> QED
  BY <1>1, <1>2, <1>3 DEF KeyInv

LEMMA StepKeeps == KeyInv /\ [Next]_vars => KeyInv'
<1> SUFFICES ASSUME KeyInv, [Next]_vars PROVE KeyInv'
  OBVIOUS
<1>1. ASSUME UNCHANGED <<keys, request, issued, dead, misused>> PROVE KeyInv'
  BY <1>1 DEF KeyInv, Shapes, DeadNotLive, RequestsJudged, Live, Recorded
<1>2. ASSUME NEW k \in Keys, Refuse(k) PROVE KeyInv'
  BY <1>2, KeysUnchanged DEF Refuse
<1>3. ASSUME NEW k \in Keys, NEW v \in Vault, RegisterVault(k, v) PROVE KeyInv'
  BY <1>3, AuthorisedAnswer DEF RegisterVault
<1>4. ASSUME NEW k \in Keys, NEW v \in Vault, DeregisterVault(k, v) PROVE KeyInv'
  BY <1>4, AuthorisedAnswer DEF DeregisterVault
<1>5. ASSUME NEW k \in Keys, NEW v \in Watched, NEW url \in Url, WebhookRequest(k, v, url)
      PROVE  KeyInv'
  BY <1>5, AuthorisedAnswer DEF WebhookRequest
<1>6. ASSUME NEW k \in Keys, NEW flow \in Flows, ServeFlow(k, flow) PROVE KeyInv'
  BY <1>6, AuthorisedAnswer DEF ServeFlow
<1>7. CASE MonitorStep
  BY <1>1, <1>7 DEF MonitorStep
<1>8. CASE Delivery
  BY <1>1, <1>8 DEF Delivery, serviceVars
<1>9. CASE UNCHANGED vars
  BY <1>1, <1>9 DEF vars, serviceVars
<1> QED
  BY <1>2, <1>3, <1>4, <1>5, <1>6, <1>7, <1>8, <1>9, ArriveKeeps, DependKeeps,
     EndpointKeeps, KeyExpiresKeeps, RestartKeeps DEF Next

\* A request that comes with a key that was revoked, by a request that has been
\* answered, or has expired, is never answered with success (verify_institution_key
\* and the key endpoints), for any number of keys, slots, requests and restarts.
THEOREM DeadKeysRefusedHolds == Spec => []DeadKeysRefused
<1>1. KeyInv => DeadKeysRefused
  BY DEF KeyInv, Shapes, DeadKeysRefused
<1> QED
  BY <1>1, InitKeyInv, StepKeeps, PTL DEF Spec

-----------------------------------------------------------------------------
(* Lists                                                                   *)

\* A set of numbers has a least one: the intervals below its members are subsets of a
\* finite set, and one of them is minimal.
LEMMA Least ==
    ASSUME NEW T, T \subseteq Nat, T # {}
    PROVE  \E m \in T : \A t \in T : m <= t
<1>1. PICK n \in T : TRUE
  OBVIOUS
<1> DEFINE below == {0 .. k - 1 : k \in {k \in T : k <= n}}
<1>2. IsFiniteSet(0 .. n) /\ below \subseteq SUBSET (0 .. n) /\ 0 .. n - 1 \in below
  <2>1. IsFiniteSet(0 .. n)
    BY FS_Interval
  <2>2. \A k \in T : k <= n => 0 .. k - 1 \subseteq 0 .. n
    OBVIOUS
  <2>3. n \in {k \in T : k <= n}
    OBVIOUS
  <2> QED
    BY <2>1, <2>2, <2>3
<1>3. IsWellFoundedOn(StrictSubsetOrdering(0 .. n), SUBSET (0 .. n))
  BY <1>2, FS_StrictSubsetOrderingWellFounded, FS_FiniteSubsetsOfFinite
<1>4. PICK s \in below : \A t \in below : ~(<<t, s>> \in StrictSubsetOrdering(0 .. n))
  BY <1>2, <1>3, WFMin
<1>5. \A t \in below : t \subseteq s => t = s
  BY <1>2, <1>4 DEF StrictSubsetOrdering
<1>6. PICK m \in T : m <= n /\ s = 0 .. m - 1
  OBVIOUS
<1>7. ASSUME NEW t \in T, t < m PROVE FALSE
  <2>1. 0 .. t - 1 \in below /\ 0 .. t - 1 \subseteq 0 .. m - 1
    BY <1>6, <1>7
  <2>2. t \in 0 .. m - 1 /\ t \notin 0 .. t - 1
    BY <1>6, <1>7
  <2> QED
    BY <1>5, <1>6, <2>1, <2>2
<1> QED
  BY <1>6, <1>7

\* Induction up to N, for the numbers in a set.
LEMMA UpTo ==
    ASSUME NEW N \in Nat, NEW T, 0 \in T, \A n \in 1 .. N : n - 1 \in T => n \in T
    PROVE  N \in T
<1> DEFINE Bad == {n \in 0 .. N : n \notin T}
<1>1. ASSUME Bad # {} PROVE FALSE
  <2>1. Bad \subseteq Nat
    OBVIOUS
  <2>2. PICK n \in Bad : \A t \in Bad : n <= t
    BY <1>1, <2>1, Least
  <2>3. n # 0
    OBVIOUS
  <2>4. n \in 1 .. N /\ n - 1 \in 0 .. N /\ ~ (n <= n - 1)
    BY <2>3
  <2> QED
    BY <2>2, <2>4
<1> QED
  BY <1>1

\* What Kept has of the first n elements, from what g has of fewer.
KeptStep(g, list, keep, n) ==
    [i \in 0 .. n |->
       IF i = 0 THEN <<>>
       ELSE IF list[i] \in keep THEN Append(g[i - 1], list[i]) ELSE g[i - 1]]

LEMMA KeptStepValue ==
    ASSUME NEW g, NEW list, NEW keep, NEW n \in Nat, NEW i \in 0 .. n
    PROVE  KeptStep(g, list, keep, n)[i] =
             IF i = 0 THEN <<>>
             ELSE IF list[i] \in keep THEN Append(g[i - 1], list[i]) ELSE g[i - 1]
  BY DEF KeptStep

\* The recursive function that Kept takes its value from exists.
LEMMA KeptDefined ==
    ASSUME NEW list, Len(list) \in Nat, NEW keep
    PROVE  \E upTo : /\ upTo = KeptStep(upTo, list, keep, Len(list))
                     /\ Kept(list, keep) = upTo[Len(list)]
<1> DEFINE T == {n \in Nat : \E g : g = KeptStep(g, list, keep, n)}
<1>1. 0 \in T
  <2>1. [i \in 0 .. 0 |-> <<>>] = KeptStep([i \in 0 .. 0 |-> <<>>], list, keep, 0)
    BY DEF KeptStep
  <2> QED
    BY <2>1
<1>2. ASSUME NEW n \in 1 .. Len(list), n - 1 \in T PROVE n \in T
  <2>1. PICK g : g = KeptStep(g, list, keep, n - 1)
    BY <1>2
  <2> DEFINE h == KeptStep(g, list, keep, n)
  <2>2. ASSUME NEW i \in 0 .. n - 1 PROVE h[i] = g[i]
    BY <2>1, KeptStepValue
  <2>3. \A i \in 0 .. n : i # 0 => i - 1 \in 0 .. n - 1
    OBVIOUS
  <2>4. h = KeptStep(h, list, keep, n)
    BY <2>2, <2>3 DEF KeptStep
  <2> QED
    BY <2>4
<1>3. Len(list) \in T
  BY <1>1, <1>2, UpTo
<1> QED
  BY <1>3 DEF Kept, KeptStep

\* What is in a sequence that is longer by one.
LEMMA AppendIs ==
    ASSUME NEW X, NEW s \in Seq(X), NEW e \in X
    PROVE  /\ ToSet(Append(s, e)) = ToSet(s) \cup {e}
           /\ IsInjective(s) /\ e \notin ToSet(s) => IsInjective(Append(s, e))
<1>1. /\ DOMAIN Append(s, e) = DOMAIN s \cup {Len(s) + 1}
      /\ \A i \in DOMAIN s : Append(s, e)[i] = s[i]
      /\ Append(s, e)[Len(s) + 1] = e
  OBVIOUS
<1> QED
  BY <1>1 DEF ToSet, IsInjective

\* Kept keeps what it is to keep, and keeps apart what was apart.
LEMMA KeptIs ==
    ASSUME NEW X, NEW list \in Seq(X), NEW keep
    PROVE  /\ Kept(list, keep) \in Seq(X)
           /\ ToSet(Kept(list, keep)) = ToSet(list) \cap keep
           /\ IsInjective(list) => IsInjective(Kept(list, keep))
<1>1. PICK f : /\ f = KeptStep(f, list, keep, Len(list))
               /\ Kept(list, keep) = f[Len(list)]
  BY KeptDefined
<1> DEFINE T == {n \in Nat : /\ f[n] \in Seq(X)
                             /\ ToSet(f[n]) = {list[i] : i \in 1 .. n} \cap keep
                             /\ IsInjective(list) => IsInjective(f[n])}
<1>2. f[0] = <<>> /\ \A n \in 1 .. Len(list) :
         f[n] = IF list[n] \in keep THEN Append(f[n - 1], list[n]) ELSE f[n - 1]
  BY <1>1, KeptStepValue
<1>3. 0 \in T
  <2>1. <<>> \in Seq(X) /\ ToSet(<<>>) = {} /\ IsInjective(<<>>)
    BY DEF ToSet, IsInjective
  <2>2. {list[i] : i \in 1 .. 0} = {}
    OBVIOUS
  <2> QED
    BY <1>2, <2>1, <2>2
<1>4. ASSUME NEW n \in 1 .. Len(list), n - 1 \in T PROVE n \in T
  <2>1. /\ n \in Nat /\ list[n] \in X /\ 1 .. n = (1 .. n - 1) \cup {n}
        /\ {list[i] : i \in 1 .. n} = {list[i] : i \in 1 .. n - 1} \cup {list[n]}
    OBVIOUS
  <2>2. CASE list[n] \notin keep
    BY <1>2, <1>4, <2>1, <2>2
  <2>3. CASE list[n] \in keep
    <3> DEFINE s == f[n - 1]
    <3>1. f[n] = Append(s, list[n]) /\ s \in Seq(X)
      BY <1>2, <1>4, <2>3
    <3>2. IsInjective(list) => list[n] \notin ToSet(s) /\ IsInjective(s)
      BY <1>4 DEF IsInjective
    <3>3. ToSet(s) = {list[i] : i \in 1 .. n - 1} \cap keep
      BY <1>4
    <3>4. f[n] \in Seq(X) /\ ToSet(f[n]) = ToSet(s) \cup {list[n]}
      BY <2>1, <3>1, AppendIs
    <3>5. IsInjective(list) => IsInjective(f[n])
      BY <2>1, <3>1, <3>2, AppendIs
    <3> QED
      BY <2>1, <2>3, <3>3, <3>4, <3>5
  <2> QED
    BY <2>2, <2>3
<1>5. Len(list) \in T
  <2> HIDE DEF T
  <2> QED
    BY <1>3, <1>4, UpTo
<1>6. {list[i] : i \in 1 .. Len(list)} = ToSet(list)
  BY DEF ToSet
<1> QED
  BY <1>1, <1>5, <1>6

-----------------------------------------------------------------------------
(* Webhooks                                                                *)

Config == [url : Url, events : Filters]

\* Events are fired only of vaults whose ratio the process knows.
LevelInv ==
    /\ level \in [Watched -> {"none", "low", "high"}]
    /\ started \in [Watched -> {"none", "low", "high"}]
    /\ \A v \in Watched : ratio[v] = Unknown => level[v] = "none"
    /\ CriticalTracked

\* subscribed is a function of the vault, next to what is checked of its values.
WebhookInv ==
    /\ WebhookTypeOK
    /\ subscribed \in [Watched -> SUBSET Url]
    /\ LevelInv

LEMMA InitWebhookInv == WebhookInit => WebhookInv
<1> SUFFICES ASSUME WebhookInit PROVE WebhookInv
  OBVIOUS
<1>1. \A v \in Watched : {c.url : c \in ToSet(hooks[v])} = subscribed[v]
  BY DEF WebhookInit, ToSet
<1>2. LevelInv
  BY DEF WebhookInit, LevelInv, CriticalTracked
<1>3. hooks \in [Watched -> Seq([url : Url, events : Filters])]
  BY DEF WebhookInit
<1>4. fired \in 0 .. MaxFired /\ firing = {} /\ posts = {}
  BY WebhookAssumption DEF WebhookInit
<1> QED
  BY <1>1, <1>2, <1>3, <1>4 DEF WebhookInit, WebhookInv, WebhookTypeOK

\* A configuration that is appended adds its URL, whether it was there or not.
LEMMA RegisterWebhookKeeps ==
    ASSUME WebhookInv, NEW v \in Watched, NEW url \in Url, NEW events \in Filters,
           RegisterWebhook(v, url, events)
    PROVE  WebhookInv'
<1> DEFINE c == [url |-> url, events |-> events]
<1>1. hooks[v] \in Seq(Config) /\ c \in Config
  BY DEF WebhookInv, WebhookTypeOK, Config
<1>2. Append(hooks[v], c) \in Seq(Config) /\ ToSet(Append(hooks[v], c)) = ToSet(hooks[v]) \cup {c}
  BY <1>1, AppendIs
<1>3. hooks' = [hooks EXCEPT ![v] = Append(hooks[v], c)]
  BY DEF RegisterWebhook
<1>4. hooks' \in [Watched -> Seq(Config)]
  BY <1>2, <1>3 DEF WebhookInv, WebhookTypeOK, Config
<1>5. ASSUME NEW w \in Watched PROVE {d.url : d \in ToSet(hooks'[w])} = subscribed'[w]
  <2>1. CASE w = v
    <3>1. {d.url : d \in ToSet(hooks[v])} = subscribed[v]
      BY DEF WebhookInv, WebhookTypeOK
    <3>2. subscribed'[v] = subscribed[v] \cup {url}
      BY DEF RegisterWebhook, WebhookInv
    <3>3. ToSet(hooks'[v]) = ToSet(hooks[v]) \cup {c}
      BY <1>2, <1>3 DEF WebhookInv, WebhookTypeOK
    <3>4. c.url = url
      OBVIOUS
    <3>5. {d.url : d \in ToSet(hooks'[v])} = {d.url : d \in ToSet(hooks[v])} \cup {c.url}
      <4> DEFINE U == ToSet(hooks[v])
      <4> HIDE DEF U, c
      <4>1. {d.url : d \in U \cup {c}} = {d.url : d \in U} \cup {c.url}
        OBVIOUS
      <4> QED
        BY <3>3, <4>1 DEF U
    <3> QED
      BY <2>1, <3>1, <3>2, <3>4, <3>5
  <2>2. CASE w # v
    BY <1>3, <2>2 DEF RegisterWebhook, WebhookInv, WebhookTypeOK
  <2> QED
    BY <2>1, <2>2
<1> QED
  BY <1>4, <1>5
  DEF RegisterWebhook, WebhookInv, WebhookTypeOK, LevelInv, CriticalTracked, Config

\* Every configuration of the URL goes (deregister_webhook), and only those.
LEMMA DeregisterWebhookKeeps ==
    ASSUME WebhookInv, NEW v \in Watched, NEW url \in Url, DeregisterWebhook(v, url)
    PROVE  WebhookInv'
<1> DEFINE left == UrlRemoved(hooks[v], url)
<1>1. hooks[v] \in Seq(Config)
  BY DEF WebhookInv, WebhookTypeOK, Config
<1>2. left \in Seq(Config) /\ ToSet(left) = {c \in ToSet(hooks[v]) : c.url # url}
  BY <1>1, KeptIs DEF UrlRemoved
<1>3. hooks' = [hooks EXCEPT ![v] = left]
  BY DEF DeregisterWebhook
<1>4. hooks' \in [Watched -> Seq(Config)]
  BY <1>2, <1>3 DEF WebhookInv, WebhookTypeOK, Config
<1>5. ASSUME NEW w \in Watched PROVE {d.url : d \in ToSet(hooks'[w])} = subscribed'[w]
  <2>1. CASE w = v
    <3>1. {d.url : d \in ToSet(hooks[v])} = subscribed[v]
      BY DEF WebhookInv, WebhookTypeOK
    <3>2. subscribed'[v] = subscribed[v] \ {url}
      BY DEF DeregisterWebhook, WebhookInv
    <3>3. ToSet(hooks'[v]) = {c \in ToSet(hooks[v]) : c.url # url}
      BY <1>2, <1>3 DEF WebhookInv, WebhookTypeOK
    <3> QED
      BY <2>1, <3>1, <3>2, <3>3
  <2>2. CASE w # v
    BY <1>3, <2>2 DEF DeregisterWebhook, WebhookInv, WebhookTypeOK
  <2> QED
    BY <2>1, <2>2
<1> QED
  BY <1>4, <1>5
  DEF DeregisterWebhook, WebhookInv, WebhookTypeOK, LevelInv, CriticalTracked, Config

\* The tasks made so far and the one that is made carry numbers that have been given.
LEMMA FiresKeeps ==
    ASSUME WebhookInv, NEW v \in Watched, NEW event, Fires(v, event), posts' = posts
    PROVE  /\ fired' \in 0 .. MaxFired
           /\ \A f \in firing' : f.id \in 1 .. fired' /\ f.vault \in Watched
           /\ \A p \in posts' : p.id \in 1 .. fired' /\ p.failures \in 0 .. MaxRetries - 1
  BY WebhookAssumption DEF Fires, WebhookInv, WebhookTypeOK

\* What a subscriber knows follows the ratio across 1.5, whatever else is crossed.
LEMMA SignalKeeps ==
    ASSUME WebhookInv, NEW v \in Watched, NEW now \in Bands, Signal(v, now)
    PROVE  WebhookInv'
<1> DEFINE event == DetermineEvent(now, ratio[v])
<1>1. /\ ratio' = [ratio EXCEPT ![v] = now]
      /\ level' = [level EXCEPT ![v] = Heard(level[v], event)]
      /\ started' = [started EXCEPT ![v] = IF ratio[v] = Unknown THEN Side(now) ELSE started[v]]
      /\ UNCHANGED <<hooks, posts, subscribed>>
  BY DEF Signal
<1>2. /\ fired' \in 0 .. MaxFired
      /\ \A f \in firing' : f.id \in 1 .. fired' /\ f.vault \in Watched
      /\ \A p \in posts' : p.id \in 1 .. fired' /\ p.failures \in 0 .. MaxRetries - 1
  <2>1. CASE event = "none"
    BY <1>1, <2>1 DEF Signal, WebhookInv, WebhookTypeOK
  <2>2. CASE event # "none"
    BY <1>1, <2>2, FiresKeeps DEF Signal
  <2> QED
    BY <2>1, <2>2
<1>3. now \in 0 .. 3 /\ ratio[v] \in 0 .. 3 \cup {-1}
  BY DEF Bands, Unknown, WebhookInv, WebhookTypeOK
<1> DEFINE hears == Heard(level[v], event)
           starts == IF ratio[v] = Unknown THEN Side(now) ELSE started[v]
<1>4. /\ level[v] \in {"none", "low", "high"}
      /\ started[v] \in {"none", "low", "high"}
      /\ ratio[v] = -1 => level[v] = "none"
      /\ ratio[v] # -1 => Side(ratio[v]) = IF level[v] = "none" THEN started[v] ELSE level[v]
  BY DEF WebhookInv, LevelInv, CriticalTracked, Unknown
<1>5. /\ Side(now) = IF hears = "none" THEN starts ELSE hears
      /\ hears \in {"none", "low", "high"}
      /\ starts \in {"none", "low", "high"}
  <2>1. CASE ratio[v] = -1
    <3>1. event = "none"
      BY <2>1 DEF DetermineEvent, CrossedBelow, CrossedAbove, Unknown
    <3> QED
      BY <1>4, <2>1, <3>1 DEF Heard, Side, Unknown
  <2>2. CASE ratio[v] = 0
    <3>1. event = IF now >= 1 THEN "resolved" ELSE "none"
      BY <1>3, <2>2 DEF DetermineEvent, CrossedBelow, CrossedAbove, Unknown
    <3> QED
      BY <1>3, <1>4, <2>2, <3>1 DEF Heard, Side, Unknown
  <2>3. CASE ratio[v] >= 1
    <3>1. CASE now < 1
      <4>1. event = "critical"
        BY <1>3, <2>3, <3>1 DEF DetermineEvent, CrossedBelow, CrossedAbove, Unknown
      <4> QED
        BY <1>3, <1>4, <2>3, <3>1, <4>1 DEF Heard, Side, Unknown
    <3>2. CASE now >= 1
      <4>1. event \in {"elevated", "warning", "none"}
        BY <1>3, <2>3, <3>2 DEF DetermineEvent, CrossedBelow, CrossedAbove, Unknown
      <4>2. hears = level[v] /\ starts = started[v] /\ Side(now) = Side(ratio[v])
        BY <1>3, <2>3, <3>2, <4>1 DEF Heard, Side, Unknown
      <4> QED
        BY <1>3, <1>4, <2>3, <4>2
    <3> QED
      BY <1>3, <3>1, <3>2
  <2> QED
    BY <1>3, <2>1, <2>2, <2>3
<1>6. LevelInv'
  <2>1. ASSUME NEW w \in Watched
        PROVE  /\ ratio'[w] = Unknown => level'[w] = "none"
               /\ ratio'[w] # Unknown =>
                    Side(ratio'[w]) = IF level'[w] = "none" THEN started'[w] ELSE level'[w]
    <3>1. CASE w = v
      <4>1. ratio'[w] = now /\ level'[w] = hears /\ started'[w] = starts
        BY <1>1, <3>1 DEF WebhookInv, WebhookTypeOK, LevelInv
      <4> QED
        BY <1>3, <1>5, <4>1 DEF Unknown
    <3>2. CASE w # v
      <4>1. ratio'[w] = ratio[w] /\ level'[w] = level[w] /\ started'[w] = started[w]
        BY <1>1, <3>2 DEF WebhookInv, WebhookTypeOK, LevelInv
      <4> QED
        BY <4>1 DEF WebhookInv, LevelInv, CriticalTracked
    <3> QED
      BY <3>1, <3>2
  <2>2. /\ level' \in [Watched -> {"none", "low", "high"}]
        /\ started' \in [Watched -> {"none", "low", "high"}]
    BY <1>1, <1>5 DEF WebhookInv, LevelInv
  <2> QED
    BY <2>1, <2>2 DEF LevelInv, CriticalTracked
<1>8. \A w \in Watched : started'[w] = "none" <=> ratio'[w] = Unknown
  BY <1>1, <1>3 DEF WebhookInv, WebhookTypeOK, LevelInv, Side, Unknown
<1>7. ratio' \in [Watched -> Bands \cup {Unknown}]
  BY <1>1 DEF WebhookInv, WebhookTypeOK
<1> QED
  BY <1>1, <1>2, <1>6, <1>7, <1>8 DEF WebhookInv, WebhookTypeOK

LEMMA DefaultDetectedKeeps ==
    ASSUME WebhookInv, NEW v \in Watched, DefaultDetected(v)
    PROVE  WebhookInv'
<1>1. /\ fired' \in 0 .. MaxFired
      /\ \A f \in firing' : f.id \in 1 .. fired' /\ f.vault \in Watched
      /\ \A p \in posts' : p.id \in 1 .. fired' /\ p.failures \in 0 .. MaxRetries - 1
  BY FiresKeeps DEF DefaultDetected
<1> QED
  BY <1>1 DEF DefaultDetected, WebhookInv, WebhookTypeOK, LevelInv, CriticalTracked

LEMMA RunFireKeeps ==
    ASSUME WebhookInv, NEW f \in firing, RunFire(f)
    PROVE  WebhookInv'
<1>1. \A p \in posts' : p.id \in 1 .. fired /\ p.failures \in 0 .. MaxRetries - 1
  BY WebhookAssumption DEF RunFire, WebhookInv, WebhookTypeOK
<1> QED
  BY <1>1 DEF RunFire, WebhookInv, WebhookTypeOK, LevelInv, CriticalTracked

\* A posting task that goes on has an attempt left.
LEMMA PostKeeps ==
    ASSUME WebhookInv, NEW p \in posts, Post(p)
    PROVE  WebhookInv'
<1> DEFINE q == [p EXCEPT !.failures = @ + 1]
<1>1. p.id \in 1 .. fired /\ p.failures \in 0 .. MaxRetries - 1
  BY DEF WebhookInv, WebhookTypeOK
<1>2. \/ posts' = posts \ {p}
      \/ ~LastAttempt(p) /\ posts' = (posts \ {p}) \cup {q}
  BY DEF Post
<1>3. \A r \in posts' : r.id \in 1 .. fired /\ r.failures \in 0 .. MaxRetries - 1
  <2>1. CASE posts' = posts \ {p}
    BY <2>1 DEF WebhookInv, WebhookTypeOK
  <2>2. CASE ~LastAttempt(p) /\ posts' = (posts \ {p}) \cup {q}
    <3>1. q.id = p.id
      OBVIOUS
    <3>2. q.failures \in 0 .. MaxRetries - 1
      BY <1>1, <2>2, WebhookAssumption DEF LastAttempt
    <3> QED
      BY <1>1, <2>2, <3>1, <3>2 DEF WebhookInv, WebhookTypeOK
  <2> QED
    BY <1>2, <2>1, <2>2
<1> QED
  BY <1>3 DEF Post, WebhookInv, WebhookTypeOK, LevelInv, CriticalTracked

LEMMA WebhookRestartKeeps ==
    ASSUME WebhookInv, WebhookRestart
    PROVE  WebhookInv'
<1>1. \A v \in Watched : {c.url : c \in ToSet(hooks'[v])} = subscribed'[v]
  BY DEF WebhookRestart, ToSet
<1>2. LevelInv'
  BY DEF WebhookRestart, LevelInv, CriticalTracked
<1>3. hooks' \in [Watched -> Seq([url : Url, events : Filters])]
  BY DEF WebhookRestart
<1>4. fired' \in 0 .. MaxFired /\ firing' = {} /\ posts' = {}
  BY DEF WebhookRestart, WebhookInv, WebhookTypeOK
<1> QED
  BY <1>1, <1>2, <1>3, <1>4 DEF WebhookRestart, WebhookInv, WebhookTypeOK

-----------------------------------------------------------------------------
(* The registry                                                            *)

RegistryTypeOK ==
    /\ registry \in [Keys -> Seq(Vault)] /\ stored \in [Keys -> Seq(Vault)]
    /\ \A k \in Keys : IsInjective(registry[k]) /\ IsInjective(stored[k])
    /\ acked \in [Keys -> SUBSET Vault] /\ listed \in [Keys -> SUBSET Vault]
    /\ steady \in BOOLEAN

\* A process lists nothing that was not acknowledged, so that a list taken over from
\* Redis has whatever the process is to list.
RegistryInv ==
    /\ RegistryTypeOK
    /\ \A k \in Keys : listed[k] \subseteq acked[k]
    /\ RegistrationKept

\* Either list of a registration, and what it becomes with the vault (register_vault).
LEMMA ExistingIs ==
    ASSUME RegistryInv, NEW k \in Keys, NEW v \in Vault, NEW got \in BOOLEAN
    PROVE  LET existing == Existing(k, got)
           IN  /\ existing \in Seq(Vault) /\ IsInjective(existing)
               /\ Append(existing, v) \in Seq(Vault)
               /\ ToSet(Append(existing, v)) = ToSet(existing) \cup {v}
               /\ ~Contains(existing, v) => IsInjective(Append(existing, v))
               /\ Contains(existing, v) <=> v \in ToSet(existing)
<1> DEFINE existing == Existing(k, got)
<1>1. existing \in Seq(Vault) /\ IsInjective(existing)
  BY DEF RegistryInv, RegistryTypeOK, Existing
<1>2. Contains(existing, v) <=> v \in ToSet(existing)
  <2> HIDE DEF existing
  <2> QED
    BY <1>1 DEF Contains, ToSet
<1>3. /\ ToSet(Append(existing, v)) = ToSet(existing) \cup {v}
      /\ v \notin ToSet(existing) => IsInjective(Append(existing, v))
  <2> HIDE DEF existing
  <2> QED
    BY <1>1, AppendIs
<1> QED
  BY <1>1, <1>2, <1>3

\* Whatever Redis answers, the lists stay lists; and if it has answered every call, the
\* vault is in the list of the process, which is then the one of Redis.
LEMMA RegisterVaultKeeps ==
    ASSUME RegistryInv, NEW k \in Keys, NEW v \in Vault, RegisterVault(k, v)
    PROVE  RegistryInv'
<1>1. PICK got, put \in (IF redis THEN BOOLEAN ELSE {FALSE}) :
         LET existing == Existing(k, got)
             entries == Append(existing, v)
             isNew == ~Contains(existing, v)
         IN  /\ registry' = [registry EXCEPT ![k] = IF isNew THEN entries ELSE existing]
             /\ stored' = IF isNew /\ put THEN [stored EXCEPT ![k] = entries] ELSE stored
             /\ acked' = IF isNew THEN [acked EXCEPT ![k] = @ \cup {v}] ELSE acked
             /\ listed' = IF isNew THEN [listed EXCEPT ![k] = @ \cup {v}] ELSE listed
             /\ steady' = (steady /\ got /\ (isNew => put))
             /\ Answers(IF isNew THEN 200 ELSE 422, k \in dead)
  BY DEF RegisterVault
<1>2. got \in BOOLEAN /\ put \in BOOLEAN
  OBVIOUS
<1> DEFINE existing == Existing(k, got)
           entries == Append(existing, v)
           isNew == ~Contains(existing, v)
<1>3. /\ existing \in Seq(Vault) /\ IsInjective(existing)
      /\ entries \in Seq(Vault) /\ (isNew => IsInjective(entries))
      /\ ToSet(entries) = ToSet(existing) \cup {v}
      /\ isNew <=> v \notin ToSet(existing)
  BY <1>2, ExistingIs
<1>4. /\ registry' = [registry EXCEPT ![k] = IF isNew THEN entries ELSE existing]
      /\ stored' = IF isNew /\ put THEN [stored EXCEPT ![k] = entries] ELSE stored
      /\ acked' = IF isNew THEN [acked EXCEPT ![k] = @ \cup {v}] ELSE acked
      /\ listed' = IF isNew THEN [listed EXCEPT ![k] = @ \cup {v}] ELSE listed
      /\ steady' = (steady /\ got /\ (isNew => put))
  BY <1>1
<1>5. got => existing = stored[k]
  BY DEF Existing
<1> HIDE DEF existing, entries, isNew
<1> USE DEF RegistryInv, RegistryTypeOK
<1>6. RegistryTypeOK'
  <2>1. registry' \in [Keys -> Seq(Vault)] /\ stored' \in [Keys -> Seq(Vault)]
    BY <1>3, <1>4
  <2>2. ASSUME NEW j \in Keys PROVE IsInjective(registry'[j]) /\ IsInjective(stored'[j])
    BY <1>3, <1>4
  <2>3. acked' \in [Keys -> SUBSET Vault] /\ listed' \in [Keys -> SUBSET Vault]
    BY <1>4
  <2>4. steady' \in BOOLEAN
    BY <1>2, <1>4 DEF isNew, Contains
  <2> QED
    BY <2>1, <2>2, <2>3, <2>4
<1>7. \A j \in Keys : listed'[j] \subseteq acked'[j]
  BY <1>4
<1>8. ASSUME steady', NEW j \in Keys
      PROVE  ToSet(stored'[j]) = acked'[j] /\ listed'[j] \subseteq ToSet(registry'[j])
  <2>1. steady /\ got /\ (isNew => put)
    BY <1>4, <1>8
  <2>2. ToSet(stored[j]) = acked[j] /\ listed[j] \subseteq ToSet(registry[j])
        /\ listed[j] \subseteq acked[j]
    BY <2>1 DEF RegistrationKept
  <2>3. CASE j # k
    BY <1>4, <2>2, <2>3
  <2>4. CASE j = k /\ isNew
    BY <1>3, <1>4, <1>5, <2>1, <2>2, <2>4
  <2>5. CASE j = k /\ ~isNew
    BY <1>3, <1>4, <1>5, <2>1, <2>2, <2>5
  <2> QED
    BY <2>3, <2>4, <2>5
<1> QED
  BY <1>6, <1>7, <1>8 DEF RegistrationKept

\* The vault goes from the list of the process and from what it is to list.
LEMMA DeregisterVaultKeeps ==
    ASSUME RegistryInv, NEW k \in Keys, NEW v \in Vault, DeregisterVault(k, v)
    PROVE  RegistryInv'
<1> DEFINE left == Kept(registry[k], Vault \ {v})
<1> USE DEF RegistryInv, RegistryTypeOK
<1>1. left \in Seq(Vault) /\ IsInjective(left) /\ ToSet(left) = ToSet(registry[k]) \cap (Vault \ {v})
  BY KeptIs
<1>2. /\ registry' = [registry EXCEPT ![k] = left]
      /\ listed' = [listed EXCEPT ![k] = listed[k] \ {v}]
      /\ UNCHANGED <<stored, acked, steady>>
  BY DEF DeregisterVault
<1> HIDE DEF left
<1>3. RegistryTypeOK'
  <2>1. registry' \in [Keys -> Seq(Vault)] /\ listed' \in [Keys -> SUBSET Vault]
    BY <1>1, <1>2
  <2>2. ASSUME NEW j \in Keys PROVE IsInjective(registry'[j])
    BY <1>1, <1>2
  <2> QED
    BY <1>2, <2>1, <2>2
<1>4. \A j \in Keys : listed'[j] \subseteq acked'[j]
  BY <1>2
<1>5. ASSUME steady, NEW j \in Keys PROVE listed'[j] \subseteq ToSet(registry'[j])
  <2>1. listed[j] \subseteq ToSet(registry[j]) /\ listed[j] \subseteq Vault
    BY <1>5 DEF RegistrationKept
  <2> QED
    BY <1>1, <1>2, <2>1
<1> QED
  BY <1>2, <1>3, <1>4, <1>5 DEF RegistrationKept

\* Only Redis is left of a process.
LEMMA RestartRegistryKeeps ==
    ASSUME RegistryInv, Restart
    PROVE  RegistryInv'
<1>1. <<>> \in Seq(Vault) /\ IsInjective(<<>>)
  BY DEF IsInjective
<1> QED
  BY <1>1 DEF Restart, RegistryInv, RegistryTypeOK, RegistrationKept

LEMMA InitRegistryInv == Init => RegistryInv
<1>1. <<>> \in Seq(Vault) /\ IsInjective(<<>>) /\ ToSet(<<>>) = {}
  BY DEF IsInjective, ToSet
<1> QED
  BY <1>1 DEF Init, ServiceInit, RegistryInv, RegistryTypeOK, RegistrationKept

-----------------------------------------------------------------------------
(* Everything together                                                     *)

\* A key with a record has one of the expiries a record can have, and the counts and
\* the handle are what they are declared to be.
RestInv ==
    /\ \A k \in RawKey : keys[k] # NoKey => keys[k].expires \in {"never", "later", "past"}
    /\ redis \in BOOLEAN
    /\ requests \in 0 .. MaxRequests
    /\ restarts \in 0 .. MaxRestarts

ServiceInv == KeyInv /\ WebhookInv /\ RegistryInv /\ RestInv

LEMMA InitServiceInv == Init => ServiceInv
<1>1. Init => RestInv
  BY ServiceAssumption DEF Init, ServiceInit, RestInv
<1> QED
  BY <1>1, InitKeyInv, InitWebhookInv, InitRegistryInv DEF Init, ServiceInv

\* The keys of a step of an endpoint are those before, with a new one or one revoked.
LEMMA EndpointRest ==
    ASSUME KeyInv, RestInv, NEW s \in Slot, Endpoint(s)
    PROVE  RestInv'
<1> DEFINE r == request[s]
<1>1. \/ keys' = keys
      \/ \E e \in {"never", "later"} : RegisterKey(e)
      \/ Recorded(r.key) /\ keys' = Revoked(r.key)
  BY DEF Endpoint
<1>2. CASE keys' = keys
  BY <1>2 DEF Endpoint, RestInv
<1>3. ASSUME NEW e \in {"never", "later"}, RegisterKey(e) PROVE RestInv'
  <2>1. Fresh \in RawKey
    BY <1>3, FreshUnissued DEF RegisterKey
  <2>2. keys' = [keys EXCEPT ![Fresh] = [revoked |-> FALSE, expires |-> e]]
    BY <1>3 DEF RegisterKey
  <2> QED
    BY <2>1, <2>2 DEF Endpoint, RestInv, KeyInv, Shapes
<1>4. CASE Recorded(r.key) /\ keys' = Revoked(r.key)
  <2>1. keys[r.key].expires \in {"never", "later", "past"}
    BY <1>4 DEF Recorded, RestInv
  <2>2. keys' = [keys EXCEPT ![r.key].revoked = TRUE]
    BY <1>4 DEF Revoked
  <2>3. ASSUME NEW k \in RawKey, keys'[k] # NoKey
        PROVE  keys'[k].expires \in {"never", "later", "past"}
    <3>1. CASE k = r.key
      BY <2>1, <2>2, <3>1 DEF KeyInv, Shapes
    <3>2. CASE k # r.key
      BY <2>2, <2>3, <3>2 DEF KeyInv, Shapes, RestInv
    <3> QED
      BY <3>1, <3>2
  <2> QED
    BY <2>3 DEF Endpoint, RestInv
<1> QED
  BY <1>1, <1>2, <1>3, <1>4

LEMMA RestKeeps ==
    ASSUME KeyInv, RestInv, [Next]_vars
    PROVE  RestInv'
<1>1. ASSUME requests' = requests \/ Counted, UNCHANGED <<keys, redis, restarts>>
      PROVE  RestInv'
  BY <1>1, ServiceAssumption DEF Counted, RestInv
<1>2. ASSUME NEW k \in Keys, Refuse(k) PROVE RestInv'
  BY <1>1, <1>2 DEF Refuse
<1>3. ASSUME NEW k \in Keys, NEW s \in Slot, NEW op \in KeyOps, Arrive(s, op, k) PROVE RestInv'
  BY <1>1, <1>3 DEF Arrive
<1>4. ASSUME NEW k \in Keys, NEW v \in Vault, RegisterVault(k, v) \/ DeregisterVault(k, v)
      PROVE  RestInv'
  BY <1>1, <1>4 DEF RegisterVault, DeregisterVault
<1>5. ASSUME NEW k \in Keys, NEW v \in Watched, NEW url \in Url, WebhookRequest(k, v, url)
      PROVE  RestInv'
  BY <1>1, <1>5 DEF WebhookRequest
<1>6. ASSUME NEW k \in Keys, NEW flow \in Flows, ServeFlow(k, flow) PROVE RestInv'
  BY <1>1, <1>6 DEF ServeFlow
<1>7. ASSUME NEW s \in Slot, Depend(s) PROVE RestInv'
  BY <1>1, <1>7 DEF Depend
<1>8. ASSUME NEW k \in RawKey, KeyExpires(k) PROVE RestInv'
  BY <1>8 DEF KeyExpires, RestInv, KeyInv, Shapes
<1>9. CASE MonitorStep
  BY <1>1, <1>9 DEF MonitorStep
<1>10. CASE Delivery
  BY <1>1, <1>10 DEF Delivery, serviceVars
<1>11. CASE Restart
  BY <1>11, ServiceAssumption DEF Restart, RestInv
<1>12. CASE UNCHANGED vars
  BY <1>1, <1>12 DEF vars, serviceVars
<1> QED
  BY <1>2, <1>3, <1>4, <1>5, <1>6, <1>7, <1>8, <1>9, <1>10, <1>11, <1>12, EndpointRest
  DEF Next

LEMMA WebhookInvKept ==
    ASSUME WebhookInv, [Next]_vars
    PROVE  WebhookInv'
<1>1. ASSUME UNCHANGED webhookVars PROVE WebhookInv'
  BY <1>1 DEF webhookVars, WebhookInv, WebhookTypeOK, LevelInv, CriticalTracked
<1>2. ASSUME NEW k \in Keys, Refuse(k) PROVE WebhookInv'
  BY <1>1, <1>2 DEF Refuse
<1>3. ASSUME NEW k \in Keys, NEW s \in Slot, NEW op \in KeyOps, Arrive(s, op, k)
      PROVE  WebhookInv'
  BY <1>1, <1>3 DEF Arrive
<1>4. ASSUME NEW k \in Keys, NEW v \in Vault, RegisterVault(k, v) \/ DeregisterVault(k, v)
      PROVE  WebhookInv'
  BY <1>1, <1>4 DEF RegisterVault, DeregisterVault
<1>5. ASSUME NEW k \in Keys, NEW v \in Watched, NEW url \in Url, WebhookRequest(k, v, url)
      PROVE  WebhookInv'
  BY <1>1, <1>5, RegisterWebhookKeeps, DeregisterWebhookKeeps DEF WebhookRequest
<1>6. ASSUME NEW k \in Keys, NEW flow \in Flows, ServeFlow(k, flow) PROVE WebhookInv'
  BY <1>1, <1>6 DEF ServeFlow
<1>7. ASSUME NEW s \in Slot, Depend(s) \/ Endpoint(s) PROVE WebhookInv'
  BY <1>1, <1>7 DEF Depend, Endpoint
<1>8. ASSUME NEW k \in RawKey, KeyExpires(k) PROVE WebhookInv'
  BY <1>1, <1>8 DEF KeyExpires
<1>9. CASE MonitorStep
  BY <1>9, SignalKeeps, DefaultDetectedKeeps DEF MonitorStep
<1>10. CASE Delivery
  BY <1>10, RunFireKeeps, PostKeeps DEF Delivery
<1>11. CASE Restart
  BY <1>11, WebhookRestartKeeps DEF Restart
<1>12. CASE UNCHANGED vars
  BY <1>1, <1>12 DEF vars
<1> QED
  BY <1>2, <1>3, <1>4, <1>5, <1>6, <1>7, <1>8, <1>9, <1>10, <1>11, <1>12 DEF Next

LEMMA RegistryInvKept ==
    ASSUME RegistryInv, [Next]_vars
    PROVE  RegistryInv'
<1>1. ASSUME UNCHANGED <<registry, stored, acked, listed, steady>> PROVE RegistryInv'
  BY <1>1 DEF RegistryInv, RegistryTypeOK, RegistrationKept
<1>2. ASSUME NEW k \in Keys, Refuse(k) PROVE RegistryInv'
  BY <1>1, <1>2 DEF Refuse
<1>3. ASSUME NEW k \in Keys, NEW s \in Slot, NEW op \in KeyOps, Arrive(s, op, k)
      PROVE  RegistryInv'
  BY <1>1, <1>3 DEF Arrive
<1>4. ASSUME NEW k \in Keys, NEW v \in Watched, NEW url \in Url, WebhookRequest(k, v, url)
      PROVE  RegistryInv'
  BY <1>1, <1>4 DEF WebhookRequest
<1>5. ASSUME NEW k \in Keys, NEW flow \in Flows, ServeFlow(k, flow) PROVE RegistryInv'
  BY <1>1, <1>5 DEF ServeFlow
<1>6. ASSUME NEW s \in Slot, Depend(s) \/ Endpoint(s) PROVE RegistryInv'
  BY <1>1, <1>6 DEF Depend, Endpoint
<1>7. ASSUME NEW k \in RawKey, KeyExpires(k) PROVE RegistryInv'
  BY <1>1, <1>7 DEF KeyExpires
<1>8. CASE MonitorStep \/ Delivery
  BY <1>1, <1>8 DEF MonitorStep, Delivery, serviceVars
<1>9. CASE UNCHANGED vars
  BY <1>1, <1>9 DEF vars, serviceVars
<1> QED
  BY <1>2, <1>3, <1>4, <1>5, <1>6, <1>7, <1>8, <1>9, RegisterVaultKeeps,
     DeregisterVaultKeeps, RestartRegistryKeeps DEF Next

LEMMA ServiceInvKept == ServiceInv /\ [Next]_vars => ServiceInv'
  BY StepKeeps, WebhookInvKept, RegistryInvKept, RestKeeps DEF ServiceInv

LEMMA ServiceInvType == ServiceInv => TypeOK
<1> SUFFICES ASSUME ServiceInv PROVE TypeOK
  OBVIOUS
<1>1. keys \in [RawKey -> Records \cup {NoKey}]
  <2>1. \A k \in RawKey : keys[k] \in Records \cup {NoKey}
    <3> SUFFICES ASSUME NEW k \in RawKey, keys[k] # NoKey PROVE keys[k] \in Records
      OBVIOUS
    <3>1. /\ keys[k] \in [revoked : BOOLEAN, expires : {"none", "never", "later", "past"}]
          /\ keys[k].expires \in {"never", "later", "past"}
      BY DEF ServiceInv, KeyInv, Shapes, RestInv
    <3> QED
      BY <3>1 DEF Records
  <2> QED
    BY <2>1 DEF ServiceInv, KeyInv, Shapes
<1>2. \A k \in RawKey : keys[k] # NoKey => k \in issued
  BY DEF ServiceInv, KeyInv, DeadNotLive
<1>3. \A s \in Slot : request[s].pc \in {"idle", "arrived", "authorised"}
  BY DEF ServiceInv, KeyInv, Shapes
<1> QED
  BY <1>1, <1>2, <1>3 DEF ServiceInv, WebhookInv, RegistryInv, RegistryTypeOK, RestInv, TypeOK

\* The variables of the REST service keep their types: every key with a record was
\* issued, no list of vaults has one twice, and the webhooks of a vault are those whose
\* URL was registered last (keys.py, registry.py, webhooks.py).
THEOREM ServiceTypeOK == Spec => []TypeOK
  BY InitServiceInv, ServiceInvKept, ServiceInvType, PTL DEF Spec

\* A subscriber that hears every event knows whether a vault is below 1.5
\* (determine_event), however the ratio moves and whenever the process restarts.
THEOREM CriticalTrackedHolds == Spec => []CriticalTracked
<1>1. ServiceInv => CriticalTracked
  BY DEF ServiceInv, WebhookInv, LevelInv
<1> QED
  BY <1>1, InitServiceInv, ServiceInvKept, PTL DEF Spec

\* As long as Redis answers, what was acknowledged is in Redis and is listed
\* (register_vault), for any number of keys, vaults, requests and restarts.
THEOREM RegistrationKeptHolds == Spec => []RegistrationKept
<1>1. ServiceInv => RegistrationKept
  BY DEF ServiceInv, RegistryInv
<1> QED
  BY <1>1, InitServiceInv, ServiceInvKept, PTL DEF Spec
=============================================================================
