------------------------------ MODULE Service ------------------------------
(***************************************************************************)
(* The REST service of sdk/python/main.py over ward/keys.py,               *)
(* ward/registry.py and ward/webhooks.py: every request but the public     *)
(* ones carries an institution key, which is looked up in the key store of *)
(* the process and then in its environment.                                *)
(*                                                                         *)
(* An endpoint that checks the key itself runs without a suspension up to  *)
(* its answer (the locks are never waited for, since nothing awaits under  *)
(* them), so it is one action.  The endpoints for keys take the key from a *)
(* dependency that FastAPI runs in a thread pool before the endpoint: they *)
(* are two actions, and other requests come between.                       *)
(*                                                                         *)
(* keys.py asks Redis for a record before its own store; nothing in the    *)
(* repository writes one there, so that look-up finds nothing.             *)
(***************************************************************************)
EXTENDS Webhooks

CONSTANTS RawKey,          \* keys that generate_key may return
          EnvKeys,         \* INSTITUTION_API_KEY and DEMO_INSTITUTION_KEY
          EnvConfigured,   \* whether the first is set
          Vault,           \* addresses of vaults
          ClientAvailable, \* whether main.py could import its client
          Slot,            \* requests to the key endpoints at one time
          MaxRequests,     \* bound on requests, signals and restarts
          MaxRestarts

ASSUME ServiceAssumption ==
    /\ EnvKeys # {} /\ EnvKeys \cap RawKey = {}
    /\ EnvConfigured \in BOOLEAN /\ ClientAvailable \in BOOLEAN
    /\ MaxRequests \in Nat /\ MaxRestarts \in Nat

VARIABLES keys,      \* _key_store: record of a generated key, NoKey for none
          registry,  \* _registry: vaults of each key, in memory
          stored,    \* ward:registry:*: the same in Redis
          redis,     \* the handle the process got when it started
          request,   \* requests that are between dependency and endpoint
          requests, restarts,
          \* history
          issued,    \* keys returned so far: a random key never comes twice
          dead,      \* keys revoked by an answered request, or expired
          misused,   \* a request with a dead key was answered with success
          acked,     \* vaults whose registration was answered with success
          listed,    \* those of this process that were not deregistered
          steady     \* every call to Redis has been answered

serviceVars == <<keys, registry, stored, redis, request, requests, restarts,
                 issued, dead, misused, acked, listed, steady>>
vars == <<webhookVars, serviceVars>>

Keys == RawKey \cup EnvKeys
NoKey == [revoked |-> FALSE, expires |-> "none"]
Records == [revoked : BOOLEAN, expires : {"never", "later", "past"}]
Idle == [pc |-> "idle", op |-> "none", key |-> CHOOSE k \in EnvKeys : TRUE, dead |-> FALSE]

ServiceInit ==
    /\ keys = [k \in RawKey |-> NoKey]
    /\ registry = [k \in Keys |-> <<>>]
    /\ stored = [k \in Keys |-> <<>>]
    /\ redis \in BOOLEAN
    /\ request = [s \in Slot |-> Idle]
    /\ requests = 0
    /\ restarts = 0
    /\ issued = {}
    /\ dead = {}
    /\ misused = FALSE
    /\ acked = [k \in Keys |-> {}]
    /\ listed = [k \in Keys |-> {}]
    /\ steady = TRUE

Init == WebhookInit /\ ServiceInit

-----------------------------------------------------------------------------
(* Authentication                                                          *)

Recorded(k) == k \in RawKey /\ keys[k] # NoKey
Live(k) == Recorded(k) /\ ~keys[k].revoked /\ keys[k].expires # "past"

\* verify_institution_key
AuthStatus(k) ==
    CASE Live(k) -> 200
      [] ~Live(k) /\ ~EnvConfigured -> 503
      [] ~Live(k) /\ EnvConfigured /\ k \in EnvKeys -> 200
      [] OTHER -> 401

Counted == requests < MaxRequests /\ requests' = requests + 1
Answers(status, wasDead) == misused' = (misused \/ (status = 200 /\ wasDead))

\* The answer to any request with a key that is refused.
Refuse(k) ==
    /\ Counted
    /\ AuthStatus(k) # 200
    /\ Answers(AuthStatus(k), k \in dead)
    /\ UNCHANGED <<webhookVars, keys, registry, stored, redis, request, restarts,
                   issued, dead, acked, listed, steady>>

-----------------------------------------------------------------------------
(* The endpoints for keys                                                  *)

KeyOps == {"generate", "verify", "revoke", "rotate"}

Arrive(s, op, k) ==
    /\ Counted
    /\ request[s].pc = "idle"
    /\ request' = [request EXCEPT ![s] = [pc |-> "arrived", op |-> op, key |-> k,
                                          dead |-> k \in dead]]
    /\ UNCHANGED <<webhookVars, keys, registry, stored, redis, restarts,
                   issued, dead, misused, acked, listed, steady>>

\* _institution_key_dep, in a thread.
Depend(s) ==
    LET r == request[s]
    IN  /\ r.pc = "arrived"
        /\ IF AuthStatus(r.key) = 200
           THEN /\ request' = [request EXCEPT ![s].pc = "authorised"]
                /\ UNCHANGED misused
           ELSE /\ request' = [request EXCEPT ![s] = Idle]
                /\ Answers(AuthStatus(r.key), r.dead)
        /\ UNCHANGED <<webhookVars, keys, registry, stored, redis, requests,
                       restarts, issued, dead, acked, listed, steady>>

\* generate_key: a random key, so that it does not matter which.
Fresh == CHOOSE k \in RawKey \ issued : TRUE

\* register_key; an invalid tier raises before, which is answered with 422.
RegisterKey(expires) ==
    /\ issued # RawKey
    /\ issued' = issued \cup {Fresh}
    /\ keys' = [keys EXCEPT ![Fresh] = [revoked |-> FALSE, expires |-> expires]]

\* Mutant: the record that is marked is a copy.
RevokedCopy(k) == keys
Revoked(k) == [keys EXCEPT ![k].revoked = TRUE]

\* revoke_key finds a record or not; the answer is the same. A rotated key does
\* not inherit the expiry, and the old one is left as it is.
Endpoint(s) ==
    LET r == request[s]
    IN  /\ r.pc = "authorised"
        /\ request' = [request EXCEPT ![s] = Idle]
        /\ \/ /\ r.op = "generate"
              /\ \/ /\ \E e \in {"never", "later"} : RegisterKey(e)
                    /\ Answers(200, r.dead)
                 \/ Answers(422, r.dead) /\ UNCHANGED <<keys, issued>>
              /\ UNCHANGED dead
           \/ /\ r.op = "verify"
              /\ Answers(IF Recorded(r.key) THEN 200 ELSE 401, r.dead)
              /\ UNCHANGED <<keys, issued, dead>>
           \/ /\ r.op = "revoke"
              /\ Answers(200, r.dead)
              /\ IF Recorded(r.key)
                 THEN keys' = Revoked(r.key) /\ dead' = dead \cup {r.key}
                 ELSE UNCHANGED <<keys, dead>>
              /\ UNCHANGED issued
           \/ /\ r.op = "rotate"
              /\ IF Recorded(r.key)
                 THEN RegisterKey("never") /\ Answers(200, r.dead)
                 ELSE Answers(422, r.dead) /\ UNCHANGED <<keys, issued>>
              /\ UNCHANGED dead
        /\ UNCHANGED <<webhookVars, registry, stored, redis, requests, restarts,
                       acked, listed, steady>>

\* The clock passes a key's expires_at.
KeyExpires(k) ==
    /\ keys[k].expires = "later"
    /\ keys' = [keys EXCEPT ![k].expires = "past"]
    /\ dead' = dead \cup {k}
    /\ UNCHANGED <<webhookVars, registry, stored, redis, request, requests,
                   restarts, issued, misused, acked, listed, steady>>

-----------------------------------------------------------------------------
(* The vault registry                                                      *)

\* Mutant: the list of the process is believed, Redis or not.
ExistingInMemory(k, got) == registry[k]
Existing(k, got) == IF got THEN stored[k] ELSE registry[k]

\* POST /vaults/register.  The list read replaces the one in memory even when
\* the vault turns out to be in it; a write that fails is swallowed.
RegisterVault(k, v) ==
    /\ Counted
    /\ AuthStatus(k) = 200
    /\ \E got, put \in (IF redis THEN BOOLEAN ELSE {FALSE}) :
         LET existing == Existing(k, got)
             entries == Append(existing, v)
             isNew == ~Contains(existing, v)
         IN  /\ registry' = [registry EXCEPT ![k] = IF isNew THEN entries ELSE existing]
             /\ stored' = IF isNew /\ put THEN [stored EXCEPT ![k] = entries] ELSE stored
             /\ acked' = IF isNew THEN [acked EXCEPT ![k] = @ \cup {v}] ELSE acked
             /\ listed' = IF isNew THEN [listed EXCEPT ![k] = @ \cup {v}] ELSE listed
             /\ steady' = (steady /\ got /\ (isNew => put))
             /\ Answers(IF isNew THEN 200 ELSE 422, k \in dead)
    /\ UNCHANGED <<webhookVars, keys, redis, request, restarts, issued, dead>>

\* DELETE /vaults/{vault_address}: Redis keeps the entry.
DeregisterVault(k, v) ==
    /\ Counted
    /\ AuthStatus(k) = 200
    /\ registry' = [registry EXCEPT ![k] = Kept(@, Vault \ {v})]
    /\ listed' = [listed EXCEPT ![k] = @ \ {v}]
    /\ Answers(200, k \in dead)
    /\ UNCHANGED <<webhookVars, keys, stored, redis, request, restarts, issued,
                   dead, acked, steady>>

-----------------------------------------------------------------------------
(* Webhooks, and the endpoints that keep nothing                           *)

\* A URL or address that is refused is answered with 422.
WebhookRequest(k, v, url) ==
    /\ Counted
    /\ AuthStatus(k) = 200
    /\ \/ /\ \E events \in Filters : RegisterWebhook(v, url, events)
          /\ Answers(200, k \in dead)
       \/ DeregisterWebhook(v, url) /\ Answers(200, k \in dead)
       \/ UNCHANGED webhookVars /\ Answers(422, k \in dead)
    /\ UNCHANGED <<keys, registry, stored, redis, request, restarts, issued, dead,
                   acked, listed, steady>>

Flows == {"read", "register_vault", "issue_credential", "create_escrow",
          "purchase", "validate"}

\* Without its client the service answers with what it would build. With it,
\* three flows call a constructor or a method that is not there, and two answer
\* with the result, or with what the client raised.
FlowStatus(flow) ==
    CASE flow = "read" \/ ~ClientAvailable -> {200, 422}
      [] flow \in {"register_vault", "issue_credential", "create_escrow"}
           /\ ClientAvailable -> {422, 500}
      [] OTHER -> {200, 422, 500, 502}

ServeFlow(k, flow) ==
    /\ Counted
    /\ AuthStatus(k) = 200
    /\ \E status \in FlowStatus(flow) : Answers(status, k \in dead)
    /\ UNCHANGED <<webhookVars, keys, registry, stored, redis, request, restarts,
                   issued, dead, acked, listed, steady>>

-----------------------------------------------------------------------------
(* The process                                                             *)

\* Only Redis is left; the new process may find it or not.
Restart ==
    /\ restarts < MaxRestarts
    /\ restarts' = restarts + 1
    /\ keys' = [k \in RawKey |-> NoKey]
    /\ registry' = [k \in Keys |-> <<>>]
    /\ redis' \in BOOLEAN
    /\ request' = [s \in Slot |-> Idle]
    /\ listed' = [k \in Keys |-> {}]
    /\ WebhookRestart
    /\ UNCHANGED <<stored, requests, issued, dead, misused, acked, steady>>

MonitorStep ==
    /\ Counted
    /\ \E v \in Watched : (\E now \in Bands : Signal(v, now)) \/ DefaultDetected(v)
    /\ UNCHANGED <<keys, registry, stored, redis, request, restarts, issued, dead,
                   misused, acked, listed, steady>>

Delivery ==
    /\ (\E f \in firing : RunFire(f)) \/ (\E p \in posts : Post(p))
    /\ UNCHANGED serviceVars

Next ==
    \/ \E k \in Keys :
         \/ Refuse(k)
         \/ \E s \in Slot, op \in KeyOps : Arrive(s, op, k)
         \/ \E v \in Vault : RegisterVault(k, v) \/ DeregisterVault(k, v)
         \/ \E v \in Watched, url \in Url : WebhookRequest(k, v, url)
         \/ \E flow \in Flows : ServeFlow(k, flow)
    \/ \E s \in Slot : Depend(s) \/ Endpoint(s)
    \/ \E k \in RawKey : KeyExpires(k)
    \/ MonitorStep
    \/ Delivery
    \/ Restart

Spec == Init /\ [][Next]_vars /\ WebhookFairness

-----------------------------------------------------------------------------
(* Properties *)

TypeOK ==
    /\ WebhookTypeOK
    /\ keys \in [RawKey -> Records \cup {NoKey}]
    /\ \A k \in RawKey : keys[k] # NoKey => k \in issued
    /\ registry \in [Keys -> Seq(Vault)]
    /\ stored \in [Keys -> Seq(Vault)]
    /\ \A k \in Keys : IsInjective(registry[k]) /\ IsInjective(stored[k])
    /\ redis \in BOOLEAN
    /\ \A s \in Slot : request[s].pc \in {"idle", "arrived", "authorised"}
    /\ requests \in 0..MaxRequests
    /\ restarts \in 0..MaxRestarts

\* A request that arrives after its key was revoked, by a request that has been
\* answered, or has expired, is never answered with success: not through another
\* endpoint, nor from the environment, nor after a restart.
DeadKeysRefused == ~misused

\* As long as Redis answers, a registration that was acknowledged is in Redis,
\* once, whatever restarts and deregistrations follow, and the process that
\* acknowledged it lists it until it is deregistered (register_vault, get_vaults).
RegistrationKept ==
    steady => \A k \in Keys :
                 /\ ToSet(stored[k]) = acked[k]
                 /\ listed[k] \subseteq ToSet(registry[k])
=============================================================================
