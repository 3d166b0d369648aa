------------------------------ MODULE Webhooks ------------------------------
(***************************************************************************)
(* ward/webhooks.py with the two places of ward/vault_monitor.py that fire *)
(* webhooks.  A signal of the monitor moves the ratio it knows of a vault; *)
(* a threshold that is crossed makes a task, which reads the registered    *)
(* webhooks when it runs and starts one posting task for each of them.     *)
(* Posting tasks retry on their own: nothing orders two of them.           *)
(*                                                                         *)
(* A ratio is represented by its band: 0 below 1.5, 1 below 1.75, 2 below  *)
(* 2.0, 3 from there on.                                                   *)
(***************************************************************************)
EXTENDS Integers, Sequences, FiniteSets, SequencesExt

CONSTANTS Watched,     \* vaults whose webhooks are in play
          Url,         \* callback URLs
          Filters,     \* event filters in use: sets of events, {} for all
          MaxRetries,  \* MAX_RETRIES
          MaxFired     \* bound on the events fired

ASSUME WebhookAssumption ==
    /\ MaxRetries \in Nat \ {0}
    /\ MaxFired \in Nat

VARIABLES hooks,     \* _webhook_registry: the configurations of each vault
          ratio,     \* _previous_ratios: the band of each vault's last ratio
          firing,    \* fire_webhook tasks that have not run
          posts,     \* _post_webhook tasks under way
          fired,     \* number of the last event
          \* history
          level,     \* what the events said last of a vault: low or high
          started,   \* the side of 1.5 of a vault's first ratio: no event tells it
          subscribed, \* URLs registered for a vault and not removed since
          neglected  \* a task ended unanswered before its last attempt

webhookVars == <<hooks, ratio, firing, posts, fired, level, started, subscribed,
                 neglected>>

\* [x for x in list if x in keep], as a recursive function that has an inductive proof.
Kept(list, keep) ==
    LET upTo[i \in 0..Len(list)] ==
          IF i = 0 THEN <<>>
          ELSE IF list[i] \in keep THEN Append(upTo[i - 1], list[i]) ELSE upTo[i - 1]
    IN  upTo[Len(list)]

Unknown == -1
Bands == 0..3

WebhookInit ==
    /\ hooks = [v \in Watched |-> <<>>]
    /\ ratio = [v \in Watched |-> Unknown]
    /\ firing = {}
    /\ posts = {}
    /\ fired = 0
    /\ level = [v \in Watched |-> "none"]
    /\ started = [v \in Watched |-> "none"]
    /\ subscribed = [v \in Watched |-> {}]
    /\ neglected = FALSE

-----------------------------------------------------------------------------
(* Registration.  Nothing keeps a URL from being registered twice.         *)

RegisterWebhook(v, url, events) ==
    /\ hooks' = [hooks EXCEPT ![v] = Append(@, [url |-> url, events |-> events])]
    /\ subscribed' = [subscribed EXCEPT ![v] = @ \cup {url}]
    /\ UNCHANGED <<ratio, firing, posts, fired, level, started, neglected>>

\* Mutant: only the first configuration of the URL goes.
FirstRemoved(configs, url) ==
    LET first == {i \in DOMAIN configs :
                    /\ configs[i].url = url
                    /\ \A j \in 1..i - 1 : configs[j].url # url}
    IN  IF first = {} THEN configs
        ELSE RemoveAt(configs, CHOOSE i \in first : TRUE)

UrlRemoved(configs, url) == Kept(configs, {c \in ToSet(configs) : c.url # url})

DeregisterWebhook(v, url) ==
    /\ hooks' = [hooks EXCEPT ![v] = UrlRemoved(@, url)]
    /\ subscribed' = [subscribed EXCEPT ![v] = @ \ {url}]
    /\ UNCHANGED <<ratio, firing, posts, fired, level, started, neglected>>

-----------------------------------------------------------------------------
(* Events                                                                  *)

CrossedBelow(band, now, before) == before # Unknown /\ now < band /\ before >= band
CrossedAbove(band, now, before) == before # Unknown /\ now >= band /\ before < band

\* The most severe threshold crossed downwards, or the recovery over 1.5.
\* Mutant: the warning is looked for first.
MildestCrossed(now, before) ==
    IF CrossedBelow(3, now, before) THEN "warning"
    ELSE IF CrossedBelow(2, now, before) THEN "elevated"
    ELSE IF CrossedBelow(1, now, before) THEN "critical"
    ELSE IF CrossedAbove(1, now, before) THEN "resolved"
    ELSE "none"

DetermineEvent(now, before) ==
    IF CrossedBelow(1, now, before) THEN "critical"
    ELSE IF CrossedBelow(2, now, before) THEN "elevated"
    ELSE IF CrossedBelow(3, now, before) THEN "warning"
    ELSE IF CrossedAbove(1, now, before) THEN "resolved"
    ELSE "none"

Fires(v, event) ==
    /\ fired < MaxFired
    /\ fired' = fired + 1
    /\ firing' = firing \cup {[id |-> fired + 1, vault |-> v, event |-> event]}

Side(band) == IF band = 0 THEN "low" ELSE "high"

\* What a subscriber that hears every event makes of this one.
Heard(was, event) ==
    CASE event = "critical" -> "low"
      [] event = "resolved" -> "high"
      [] OTHER -> was

\* The monitor's handler of a flagged transaction.
Signal(v, now) ==
    LET event == DetermineEvent(now, ratio[v])
    IN  /\ ratio' = [ratio EXCEPT ![v] = now]
        /\ IF event = "none" THEN UNCHANGED <<fired, firing>>
                             ELSE Fires(v, event)
        /\ level' = [level EXCEPT ![v] = Heard(@, event)]
        /\ started' = [started EXCEPT ![v] = IF ratio[v] = Unknown THEN Side(now) ELSE @]
        /\ UNCHANGED <<hooks, posts, subscribed, neglected>>

\* The monitor has verified a default.
DefaultDetected(v) ==
    /\ Fires(v, "default")
    /\ UNCHANGED <<hooks, ratio, posts, level, started, subscribed, neglected>>

-----------------------------------------------------------------------------
(* Delivery                                                                *)

Wants(config, event) == config.events = {} \/ event \in config.events

RunFire(f) ==
    /\ f \in firing
    /\ firing' = firing \ {f}
    /\ posts' = posts \cup
         {[id |-> f.id, place |-> i, url |-> hooks[f.vault][i].url,
           event |-> f.event, failures |-> 0] :
             i \in {j \in DOMAIN hooks[f.vault] : Wants(hooks[f.vault][j], f.event)}}
    /\ UNCHANGED <<hooks, ratio, fired, level, started, subscribed, neglected>>

\* Mutant: the loop is left at the first failure.
LastAttemptOnce(p) == TRUE
LastAttempt(p) == p.failures = MaxRetries - 1

\* One attempt: the recipient answers; or the request fails or times out, after
\* which the recipient may have it all the same.
Post(p) ==
    /\ p \in posts
    /\ \/ posts' = posts \ {p} /\ UNCHANGED neglected
       \/ LET q == [p EXCEPT !.failures = @ + 1]
          IN  IF LastAttempt(p)
              THEN /\ posts' = posts \ {p}
                   /\ neglected' = (neglected \/ q.failures < MaxRetries)
              ELSE posts' = (posts \ {p}) \cup {q} /\ UNCHANGED neglected
    /\ UNCHANGED <<hooks, ratio, firing, fired, level, started, subscribed>>

\* Everything is in the memory of the process.
WebhookRestart ==
    /\ hooks' = [v \in Watched |-> <<>>]
    /\ ratio' = [v \in Watched |-> Unknown]
    /\ firing' = {}
    /\ posts' = {}
    /\ level' = [v \in Watched |-> "none"]
    /\ started' = [v \in Watched |-> "none"]
    /\ subscribed' = [v \in Watched |-> {}]
    /\ UNCHANGED <<fired, neglected>>

WebhookFairness ==
    \A n \in 1..MaxFired :
        /\ WF_webhookVars(\E f \in firing : f.id = n /\ RunFire(f))
        /\ \A url \in Url :
             WF_webhookVars(\E p \in posts : p.id = n /\ p.url = url /\ Post(p))

-----------------------------------------------------------------------------
(* Properties *)

\* The webhooks of a vault are those whose registration was acknowledged and
\* whose URL has not been deregistered since, however often it was registered.
WebhookTypeOK ==
    /\ hooks \in [Watched -> Seq([url : Url, events : Filters])]
    /\ \A v \in Watched : {c.url : c \in ToSet(hooks[v])} = subscribed[v]
    /\ ratio \in [Watched -> Bands \cup {Unknown}]
    /\ \A v \in Watched : started[v] = "none" <=> ratio[v] = Unknown
    /\ fired \in 0..MaxFired
    /\ \A f \in firing : f.id \in 1..fired /\ f.vault \in Watched
    /\ \A p \in posts : p.id \in 1..fired /\ p.failures \in 0..MaxRetries - 1

\* From the first critical or resolved event on, the last of the two says which
\* side of 1.5 the ratio of a vault is on, whatever other thresholds were crossed
\* in the same moves; until then the ratio has stayed on the side it was first
\* seen on (determine_event).  Of that first side nothing is fired: silence tells a
\* subscriber that nothing has crossed, never that the vault is healthy.
CriticalTracked ==
    \A v \in Watched : ratio[v] # Unknown =>
        Side(ratio[v]) = IF level[v] = "none" THEN started[v] ELSE level[v]

Pending(n) ==
    \/ \E f \in firing : f.id = n
    \/ \E p \in posts : p.id = n

\* Every event fired is settled: each posting task ends, with an answer of the
\* recipient or after MAX_RETRIES failures, never earlier (_post_webhook).
HeardOrGivenUp ==
    \A n \in 1..MaxFired : Pending(n) ~> (~Pending(n) /\ ~neglected)
=============================================================================
