# Ward Protocol: a formal model

Ward insures depositors of XRPL lending vaults. A policy is an NFT; a claim on it is
validated in nine deterministic steps against the ledger, and an approved claim is settled
through an escrow. Ward never signs and never submits: it reads the ledger, decides, and
builds unsigned transactions. What can go wrong is therefore not in one function at a time
but in what happens between its reads: the ledger moves on, another call runs, Redis does
not answer, an institution submits a transaction hours after it was built.

The modules here model that core in TLA+, and what has grown around it: the pools, the REST
service with its keys and webhooks, the resolution engine, and the certificates with the watch
over them. TLC checks them on small instances, and TLAPS proves every safety property that
those runs find to hold for all values of the constants; what is left to TLC alone is liveness.

## 1. The system

| component | code | state | operations |
|---|---|---|---|
| claim rate limiter | `ward/primitives.py` `check_rate_limit` | process-wide dict NFT id -> deque of stamps, in insertion order; a lock | one call: expire, refuse or append, evict |
| claim validator | `ward/validator.py`, rules in `ward/conformance_rules.py` | none between calls except the limiter; the reads of one call | `validate_claim`: two gates, nine steps |
| eligibility gates | `ward/credentials.py` | none | XLS-70 credential, XLS-80 domain membership |
| premium records | `ward/coverage.py` | none (the pool's payment history on the ledger) | match one premium, sum active coverage |
| escrow settlement | `ward/settlement.py` | a Redis lock per claim; `EscrowRecord` held by the caller | create, finish, cancel |
| vault monitor | `ward/vault_monitor.py` | WebSocket connection, brokers, `_pending` with counts, health history | `run`, `stop`, `add_vault`, `add_loan_broker`, message handlers |
| risk pool | `ward/pool.py` `PoolHealthMonitor` | policy registry in memory | register, deregister, health, minting gate, premium |
| multi-institution pool | `ward/pool.py` `MultiInstitutionPool` | members, admin, used capacity | register, remove, distribute loss |
| coverage client | `ward/client.py`, `ward/tx_builder.py` | none | build mint and premium payment |
| API keys | `ward/keys.py` | records in memory and Redis | register, verify, revoke, rotate |
| vault registry | `ward/registry.py` | lists in memory and Redis | register, get, deregister |
| webhooks | `ward/webhooks.py` | registry; one task per delivery | determine event, fire, post with retries |
| REST service | `sdk/python/main.py` | background monitors, the stores above | endpoints around the operations above |
| resolution engine | `ward/resolution.py`, `ward/workflows/*`, `scripts/verify_resolution_receipt.py` | none; the receipt | evaluate rules over facts and evidence to a receipt; verify a receipt without the engine |
| evidence scripts | `scripts/phase1_devnet_xls6566.py`, `run_xrpl_devnet_evidence.py`, `validate_partner_evidence.py`, `verify_devnet_evidence_independent.py` | the artifact of a loan's life, a bundle, its archive of raw reads | walk a loan through its life, issue, two judges |
| certificate heartbeat | `scripts/check_certificate_reproducibility.py`, `workers/certificate-heartbeat*.mjs` | the index, a committed status, one KV record | weekly check; daily run, alert, recovery |
| submission with retry | `ward/primitives.py` `submit_with_retry` (deprecated) | none | submit up to three times |
| resolver, legacy monitor, chain adapters, network guards, syntax checks | `ward/resolver.py`, `monitor.py`, `chain*.py`, `_network.py`, `primitives.py` | none to speak of | stateless reads and checks |
| SDKs, other scripts | `sdk/`, `scripts/` | none | HTTP wrappers, generators |

How they interact:

- `validate_claim` awaits the ledger some eight times. Requests of steps 1 and 4 and of the
  pool run concurrently under `asyncio.gather`; no request names a ledger index, so each sees
  whatever ledger is validated when it is answered. After the premium history nothing is
  awaited: steps 3 to 9 and the limiter run in one go.
- The limiter is shared by all calls of a process. Coroutines cannot come between its clock
  read and its lock; threads can.
- The validator's result goes to the institution, which asks `EscrowSettlement` for
  transactions and submits them when it likes. Settlement reads only the ledger's close time:
  it looks neither at the policy NFT nor at the pool.
- The monitor is one coroutine. Messages are handled one at a time, but each handler awaits
  the ledger per candidate and the callbacks per event.
- Keys and registry live twice, in Redis and in memory, and are read and written unevenly. The
  endpoints for keys take the key from a dependency that runs in a thread before them, so that
  other requests come in between; the other endpoints run without a suspension.
- The monitor starts a task per webhook event, that task one per recipient; none waits for
  another.
- The resolution engine is pure. What moves is around it: sources of evidence are read at one
  moment, facts are stated at another, and the receipt reaches a reviewer as a copy.
- The lifecycle script leaves a file, the issue reads it and the ledger again and writes two
  files one after the other; the judges read the files, the index is kept by hand, a weekly
  job asks the ledgers, and a daily worker reads what that job committed.

What makes each component correct:

- limiter: never more than the limit in a window, never a refusal without cause, bounded memory;
- validator: everything an approval rests on was true at some moment of the call, the payout
  is at most the cover and the net loss (the gross loss, where the broker could not be read),
  the step named is the first published rule that fails, two departures aside, and a claim that
  fails early does not use up attempts;
- settlement: a policy is paid once, within the times its documentation gives, and drops in
  an escrow whose sequence the institution knows are paid or come back;
- monitor: no event without a default, no lasting default without an event, `run` ends;
- pools: coverage is never counted short, shares are pro rata to a drop, and members pay no
  more than they put in as long as the code can keep it so;
- services: a key once revoked or expired stays dead, an acknowledged vault stays in Redis, the
  events of a vault tell each crossing of 1.5, an event is delivered or given up after its last
  attempt;
- resolution: an approval rests on what the evidence claimed, and no other content verifies under
  the hash or the id of a receipt;
- certificates: a bundle and its archive are of one issue, a verified amount was owed, and an
  outage is told by mail.

`PROJECT.json` lists the hazards at their lines.

## 2. The modules

`MC*.tla` with their `.cfg` instantiate a module for TLC. Time counts in units chosen per
instance. Variables marked *history* are read by properties only.

### RateLimiter

One action per call: `Call(tok)` is `check_rate_limit` in a coroutine; `ReadClock` and
`TakeLock` are the same function in a thread, split where line 272 ends and line 273 begins.
`LockedSection` is the body under the lock: `PopsTo` is the `popleft` loop (its guard at the
stamp it stops at, which the loop's number of pops `k` has to satisfy), `Reinserted` the
deletion and re-creation of an emptied key, which moves it to the end of the dict's order,
`EvictedCount` the size guard, which runs after the append and may evict the caller's own
token. `windows` is the dict, `order` its key order, `accepted` (history) all stamps let
through, `forgotten` (history) how many of them were evicted.

The order between tokens is kept because the guard evicts from its front. A refused call
never changes the order: its deque is not empty. Logging and the wording of errors are left
out. The failure of a process and the second worker are not modelled; the code itself says
that the window does not survive them.

### ClaimPromise and ClaimValidator

`ClaimPromise` is the abstract specification: a call begins, things happen, and it ends in a
rejection, an exception, or an approval that is justified by the set `seen` of ledger states
since it began. Each condition is a separate existential over `seen`: with reads on different
ledgers nothing stronger is true. The loss in particular takes the loan, the time and the
broker of three moments (`LossSeen`). `PStrict` is the promise as documented; `PSpec` adds one
action, `PApproveBlind`: a call whose LoanBroker request failed may pay up to the gross loss.
That is what the code does and what INV-028 excludes (see Known divergences). `PromiseKept` is
`PSpec`; where no request fails, `PStrict` is proved (`NetLossWhenRead`).

`ClaimValidator` has one action per await: `EligibilityGate`, `Step1VerifyNftExists`,
`Step4ReadLoan`, `Step4ReadTime`, `Step4ReadBroker`, `FetchPoolInfo` (the last five
interleave), `GatherReturns`, `Step2CheckExpiry`, `Step2VerifyPremium`. `Decide` is what
follows without an await, in the code's order. The environment moves the ledger: it closes,
the NFT is sold or burned, a premium payment appears, a loan defaults (which clears its value
and draws the cover in the same instant), is repaid, the pool's balance and the claimant's
eligibility change. `PromiseKept` is the refinement: `ClaimPromise` instantiated with
`verdict` without its step count and `blind` for the broker that was not read. `Rule` has the
nine rules as `ward/conformance_rules.py` publishes them, rule 2 with the live expiry and the
matching premium, read in `terms`; `Departs` names the two places where the code departs from them.

Abstractions: `policy` says whether the URI can be read, whether its coverage is a number,
its expiry and coverage, and which vault the claim and the loan belong to; `usable` is the
pool's balance after reserve, which may be negative; a scan over several pages is one read;
each gate is one answer at one moment (the domain gate asks several times); input syntax
errors, which end a call before it begins, are left out. `DrawLimit` stands for the product
of debt and rates in the cover formula.

### EscrowSettlement

`CreateClaimEscrow`, the three steps of `finish_escrow` (`TakeLock`, `CheckDeadline`,
`FinishReturns`) and `CancelEscrow` are the code. The code builds each transaction and then
returns the text `unsigned`; the model puts what was built in `handed`, from where the
institution submits it at any later time or never (`Submit*`), and the ledger applies
EscrowCreate, EscrowFinish and EscrowCancel by its rules: FinishAfter and CancelAfter are both
exclusive, an escrow pays only after the one and not after the other. `create` and `cancel`
are single steps: they read the time, and an error hands over nothing. `finish_escrow` takes
its lock first, so its failures leave something behind. A Redis that raises, or that was not
there at start-up, is the second disjunct of `TakeLock`.

The record is returned with `escrow_sequence = 0` (`named = FALSE`), and nothing in the repository
writes another. A finish or a cancel built from it names no escrow, and the ledger refuses it.
`NameEscrow` is the institution that has learnt the sequence from its own EscrowCreate and writes
it into the record before it asks for the next transaction: external, and under no fairness.

`latest` and `starts` are history: when a claim's deadline was last found ahead (`Never`
before the first time), and when the calls that held the lock and returned began.

### VaultMonitor

`Connect`, `Subscribe`, `ReturnOnMessage`, `HeartbeatTimeout` and `EndRun` are `run` and
`_run_with_heartbeat`; `HandleTransaction`, `HandleLedger`, `ConfirmPending`, `StartFiring`,
`Fire` and `HandlerReturns` are the handlers, split at each await. A request fails when the
connection is gone, or without a reason (second disjunct of `ConfirmPending`). `count` is
`confirm_count` as far as the threshold matters. `Disconnect` may come anywhere and loses the
messages on their way. A flagged transaction may say nothing about its loan: the code reads the
flags of the first affected node. Anomaly detection, the back-off sleep and the
cancellation of the task are left out; the webhooks it fires are in `Webhooks`.

### PremiumLedger and PoolHealth

`PremiumLedger` is `WardClient`'s two purchases and the pool's payment history. A purchase
marks its policies `built` and adds the payment to `premiums`; the institution submits mints
and payments in any order or never, with the memo as built (a placeholder where the id should
be) or with the id of the NFT minted first; `paid` records the latter. `HasMatchingPremium` and
`Counted` are the two readers of the history in `ward/coverage.py`; a memo is a record of what it
decodes to.

`PoolHealth` adds the monitor: `RegisterPolicy`, `DeregisterPolicy` (called as their docstrings
say, after a mint and after a burn), `Restart`, and `get_health` as `ReadAccount`, `ReadPage`
and `PageFails`. The registry is read right after the account's answer, without an await. Pages
go from the newest payment to the oldest. `filter = {}` stands for no filter, which is what the
code makes of an empty registry. `health` is the call and then its snapshot; `sum` and `owed`
in it are history. An AccountInfo that fails raises and changes nothing. Ratios are compared as
products, with thresholds in halves; `calculate_premium` is left out.
`TypeOK` says of the purchases in `paid` that exactly those of a single policy left a payment
that a claim on it will match. `Owed` counts every policy of a paid purchase, of a batch too, that
the process knows (`Known`, the filter) and whose payment it lets through, for which it has to know
the first policy of the purchase as well: the memo names no other.

### MutualPool

`RegisterMember`, `RemoveMember` and `DistributeLoss` of `MultiInstitutionPool`. `order` is the
order of the dict of members: it decides who takes what the truncation of the other shares
leaves over. `int(claim * c / total)` divides to a double first, so `Truncated` is the quotient
rounded down, or the next integer where the nearest double is that integer; `Precision` stands
for 2^53 and is small in the instance, so that this happens. Claims are assumed to be at most
`Precision` drops (nine billion XRP), which an integer in the code may exceed; contributions are not
bounded, and `BorneWithinContribution` alone speaks only of pools that hold at most that much.
History: `losses` (how many have been distributed), `borne` (what
each member has been charged since it joined), `settled` (nobody came, went or topped up since the
first loss), `removed`, `latest`. A refused call changes nothing and is left out.

### Webhooks and Service

`Webhooks` represents a health ratio by its band between the thresholds. `Signal` and
`DefaultDetected` are the two places of the monitor that start a webhook task; `RunFire` is that
task, which reads the registered webhooks only when it runs; `Post` is one attempt of a posting
task. A failed attempt may have reached its recipient. `level` (history) is what the last critical
or resolved event says, `started` (history) the side of 1.5 a vault was first seen on, of which
`determine_event` tells nobody. URL checks, the signature and the growing
pauses between attempts are left out.

`Service` EXTENDS it with the REST service. `AuthStatus` is `verify_institution_key`. A request to
a key endpoint is three actions: `Arrive`, `Depend` (the dependency, in a thread) and `Endpoint`.
A rotation adds a key and leaves the old one valid, as the code does.
`RegisterVault` and `DeregisterVault` are one action each with every way Redis may answer or fail;
`registry` is the process's copy, `stored` the one in Redis. `ward/keys.py` asks Redis for a key's
record first, but nothing in the repository writes one, so that look-up finds nothing and has no
variable. `KeyExpires` is the clock, `Restart` loses everything but Redis. The flows that keep
nothing are one action, `ServeFlow`, with the statuses they can answer.
`sdk/python/main.py` imports a client that is not in the repository; `ClientAvailable` says
whether the import succeeds. The instance sets it, which allows every status.

### Resolution, Workflows, ResolutionFlow

`Resolution` holds the engine as operators: values, `CompareValue` and `CompareAbsent`, one rule
(`Passes`), the receipt with the checks of its constructor (`EvidenceReceipt`), `Evaluate`, and the
verifier script (`VerifyReceipt`). A JSON value is a kind and a content, because Python's `==`
takes `True` for 1, its ordering refuses what is no number, and `in` means different things for
lists and texts. A SHA-256 digest stands for the payload it is the hash of. `Workflows` has the
three packaged workflows: each turns its input into facts and one item of evidence that claims the
same, under a fixed bundle of rules; `MayRelease` is the reference for them, written from their
docstrings.

`ResolutionFlow` puts this in time. The world moves, each source is read at a moment of its own
(`held`), the caller states facts at another (`facts`), gives evidence in any order and perhaps a
source twice, and asks for a case that fits the bundle or not, or that has a key like a secret in
its metadata, in an action's payload or in its evidence (`Requests`). The receipt reaches a reviewer
as issued, edited in one of six ways with its hash and id left as they were or computed anew
(`Resealed`), or with one of the two replaced (`Copies`). Identifiers, timestamps and the checks of single texts
are left out. Finality is carried along and decides nothing, as in the code.

### Evidence, Heartbeat, Certificates

`Evidence` follows one devnet certificate. The lifecycle script is one action per transaction:
it may be refused, applied and answered, or applied with its answer lost, which the script records
as an error (`Recorded`). `Wait`, `Reread` and `Retry` are the grace period and what follows.
`Issue` is `issue_evidence` up to the first of its two file replacements, `ReplaceBundle` the
second, and `IssueCrashes` comes between; a second issue to the same path finds the files of the
first. The loan, and the policy, pool, claimant and vault, are those of the lifecycle or given on the
command line (`--loan-id`, and `inputs = "given"` for the other four, all or some of them). What is
given may name any policy, so the verdict on it is left open, the state of the loan apart
(`Verdicts`); the independent verifier accepts none but the lifecycle's own.
`GateAccepts` is `validate_partner_evidence.py`, `Verifies` the independent verifier. History:
`retried` (the second LoanManage was submitted), `resolved` (one of the two, applied, has closed the
loan, whatever was answered), and `seen` (what the named loan owed at each issue).
The wallets' seeds are in the artifact, so `LedgerMoves` lets anybody default the loan, burn the
policy or empty the pool once the script is done. The claim's validation inside the issue is one
read (`ClaimValidator` has its steps). The script in the repository keeps no raw reads, the one
that made the recorded artifacts did: `results.queries` is either.

`Heartbeat` is the watch: `CheckIndex` is the weekly job, `RunHeartbeat` the daily worker, with a
fetch, a mail and a KV write that may each fail; the mail is sent before the state is stored.
History: when each certificate was `published` and last `answered`, whether a mail got out today
(`mailed`), how the `last` run of today ended. `Certificates` composes the two: `Leave` enters an
accepted bundle in the index and drops the working directory, and then the days pass.

## 3. The runs

| run | asks | bounds |
|---|---|---|
| `limiter` | `WindowBound`, `RefusalJustified`, `DictBounded`, `TypeOK` | 3 tokens for 2 entries, 2 attempts in 2 ticks, 5 ticks, 3 calls a token: windows fill, expire and are evicted, also the caller's |
| `limiter_threads` | the docstring, for threads: violated | 2 threads, 1 token |
| `validator` | `PromiseKept`, `ConformanceAgrees`, `SlotsForValidClaims`, `TypeOK` | 8 policies, 2 initial ledgers, 2 ledger moves per behaviour, 1 slot, one gate, every request may fail |
| `validator_torn` | "Ward pays on the NET loss": violated | the same with 3 moves, no failing request |
| `settlement` | `LockedFinishesApart`, `PaidAcrossDeadline`, `HeldIsResolved`, `TypeOK` | 1 claim, 2 concurrent calls, lock 2, deadline 3, cancel 5 from a creation at 0, time to 6 |
| `settlement_replay` | INV-019, one payment per policy: violated | 2 claims on the NFT |
| `monitor` | `NoFalseDefault`, `NoCandidateLost`, `DefaultReported`, `StopReturns`, `TypeOK` | 2 loans, threshold 2, 1 message on its way |
| `pool` | `SummedOnce`, `GateBacked`, `TypeOK` | 2 policies of one vault, pages of 1, 3 payments, 4 states of the account |
| `members` | `SharesProRata`, `BorneWithinContribution`, `SolventUntilRemoval`, `MutualTypeOK` | 3 members, deposits of 2 and 3, claims of 1, 2 and 5, precision 16, 6 calls |
| `service` | `DeadKeysRefused`, `RegistrationKept`, `CriticalTracked`, `HeardOrGivenUp`, `TypeOK` | 2 generated keys and the one of the environment, 2 vaults (webhooks on one), 1 URL, 2 filters, 3 attempts, 2 events, 2 key requests at a time, 4 requests, 1 restart |
| `resolution` | `ApprovedBacked`, `VerifierExact`, `WorkflowsRelease`, `TypeOK` | 2 sources, 2 fields, 3 values, 5 bundles that use every operator, 2 moves of the world, 1 case; all inputs of the workflows |
| `certificates` | `AcceptedWhole`, `VerifiedBacked`, `SilenceHeard`, `TypeOK` | a loss of 1 or 3, coverage 2, a pool of 4 with 1 reserved that may be emptied, inputs of the lifecycle or given, 2 issues, 2 index entries where 1 is expected, age 2, 5 days |

Why the bounds are enough. The limiter's properties compare at most `MaxAttempts + 1` stamps
of one token and need one token more than entries. A call of the validator has one read of
each kind, so a condition can be torn by two moves (one between two reads, one to restore),
and each policy breaks one rule. In settlement one lock expires and is taken again within the
dispute window, and a finish can straddle the deadline. In the monitor two candidates suffice
for one to disturb the other, and a threshold of two distinguishes a close from a transaction.
In the pool a page of one payment lets anything happen between any two payments, two policies
make a batch and a filter that leaves one out, and the balances lie on the thresholds of the
tiers.

Among three members one is last and two are truncated; with six calls they join, lose three
times, and also leave and come back between losses; the claims divide evenly and unevenly, and
16 is coarse enough for a quotient to round up. In the service two requests at a time are a
revocation or expiry and the request it races with, in both orders; four requests generate a
key, kill it and use it, and with a restart leave a registration to be found again; two events
let the second overtake the first, and three attempts are those of the code. The resolution
engine has no state, so one case reaches every decision: what matters is a move between the
statement of facts and a reading, and one more between two readings, two sources, which can disagree, and a field that
can be absent, a number, a truth value or a text. The losses of the certificates lie below and
above the coverage and the pool suffices until it is emptied; the second issue finds the
files of the first after a crash between its replacements; five days hold a certificate that
grows too old, its alert, a recovery and a second outage.

What the violated runs show (details and quotations under "findings" in `PROJECT.json`):
threads can exceed the limiter's window; a default applied between the loan's read and the
broker's makes Ward pay the gross loss; two claims on one policy are both paid, since the burn
is separate and the lock is per claim.

`CHECK_DEADLOCK FALSE` is given where a behaviour ends by a bound or by itself: the limiter's
clock and calls run out, settled claims have nothing left to do, the monitor's `run` returns,
the members' calls, the service's requests, the resolution's cases and the certificates' days
run out. The validator and the pool are checked for deadlock: every call returns and another
may begin.

### Known divergences, not run

Where the code and the repository's words differ on a point that reading settles, there is no
run for it; the behaviour is part of the models.

- *Another vault's loan.* "Cross-vault claims fail" (INV-010, `INVARIANTS.md:68-70`), but
  `validate_claim` passes `loan_id` to step 4 (`ward/validator.py:208`) and compares the loan
  with no vault. A policy of the model whose `loanVault` is not its `vault` is approved.
- *Failed broker read.* "Unavailable ledger reads [...] must fail closed" (INV-028,
  `INVARIANTS.md:146-148`) and "Ward pays on the NET loss, not the gross loan"
  (`ward/validator.py:466-470`), but a LoanBroker request that fails is taken for a broker without
  cover (lines 532-537), and the gross loss is approved. `PApproveBlind` is this exception.
- *Where rules reject.* Rule 4 is published to reject "when [...] the derived net loss is zero"
  (`ward/conformance_rules.py:82`); the code passes step 4 and rejects at step 5
  (`ward/validator.py:271`). Rule 6 asks the pool for the loss; an overdrawn pool passes step 6
  and is rejected at 9. No claim is approved or refused differently for it; `steps_passed` and the
  limiter's slot are.
- *The escrow's sequence.* `create_claim_escrow` returns `escrow_sequence = 0`
  (`ward/settlement.py:176`, 193), which `finish_escrow` (line 262) and `cancel_escrow` (line 329)
  put into their transactions. As built they name no escrow: "Cancel the escrow and return funds to
  the pool" (line 310) holds only if the institution has replaced the sequence, for which there is
  no operation. `HeldIsResolved` says so; without it held drops stay.
- *Floating point.* "Loss calculations must avoid floating-point ambiguity" (INV-024,
  `INVARIANTS.md:128-130`), but `distribute_loss` divides to a double before it truncates
  (`ward/pool.py:372`); `SharesProRata` bounds what comes of it for claims within 2^53 drops.
- *Ledger closes.* `VaultMonitor` promises callbacks after a signal "on DEFAULT_CONFIRM_COUNT
  consecutive ledger closes" (`ward/vault_monitor.py:85-86`), but a flagged transaction raises
  the same counter (line 309), and closes missed while disconnected do not reset it.
- *Ledger errors and minting.* "Falls back to 0 on any ledger error (safe default — restricts
  minting)" (`ward/pool.py:228`): no coverage is an infinite ratio, hence the safest tier
  (`ward/coverage.py:124` ends the sum with what it has). `SummedOnce` and `GateBacked` say what
  holds of a snapshot whose pages were all answered.
- *Policies bought together.* The "single premium payment covering all vaults combined"
  (`ward/client.py:219`) names the first NFT and the total coverage (line 324), which
  matches no single policy: none of them can be claimed. `PoolHealth`'s `TypeOK` states it. The
  sum of active coverage goes by the same memo: when the first policy has been burned and
  deregistered the filter drops the payment, coverage may be 0, the ratio infinite and minting
  allowed, although the other policies are live and paid for. `GateBacked` speaks of the policies
  of a batch only while its first is known.
- *Ratios first seen low.* A vault whose first ratio is below 1.5 fires no event
  (`ward/webhooks.py:135-136`), so that its subscribers cannot tell it from a healthy one until it
  crosses a threshold. `CriticalTracked` says no more than that silence means no crossing.
- *When a pool may finish.* "pool MUST finish BEFORE this time" (`ward/settlement.py:108`, also
  214 to 216), whereas the ledger pays only after it; `PaidAcrossDeadline` says that every
  payment was built before the deadline and applied after it.
- *REST client.* `sdk/python/main.py:46` imports `ward_client` from the repository's root, which
  has none. With a client, `WardClient(xrpl_url=...)` (lines 371, 634) and the escrow flow ask for
  what `ward/client.py` does not offer and would answer 500 (`FlowStatus`).
- *Keys.* A rotation does not end the old key ("caller must revoke it", `ward/keys.py:180`), so
  `DeadKeysRefused` speaks of revoked and expired keys only. The new key loses the expiry of the old, and vaults registered with the old key
  are not listed under the new one. Deregistering a vault does not reach Redis, so it is back
  after a restart or with the next registration.
- *Registry writes.* A write that fails is swallowed; the next registration reads the old list
  from Redis and the entry is gone (`RegistrationKept` asks for `steady`).
- *Resolution.* A rule that a field does not exist passes without any claim; `True` backs 1; how
  old a piece of evidence is, is never asked. The verifier refuses a receipt with a key that looks
  like a secret anywhere (`scripts/verify_resolution_receipt.py:66-76`), the engine only some of them,
  in the payload of actions: an empty `SigningPubKey`, an `api_key`, or any such key in metadata or
  claims is issued and then refused.
- *Receipts hashed anew.* The verifier recomputes hash and id from the copy it is given (lines
  103-114) and does not evaluate the rules again; receipts are not signed. A copy with another
  decision and passing checks, hashed anew, verifies. "Tampering [...] changes the hash"
  (`docs/security/independent-verification-toolkit.md:59`) is all that holds, and what
  `VerifierExact` states: a reviewer who has the hash or the id from elsewhere is not deceived.
- *The first LoanManage.* `default_resolution_submitted: False` is written before the second
  LoanManage (`scripts/phase1_devnet_xls6566.py:426`), but the first one, with the same flag
  0x00010000, has always been submitted by then (lines 383-388), and may have been applied with its
  answer lost. `VerifiedBacked` says that it had not closed the loan the packet pays for. With
  `--loan-id` naming another loan the certificate may stand although it closed the lifecycle's own.
- *Raw reads.* `run_xrpl_devnet_evidence.py:4` "consumes the output produced by
  `phase1_devnet_xls6566.py`", which keeps no raw reads, without which an artifact with a vault or a
  broker is refused.
- *Bounded payouts.* The independent verifier says "payout equals min(loss, coverage)" and
  requires it to equal the loss (lines 214-217), so that a capped payout never verifies. It also
  does not compare the packet's loan with the artifact's; `VerifiedBacked` speaks of the loan of
  the packet.
- *Heartbeat.* The expected number of certificates is 1 and the index has three entries, a standing
  alert. A recovery whose mail fails is stored as healthy and never told. A bundle made without a
  policy names a websocket, which the weekly check cannot open: a permanent check error.

### Fairness

The limiter, the validator, the pools, the resolution engine and the certificates are checked
for safety only. `EscrowSettlement` assumes that time goes on and that a pool asks for and submits
a cancellation that stays possible and names its escrow (what an operator who wants its drops back
does); nobody is obliged to finish, and nobody to write the escrow's sequence into the record, so
that `HeldIsResolved` is about the records in which it has been written. `VaultMonitor` assumes that the event loop runs what is ready (weak fairness of
`Connect`, `Subscribe`, the two ways out of the message loop, `EndRun` and the handlers): that is
asyncio's promise, and, with user callbacks that return (`Fire` is one step; the code calls them
without a timeout, line 396), all that `StopReturns` rests on. `DefaultReported` states what it asks of the
ledger besides, as `LedgerFairness`: ledgers keep closing and arriving (strong, because connections
break in between) and a request asked again and again for a loan in default succeeds at last.
`WebhookFairness` is weak fairness of each webhook task and of each posting task: asyncio runs what
is ready, and an attempt ends because `urlopen` is given a timeout of ten seconds. Nothing is
assumed of the recipients.

## 4. Proofs

`RateLimiterProofs` proves for all constants that satisfy `LimitAssumption`:

- `TypeCorrect`: `Spec => []TypeOK`, inductive as it stands. The lemmas on the pieces of the
  locked section (`SubSeq` of a deque, append within the limit, the eviction) carry it.
- `WindowBoundHolds` and `RefusalJustifiedHolds`, from one inductive invariant (`LimitHolds`).
  Neither property speaks of `windows`, so neither is inductive. The invariant says that a
  token's deque is exactly the tail of its accepted stamps since it was forgotten, that these
  stamps are ordered and not in the future, and that the stamps missing from the deque are
  older than a window than the next accepted one. The pops of a call keep it because the
  stamps are ordered; this is what fails in `ThreadedSpec`.
- `DictBoundedHolds`: the order of the dict names exactly the tokens with a deque, which gives the
  number of its entries; a call adds at most one before the guard.
- `ThreadedHolds`: what the lock protects when the callers are threads, `ThreadedSpec => [](TypeOK
  /\ DictBounded /\ TailInv)`. The lemmas on the locked section take the stamp as a parameter, so
  they serve a coroutine (the clock) and a thread (what it read before it waited). The dict keeps
  its bound and each deque is the tail of its token's log and no longer than the
  limit, whatever stamps the calls carry. Only what needs the stamps in order is lost: `WindowBound`
  and the meaning of a refusal are theorems of `Spec` alone.

`ValidatorProofs` proves for all constants that satisfy `ClaimAssumption`, with any ledgers,
policies, gates and number of moves:

- `PromiseKeptHolds`: `Spec => PromiseKept`, the refinement of `ClaimPromise`. `IInv` says that the
  present ledger is among those `seen` since the call began, that every read so far was true of a
  ledger seen (`CallSeen`: the NFT's holder, the loan's value, the default, the draw, the pool), and
  what the call has found before it goes on (`Judged`). Each step of a call then maps to a step of the promise
  or a stutter, and an approval's conditions are witnessed one by one (`ApprovalJustified`).
- `NetLossWhenRead`: if no request fails, `Spec` implements `Promise!PStrict`, the promise as
  documented, without the exception for a broker that was not read.
- `ConformanceAgreesHolds` and `SlotsForValidClaimsHolds`: two action properties of `Decide` and the
  early rejections, each a comparison of the code's order of checks with the published rules.
  `RatioSuffices` is where the assumption that the ratio is at least one is used.
- `TypeCorrect`, from the same invariant.

`EscrowProofs` proves for all constants that satisfy `SettlementAssumption`, with any finite
set of claims and any set of workers:

- `TypeCorrect`. `TypeOK` says that pool and escrows account for every drop, which needs more
  than types: a step of the ledger on one claim must change the sum by one payout. The
  inductive invariant is `TypesOK` (the types alone), `CreatedOnce` (an EscrowCreate that may
  still be submitted belongs to a claim without an escrow) and `Accounted` (the account, as an
  equation on the cardinality of the set of claims whose drops are out).
- `PaidAcrossDeadlineHolds`, from `CheckedAhead`: an EscrowFinish exists only for a claim with
  a record, whose deadline was then found ahead, and whose record has not changed since.
- `LockedFinishesApartHolds`, from `LockInv`: the property together with `LockOutlives`, by
  which the lock in Redis is not free before the last call that got it is a lock's life old.
  Nothing but the passing of time may free it; a release in `finish_escrow` breaks the step.

`MonitorProofs` proves for all constants that satisfy `MonitorAssumption`:

- `TypeCorrect`: `TypeOK` is inductive; it includes that no candidate was counted at more
  ledger messages than its count shows.
- `NoFalseDefaultHolds`, from `SeenDefault`: what is confirmed was seen in default, and while
  candidates are looked at every loan now in default is on record as such.
- `NoCandidateLostHolds`, by inspection of every action: only `Fire` takes a candidate out.

`ServiceProofs` proves for all constants that satisfy `ServiceAssumption` and `WebhookAssumption`:

- `DeadKeysRefusedHolds`. The property speaks of a past answer, so `KeyInv` adds why there was none:
  a dead key was issued, so it is never issued again, and no look-up finds it live (`DeadNotLive`);
  and no request whose key was dead on arrival has passed its dependency (`RequestsJudged`). It
  leans on the assumption that no generated key is one of the environment. Dead are the keys that were
  revoked or have expired; a rotation kills none.
- `RegistrationKeptHolds`, from `RegistryInv`: each list names a vault once, and while Redis has
  answered every time, the list there is what was acknowledged and contains what this process
  lists. Registration reads one list and writes another; the step has a case for each way the read
  and the write may end.
- `CriticalTrackedHolds`, from `LevelInv`: a vault whose ratio is not known yet has not been told of,
  and the last of the two events, or before them the side it was first seen on, says on which side
  of 1.5 the known ratio is. `SignalKeeps` goes through the bands a move may cross.
- `ServiceTypeOK`, with the webhooks of a vault being those subscribed to and not withdrawn. `KeptIs`
  says what filtering a list leaves, which both deregistrations need.

`ResolutionProofs` proves for all constants that satisfy `FlowAssumption`: `TypeCorrect` (the
receipt's constructor never refuses what `evaluate` gives it), `ApprovedBackedHolds` and
`VerifierExactHolds`. `PassedBacked` takes one rule from what the code compares (the stated fact, and
that each source agrees with it up to Python's equality) to what each source claimed;
`EvaluateSound` lifts it to a receipt; `CopiesShaped` says that every copy has the shape of a
receipt, and `AcceptedIsIssued` that one accepted under the receipt's hash or id is the receipt.
The invariant keeps the last receipt and verdict. `WorkflowsReleaseHolds` follows the three workflows
through that engine: `OwnClaims` says that a single source which claims the facts agrees with every
rule and conflicts with none, so that a case is decided by the rules alone (`ResolvedBy`), and a
lemma for each workflow compares its rules with its terms.

`CertificateProofs` proves for all constants that satisfy `EvidenceAssumption` and
`HeartbeatAssumption`:

- `AcceptedWholeHolds` and `VerifiedBackedHolds`, from `EvidenceInv`: the script writes one file,
  at its end, and what it says there of its second LoanManage is what it did, answered or not; a loan
  that either LoanManage has closed stays closed (`ScriptInv`). Every bundle, written or about to be,
  holds what its issue found in that file and on the ledger, an approved one that the loan was open,
  and the archive comes from the same file (`FilesInv`).
- `SilenceHeardHolds`, from `WatchInv`: the status speaks of the index of its day, and a state that
  claims an alert of today stands for a mail that was delivered (`AlertRecorded`).
- `CertificateTypeOK`, from these with `GatheredInv` (what the lifecycle script has gathered so far:
  no policy without a vault, no loan without an id, no second try that is not recorded),
  `NumbersInv` (issues are numbered one by one, and what is being written is the last) and `DaysInv`.

`PoolProofs` proves for all constants that satisfy `PremiumAssumption`, `PoolAssumption` and
`MutualAssumption`. It begins with what a sum over a finite set is. The library defines the sum by a
recursive choice of elements, and induction over data is not available, so `MinimalSubset` takes its
place: a nonempty collection of subsets of a finite set has a smallest member. A set of subsets
that has the empty set and is closed under adding an element then has all of them
(`ElementByElement`), the recursion has exactly one solution (`SolvesOnce`, `SolvesAll`), and the
sums of parts, of images and of bounded terms follow (`SumAdd`, `SumDisjoint`, `SumSubset`,
`SumInject`, `SumBounds`).

- `PoolTypeCorrect`, `SummedOnceHolds` and `GateBackedHolds`, from `PoolInv`. Its `LedgerInv` says
  that policies bought together cover the same (`BuiltInv`), that no policy is in two purchases
  (`ApartInv`), and that a payment which names a policy was for its purchase and states the
  coverage of all of it (`PaymentsInv`): so a claim finds its payment exactly if the policy was
  bought alone (`MatchingOfOne`). `RegistryInv` bounds each vault's coverage by its registered
  policies. `HealthInv` is the argument about `get_health`: what has been added up and what is
  older than the marker make the sum of the first page, whatever is paid in between
  (`CountedKept`), and what was owed when the call began is within that sum, because each
  policy that is owed for is of a purchase whose payment passes the filter and states the coverage of
  all its policies (`OwedCounted`), and payments only grow. `TierHeld` takes this over the thresholds to the gate.
- `SharesProRataHolds`, `BorneWithinContributionHolds`, `SolventUntilRemovalHolds` and
  `MutualTypeCorrect`, from `MutualInv`. A truncated quotient of doubles is less than one below the
  exact one and above it by at most one part in `Precision` (`TruncatedBounds`); claims within
  `Precision` make this less than a drop, and the last share, which takes what is left, is bounded by
  the sum of the others (`SharesBounds`). `BorneWithinContribution` is not inductive, for what a
  member has borne says nothing of the next share. `BorneInv` is: what each member has borne, times
  the total, is at most the used capacity times its contribution, but for the roundings, whose sum
  stays below one drop as long as the total is within `Precision`.

Out of the prover's reach, and left to TLC: liveness (`HeldIsResolved`, `DefaultReported`,
`StopReturns`, `HeardOrGivenUp`), which needs ENABLED, and the three runs that end in a
violation. Every safety property of the other runs is a theorem.

## 5. Not modelled, and what is left

Hazards beyond the list in `PROJECT.json`, which no property covers: a restart or a second worker
forgets the limiter's windows (`ward/primitives.py:244`); a broker added while connected is
subscribed to with the next connection only (`ward/vault_monitor.py:226`); deregistering a policy
pops its vault's whole entry (`ward/pool.py:129`, `PopVault`); the registry is empty after a restart
and then counts every payment (`ward/pool.py:234`); a premium payment that failed with a tec result
counts (`ward/coverage.py:87`); cover rates are stored in tenths of a basis point and multiplied
unscaled (`ward/validator.py:542`).

Left out for good: the SDK clients and examples (HTTP wrappers without state), the chain adapter,
reader and network guards, the resolver's lookups, the legacy monitor (deprecated in favour of
`VaultMonitor`), syntax checks and preimages (stateless), `calculate_premium` (one float product),
`check_signing_boundary` (a text search), the schema checks of the judges field by field, the
generators of reports, and the repository's own formal documents.

Left to do, in order:

1. `EligibilityGates`: the domain gate's requests one by one, with the expiry of a credential
   between two of them, and their composition with `ClaimValidator`.
2. `VaultMonitor`: the snapshots of anomaly detection, the back-off, and cancellation of the task
   at a callback.
3. `SubmitRetry`: a submission that timed out and is sent again (deprecated in the code).
