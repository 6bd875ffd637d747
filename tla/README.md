# Verification of Throttle

TLA+ models of the Throttle rate limiter, the TLC runs that check them on small
instances, and proofs, checked by TLAPS, for every instance. Paths below are
relative to the repository: `src/service/...` is `src/src/service/...` from the
directory that holds this one.

## 1. The system

A process serves checks through REST and gRPC. A check authenticates an API key,
finds a rule, and runs one Lua script in Redis that decides and charges
atomically. All limiter state is in Redis; several processes share it.

| Part | State | Operations | What is hard | What makes it correct |
| --- | --- | --- | --- | --- |
| `adapters/lua/token_bucket.lua` | hash `tokens`, `lastRefillMs`, a TTL | one run per check | lazy refill, rounding, expiry before the bucket is full, a clock set back | never more than a burst plus the refill in any interval; levels and waits are right to a rounding error |
| `adapters/lua/sliding_window.lua` | sorted set of admitted units, a TTL | one run per check | window edge, members of one millisecond, expiry, a clock set back, cost above one | at most `limit` units in any window; the reply is exact |
| `adapters/scripts.ts` | SHA of each script | `load`, `sha`, `run`, `runMany` | scripts lost at any moment, by several requests at once | a loss is cured once, nothing is charged twice for it |
| `adapters/redis.ts` | the connection and its pending commands | send, timeout, reconnect | late replies, commands run after their caller has gone, resends | every await ends |
| `service/rateLimitService.ts` | error counter | `check`, `checkBatch` | the previous two rows, in every interleaving | answers agree with what Redis charged; client errors are told from outages |
| `service/ruleCache.ts` | entries with an expiry, per process | `get`, `invalidate` | lookups racing edits, other processes' edits | bounded staleness; own edits are seen |
| `service/adminService.ts`, `tenantStore.ts`, `validation.ts` | tenants, rules in Redis | `putRule`, `deleteRule`, `createTenant`, reads | writes that time out but are applied | cache and Redis agree after an edit |
| `index.ts`, `transports/*/server.ts` | boot progress, drains, deadline | boot, signal, drain, exit | signals at any time, streams that never end, requests that arrive slowly | an orderly exit drops no call; always exits |
| `transports/` (routes, headers, handlers) | none | translate inputs, decisions, errors | two transports for one service | the same request gets the same verdict |
| `events.ts`, `metrics.ts` | ring buffer, counters | publish, subscribe, count, render | streams that come while checks publish, the full buffer, failed batches | no published event lost or repeated; counters are what clients were told |
| `adapters/config.ts`, `logger.ts`, `app.ts`, dashboard, scripts | constant after boot | | | |

Interaction: transports call the service; the service awaits the tenant store, the
cache and the limiter; all of them share one ordered connection to Redis. A
JavaScript continuation runs from one `await` to the next without interleaving, and
a script runs in Redis without interleaving. Those are the atomic steps of the
models. Redis, ioredis, Fastify and grpc-js are outside the repository: they are
modelled by how the code uses them and marked external where a definition has no
line in the repository.

## 2. Modules

**`TokenBucketScript`, `TokenBucket`, `EagerBucket`.** `RunBucket` is a run of the
script: `Levels` (read and lazy refill), `Replies`, `KeysAfter` (HSET and PEXPIRE).
Levels are counted in units of `1/Unit` of a token, so that a millisecond's refill is
a whole number of them. The script computes in doubles, and `tostring` keeps 14
digits: what it computes need be neither a whole number of units nor exact.
A level in the model is therefore the floor of the real one, and each computation that
may round has a set of results, all those within `Rounding` units of the exact one
(`Near`, `CeilMs`, `TtlMs`): a run of the script is a choice of a level it may have
computed, a level it may have stored, and a wait and a reset it may have told. At
one token a second, for instance, a check of an empty bucket of one token after 999 ms
may be told to wait 2 ms (1 - 0.999 is a little more than 0.001), and a level of
1/60 of a token is stored a little off. `Rounding = 1` covers all of this while a level
has fewer than 10^13 units, where the error of a computation is less than a unit and
so moves a floor by one at most; `Rounding = 0` is exact arithmetic. Subtracting the
cost is exact in doubles too, for it is a whole number not above the level.
`TokenBucket` puts one key under a fixed rule: `Check(cost)` is a call by anybody,
`Tick` the Redis clock, `Expire` Redis deleting a dead key on its own (a read deletes
it too, `Alive`), `ClockStepsBack` the host's clock set back. An observer begins to
count at any instant (`since`) and then counts the tokens granted and the checks made
(`granted`, `runs`) in true time (`elapsed`), which is how the bound over every interval
is one number. `EagerBucket` is the abstract specification: a bucket topped up each
millisecond, no expiry, replies given by what they mean (`IsWait`) and not by a
formula, read and written to within `Rounding`. `TokenBucket` implements it under
`clock <- now, level <- Level`.

**`SlidingWindowScript`, `SlidingWindow`, `EagerWindow`.** The same shape for the
sorted set: a member is a record (score, the caller's unique suffix, index), so
two additions under one name are one member, as in Redis. `admitted` is the history
of units with the true time of admission. `EagerWindow` is a set of units each of
which leaves at its own millisecond; `SlidingWindow` implements it.

**`CheckPath`.** Concurrent `RateLimitService.check` calls of one process on one
limit key. `queue` is the connection: commands written and not answered, in order.
`Execute` runs the next one in Redis, `Deliver` hands the oldest reply to the
continuation (`Resume`: GET of the key, HGET of the rule, SCRIPT LOAD, EVALSHA,
reload and second EVALSHA), `Timeout` rejects the promise and leaves the command in
the queue. `Drop` / `Reconnect` / `ReconnectFails` are ioredis with
`enableOfflineQueue: false`, `maxRetriesPerRequest: 1` and its default resending;
`FlushScripts`, `Restart` and `Provision` are what happens to Redis. What may be
wrong with a request is its `kind`. An empty identifier is refused here after
authentication, which is what gRPC clients see; REST refuses it earlier, with the
same code.

**`Batch`.** One `checkBatch`: phases `auth`, `resolve` (all lookups at once),
`shas`, `pipeline`, `walk` over the results, `rerun` of one item after NOSCRIPT.
`runnable` is in the order rules arrived, `entries` in the order of the request.
`Abort` is the outer `catch`.

**`RuleCache`.** Several processes, each with its cache and its connection, and one
rule. `Get` and `GetResumes` are `RuleCache.get` before and after its await;
`Administer` and `AdminResumes` are `putRule` and `deleteRule` (SISMEMBER, then
HSET or HDEL, then `invalidate`). A rule is the number of the edit that made it,
`log` the history of edits; a command remembers the reply that Redis gave it. `Tick` does not pass a deadline: timers are on time.
A body that `parseRule` rejects is a choice in `Rejected`. `MCRuleCache` adds the
symmetry of processes, sound because only safety is checked with it.

**`RuleEdits`.** One identity (tenant, rule, identifier) while its rule is edited:
instances keep their own copy of the rule for as long as `RuleCache` lets them, so
checks under several versions, of either algorithm, reach the two keys of the
identity (`limitKey`) in any order. It runs the same `RunBucket` and `RunWindow`, with
the clock set back at any moment, and the observer of `TokenBucket`. `MCRuleEdits` gives
two versions of each algorithm.

**`Transports`, `Gateway`.** `Transports` is a set of operators: what the REST routes and the
gRPC handlers refuse, default and pass on (`RestRefuses`, `GrpcItem`), what they make
of an outcome (`RestAnswer`, `GrpcAnswer`, statuses, headers, waits, batch entries),
and what a client reads in the body of an answer (`RestVerdict`, `GrpcVerdict`). `Gateway`
composes one process from them: requests of both transports, the service, the
administration, tenants and rules in Redis, `Metrics`, `CheckEventBus` and the
dashboard streams. A check or batch is served in one step (`Serve`), with any
outcome; what happens between its awaits is the subject of `CheckPath` and `Batch`.
`createTenant` has its two awaits (`SetKey`, `AddToIndex`): it is the only operation
that writes twice. A write whose caller gave up is lost or joins `db.late`, from where
`LateWrite` applies it. An event is its number; `streams[s].sent` is what stream `s`
was sent. `Open` is one step because backfill and subscription have no `await`
between them. `MCGateway` gives sound and unsound items and two decisions whose waits are
no whole seconds.

**`Lifecycle`.** `main` and `shutdown`. Requests and streams are begun by clients while
a transport accepts (`Receive`, `OpenStream`). A request is `"arriving"` until its client
has sent all of it (`Complete`) or has gone (`GiveUp`); only then does its handler run.
`rest.close()` closes idle connections and waits for all others, `tryShutdown` for every
call that has begun, so that both wait for requests that are still arriving, and neither
server sets a time for that. Only what waits for somebody else takes time: a handler at
most `CallTime`, an arriving request or a stream as long as its client likes.
`DrainFails` is the `catch` of `shutdown`. `lingered` is an observer: the clients that
finished sending or reading only after the signal.

The theorems about a module `M` are in `MProofs`, which extends it: `TokenBucketProofs`,
`SlidingWindowProofs`, `RuleEditsProofs`, `CheckPathProofs`, `BatchProofs`,
`RuleCacheProofs`, `GatewayProofs`, `LifecycleProofs`. Operators that are not used by the actions (`OneTokenTtls`, `KeptOnTheEdge`,
`RetryOnTimeout`, ...) are deliberately wrong variants of the definition that
follows them; substituting one must break the property it is listed with in
`PROJECT.json`.

## 3. Runs

| Run | Question | Bounds, and why they suffice |
| --- | --- | --- |
| `token_bucket` | `AdmissionBound`, inductive invariant (types included), refinement | bucket of 12 units, 4 a token, refill 2, every computation off by up to a unit; 7 ms, of which 6 fill the bucket, so that expiry, re-creation and capping occur; the observer counts up to 2 checks from any instant |
| `sliding_window` | `WindowBound`, waits, inductive invariant (types included), refinement | 3 units in 3 ms over 7 ms, 6 calls: every entry can leave and be replaced twice |
| `sliding_window_retry` | is `retryAfterMs` enough for any cost? **Violated** | 2 units, costs 1 and 2 |
| `check_path` | do answers, charges and counters agree, is each request answered? | 2 requests of every kind for 1 token, 1 dropped connection, 2 losses of scripts or data; timeouts unbounded |
| `batch` | positions, charges, script loss, answered | 3 items of every kind, 1 token, 2 script losses; timeouts unbounded |
| `batch_masks` | are client errors of a batch kept? **Violated** | 2 items |
| `rule_edits` | what limit holds while versions of a rule are mixed and the clock is set back | buckets of 6 and 2 units refilled by 1 and 2, windows of 2 in 3 ms and 3 in 2 ms, so that each version is in one respect the wider; 3 ms of true time, 4 calls of cost 1 and 2: the small version's key expires and comes back full for the other. Computations are exact here: with four calls, two rounding errors of a unit each would be as much as a bucket holds, and hide what the versions do |
| `rule_cache` | does a process see its own finished edits? how long is an old rule used? | 2 processes, 2 events (two edits, or an edit and a drop with or without resending), 2 commands of a connection when a call begins, TTL 1, timeout 1, 3 ms: an entry filled at the latest moment lives to its end |
| `rule_cache_timeout` | does a process see every edit of its own that Redis applied? **Violated** | 1 process, 1 edit |
| `gateway` | keys handed out, streams, counters, waits, the two transports | 2 requests of any kind and key, batches of 0 to 3 items with `MAX_BATCH` 2 (so that one is too long), 1 stream, a bus that keeps 1 event: the second event pushes out the first |
| `gateway_parity` | does gRPC answer as REST does? **Violated** | 1 request |
| `lifecycle` | drains, deadline, exits, boot | 2 REST calls, 1 gRPC call, 1 stream, handler 1, deadline 2 |

`CHECK_DEADLOCK FALSE` stands where the system stops: requests are answered, the
calls, the checks counted or the clock reach their bound, the process has exited.

`FAIL_OPEN` is false in `check_path`, true in `batch` and either in `gateway`: the setting
only chooses the answer of `BackendError` and `Abort`, and the degraded answers of a batch
are the ones its properties could confuse with decisions.

### What the violated runs show

* `sliding_window_retry`: the wait of a denied check is when the first entry
  leaves. `core/types.ts:53` calls it "ms until a retry could succeed". For cost 1
  that is true (`WaitEnoughForOne`), and it is never too long (`NoEarlierSlot`);
  for a greater cost the retry is denied again.
* `batch_masks`: README section 4 says client errors are never masked by fail-open.
  `checkBatch` replaces all entries by degraded allows, the error entries it already
  holds included (`rateLimitService.ts:124`; the comment at line 120 says so too).
* `rule_cache_timeout`: `ruleCache.ts:9-10` says the instance that made an edit
  invalidates immediately. A write that Redis applies but answers late makes
  `putRule` throw before `invalidate`, and the old rule is used until its TTL ends.
  The staleness bound still holds.
* `gateway_parity`: `throttle.proto` says the gRPC service "mirrors the REST contract
  exactly", README section 6 "same semantics". REST validates all items before it
  calls the service and answers 400 for the whole request; gRPC hands the items to the
  service, which answers each (an empty rule: `NOT_FOUND`). A gRPC client so gets partial
  results for a batch that REST refuses. For requests REST accepts, the two say the same
  but for the remainder of a denied check, see below (`SameVerdict`).

### Where code and documents differ and no run is violated

The properties that hold were made to say what the code does; where that is less than a
document says, they say so.

* The body of a 429 always says `remaining: 0` (`headers.ts:25`, as README section 6
  documents it); gRPC, and the REST header, say what the script says, which is more
  than 0 when a check of cost 2 is denied while one unit is left. `throttle.proto:19-20`
  says that a denied request has "the same fields, exactly like the REST 429 body".
  `SameVerdict` compares the bodies and excepts this remainder, nothing else.
* `events.ts:5-6` says the service publishes after each decision. `checkBatch` counts its
  decisions and publishes none of them (`rateLimitService.ts:111-117`). `CountersAddUp`
  is about `/metrics` only, and `NothingMissed` about the events that are published.
* README section 3 says an edit is visible within 30 s on other instances,
  `ruleCache.ts:10` that the TTL is the propagation bound. The TTL starts when the HGET
  has returned, which may be up to a command timeout after Redis read the rule: the bound
  is the sum of the two (`StaleBound`).
* README section 4 says of a shutdown "No dropped in-flight requests on deploy". A request
  that was still being uploaded at the signal, and is complete just before the hard
  deadline, is in its handler when `process.exit(1)` comes. What holds is that an orderly
  shutdown drops nothing and a forced one only such requests (`NoneDropped`), and that
  it is forced only if there were such clients (`ForcedOnlyWhenHeld`).

### What the bounds mean

`AdmissionBound` and `BucketBound` allow two rounding errors for each check of the
interval (`Rounded`), one of the level it computed and one of the level it stored. With a
unit of a thousandth of a token that is a token in five hundred checks at the very worst; the errors of doubles are far smaller, and with
`Rounding = 0` the bounds are the plain ones.

`BucketBound` and `WindowBound` of `RuleEdits` say what is left of a limit while versions of
a rule are mixed. For windows it is the obvious bound: no `Span` (the shortest window)
admits more than `TopLimit` (the highest limit). For buckets the obvious one is false: a
drained bucket of 6 units, checked by an instance that holds a version of 2 units
refilled by 2, gets that version's TTL of 1 ms, expires, and comes back with all 6. So
the bound's rate is not the highest `refillRate` but the largest capacity over the
shortest time to fill (`WidestAssumption`).

### Fairness

Safety needs none. `Answered` in `CheckPath` needs only that a request's timer fires
(`WF` of `Timeout`): no assumption on Redis, the network or replies. `Batch` also
needs the walk over results to go on, a synchronous loop. `Lifecycle` assumes weak
fairness of timers, binding, handlers (each await ends by `commandTimeout`) and the
drains' callbacks, and nothing of clients.

## 4. Proofs

Every invariant and every action property of the passing runs, and both refinements,
are theorems for every value of the constants. The assumptions are those the modules
name: what `parseRule` and the cost check of `resolve` guarantee of a rule
(`RuleAssumption`, `VersionsAssumption`), and the types of limits, timeouts, settings
and rounding errors. The other theorems that matter have their own
assumption: `GatewayProofs` takes from the scripts that a decision is a Boolean with
waits in `Nat`, and no wait with an allow (`DecisionsAssumption`: the replies of both
scripts); `LifecycleProofs` takes that a handler is done before the deadline of the
shutdown. `commandTimeout` bounds each await, and the longest handler is that of a batch
of 50 items each of which is run again one after the other with up to three commands:
about 7.5 s at the default of 50 ms, where the deadline in `index.ts` is 10 s. The setting
has no upper bound; from about 66 ms on the assumption may fail, and nothing here is
claimed of such a process.

* **Token bucket.** `AdmissionBound` says nothing of what is still in the bucket,
  so it is not inductive. `Budget` is: what was granted since the observer began to
  count, plus what could be granted now (`Level`), fits the allowance for that time. It
  may begin at any instant, since the bucket never holds more than its capacity then.
  A tick adds at most `Refill` to `Level` (`TickAddsAtMost`), and that holds across
  an expiry because `KeyWritten` gives the key a life of `TtlMs` from its stamp
  and `TtlFills` shows that a bucket that old is full. Setting the clock back
  never raises `Level` (`BackAddsNothing`). `SteppedInv` collects these;
  `SteppedAdmission` is `AdmissionBound` for a clock that may be set back, and
  `NeverOvercharged` is `NoTokensLost`, from the same invariant.
  `IInv` adds that clock and true time agree (`InStep`), from which every step is a
  step or a stutter of `EagerBucket` (`Implements`); `LevelsNear` and
  `CeilMsIsWait` are that the level a check computes, and the waits it tells, are ones the
  eager bucket allows.
* **Sliding window.** `WindowBound` is about true time and the history, the guard is
  about the sorted set and the Redis clock. `Covered` connects them: each unit in
  the current window has its entry, no older by the clock than it truly is, in a key
  that outlives it. `Named` makes members distinct, so that entries count units.
  `SteppedInv` is inductive also when the clock is set back. `IInv` adds that there
  are no other entries; then every reply is the one of `EagerWindow` (`Implements`).
* **Mixed versions** (`RuleEditsProofs`, from `VersionsAssumption` and
  `WidestAssumption`, for every set of versions). `BucketInv` is the same argument for a
  bucket that no single version describes: `Budget` counts what the *widest* bucket could
  still grant (`Could`). A check under any version takes at least what it grants from that
  amount, since its level is no higher (`VersionHasLess`); a millisecond adds at most
  `Rate`, also over an expiry, because every version leaves the key alive for as long as
  the widest bucket takes to fill (`TtlFillsWidest`, `KeyLives`); setting the clock
  back adds nothing. `EditsAdmission` is `BucketBound`, `EditsOvercharge` is
  `NoTokensLost`. `WindowInv` has `Covered` for a window that no single version describes: only units of the last
  `Span` milliseconds are claimed to have an entry. Every version evicts and
  expires no earlier than that, and admits only what fits its own limit, which is at
  most `TopLimit`. With `BucketInv` it is `EditsInv`; `EditsWindowBound` is `WindowBound`.
* **What a refusal tells** (`SlidingWindowProofs`). `NoEarlierSlot` and
  `WaitEnoughForOne` relate a reply to a later state, so the invariant remembers what
  the refused caller saw (`Told`): the units then in the window left no room, none has
  been admitted since, and `retryAfterMs` is when the first of them leaves.
* **Check path** (`CheckPathProofs`, for any number of concurrent checks, losses, drops
  and timeouts). A check that timed out leaves its command behind, and the command still
  runs and charges. What keeps this in order is that a check has at most one command in
  the queue (`Distinct`): it sends the next only on the reply to the last, and none after
  a timeout. `CommandOK` then says of a single command who waits for it (`Heard`), how
  far an unsound check gets (`Deserved`), what its check was charged (`Charged`) and what
  a reply says of the scripts and of losses (`Scripted`); `CheckOK` says the rest of a
  check without a command. `Covered` matches the checks told "allowed", or about to be,
  with the tokens spent in each life of Redis's data. A reply to a caller that has gone
  changes nothing it was told (`AnsweredOnce`).
* **Batch** (`BatchProofs`, for any number of items, of any kind, in any order of
  resolution). Each phase has a conjunct that says what it waits for: `Begun` (nothing
  is decided yet), `Resolving` and `AllSettled` (an item is asked for, or its entry is
  what it deserves), `Piped` (the pipeline waits for exactly the items without a result),
  `Walking` and `Rerunning` (one item is run again, and its old result decided nothing),
  `Ended`. `ResultsOK` ties results to verdicts: a command nobody awaits is one whose
  item's result is an error, so a batch that is answered in full has an empty pipe.
  `CommandOK` ties replies to verdicts and losses. From these `Positional` follows item
  by item; `SpendsOnce` counts verdicts against tokens.
* **Rule cache** (`RuleCacheProofs`, for any number of processes, TTL and timeout). Both
  properties are about replies that are still under way. `QueueOK`: the replies a
  connection will deliver name ever later versions of the rule, none before the one its
  process was told of; `CommandOK`: a reply is heard within `CommandTimeout` of the
  moment it was true; `EntryOK`: an entry that is still used is no older than what the
  process was told, and outlives its replacement by at most the TTL and that timeout.
  A drop forgets all replies, and the commands it sends again are sent in their order;
  an edit of another process only adds a later version.
* **Gateway** (`GatewayProofs`, for any number of clients, tenants, streams and any size
  of batch). `ClientsInv`: how far a request is, what its outcome can be, and that no
  write that is still to come takes out the key of a tenant (`WriteOK`), so that a key that was told is
  in the database and stays there. `BusInv`: the buffer and each stream are runs of
  consecutive numbers up to the last event (`Numbered`), no shorter than what the buffer
  holds. `CountInv`: each counter is the cardinality of a set of outcomes, and a step
  adds as many elements to the set as it counts. `SameVerdict` is proved operation by
  operation from `Transports`, for every code and decision.
* **Lifecycle** (`LifecycleProofs`, for any number of calls and streams). `InTime`: a
  handler that ran when the signal came has its time run down with the shutdown's clock,
  so none of them is left at the deadline, and one that started later has `lingered`;
  `Drained`: a transport that has closed serves none and waits for none, `Disconnected`:
  Redis is left last; `HeldUp`: in the last millisecond before the deadline only a client
  that still sends or reads, or did until after the signal, can be what the shutdown
  waits for (`OnlyClientsAreLate`).

The history variables bounded only by `MaxTime` and `MaxCalls` are bounds for TLC; the
theorems hold for all their values.

That the clock may be set back under one fixed rule is proved and no longer a run of its
own; `rule_edits` checks it together with edits. That versions may be mixed while
computations err is proved and not run.

Model-checked only: liveness (`Answered` of `CheckPath` and `Batch`, `ShutdownEnds`,
`Boots`), since fairness and ENABLED are out of the prover's reach, and the violated
properties of the runs above, for which a counterexample is the evidence.

## 5. Not modelled

Configuration, logging, the dashboard page, wiring (`app.ts`), health (a `PING`), metric
labels, histogram buckets and rendering, the text of keys and digests, cluster
redirections, scripts and examples: no state the properties depend on. `PROJECT.json`
gives the status of each part and, under `hazards`, what no property covers and why.

Simplifications a reader should know of: one limit key and one fixed rule at a time
in the bucket and window modules (`RuleEdits` has several versions); cost 1 in `CheckPath` and `Batch`, whose subject is
the path and not the arithmetic; `Batch` has no dropped connections; `CheckPath` and
`Batch` treat a script's decision as "is there a token left", which is what the two
script modules establish within a window; `Gateway` looks rules up in Redis, not in the
cache, and its Redis does not lose data (`CheckPath` and `RuleCache` have both).

## 6. Plan

Done, in this order: the two scripts with their abstract specifications and proofs,
the check path, the batch, the rule cache, the lifecycle, mixed versions of a rule, the
two transports, tenants, events and counters; proofs of every safety property.

Next:

1. An abstract specification of the check path (a check is answered at once, with or
   without its charge) and the proof that `CheckPath` implements it; the errors of
   doubles themselves, from which `Rounding = 1` would follow and not be argued.
2. Cost above one and dropped connections in `Batch`.
3. Labels and rendering of metrics.
