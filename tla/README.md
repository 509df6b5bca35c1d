# Praxis AI in TLA+

Praxis AI is an AI gateway: a Pingora-based proxy whose filters classify,
route, translate, meter and limit LLM and agent traffic, and which keeps the
state of OpenAI Responses and Conversations for its clients.  This project
models the parts of it whose correctness depends on the order in which
threads, requests, messages and failures meet.  Most of the repository's lines
transform the JSON of one request and have no such order; they are listed in
section 6 and not modelled.

## 1. Inventory

| Component | State | Operations | What is hard |
|---|---|---|---|
| token_rate_limit, local ledgers (`filters/src/token_rate_limit/ledger.rs`, `token_bucket_ledger.rs`) | per key: settled usage and active reservations, or a balance; id map; atomic counters | `reserve`, `reconcile`, `cleanup` | three calls race on a DashMap, per-key mutexes and atomics, with clock readings taken before the lock |
| token_rate_limit, filter and Valkey backends (`mod.rs`, `backend.rs`, `valkey/`) | reservations in request metadata, a bounded reconcile queue, hashes and sorted sets in Valkey, markers of a namespace, a pool of connections | request, response and body hooks, reconcile worker, WATCH/EXEC transactions | replies lost after EXEC, retries, concurrent gateways, abandoned settlements, mixed versions |
| store lifecycle (`store-lifecycle/src/lib.rs`, `store/src/registry.rs`) | refcounted pools by effective key, initializer waves, a registry of names per listener | provision a list of references, reuse or build, roll back, release, retire | callers race on a cold key, the last holder races a new one, errors half way, cancellation |
| server reload (`server/src/watcher.rs`, `reload.rs`, `store_provision.rs`) | live pipelines, current config, active and pending store generations, drain tasks | watch, debounce, prepare, build, commit or abort, swap, drain | a thread and a runtime exchange messages, requests run on old pipelines, shutdown in between |
| response store (`store/`, `store-backends/`) and the filters on it | responses, pending approvals, event logs; conversations | persist, delete, claim approvals, replay | statements of several transactions interleave at READ COMMITTED |
| Responses agentic loop (`apis/src/openai/responses/agentic_loop`, `*_dispatch`) | iteration count, queues of tool calls, accumulated output, one budget | model round, dispatch, finish | four filters share the state and the budget; mixed client and server tools; partial failure |
| MCP client (`apis/src/mcp_client`) | idle sessions of a request, timers | check out, call, check in, expire, close | a timer races a check-out; a request is dropped in between |
| agent routing (`filters/src/agentic/a2a`) | task and context routes with TTL and capacity; scanners of replies | route, learn, expire | lookups race captures and eviction; replies arrive in any chunks |
| provider routing (`filters/src/routing`) | overlay snapshot, picker counters, session bindings | watch the overlay, pick, bind | stale overlay, edits during start, requests racing for the last binding |
| cloud credentials (`apis/src/token_cache.rs`, `filters/src/gcp`, `azure`, `aws`) | cached token and expiry | fetch, refresh, sign | refresh races, expiry while waiting |
| ext-proc (`integrations/llmd/ext-proc`) | phase of the exchange, a bounded channel, timers | hooks that send and await answers | two directions that interleave, a processor that does anything |
| Responses streaming, request shaping, translation, classification, policy and metering filters, tooling | none beyond one request or stream | field mapping, decisions on one request | stream order within one task |

### What makes each part correct

- **Ledgers**: admitted usage stays within a budget, except for what responses
  cost above their estimate; no usage is lost or charged twice; counters agree
  with the maps; a settlement is final; the calls never wait for each other in
  a circle; a bucket grants at most its capacity and refill.
- **Filter, worker and Valkey**: a settlement is applied at most once although
  replies are lost; concurrent gateways pass a limit only by the admissions
  that race; what was abandoned is charged by its timeout; a namespace is
  never shared by two configurations; a connection with a pending WATCH is not
  handed on; idle keys are reclaimed although only traffic sweeps them.
- **Backend cache**: one pool per effective key; no holder sees a retired
  pool; every pool that leaves the cache is retired; refcounts equal the
  holders; an error does not outlive the callers that share it; a provisioning
  ends.
- **Hot reload**: a request never works on a retired pool; between reloads the
  live pipelines and the active leases are of one generation; a failed reload
  gives back what it took; every edit is read; a reload ends; a replaced
  generation is released.
- **Stores**: nothing outlives its response; an approval is used once, and all
  of a batch or none; a replay that ends cleanly is complete.
- **Agentic loop**: a call is executed at most once and within the budget, a
  gated one never without its approval; the model never sees a call without
  its result; a request ends.
- **MCP sessions**: a call has its session to itself, none is leaked.
- **A2A routing**: a follow-up reaches the cluster that owns its task; how a
  reply is cut into chunks makes no difference, but for an empty chunk inside a
  CRLF.
- **Provider routing**: a quiet watcher serves what the file says; sessions
  reach only candidates that admit them.
- **Credentials**: a token in use has not expired, and none is fetched in vain.
- **ext-proc**: nothing goes on that the processor has not answered; each wait
  has its timer.

## 2. Plan

Done, in this order: the ledgers and the bucket's rate theorem; the backend
cache on its abstract pool, and the reload composed on that pool; Valkey, its
markers, cleanup and connections; the response rows, the agentic loop and the
MCP sessions; A2A routing with its scanners, ext-proc, the token cache and the
provider router; then the proofs of section 5, the local ledgers, the Valkey
quotas and the refinements last.

Left: of the code, the conversations tables and the identity caches of the policy
filters; of the proofs, what section 5.12 lists.

## 3. Modules and code

In every module a definition keeps the name of the function it translates
where TLA+ allows it, and PROJECT.json gives its lines.  A definition marked
"Defect" is a variation of the one after it that breaks a property; no
specification uses one.

**Ledger** models `ledger.rs` access by access: an action is one access to a
DashMap or an atomic, or one critical section of a key's mutex.  `op[t]` holds
the call thread `t` is in with its locals; `cells` are the
`Arc<Mutex<KeyState>>` behind the map, so that a cell removed from the map and
still referenced is visible.  Shard guards are `SharedOn` and `ExclusiveOn`.
Clock readings are taken when a call begins and may be stale under the lock.
`charge` is a history of the admissions; **ReservationBudget**, the promise, is
stated over it alone, and `Ledger` refines it.

**TokenBucketLedger** models `token_bucket_ledger.rs`, where a call works under
the key's guard, by critical section.  Balances are exact numbers of 1/`Unit`
tokens (the code has `f64`); `granted` measures what a bucket has granted since
an arbitrary moment, net of refunds.

**KeyCleanup** abstracts both ledgers to one question: with no sweeper, and each
request scanning a bounded prefix of the table, do idle keys go away.  They need
not when as many entries as a scan covers keep coming before them, and
`CleanupReclaims` says so: an idle key goes, or is again and again `Beyond` the scan.

**ValkeyWindow** and **ValkeyBucket** model the two shared quotas command
sequence by command sequence.  A pipeline whose reply is lost sits in `wire`
and may run late or never; gateways crash with their queues.  The window's
module has the bounded queue and the worker's retries.  In the bucket's module a
request may stall for any time between its clock reading, its reads and its EXEC;
the history `tbLag` sums how long transactions that re-created a bucket were
overdue, which is to say older than the reservation timeout.  What both
promise of late and repeated commands is stated in **ValkeyBackends**, which only
puts the two together.  **AccountingMarker** is
the claim of a namespace before any of this; **TransactionPool** the connections
the WATCHed transactions use.

**BackendPool** is what the cache of store backends promises: one pool serves a
key, its holders share it, it is retired after the last has let go.
**BackendCache** models `store-lifecycle/src/lib.rs` and refines it.  A caller is
one `provision_into` call and the lease that comes of it; its steps are the
accesses to `entries` and `initializers`, and the code under the wave's async
mutex between two awaits.  A wave is an `InitializerState`; `Leave` and `Sweep`
are the two halves of the participant's drop, between which others may join.
`Cancel` drops the future at any await.  Factories are their outcomes: a pool, a
transient error, another error.  Release deregisters nothing in the code; the
model empties the caller's registry there because the generation is gone.

**StoreReload** models the watcher's loop, `reload_pipelines` and the
provisioning service.  The watcher is a thread that blocks on each answer;
`command` and `reply` are the channels; the service runs one command at a time,
and detached tasks drain and release old generations.  A reload attempt's
number names its plan, its generation and its pipelines.  An instance of
`BackendPool` supplies the steps of workers and releases, so the module is
composed with what `BackendCache` is proved to implement.  A config maps
listeners to effective keys: one store reference per listener, because lists of
references are the subject of `BackendCache`.

**ResponseRows** models the PostgreSQL statements on one stored response: the
locks a statement takes and keeps until its transaction ends, waiting,
re-checking after the wait, and commit, whose answer may be lost.  Persist, event log, delete, the claims
of resume turns and a paged replay interleave statement by statement.

**AgenticLoop** is one request: the dispatchers and the loop owner act in
pipeline order on one `ResponsesState`; the model's rounds and every failure of
a callout are choices.  An output item is its kind and its status; calls that the
model left unfinished count as text, file searches that the provider finished as a
kind of their own, which costs budget and is not run.  A web search may be skipped
(malformed, or no query left for it), the first request may be refused before any
round, and an MCP round may fail on its ids, on its client, on its connectors'
context or on the room for its results.
**McpSessions** is the pool of sessions of such a request: tool calls
interleave at their awaits, a parked session's timer fires on another thread.

**A2aTaskRoutes** models the route store and the exchanges that use it by
critical section of its locks; the clusters that own the tasks are external.
**SseScanner** and **A2aCapture** are the byte-level state machines that read
replies, compared with a definition on the whole reply.  Chunks may be empty.

**ExtProc** models the hooks of one request and the duplex exchange with a
processor that may read, answer, end, break or stay silent at any time.
**TokenCache** models the cached credential with tokio's queue-fair lock.
**RouteOverlay** models the overlay's watcher thread and the requests that load
its snapshot, pick, and bind sessions.  It has one capability; bindings are keyed by
the session alone, so that a session of two capabilities is rebound at each turn,
and that is left out.

`MCLedger`, `MCTokenBucketLedger`, `MCExtProc` and `MCResponseRows` instantiate one
module each.  `MCOwnership` (`BackendCache`, `AccountingMarker`), `MCBackground`
(`StoreReload`, `BackendCache`, `KeyCleanup`, `ValkeyWindow`), `MCValkey`, `MCFilters`
and `MCResponses` put modules that share no state side by side: the variable `part` (or `scene`) chooses which one a behaviour is of, the others stay
as they began, and a property speaks of the part it is about.  Two scenes of
`MCValkey` are of the same window: one restricts its steps to two requests that
settle, the other to admissions that race.

## 4. Runs

| Run | Instance | Shows |
|---|---|---|
| ledger | 2 threads, 2 keys for 1 slot, windows of 1 and 3, capacity 3, 3 ids, clock to 3 | `UsageExact`, `Bookkeeping`, `NoLockCycle`, and the refinement of `ReservationBudget` |
| token_bucket | 2 threads, 2 keys for 1 slot, capacity 2 in half tokens, refill 3/2, 3 ids | balance, rate, counters, ids, sufficient retry delays, over eviction and re-creation |
| token_bucket_forget | 1 key, capacity 1, 4 ids | *violation*: evicting a full bucket is not neutral |
| ownership | *one*: 3 callers, 1 key and an unresolvable one, 3 builds, 2 attempts; *two*: 2 callers, 2 keys, lists of 2 references that share a key or collide; *namespace*: 3 gateways of 2 configurations and legacy writers | `PoolsSound` and the refinement of `BackendPool`; `RefcountsExact` through rollback; a namespace is never mixed nor live state adopted |
| background | *reload*: 2 bound listeners and 1 new, 2 keys, 2 edits among 4 configs, 1 request; *provision*: 2 callers, a good list and one that fails; *cleanup*: 4 keys for 3 slots, the first with steady traffic, scans of 2 entries; *window*: 1 worker, 2 requests | no request on a retired pool, live and leased agree, no lease lost; edits are read, reloads and drains end; every provisioning ends; idle keys and orphans go away as far as scans reach; a settlement ends |
| valkey | window of 1, capacity 3, timeout 1, clock to 3; *settle*: 2 gateways with 1 request each on 1 key, actual usage 0 or 3 of 2; *race*: 3 admissions on 2 keys for 1 slot, clock to 2; *bucket*: capacity 4, rate 2, timeout 1, 2 requests of 4 on 2 keys, actual usage 1 or 5; *pool*: 3 tasks, 2 permits, 3 connections | `WindowSound`: counters, races bounded by the racers; `DenialsSound`: exact retry hints, the cap on keys; grants of the shared bucket; late and repeated settlements are harmless; connections are exclusive and clean |
| filters | 2 exchanges (one CancelTask at a time), 2 tasks, 2 clusters, 1 route; every stream of 6 bytes, empty chunks included, and every body of 3 in every chunking; 2 chunks and 3 answers of a processor; 3 users of a token; 5 overlay documents, 2 edits, 2 requests, 1 binding | routing, scanning, fail-closed exchange and its timers, token freshness, overlay and affinity |
| ext_proc_silent | 2 chunks, window 2, 1 answer | *violation*: a processor that reads nothing is never given up |
| responses | every mix of at most 2 calls in a round (both orders where they differ for the budget, and one round of 3), 3 rounds, budget 1 or none; 3 tool calls, 2 at a time, on 2 targets; 2 resume turns, 2 approvals, a log of 2 pages | the loop's four invariants and its progress; sessions; rows, consent, replay |
| response_delete | 1 persist with 2 approvals, 1 delete | *violation*: a DELETE may see half of a persist |
| claim_unanswered | 1 persist, 1 resume turn | *violation*: a claim that ends in an error may have claimed |
| bucket_overcredits | 2 requests of 4 on 1 key, capacity 4, rate 2, timeout 1, clock to 3 | *violation*: a stalled reserve refills a bucket twice for the same time |

The bounds (`MaxClock`, `MaxTime`, `MaxId`, `MaxBuilds`, `MaxEdits`, `MaxAnswers`,
`MaxWait`, `StreamLimit`, ...) only cap what happens in one behaviour.  They are
chosen so that each race has room: the ledger's clock passes a full window and
a timeout, and ids collide on one key; three builds let a key be built, retired
and built twice again; two edits let a reload begin while the previous
generation still drains, and a listener leave and return; three rounds spend a
budget across rounds.  Two actors suffice where one acts between two accesses of
another; the cache's wave needs a third, who joins between the two halves of a
drop, and the token cache a third, who queues behind a waiting writer.
Interchangeable actors are reduced by symmetry; runs with liveness use none.

The cleanup's scan limit binds: its three slots can be taken with two entries in
front of an idle key, and with `~Beyond` left out of `CleanupReclaims` TLC finds the
key pinned.  (Counting only busy entries in `Beyond` does not do either: denied
requests keep putting idle entries back in front.)

Deadlock is checked for the ledgers, the Valkey quotas, the namespace, the cleanup
and the agentic loop.  It is not where a system may stop: all callers of the cache may be
cancelled, the server's edits are bounded and its service may have shut down,
an exchange or a stream ends.

### Fairness

Each part of `MCBackground` has the fairness of its module, and the properties are
of the form "again and again": edits and calls are bounded in the instance, so
that this means after the last of them.

- `BackendCache`: weak fairness of each caller's own steps (the runtime polls a
  future that is ready, factories answer), strong fairness of `Lock` because
  tokio's mutex serves its waiters in order.  Nothing is assumed of
  cancellation, of new calls, nor of a lease being released.
- `StoreReload`: weak fairness of the watcher thread, the service, the detached
  tasks, the notifications, and of each request's end.  Edits, new requests and
  the shutdown are not fair.  `EditsNotMissed` relies on the file system to
  report each change at least once after it; that a full channel drops the event
  is modelled.
- `KeyCleanup`: the keys with steady traffic keep requesting and responding; that
  is the hypothesis under which the code, which has no sweeper, promises
  anything.
- `ValkeyWindow`: weak fairness of the worker task.
- `ExtProc` (for the violation): weak fairness of the gateway's own steps, of
  time and of the dropped receiver; none of the processor.

### What the violations show

- *token_bucket_forget*: the comment at `token_bucket_ledger.rs:252` calls a full
  bucket equivalent to none.  Its refill time is lost, and a call with an older
  clock reading gets the same time refilled twice.
- *ext_proc_silent*: `status_on_error` is documented for a processor that "fails to
  respond" (`ext-proc/src/lib.rs:251`); sending a body chunk waits for a slot of
  the channel under no timer.
- *response_delete*: `store/src/traits.rs:126` promises that a delete observes a
  response and its approvals, or neither; each statement of the delete has its
  own snapshot.
- *claim_unanswered*: `store/src/traits.rs:216` says of `consume_approvals` that "on
  error the transaction rolls back and nothing is claimed".  If the answer to the
  COMMIT is lost (`postgres.rs:1003`) the turn gets an error and its whole batch is
  claimed.  It is refused, so `ConsentSound` holds: no call runs twice or without
  consent, a batch is used whole or not at all; but the consent is gone.
- *bucket_overcredits*: the comment on `write_bucket` (`token_bucket.rs:364`) says that
  it never overcredits.  A reserve whose clock reading is older than the reservation
  timeout, and which finds its bucket expired, writes a full bucket dated in the
  past, and the time since is refilled again.  Nothing bounds the age of the reading
  (`connection.rs:120` waits for a lock under no timer, a task may stall) and the
  timeout is validated only to be positive (`mod.rs:692`).  `BucketGrants` bounds the
  excess: at most the time by which such writers were overdue.

Seen while modelling, and not turned into runs:
- the delay of a denial is documented as enough for the same estimate
  (`token_bucket_ledger.rs:150`); for an estimate above the capacity there is none
  (`DenialDelaySuffices` and its theorem exclude it);
- the comment on `CLEANUP_SCAN_LIMIT` (`mod.rs:180`) says that a busy first entry
  cannot pin the table at `max_keys`.  One entry cannot, but as many as the limit
  can, busy or put back idle by denied requests: every scan starts at the beginning
  of the table, and what is behind them is never cleaned up (`CleanupReclaims` has
  this exception);
- an admission to the window that runs later than the retention of its key leaves a
  reservation whose settlement puts the key back into the index past `max_keys`
  (`KeysPassedOnlyByRaces` fails on an instance with settlements, two keys for one
  slot and a clock to 6; it holds while nothing settles, the scene that checks it);
- an id of a reaped reservation stays in `reservations` between the reap and its
  removal also in a thread that has gone on to reconcile; the witness of
  `ReservationsTracked` in `Ledger` names both;
- the reply of an A2A `CancelTask` is not read for routes;
- `store_provision.rs:992` says "after pipeline swap"; the code, and the comments
  beside it, commit before the swap, the order `NoRequestOnRetiredPool` needs;
- the event scanner "handles arbitrary chunk boundaries" (`sse.rs:8`), but it forgets
  a CR at an empty chunk (`sse.rs:164`), so that an LF after it counts as a line end
  of its own and may cut an event in two.  Nobody filters empty chunks, and other
  filters leave them in place of what they withhold
  (`messages_to_chat_completions_stream/mod.rs:222`).  The run has empty chunks, and
  `RepliesReadWhole` reads a stream with a CRLF parted in this way as two line ends;
- ext-proc: answers to a drained body are merged as far as they came; a no-op
  answer left unread makes the response phase reject; an immediate response at
  the end of the stream becomes `status_on_error`;
- the token cache counts a lifetime from the reply, the issuer from the issue;
  `TokensFresh` holds because the margin is no shorter than a reply takes;
- provider routing: an expired binding is looked up and removed in two steps;
  the capacity check and the insert are two steps, so racing requests exceed
  `MAX_BINDINGS`, which the comment at `intelligent_route.rs:2979` excludes; a full
  table refuses even the update of a bound key; two models under one session key
  take turns rebinding it;
- streaming: a round that is not dispatched clears `pending_local_tool_synthesis`
  (`agentic_loop/mod.rs:558`), so searches already executed never get their
  `output_item.done`, against the doc in `local_tools.rs`.

## 5. Proofs

TLAPS proves the theorems below for every value of the constants that the
named assumptions allow; TLC evaluates the ASSUMEs in the runs, and checked
each inductive invariant on an instance before it was proved.  Each proof
has one lemma per action that shows the action keeps the invariant.

### 5.1 The token bucket (`TokenBucketLedger_proofs`)

For every set of threads and keys, every capacity, rate, timeout and limit:

- `TypeCorrect`: `Spec => []TypeOK`; every balance stays between zero and the
  capacity (a part of `Bookkeeping`);
- `GrantsBounded`: `Spec => []GrantedWithinRate`: over every interval a bucket
  grants, net of refunds, at most its capacity and the refill of the interval;
- `BookkeepingExact`: `Spec => []Bookkeeping`: counters, limits, the id map and the
  reservations inside the buckets agree;
- `DelaysSuffice`: `Spec => []DenialDelaySuffices`.

The rate bound is not inductive: whether the next grant keeps it depends on the
balance.  `Inv` adds `OpOK` (what a call carries fits where it is, its clock
reading is not ahead of the clock), `FiniteOK` and `GrantOK`: balance plus grants
since the moment measured are at most the capacity plus the refill up to the
bucket's last refill.  Refill adds to both sides alike or is capped, a grant
moves units from the balance to the grants, a settlement takes from the balance
at least what it adds to the grants.

The bookkeeping needs `Books`: ids are unique across buckets (`IdsUnique`) and below
`next_id` (`IdsUsed`), without which one reservation could be counted once and
settled twice; an id is in the id map or taken by exactly one thread, which will
lock the bucket that holds it (`IdsMapped`, `IdsTaken`, `IdsOwned`); `remove_if` only
meets entries that are in the map (`Removable`); and a denial carries the delay
computed from the balance it saw (`DelaysExact`), from which `DelaysSuffice` is
arithmetic.

Assumptions: `BucketAssumption` (what `TokenBucketConfig::validate` accepts, with
the rate as a fraction) and `InputAssumption` (token counts and bounds are
natural numbers).

### 5.2 The backend cache (`BackendCache_proofs`)

For every finite set of callers and keys, every set of plans and any number of
attempts and builds:

- `CacheInvariant`: `Spec => []CacheInv`;
- `RefcountsAreExact`: `Spec => []RefcountsExact`;
- `PoolsAreSound`: `Spec => []PoolsSound`: nothing retired in use, single flight, no
  pool lost, no sticky error;
- `CacheImplementsPool`: `Spec => Pool!Spec`.

That a pool is not retired in use follows from what the holder holds: `InUse`
says that whatever a registry hands out, or a call is about to register, is the
cache's pool of a key the call holds, and `PoolsOpen` that pools in the cache are
open.  Refcounts keep an entry as long as it is held (`RefcountsExact`), and a pool
on its way to retirement has left the cache for good (`RetiringGone`).  Single
flight comes from the waves: the map holds the wave of every participant and a
wave serves one key (`WavesMapped`), the wave counts its participants and knows the
owner of its mutex (`WavesCounted`), so of a key's callers one is between the check
and the insert, and its key is not cached (`ColdBuilds`).  That there is always a
free wave number, of as many as there are keys and callers, is a counting lemma.
For the refinement each action is shown to be `Build`, `Install`, `Share`, `Drop`,
`Retire` or a stutter of `BackendPool` under the mapping of the cache's entries to
the pool in use and of the held keys to its holders.

Assumption: `CacheAssumption`.

### 5.3 Hot reload (`StoreReload_proofs`)

For every set of listeners, keys, configs and requests and any number of edits:

- `ReloadInvariant`: `Spec => []ReloadInv`;
- `RequestsNeverOnRetiredPools`: `Spec => []NoRequestOnRetiredPool`;
- `LeasesAreKnown`: `Spec => []LeasesFollowPipelines`.

The argument for a request's pool is a chain.  A pipeline in use belongs to the
active generation or to one whose drain waits for that very pipeline
(`PipelinesKept`); such a generation is `Kept`; a kept generation that is ready
holds a lease for each of its stores, none of them being released (`ReadyHeld`);
the pool of a key with a lease is the one the plan names, and open
(`PoolsServe`).  Retirement only touches pools that serve no key (`RetiringGone`).

`PipelinesKept` must survive the commit, which makes another generation active:
the drain it starts waits for the pipelines of the old one because before the
commit exactly those are live (`ActivePlanned`, `ActiveLive`), the requests of
still older ones being covered by their own drains, which are of other
generations (`Ages`).  It must survive the end of a drain, which takes place when no
pipeline of its list is in use, and the swap of one listener, which makes live
only what is active.  All this needs that the watcher and the service take turns
(`Turns`, `Prepared`): no command runs while the watcher is elsewhere, and a
generation is pending only between prepare and commit of the reload under way.
`EditsCounted` bounds the attempts by the edits.  The remaining parts (`Builds`,
`Provisioned`, `Unused`, `StoresOnly`, `NothingPlanned`) say that a generation in the
making holds what its workers have leased, and one not begun nothing.

Assumption: `ReloadAssumption` (configs map listeners to keys or to no store).
The pools' steps are those of `BackendPool`, which section 5.2 shows the cache to
implement.

### 5.4 The agentic loop (`Responses_proofs`)

For every set of rounds the model may answer with, every iteration limit, cap and
budget:

- `LoopInvariant`: `Spec => []LoopInv`;
- `CallsExecutedOnce`, `SearchesWithinBudget`, `CallsAreSettled`,
  `ApprovalsAreAsked`: `ExecutedOnce`, `BudgetRespected`, `CallsSettled` and
  `ApprovalsAsked` always hold;
- `StepsAdvance`: `Spec => EveryStepAdvances`.

The budget is spent by three dispatchers in turn, each of which decides from what
it sees; that the sum is right is not inductive in terms of counts.  The proof
charges positions instead: `Within(budget, st, i)` says that fewer built-in calls
than the budget come before position `i` of the output, every executed search and
every queued file search is at such a position (`RanKnown`, `FilesWithin`), no
position is executed twice, and so there are at most budget many (a counting
lemma).  That no call runs twice needs that the history of the current round holds
only kinds whose dispatcher had its turn, and that queues hold calls of the round
and of their kind (`QueuesKnown`).  `PendingQueued` and `CallsQueued` say which queue
an unsettled search or call waits in at each filter, unless a failure, a security
stop or an approval is about to end the request; `GatedAsked` pairs gated calls
with the questions asked.

Assumption: `LoopAssumption` (limits are natural numbers, rounds sequences of the
kinds of item).

### 5.5 The token cache (`Filters_proofs`)

`TokensStayFresh`: for any users, margins, lifetimes and times a reply takes,
`TokenSpec => []TokensFresh`.

A cached token expires its effective margin before the lifetime, counted from the
reply, has passed (`EntriesDated`); every token handed out was handed out as it
arrived or before that moment (`UsesTimely`).  The effective margin is the
configured one or half of the lifetime, whichever is less, so a reply that took no
longer than both cannot make a token stale.  One user fetches at a time, and only
while nothing valid is cached (`FetchesNeeded`); who waits has one place in the queue
of the lock, and nobody else has one (`PlacesKept`), through cancellation at any
point of the queue.

Assumption: `TokenAssumption` (durations are whole seconds).

### 5.6 The MCP sessions (`Responses_proofs`)

`SessionsStaySound`: for any calls, sessions, targets, limits and idle bounds,
`SessionsSpec => []SessionsSound`.

That a call has its session to itself is `HeldAlone`: what a call holds is open, of
its key and limit, in no other hands, not pooled, not parked, not being closed.
That nothing is leaked is `Owned`, with `PoolsKeep` (a target's pool has one session
at most, and none once the request is over) and `IdleBounded`.  The timers are the
hard part, since they fire on other threads: `TimersKnown` says that a park has one
timer, that a timer is never of a later park than the latest, and that a timer
which won its claim did so on a session no call holds; `Armed` that a parked live
session has the timer of its latest park, which has claimed it exactly if the
parked flag is down.  A check-out that finds the flag down therefore knows that the
session is a timer's.

Assumption: `PoolAssumption` (0 and `NoKey` stand for no session and no key).

### 5.7 The response rows (`Responses_proofs`)

For any approvals, resume turns, batches, event logs and page sizes:

- `RowsStaySound`: `RowsSpec => []RowsSound`: nothing outlives its response, a clean
  replay is complete;
- `ConsentStaysSound`: `RowsSpec => []ConsentSound`: consent is used once, all or
  nothing (all, also when the answer to the commit is lost and the turn refused),
  and resume turns do not deadlock.

Whoever is about to insert events, or to delete the response it found, has the
response row locked (`ParentHeld`), so the two exclude each other; a DELETE that
found the response has locked each of its approvals or has yet to (`DeleteSees`).
`LocksKnown` says which rows a turn has locked: as many as it has claimed, the
first of its batch in id order, all of them open.  This rests on a lemma about
`Ordered`, the sorting of a batch by rank: ranks are distinct and below the length,
hence (pigeonhole) each is taken, and the result is an ascending permutation.  A
commit therefore uses exactly the approvals of the batch, none of which another
committed turn names (`ConsentKept`), and a turn that waits for a row holds lesser
rows only: in a circle of turns, the one that waits for the least row would have to
hold a lesser one.  `ReplayKnown` says that a replay has sent one interval from
where it began to its cursor; a page extends it without a gap.

Assumption: `RowsAssumption`.  It asks that a batch repeats no approval:
`mcp_dispatch/mod.rs:466-476` refuses a turn that does before it reaches the store.

### 5.8 The sliding-window ledger (`Ledger_proofs`)

For every set of threads and keys, every set of budgets, every timeout and limit,
access by access:

- `BookkeepingStaysExact`: `Spec => []Bookkeeping`: both atomics count what the maps
  hold up to the decrements under way, an id is reconcilable exactly while its
  reservation is active or in one call's hands, a `KeyState` that has left the map
  holds nothing, a Noop drops no cost;
- `UsageStaysExact`: `Spec => []UsageExact`: a `KeyState` sums, in each window, to what
  was admitted and still counts, and that fits the capacity;
- `LedgerKeepsItsPromise`: `Spec => ImplementsPromise`, the refinement of
  `ReservationBudget` (a settlement is final, an admission fits).

The first rests on `LedgerInv`.  An active reservation is an unsettled admission, in
the cell the map holds for its key, and conversely (`ActiveCharged`,
`ChargedActive`): this is where the removal of idle keys could go wrong, between the
check and the removal, and it does not because a cell that a call refers to is
still the map's unless it is empty (`Carried`).  An id is in the hands of one call
(`HeldApart`), in the id map or with its reaper (`EntriesLive`, `UnsettledHeld`), so
each decrement of an atomic has one owner and `ActiveExact` and `KeysExact` can count
the calls that still owe one.  That the bound on ids suffices is `IdsFresh`: the
calls that will ask for an id fit below it.

Usage is a sum over a queue on one side and over a set of admissions on the other;
`UsageInv` relates them by a matching.  `Explained` says that there is an injection
from the entries of the queue to the settled admissions of the key, equal in time
and tokens, which misses only what is older than the longest window; appending an
entry extends the injection, expiry from the front restricts it, and the sums are
equal by the lemmas of section 5.9.  `TermsKept` does the same for active
reservations.  Capacity is `Fits`, and needs `RoomKept`: the room that a reserve saw
is there when it takes it, because the mutex is held in between (`MutexApart`) and
time only makes room; `ClocksSane` and `IdsDense` say that readings are not ahead of
the clock and ids have no gaps.

For the refinement the admission is the step that takes the room, the settlement
the step under the mutex of whoever comes first, reconcile or reap; the steps of all
other accesses are shown to leave the history alone.

Assumptions: `ConfigAssumption` (what the config validation accepts) and
`DomainAssumption` (finite threads and keys; token counts and bounds are natural
numbers).

### 5.9 Sums over finite sets (`FiniteSums`)

`SumFunctionOnSet` of the community modules is a recursion over subsets in an order
that CHOOSE leaves open.  Induction over sets is not available, so the facts are
proved by looking at a smallest set for which they would fail: adding an element
adds its value, equal functions have equal sums, sums are monotone, a sum splits
over two parts, also when the terms are named by another index (`SumImage`), terms
that two others cover have a sum that the two sums cover (`SumCover`), and a sum may
be taken group by group (`SumGroups`).  The proofs about the sliding-window ledger
and both Valkey quotas use them.

### 5.10 The quotas shared in Valkey (`Valkey_proofs`)

For any gateways, requests and keys, every capacity, window, width, rate, timeout and
limit, with transactions that abort, are retried, are lost, or run after their client
gave up, and gateways that stop:

- `SharedBucketBounded`: `TbSpec => []BucketGrants`: a key is granted at most the
  capacity and what was refilled, overdue time counted again, and no balance leaves
  its range;
- `BucketsExpireFull`, `ReservationsSettleOnce`: `ExpiryHarmless` and `SettledOnce`;
- `SharedWindowSound`: `Spec => []WindowSound`: counters are the sums of what was
  charged, open reservations count against their cap, and capacity and cap are
  passed only by admissions that raced, or by usage above its estimate;
- `WindowReportsFinal`: `Spec => ReportedIsFinal`;
- `LateStaysHarmless`: `Spec /\ TbSpec => LateIsHarmless`, from three of these.

*The bucket.*  `TbInv` has the account of each key (`Accounts`): balance and grants
together are at most the capacity and the refill up to the bucket's last refill; and
the grants of a key whose bucket has gone are at most what the clock has refilled,
less a timeout's worth, both up to what `tbLag` allows again.  The second part is what
makes a missing bucket's full balance right for a request whose clock reading is up to
a timeout old: the bucket had been full for that long when it expired.  An older
reading dates the bucket back by as much as it is overdue, and `tbLag` grows by that.
A pending transaction carries a balance computed from
what it read; `PendingKnown` says that it is still right if nothing has touched its
WATCH, which every write, and every expiry, of the bucket or of the reservation
does.  A reservation is of a charge at its estimate and its bucket outlives it
(`ResvKnown`), a request has one reserve at most that was given up on (`WireKnown`),
so nothing is charged or settled twice.

*The window.*  Nothing is WATCHed here but the settlement's reservation.  `WinInv`
says that an id is drawn once and its admission is in one place: with its request,
on the wire, or run (`ReqSound`, `WireSound`), and settlements are of admissions that
have run (`JobsSound`).  A counter that a decision may yet read is the sum of what was
charged to it and outlives each charge in it by the charge's full TTL
(`CountersSound`): the TTL is longer than window and timeout together, so neither a
late settlement nor a late read meets a counter that has expired under it, and the
oldest sub-window read only moves forward.  A reservation that was reported settled
is gone (`ChargesSound`); hence the finality of reports.

For the limits, `RaceInv` splits each charge.  Its firm part is what no race and no
surprise explains: nothing of an admission that raced, else the lesser of estimate
and amount.  The firm parts in a window are within the capacity, the open
reservations that did not race within their cap, and a request that has been let in
and has not raced still finds room for itself (`Waits`, `WaitsWire`): an admission
that ran since it read would have made it a racing one, so it has read every charge
there is, and since then windows only emptied.

Assumptions: `ValkeyWindowAssumption` and `BucketStateAssumption` (finite requests,
natural numbers, positive widths, rates and timeouts, as the config is validated).

### 5.11 A2A routes, provider routing, ext-proc, connections, markers (`Filters_proofs`)

- `RoutesStaySound`: `Spec => []RoutesSound` and `RoutesDoTurnOver`: `Spec =>
  RoutesTurnOver`, for any exchanges, tasks, contexts, clusters and limits.  A route
  names the cluster that created its task (`OwnersNamed`), which an exchange knows from
  the reply it has yet to store (`ExchangesSound`); both maps keep to their bound
  (`MapsBounded`).  In each step a live route goes only with its finished task, and an
  exchange that stored its task and left no route met a map full of live ones, or one
  not due for a sweep.
- `OverlayIsFollowed`: `OverlaySpec => []OverlayFollowed` and `AffinityIsSound`:
  `OverlaySpec => []AffinitySound`, for any documents, requests, sessions and limits.
  Unless an event is raised or in the channel, or the thread is on its way to a read or
  holds the content the file has, the served document is the file's (`Followed`): a full
  channel may drop an event because it holds another.  The groups of an accepted
  document are intervals of its candidates with one admission state each
  (`MembersTogether`), a counter is always at a member (`SnapshotOK`), and the members
  before it have had exactly one turn more than the rest (`TurnsKept`), which the choice
  that wraps the counter turns into one turn more for all.  What a request has chosen
  admits it by the snapshot the request loaded, or was bound to its session earlier
  (`RequestOK`, `BindingsOK`).  Bindings and the requests that have passed the table's
  check together stay below the limit and the most that had passed at once (`TableOK`).
- `WaitsStayBounded`: `ExtSpec => []WaitsBounded`, for any durations and any behaviour
  of the processor.  The message a hook waits for has a deadline that is not past and
  lies within its limit, beyond it by no more than `MaxMessageTimeout` and only once an
  override was accepted (`Awaits`); the other waits are as far as their own timers allow
  (`TimersKept`).
- `PoolStaysSound`: `PoolSpec => []PoolSound`, for any tasks, connections and permits,
  through cancellation at any await, failures and a restart of Valkey.  An idle
  connection is in the pool once and in nobody's hands (`IdleApart`, `HeldApart`), is
  not watching (`WatchesEnd`) and has failed nobody (`StillGood`); permits and holders
  add up (`PermitsHeld`).
- `MarkersStaySound`: `MarkerSpec => []MarkerSound` and `LiveStateNeverAdopted`:
  `MarkerSpec => NoLiveStateAdopted`, for any gateways and configurations.  Nobody
  passes before the generation is claimed (`GenerationFirst`), before the claim there is
  only what legacy writers left (`LegacyOnly`), quota state without an index is such a
  leftover and is seen by every scan (`LeftoversSeen`), and an unbroken WATCH means that
  there is no marker and no index (`WatchHolds`).

Assumptions: `RoutesAssumption`, `ConnectionsAssumption`, `AccountingMarkerAssumption`,
`ExtProcAssumption` (durations are natural numbers) and `OverlayAssumption` (the candidates of a document have stable ids of their own, as
`validate_unique_stable_ids` demands; the channel's capacity is positive).

### 5.12 Only model-checked

Out of the prover's reach are liveness (`ProvisionEnds`, `EditsNotMissed`,
`ReloadsFinish`, `CleanupReclaims`, `SettlementEnds`), `NoLockCycle`, which uses
ENABLED, and `RepliesReadWhole`: what the scanners compute is a recursion over a
stream.  `DenialsSound` is checked in its scenes: the hint is the least element of a
recursively summed prefix, and the cap on keys is not kept once settlements come
late (section 4).  `FailClosed` is checked on its instances only: it speaks of filtered
sequences (`SelectSeq`), about which the library has no facts the provers can use.

## 6. Not modelled

PROJECT.json lists every component with its reason.  The largest parts without
a model work on one request's JSON, in one task: protocol translation and
classification, the shaping of Responses requests, the streaming of one
response, most policy and metering filters.  Further: schemas, pools and TLS of
the store backends, the conversations tables, startup and the command line, the
MCP broker (one session mapped to those of several servers), the caches of
`api_key_auth` and of the separate policy adapter, and tooling.

Of the parts that are modelled, these are left out: the retry delay of the
sliding window's denials, metrics and logs, `f64` rounding of the token bucket,
the validation and deduplication of store plans, health checks respawned by a
reload, readiness beyond the provisioning's own state, headers and their
mutations, weights of the router's random modes.  An edit between the loading of
the config and the registration of the file watcher is not noticed by the
server; the model begins after both.
