# TLA+ models of nenya

nenya is an AI gateway: it accepts OpenAI- and Anthropic-style requests, picks a
target (provider, account, model) for them, dispatches with retries and failover,
relays streams, runs the tools of MCP servers between turns, and protects every
upstream with a circuit breaker, a concurrency limiter and a rate limiter. It reloads
its configuration without dropping requests.

This directory holds TLA+ models of the parts whose correctness depends on the order
in which goroutines, timers, clients, operators and upstreams act; TLC checks them on
small instances and TLAPS proves the main properties of most of them for every
instance. `PROJECT.json` maps each definition to the lines it models and lists, under
`hazards`, what is hard to test in this code, with the property that would catch it.

## Inventory

| Part | State | Operations | What is hard | What makes it correct |
|---|---|---|---|---|
| Circuit breaker (`internal/resilience`) | per key: state, counters, deadline, probes; backoff levels; model locks; LRU registry | Allow, Peek, Record*, ReleaseHalfOpen, ForceOpen, lock and unlock | late outcomes of requests admitted in another state; capacity sweeps | thresholds and probe budget respected, deadlines only extend, no tripped circuit forgotten |
| Dispatch (`internal/proxy/retry.go`, `stream*.go`, `internal/routing/targets.go`) | per request: target index, retry budgets, probe, slot, remembered error | sweep, guards, send, error handling, stream, continuation, exhaustion report | a dozen early exits that must each return the probe and the slot; cancellation anywhere | one answer, bounded attempts, no leaked probe or slot, shared accounts never charged for a caller's own key |
| Concurrency limiter (`internal/infra/concurrency.go`) | per key a semaphore; a bounded registry | Acquire, release, create, evict | eviction between lookup and grant | one counting semaphore per key |
| Rate limiter (`internal/infra/ratelimit.go`) | per provider two buckets; a bounded registry | CheckDetailed, SetProviderLimits | oversize requests, changed limits, rejected checks | no starvation, no more than the limit |
| Admission (`internal/proxy/handler.go`, `byok.go`, `idempotency.go`, `internal/auth/rbac.go`, `keylimits.go`) | per gateway: request counts and token reservations per key and provider | authenticate, authorise, reserve, send, correct, next turn | one request dispatches many times, over a midnight or a reload | a budget is charged once per request, an idempotency key goes with one body |
| Accounts (`internal/auth/pool.go`, `manager.go`) | virtual clocks, cooldowns, model locks, backoff levels | select, exclude, prefer, report, sweep | accounts leave and come back with old clocks | no available account is passed over beyond one round |
| Billing (`internal/billing`, `internal/proxy/stream_usage.go`) | map of accounts, status objects, totals, pollers | usage chunks, marks, reset, poll | objects used outside the lock that made them | a request is claimed once, by one object |
| Sessions and affinity (`internal/routing/session.go`, `affinity.go`, `internal/proxy/chat.go`) | pins with their age; chains of fingerprints with theirs | peek, look up, pin, promote, evict; resolve identity | four lock sections per request | a warm session keeps its pin, a conversation its identity |
| Response cache (`internal/infra/response_cache.go`, `embed_index.go`, `internal/proxy/cache_scope.go`) | entries in store order, semantic index per namespace, counter | store, look up exactly and by nearness, expire, evict | the search and the read are two lock sections | the index holds exactly the entries, nobody is served another's answer |
| Stream reader (`internal/stream`) | scanner, converter, guard, filter, terminal flags | line, end of input, error, cut, cancel, over-long line, close | text is held back until it is known to be harmless, and a stream ends in a dozen ways | nothing rejected gets out, nothing else is lost (both fail on one wire pair, see LineForwarded), one terminal |
| Stream meter (`internal/stream/usage_normalize.go`, `reader_pipeline.go`) | high-water marks, seen and pending tool calls | usage report, tool-call fragment | totals are cumulative in one format and partial in another; arguments come before names, calls share indices | every token counted once, every named call shown with the arguments it was sent (but for an overwrite, see below) |
| Stall reader (`internal/proxy/stream_io.go`) | channel, buffered tail, timer, flags, pool buffers | read loop, Read, timer callback, Stop, drain | timer, reader and consumer race at teardown | no data lost before EOF, no leaked goroutine or buffer |
| Gateway life cycle (`cmd/nenya/main.go`, `internal/gateway/drain.go`, `internal/proxy/handler.go`) | serving pointer, drain gate per gateway, auto-save group | load, enter, exit, reload, drain, close, shutdown | the pointer is read before the gate is entered; auto-saves outlive requests | nothing used after close, a replaced gateway closes |
| Configuration (`config`, `cmd/nenya/config_set.go`, `secret_set.go`) | base file, drop-in, four places for secrets, the serving gateway | edit, write, start, reload | merge, defaults, validation and accessors each see another form of a setting | what is served is within its bounds, a reload loses no provider, a secret that was set is the one that serves |
| MCP transport (`internal/mcp/transport.go`) | flags, connect slot, body, pending map, event channel | Connect, SendRequest, Close, read, dispatch and keepalive loops | six actors with two mutexes, atomics and channels; Close against a Connect in flight | one stream, one read loop, nobody left waiting |
| MCP client (`internal/mcp/client.go`) | transport, generation, initialised, closed | initialise, call, recover, replay, close | a recovery swaps the transport under callers and Close | no session outlives its client |
| MCP tool loop (`internal/proxy/mcp`) | messages, offers, rejections, iterations | offer, screen, run, answer, refuse, re-dispatch | models repeat, mix and invent calls; a rejection is cleared by a late success | every call gets one result, only offered tools run, the loop ends |
| History (`internal/pipeline/tool_prune.go`, `window.go`, `summary_cache.go`, `window_head_cache.go`, `trim.go`, `internal/proxy/content_pipeline.go`) | the payload's messages; cached heads per lineage | prune, compact, look up, summarise, store, repair, trim | the head is reused while the conversation grows, shrinks or branches; four stages cut the same list | no turn lost or told twice, no tool call without its results |
| Text screening, adapters, discovery, metrics | text and format conversion, counters | | little state that steers anything | not modelled, see below |

Interactions: `Proxy.ServeHTTP` loads the serving gateway and enters its gate; the key
is authorised and its limits counted; the chat handler looks the session up, builds the
target list (breaker `Peek`, session order, account picks) and asks the response cache;
the retry loop reserves the budget and calls the breaker (`Allow`, `Record*`), the
limiters and the upstream for each attempt. A stream is read through the stall reader
and the stream reader, which meters it for billing; when it is cut, the continuation
goes through the same dispatch again. A request of an agent with MCP servers is
dispatched once per turn by the tool loop. A reload builds a new gateway from the
documents on disk and disposes of the old one when its last request leaves.

## Modules

Every module names the files it models in its header and keeps the code's names. A
module's variables are the state of the code plus history variables marked as such. An
action is one lock section, one atomic or one channel operation where goroutines meet,
and a whole handler where none do. Definitions that say "Mutant" are plausible bugs used
to check that a property can fail; nothing else uses them.

* **CircuitBreaker** - `CircuitBreaker` of `circuitbreaker.go` with `BackoffTracker`.
  Pure operators (`admit`, `fail`, `succeed`, `force`, ...) describe one circuit; the
  actions wrap them in `getOrCreate`, which is where the capacity sweep runs.
* **Classifier** - `classifyHTTPError`: which reply locks a model, backs off, trips.
* **Dispatch** - composes the breaker with the request loop. One action per branch of
  `retryLoop.Run`, `prepareAndSend`, `handleUpstreamError`, `streamResponse` and their
  callees, for several concurrent requests. A reply is a status and a set of marks
  (what the classifiers look for in a body), never text. `Start` reads the circuits and
  locks of all targets in one step, where `BuildTargetList` calls `Peek` and
  `IsModelLocked` one by one: what it reads is checked again by `Allow` before a dispatch.
  Left out: the `continue` after a payload that cannot be copied (`retry.go:827`; it is
  JSON that was parsed here), and the frames that close a cut stream the client already
  has (`stream_recovery.go:288`), which belong to the answer under way.
* **ConcurrencyLimiter** - `Acquire` in the steps its locks and channel allow: lookup,
  creation with eviction, grant, verification, release. **Semaphores** is what it
  promises: one counting semaphore per key, whose bound changes only while nobody holds
  a place. `Abstract` in ConcurrencyLimiter is the refinement mapping: a place is held
  by who was granted a token of the slot that is registered for the key.
* **RateLimiter** - the token buckets in exact integer arithmetic.
* **Admission** - from the socket to the upstream body. Each gateway has its own tracker;
  a request is served by the gateway it entered, while the key check reads the current
  one. A body is the provider, the turn and the corrections made to it.
* **Accounts** - the pool of one provider with weights, and the retry of the gateway
  around accounts whose billing is exhausted. Clocks are relative to now.
* **Billing** - the map of accounts and the objects in it are separate, as in the code:
  a goroutine keeps the object it looked up. Costs are tenths of a cent, what is stored
  is cents.
* **Sessions**, **Affinity** - the pin store with the steps a chat request takes on it,
  and the identity of conversations that share turns. A conversation is a scope (caller,
  agent, agent prompt) and messages with role and text: the session key is made from the
  first user message, the chain from all leading messages, so a system message is in the
  one and not in the other. Both stores are functions from keys
  to entries with an age in ticks; the code's list order is the order of the ages, and
  where ages are equal an eviction may take any of the oldest.
* **ResponseCache** - entries, index and counter; a semantic lookup is two steps. Entries
  and indexed vectors carry the number of the store that put them there: the order of the
  code's list and of an index is the order of these numbers. An index that empties is
  dropped by the code; here it is a namespace without vectors. The scope of a key holds the
  engines that `globalEngineIdentity` names; the engine of the window stage is not one of
  them, in the code as in the model.
* **SseReader** - text is a sequence of tokens (word, space, parts of a rejected URL,
  what a filter blocks), cut into chunks at every place; a stage per transformer, in
  the order of `processLine`; every way a stream ends, and what `copyStream`'s caller
  writes after it. A line that is forwarded as it came is a frame with its text, and counts
  as delivered. **StreamMeter** - the counts and the tool calls of a stream, for
  every prompt in `Prompts` (its tokens, and those read from and written to a cache). A
  call has an id and an index; calls of an upstream that sends no index share index 0.
* **History** - a conversation through pruning, window compaction with the lineage caches,
  the repair of role order and the trim for a target. A text is a sequence of tokens; a
  head records which text it stands for and who wrote it, so that what the model is told
  can be compared with what the client said. Tool results carry text and system messages
  come first, as the clients the code is written for send them.
* **McpTransport**, **McpClient** - `HTTPTransport` with its callers and loops; the
  client with its two mutexes, its generation and its one recovery per call.
* **ToolLoop** - a tool-loop request against models that answer with any of a list of
  streams; the calls of a turn run as goroutines.
* **StallReader**, **GatewayReload** - see the inventory.
* **ConfigTypes**, **ConfigModel**, **ConfigValidation**, **ConfigLife** - the table of
  settings with the classes of values each distinguishes; merge, defaults, clamps and
  accessors; the checks; and the documents, commands, start and reload around them. A
  configuration is a partial function from settings to classes of values (`"zero"`,
  `"neg"`, `"huge"`, `"bad"`, ...), so what a default or a check tells apart is kept and
  what it does not is gone.
* **CircuitBreakerProofs**, **DispatchProofs**, **McpTransportProofs**, **ToolLoopProofs**,
  **RuntimeProofs** (gateway, stall reader, limiter, MCP client), **RoutingProofs**
  (sessions, affinity, rate limiter, accounts), **RequestProofs** (admission, billing,
  configuration) and **ResponseProofs** (response cache, stream metering) - theorems.

`MC*` modules fix constants for TLC. Three of them put several components into one run.
**MCWaits** holds the dispatcher and the MCP transport, whose callers wait,
**MCRuntime** holds the goroutines around a request (gateway, stall reader, limiter, MCP
client, tool loop), **MCRequests** the stateful parts a request passes. These components
share no variables in the code: they meet through calls whose results the models already
choose freely. So nothing is gained by interleaving them, and the initial state chooses
which one runs (`part`); the variables of the others stand still, and no
fairness is asked of them. These modules extend components that have proofs, so that the runs check the very definitions the theorems
name; in MCRequests the stream reader, the history and the rate limiter are instances
that share the slots `x1`, `x2`, .... The assumptions of all of them are evaluated, and
what is checked is exactly each component's own specification. Components that do share
state are composed for real: the breaker and the limiter inside Dispatch, the client's
transport inside McpClient, validation inside ConfigLife.

## Runs

| Run | Question | Bounds |
|---|---|---|
| CircuitBreaker | do counters, levels, probes and deadlines stay coherent under any mix of calls, and what may the capacity sweep delete | three keys in a registry of two, so that every creation at the cap sweeps; one key with overridden thresholds; probe budget 2; three ticks, so that open periods expire and overlap |
| Sweep | what one request may cause and what its client is told, for every kind of agent | three targets on two accounts, so that a benched account comes both before and after the other; a tick, so that cooldowns run out during a sweep; one reply per branch of the error handling; `max_retries` 0 to 2, all sticky modes, own or shared credential |
| Waits, dispatch | is every probe and slot returned, does every request end and every probe budget come back | two requests over two models at a concurrency limit of 3 (a cut stream holds two slots while it is continued: with 3 one of the two can always go on, with fewer see ContinuationBlocks), one continuation each, circuits that trip at one failure; network errors and cut streams, the other faults being covered by the proof `LeakFree` |
| Waits, transport | one stream; does a lost stream or a Close release everybody | two callers of Connect that retry without bound, one request, an event channel of one; requests meet only through the pending map, one slot each |
| Runtime, gateway | is anything used after close, a replaced gateway kept open, a stop ignored | two requests with auto-saves, two gateways; every bounded wait may run out, but fairness never owes a timeout |
| Runtime, stall | buffers, tail, timer, goroutine end | three upstream reads, chunks larger than the caller's room |
| Runtime, tools | results, charges, refusals and the end of a loop | two servers, four tools of which one is not granted, one not allowed and one the client's; answers with every kind of line; two iterations; two targets |
| Runtime, limiter | refinement of the semaphores, conservation of tokens | two callers, two keys, registry of one, two limits |
| Runtime, client | sessions left behind | two callers, four sessions |
| Requests, config | is what is served in bounds, may a reload lose a provider, does a written secret serve | each object's settings in turn, at most one per file and two edits, with the secrets in any of the four places; the pairs of objects whose checks refer to each other |
| Requests, admission | who is charged what, which key goes with which body | two requests of two keys over two gateways and a midnight; corrections, tool turns, two targets, own credential |
| Requests, billing | one claim per request | two dispatches of two chunks, with and without a cost, on two accounts with a poller |
| Requests, stream and meter | guards, terminals, counts, calls | eight texts in chunks of up to three tokens, all wire pairs (on OpenAI to Anthropic only what the reader writes itself, and the terminals), both guard actions; all seven shapes of the usage object, two calls with the same id, with an id made here, or with the same index |
| Requests, history | turns, tool exchanges and envelopes after every stage | two requests with the states of one conversation: grown, branched, shrunk, and another lineage, in a cache of one; regeneration once the history has doubled; each window mode without pruning and pruning without a window (both at once is RecentLost); budgets unknown and 5 |
| Requests, rate | does every request that fits its limits get through | two providers, room for one, sizes above and below the limits |
| Requests, accounts | fairness of the rotation | three accounts with weights 1, 2, 1, one bench, one request at a time (the proof covers any number) |
| Requests, sessions and affinity | pins and identities | two requests of three sessions in a store of two; seven conversations of two callers with the same opener: alone, with two answers, behind two system messages, and after a message without text, in a store of two |
| Requests, cache | agreement of index and entries, whose answer is served | two callers, two near payloads, two engine settings, three stores in a cache of two with an index of one |

Larger instances add no new kind of interleaving: two requests suffice for a late
outcome to meet a probe and for a slot that was kept to block somebody; a registry
or store smaller than its key set is always at its limit; a clock that passes one
deadline passes them all in the same way. Requests and sessions are interchangeable and
declared symmetric where only safety is checked.

Violation runs state what a comment or document says and show where the code departs
from it; `findings` in `PROJECT.json` quotes the line. In short:

* **WedgedCircuit** - a probe answered with an HTML page is never given back, and the
  half-open circuit never admits again.
* **ContinuationBlocks** - at the concurrency limit a continuation waits for the slot of
  its own cut stream.
* **RateOverrun** - rejected checks refill a bucket more than once.
* **McpLost** - a lost MCP session is rebuilt by a tool call only, and a client without
  a session is not offered any.
* **RecentLost** - with pruning and the window both on, the window stage is given the
  slice from before the pruning, whose elements were shifted in place: its active window
  ends in null messages and lacks the newest ones.
* **LineForwarded** - with an OpenAI upstream and an Anthropic client, a delta the egress
  guard holds back whole leaves the converter without an event, and the line is then
  forwarded as the upstream sent it: rejected URLs get out. `GuardedText` (in `TextSound`)
  therefore says of this pair only that no frame the reader writes itself has rejected
  text. For the same reason text is told twice there, once in the forwarded line and once
  when the guard releases it.
* **OpenerTaken** - conversations with one system message and one opener share two turns
  before any answer, so the second takes over the identity of the first. What holds is
  `OpenerOwned`: identities follow the first two messages, whatever these are.

The models show more places where a comment and the code differ; they are recorded here
and have no run of their own:

* `evictForCapacity` sheds a Closed circuit with failures on record
  (`circuitbreaker.go:262`, against `bounded_registry_test.go:33`), keeps the model locks
  of shed circuits (against the bound at `circuitbreaker.go:85`), and drops the active
  lock of an idle circuit, which a softer failure may then replace (`:248`, against `:543`).
* A client that disconnects while its probe is at the upstream does not give it back
  (`retry.go:843`), and one that disconnects before the first stream byte is charged to
  the provider (`stream.go:169`, against `:1114`). `Waits`
  therefore excludes the faults `cancel` and `html`.
* Releases of a half-open slot are not tied to the request that took it
  (`circuitbreaker.go:653`): a late outcome, or a BYOK request, frees another's probe. The
  probe budget, a part of `CircuitCoherent`, is about the slots counted, not about who
  took them.
* `strict` agents fail over after a summarization (`retry.go:757`, against
  `CONFIGURATION.md:631`), and a summarized 413 at the last target is not retried
  (`retry.go:897`, against `ARCHITECTURE.md:719`).
* A lowered concurrency limit waits until the key's semaphore is evicted
  (`concurrency.go:95`, against `:18`), and idle slots can outnumber the registry bound
  (`:136`, against `:133`).
* `stallReader.Read` tests `stalled` before the buffered tail (`stream_io.go:240`,
  against `:252`), so a slow client can be taken for a stalled upstream.
* The MCP loops look at `doneCh` and set `ready` in two steps, so a stream that dies in
  between is marked ready for good (`transport.go:885`, against `:880`), and a request
  that registers after the reader failed the others waits out its timeout (`:619`,
  against `:955`).
* The response cache evicts in store order: a lookup does not move its entry
  (`response_cache.go:265`, against `CACHING.md:8`).
* Text held by the guard of a stream converted to Anthropic events is dropped when the
  block was closed before it was released (`reader_terminal.go:390`, against
  `CONFIGURATION.md:218`).
* Argument fragments that come before the name of their call take each other's place
  (`reader_pipeline.go:797-801`, against `:652-654` and `:694`: "buffers argument chunks
  that arrive before the tool name and merges pending data"): all but the last are lost.
  `CallsWhole` says exactly that: the arguments shown are the ones sent, minus those
  overwritten.
* Once an index is known, later chunks of it pass with the id they carry
  (`reader_pipeline.go:721-724`). Where an upstream sends no index, a second call has
  index 0 too and keeps its own id, valid or not, also where it is another call's: the ids of
  `CallsWhole` are those of the calls that open their indices.
* The cache counters of an OpenAI-shaped usage object sum to its prompt: the miss is
  derived (`usage_normalize.go:293-304`, as its comment at `:23-24` and
  `usage_normalize_test.go:35-41` say). `CACHING.md:236-242` and `:255-257` still say that
  this shape has no derived miss and a ratio of 1.0; `CountedOnce` states what code,
  comment and test agree on.
* A stream's cost is the sum of its chunks' costs (`stream_usage.go:239`, against
  `BILLING.md:241`), and nothing in the program calls `ResetSpend`
  (`billing/tracker.go:258`, against `BILLING.md:57`).
* A drop-in that lists `redact_patterns` switches the bouncer on
  (`config/types.go:1939`, against `CONFIGURATION.md:44`).

* A reload starts the day's token budgets of the keys again (`gateway.go:612`, against
  `keylimits.go:20`): `ReservedOnce` is therefore about one tracker.
* A summary is reused for a conversation whose covered turns were edited
  (`summary_cache.go:95`): it has no hash of what it covers. `TextSound` excludes a
  head of another branch in `summarize` mode.
* `TrimPayload` leaves the system messages out of the count it keeps below `maxTokens`
  (`trim.go:28`, against `:17`).

## Fairness

The dispatch part of `Waits` and the violation runs of Dispatch assume weak fairness of each
request's goroutine: the Go scheduler runs runnable goroutines and every upstream call
has a timeout, so it returns. Clients owe nothing. The gateway part of `Runtime` assumes
that handlers return, auto-saves end (both have deadlines), and that the disposal and
shutdown goroutines run; signals, new requests and timeouts are never owed, so that a
lost wake-up cannot hide behind the wait that would run out. The stall part assumes that
its goroutines run, an armed timer fires and a consumer that saw an error tears down; an
upstream with an open body owes nothing. The tool part assumes that the request's
goroutine and those of its calls run, each call having a timeout.
The transport part of `Waits` assumes that goroutines run, that dials, handshakes and POSTs end (each
has a timeout), and that a read on a canceled stream returns. The server owes nothing
and neither `RequestTimeout` of a waiting call nor the grace period of Close is owed, so
no property can rest on them. `McpLost` assumes that requests keep coming and that the
server, once it is up, stays up and answers: even so nothing recovers.

## Proofs

TLAPS checks, for arbitrary constants that satisfy the named assumptions (each an
`ASSUME` of the component's module, which TLC evaluates on the runs):

* **CircuitBreakerProofs**: `IInv` is inductive (`Invariance`). It adds to the stated
  properties that a circuit's counters are in range for its state and that backoff
  levels live on registered keys. From it follow `TypeCorrect`, `CircuitSafety`
  (threshold, probe budget, deadline only when open), `BackoffBounded` and `Coherence`
  (`CircuitCoherent`);
  the action properties `DeadlineSafety`, `NoTrippedEviction` and `RegistryGrowth` are
  proved step by step from the same invariant. Assumptions: the named ranges of
  thresholds, limits, durations and classifier results in `CircuitBreaker`.
* **DispatchProofs**, first part: a request's step changes its own loop only, so the
  invariant is a predicate `Sound` of one loop, by label: what it has answered
  (`Answered`), the calls and the cursor (`Budgeted`), the attempts (`Patient`), what the
  final report may rest on (`Reported`), which targets are behind the cursor and why
  (`Covered`), and the slots in hand (`Slotted`); `SlotsBounded` is the one part that
  speaks of all requests. Each action is shown to take a Sound loop to a Sound one
  (lemmas `...Moves`); most leaves go through `Keeps(q, n, F)`, "n is q but for the
  fields F". Results: `OneAnswer`, `BoundedWork`, `HonestReport`, `NoPairSkipped`,
  `SlotsHeld`, for any chain, agents, replies, faults and number of requests.
* **DispatchProofs**, second part, about the breaker the requests share. `ProbeInv` keeps
  an account: a loop owes one report for the call under way and one for a stream it has
  committed and not yet charged, and the probes of a circuit are at most the reports owed
  on its key (`Repaid`). Every breaker method moves the count by at most one or resets it
  (lemmas `...Accounted`), every action of a loop that drops a debt makes a report (lemmas
  `...Repays`). `LeakFree` concludes `NothingLeaks` for all fault sets without `cancel`
  and `html`: these are the two outcomes the code does not report, and WedgedCircuit
  shows that the hypothesis is needed. `DispatchSafe` shows that every step of the
  dispatcher is a safe step of CircuitBreakerProofs, which gives `BreakerCoherent` and
  `TypesKept` for the composed system, and with it `ByokUncharged`: all that a
  caller-funded request can do to the breaker is to release a slot. Assumptions:
  `DispatchAssumption` (ranges; the registry holds more circuits than there are keys, so
  the sweep of CircuitBreaker does not run) and `BodilessAssumption` (the classifier has
  a decision for a reply without a body, which is what a failed continuation records).
* **RuntimeProofs**, limiter: `CapacityReturns` is not inductive. `LimiterIInv` adds that
  whoever evicts holds the mutex (`Locked`), that a goroutine in Acquire has a key and a
  limit (`Asking`) and a semaphore from when it found or made one (`LimiterInHand`), that at the
  deletion the key is still unregistered and nobody works under a victim (`Evicting`),
  that whoever works does so under the registered semaphore (`HeldRegistered`), and that
  tokens stay within capacity (`Bounded`). Results: `NoTokenLost`, and `Refinement`: the
  limiter implements Semaphores, each action being one abstract step or a stutter.
  Assumption: `LimiterAssumption`.
* **RuntimeProofs**, stall reader: `Conserved` says that until a stall is declared every unit the
  upstream produced is in one place (served, tail, channel, the consumer's or the reader's
  hand), unless the reader gave up for a client that left. `Terminal`: the reader ends
  with its terminal result and nothing follows it; `Reading`: a Read waits or serves only
  with no tail and no error to hand out; `Ending`: a reported end of stream is final, with
  everything served. Together with the pool accounting they make `StreamSound` follow
  (`NothingLost`). Assumption: `StallAssumption`.
* **RuntimeProofs**, MCP client: the recovery lock has one holder (`LockHeld`); the session in its
  hands is the replaced one until that is closed, then the current one (`ClientInHand`); a live
  session besides the current one is about to be discarded (`OneCurrent`); Close gates,
  then flags, then closes, and a session open after it belongs to a recovery it overtook
  (`Closed`). Result: `NoneResurrected`. Assumption: `ClientAssumption`.
* **RuntimeProofs**, gateway: `IInv` adds three parts to the stated properties, because
  none of them is inductive alone. `GateProtocol` ties the gate's flags to the place of
  the disposal goroutine (the channel is closed only at zero, admission stops for good
  before the wait); `DisposalOrder` says that the serving gateway is disposed of only at
  the very end; `SavesWaitedFor` says which auto-saves can still exist behind a disposal
  that waited. Counting uses the cardinality theorems for finite sets. Results:
  `GateCountExact` (`InflightExact`, which the run checks through `NoUseAfterClose`),
  `RefusalsAreStale`, `CloseIsSafe`, `TypeCorrect`, for any number of
  requests and reloads, whether or not waits run out.
* **McpTransportProofs**: `IInv` adds to `MailboxFree` that an unregistered request has an
  empty channel (`Fresh`), and to `OneStream` that the connect slot has one holder
  (`SlotHeld`), that a dialing Connect sees no registered body (`DialsAlone`) and that the
  loops start once (`NotStarted`). Results: `TypeCorrect`, `FailPendingNeverBlocks`,
  `SingleStream`. Assumption: `TransportAssumption`.

* **RequestProofs**, three components that the Requests run extends.
  *Idempotency keys.* The invariant `KeysBound` says of each request what its header
  carries: the client's key while nothing keyed was sent, then the last key sent with its
  body (`Carried`); that every key sent is the client's or was made for this request at
  that dispatch or before (`Own`); and that nothing is sent before the sweep, nor can a
  request still be refused once something was (`Silent`). `KeyedSent` is the heart: either
  the header's key goes on, and then the body is the one it was bound to, or a key is made
  that nothing was sent with. Result: `KeysFollowBodies`.
  *Budgets.* A sum over a set of bookings is the cardinality of its `Units`, a pair of
  booking and number for each token, so that the theorems about finite sets count it.
  `BudgetInv` adds to `KeysBound` one ledger per tracker and key and one per tracker and
  provider (`DayLedger`): the bookings of a use's day add up to its total, and no booking
  is of a later day, which is why a total that `rollDay` zeroes is again the sum
  (`LedgerRolled`). `Accounted` says that a request that can still reserve has not: with
  `Silent` it makes the reservation one per request, whatever the sweep does. That no
  request has a generation later than the current one is why a reload's tracker starts
  balanced. Each booking proves its own bound when it is made (`KeyBooks`, `ProvBooks`).
  Result: `BudgetsHold`, for any keys, budgets, tiers, chains and length of a day.
  Assumption of both: `AdmissionAssumption` (a client does not send a key that is made
  here at random; tokens are counted in natural numbers; a day has minutes).
  *Billing.* `Ledger`: a dispatch has one claim under way at most, from the chunk that
  first reports usage until the total counts it; the count is the cardinality of the
  settled ones. Result: `OneClaim`. Assumption: `BillingAssumption` (finitely many
  dispatches).
  *Configuration.* `Served`: a gateway that runs on what is on disk passed the checks of a
  start, because those of a reload include them (`ReloadImpliesStart`) and an edit ends
  the claim; the accessors clamp any value (`LimitsInRange`). `Stored`: what is on disk are
  secrets documents. Results: `AlwaysServable`, `CredentialsKept`, `WritesServe`.
  Assumption: `VaultsAssumption` (the shape of a secrets source; three documents in the
  merge directory).

* **RoutingProofs**, four components. *Sessions.* Whatever a request does between peek and
  dispatch, it does one of five things to the store (`StoreStep`): nothing, one write with
  its eviction, the removal of expired pins, a touch, or time passes. `PinInv`: a pin is
  exactly as old as its session's last routed request, because every routed request
  touches or writes its pin, and the pins fit the cap. Hence an eviction, which looks at
  LastSeen only, drops the least recently routed. Result: `WarmSessions`. Assumption:
  `SessionAssumption`. *Affinity.* `GivenInv`: what an opening (a session key and
  the first two messages) was last told is what the chain remembered at the key says of it
  (`Told`): the key itself if the chain begins with these two messages, else a fork that
  folds what they share. A remembered chain never loses its second message: one message
  alone shares too little with it to be taken for it. So an identity does not change while the key is remembered,
  and two openings that hold the key are one. Result: `NoTakeover`.
  Assumption: `AffinityAssumption`. *Rate limiter.* `RateInv`: buckets are dated no later
  than now and hold between nothing and their limit. Result: `NobodyStarved`. Assumption:
  `RateAssumption`. *Accounts.* While an account waits, each other one has a number of
  turns left before it (`TurnsLeft`): the picks that would still find it strictly behind,
  and one in a tie, which the scan gives to those in front once the waiting account is at
  the floor. `RotationInv`: the picks lost so far and the turns left are together at most
  a round (`Turns`). A pick that passes the account over finds the picked one strictly
  behind, and uses up its last turn below (`PickBehind`), or level, and then
  renormalisation takes the waiting account to the floor and the scan starts after the
  picked one (`PickTied`); nothing gives a turn back, neither a sticky pick, which moves a
  clock only ahead, nor a pause, which takes clocks to the floor but never past each
  other. Result: `RotationFair`. Assumption: `AccountsAssumption` (integer weights, a unit).
* **ToolLoopProofs**: a mark changes in one of a few ways (`MarkStep`), and counts up, so
  a clear that compares numbers under the lock meets the refusal it saw:
  `RefusalSurvives`. `LoopInv` makes `ToolTurnsSound` inductive: sends are paid for by
  targets passed and by repeats of one (`Sending`); an answer is charged under a claim
  that no later iteration shares (`Claims`); the conversation is paired whenever control
  is outside `appendMCPResults` (`Pairing`); and what a goroutine runs passed the refusal
  check against what was offered, however late it runs (`Offering`). Result: `TurnsSound`.
  Assumption: `ToolAssumption`. One clause of it says that the calls picked out of an
  answer are a sequence of calls; it speaks of a fold and a filter over the lines of an
  answer, so TLC evaluates it and the proof takes it from there.
* **ResponseProofs**: *response cache.* `CacheInv` says of every entry that its answer is
  complete and belongs to the token, the settings and the model its key names
  (`EntriesKeyed`), of every vector that it is the one of a stored entry, in that entry's
  namespace, one per key and counted (`IndexSound`), and of a request that what its search
  found has its own token and scope (`ReaderSound`), which is why an eviction or an
  overwrite between search and read can cost a miss but never another caller's answer.
  That one decrement per dropped key is one per dropped vector is a bijection
  (`DroppedCounted`). Result: `CacheKeepsApart`, with no assumption on the constants.
  *Metering.* `NormalizeFair` shows for each of the seven shapes of the usage
  object that its totals tell all of the input or none, all of the output or none, and
  report a total of their own exactly in the shapes that have one. `UsageInv` then says
  what the high-water marks know: they equal what was reported, except the mark of a
  total that is never sent. For tool calls `CallsInv` follows the id of a call that opens
  its index from buffer to client: one that was not made here is the upstream's and is in
  `seenIDs` (`Owned`), and two openers hold one id only where it was made for one of them
  (`Apart`). `Gathered` says where the arguments are: the last early fragment in the
  buffer, or all but the overwritten ones with the client; a call that comes second on its
  index has sent nothing while the index is unknown. Result: `MeterExact`.
  Assumption: `MeterAssumption` (a known shape; calls are numbered; the cached part of a
  prompt is part of it).

The action properties and invariants above are each checked by TLC as well. Only
model-checked: all liveness (TLAPS here does not reason about fairness and ENABLED);
`TextSound` of streams and histories, which speaks of sequences that filters and folds
build and would need an induction over data. `ServedSound` is proved of any
configuration the loader returns; what the loader makes of the files is model-checked.

## Not modelled

* Text and format conversion: redaction and screening of prompts, provider adapters,
  tokenisation and the wording of errors. What matters about a text is reduced to the tokens and marks
  the models tell apart.
* Target scoring and transformation: functions of configuration, latency history and
  payload. The models take the resulting order as given or choose it freely.
* Discovery, local engines, account files, metrics, tracing: one call in, one call out,
  or counters that steer nothing.
* Single-attempt endpoints (embeddings, files, passthrough), which relay one call.

`PROJECT.json` lists each part with its reason. Within the modelled parts, log lines,
metrics and byte contents are left out.

## Plan

1. Done: the parts above, with the proofs above.
2. Next models: order of targets and catalog merge as operators against reference
   definitions; interceptor order and failure policy of the text screening.
