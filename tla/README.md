# TLA+ models of OmniLLM

OmniLLM is an LLM gateway written in Go. A request in one of three API shapes
is admitted, converted to a canonical form (CIF), possibly answered from an
exact response cache, resolved to a list of attempts, dispatched to provider
instances with failover, and answered in the client's shape. Around that path
run the services that keep it going: writers, a registry that saves itself, token
refresh, sign-in flows, migrations, a lifecycle file. This directory holds TLA+
models of the parts in which concurrency, ordering, failure, time or the
composition of conversions decide correctness, their model-checking
configurations, and machine-checked proofs about them. Definitions are named
after the functions they stand for; `PROJECT.json` gives the source lines of
each, and the hazards and components with their properties.

## 1. Inventory

Paths are under `src/internal/`.

| Component | State | Operations | Interacts with | Hard behaviours |
|---|---|---|---|---|
| Request pacing `lib/ratelimit` | FIFO of reservations, time of the last grant, a `changed` channel, all under one mutex | `CheckAndWait` | called first by each chat completion | waits in a `select` on timer, channel and context; cancellation anywhere in the queue; wake-ups |
| Concurrency limit `routes/concurrency_limit.go` | semaphore channel | middleware | wraps the handlers, so that waiters in the pacer hold slots | a slot must come back on every path |
| Catalog cache `lib/catalogcache`, `lib/catalogstate` | one entry per provider, pending or filled; version (lifecycle, refresh) per instance | `Get`, `Invalidate`, `Refresh` | called by routing; invalidated by the token and config stores and by the registry | discovery without the lock; last-good data; backoff; coalescing; invalidation during discovery |
| Affinity `lib/affinity` | bounded map with an eviction queue | `Key`, `Lookup`, `Record` | read by resolution and by candidate preparation, written after a success | lazy expiry, stale places in the queue, keys that must stay the same while a conversation grows |
| Model resolution `routes/model_resolution.go`, `lib/modelrouting`, `lib/virtualmodelrouting` | round-robin cursors | expand a name into attempts, attempts into candidates | resolution caches, registry, catalog cache, affinity | names that are virtual, aliased, qualified or ambiguous; the registry changes meanwhile |
| Failover `providerdispatch`, handlers in `routes` | per request: attempts, candidates, shared request extensions | `TryAttempts`, `PrepareCandidates`, candidate handler | adapters, affinity | skip, continue or abort; streaming fallback; the client leaves |
| Ingestion `ingestion`, canonical form `cif` | none | three parsers of histories | handlers | calls and results that must stay linked, parts that are merged, flushed, hoisted or dropped |
| Adapters' requests `providers/*` | none; Copilot: token, host, catalog | payloads for nine formats; whole answers; Copilot's calls with refresh and retries | upstream APIs, token store | a history spoken through several formats; failures of several kinds in one call; another request's refresh or sign-in meanwhile |
| Streams `providers/*` parsers, `translation/toolarguments`, `serialization`, `lib/responsecache/stream.go` | per stream: open blocks, held arguments, accumulator | parse, normalize, serialize, accumulate, replay | clients, response cache | interleaved calls, late announcements, hang-ups, errors, clients that leave |
| Response cache `lib/responsecache` | Redis hashes, circuit breaker, clear lock | key, get, save, clear, probe, close | handlers before and after dispatch | late results of commands, clear against save, a key that forgets a field |
| Registry `registry` | providers, active set, background saves | register, activate, remove, save, restore | `provider_instances` rows | saves that run side by side over older snapshots; crashes |
| Resolution caches `database/model_resolution_cache.go` | snapshots of three tables | load, read, invalidate | stores, resolution | a load that overlaps a write; a load that fails |
| Migrations `database/init.go` | schema, `schema_migrations` | open, create, migrate, record | every process that opens the database | no transaction around a migration; processes killed or racing |
| Asynchronous writers `database/async_workers.go` | two bounded channels, worker group | start, stop, enqueue | metering, access tokens | stop against enqueue, restart, overload |
| Lifecycle `lifecycle` | state file of the running server | register, close, stop | CLI | racing processes, crashes, PID reuse |
| Token rotation `providers/openai/provider.go`, `database/store_tokens.go` | tokens in memory and in the store | refresh, recover, clear, sign in, reload | token endpoint, other processes | rotation by several processes, answers that are lost or late |
| Sign-in flows `routes/admin_provider*.go`, `routes/admin_*oauth.go` | one global flow, outcome maps, login flows, reservations | create, renew, poll, cancel, call back, delete | registry, stores, OAuth servers | flows that outlive their cancellation, rollbacks, late callbacks, two operators |
| Virtual models `routes/virtualmodels.go`, `database/store_virtual.go` | two tables, round-robin cursors | create, update, rename, delete, read | resolution | two statements per edit, ids that differ in case, cursors of lists that changed |
| Admin API otherwise, CLI, frontend, desktop | - | thin shells over the above | - | - |

What makes each part correct:

* **Pacing and admission**: grants at least one interval apart; first come,
  first served; every reservation ends; a slot is held exactly as long as its
  request runs.
* **Catalog cache**: no answer of a replaced account, none older than its
  limit, one discovery per version, every `Get` returns.
* **Affinity**: bounded; only reorders; a conversation that goes on finds its pin.
* **Resolution and failover**: every alternative is tried before a request
  fails, in priority order, none twice within an attempt; the client's departure
  ends it; adjustments stay with the candidate they are meant for; every request
  ends.
* **Conversions**: what an upstream reads of a conversation is what was said in
  it, with each result linked to its call, whichever dialects and formats it went
  through; what a client reads of an answer is what the upstream said, as one
  well-formed message, now or when it is replayed from the cache.
* **Registry and stores**: the rows converge to the registry; a read after a
  write's invalidation is not older than the write.
* **Response cache**: an answer is served to the question it answered; only whole answers are stored; after a clear nothing that was
  stored before is served; the circuit recovers.
* **Writers, lifecycle, tokens, sign-ins, migrations**: no accepted record is lost
  by a stop; who serves holds the claim; the newest refresh token survives; a
  sign-in takes effect whole or leaves nothing, and its operator is told of it;
  an upgrade that is killed loses no credential.

## 2. Modules

| Module | Stands for |
|---|---|
| `RateLimiter` | `CheckAndWait`, one action per critical section or select case |
| `Admission` | `RateLimiter` behind the concurrency middleware |
| `AdmissionProofs` | theorems about `RateLimiter`, and about `Admission` as its refinement |
| `CatalogCache` | `Cache.Get` for one key, the version fence, the stores that invalidate |
| `CatalogCacheProofs` | theorems about `CatalogCache` |
| `Affinity` | the affinity cache; its operations are operators that `Dispatch` composes |
| `Dispatch` | expansion, resolution, failover, candidate handler (EXTENDS `Affinity`) |
| `MCDispatch` | constants for TLC |
| `DispatchProofs` | theorems about `Dispatch` and the affinity cache in it |
| `Canonical` | blocks, events and responses of the canonical form |
| `Upstreams` | nine upstream stream formats: what one chunk, or the end of the body, makes of the parser's state |
| `ToolArguments` | the normalizer of tool arguments in a stream and in a response |
| `ChatStream`, `MessagesStream`, `ResponsesStream` | the serializers of the three dialects |
| `CachedResponse` | the stream accumulator and the replay of a stored response |
| `ClientMessage` | external: the message a client of each dialect makes of its events |
| `AssistantMessage` | abstract: a message that is begun, gets blocks that are opened, appended to and closed, and is finished or fails |
| `Streams` | one streamed request from the upstream's chunks to the client, and a later request served from the cache |
| `Transcripts` | a conversation as its client keeps it in each dialect |
| `Ingestion` | what the three parsers make of a transcript |
| `Payloads` | what the adapters send of the canonical form, per upstream format |
| `Answers` | what a whole upstream answer becomes for the client |
| `Requests` | turn after turn of a conversation through changing upstreams |
| `AsyncWorkers`, `ServerLifecycle`, `RedisStore`, `RegistrySaves`, `ResolutionCache`, `TokenRotation`, `Migrations`, `CopilotCalls`, `SignIns`, `VirtualModels`, `CacheIdentity` | one service each |
| `Services` | the services side by side: a behaviour is one service's |
| `ServerProofs` | theorems about `AsyncWorkers`, `ServerLifecycle` and `Migrations` |
| `AccountProofs` | theorems about `TokenRotation`, `CopilotCalls` and `SignIns` |
| `ResponseCacheProofs` | theorems about `RedisStore` and `CacheIdentity` |
| `StorageProofs` | theorems about `ResolutionCache`, `RegistrySaves` and `VirtualModels` |
| `StreamProofs` | theorems about `Streams` and the modules it composes |

`Admission` EXTENDS `RateLimiter` and runs its `Step` inside the middleware;
`Dispatch` EXTENDS `Affinity` and calls `LookUp` and `Record` at the places
where the code does; `Streams` composes the parsers, the normalizer, the
serializers, the accumulator and the client, and `Requests` the client, the
parsers of requests, the adapters and the answers. `Services` EXTENDS the services
only to check them with one configuration: they share no variable, and its
variable `service` chooses the one that moves. Each service module also states its
own `...Spec`. Operators marked *Slip* in the modules are faulty variants of the
definition below them: replacing the one by the other must break a property,
which shows that the property speaks about that definition.

### RateLimiter and Admission

Each critical section under `rl.mu` is one action: the fast path
(`AdmitAtOnce`), refusal, `Reserve`, and one round of the loop (`AdmitFirst` or
`KeepWaiting`). `StartTimer` is separate because the timer is armed after the
unlock; a `changed` channel closed in between must still wake the sleeper, so
`signalled` says for each sleeper whether the channel it captured is closed.
`Wake` and `SeeCancel` are the cases of the `select`, chosen freely when several
are ready, as Go does; the cancellation is noticed (`SeeCancel`) before the lock
is taken again (`CancelReservation`). The clock counts ticks since the last
grant and saturates at the interval; `age` and `ahead` are history variables.
`Admission` adds the semaphore. `Finish` stands for the whole remainder of the
handler.

### CatalogCache

The time of the model is a bounded clock. An entry carries its version, whether
a discovery is filling it and whose, the last good catalog, the result and the
time until which it answers. A catalog is the pair of the time it was obtained
and the *epoch* in which the provider was read: epochs count the changes of the
world (credentials saved, refresh asked for, a failure that is not transient),
and `retired` and `outdated` are the epochs before which an answer is forbidden,
or must not pass for fresh. A caller remembers both from the moment it called
`Get`; so an answer that was right when it was asked for is never blamed. The
write of the credentials (`SaveAccount`) and `Invalidate` are two steps, as in
the stores. `Fetch` may succeed, fail transiently, fail hard, or return the
provider's own degraded fallback. Done channels are modelled by `waitsFor`:
closing one returns its waiters to the lookup.

The version is read inside each critical section of `Get`, under a lock of its
own. An `Invalidate` between that read and the unlock changes nothing that the
section has decided and is indistinguishable from one just after it, so that
each section is one step.

### Affinity and Dispatch

A request is expanded into attempts (`Arrive`, with the round-robin cursor, or
`Reject` for an ambiguous prefix), reordered by affinity (`Prefer`), and then
loops through `TryAttempts`: an attempt is skipped (`OnlyIfPreviousUnavailable`),
unsupported (a System One instance is named), without candidates, fails to
resolve (nothing at all is active), or is prepared (`PrepareAttempt`), which
reads the registry, the catalogs, the priorities and the affinity cache and sets
the shared flags if a Copilot instance is among the candidates. Each candidate
is called; the call ends in `Succeed` (and records the pin under the canonical
model, not the asked one), `FallBack` (a refused stream tried again without
streaming), `FailCandidate`, or `AbortCanceled`. Clients may leave at any
moment; once a call was begun for a client that had left, it can only end with
the cancellation, because every adapter passes the request's context to its HTTP
client and wraps what that returns with `%w`, where `errors.Is` finds it. Providers in `Unstable` are switched off and on at any moment;
pins expire at any moment.

`plan`, `steady`, `tried`, `doomed`, `server` and `expected` are history. They
only serve the properties: `steady` is the set of instances that were active
ever since the request was expanded, `server` who answered for a name last while
every pin written since is alive.

### Streams

An upstream says a bounded answer: texts, thinking, calls whose arguments come in
pieces and may interleave, an end with a reason, an error, or a hang-up. `Upstreams`
has, for each of the nine formats (chat, compatible Responses, Copilot's two,
Azure, Gemini and its relatives, buffered answers), the state its parser keeps and
the canonical events a chunk becomes. `ToolArguments` holds a call's arguments back
until its block ends, by whichever event ends it. The serializers number and open and
close blocks; `ClientMessage` is a client that reads their events by the rules of its
API. `said` is history: what the upstream said. The gateway's steps are a parsed
chunk, a normalized event, a serialized event and the conclusion; the client may leave
at any moment. When the stream was stored, a later request of any dialect, streamed or
not, is answered from it.

`AssistantMessage` is what a client is promised: a message opens, blocks are opened,
appended to and closed, and after the end nothing comes. `ClientSeesOneMessage` is the
refinement: the message the client of `Streams` makes of its events, in every dialect
and from every upstream, implements it.

### Conversations

`Requests` begins with a client of one dialect that asks, is answered, runs the tools
it was told to and sends the results with the whole history, `MaxAsks` times. Before
each turn the upstream may change; so what one format made of an answer is sent to
another. A payload is reduced to the sequence of what was said, by whom, and which
call each result names. `UpstreamReadsTheTranscript` compares the payload with the
transcript; `AnswersComeBack` the client's answer with the upstream's. What a format
cannot carry is stated per format in named parts (section 3).

### Services

* **AsyncWorkers**: managers start, stop and restart a pool while records are
  enqueued; channels are closed and replaced. Both pools of the code share it.
* **ServerLifecycle**: servers register a claim, judge an old one stale, take it
  over, serve, close, are killed; `omnillm stop` waits for the claim to go. Each file
  operation is a step.
* **RedisStore**: commands, the circuit with its probes, `Clear` and `Close`, and an
  outage. Retries of the Redis client are switched off (`server.go:243`).
* **RegistrySaves**: admin operations change the registry and schedule saves; savers
  take a snapshot and write row by row; waiting for saves; crash and restoration.
* **ResolutionCache**: readers load snapshots while writers commit and invalidate;
  tables are version counters; a load may fail. The three caches share the code.
* **TokenRotation**: two processes over one store refresh, lose the endpoint's answer,
  are denied, recover, clear, sign in, restart.
* **Migrations**: the statements of the seventeen migrations, over the databases that
  earlier releases left; a process may be killed between any two statements and run
  again. Jumping to the next version that is not recorded is sound because records
  only grow.
* **CopilotCalls**: a call chooses its endpoint (executor, then adapter), makes its
  URL, its headers, refreshes the token, is sent, and is retried by kind of failure;
  other requests refresh and an operator signs in to another account meanwhile.
* **SignIns**: every way to sign in, creation or renewal, with the reservation of the
  instance, its rollback, the global device flow, the outcome maps, the login flows and
  their polls, older routes, cancellation, deletion. A behaviour has one way to sign in.
  The registry's background save, which is `RegistrySaves`', is done at once.
* **VirtualModels**: two operators' requests write a row and its upstreams, read them
  back, rename, delete; requests to a model take turns. A request to a model takes its
  upstreams as they are; older snapshots are `ResolutionCache`'s.
* **CacheIdentity**: what of a request goes into the key of its answer (`Key`) and into
  the key of its conversation (`AffinityKey`), and when the cache is read and written
  (the bypass header, the operator's setting). Keys are the records that are hashed. Parts
  differ in what they say and in whether they carry a cache marker.

## 3. Runs

| Run | Instance | Shows |
|---|---|---|
| `admission` | 3 requests, 2 slots, interval 2 | spacing, FIFO, exact queue, exact slots; every reservation ends, every slot returns |
| `ratelimit_canceled_grant` | 3 requests, interval 2 | a canceled reservation can be granted (finding) |
| `catalog` | 2 callers, TTL 2, stale limit 3, backoff 2, clock 4, 2 changes | no retired, outdated or overaged answer; coalescing; `Get` returns |
| `dispatch` | 1 request at a time, 4 instances (Copilot, two others, System One), virtual, aliased, qualified, ambiguous and advertised-with-prefix names, cache of 1 entry, one unstable provider | affinity's bounds (in the type invariant); the fallback leaves nobody out and keeps its order; one doomed call at most; termination |
| `dispatch_concurrent` | 2 requests, 2 instances, both unstable, 2 names, cache of 1 entry | a pinned conversation returns to its server |
| `dispatch_isolation`, `dispatch_qualifier`, `dispatch_virtual` | 1 request at a time | three disagreements between the specification documents and the code (findings) |
| `streams` | 9 formats, 3 dialects, 3 chunks before the end, 2 calls (969 thousand states) | arguments stay with their call; a client told of the end has what the upstream sent before the chunk with its finish reason; the cache keeps that and replays it; clients are told to run their tools; the refinement; every stream ends |
| `stream_replay_arguments` | the same | a streamed chat replay loses its arguments (finding) |
| `stream_last_delta` | one chat format | what comes in one chunk with the finish reason is lost (finding) |
| `services` | see below (595 thousand states) | one question or two of each service |

Properties of `services`: `AcceptedRecordsAreWritten` (writers), `ServingIsClaimed`
(lifecycle), `ClearForgets` and `CircuitRecovers` (Redis), `RowsFollowTheRegistry`,
`AnswersAreCurrent` (resolution caches), `UpstreamReadsTheTranscript` and
`AnswersComeBack` (conversations), `UpgradesLoseNothing` (migrations),
`CopilotCallsAreSound`, `SignInsAreWhole`, `VirtualModelsAreWhole`,
`AnswersKeepTheirQuestions` (keys), `NoLiveTokenRetired`, and `WaitsReturn`: whoever waits, for writers, saves, the Redis
loop or a stopping server, returns.

Bounds, and why they are enough. Three requests let one cancel in the middle of
a queue while another arrives; two ticks tell "not yet due" from "due" and
"just granted". In `catalog` two callers suffice for coalescing, for waiting on
an overtaken discovery and for two discoveries of different versions; the
durations let last-good data be published just before it is too old and then be
asked for during its backoff; `MaxEpoch` allows a replacement after a refresh or a
failure. In `dispatch` the requests that came
before are remembered in the affinity cache, the cursor and the registry, so
that sequences of requests are covered with one request slot, and the second run
adds interleaving. `OrderBound` forbids expiry while the eviction queue is
longer, because every expiry and re-recording lengthens it; one stale place is
enough for the double-eviction case. A cache of one entry makes every second
`Record` evict. In `streams` three chunks let two calls interleave and a text come
between or behind. In `services`: three managers let one restart between two others'
steps; two records over a buffer of one make an enqueuer meet a full and a closed
channel; three servers make a takeover hit a claim that is newer than the judged one,
and one stopper meets all of them; two Redis callers beside two entries that are there
already and one outage let a late result meet a probe; two savers and two changes over
two instances let two snapshots cross, with one admin request beside them; a load of
either of two readers overlaps one write, before or behind its commit; three tokens are a
rotation by each of two processes, in either order, or two by one of them; two turns carry an answer of one format to another
(four were simulated); releases 0, 4, 7 and 12 stand before and behind the rebuild,
at the request log's change and before the last fills, with one kill per behaviour;
two accounts, one of an enterprise, with one foreign refresh, and one fault of each kind
per call; two sign-ins, numbered as they start, over two instances; two operators'
requests, numbered as they start, and lists of up to two upstreams over three ids; two
requests of up to two messages of two parts, the second like the first but for one thing,
and one switch of the setting. What registry, resolution
caches and tokens promise is proved for any number of requests, writers and tokens
(section 4).

Fairness. A goroutine that can run is run (weak fairness of each `Step`), and in
`Admission` time passes. That a fetch or an upstream call ends is part of it:
the HTTP clients have timeouts. Nothing makes clients call or leave, operators
act, or (in `CatalogCache` and `Dispatch`) time pass. In `Step` of `Dispatch` a
call may end in any of its ways and no fairness prefers one, so that
`EveryRequestEnds` does not rely on providers that answer. In `Streams` only the
gateway's steps are fair: the upstream may fall silent, which its timeout ends as a
hang-up does. In `Services` a pool's step, a process's step, a registry's step and a
Redis command's are fair, as are the store's loop, its cool-down and its close;
nothing brings Redis back, nothing makes an operator act. A behaviour is of one service,
so that one formula serves the first of each. Resolution, tokens, conversations,
migrations, Copilot, sign-ins, virtual models and keys are checked for safety only.

TLC's symmetry is used only in `dispatch_concurrent`, which checks invariants. In
`services`, where liveness forbids it, actors that are alike (managers, readers,
admin requests, saves) take the first free place or number instead. Every
run but `services` checks deadlock; what keeps a finished instance moving is the clock
in `Admission` and returning callers in the other modules. The services come to rest
when their callers are through.

### What the properties except

A property that speaks of races which the code does lose would say nothing if it
excepted too much; these are the exceptions, each a history variable in its module.

* `ServingIsClaimed`: behaviours in which a removal hit a claim newer than the one it
  judged (`raced`). The code reads, then removes by name.
* `RowsFollowTheRegistry`: ids whose last writes crossed: a save beside another or
  beside a removal, the priority's read-then-save (`admin_providers.go:797-807`), a
  failed write, a row deleted while its provider was registered again.
* `AnswersAreCurrent`: calls whose load failed. Two calls of one request may see two
  snapshots.
* `ClearForgets`: a save that was given up on and is executed later.
* `NoLiveTokenRetired`: crashes, and the delayed save of a sign-in whose token was
  blanked.
* `UpgradesLoseNothing`: one process at a time until the rebuild is recorded.
* `AnswerArrives`, `CacheKeepsAnswers`, `CallsKeepTheirArguments`: what a chat upstream
  sends in one chunk with its finish reason. It is in the model (`LastChunks`, kept apart in
  `said.last`), and no client gets it: finding 6. What the properties then say of such
  answers is that nothing else is missing from them.
* `ToldToRunTools`: the Responses parsers take tool use from the calls which the completed
  response lists (`openaicompat/responses.go:369-394`), not from those they have announced;
  the modelled upstream lists what it announced.
* `CopilotCallsAreSound`: a token goes to its own host if an exchange of this process has
  reported one for the account and the host has not changed since the URL was made. An
  exchange that reports no host leaves the one that was there (`token.go:94-99`), so that
  after a sign-in to another account the earlier account's host stays (`HostKept` is the slip
  that keeps it even if one is reported). A catalogued model is sent where it is served unless
  another candidate had forced the request to chat completions: the force is in the
  `Extensions` that all candidates share and nobody clears it (`executor.go:102-121`, the
  parameter `left` of `BeginCall`). How it gets there is `dispatch_isolation`'s.
* `SignInsAreWhole`: sign-ins that nobody else disturbed, by signing in to the same
  instance, by a flow of the same name or by deleting it. A creation that failed may find
  its row written again by others' saves, if others have registered a provider under its id.
* `VirtualModelsAreWhole`: requests that crossed another for the same id, and ids whose
  last edit was crossed, failed half-way or came under another spelling (`torn`), until an
  edit that is none of these.
* `AnswersKeepTheirQuestions`: whether a conversation that goes on finds its pin is not
  asked with automatic prompt caching, whose key changes every turn.
* Conversations: words that an answer has after its calls keep their place between a
  Messages client and a Responses, Azure or Gemini upstream only. A chat message has its
  words before its calls by its shape, `SerializeToResponses` writes the message in front of
  all calls (`to_responses.go:136-146`), and `CollectStream` puts Gemini's texts together in
  one block before them; there the order among the words and among the calls is kept, and
  what was said by whom in which turn. Azure drops pictures, and Gemini those of Responses clients that are
  data URLs; Codex sends a system text of its own; Gemini drops system messages
  in mid-conversation; a result's name matters to Gemini only and is missing for
  Responses clients; GLM is not offered its tools after a result.

### Findings

1. A canceled reservation may be granted, since the loop of `CheckAndWait` looks
   at the context only in the `select` (`ratelimit.go:77`), against
   `gateway-api/spec.md:151`.
2. Copilot's single-upstream flags leak to the other candidates through the
   shared `Extensions` pointer (`executor.go:119`), against
   `routing-failover/spec.md:132` and `:92`.
3. `preferAffinityAttempt` runs a conditional attempt first
   (`model_resolution.go:83`), against `routing-failover/spec.md:12`.
4. Affinity never reorders the attempts of a virtual model whose upstreams have
   other names, because pins are written under the upstream's name
   (`chat.go:192`), against `routing-failover/spec.md:161`.
5. A streamed chat request answered from the cache is told of a call without its
   arguments (`to_openai.go:247`), against `cif-translation/spec.md:88-90`. Chat
   streams of upstreams that send a call in one event lose them likewise when the tool's
   arguments are not normalized.
6. What a chat upstream sends in the chunk with its finish reason is dropped by all three
   chat parsers (`openai_sse.go:91`, `copilot/sse_parser.go:77`,
   `openaicompat/serialization.go:453`), is missing from an answer of which the client is told that
   it ended, and from the cached one, against `cif-translation/spec.md:58`
   and `:33`.

### Disagreements met while modelling that have no run of their own

Each is a behaviour of the models (or excluded from them where said); the number of
runs is kept to one per question.

Routing. An ambiguous prefix is refused although the full name is advertised
(`model_resolution.go:105`), against `routing-failover/spec.md:56`.

Streams. Parsers send plainly into a channel of 64 (`openaicompat/http.go:157`,
`shared/openai_messages.go:87`); the normalizer leaves when the request is canceled
(`toolarguments.go:222-226`), and a parser blocked on the full channel never ends,
although `shared/openai_sse.go:14-17` claims that it does (channels are unbounded in
the model). A compatible upstream that hangs up before `[DONE]` after calls is told to
Messages clients as `end_turn`. A Gemini upstream that hangs up is `end_turn` and is cached
as whole, and Gemini's reasons are passed on as they are
(`cif-translation/spec.md:98-100`). `response.incomplete` is not handled; Responses
streams always end `completed`, and an error there emits nothing; an empty first text
delta takes an index without an announcement; arguments that are cut off are cached
empty.

Conversations. Codex drops the client's system text (`codex.go:522`). Chat ingestion
hoists system messages out of the middle (`from_chat_completion.go:110-123`), against
`cif-translation/spec.md:181-183`. Results of Responses clients reach Gemini without
their tool's name (`cif-translation/spec.md:49-50`). Pictures given by URL are lost to Gemini, and their
URL to Anthropic. Azure always sends `tool_choice` "auto". A flat Responses
`tool_choice` is dropped on ingestion (`cif-translation/spec.md:22`), and a nested one is sent to
compatible Responses endpoints. Kimi's thinking models and Copilot's reasoning models
drop the choice.

Lifecycle. `omnillm stop` returns when the claim vanishes, before the old process has
drained its writers and closed the database; `cli-ops-config/spec.md:93-94` and `:327`
say that it waits for the process.

Migrations. Two processes that open a database older than the rebuild (the server and
`commands/debug.go:53`, `commands/sync-names.go:36`) may lose all credentials; the model
excludes it by an assumption in `Open`. `persistence/spec.md:28-35` and `:156-157`
promise that they survive.

Copilot. Within the gateway the executor always disables the retry after a rejected
token (`executor.go:119`), so that one is not refreshed before it is due. The host is
not persisted: an enterprise account uses the public host after a restart, until an
exchange of its token next reports it, against the comment at `token.go:85-90`; and a sign-in to a
personal seat for which none is reported goes on to the enterprise's. The URL is made before
the headers, so that the first call after a failed refresh at boot takes a fresh token to
the public host. A sign-in may be overwritten by an exchange of the account before it.
A Responses-only model that is not known by its name is forced to chat while there is no
catalog, and its 400 is not fallen back from. A retry after rejection may happen once per
endpoint (`providers/spec.md:178`).

Sign-ins. A new Copilot device login through `/providers/login` is never reported
complete: its completion renames the flow, and the status route no longer recognises it
(`admin_provider_login.go:199`), against `admin-api/spec.md:36-39`. Flows that were
canceled or replaced poll on and still register their provider, although the comment at
`admin_providers.go:152-153` and the answer "cancelled" say otherwise. A renewal of Codex
credentials is only in memory (`admin-api/spec.md:41-46`), and a failed save of a device renewal
is reported complete and may bring a deleted provider back. The rollback of one creation
removes the row another of the same id relies on; `NextInstanceID` reserves nothing.
Outcomes of OpenAI sign-ins are kept per instance and consumed by one route only, so that a
later login is told complete by an older one. A denial at Antigravity records no outcome. A
redirect with a foreign state ends the flow that listens. A key renewal whose second save
fails leaves the new key stored.

Virtual models. Two operators' updates may leave the row of one with the upstreams of
the other. A deletion between the two statements fails the second after the first is
done; one before the final read is a nil pointer (`virtualmodels.go:199-200`), which ends
the request only. An update or deletion under another spelling of the id finds the row
but edits upstreams, or deletes, under the spelling it was given: it fails half-way,
or reports a success that changed nothing. A rename of a model that has upstreams always
fails on the foreign key (`init.go:14`), although `admin-api/spec.md:119` promises it, and
may make ids that differ only in case.

Keys. With automatic prompt caching the affinity key covers the messages up to the last
(`affinity.go:115-117`) and changes every turn, although `affinity.go:87-92` promises one
instance for the conversation's lifetime. An explicit marker in an earlier message ends the key
there even so (`affinity.go:118-122`), against `routing-failover/spec.md:146-154`. A marker on a
tool only still puts the whole system text into the key, against the same passage: requests that
differ only behind the last marker should share theirs.

Antigravity's `LoadFromDB` writes maps without synchronisation on every request
(`antigravity/adapter.go`), which no model has.

## 4. Proofs

All theorems are of the form `Spec => []P` (or `Spec => [][A]_vars`), of the module's own
specification and for every value of the constants that satisfies the named
assumptions. These say that bounds are natural numbers, that values which stand for
"none" are none of the others, and, where the code has it so: the pacing interval
(`IntervalAssumption`), the concurrency limit (`LimitAssumption`), the pools' workers
(`WorkersAssumption`), the cache's capacity (`EntriesAssumption`) and the tokens
(`TokensAssumption`) are positive; a server process is no stop command
(`LifecycleAssumption`); what a save stores is not what was stored before
(`RedisAssumption`); releases are among the first seventeen versions or older
(`MigrationsAssumption`); provider ids are finitely many (`RegistryAssumption`); routing
tables have their types, priorities are broken ties, a virtual model has an upstream and
its name is not ambiguous (`RoutingAssumption`); the names of tools and the two special
tokens differ from each other (`CanonicalAssumption`), and the upstream formats are among the
nine (`FormatsAssumption`). TLC evaluates all of them in the runs.
Nothing bounds the number of requests, callers, processes or providers.

Each theorem rests on an inductive invariant (`...Safe`), proved for the initial states
(`...InitSafe`) and for each action by a lemma (`...Step`; in the part about migrations
`MigrationsStart` and `...Keeps`); the comments before its parts
say what each is for. What had to be added to the properties is this.

**AdmissionProofs.** Of the pacer, `SpecSafe` proves one inductive invariant from which the
other theorems follow. `SpacedGrants` is not inductive as it stands: that two
ages are far apart follows from the latest grant being the youngest, so the
invariant ties every age to `sinceGrant`. `NoOvertaking` needs that whoever is in
`ahead` of a waiter and still queued stands before it, and that holds because
`Reserve` appends and `Without` preserves the order of what it leaves; lemmas
about `Without` and about positions in an injective sequence carry that.

Of admission, `AdmissionPaces` is a refinement: every step of `Admission` is a
step of the pacer or leaves it alone. Through it `SpacedGrants`, `QueueIsWaiters`
and `NoOvertaking` hold behind the middleware without a second proof
(`PacingBehindTheLimit`). `SlotsAreHeld`
counts a set of requests, which nothing says is finite; the invariant says it, since every
request inside took one of finitely many slots. That whoever waits in the pacer is inside
bounds its queue by the limit (`QueueIsBounded`).

**CatalogCacheProofs.** The invariant says, of the entry, that its version is
not ahead of the current one, that its catalogs' epochs are at least what its
lifecycle (for last-good data) and its version (for fresh data) promise, and that
a pending entry belongs to a caller that is filling it; of every other caller
that is fetching, that its version is older than the entry's, or that it no
longer owns the entry. `NothingRetired`, `FreshIsNew` and `OneFetchPerVersion`
follow; `StaleIsBounded` follows from how long a filled entry lives compared
with the age of its catalog.

**DispatchProofs.** `FallbackIsComplete` needs that, at every point of a request, each
attempt is still ahead or everybody who may serve it was asked, and each instance that
may serve the current attempt is a candidate or was asked (`NothingForgotten`); these use
that `ByPriority` enumerates its set in the order of the ranks, which is proved by
taking the instance with the fewest before it, not by induction, and that
`PinnedFirst` only moves one of them. `ReturnsToServer` needs that the
pin of a plain name is the server of its last answer until it expires, is evicted or is
overwritten, and that a request for such a name has one attempt. The cache's
bound is part of `TypeOK`: eviction takes the *least* number of queue places that makes
room, and that some number does holds because every cached key is still queued.
`AtMostOneDoomedCall` needs only that a call on a dead context is the last one. `DispatchType`
is stated for itself, because the bound of the cache is in it.

**ServerProofs.** `AcceptedRecordsAreWritten` needs that managers are inside one at a time
and that enqueuers see the newest generation, which is open, or none while a manager is
inside (`CurrentIsOpen`), so that a send never meets a closed channel; and that a worker
returns only from a channel that is closed and empty, so that the end of the wait means
that nothing is left. `ServingIsClaimed` needs what a remover knows: whoever is about to
remove has judged the claim of a process that has ended, or its own (`RemoversHaveJudged`), so that the
removal costs a living server its claim only after it hit another one (`raced`).
`UpgradesLoseNothing` is proved for databases of any releases, any number of openers and any
number of kills. First `TheScript` says of each of the statements of the seventeen migrations
where in the order it stands and what went before it; everything else follows from that table.
The invariant says that what the recorded versions, and the statements a process has run,
did is still there (`EffectsLast`), that the credentials are in the table or all of them in its
copy at every statement of the rebuild (`TokensKept`), and that a process alone with the database is at
a version not yet recorded (`OneAtATime`, `NotYetRecorded`), so that SQLite refuses it no
statement. The proof uses the assumption in `Open`, that the rebuild is not raced, in one place only:
who is at version 5 is alone.

**AccountProofs.** `NoLiveTokenRetired` is an action property. It needs that a process
which recovers was denied its token by the endpoint, and that a token which is dead stays
dead (`DeniedStaysDead`), together with tokens being issued in order: a token that
the process finds instead is another. `CopilotCallsAreSound` needs, at each place of
the call, which retries are used up (`RetriesAreFew`), that a renewal after a rejection
leaves a token that was not rejected (`PassesAreFresh`), and that the host of the URL is the
provider's as long as the provider's host has not moved (`HostIsTheTokens`).

What `SignInsAreWhole` promises of a sign-in depends on what every other may
do to its instance, its object, the one active flow and the kept outcomes, so the invariant
(`SignInSafe`) says it of each of these. `PlacedWell` says of every sign-in, crossed or not, what
it holds at each place; in particular its object is its own, or belongs under the id it signs in
to, and `RegistryKept` says the same of the registry, so that two sign-ins to different ids never
write to one object (`Apart`). `KeptWhole` says of one that nobody crossed that nobody else is
under way at its instance, which is not being deleted, and that what it has stored so far is there:
the row and the credentials from the save on, the object in the registry after it registered, and
after a rollback neither. `FlowKept`, `ResultKept` and `LoginKept` say that the flow and the
outcomes are true of the sign-in they name and that an undisturbed login flow finds no other's
under its name. Four lemmas carry the steps: a step of one sign-in (`StepKeeps`), its beginning
(`BeginsWell`), a client's poll (`PollsKeep`) and a deletion (`DeletionKeeps`); each action is then
shown to be one of them. The proof attempt showed that the property was too strong with three
sign-ins: a renewal that races a deletion registers its provider again, another one's
`Register` saves the rows of all that are registered, and so the row of a failed creation under that
id comes back after its rollback. The code does this by design (the row is that of the provider
that is registered); the property now says so.

**ResponseCacheProofs.** `ClearForgets` needs that nobody is past the lock beside a clear
(`ClearIsAlone`), and that after its empty scan only saves that were given up on can put
anything into Redis (`ScannedIsEmpty`). `AnswersKeepTheirQuestions` needs an invariant that
is soon stated, that everything is filed under the key of the request it is from
(`AnswersAreFiled`, `PinsAreFiled`, `Asks`); the work is in the keys, for transcripts of any length:
that two have one `Key` if and only if they differ in markers only (`KeyIsTheMeaning`), that equal
prefixes end at the same place of what the upstream reads and are read alike up to it (`BoundaryIs`,
`PrefixIsRead`), and that messages without markers which follow leave the key as it was
(`GoingOnFinds`). That a set of numbers has a last one is taken from the theorem about
well-founded relations, which needs no induction of its own. The proof attempt showed two arms of
the `CASE` in `Boundary` that overlapped, which TLC decides by their order and TLA+ does not.

**StorageProofs.** `AnswersAreCurrent`: a valid snapshot has every finished write, and so has
what a load has read so far (`ValidHasFinished`, `LoadHasFinished`), because a write that
finishes during a load makes it invalid or waits for its lock.
`RowsFollowTheRegistry` needs, of every id, that its row is right or somebody is about to
write or delete it (`RegisteredRows`, `UnregisteredRows`), through saves that work on older copies
(`CopiesAreAlone`) and through a restart, in which each row is registered, activated
and saved again (`RestoreFollowsRows`). `VirtualModelsAreWhole` needs that two requests for one id both
know that they crossed (`Apart`), that one which nobody crossed knows what the rows of
its ids are (`Knows`), and that the last turns and the cursor are consecutive around
the list (`TakesTurns`), whose inductive form has no modulo. The proof attempt showed that the
history variable `torn` must be kept per id and not per folded id: with four requests, an
undivided edit of "team" had cleared the mark of a half-failed edit of "Team".

**StreamProofs.** The state of this model is a pipeline, and so is its invariant
(`StreamSafe`): `RequestFine` and `UpstreamFine` of what was asked, said and parsed,
`ReadyFine` of the events that are under way, `HandlerFine` of the serializer and the
accumulator, `ClientFine` of what is on the wire and what the client made of it, `StoreFine` of
what is stored. Each stage is shown to keep its own part if the part before it is so, for
every format and every dialect, and an action is then the stages that it runs.
`StreamsKeepTheirTypes` is the type invariant. `ClientsRunTheirTools` follows a call from the
chunk that brings it to the reason the client is told: a parser that saw a call is upgrading
its reason, or the upstream gives the right one itself, and a client that has a
call has it from an announcement (`Verdict`). `OnlyFinishedAnswersAreStored` says of the upstream what the
first part of `OnlyWholeAnswersAreCached` says, and `EndsAreTheUpstreams` what the first part of
`AnswerArrives` says: a stream that is not `messages`' ends for the client only if the upstream
ended it; both follow from where a `stream_end` in `ready` can come from (`Finished`).
The normalizer folds over the events of a chunk, and flushing over its buffers. What holds
of every element of such a fold is proved by running the fold from the left, with the
theorem about well-founded relations in the place of an induction. The proof attempt showed
two `CASE`s with guards that overlapped (`ChatDelta`, `BodyEnded`), which TLC decides
by their order and TLA+ does not.

Only model-checked: `CallsKeepTheirArguments`; that an answer is whole (the parts of
`AnswerArrives` and `CacheKeepsAnswers` about texts and arguments); the refinement of
`AssistantMessage`; the conversation modules; `ServicesTypeOK`, which
joins the services' type invariants (those of the services named above are proved along with
their theorems); and liveness everywhere (`SlotsComeBack` with `EveryReservationEnds`,
`EveryGetReturns`, `EveryRequestEnds`, `StreamsEnd`, `CircuitRecovers`, `WaitsReturn`),
which is out of the prover's reach, as is `ENABLED`. What the conversions of `Ingestion` and
`Payloads` (folds over a transcript) compute for every input would need induction over data,
which is out of its reach too.

## 5. What is left out

* `RateLimiter`: a non-positive interval, which turns the pacer off; the refusal's
  wording and estimate (`nextAvailabilityLocked`).
* `CatalogCache`: several keys (they share only the mutex); copies; a fetch that
  panics; catalogs of providers that manage their own.
* `Affinity`: keys are abstract there, one conversation told apart by model names;
  how a request becomes a key is `CacheIdentity`'s. Hit counters and disabled
  affinity. That a stale place evicts an entry which is not the oldest is modelled
  and not judged: the comment at `affinity.go:50` calls it pruning.
* `Dispatch`: random and weighted strategies (each only changes who comes first),
  a virtual model without upstreams, the Alibaba mode filter, a candidate whose
  adapter is missing, providers whose catalog cannot be fetched (`Catalog` is
  fixed), body parsing, the response cache in front, manual approval, SSE after
  the stream has started (a started stream is a success to the failover; the stream
  itself is `Streams`').
  An adapter that gives up before it sends anything (no token, a request it cannot
  translate) on a canceled context is not a call and is left out.
  Preparation of an attempt is one step: what may change between reading the
  registry and looking up the pin may as well change after it.
* `Streams`: malformed chunks, usage, signatures, pictures in answers, the Claude Code
  policy of the normalizer, and bodies that hold nothing but `[DONE]`.
* Conversations: sampling parameters, headers, metadata, Kimi's
  `EnsureReasoningContent`, and texts that are more than a name.
* `RedisStore`: the deletion of corrupt entries; statistics are a read.
* `CacheIdentity`: settings one by one (they enter the key alike), requests that fail to
  serialize, a hit that fails to serialize, and a switched-off `IncludeUserID`.
* `RegistrySaves`: registration of an id that is there, which leaves the primary pointing
  at the old object (`registry.go:58-63`); renaming, which has no caller; the default
  providers; two operators' priorities. At start-up a snapshot taken between a
  registration and its activation stores the second provider inactive, and a crash then
  loses that activation: this is in the model, as crossing writes.
* `Migrations`: indexes but the one that needs a column.
* `SignIns`: the exchanges and forms; the wait for the callback listener's lock, which has
  no timeout; that the start routes do not check the provider's type.
* Not modelled at all: metering queries, CLI output, the log stream, chat sessions,
  settings, tool-loop logging, frontend and desktop shell: I/O, layout or single SQL
  statements without an order to get wrong.
* Everything listed as not modelled in `PROJECT.json`.

## 6. Plan

Done: all of the modules above, with the proofs of section 4. To prove next: that each
serializer's step is one of `AssistantMessage`'s or a stutter, which needs that a client
and its serializer agree on the blocks that are open; and, on the same footing, that
texts arrive whole.

To model next: the TTL cache of the models.dev catalog, log subscribers, manual approval,
and bounded channels between parser and normalizer.
