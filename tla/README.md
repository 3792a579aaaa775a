# Verification of pyutcp-lab

TLA+ specifications of the parts of pyutcp-lab in which order, concurrency,
time or failure matter, with TLC runs on small instances and TLAPS proofs for
every instance. `PROJECT.json` is the index: components, runs, mutants, the map
from definitions to source lines, findings, hazards and theorems. Source paths
below are relative to `src/pyutcp_lab/`.

## 1. The system

pyutcp-lab calls tools of remote providers over their own transports. Five
layers: core models and variable substitution, transports, registry, client,
agent. Everything is in one process; no layer persists anything by itself, the
checkpoint of an agent run excepted, which its user may write to disk.

| Part | State | Operations | Talks to | What is hard | What makes it correct |
|---|---|---|---|---|---|
| `transports/pool.py` | per host: `live`, idle list; `_total_live`; `in_use`, `idle_seq` of each connection | acquire, release, discard | factory, scheduler hook | acquire yields before its capacity check; eviction; raising factory; discard asks nothing | counters = open connections, ceilings, nobody shares but after a release of what was given back, LRU eviction, refusal only when full |
| `transports/async_pool.py` | the same, plus one lock and one condition | acquire (timeout), release, discard | asyncio, factory awaited under the lock | who is woken, timeouts that race with it, factory failure | ceilings, no lost task, nothing held after a timeout, everyone served |
| `transports/retry.py`, `async_retry.py` | `_state`, `_failures`, `_opened_at`; attempt counter of each call | allow, record_*, the retry loop | fn, clock, sleep | many callers share a breaker; late answers; retries that wake up in an open breaker | opens for a run of failures, leaves the provider alone while it lasts, recovers, calls end |
| `registry/repository.py` | `_providers`, `_tool_owner`, `_tools` | register (replace), deregister, look-ups | client | providers with tools in common | the three dictionaries agree |
| `registry/cache.py` | ordered dictionary, clock | get, set, invalidate, clear | client | TTL and LRU together | nothing expired is served, the coldest fresh entry goes |
| `client/client.py` | repository, cache, metrics | register, call, call_chain | transports | result `None`, raising transports, stale results | right transport, cached results are answers |
| `agent/orchestrator.py`, `checkpoint.py` | `_completed`, `_pending` | load_plan, step, checkpoint, restore | client, disk | exception in a step, crash, old checkpoint | no step lost, repeated or reordered |
| `client/async_client.py` | semaphore of a gather | call, gather, map_tool | transports, budget | exception or timeout in a batch | at most max_concurrency at once, results in order |
| `transports/websocket.py`, `async_websocket.py`, `ws_protocol.py` | socket, request ids | discover, call, stream, close | server | concurrent receivers, stray and partial frames, overlapping closes | a response reaches its request, no connection is orphaned by a single close |
| `transports/sse.py`, `async_sse.py` | parse buffer, open stream | feed, flush, stream | server | chunk boundaries, abandoned generators | same events for every chunking; stream closed |
| `client/budget.py`, `transports/base.py` | a deadline | check, remaining | chain, gather, transports | a step that ignores it | no read outlasts it, nothing late is given |
| `transports/http.py`, `graphql.py`, `cli.py` and asyncio twins | nothing that lasts; one connection or command for each request | discover, call, stream | server, budget | trickling responses, exceptions and cancellation at any await | reads keep to the budget, the whole response counts, connections are closed |
| `registry/index.py` | postings, tokens of each tool | add, remove, search | - | re-adding, pruning, repeated query words | both maps agree, no empty postings, ranking |
| `agent/history.py` | turns | add | eviction hook | a turn larger than the budget, hooks that add or raise | newest turns that fit, no turn dropped unseen |
| `core/variables.py` | layers of values | resolve | environment | diamonds, self-reference by way of others, escapes | a text exactly when it has a meaning, and errors with a cause |
| `core/config.py`, `core/auth.py`, `client/bootstrap.py`, `__main__.py` | providers, transports, repository | load, client_from_config, validate, list, inspect | resolver, transports, repository | faults late in a document, two entries of one name, two resolvers, failing discovery | all or nothing when loading; each provider through its last entry, with its header |
| `client/metrics.py`, `core/models.py`, `core/schema.py`, `core/errors.py` | counters, records | | | | not modelled, see section 8 |

## 2. Modules

| Module | Models | Composes |
|---|---|---|
| `PoolContract` | the abstract pool: every open connection is idle or lent to one caller, and the ceilings hold | - |
| `ConnectionPool` | `pool.py` | refines `PoolContract` (leased <- lent, spare <- all idle lists) |
| `ConnectionPool_proofs` | theorems on it | - |
| `AsyncConnectionPool` | `async_pool.py` on asyncio's lock and condition | refines `PoolContract` (leased <- what each task holds) |
| `CircuitBreaker` | the breaker's methods | - |
| `RetryingCallers` | `call_with_retry` and its asyncio twin, callers sharing a breaker | `CircuitBreaker` |
| `RetryingCallers_proofs` | theorems on it | - |
| `ToolRepository`, `ResultCache` | the registry | `Lists` |
| `UtcpClient` | `client.py` | `ToolRepository`, `ResultCache` |
| `Orchestrator` | `orchestrator.py`, `checkpoint.py`, process crashes | `UtcpClient` |
| `Orchestrator_proofs` | theorems on it and on the registry inside it | - |
| `WebSocket` | the WebSocket transports, their framing, and the server at the other end | - |
| `FanOut` | `async_client.gather` over one WebSocket connection, with other users of it | `WebSocket` |
| `SSEParser` | the parser of `sse.py`, and what the events of a whole response are | `Lists` |
| `SharedBudget` | budget, deadlines, and the transports that read a response chunk by chunk | `SSEParser` |
| `SharedBudget_proofs` | theorems on it | - |
| `FanOut_proofs`, `AsyncConnectionPool_proofs` | theorems on those two | - |
| `VariableResolver` | `variables.py`: the recursion of `resolve` as a stack, and what a template means | `Lists` |
| `StartUp` | `config.py`, `auth.py`, `bootstrap.py`, `__main__.py` | `VariableResolver`, `ToolRepository` |
| `SearchIndex`, `ConversationHistory` | `index.py`, `history.py` | `Lists` |
| `AgentProgram` | a program that starts up and then keeps an index and a conversation | `StartUp`, `SearchIndex`, `ConversationHistory` |
| `AgentProgram_proofs` | theorems on all of them | - |
| `Lists` | what several of the models do to a list as a whole: select, sum, fold, sort; a step taken again and again | - |
| `Lists_proofs` | what these operators compute; induction and recursion over lists | - |
| `MC...` | instances for TLC | one each |

An operator named `Op_Word` is `Op` with a plausible mistake; no definition
uses it. Each checked property has at least one such mutant that breaks it.

### How state and actions correspond to the code

*ConnectionPool.* A caller gives way only in the scheduler hook, so acquire is
`AcquireIdle` (an idle connection, no hook) or `AcquireMiss` followed, after any
steps of others, by one of `RejectPerHost`, `RejectGlobal`, `Open`, `OpenFails`.
An eviction is part of `Open` and `OpenFails`. Idle lists are sets: list order is
the order of `idle_seq`, so `pop` takes the largest stamp of the host and
`_evict_one_idle` the smallest of all. A caller keeps its handle on what it has
released (`kept`). `LateUse` says whether callers still release or discard by
such a handle: `discard` asks nothing, and `release` looks only at the flag
(`pool.py:167`), so that a late release of a connection that is lent again makes
it idle under its user, and one of an idle connection is refused.

*AsyncConnectionPool.* An action is what a task does between two awaits that
really suspend it. `lockQ` is the FIFO of `asyncio.Lock`, `condQ` that of
`asyncio.Condition`; a notified task must get the lock again before `acquire`
goes on. The factory is awaited with the lock held (`opening`). With a timeout
acquire runs in a task of its own (`starting`) that `wait_for` cancels; a task
cancelled in `Condition.wait` takes the lock again first, and a notification
that it had received is lost with it (Python up to 3.12). A task in `MayCancel`
may be cancelled while its `release` or `discard` queues for the lock
(`CancelReturn`); it is then `gone`, and its connection stays lent for good.

*RetryingCallers.* Asking the breaker and starting an attempt is one step; the
end of an attempt with the recording and the start of the sleep is another.
Time is in ticks; the age of `_opened_at` is kept up to the reset timeout,
`_failures` up to the threshold. An attempt may succeed, raise a `TransportError`
(retried), another `UtcpError` (recorded, final) or anything else (`foreign`,
not recorded). Late answers come in whenever they like. Three histories stand
beside the breaker and are kept from the outcomes alone: `streak`, the attempts
since the last success that ended in a `UtcpError`; `fruitless`, those that ended
in any exception; `calm`, the time since the last failure of such a run.

*UtcpClient, Orchestrator.* One thread: everything before the transport is a
step, everything after its answer another, and only the clock or the end of the
process comes between. `Step` is `Orchestrator.step`, `Call` a direct `call` or a
step of `call_chain`, `Manage` the use of the client's repository and cache.
`Crash` may come at any moment; the next process starts with an empty client and
may `Restore` the last checkpoint. Arguments that fail validation are pairs of a
call and the manual whose schema it does not fit.

*WebSocket, FanOut.* A step is what a task does between two awaits; `place` is
where it waits: `sending`, `receiving`. A request takes its id and its socket in
`Begin`, and the socket to receive from in `Sent`, as the code asks `_socket`
twice. `Receive` is one turn of the loop in `_recv_for` or `stream`; an exception
of `recv`, or the deadline, may come at any time (`RecvFails`). The server
answers requests of live connections in any order, in parts, with errors, and
sends frames that nobody asked for, without end: only what is on the way at a time
is bounded. `Close` and `Closed` are the two halves of `aclose`, of which any
number may be under way: the first asks nothing of other calls, and the second
forgets whatever connection the transport holds by then. The batch adds the semaphore with its FIFO, the future of `asyncio.gather`
and `wait_for`: `BudgetEnds` cancels what is not done, `Unwind` is the end of a
cancelled task wherever it stood. `got` records for whom the server made what a
task was given, `overlapped` whether calls of `aclose` have overlapped.

*SharedBudget, SSEParser.* One operation at a time: `Begin` connects and sends,
`Responded` is the end of `request`, or of the command for a CLI provider,
`Read` and `ReadEnd` are the turns of the read loop, with the deadline check that
comes next (`ReadOn`), `Resume` and `Abandon` what the consumer of a stream does.
`Tick` lets time go by, in `read` up to the timeout that the code passes.
`Leave` is the end of a generator that is left at a `yield`: closed at once when
synchronous, later by the event loop otherwise (`deferred`, `Finalize`); `call`
over SSE leaves its own stream that way. `Buffered` is what `feed` leaves in the
buffer, and a response of white space only is nothing to the CLI transport and
no JSON to the others. A text is a sequence of the symbols that
the parser tells apart. The reference for the parser is `EventsOf`, which goes
through a whole response line by line. Validity of JSON and of manuals is a
choice between `result` and `failed`; characters cut in two are modelled.

*VariableResolver.* Each call of `_resolve` is a frame: the variable whose value
it resolves, the segments not yet matched, the text so far. A template is a
sequence of segments (text, `${NAME}`, `$${NAME}`), as the regular expressions cut
it; a layer maps every name to a template or to `Absent`, so an empty value is a
value. `Literal`, `Substitute` and `Return` are the moves of the recursion; an
exception empties the stack. The reference does not follow the recursion: it is
stated over the graph of which variable uses which (`Needed`, `OnCycle`, `Meaning`).

*StartUp.* `phase` says where the program is: reading the file, loading its
entries, then `inspecting` one or `wiring` and `discovering` them in turn. One
header stands for all the strings of an entry that are resolved, and its
`defect` for whatever makes `_build_provider` raise, by where it is met: `before`
the strings, `after` them, or in the auth (a `KeyError` or an `AuthError`, which
`main` does not catch). `start` holds the document, the sources of values and the
command; the `resolver` that `client_from_config` is given is separate, `<<>>` being
its default. Every string is resolved step by step by `VariableResolver`.

*SearchIndex, ConversationHistory.* `postings` and `toolTokens` are the two
dictionaries, and an added document replaces the tool's old one in both. A turn is its
number and its size; `hooks` counts the `on_evict` calls under way, each inside
the `add` of the one before, any of which may add turns, return or raise, and
`raised` records that one has. Nothing
under `src/` joins the index and the conversation to the client: in `AgentProgram`
only a program without providers goes on to use them (`Running`), which bounds
the state space and loses no interaction.

History variables (marked so in the modules) only record: `outcome` and
`misreleased` in the pool, `last`, `streak`, `fruitless`, `calm` of the retry
model, `overlapped` of the WebSocket, `answers` of the client (an ideal
cache without a bound), `failed` of the orchestrator, `asked` of the resolver,
`discovered` of the start-up, `latest` of the index, `added`, `evicted` and
`raised` of the conversation.

## 3. Runs

| Run | Instance | Checks |
|---|---|---|
| `PoolDisciplined` | 3 callers, 2 hosts, ceilings 2 and 2, 3 connections, 3 releases | `TypeOK`, `Ceilings`, `EvictsOldest`, refinement of `PoolContract` |
| `PoolMisused` | 2 callers that release and discard late | `LoansApart`: only a late release makes two callers share, and nothing idle is in use |
| `PoolPerHostRefusal` | 2 callers, 4 connections | **violated**: a host is refused although it is not full |
| `AsyncPoolSafety` | 3 tasks, 1 with a timeout, 1 that may be cancelled in a release, 2 hosts, ceilings 2 and 2, failing factory, endless use | `TypeOK`, `Ceilings`, `NobodyLost`, `TimeoutEnds`, refinement of `PoolContract` |
| `AsyncPoolServed` | 4 tasks, 2 hosts, ceilings 1 and 2 | `EveryoneServed` |
| `AsyncPoolWrongHost` | the same | **violated**: `NobodyForgotten` |
| `RetryShared` | 3 callers, 2 attempts, threshold 2, window 2 ticks | `TypeOK`, `OpensForARun`, `LeftAlone`, `CallsEnd`, `Recovers` |
| `AgentRun` | 2 providers, 3 manuals with a tool in common, 3 calls, cache of 2 with TTL 2, plan of 2 steps | `TypeOK`, `NothingStale`, `EvictsColdest`, `ServesTheLastAnswer`, `InOrder`, `OnlyFailuresLost` |
| `PlanStepLost` | the same | **violated**: `NothingLost` |
| `FanOut` | batch of 2 calls, semaphore of 1, a reader, 2 connections, 2 closes of each at once, 1 unread frame on each | `TypeOK`, `AnswersAreOwn`, `PermitsKept`, `NoOrphan`, `TimeoutStops`, `NotSkippedAlone`, `CallsSettle` |
| `SharedBudget` | budget of 3 ticks, timeout of 2, 2 operations, 8 responses in every chunking | `TypeOK`, `ReadsInTime`, `ItemsMatchResponse`, `NoneLeftOpen`, `GivenInTime` |
| `AgentProgram` | up to 2 entries for 2 providers, 3 variables in 4 sources, every command; an index of 2 tools and 2 words; 5 turns | `TypeOK`, `ResolvedByReference`, `LoadedAsAWhole`, `CallsReachTheirProvider`, `IndexAnswersForTools`, `KeepsNewest` |

### Bounds and why they are enough

* Pool: two hosts tell "the victim's host" from "the host asked for"; a
  `PerHost` of 2 with `MaxTotal` 2 lets either ceiling be the one that binds;
  three connections and three releases give an eviction, its replacement and a
  release that reverses their order. `MaxConns` and `MaxStamps` bound the two
  counters of the pool, and a run that has used them up stops (deadlock is not
  checked there). The proofs need neither.
* Asyncio pool: nothing is bounded but the number of tasks. Ids of closed
  connections are used again and the release order is kept as a relation, so the
  state space is finite for endless use. In `AsyncPoolServed` each task acquires
  once (`Repeats` is false): tasks that acquire for ever can starve a waiter, as
  `acquire` lets a newcomer overtake a woken waiter. There `MaxTotal` is twice
  `PerHost`, so that the eviction drift described below does not arise. Tasks
  stop when all are served, so deadlock is not checked in the two runs with
  `Repeats` false.
* Retry: a threshold of 2 makes counting matter, a window of 2 ticks and delays
  of 1 to 3 ticks let sleepers wake inside and after it, three callers let one be
  asleep, one late and one on trial. Two attempts a call give every call a last
  attempt and one that is not.
* Agent: two entries and three calls are the smallest cache with an order; with
  a TTL of 2 an expired entry can be more recently used than a fresh one. Two
  manuals of one provider and a tool in common cover shrinking, growing and
  taking over. Two plan steps can be lost, swapped or repeated.
* Fan-out: with one permit the second call waits for what the first one leaves
  behind, in the semaphore and in the connection; the reader makes two tasks
  receive at once, and a close gives two connections. Two calls of `aclose` on one
  connection are the fewest that overlap. `MaxUnread`, one frame on each
  connection, bounds what is on the way and not what is sent: the server answers in
  any order, in any number of parts, and sends what nobody asked for for ever.
  Every task makes one request and stops, so deadlock is not checked.
* Budget: three ticks and a timeout of two make either of them the smaller one;
  the clock goes one tick beyond the budget. Two operations show what the first
  leaves to the second. The responses are: nothing, a newline, an event closed and
  left open, an event of two lines after a comment, superfluous blank lines, and a
  character of two bytes, whole and broken off. The proofs of timing and of
  connections need none of these bounds. The clock stops, so deadlock is not
  checked.
* Agent program: three variables are the fewest for a diamond and for a cycle off
  the path; the values include empty, escaped, chained and cyclic ones, and the
  sources shadow each other. Two entries, of one name or of two, show what a
  second one does to a first, with the fault before, between or behind the strings.
  Each of the five turns may be empty, half the budget or more than the whole of
  it, and each hook may add the next. `MaxTurns` is the only bound inside a
  module; programs end, so deadlock is not checked.

### Fairness

`RetryShared` assumes that time passes, attempts end, sleepers wake and callers
keep calling: the clock and the sleep function are real, transports answer or
time out, and a breaker leaves open only when it is asked. `Recovers` also
assumes, in the formula, that the provider stays well. `FanOut`
assumes that the event loop runs what is ready and that a `send` or `recv` of a
call ends, which its socket, the deadline or the default timeout sees to; nothing
is assumed of the server or of other users. A call without a deadline may be
given foreign frames for ever, each within the timeout of its own `recv`:
`CallsSettle` names that as the one way not to end. The pool's asyncio runs assume
that the event loop runs what is ready (`LoopFairness`), that a holder gives its
connection back some day, and that the factory answers (`FactoryFairness`). The
last is not the pool's to promise: see the note on hanging factories below.

## 4. What the runs show to be wrong

Each of these is a run with a counterexample (`findings` in `PROJECT.json`):

1. `_evict_one_idle` does not lower the victim host's `live`. After `per_host`
   evictions that host is refused, or waited for, for good (`PoolPerHostRefusal`;
   the asyncio pool has the same line).
2. The asyncio pool wakes one waiter, whichever host it wants; a waiter that
   cannot use the connection does not pass the wakeup on (`AsyncPoolWrongHost`).
3. A plan step whose call raises is lost to the run and to its checkpoints
   (`PlanStepLost`).

Seen with the same models, without a run of their own:

* an acquire that finds a connection idle on its return from the hook does not
  take it: it may be refused, open another, or evict that one;
* a late discard counts a connection out twice, after which the pool opens more
  than `max_total`; a late release of a connection that is lent again is accepted
  (`pool.py:167`), and the connection may then be lent to a second caller while
  the first still uses it (`NoSharing` fails alone);
* asyncio pool: a waiter whose timeout strikes after it was notified takes the
  notification with it; a factory that raises after a wakeup wakes nobody else
  (`NobodyForgotten` fails with one host for either); a factory that hangs keeps
  the lock, so that releases hang and a timed-out wait does not end
  (`TimeoutEnds` fails without `FactoryFairness`);
* an attempt that began before the breaker opened closes it with a late success
  inside the window, after which attempts go out at once (`retry.py:11-13` has them
  refused for the whole of it): `LeftAlone` speaks of runs of failures only; an
  exception that is no `UtcpError` is not recorded, while `retry.py:158-160` says
  that every outcome is: `OpensForARun` bounds the state from both sides and leaves
  the runs that contain such an exception free;
* a half-open breaker admits every concurrent caller, where `retry.py:86` has
  "one trial call";
* a tool listed by two providers disappears with the later one, which
  `repository.py:13-14` rules out;
* a cached `None` is never served, and still occupies an entry;
* WebSocket: tasks that receive at once on one connection drop each other's
  frames, so that a call may wait for an answer that has come and gone (this is
  why `NotSkippedAlone` speaks of a lone receiver); a call takes a frame that is not
  the final one for its result, where `websocket.py:9-11` reads up to the final one;
  a frame without an id answers whoever receives it and, being final by default,
  ends any stream; a broken connection stays the transport's until `aclose`; of two
  calls of `aclose` at once, the second forgets, without closing it, a connection
  that was made after the first had returned (`async_websocket.py:137-140`; this is
  why `NoOrphan` speaks of runs without such calls);
* SSE: a chunk that ends inside a character raises, where `feed` retains "bytes
  that do not yet complete an event" (`sse.py:53-55`, and `sse.py:10-12`), so that
  whether a response is read does depend on how it is cut: `ItemsMatchResponse` is
  about what is given, and leaves it free whether the operation returns; the connection of an asyncio
  `call` is closed only when the event loop closes its generator;
* a batch without `return_exceptions` that raises goes on behind its caller's
  back: the other calls are not cancelled, and no budget ends them any more;
* a `release` or `discard` that is cancelled while it queues for the lock never
  gives its connection back, which counts against the ceilings for good;
* credentials: `client_from_config` resolves them by its own `resolver`, whose
  default (`bootstrap.py:58`) knows no sources, so the `${WEATHER_TOKEN}` of the
  README's configuration raises `UndefinedVariableError` unless the caller passes
  another; `inspect` uses the environment alone (`__main__.py:74`), also for what
  `.env` or the document's own variables define;
* `repository or ToolRepository()` (`bootstrap.py:72`, `client.py:45`) replaces an
  empty repository that the caller passed by a new one, as it has a `__len__`;
* a discovery that raises leaves the manuals of earlier providers in the
  repository of a caller who gets no client;
* `main` catches `ConfigError` only: an undefined variable, a cycle, an unknown
  scheme or a missing key of an auth end in a traceback, not in exit status 2;
* `index.py:5-6` ranks by distinct query tokens, where a repeated one counts each
  time (`index.py:120-122`), so that a repeat may turn the order round: the
  reference `Relevance` counts distinct words, and `FindsByReference` claims the
  order only of queries that repeat none;
* `history.py:12` hands turns to the callback "first", where they are removed
  before, and stay so when it raises: `KeepsNewest` claims the cut only of the
  moments when no hook runs and none has raised, and at the others that no turn is
  lost; a hook that adds a turn of more than the budget evicts for ever;
* budget: a request, and the command of a CLI provider, have no timeout, so a
  chain can outlast its budget there (`client.py:124-126` says that it cannot).

## 5. Proofs

TLAPS proves, for every value of the constants:

`ConnectionPool_proofs`
* `TypeCorrect`: `Spec => []TypeOK`.
* `LoansStayApart`: `LoansApart`, for callers that release and discard what they
  like: nothing idle is in use, and a connection that two callers hold is one that
  `release` once took from a caller that had given it back.
* `CeilingsHold`: `Ceilings`, for callers that release and discard only what they
  hold (`LateUse = {}`).
* `OldestEvicted` and `ImplementsContract` under the same assumption.

The inductive invariant is `TypeOK /\ Ownership /\ Discipline /\ Counting`.
`Ownership` adds to `LoansApart` that a connection which is both lent and idle
was released late, and that ids above the counter are unused; without the latter a newly
opened connection could be one that exists. `Discipline` says that the flags are
the loans and no stale handle is about. `Counting` adds that the open connections
are finitely many, without which `Cardinality` says nothing. `EvictionCounts`
and `OpenAfterOpen` are the core: what is left after an eviction, and after the
open that follows it, counted in total and for each host.

`RetryingCallers_proofs`
* `RetryTypeCorrect`: the type invariant. It is inductive only together with
  `SleepersMayRetry`: a caller sleeps only if it has an attempt left.
* `OpensOnlyForARun`: `OpensForARun`. The inductive invariant `CountsTheRun`
  ties the breaker's counter to the runs that are recorded from the outcomes,
  and the state to the counter; neither half is inductive alone.
* `ProviderLeftAlone`: `LeftAlone`. It needs that the breaker is open, or has been
  let half open, with the age of the run's last failure: the guard of `allow` looks
  at its own clock, the property at the outcomes.

`Orchestrator_proofs`
* `AgentRunTypes`: `TypeOK`.
* `NothingStaleEver`: `NothingStale`, whatever manuals providers register. Its
  strengthening says that every provider is registered with a manual of its own.
* `ServedTheLastAnswer` and `ColdestEvicted`: `ServesTheLastAnswer` and
  `EvictsColdest`. `CacheSound` says that the cache and the ideal one hold every call
  once, and that they are in step (`InStep`): a fresh entry is the last answer to
  its call, and fresh entries were used in the same order in both.
* `StepsInOrder` and `LostByFailureOnly`: `InOrder` and `OnlyFailuresLost`, for
  every plan, any crash and any resumption. Neither is inductive alone: the
  invariant `RunInv` says that what is done, in hand and pending is in the plan's
  order and, with what has failed, is all of the plan, for the process and for the
  saved checkpoint.

`AsyncConnectionPool_proofs`
* `TaskTypes` and `NoTaskOrConnectionLost`: `TypeOK` and `NobodyLost`, for any
  number of tasks and hosts, with timeouts, cancelled releases and failing factories;
  in the types, that no counter passes its ceiling.
* `CeilingsHold`: `Ceilings`, and `ImplementsContract`: every behaviour is one of
  `PoolContract`.

The invariant is `Sound == Placed /\ HoldersHold /\ Counts /\ RoomKept`. `Placed`
has `LineUp`: a queue holds exactly the tasks that stand at its places, each
once. `Counts` ties the counters to the open connections; `RoomKept` says that at
most one task awaits the factory and that the room it saw is still there, as
nobody changes a counter without the lock.

`FanOut_proofs`
* `FanOutTypeCorrect`; `NeverOrphaned`: `NoOrphan`; `AnswersStayApart`:
  `AnswersAreOwn`; `NeverSkippedAlone`: `NotSkippedAlone`; `PermitsAreKept`:
  `PermitsKept`; `TimeoutStopsAll`: `TimeoutStops`.

`OneConnection` (until calls of `aclose` overlap, at most one connection is open,
the one at hand, and at most one call awaits its close) gives `NoOrphan`.
`AnswersSound` adds that no two tasks have the same request id and that what the server has to answer, or has sent, was made for
the task that has its id: without that an answer could be taken for another's.
`BatchSound` counts the permits together with the calls that were handed one, and
`Expired` says that what has not ended when the time is over is being cancelled.

`AgentProgram_proofs`
* `StartUpTypes` and `AgentTypes`: the types of resolver, repository and start-up, and
  `TypeOK`. In them, that no variable is on the resolver's stack twice, so that its
  recursion ends.
* `IndexAlwaysMatches`: the two dictionaries of the index agree; with the types it
  is inductive. `IndexAlwaysAnswers`: `IndexAnswersForTools`. `TokensSound` adds that
  the tokens kept are those of each tool's latest document, `ScoreIsRelevance`
  that `search` hits the relevant tools and that, without repeats, the sum it makes
  over the query is the relevance, and `SearchFinds`
  that sorting and cutting give the best hits.
* `ErrorsAlwaysHaveACause`: the invariant `ResolverSound` says that each frame is for
  a variable which the frame below names; a refused chain is then a path.
* `TemplatesResolvedByMeaning`: `ResolvedByReference`. `Grounded` is the set of the
  variables whose values lead to text. The invariant `Placed` says that what each
  frame has put together is the text of a beginning of its template which names
  grounded variables only: a template that is resolved to its end is grounded, so
  it has a meaning (`GroundedMeaningful`) and was given it. An error has a cause,
  and what it is about is needed (`StackNeeded`, `ClosedChain`).
* `LastEntryAlwaysServes`: the part of `CallsReachTheirProvider` about transports
  and manuals. `WiringSound` and `DiscoverySound` state it for the entries met so
  far, `LoadingSound` that these are those of the document.
* `LoadedAsAWholeAlways` and `CallsAlwaysReachTheirProvider`: `LoadedAsAWhole` and
  `CallsReachTheirProvider`. `ConfigSound` says of every entry loaded that it can be
  built and has the header it means, of the resolver what it was asked and for
  whom, and of every transport that it sends what its entry means; `SameMeaning`
  that the layers the code makes of the sources mean what the sources do.
* `NewestAlwaysKept`: `KeepsNewest`. What is inductive is `AlreadyCut`: the code cuts
  before it calls the hook, so the exact claim holds with the types and the count of
  hooks at every moment, and `KeepsNewest` follows. The lemmas are about the suffixes of a list and the sums of their sizes.

`SharedBudget_proofs`
* `BudgetKept` and `NothingGivenLate`: `ReadsInTime` and `GivenInTime`.
* `NothingLeaks`: `NoneLeftOpen`.
These rest on `StepsAreTurns`: each step of a running operation ends it, leaves it,
pauses it or reads on. `ReadsInTime` needs only that the clock is a natural number
besides; `NoneLeftOpen` is inductive. `GivenInTime` adds that something is given only
on the way out of a read, of a command, or from the queue (`GivesOnly`).
* `BudgetTypes`, and `ResponsesDelivered`: `ItemsMatchResponse`. The invariant `Sound`
  says of an operation under way that what the caller was given, the events in the
  queue, the text in the buffer and the rest of the response make up the whole of
  it (`OnTheWay`), however it was cut; `FeedTakes` that `feed` keeps it so.

`Lists_proofs` has no theorem of the system, but what those of `Orchestrator_proofs`,
`AgentProgram_proofs` and `SharedBudget_proofs` rest on. The library's rules of
induction and recursion cannot be used (they take an operator); it states them for a
set, or a function, in place of the operator, and derives them from `SmallestOf`: a
set of natural numbers has a least member. With that, `Only`, `TotalOf`, `Folded` and
`Sorted` are shown to compute what they are meant to, and `IterationSettles` that a
set which only grows within `n` members has settled after `n` steps.

The assumptions are those named in the modules: `PoolAssumption`,
`BreakerAssumption`, `RetryAssumption`, `RepositoryAssumption` and the like; they
say what the constructors of the code require.

Model-checked only: the liveness properties (`TimeoutEnds`, `EveryoneServed`,
`CallsEnd`, `Recovers`, `CallsSettle`), which rest on fairness and `ENABLED` and
are out of the prover's reach. Every invariant and the refinement that a run checks
is a theorem. No module has a `RECURSIVE` operator.

## 6. Plan

1. Done: models of all parts that keep state or decide something, in seven
   compositions; proofs about each of them.
2. Models still worth having: several batches over one client; releases by a task that no longer holds
   the connection in the asyncio pool; a second `client_from_config` on a
   repository in use.
3. Proofs still worth having: what the ceilings still are when callers discard
   late, and what holds of a server that keeps to the protocol (lemmas towards the liveness properties:
   what is enabled when a task waits); abstract specifications of the cache and of
   a connection's requests, with refinement theorems like that of `PoolContract`.

## 7. Running

`tlc -config AgentRun.cfg MCOrchestrator` and likewise for the other runs (module
and configuration are listed in `PROJECT.json`); `tlapm ConnectionPool_proofs.tla`
for the proofs.

## 8. Not modelled

* `core/models.py`, `core/errors.py`: immutable records and exception classes.
  `core/schema.py`: a pure predicate on values, in `UtcpClient` the constant set
  of the calls that do not fit a manual's schema.
* `client/metrics.py`: counters, timers and percentiles that nothing else reads.
* The text formats: lines of a `.env` file, JSON, base64 of basic credentials, how
  a text is cut into tokens, what the commands print.
* `HistoryTurn` roles and `render`, the look-ups of the repository, the properties
  of the pools and the other operations that change no state.
* Threads. The library has no lock outside the asyncio pool, and its synchronous
  parts are modelled as one thread; the synchronous pool's hook is its only
  yield point.
