# A TLA+ model of temporal-cpp

temporal-cpp is a C++ SDK for [Temporal](https://temporal.io): a program links it to
*start* workflows on a Temporal server (the client) and to *run* them (the worker). A
workflow function is ordinary code whose progress survives the death of the process
that runs it: the server keeps a history of events, and a worker that does not have the
function's state in memory any more runs the function again from the start, feeding it
the results the history holds, until it is where it was. This project models that
mechanism and what it stands on, checks it with TLC and proves part of it with TLAPS.

Paths below are relative to the repository (`src/internal/...`, `include/...`); in
PROJECT.json they carry the prefix `src/`.

## 1. The system

### Components

| component | state | operations | hard behaviour |
|---|---|---|---|
| **History** (server; `Prescan`, `determinism.h`) | a sequence of events | scan into lookup tables; match the commands of a replay with the recorded ones | events come in any order between two tasks, and while a task is worked on |
| **WorkflowRunner** (`workflow_task_handler.cpp:390-1560`) | futures by kind and call order, signals, versions, side effects, commands of this task, commands of this replay, the suspended function | the SDK calls of a workflow function; `Run` (replay), `ApplyAndResume` (new events), `ReapplyHistoricalUpdates`, `CheckDeterminism` | the live run and a replay go through different code and must agree |
| **WorkflowTaskHandler** (`:1610-1987`) | sticky cache of runners, registry | `Handle(task)`: cache hit, cache miss, replay, determinism check, updates, queries, response | lost answers, retries, eviction, restart with other code, pages, deadline |
| **Coroutine** (`coroutine.{h,cpp}`) | turn, done, abort, abandoned; a thread | `Resume`, `ResumeFor`, `Yield`, `Abandon`, `Done`, destructor | two threads and one condition variable; teardown of a suspended body |
| **WorkerImpl** (`worker_impl.{h,cpp}`) | poller threads, `ConcurrencyGate`, `PollerScaler`, `RateLimiter`, `stop_`, `draining_` | poll loops; `Start`, `Run`, `Stop` | many threads, parking and waking, shutdown at any moment |
| **LruCache** (`lru_cache.h`) | recency list and index | `Get`, `Put`, `Erase` | eviction destroys a runner under the mutex; handlers use what they looked up after the unlock |
| **GrpcClient** (`grpc_client.{h,cpp}`) | channel | one RPC per method; deadlines | a call fails before or after it took effect |
| **Client**, **WorkflowHandle** (`client.cpp`) | the run a handle names | start, signal-with-start, result, signal, cancel, terminate, update, query, reset; schedules, activity completion | a result is waited for along a chain of runs that changes meanwhile; answers without an outcome |
| **DataConverter**, codecs, **FilePayloadStorage** (`data_converter.{h,cpp}`) | converter stack, codec chain; files by content | encode, decode; `Store`, `Resolve` | what one peer encodes another decodes; files shared by threads and processes, written and read in pieces |
| **ActivityTaskHandler**, **activity::Context** | registry, last report, cached cancel state, async flag | `Handle`, `RecordHeartbeat`, `defer_completion` | throttle against timeout, late cancellation, lost answers, attempts that outlive their timeout |
| **Nexus handler** | registry | `Handle` | lost answers |
| **Sessions** (`worker_impl.cpp:74-105`, `context.h:96-127`) | slot counter, a queue named by a fresh uuid | create, complete | retries of an attempt that took or gave back a slot, restart of the host |
| interceptors, tracing, logging, metrics, options | none that the run depends on | pure conversions, call-through | - |

### How they interact

A poller thread (Worker) long-polls the server. For a workflow task it calls
`WorkflowTaskHandler::Handle`, which takes a runner from the cache or builds one and
resumes its Coroutine. The workflow function runs on the coroutine's thread and calls the
runner's methods directly (`WorkflowOutbound`); a call that has to wait yields the turn
back to the poller thread. The handler collects the runner's commands and answers the
task; the server turns the commands into events, and each later event (an activity ended,
a timer fired, a signal came) makes another task. The shared state is: the runner (poller
thread and coroutine thread, by turns), the cache (all poller threads, `cache_mu_`), the
gates and scalers (all poller threads and `Stop()`).

### What makes the components correct

- *History, runner, handler*: whatever is lost, repeated, evicted or restarted, nothing is
  scheduled twice; a replay by the same code issues the recorded commands, sees what the
  live run saw and ends in its state; the incremental path leaves the futures as a scan of
  the history would; signals are received in order; other code is stopped before it takes
  over operations it does not own; a run that can finish does.
- *Coroutine*: one side runs at a time; a resume is a procedure call; teardown ends and
  frees nothing that is in use; a stuck function does not hang the worker.
- *Worker*: counters are exact, no poller sleeps while it should work, `Stop()` returns and
  nothing is dispatched after the drain.
- *Activities*: a function that heartbeats is not timed out and sees its cancellation; the
  server is told what the function did; a deferred activity is left to the client.
- *Sticky cache*: it is bounded; a runner is resumed where it stopped and by one handler; one
  whose function is stuck is never freed; queries see at least the last completed task; no
  handler waits for ever.
- *Client*: `Result()` returns the end of the chain it was called for, and returns; an update
  that returned was applied.
- *Payloads*: the receiver gets the value that was sent, through the file store as without it;
  a reference that was given away resolves.
- *Sessions*: no worker has more than its limit; slots come back; completing ends.

The hazards behind these properties, each at its line, are listed in PROJECT.json.

## 2. Modules

| module | models | composed of |
|---|---|---|
| `WorkflowHistory` | events, `Prescan`, `RecordedCommands`, `IsDeferredOnReplay`, `MatchReplayCommands` | - |
| `WorkflowRunner` | the class `WorkflowRunner`: a record, its methods operators on it | extends `WorkflowHistory` |
| `WorkflowTaskHandler` | `Handle`, the sticky cache entry, the server and its clients; the specification of the system | extends `WorkflowRunner` |
| `MCWorkflow` | workflow functions for the model checker | extends `WorkflowTaskHandler` |
| `ResumeContract` | abstract specification: a resume is a procedure call | - |
| `Coroutine` | the class `Coroutine`, two threads | refines `ResumeContract` |
| `Worker` | poll loop, `ConcurrencyGate`, `PollerScaler`, `RateLimiter`, `Stop` | - |
| `ActivityTask` | `ActivityTaskHandler::Handle`, `activity::Context`, `CompleteActivity`, `FailActivity`, the server's timers and retries | - |
| `StickyCache` | concurrent `Handle` calls: `LruCache`, `cache_mu_`, the lifetime of runners, queries, `BuildRunnerForQuery` | abstracts a runner of `WorkflowRunner` to its checkpoint |
| `MCStickyCache` | two runs for the model checker | extends `StickyCache` |
| `WorkflowClient` | `Client` and `WorkflowHandle`, several of one workflow id | - |
| `Payloads` | `DataConverter`, the codecs, `FilePayloadStorage` | - |
| `MCPayloads` | values and codec chains for the model checker | extends `Payloads` |
| `Sessions` | `CreateSession`, `CompleteSession`, the session activities | - |
| `WorkflowTaskHandlerProof`, `CoroutineProof`, `PayloadsProof`, `WorkerProof`, `SessionsProof`, `StickyCacheProof`, `ActivityTaskProof`, `WorkflowClientProof` | lemmas and theorems | extend the modules they are about |

Definitions marked `Mutant:` in a comment are deliberately wrong variants of the definition
that follows them. No specification uses them; PROJECT.json names, for every property, a
mutant under which TLC finds the property violated.

Every module has a type invariant `TypeOK`. It is among the invariants of `pool` and `sessions`,
where it bounds counters; elsewhere it is documentation of the state, and holds when it is added
to the runs.

### History

An event is a record: type, command kind, id, a number, a name and a data value. Its event
id is its position. Commands become events of type `Command` whose kind is the command's, so
`Scheduled`, `TimerStarted`, `MarkerRecorded` and the like are one type with a kind.
Payloads are members of small sets (`Values`, `Outcomes`); names of activities and children
are members of `Types`. The lookup tables of `Prescan` are operators that select positions
(`Schedulings`, `Resolutions`, `Markers`, `ScanSignals`, ...). `MatchReplayCommands` compares
kind, id and name as `SameCommand` in `determinism.h` does.

### Runner

The workflow function is deterministic by contract, so its suspended stack is represented by
what the SDK has returned to it so far, `obs`, and the constant operator `Body(prog, obs)` is
the call it makes next. A replay starts with empty `obs`; two runs of a program are at the
same place exactly if they have made the same observations. `SideEffect`, local activities
and `MutableSideEffect` run user code that need not be deterministic: the live result is
chosen from a set. A local activity of a type that nobody registered throws instead
(`LocalErrors`), after its command was counted and before a marker is emitted.

A cursor into recorded calls (`side_effect_seq_` and its relatives) is modelled by the set of
recorded calls not yet consumed. `ApplyEventsAt` applies a set of events at once; only the
last that touches a future counts, which is what the loop over `ApplyEventToState` leaves. What
is scheduled already is known from the prescan, for Nexus operations also from the events
applied since (`OpKnown`).

### Handler, server and clients

`pc` follows `Handle`: `polled` (task received, history assembled), `body` (the function
runs), `parked` (it yielded or ended during a replay; timeline steps and the determinism check
are next), `respond`. A sticky task applies its events and goes from `body` to `respond`
directly. The cache shares its runner with the handler in the code; here `cache` is written
when `Handle` ends, which no one can see earlier since one task of a run is worked on at a
time.

Faults, bounded together by `MaxFaults`: the answer of a task is lost before or after the
server took it, the function overruns the deadlock timeout, the cache entry is evicted, a
sticky task is not taken in time, the worker restarts, with the same or other code
(`Upgrades`), at any point.

The server is external and modelled by what the handler relies on: one task of a run at a
time; events that arise while a task is started are buffered and appended after the task's
own; the first failed attempt leaves a `WorkflowTaskFailed` event, later ones leave no trace;
a failed or timed-out task is sent again with the whole history; a completed task's commands
become events in order, then its updates, then the terminal command; a run is not closed over
events the worker has not seen (the answer is refused); the cancellation of a timer that has
fired is accepted.

Assumed of the application: update handlers are registered before the first wait and issue no
commands; one signal name; child workflow ids generated by the SDK. Queries are in
`StickyCache`.

### Sticky cache

Several pollers are in `Handle` at once. A runner is its checkpoint (`last_event_id`), since
what a runner is at a checkpoint is the matter of `WorkflowTaskHandler`; whether its function
has returned is given by `DoneAt`. The cache is the position of each run in `order_` and its
value. A handler's place in `Handle` is its `pc`; the sections under `cache_mu_` that destroy
something are two steps, because the destructor of a displaced runner runs before the unlock
and waits for the function to unwind. A function in `Swallowing` does not. References are
explicit: the cache, the handlers' local variables and `g_leaked_runners`; when the last one
goes, the runner is destroyed by whoever dropped it.

The server hands out one attempt at a time and gives up on an attempt after its timeout
without the handler knowing, so two handlers may work on the same run. An attempt that was
superseded before it called `Put` leaves its runner in the cache (`late`): `ResumeFits` and
`QueryFresh` say what holds of all others. `Deadline` says whether a deadlock timeout is set (by
default it is not, and a function that blocks then keeps its handler); a replay that does not
match answers with a failed task or with a failed workflow, as `PanicPolicies` says.

### Coroutine

A critical section of the mutex is one action; `asleep` is the wait set of the condition
variable, `notify_all` empties it, and a spurious wakeup may remove a thread at any time. The
controller is whichever thread resumes or destroys the coroutine. `Swallows` lets the body
catch `CoroutineAbort`, as a `catch (...)` around a wait does.

The object is freed when the last `shared_ptr` to its runner goes, in whatever state it is then;
`refs` says who has one: the handler that replays, the handler of a task or a query that copied it
out of the cache, the cache, and `g_leaked_runners`. `~Coroutine` frees an abandoned object at
once, so that its detached thread depends on the list of leaked runners alone: after a missed
deadline the handler detaches the thread, erases the cache's entry and moves its own reference to
the list, in that order and with queries coming and going in between. The list itself is a static
object and goes when the process exits (`exiting`).

### Worker

One kind of task (workflow, activity or Nexus: the loops have the same steps, the Nexus loop
without scaler). The waits of the gate are guards, since everything they depend on changes
under the gate's mutex and is followed by `notify_all`. The scaler's predicate also reads
`stop_`, which changes without the mutex, so its wait is three steps: test, sleep, wake. The
rate limiter's sleep may take any time. `Stop()` is one action per step, for one or two
callers. A poller that missed the only notify sleeps for good (see below), so
`StopWaitsForSleepersOnly` says that nothing else keeps `Stop()` from returning.

### Activity

One activity, all its attempts. `exec[a]` is attempt `a` in its worker: where `Handle` is, the
RPC it has on the wire, and the members of its `Context`, which are cleared when the function
has ended. An RPC is three steps (sent, arrived, returned), so that anything may happen while
it is under way. `server` is the activity as the server sees it; a call with the token of an
attempt that is not the one started is refused with NOT_FOUND, which `RecordHeartbeat` throws
into the function and `Handle` catches like any exception. The function may heartbeat, defer,
return or throw at any time and may catch what a heartbeat throws. What it throws may be no
`std::exception`: no handler of the worker catches that, and the process ends, with every attempt
that runs in it (`FunctionTerminates`).

Clocks are ages that `Tick` advances together, and `Tick` waits for what is due: the function's
next heartbeat (`Gap`), a call's arrival and return (`Latency`), the start of a polled task that
waits for a permit (`Wait`), the server's timer. The throttle's clock stops at the interval,
beyond which it makes no difference.

### Client

`runs` is the chain of runs of one workflow id at the server: each ends completed, failed or
continued as new, and may have a successor (continue-as-new, a workflow retry, or a later
start or reset, which is no successor of any). A handle is the run it names, 0 for the latest.
`Result()` is a loop of long polls: the poll is sent for a target, and is answered by the
close event, by nothing (the deadline of a poll-flagged call is an empty response), or throws.
Without a run id the target is worked out anew for each poll: `unsure` marks a `Result()` that
came to another run that way. `Update()` is one request with an id of its own, so that a run
knows which of a client's updates it has admitted and applied; it is answered with an outcome,
without one, or refused. `Signal`, `Cancel`, `Query` and `Describe` change nothing here.

### Payloads

A value is a kind and its serialized form, a sequence of bytes; a payload is its bytes with the
metadata the code reads: encoding, codec marker, length, reference. The converters are tried
in order, the encoding chooses the decoder. Base64 is computed as in the code, shift by shift,
on an integer of 16 bits (the code never reads more of its `int`, which overflows); zlib is a
bijection with a header that refuses a body of another length. A codec of the application
has a marker of its own.

`Store` opens and truncates the file, writes it in two parts, and returns the reference; the
first part of a read and the rest are two steps as well. Names of files are the bodies
themselves: collisions of the 64-bit hash are left out. A store may be cut short (an error, a
dead process), a file may be lost. A receiver's `calm` says that no `Store` of the same body was
under way, or had been cut short, when it read.

### Sessions

The creation and completion activities are attempts at a worker: polled (creation by any
worker, completion by the incarnation that listens to the queue), the counter loaded, exchanged
or found full, answered. Loading and exchanging are separate steps. An answer may be lost, and
the server runs the activity again; `creation_timeout` is both timeouts of the creation; a
worker that restarts has a new queue and a counter of zero. Ghosts count what no workflow can
undo: releases by a completion that had run before (`again`), slots of lost or late answers and
of workflows that ended without `CompleteSession` (`stray`).

## 3. Runs

Bounds: one run of a workflow, functions of six to thirteen calls that between them use every
call of the SDK the model has, at most two signals, two updates, one cancel request, one fault
(two in `redeploy`, so that a restart with new code can meet a second failure). One fault at
any point is what it takes to separate the live path from a replay; a second one meets a state
that the first has already made a replay of.

`activity` has two attempts, so that one that was given up meets its successor, and a heartbeat
timeout of 10 ticks, the smallest in which a gap and a latency of one tick fit into the
throttle's headroom, or none; one fault.

`turns` has five hand-overs: enough for a replay, a sticky task and a resume that misses its
deadline while a query holds the runner, and for the teardown.

`cache` has two pollers, a cache of one entry and two runs, one of which is there to be evicted
and not to unwind; the tasks of the other have three attempts: one to be cached, one to be given
up while it is handled, and its successor. Five runners are as many as the two calls, the cache
and the leaked ones can hold. `client` has two clients of three calls each, one update and three runs: a
chain, and a run beside it. `payloads` has bodies of every length modulo three, those that
`Base64IsStandard` looks at included, a text and its prefix, and three threads, two that store and
one that resolves. `sessions` has one slot on
each of two workers for three workflows, and two faults: a lost answer can meet a restart.

| run | what it shows | distinct states |
|---|---|---|
| `replay` | nothing is scheduled twice, replays by the same code issue the same commands and see the same values, futures follow history: operations awaited out of order, a compensation on failure, Nexus and child operations, cancellations racing completions, all kinds of markers, a local activity nobody registered, fire-and-forget commands | 342,000 |
| `messages` | a replay sees signals and updates where the live run saw them; the Nth receive gets the Nth signal; a run whose clients have sent what it waits for closes | 229,000 |
| `redeploy` | other code never answers a task while history holds an operation it does not own, under both panic policies, with the type missing, and back again | 195,000 |
| `turns` | turn-taking, no use after free whoever drops the last reference, refinement of `ResumeContract`, resume and teardown end | 981 |
| `pool` | gate and scaler counters exact, parked pollers woken, no dispatch after the drain, and `Stop()` waits only for a poller that missed its wakeup (limited gate, rate limiter on, two scalable pollers) | 146,000 |
| `activity` | heartbeats and cancellation arrive in time, failures and completions are real unless a call was lost, a deferred activity is not answered for | 1,404,000 |
| `cache` | the cache is bounded, runners are resumed at their checkpoint by one handler, abandoned ones stay alive, queries are fresh, `Handle` returns unless a function does not unwind or blocks a query's rebuild (both panic policies, a deadlock timeout set) | 417,000 |
| `client` | `Result()` ends with the end of its chain and moves the handle there, it returns once the chain has ended | 1,253,000 |
| `payloads` | values decode to what was sent and, through the store, as they would without it; references resolve; base64 is RFC 4648 | 263,000 |
| `sessions` | the limit holds but for retried completions, slots return but for stray ones, `CompleteSession` returns while its host lives | 404,000 |

### Where the code does not do what it says

Two runs expect a violation; the findings in PROJECT.json quote the statement that TLC refutes.

| run | what happens |
|---|---|
| `v_select` | a `Selector` over an activity and a timer picks another case on replay: the prescan has resolved both |
| `v_query` | a query reads the cached runner while a task on another poller resumes it |

More are reached by changing a run. About replay:

- `PageSize = 3` and `PageDeadline = TRUE` in `replay`: a history page that hits the deadline is
  taken for the last one, and the rest is scheduled again, against `NoDuplicateSchedules`, or an
  event is never seen and the run stops, a deadlock (`grpc_client.cpp:63`;
  `workflow_task_handler.cpp:1696`, "Assemble the full history before replaying");
- `Programs = {"twice"}` in `v_select`: a second `GetVersion` of one change id produces a marker
  on replay that was never recorded (`workflow_task_handler.cpp:902`, against
  `versioning.md:65`, "On every **replay** it reads the recorded number back from that marker");
- `Programs = {"config"}` in `v_select`: an unchanged `MutableSideEffect` leaves no marker and
  its function runs again on replay (`workflow_task_handler.cpp:950`, against
  `context.h:260`, "On replay the recorded value is returned without running `fn`");
- `Programs = {"hasty"}` in `v_select`: a cancel in the task that schedules the activity is
  dropped live and produced on replay (`:770`, against `future.h:27`, "Deterministic: it emits
  a cancel command the workflow must reproduce on replay");
- `Programs = {"fallback"}` and `LocalErrors = {"NotRegisteredError"}` in `v_select`: a function that
  goes on after a local activity of an unregistered type cannot be replayed, since the call counts
  a marker it does not emit (`:974`, `:993`, `:998`, against `context.h:295`, "recording its result
  as a marker").

About threads and shutdown:

- `Swallows = TRUE` in `turns`: the `catch (...)` of `CompleteSession` (`context.h:125`) swallows
  the teardown and the destructor waits for ever, against `TeardownEnds` (`architecture.md:101`,
  "to unwind it cleanly");
- `LeakedForever` in `turns`: the exit of the process destroys the list of leaked runners, and with
  it coroutines whose threads still run (`workflow_task_handler.cpp:1616`, `coroutine.cpp:12`, against
  `workflow_task_handler.cpp:1611`, "Keep such runners alive forever (a deliberate leak) so that
  thread never touches freed memory");
- `StopCompletes` in `pool`: `Stop()`'s only notify is lost between a parked poller's test and
  its sleep (`worker_impl.h:209`, against `worker_impl.cpp:201`, "Wake any scalable poller
  parked in PollerScaler::Acquire() so it sees stop_"); without scalable pollers it holds;
- `Stoppers = {main, run}` and the invariant `JoinedByOne` in `pool`: `Run()`, woken by the flag
  that another thread's `Stop()` has set, calls `Stop()` too, and both join the same thread
  (`worker_impl.cpp:222`, against `worker.h:96`, "call Stop() from any thread");
- `Limit = 0` in `pool`: an unlimited gate ignores `ReleaseAll()`, and a task is dispatched
  after the drain (`worker_impl.h:39`, against `:61`, "Stop blocking future Acquire() calls
  (they return false)");
- `HandlersReturn = FALSE` in `pool`: the drain is bounded, the join after it is not
  (`worker_impl.cpp:222`, against `options.h:182`, "bounds the drain so Stop() cannot hang
  forever");
- `HandlesEnd` without `Jammed` in `cache`: one function that does not unwind, evicted, holds
  `cache_mu_` for ever and with it every handler of the worker (`workflow_task_handler.cpp:1841`);
  without its second excuse: a query's rebuild has no deadlock timeout (`:1606`), and nor has any
  task with `Deadline = FALSE`, the default (`options.h:172`);
- `PageDeadline = TRUE` in `cache`: a query's rebuild from the pages that could be
  fetched answers with older state, against `QueryFresh` (`:1567`);
- `QueryFresh` without `late` in `cache`: a superseded attempt's `Put` replaces the runner of
  the current one, and queries are answered from it until the run's next task (`:1841`).

About activities, sessions, clients and payloads:

- `GapsWithinTimeout` in `activity`, with `Gap = 6`: heartbeats at intervals of 0.6 timeouts; every
  second one is throttled, none makes up for it, and the activity times out (`activity.h:70`,
  against `timeouts-and-retries.md:60`, "the maximum gap allowed between `RecordHeartbeat` calls");
- `KeptAlive` without `a \notin lost` in `activity`: `last_report_` is set before the call, so
  after a report that failed the next one is throttled and comes after the timeout;
- `CompleteEnds` without `HostGone`: the completion waits in the queue of a worker that is gone,
  without a timeout, and the workflow with it (`context.h:121`, against `:114`, "Best-effort —
  swallows failures (the slot is also freed if the worker restarts)");
- `SessionsBounded` without `again`, `SlotsReturn` without `stray`: a completion retried after a
  lost answer gives back another session's slot, a creation retried so keeps one for good
  (`worker_impl.cpp:79-101`);
- the invariant `FailsAtTheEnd` in `client`: `Result()` of a workflow with a retry policy throws
  when its first run fails, though the server goes on with the next (`client.h:45`, "Blocks
  (long-polling history) until the workflow closes");
- the invariant `UpdateApplies` in `client`: the server answers an update that has no outcome yet,
  and `Update<void>` returns as if it had succeeded (`client.cpp:306`, against `client.h:76`,
  "Synchronously send an update and wait for its result (throws on failure)");
- `<<"base64", "gzip">>` among the chains of `payloads`: both codecs keep their marker under one key,
  the second overwrites the first's, and the value does not decode, against `RoundTrip`
  (`data_converter.cpp:298`; `:255`, "so the codec layer composes the gzip codec the same way");
- the invariant `ResolvesOrThrows` in `payloads`: a body stored again is truncated first, and a
  reference given away before resolves, without an error, to an empty or cut body meanwhile, or for
  good if the second store is cut short (`data_converter.cpp:419`, against `data_converter.h:103`,
  "Resolve a reference payload produced by Store() back to its body", and `:127`, "genuinely
  durable").

The passing runs about replay use functions that stay clear of what breaks it, so that what
they say is about everything else; `redeploy` contains those that do not (but `fallback`), since its
property must hold for them too.

### Fairness

- *Workflow* (`messages`): weak fairness of the function's steps, of the handler's, of the
  server's handing out, timing out and ending operations. Failures are bounded, clients owe
  nothing, and the property is conditional on what they have sent. The update handlers of the
  functions do not block.
- *Coroutine* (`turns`): the scheduler runs both threads, and the deadline passes. Nothing is
  assumed of the function (it may never yield), nor that anyone resumes or destroys.
- *Worker*: every poller runs and a long poll has a deadline; a handler returns only if
  `HandlersReturn`. Spurious wakeups are possible and never relied upon. Nobody has to call
  `Stop()`.
- *Sticky cache* (`cache`): the pollers' threads run. Functions may block; the deadlock timeout
  is one of the outcomes of a resume. Nothing is assumed of the server or of destructors that
  wait for a function.
- *Client* (`client`): a poll for a closed run is answered in the end, however many polls came
  back empty. Nobody has to close a run or make a call.
- *Sessions* (`sessions`): pollers and handlers run, the server's timers fire. A workflow need
  not complete its session.

## 4. Proofs

Each theorem holds for every value of the constants that meets the named assumptions of its
module (any functions and upgrades, any number of runs, pollers, clients, attempts and faults,
any limits and pages). TLC finds the inductive invariants true on the instances of section 3.

*Handler and runner* (`WorkflowTaskHandlerProof`; its first part has the lemmas about what each
call does to a runner):

- `TypeCorrectness`: the types of all sixteen variables. The inductive invariant `TypeInv` adds
  that a runner at work is well formed (every index it holds into its history is in range, every
  future the function was given exists) and that a task's bounds lie within the history.
- `SchedulesAreUnique`: no activity, timer or child is scheduled twice, under `PageDeadline =
  FALSE`; the first counterexample of section 3's list shows that the hypothesis is needed. The
  invariant `SafeInv` says why: a runner at work is *accounted* for (each operation in the
  history it has consumed is one the prescan or one of its own futures knows), its uncommitted
  commands are new to the history and distinct, a task that is not a sticky one carries the whole
  history, and a cached runner that the server would still send a sticky task to has seen all
  that was scheduled. When the last fails (a lost answer), the server is not sticky any more and
  the runner is never used for scheduling.
- `OperationsAreOwned`: a runner that answers holds a future for every operation the run has
  started (`NoOrphanedOperations`), under the same hypothesis. `OwnInv` adds that a replay has
  scanned the whole history and that what it produced are calls the function made. The step that
  carries the proof is `CheckedOwns`: a replay that passes the determinism check has made every
  recorded call. No other step could, since new code need not make them.
- `SignalsAreInOrder`: the Nth receive returns the Nth signal, without a hypothesis. `SigInv`
  says that signals are numbered through the history and then the buffer, and that a runner's
  mailbox with what the function has received so far is the part of the history it was given, in
  order; when a replay is past its timeline, or the runner cached, nothing is held back. A cached
  runner that worked on a task whose answer was lost need not follow the history any more: the
  server is then not sticky, and `CacheReceives` does not speak of it.
- `FuturesAreFollowed`: the futures of a runner that answers, or waits in the cache, are as its
  history leaves them (`FuturesFollowHistory`), for every function, redeployment and fault, under
  `PageDeadline = FALSE` and as long as the run has accepted no update. The second hypothesis is
  needed as well: after an update, resolutions are held back for the replay's timeline; new code
  that makes a call later in it than the old code did passes the determinism check, and the
  resolution, delivered when there was no future yet, is not delivered again. `FutInv` says what
  the other invariants do not: an event that resolves an operation comes after the one that
  schedules it, also out of the buffer; timers are cancelled by those who started them; a Nexus
  operation, which is found by counting, is counted by the runner that starts it; and a replay's
  futures are as the prescan has them. The prescan does not look at cancelled timers, so a replay
  follows the history only once the determinism check has shown that it cancelled them again
  (`CheckedFits`). A sticky continuation (`ApplyEventsFits`) rests on the prefix it was cached
  with having the same meaning in the longer history (`BeginsTouching`), a new call
  (`ScheduledLive`) on there being no event about an operation that nobody has started.

*Coroutine* (`CoroutineProof`):

- `TurnsAreTaken` and `TypeCorrect`, from `Handshake`: the turn says how many hand-overs are
  outstanding, and a thread that runs has the turn.
- `FreedAfterExit`: whoever drops the last reference, the object is freed only after its thread has
  left it, or by the exit of the process. It needs `Ownership`: a handler holds the object until it
  has either got the turn back or put it on the list of leaked runners, and once it is there the
  cache leads nobody to it any more.
- `CoroutineImplementsContract`: the refinement of `ResumeContract`, from the same invariant.

*Worker* (`WorkerProof`): `TypeCorrect`, `GateCountsHandlers` and `ScalerCountsSlots` (the two
counters are the numbers of threads they stand for), and `DrainIsFinal` (nothing is dispatched
after a drain that found the gate empty) if there is a limit: section 3 shows what a gate
without one does. The counts are inductive once only surplus pollers use the scaler
(`ScalerUsers`); the last needs that a stopper closes the gate before it drains it and that it
stays closed (`ClosedBeforeDrain`).

*Sticky cache* (`StickyCacheProof`), in two layers:

- `Base` (what each step of a call needs of its state, places of `order_` taken once and within
  the capacity, the mutex held where the cache changes) gives `TypeCorrect`, `CacheStaysBounded`
  and `AbandonedAreKept`.
- `AttemptsFit` and `RunnersHold` give `ResumesFit`, and, if no page fetch hits its deadline,
  `QueriesAreFresh`. Neither is a fact about the cache alone: what a handler looked up under
  `cache_mu_` still holds after the unlock because the server hands a run's events to one attempt
  at a time, and attempts it has given up differ from the current one in token and in where their
  events begin (`AttemptsApart`). `RunnersFit` ties each runner to the attempt that may advance
  it, and the runner in the slot to the last task the server has seen completed.

*Activity* (`ActivityTaskProof`): `TypeCorrect`, `AnswersHold`, `DeferredIsLeftOpen`,
`BeatsArriveInTime`, `CancelIsSeen`. The invariant is about one attempt at a time: what it may
have answered where its handler is (`AnswersFit`), how far the server's timer can be ahead of the
throttle's clock with a call on its way or a report held back (`BeatFits`), and since when a
cancel request can have gone unseen (`SeenFits`). The bounds hold for any heartbeat timeout, gap
and latency; `Headroom`, the condition of `BeatsInTime`, is part of the property.

*Client* (`WorkflowClientProof`): `TypeCorrect`, `ResultFollowsChain`. The
invariant follows a call under way along the runs that continued as new (`CallFits`, `Chain`);
it is kept because runs never go back (`Onward`): none is forgotten, and a closed one does not
change.

*Sessions* (`SessionsProof`): `TypeCorrect` (the counter never goes below zero), `CapacityHolds`,
`SlotsComeBack`. `SlotsCounted` bounds the counter on both sides by the sessions that hold a
slot, up to those given back twice (`again`) and those a lost answer left behind (`stray`);
`AttemptFits` says which workflows these are.

*Payloads* (`PayloadsProof`): `ReferencesAlwaysResolve` and `ResolvedAlike`, for any threads,
values, chains and faults. Of the converters and codecs it is only assumed that they turn values
into payloads (`Encodes`): `ResolvedAlike` compares what a receiver gets through the store with what
the payload itself would have given it, right or wrong, so that what is proved is the store.
`StoreInv` says of a file that no Store left behind that it is never longer than its body, that its
first part is written unless some Store is about to write it, and that it is whole unless a Store is
under way. The middle part is what makes it inductive: a Store that ends while another has just
truncated the file leaves a gap, but then the other has yet to write both parts. It rests on the
name of a file being a function of the body, so that all writers of one file write the same bytes at
the same places. A reader has the first part of the body in hand if the file was whole when it
began, and the rest of it if it is whole at the end; what others did between does not matter.

What the proofs assume of the constants is in the `ASSUME` of each module. Two of these are there
to tell values of the model apart, and say nothing about the program: `"none"` is no worker, and
`"signal"` is no result of an operation.

Only model-checked:

- `ReplayConsistent` and `ReplayRebuildsLiveState`: they depend on the functions, and hold of
  those that `MCWorkflow` gives `replay` and `messages`;
- `FuturesFollowHistory` of runs with updates depends on the functions, too (see
  `FuturesAreFollowed`); it holds of that of `messages` when it is added to its cfg;
- `RoundTrip` and `Base64IsStandard`, and `Encodes`, the hypothesis of the theorems about `Payloads`:
  what a fold over bytes or codecs computes for every input takes induction over data;
- all liveness (`EventuallyClosed`, `ResumeEnds`, `TeardownEnds`, `ParkedAreWoken`,
  `StopWaitsForSleepersOnly`, `HandlesEnd`, `ResultEnds`, `CompleteEnds`): fairness and `ENABLED`
  are outside the proof system's reach.

No module that is proved about uses a recursive operator.

## 5. What is left

The model is as complete as it is meant to be, and the invariants that hold for every function
are proved. What stays with TLC does so for a reason given above: properties of particular
functions, what folds over bytes compute, and liveness. Worth adding one day: an assumption on
`Body` and `Upgrades` under which `ReplayConsistent` can be stated for all functions (no second
`GetVersion` of a change id, no unchanged `MutableSideEffect`, no `Selector` that two cases can
win, no cancellation in the task that schedules), and its proof.

## 6. Not modelled

- *Nexus task handler*: one synchronous call per task, answered before the next poll; its poll
  loop is that of `Worker` without the scaler.
- *C++20 front end* (`coro.h`): suspends through the same calls as `Future::Get`.
- *Interceptors and tracing*: call-through chains and header propagation, which keep no state a
  run depends on.
- *Failure converter*, `proto_util`: field by field copies. `InMemoryPayloadStorage` is a map
  without a lock, "purely a wiring example" for one thread.
- *Offline replay* (`ReplayWorkflowHistory`): `Run` and `CheckDeterminism` on a given history,
  without a server; both are in `WorkflowTaskHandler`.
- *Start()*'s pool arithmetic, the four kinds of pollers side by side (they share `stop_` and
  nothing else), update handlers that schedule or wake.
- *Schedules, visibility, search attributes, task queues*: one RPC each.
- Logging, metrics, the test environment, options and value types: formatting, I/O or data.
