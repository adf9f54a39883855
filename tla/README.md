# TLA+ models of obd-mcp-server

obd-mcp-server lets an MCP client read diagnostic data from vehicles through a
driver (a simulator, an ELM327 adapter, or a plugin) and keep notes about issues
in a local SQLite file. This directory holds TLA+ modules of its concurrent
core and of what it reads, accepts and publishes, TLC configurations that check them on small instances, and proofs that
TLAPS checks for every value of the constants. Paths are relative to the
repository; `service.py` and the like are in `src/obd_mcp/`.

    tlc -config service_core.cfg MCDiagnosticService     # any run listed below
    tlapm DiagnosticServicePromise.tla                   # and any *Proofs module, and SequenceLemmas

## 1. Inventory

| Component | State it keeps | Operations | Interacts with | What is hard | What makes it correct |
|---|---|---|---|---|---|
| **DiagnosticService** (`service.py`) | `_state`, `_active_operations`, `_cache`, `_vehicle_locks`, `_list_lock`, `_close_lock`, draining futures and fences | `list_vehicles`, `get_vehicle_status`, `read_standard_pids`, `read_dtcs`, `read_ecu_snapshot`, `open_issue`, `get_issue_timeline`, `close_issue`, `close` | awaits the driver and the store; called by every MCP tool | requests interleave at every await; driver calls time out, are cancelled, and drain afterwards; shutdown races with all of it | exchanges with a vehicle exclude each other; shutdown is orderly and final; requests end; tables are bounded |
| **SQLiteIssueStore** (`storage.py`) | the database, `_connection`, `_operation_lock`, `_closed` | `initialize`, `open_issue`, `get_issue`, `append_event`, `get_timeline`, `close_issue`, `close` | worker threads, SQLite, the file system | cancellation while a thread runs; crashes inside a transaction; a second process on the file; wall-clock time | one worker at a time; acknowledged writes are durable; row and events change together; timelines are ordered |
| **Elm327Driver** (`drivers/elm327.py`) | `_connection`, `_connection_poisoned`, `_connection_state`, `_io_lock`, `_closed` | status, PID, DTC and snapshot reads, `list_vehicles`, `close` | worker threads, py-obdii, the serial port | cancellation; failing connects whose cleanup fails too; close between two queries of one read | one thread on the port; no port leaked; queries only over a verified connection |
| **MCP server** (`server.py`) | runtime scope count, `_runtime_finished` | tools, `runtime_lifespan`, body limit, fleet driver | service, store, SDK | nested lifespans, a failing close, several drivers at once | initialized before use, closed once, after the last scope |
| **Simulator** (`drivers/simulator.py`), driver interface, registry | its configuration, a closed flag | reads | the service asks it, and checks its answers like a plugin's | numbers at both ends of their ranges | every answer is one that the service accepts |
| **Policy**, **profiles** (`policy.py`, `profiles.py`) | the registry of loaded documents | authorize, validate, bind to vehicles | service, server | ids and signals that collide across documents and ECUs | nothing is read that is not declared for that vehicle and ECU |
| **Domain models** (`domain.py`), VIN, config | none, but values are shared and mutable | vet what comes in and what goes out | service, server, drivers | values that share or contain themselves, or change once vetted | no VIN or binary data in output; a vehicle's clean metadata is not withheld |
| CLI, scripts | none | start, check | all | pure I/O | - |

Everything but the worker threads runs on one asyncio event loop. Between two
suspension points code is atomic; `_cache_lock` and `_state_condition` are never
held across one, so they are always free when asked for and add no step.

## 2. Modules

    DiagnosticService          the service; INSTANCEs ExclusiveExchange
    ExclusiveExchange          abstract: what the service promises a driver
    MCDiagnosticService        small instances
    DiagnosticServiceProofs    types, operation count, table bounds
    DiagnosticServicePromise   exclusion, shutdown, refinement (EXTENDS ...Proofs)
    IssueStore                 the store; INSTANCEs IssueLog
    IssueLog                   abstract: what the store promises about its file
    MCIssueStore               small instances
    IssueStoreProofs           its safety properties and refinement, proved
    Elm327Driver               the ELM327 driver
    MCElm327Driver             a small instance
    Elm327DriverProofs         its safety properties, proved
    RuntimeLifespan            the server's scopes around one runtime
    MCRuntimeLifespan          a small instance
    RuntimeLifespanProofs      its safety properties, proved
    FleetDriver                several drivers behind one; INSTANCEs ExclusiveExchange twice
    MCFleetDriver              a small instance
    FleetDriverProofs          its safety property and refinement, proved
    ReadPolicy                 what may ever be asked of a vehicle
    ReadProfiles               what is declared for one vehicle (EXTENDS ReadPolicy)
    SimulatedVehicle           what the simulator answers (EXTENDS ReadProfiles)
    AnswerChecks               what the service accepts (EXTENDS SimulatedVehicle)
    PublicValues               what may leave the server
    VehicleRead                one read of one vehicle (EXTENDS AnswerChecks, PublicValues)
    ToolCall                   from the HTTP body to the reply (EXTENDS VehicleRead)
    MCToolCall                 a small instance
    ToolCallProofs             its safety properties, and those of VehicleRead, proved
    SequenceLemmas             lemmas on lock queues and sequences (for three of the above)

`PROJECT.json` maps every definition to the lines it stands for.

### DiagnosticService

A request is a task at one of five places (`pc`): *idle*, *ready* (about to do
its next `_cached_call`), *queued* for a lock, *calling* the driver, *storing*.
What the operations have in common is `_cached_call`; they differ in which
calls they chain (`NextKey`: the vehicle list, then the status, then the read)
and under which conditions (`ScopeAllows`: the protocol scope;
`GoesToStore`: `open_issue` once the vehicle is known).

| Code | Model |
|---|---|
| entering and leaving `_operation_guard` (104-116) | `Accept`, `Leave` |
| `_cached_call` up to the lock (166-175) with `_vehicle_lock` (118-134) | `BeginHit`, `BeginFree`, `BeginWait`, `BeginLimit` |
| waking up with the lock; second cache check; `_driver_call` (175-199) | `Acquire`, `Enter` |
| the driver's coroutine ends; the caller resumes; the answer is validated and cached | `DriverFinish`, `CallReturns` |
| timeout, cancellation, `_track_draining_driver_future` (196-218) | `CallTimeout`, `CancelCall`, `GiveUp`, `CancelWait` |
| the done-callback `consume` (220-227) | `Consume` |
| TTL expiry (136-139) | `Expire` |
| `close()` (770-801) and its two concurrent halves | `CloseCall` ... `CloseAbandon`, `DriverCloseStart`, `DriverCloseDone`, `StoreCloseDone` |

Abstractions, and why they are sound here:

- A cache key is the kind of call and its vehicle; PIDs, ECU ids and profile ids
  only split keys further. All entries live equally long, so they expire oldest
  first, at any time: clock readings never appear. `cache_ttl_seconds` = 0 is
  the case of entries that expire at once.
- An answer is what later steps depend on: the set of listed vehicles, the set of
  protocols of the listed ECUs, or "a reading". A list may be another one at every
  read, and is refused when it is longer than `MAX_VEHICLES` (`Answers`). `CallReturns`
  also fails at will: a driver error or any validator. So does a cache hit
  (`FromCache`): `_cache_get` vets the value again. Requests naming an unknown or out-of-scope ECU
  are `MayMissEcu`. Policy and profile refusals that come before the first
  `_cached_call` change nothing and are not steps.
- Between two `_cached_call`s of one request the code does not suspend when the
  answer was cached; the model lets others run there, which only adds behaviours.
- asyncio.Lock is FIFO; between a release and the first waiter's wake-up the lock
  is not `locked()`, though no newcomer may take it (`Locked`, `Available`).
  Eviction looks at `locked()`, which is why the distinction is kept.
- The victim of an eviction is any entry whose lock is not locked; the code takes
  the first. Driver calls (`Futures`) and locks (`Locks`) come from pools.
- The event loop runs what is due in FIFO order. The callback of a call that drained
  runs before a call for the same subject that starts later ends (guard of
  `DriverFinish`); and the waiter that a released lock is handed to runs before a
  task whose driver call ends, times out or is cancelled after that release
  (`WakeUpDue`). New requests may come in between.
- A store call is one step here; its insides are IssueStore.

`ExclusiveExchange` says what a driver author may rely on: per subject (vehicle,
or fleet list) at most one exchange at a time, counting those the service gave up
on, and `close()` never beside an exchange. `KeepsPromise` is the refinement.

### IssueStore

A call is a coroutine (`pc`) and a worker thread (`job`, its next step).
`_run`, `initialize` and `close` all take `_operation_lock`; a cancelled caller
keeps it until its worker ended (`Drains`). The statements of
`_open_issue_sync`, `_append_event_sync`, `_close_issue_sync` and
`_get_timeline_sync` are separate steps; `Fail` ends a worker at any of them,
`Crash` loses a process. SQLite is modelled by what the pragmas of
`_initialize_sync` select: a rollback journal (`journal`) holding the file as of
BEGIN IMMEDIATE, which other connections go on seeing until COMMIT, one writer.
`store_shared_file` has two processes on one file. An issue id is used once per
`open_issue` (ids are random in the code; a repeated one fails on the key).
`IssueLog` is the promise: row and log change together, one event at a time, an
issue is opened once and closed at most once; `KeepsLog` is the refinement.
A timeline is listed by time and then by event id, a random uuid, so two events of one
clock tick may be listed in either order (`MayPrecede`); `TimelineInOrder` says that
only they may.

### Elm327Driver

A read is one or more turns at `_io_lock`, each a thread that runs
`_connect_sync` and then one query. `connection`, `poisoned`, `reported` are the
attributes of those names; `linked` and `matching` are what the connection
answers to `is_connected()` and `protocol`; `ports` counts open serial ports,
which no attribute does. The check of a command's mode and PID before a query is
part of the outcome of `Query`. `list_vehicles` does not ask the adapter, so
`ReportsHonestly` is about what the driver itself did to its connection: dropped,
quarantined or closed it. An adapter that was unplugged stays reported as connected
until the next read notices.

### RuntimeLifespan

A scope is one task that runs `runtime_lifespan` (the stdio transport, or one
HTTP application). `scopes` and `finished` are the server's attributes; `runtime`
is what `initialize` and `close` made of the store and the service. Of both only
what the server can tell is kept: they return, fail or are cancelled, and a failed
`initialize` may have opened the store (its worker is drained). The lock is held
during these two awaits only, hence `Held`. A task that is cancelled while it
queues on the way out leaves without being counted out (`CancelQueued`): the count
then stays positive and nobody closes the runtime. No document says what should
happen then, so `LastScopeCloses` excludes it (`lost`). The early return for a
runtime with neither `initialize` nor `close` (an injected test service) has no
state and is not modelled.

### FleetDriver

The environment is not the detailed service but what it promises: the actions of
`ExclusiveExchange` (`Service`), whose subjects are the vehicles and the list. The
driver behind a vehicle works on the exchanges in `reading`; a list asks all drivers
(`asked`) and ends with the last answer, or with the first failure, in which case
`gather` leaves the others running (`orphans`). `close` waits for all of them.
`HandsPromiseOn` is a second instance of `ExclusiveExchange`, seen from the drivers:
the promise survives the step from one driver to several, for vehicle calls. For
lists it does not: after a failure a driver may be listed twice at once, or closed
while it lists. Drivers have to bear that (the ELM327 driver's list waits for its
I/O lock, and looks at state only), and no document promises otherwise, so
`ListsExclusive` says what holds as long as no list was cut short. That a
list whose answer is complete but names the wrong vehicle fails makes no difference
here.

### ReadPolicy, ReadProfiles, SimulatedVehicle, AnswerChecks, PublicValues

These have no state: they are the functions of `policy.py`, `profiles.py`,
`drivers/simulator.py`, the validators of `service.py` and the walks of `domain.py`,
as operators over numbers, sets and small object structures. What they are worth shows in the two
modules that use them, where one side's output is the other's input.

- Services, PIDs and identifiers are numbers. The spelling of a PID is reduced to
  whether it names a mode, which one, and its number.
- Values of PIDs are in thousandths and exact: base values and jitter are fixed in the code
  and stay far from the ends of their PIDs. The keyed digest of the simulator is in ten
  thousandths, as in the code.
- Decoded values are floats. They are counted in a unit so small that every float and
  10^-4 (`Digit`) are whole numbers of it; `IsDouble` says which whole numbers are
  floats. Scaling and adding the offset each round to a nearest float (`Float`), and
  `round(x, 4)` is the float nearest to `x` rounded to four digits, ties to even
  (`Rounded`). Of the floats only this is used, that 0 is one. A decoder whose ends are
  not finite does not load (`profiles.py:160-162`), so there is no overflow.
- `family` of a trouble code stands for its length, five characters or six. The
  digest that turns one into the other is taken for injective.
- A value is a set of objects that mention each other. What an object contains, however deep, is
  the least set that is closed under mentioning (`Parts`). The keys of a map count as text it
  contains, each text is mentioned once, and every size limit of the code is a limit on the number of
  values: of the places where one is mentioned (`MaxItems`), or of those written out, where what is
  shared is written again, once for each way that leads to it (`MaxSize`). The result of the SDK
  holds a value twice, as text and as data (`ResultAccepted`). Non-string keys and non-finite numbers behave like
  binary data and are not distinguished.
- Bundled profiles, their licences, and directories of profiles are code that the
  running server never calls.

### VehicleRead

| Code | Model |
|---|---|
| `_build_runtime`, `_create_driver` (server.py 603-667) | `StartUp` |
| policy and `_profile_context`, before the first await | `Begin` |
| `_get_vehicle_status` from the cache, or from the driver; the protocol scope | `CachedStatus`, `FetchStatus` |
| the driver is called with the vehicle's lock held | `Ask` |
| the answer, its validators, the profile's attribution | `Answer` |
| the driver, or what it calls, raises | `DriverFails` |
| TTL expiry | `Expire` |

One request at a time: how requests overlap is DiagnosticService's subject, and
nothing here depends on it but the status, which is kept from one request to the
next, and the vehicle, which may change (`Change`) between any two steps. Results
other than the status are not cached here. A plugin answers with anything from a small set,
right and wrong, and says truthfully which protocol it used for a snapshot; the
simulator's vehicle never changes. `VehicleNotFoundError` is a `DriverError` in
`errors.py`, so its text is as private as theirs. `declared` and `over` are history
variables: the document at the vehicle's own path, and the ECUs when the driver
answered.

A PID or trouble-code answer does not say which protocol it was read over, and the
service cannot tell whether the ECUs changed after the status was taken;
`AttributableSignals` says what holds, which is that snapshots are right about it.

### ToolCall

| Code | Model |
|---|---|
| `_RequestBodyLimitMiddleware` for a POST (server.py 328-373) | `CheckLength`, `Receive`, `Replay` |
| the SDK refuses the call, or calls the tool | `SdkRefuses`, `CallService` |
| `_invoke` | `Invoke` |
| the SDK renders the result | `Convert` |
| `call_tool`, `get_prompt`, `read_resource` | `PublishError`, `PublishResult`, `GetPrompt`, `ReadResource` |

The first call comes over HTTP, the following ones go straight to the tool: the way
over HTTP is the same for all. Of the text of an error the model keeps where it comes
from, whether it is VIN-shaped and how long it is; of the exceptions behind it, their
classes. A plugin may raise errors of the core: then their text is the plugin's
own choice and is published if it is short and holds no VIN, which is what `_invoke` does.
The SDK's error about a prompt may repeat what it was asked with; `get_prompt` looks
at its length and for a VIN only, so `NothingLeaks` speaks of the words of an input where a
*tool* refused it. Of the errors of `read_resource` the `ResourceError`, which names the
URI, is replaced; others pass, and are taken for short and in the SDK's own words.
`Mutate` is a thread of a plugin that changes an object it handed over, between
any two steps; only the metadata of a status is such an object that can be
published (lists of vehicles hold the same kind). The 16 KiB limit on the arguments of
a prompt is `MaxSize` here.

## 3. What each run checks

| Run | Instance | Shows |
|---|---|---|
| `service_core` | 2 requests, 2 closers, 1 vehicle + fleet, snapshots and issues, 4 futures, cache of 2 (449k states) | type; no overlapping exchange; `_active_operations` exact; shutdown waits for requests and draining calls; closed means both resources closed; shutdown is final; refinement of ExclusiveExchange |
| `service_liveness` | 2 requests, 1 closer (47k) | requests end with any driver; `close()` returns with a driver that drains |
| `service_eviction` | 2 requests, 2 vehicles of which one is listed at a time, lock map and `MAX_VEHICLES` of 1, cache of 2 (240k) | lock map and cache bounded |
| `fence_key_collision` | a vehicle named like the fleet's fence key | **violation**, finding 1 |
| `lock_eviction_overlap` | 3 requests, 2 vehicles of which one is listed at a time, lock map and `MAX_VEHICLES` of 1 | **violation**, finding 2 |
| `store_core` | 1 process, 2 tasks, 1 issue, up to 4 events, clock of 2 ticks (598k) | one worker; acknowledged writes durable; timeline in order but for ties; closed store never works; issue and events agree; refinement of IssueLog; every call returns |
| `store_shared_file` | 2 processes | **violation**, finding 3 |
| `store_clock_back` | 1 process, the clock steps back | **violation**, finding 4 |
| `elm_core` | 3 tasks, all operations, 2 PIDs (326k) | one thread; ports accounted for; closed for good; state reported honestly; queries only over a verified connection; every call ends |
| `fleet` | 3 drivers, at most 2 lists at one of them (38k) | refinement of ExclusiveExchange by the drivers behind; lists exclusive unless one was cut short; every call answered |
| `lifespan` | 3 scopes, 1 lost (349) | inside means initialized; the last scope closes; never restarted, even after a failed close; nobody waits for ever |
| `tool_call` | 5 pairs of documents, 9 configurations, 5 simulated vehicles and a plugin, 9 requests, 9 values of metadata (518k) | the body is replayed whole, in order and bounded; only declared reads are made; accepted signals are attributable; the simulator is refused only where rounding takes an end of a range out of it; a vehicle's clean metadata by itself is never withheld; nothing leaks in results or errors |

Bounds. Two requests are what it takes for a lock, a fence or a cache entry to
matter, and a draining call is a third actor of its own. With one vehicle and the
fleet list there are at most two calls being waited for and two draining, hence
four futures. Two closers exercise `_close_lock` and a `close()` after a failed or
abandoned one. Eviction needs one vehicle more than the map holds, over time: each list has one, and the
lists differ. Its overlap takes a third request, beside the one that queues and the one that lets go. A cache of two
under three keys evicts. In the store, two tasks queue for the lock and one issue
takes every transition; the log holds its three kinds of event. In the ELM driver
three tasks allow one at work and a queue of two, and two PIDs give a read
whose turns are interleaved with others'. Three scopes allow one holding the
runtime lock and a queue of two, one entering and one leaving. Of three drivers one
can fail while one has answered and one has not; two lists at one driver are an
orphan and the current one. In `tool_call`, two vehicles and two paths let documents
collide by id or be shared; the documents have every kind of read, one signal id on two ECUs
and each way of being refused; values sit at the ends of their ranges and one beyond,
at a positive, a negative and a wide scale, floats are the numbers of 13 bits with an exponent of 0 to 4,
and of one decoder an end is rounded out of its range; a body of at most 2 bytes comes in up to 2
messages of up to 3 bytes; a depth of 2, 4 items and a size of 8 are each exceeded by
one of the values and met by another, and lists are shared, nested and cyclic; five
layers of encoding are one more than are taken off. Two codes per ECU are the limit
on codes and one simulated vehicle exceeds it. `get_issue` is in no run of the store:
it takes the steps of closing a closed issue. Symmetry is used only in runs without
liveness properties.

Fairness. The event loop runs what is ready and hands locks on (`WF` of each
task's own steps); a wait for a driver is bounded by `operation_timeout_seconds`
(`CallTimeout` is among them); a worker thread ends because SQLite's busy wait and
serial I/O have timeouts; `initialize` and `close` of the runtime end (for `close`
that is the hypothesis of `CloseReturns` again), and the drivers behind a fleet end
what they start. Nothing is assumed of a driver, except in `CallsAnswered` and in
`CloseReturns`, whose hypothesis `DrainingDriver` says that it ends what it
started: `close()` has no timeout for draining calls, by design. No fairness is
assumed of clients, cancellations, crashes or failures.

`tool_call` is safety only: what makes requests end is DiagnosticService's.

Each property has a mutant in `PROJECT.json`: the definition of a seeded fault
(commented as such, beside the definition it replaces) that the property catches.

## 4. Findings

1. **A vehicle called `fleet`** (`service.py:218`, `:259`). The fence dictionary
   has one entry per key, and the vehicle list uses the key `"fleet"`, a legal
   vehicle id. A timed-out list overwrites the fence of a draining vehicle call,
   and lifts it when it ends itself. `docs/driver-plugins.md:124-125` promises the
   fence.
2. **Eviction of a lock in use** (`service.py:125`). A lock that was released and
   not yet acquired by its waiter is not `locked()`; evicting it lets a newcomer
   make a second lock for the same vehicle. A list of more than 128 vehicles is refused
   (`service.py:261`), so this needs a list that changes: more than 128 vehicle ids over
   time. In the run the limit is 1: a call on `v1` ends and lets go of its lock while a
   second task queues for it; before that task wakes up, a third, to which the driver had
   listed `v2`, has the lock of `v1` evicted; the driver lists `v1` again; the second task
   calls it under the old lock, and a later request under a new one. `docs/safety.md:17` promises exclusion.
3. **Two processes close one issue** (`storage.py:527`). The status is read before
   `BEGIN IMMEDIATE`; both processes write `closed_at` and a `closed` event.
   `tests/test_storage.py:52` asserts that a second close keeps `closed_at`.
4. **Order of the timeline** (`storage.py:517`). It is by wall-clock time; a clock
   that is set back reorders events. `tests/test_storage.py:20` promises an
   ordered timeline.

Seen while modelling, and not shown by a run of their own:

- The simulator rounds a profile's value to four digits (`drivers/simulator.py:334`) and
  the service compares it with the unrounded ends of the decoder (`service.py:613-623`).
  With scale 0.03 a `uint8` of 255 is 7.6499999999999995, is rounded to 7.65 and the whole
  snapshot is refused. `HonestIsServed` says that only an end of a range can do this
  (`RoundedOut`); in `tool_call` the read `Odd` does, and without the exception TLC reports it.
- Two events of one issue with the same microsecond are listed by their random ids
  (`storage.py:517`); `tests/test_storage.py:53-57` asserts the order they were made in,
  which takes different stamps.
- What a vehicle's metadata passes by itself, many vehicles together may not: the limits of
  the model class are per vehicle, that of a result is on the list (`service.py:268`,
  `server.py:484`).
- Metadata that mentions one list twice is refused as a reference cycle
  (`domain.py:212-214`); no document promises otherwise, and the public walk accepts it.

## 5. Proofs

All theorems are of the form `Spec => []P`, `Spec => [][A]_vars` or `Spec => Abstract!Spec`,
some with `Spec /\ [][H]_vars` in the place of `Spec`, for arbitrary sets of tasks,
closers, vehicles, futures, locks, scopes, processes, issues, documents, requests and metadata, and for any
limits. A theorem's hypotheses, beyond the named `ASSUME`s,
are in the second column.

| Theorem | Says | Inductive invariant |
|---|---|---|
| *DiagnosticServiceProofs* | | |
| `TypeCorrect`, `OperationsCounted` | `TypeOK`, `ActiveCounts` | both, with `Serving` (what a task at each place has in hand): `Leave` decrements a natural number only because the counter is the number of busy tasks |
| `TablesStayBounded` | `TablesBounded` | every insertion into the lock map follows an eviction when the map is full (`LookupBounded`), every insertion into the cache makes room first (`CacheWithBounded`) |
| *DiagnosticServicePromise* | | |
| `ExclusiveUnlessLost` | `NoOverlappingExchange`, as long as every step is `SparesAwaited` and `FencesKept` | `Exclusion` |
| `ExchangesExclusive` | `NoOverlappingExchange`, given `DistinctFences` and `NoEviction` | `Exclusion` |
| `ClosesQuiescent`, `ClosedReleases`, `ShutdownFinal` | `CloseIsQuiescent`, `ClosedMeansReleased`, `ShutdownIsFinal` | `Orderly` |
| `PromiseUnlessEvicted` | `KeepsPromise`, given `DistinctFences` and as long as every step is `SparesAwaited` | `Exclusion` and `Orderly` |
| `PromiseKept` | `KeepsPromise`: refines ExclusiveExchange, given `DistinctFences` and `NoEviction` | `Exclusion` and `Orderly` |
| *IssueStoreProofs* | | |
| `TypeCorrect`, `MutualExclusion`, `Durability`, `ClosedStaysClosed` | `TypeOK`, `OneWorker`, `AckedIsDurable`, `ClosedIsFinal` | `Sound` |
| `SnapshotUnlessRaced`, `ClosedAtUnlessRaced` | `TimelinesAgree`, `ClosedOnce`, as long as every step is `ClosesApart` | `Sound` and `StillSo` |
| `RefinementUnlessRaced` | `KeepsLog`: refines IssueLog, as long as every step is `ClosesApart` | `Sound` and `StillSo` |
| `TimelineSnapshot`, `KeepsClosedAt`, `Refinement` | the same three, given `OneProcess` | `Sound` and `StillSo` |
| `TimelineOrdered` | `TimelineInOrder`, given `OneProcess` and a clock that is not set back | `Sound` and `InTime` |
| *Elm327DriverProofs* | | |
| `TypeCorrect`, `MutualExclusion`, `PortsHeld`, `ClosedHoldsNothing`, `HonestReports`, `VerifiedQueries` | `TypeOK`, `OneWorker`, `PortsAccounted`, `ClosedForGood`, `ReportsHonestly`, `QueriesVerified` | `Sound` |
| *FleetDriverProofs* | | |
| `TypeCorrect`, `ExclusiveLists` | `TypeOK`, `ListsExclusive` | `Sound` |
| `Refinement` | `HandsPromiseOn`: refines ExclusiveExchange a second time | `Sound` |
| *RuntimeLifespanProofs* | | |
| `TypeCorrect`, `InsideIsReady`, `LastCloses`, `NotRestarted` | `TypeOK`, `ReadyInside`, `LastScopeCloses`, `NeverRestarted` | `Orderly` |
| *ToolCallProofs* | | |
| `DeclaredReads`, `SignalsAttributable`, `NoLeak`, `BodyBounded` | `OnlyDeclaredReads`, `AttributableSignals`, `NothingLeaks`, `BodyReplayed` | `Sound` |
| `HonestServed` | `HonestIsServed` | `Sound` and `Serving` |

**Hypotheses.** They come in two forms. Those about steps say exactly which step makes a
property fail, so that nothing but the findings of section 4 can:

- `SparesAwaited`: no lock leaves the map while a task waits for it (finding 2).
- `FencesKept`: the fence of a draining call is not overwritten (finding 1).
- `ClosesApart`: no close of an issue is committed while another call stands between its read of the
  row and what it does with it (finding 3).

Those about constants are conditions an operator can meet, and each implies one of the above:
`DistinctFences` (no vehicle is named like the fleet's fence key; `DistinctKept`), `NoEviction` (the
lock map has room for all vehicles; `RoomSpares`), `OneProcess` (one process on the file;
`OneProcessApart`). `KeepsPromise` needs `DistinctFences` in any case, as its mapping has one exchange
per fence key. `~StepsBack` and `OneProcess` are what an order by wall-clock time takes (finding 4).
The run of each finding shows the property
violated where its hypothesis is not met; under the hypotheses about steps TLC finds no
violation on the instances of `lock_eviction_overlap`, `fence_key_collision` and `store_shared_file`.
The theorems about types, workers, ports, durability and shutdown have no hypothesis: they hold with any
number of processes on a file and any eviction.

**Assumptions on constants.** They are named, and TLC evaluates them in every run. Constants
are of the right kind and `None` is none of the things it stands in for; tasks and
vehicles of the service, scopes, and drivers of a fleet are finite; limits are natural
numbers. In VehicleRead: a document's reads and a request's PIDs are sequences
(`FilesAssumption`, `RequestsAssumption`); a configuration, which pydantic has checked by
then, names the target vehicle and paths that exist (`ConfigsAssumption`); scales and offsets are floats,
whole numbers of their unit; some metadata is harmless
(`PlainAssumption`: the dictionary of the simulator, which is written down in the code), all of it is
finite, and only maps and lists mention anything (`MetadataAssumption`); a simulated vehicle has finitely
many ECUs with codes (`SimulatorsAssumption`), and the digest is between -1 and 1
(`FractionsAssumption`). `LimitsAssumption` has `2 * MaxItems <= MaxSize`: in the code metadata is at
most 256 values and 64 KiB, which the two copies in a result write out, with every character
escaped, in about 832 KiB at most, and a result may have 1 MiB. `DoublesAssumption`: 0 is a float, and
`Digit` is positive; which other numbers are floats is left open.

**Exclusion.** `NoOverlappingExchange` is not inductive: it says nothing of who
holds which lock. The strengthening adds `LocksGuard` (vehicles have different
locks; whoever queues for or holds a lock does so for the key it guards; one
holder per lock), `CallsOwned` (a call not given up belongs to exactly the task
waiting for it) and `DrainsFenced` (a draining call is the one in its fence,
no call for its subject was started since, and a fence belongs to a call given up under its key). Then two running calls for one subject
have the same lock, hence the same task; a running and a draining one contradict
`DrainsFenced`; two draining ones are the same entry of the fence table.

**Orderly.** `CloseOrder` says which stage of `close()` goes with which states of
service, driver and store; `CallsHeld` says that every call not draining has a
task. Once `active` is 0 no task is busy, none can become busy while the state is
not `open`, so no call can start or be given up, and the draining calls are only
those `close()` waits for.

**The promise.** Under the mapping, a subject's exchange is *wanted* or *draining* as
its one call runs or drains, or *none*. `Exclusion` makes that a function (one call per subject),
`Orderly` the guard of the abstract `close`. Every action is then an abstract step on one subject, or a
stutter; there is one lemma per group of actions.

**The store.** `Locks` ties a worker to the caller that holds `_operation_lock`,
cancelled or not; `Phases` says which call reaches which step; `Transaction` says that
between BEGIN and COMMIT the file differs from what the journal saved by exactly the row, then
the row and the event, of the transaction's own call; `Matches` that what others see of row and
events agrees. `AckedIsDurable` is part of the invariant, and needs the lemma `Grows`: whatever
another process commits, rolls back or loses in a crash, a visible row, note or closing is not taken
back. `StillSo` says that what a worker has read is still so when it goes on: it is, unless a close is
committed behind its back, which takes a second process and is finding 3. `InTime` bounds all stamps by the clock and those of the file by the stamp
of whoever is about to write.

**The ELM327 driver.** `PortsAccounted` speaks of moments at which no thread works;
`PortsFollow` follows the port through a connect that may fail at each step and
whose cleanup may fail too. `QueriesVerified` needs `QueryReady` to survive other callers' steps:
it does because a thread at work excludes all others (`LockHeld`), and what the query
rests on changes by threads only (an unplugged adapter answers later, but stays connected for the driver).

**The fleet.** `OwnVehicle` and `Apart` make each driver's view of its vehicle an exchange of its
own, `UnderWay` and `LeftBehind` account for lists: without a cut-short list there are no orphans.

**RuntimeLifespan.** `Counted` ties the counter to the tasks that are inside (plus
those lost), `OneHolder` says that one task at a time initializes or closes, and
`Phases` which count goes with which state of the runtime. `TypeOK` alone is not
inductive (a decrement of zero), and neither is `ReadyInside` (a close might begin
while somebody is inside): both need the count to be exact.

**Tool calls.** The properties are about the end of a call; `Vetted` carries what was checked at its
beginning (policy, scope, profile) up to the driver, across awaits at which the vehicle
changes, `Bound` that the profile found by id is the document at the vehicle's own path, which takes
distinct ids. `SignalsAttributable` then rests on the validators alone, not on the driver:
PIDs are asked once each (`FirstMentionsFacts`), signals of a document's reads are
distinct per ECU (`ReadsForFacts`). `Worded` says whose words an error may carry on its way out.
`Buffered` ties the byte count to the messages kept.

**The code passes its own checks.** `HonestIsServed` has two halves. For the simulator, `Serving` says
that its vehicle does not change, that the status a request was checked against is still true of it,
and that a bound profile was loaded from a file; then `SimulatorServed` compares, operator by operator,
what SimulatedVehicle answers with what AnswerChecks accepts: PIDs with and without a
configured value (`PidWithin`), codes of one ECU and of all (`DtcsServed`, `AllDtcsServed`), decoded values
(`ValueServed`). The latter is arithmetic: the raw value is between its ends after truncation towards
zero (`RawWithin`), decoding keeps the order or reverses it, in floats too (`FloatMonotone`, `DecodedWithin`), and so
does rounding to four digits (`RoundedMonotone`): a value rounded out of the range takes an end with it
(`RoundedWithin`). For metadata, an object that no
place mentions twice, counting from the root, is a tree (`EnteredOnceIsTree`); in a tree no object
contains itself, and a way to an object is told by its last mention (`WaysOfTree`), so that at most
`MaxItems` values are written out (`TreeSize`).

**Form.** Induction over data is out of the prover's reach, so the model and
the lemmas avoid it: "the least place such that" (`Least` in SequenceLemmas, from well-foundedness) takes the
place of induction over a queue, a sum of message lengths is the cardinality of a set of bytes
(`BytesOf`), and what is selected from a sequence in order is described by ranks (`Picked`), not
by a recursive filter. Every inductive invariant was checked by TLC on the run's instance before its proof.

**Checked with TLC only**: liveness (`RequestsTerminate`, `CloseReturns`,
`CallsReturn`, `CallsEnd`, `CallsAnswered`, `NobodyStuck`), which needs fairness and ENABLED. Every
safety property and refinement of the passing runs is a theorem.

## 6. Not modelled

- Patterns and lengths of text: the fields of the model classes, VIN detection and
  check digits, the licences of profiles. Text is VIN-shaped, or a name, or neither.
- The checks of the service on the list of vehicles, and on duplicate ECU ids in a status
  (in VehicleRead a status is a function on ECUs).
- Of the MCP server: the transports, requests that are not POST, host and origin checks,
  the log filter.
- Parsing of profiles and configuration; both are chosen from small sets.
- File identity, symlink and permission checks of the store (one nondeterministic
  failure) and schema migration.
- The simulator's closed flag and vehicle list, plugin loading, the CLI, and the
  repository's scripts.

## 7. Plan

Written, in this order: DiagnosticService with ExclusiveExchange;
IssueStore with IssueLog; Elm327Driver; RuntimeLifespan; FleetDriver;
ReadPolicy to ToolCall; and the proofs of every safety property and refinement that the passing runs check.

Next:

**The list of vehicles** and the answers' cache in VehicleRead, so that an answer
may outlive the profile context it was accepted in.
