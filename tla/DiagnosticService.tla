------------------------- MODULE DiagnosticService -------------------------
(***************************************************************************)
(* The application service of src/obd_mcp/service.py: the operation guard, *)
(* the per-vehicle locks, the result cache, the timeout and fence around   *)
(* every driver call, and the shutdown sequence.                           *)
(*                                                                         *)
(* The service runs on one asyncio event loop.  _cache_lock and            *)
(* _state_condition are never held across a suspension, so the cache and   *)
(* the operation counter are updated atomically.  A request suspends in    *)
(* three places only: waiting for a lock, waiting for the driver, waiting  *)
(* for the issue store.  One action takes a task from one of these places, *)
(* or from one _cached_call to the next, to the following one.             *)
(***************************************************************************)
EXTENDS Naturals, Sequences, FiniteSets

CONSTANTS
  Tasks,            \* the tasks that run requests, one request at a time
  Closers,          \* the tasks that call close()
  Vehicles,         \* the vehicle ids that requests and the driver name
  FleetKey,         \* the fence key of list_vehicles, the string "fleet"
  Futures,          \* pool of driver-call futures (a bound of the model)
  Locks,            \* pool of per-vehicle asyncio.Lock objects (a bound)
  ListLock,         \* _list_lock
  Fleets,           \* the vehicle lists the driver may answer with
  Statuses,         \* the vehicle statuses: the protocols of the listed ECUs
  Profiled,         \* the vehicles a diagnostic profile is bound to
  Ops,              \* the operations that clients request
  MaxVehicles,      \* MAX_VEHICLES
  MaxCacheEntries,  \* max_cache_entries
  None

ReadOps    == {"pids", "dtcs", "snapshot"}
StoreOps   == {"get_issue_timeline", "close_issue"}
VehicleOps == ReadOps \cup {"status", "open_issue"}

ASSUME ConstantsAssumption ==
  /\ Ops \subseteq VehicleOps \cup StoreOps \cup {"list"}
  /\ Fleets \subseteq SUBSET Vehicles
  /\ Profiled \subseteq Vehicles
  /\ MaxVehicles \in Nat \ {0}
  /\ MaxCacheEntries \in Nat \ {0}

ASSUME IdentitiesAssumption ==
  /\ None \notin Tasks \cup Vehicles \cup Futures \cup Locks \cup {ListLock, FleetKey}
  /\ ListLock \notin Locks

ASSUME FiniteAssumption == IsFiniteSet(Tasks) /\ IsFiniteSet(Vehicles)

\* A cache key: what is asked, and the fence key under which it is asked.
ListKey     == [kind |-> "vehicles", vehicle |-> FleetKey]
VehicleKeys == [kind : ReadOps \cup {"status"}, vehicle : Vehicles]
Keys        == VehicleKeys \cup {ListKey}
FenceKeys   == Vehicles \cup {FleetKey}

\* list_vehicles and the calls on a stored issue name no vehicle.
Requests == [op : Ops \cap VehicleOps, vehicle : Vehicles]
              \cup [op : Ops \ VehicleOps, vehicle : {None}]

\* Both keys ask the same vehicle, or both ask for the fleet list.
SameSubject(k1, k2) ==
  k1.vehicle = k2.vehicle /\ (k1.kind = "vehicles" <=> k2.kind = "vehicles")

\* What a driver answer amounts to once it passed validation: a longer vehicle
\* list is refused.
Answers(k) == CASE k.kind = "vehicles" -> {fleet \in Fleets : Cardinality(fleet) <= MaxVehicles}
                [] k.kind = "status"   -> Statuses
                [] OTHER               -> {{"reading"}}
Values == Fleets \cup Statuses \cup {{"reading"}}

VARIABLES
  state,         \* _state
  active,        \* _active_operations
  pc,            \* [Tasks -> where the task is suspended]
  req,           \* [Tasks -> the request it serves]
  key,           \* [Tasks -> the key of its current _cached_call]
  lockOf,        \* [Tasks -> the lock it waits for or holds]
  futOf,         \* [Tasks -> the driver call it waits for]
  waiters,       \* [all locks -> queue of waiting tasks]
  vehicleLocks,  \* _vehicle_locks
  cache,         \* _cache, in insertion order
  phase,         \* [Futures -> life of the driver call]
  target,        \* [Futures -> the key the call was made for]
  fence,         \* _draining_driver_fences
  closer,        \* [Closers -> where close() is suspended]
  awaited,       \* the draining calls close() waits for
  driver,        \* the driver, as close() sees it
  store          \* the issue store, as close() sees it

requestVars == <<active, pc, req, key, lockOf, futOf, waiters, vehicleLocks>>
callVars    == <<phase, target, fence>>
closeVars   == <<closer, awaited, driver, store>>
vars        == <<state, requestVars, cache, callVars, closeVars>>

AllLocks == Locks \cup {ListLock}

TaskPlaces   == {"idle", "ready", "queued", "calling", "storing"}
CallPhases   == {"free", "running", "done", "draining", "drained"}
ClosePlaces  == {"idle", "locking", "waiting", "closing", "cancelled", "abandoned"}
DriverStates == {"open", "pending", "closing", "closed", "failed"}
StoreStates  == {"open", "closing", "closed", "failed"}

TypeOK ==
  /\ state \in {"open", "closing", "closed", "close_failed"}
  /\ active \in Nat
  /\ pc \in [Tasks -> TaskPlaces]
  /\ req \in [Tasks -> Requests \cup {None}]
  /\ key \in [Tasks -> Keys \cup {None}]
  /\ lockOf \in [Tasks -> AllLocks \cup {None}]
  /\ futOf \in [Tasks -> Futures \cup {None}]
  /\ waiters \in [AllLocks -> Seq(Tasks)]
  /\ vehicleLocks \in [Vehicles -> Locks \cup {None}]
  /\ cache \in Seq([key : Keys, value : Values])
  /\ phase \in [Futures -> CallPhases]
  /\ target \in [Futures -> Keys \cup {None}]
  /\ fence \in [FenceKeys -> Futures \cup {None}]
  /\ closer \in [Closers -> ClosePlaces]
  /\ awaited \in SUBSET Futures
  /\ driver \in DriverStates
  /\ store \in StoreStates

Init ==
  /\ state = "open"
  /\ active = 0
  /\ pc = [t \in Tasks |-> "idle"]
  /\ req = [t \in Tasks |-> None]
  /\ key = [t \in Tasks |-> None]
  /\ lockOf = [t \in Tasks |-> None]
  /\ futOf = [t \in Tasks |-> None]
  /\ waiters = [l \in AllLocks |-> <<>>]
  /\ vehicleLocks = [v \in Vehicles |-> None]
  /\ cache = <<>>
  /\ phase = [f \in Futures |-> "free"]
  /\ target = [f \in Futures |-> None]
  /\ fence = [k \in FenceKeys |-> None]
  /\ closer = [c \in Closers |-> "idle"]
  /\ awaited = {}
  /\ driver = "open"
  /\ store = "open"

-----------------------------------------------------------------------------
(* The cache: _cache_get, _cache_put.  Every entry lives equally long, so  *)
(* entries expire in insertion order.                                       *)

Hit(k)    == \E i \in DOMAIN cache : cache[i].key = k
Cached(k) == cache[CHOOSE i \in DOMAIN cache : cache[i].key = k].value

\* The entries left once the oldest made room for one more.
\* (Seeded fault: one entry too many.)
RoomOffByOne == IF Len(cache) <= MaxCacheEntries THEN cache ELSE Tail(cache)
Room         == IF Len(cache) < MaxCacheEntries THEN cache ELSE Tail(cache)

\* Assigning a key that is present keeps its place, as in a Python dict.
CacheWith(k, v) ==
  LET entry == [key |-> k, value |-> v]
  IN  IF \E i \in DOMAIN Room : Room[i].key = k
        THEN [i \in DOMAIN Room |-> IF Room[i].key = k THEN entry ELSE Room[i]]
        ELSE Append(Room, entry)

-----------------------------------------------------------------------------
(* The locks: asyncio.Lock is FIFO, and a newcomer never overtakes a        *)
(* waiter, but between a release and the first waiter's wake-up nobody      *)
(* holds the lock.                                                          *)

\* A lock is held exactly while its holder waits for the driver.
Locked(l) == \E t \in Tasks : pc[t] = "calling" /\ lockOf[t] = l

\* A newcomer may take the lock.
Available(l) == ~Locked(l) /\ waiters[l] = <<>>

Mapped == {v \in Vehicles : vehicleLocks[v] # None}

Unused(l) == /\ \A v \in Vehicles : vehicleLocks[v] # l
             /\ \A t \in Tasks : lockOf[t] # l
Fresh(l)  == l \in Locks /\ Unused(l) /\ l = CHOOSE m \in Locks : Unused(m)

\* The maps that evicting an unlocked entry may leave, when the map is full.
Evicted ==
  IF Cardinality(Mapped) < MaxVehicles
    THEN {vehicleLocks}
    ELSE {[vehicleLocks EXCEPT ![v] = None] :
            v \in {w \in Mapped : ~Locked(vehicleLocks[w])}}

\* _vehicle_lock (or _list_lock) returns l, and leaves the map so.
LockLookup(k, l) ==
  \/ k.kind = "vehicles" /\ l = ListLock /\ UNCHANGED vehicleLocks
  \/ /\ k.kind # "vehicles" /\ l # None
     /\ vehicleLocks[k.vehicle] = l
     /\ UNCHANGED vehicleLocks
  \/ /\ k.kind # "vehicles"
     /\ vehicleLocks[k.vehicle] = None
     /\ Fresh(l)
     /\ \E m \in Evicted : vehicleLocks' = [m EXCEPT ![k.vehicle] = l]

\* The map is full of held locks: "configured vehicle concurrency limit".
LockLimit(k) == /\ k.kind # "vehicles"
                /\ vehicleLocks[k.vehicle] = None
                /\ Evicted = {}

-----------------------------------------------------------------------------
(* Where a request goes with the value of its current _cached_call.         *)

StandardScope == {"obd2", "simulated"}
ProfileScope  == {"uds", "simulated"}

\* _require_standard_protocol_scope, and the profile branch of a snapshot:
\* PIDs are read from all ECUs at once, DTCs and snapshots may name one ECU.
ScopeAllows(op, v, ecus) ==
  CASE op = "pids" -> ecus # {} /\ ecus \subseteq StandardScope
    [] op = "dtcs" -> ecus \cap StandardScope # {}
    [] op = "snapshot" ->
         ecus \cap (IF v \in Profiled THEN ProfileScope ELSE StandardScope) # {}

\* A request that names an ECU may name one that is unknown or out of scope.
MayMissEcu(r, k) == k.kind = "status" /\ r.op \in {"dtcs", "snapshot"}

\* The next _cached_call of request r, None when there is none.
NextKey(r, k, value) ==
  IF k.kind = "vehicles" /\ r.op \in ReadOps \cup {"status"} /\ r.vehicle \in value
    THEN [kind |-> "status", vehicle |-> r.vehicle]
  ELSE IF k.kind = "status" /\ r.op \in ReadOps /\ ScopeAllows(r.op, r.vehicle, value)
    THEN [kind |-> r.op, vehicle |-> r.vehicle]
  ELSE None

GoesToStore(r, k, value) ==
  k.kind = "vehicles" /\ r.op = "open_issue" /\ r.vehicle \in value

\* _operation_guard is left (seeded faults: not counted, counted twice).
CountOutNever == active' = active
CountOutTwice == active' = active - 2
CountOut      == active' = active - 1

\* The request ends, with a result or an exception.
Leave(t) ==
  /\ pc' = [pc EXCEPT ![t] = "idle"]
  /\ req' = [req EXCEPT ![t] = None]
  /\ key' = [key EXCEPT ![t] = None]
  /\ CountOut

Advance(t, value) ==
  LET next == NextKey(req[t], key[t], value) IN
  \/ /\ next # None
     /\ pc' = [pc EXCEPT ![t] = "ready"]
     /\ key' = [key EXCEPT ![t] = next]
     /\ UNCHANGED <<active, req>>
  \/ /\ GoesToStore(req[t], key[t], value)
     /\ pc' = [pc EXCEPT ![t] = "storing"]
     /\ key' = [key EXCEPT ![t] = None]
     /\ UNCHANGED <<active, req>>
  \/ /\ next = None \/ MayMissEcu(req[t], key[t])
     /\ ~GoesToStore(req[t], key[t], value)
     /\ Leave(t)

-----------------------------------------------------------------------------
(* Requests.                                                               *)

\* _operation_guard admits a request (seeded fault: also during close()).
AdmitsWhileClosing == state \in {"open", "closing"}
Admits             == state = "open"

Accept(t) ==
  /\ pc[t] = "idle" /\ Admits
  /\ active' = active + 1
  /\ \E r \in Requests :
       /\ req' = [req EXCEPT ![t] = r]
       /\ IF r.op \in StoreOps
            THEN /\ pc' = [pc EXCEPT ![t] = "storing"]
                 /\ UNCHANGED key
            ELSE /\ pc' = [pc EXCEPT ![t] = "ready"]
                 /\ key' = [key EXCEPT ![t] = ListKey]
  /\ UNCHANGED <<state, lockOf, futOf, waiters, vehicleLocks, cache, callVars, closeVars>>

\* _driver_call refuses while a timed-out call under the same fence key runs
\* (seeded fault: it does not).
FenceIgnored(k) == FALSE
FenceBlocks(k)  == fence[k] # None /\ phase[fence[k]] = "draining"

\* The request goes on with the cached value, unless it no longer passes
\* _validate_privacy, which _cache_get repeats.
FromCache(t) == Advance(t, Cached(key[t])) \/ Leave(t)

\* Which free element of the pool stands for a new future does not matter.
NewFuture == CHOOSE f \in Futures : phase[f] = "free"

\* Task t has lock l: the second cache check, the fence, the driver call.
\* The lock is released at once unless the task starts waiting for the driver.
Enter(t, l) ==
  \/ /\ Hit(key[t])
     /\ FromCache(t)
     /\ lockOf' = [lockOf EXCEPT ![t] = None]
     /\ UNCHANGED <<futOf, callVars>>
  \/ /\ ~Hit(key[t]) /\ FenceBlocks(key[t].vehicle)
     /\ Leave(t)
     /\ lockOf' = [lockOf EXCEPT ![t] = None]
     /\ UNCHANGED <<futOf, callVars>>
  \/ /\ ~Hit(key[t]) /\ ~FenceBlocks(key[t].vehicle)
     /\ \E f \in Futures : phase[f] = "free"
     /\ phase' = [phase EXCEPT ![NewFuture] = "running"]
     /\ target' = [target EXCEPT ![NewFuture] = key[t]]
     /\ futOf' = [futOf EXCEPT ![t] = NewFuture]
     /\ pc' = [pc EXCEPT ![t] = "calling"]
     /\ lockOf' = [lockOf EXCEPT ![t] = l]
     /\ UNCHANGED <<active, req, key, fence>>

\* _cached_call answers from the cache; the lock argument was evaluated first.
BeginHit(t) ==
  /\ pc[t] = "ready" /\ Hit(key[t])
  /\ \E l \in AllLocks : LockLookup(key[t], l)
  /\ FromCache(t)
  /\ UNCHANGED <<state, lockOf, futOf, waiters, cache, callVars, closeVars>>

\* A miss with the lock free: it is taken without suspending.
BeginFree(t) ==
  /\ pc[t] = "ready" /\ ~Hit(key[t])
  /\ \E l \in AllLocks :
       /\ LockLookup(key[t], l)
       /\ Available(l)
       /\ Enter(t, l)
  /\ UNCHANGED <<state, waiters, cache, closeVars>>

\* A miss with the lock held or spoken for: the task queues.
BeginWait(t) ==
  /\ pc[t] = "ready" /\ ~Hit(key[t])
  /\ \E l \in AllLocks :
       /\ LockLookup(key[t], l)
       /\ ~Available(l)
       /\ lockOf' = [lockOf EXCEPT ![t] = l]
       /\ waiters' = [waiters EXCEPT ![l] = Append(@, t)]
  /\ pc' = [pc EXCEPT ![t] = "queued"]
  /\ UNCHANGED <<state, active, req, key, futOf, cache, callVars, closeVars>>

\* No lock can be made for the vehicle.
BeginLimit(t) ==
  /\ pc[t] = "ready" /\ LockLimit(key[t])
  /\ Leave(t)
  /\ UNCHANGED <<state, lockOf, futOf, waiters, vehicleLocks, cache, callVars, closeVars>>

\* The first waiter of a released lock wakes up.
Acquire(t) ==
  /\ pc[t] = "queued"
  /\ LET l == lockOf[t] IN
       /\ ~Locked(l) /\ waiters[l] # <<>> /\ Head(waiters[l]) = t
       /\ waiters' = [waiters EXCEPT ![l] = Tail(@)]
       /\ Enter(t, l)
  /\ UNCHANGED <<state, vehicleLocks, cache, closeVars>>

-----------------------------------------------------------------------------
(* Driver calls: a future runs until the driver coroutine ends.  Its task  *)
(* may stop waiting before: the call is then cancelled, and drains.         *)

\* A lock was released, and its first waiter has yet to wake up.  The event loop
\* is FIFO: the waiter runs before a task whose driver call ends, times out or is
\* cancelled after the release.  (What was due before the release might as well come
\* before it.)
WakeUpDue == \E l \in AllLocks : ~Locked(l) /\ waiters[l] # <<>>

\* The callback of a drained call, too, has run before a later call to the same
\* subject ends.
DriverFinish(f) ==
  /\ \A g \in Futures \ {f} :
       phase[f] # "free" /\ phase[g] = "drained" => ~SameSubject(target[f], target[g])
  /\ \/ phase[f] = "running" /\ ~WakeUpDue /\ phase' = [phase EXCEPT ![f] = "done"]
     \/ phase[f] = "draining" /\ phase' = [phase EXCEPT ![f] = "drained"]
  /\ UNCHANGED <<state, requestVars, cache, target, fence, closeVars>>

\* The task resumes with a valid answer, or with the driver's or a
\* validator's error.
CallReturns(t) ==
  /\ pc[t] = "calling"
  /\ LET f == futOf[t] IN
       /\ phase[f] = "done"
       /\ phase' = [phase EXCEPT ![f] = "free"]
       /\ target' = [target EXCEPT ![f] = None]
  /\ \/ \E value \in Answers(key[t]) :
          /\ cache' = CacheWith(key[t], value)
          /\ Advance(t, value)
     \/ Leave(t) /\ UNCHANGED cache
  /\ lockOf' = [lockOf EXCEPT ![t] = None]
  /\ futOf' = [futOf EXCEPT ![t] = None]
  /\ UNCHANGED <<state, waiters, vehicleLocks, fence, closeVars>>

\* _track_draining_driver_future, and the exception that follows it.
GiveUp(t) ==
  LET f == futOf[t] IN
  /\ phase' = [phase EXCEPT ![f] = IF @ = "running" THEN "draining" ELSE "drained"]
  /\ fence' = [fence EXCEPT ![key[t].vehicle] = f]
  /\ Leave(t)
  /\ lockOf' = [lockOf EXCEPT ![t] = None]
  /\ futOf' = [futOf EXCEPT ![t] = None]
  /\ UNCHANGED <<state, waiters, vehicleLocks, cache, target, closeVars>>

\* asyncio.wait ends with the call not done (seeded fault: it has no timeout).
WaitsForever(t) == FALSE
TimesOut(t)     == pc[t] = "calling" /\ phase[futOf[t]] = "running" /\ ~WakeUpDue

CallTimeout(t) ==
  /\ TimesOut(t)
  /\ GiveUp(t)

\* The client's task is cancelled while it waits for the driver.
CancelCall(t) ==
  /\ pc[t] = "calling" /\ ~WakeUpDue
  /\ GiveUp(t)

\* It is cancelled while it waits for a lock.
CancelWait(t) ==
  /\ pc[t] = "queued"
  /\ LET l == lockOf[t] IN
       \E i \in DOMAIN waiters[l] :
         /\ waiters[l][i] = t
         /\ waiters' = [waiters EXCEPT
              ![l] = SubSeq(@, 1, i - 1) \o SubSeq(@, i + 1, Len(@))]
  /\ lockOf' = [lockOf EXCEPT ![t] = None]
  /\ Leave(t)
  /\ UNCHANGED <<state, futOf, vehicleLocks, cache, callVars, closeVars>>

\* The store answers, fails, or is drained after a cancellation.
StoreReturns(t) ==
  /\ pc[t] = "storing"
  /\ Leave(t)
  /\ UNCHANGED <<state, lockOf, futOf, waiters, vehicleLocks, cache, callVars, closeVars>>

\* The done-callback of a draining call lifts the fence it still owns.
LiftFence(k, f) == IF fence[k] = f THEN [fence EXCEPT ![k] = None] ELSE fence

Consume(f) ==
  /\ phase[f] = "drained"
  /\ phase' = [phase EXCEPT ![f] = "free"]
  /\ target' = [target EXCEPT ![f] = None]
  /\ fence' = LiftFence(target[f].vehicle, f)
  /\ UNCHANGED <<state, requestVars, cache, closeVars>>

\* The oldest cache entry reaches its expiry time.
Expire ==
  /\ cache # <<>>
  /\ cache' = Tail(cache)
  /\ UNCHANGED <<state, requestVars, callVars, closeVars>>

-----------------------------------------------------------------------------
(* close(): the close lock, the wait for active operations, then the driver *)
(* and the store closed side by side under asyncio.shield.                   *)

\* The places inside "async with self._close_lock".
ClosingPlaces == ClosePlaces \ {"idle", "locking"}

CloseCall(c) ==
  /\ closer[c] = "idle"
  /\ closer' = [closer EXCEPT ![c] = "locking"]
  /\ UNCHANGED <<state, requestVars, cache, callVars, awaited, driver, store>>

CloseEnter(c) ==
  /\ closer[c] = "locking"
  /\ \A d \in Closers : closer[d] \notin ClosingPlaces
  /\ IF state = "closed"
       THEN /\ closer' = [closer EXCEPT ![c] = "idle"]
            /\ UNCHANGED state
       ELSE /\ closer' = [closer EXCEPT ![c] = "waiting"]
            /\ state' = "closing"
  /\ UNCHANGED <<requestVars, cache, callVars, awaited, driver, store>>

\* What close() waits for (seeded fault: it does not wait).
DoesNotWait       == TRUE
NoActiveOperation == active = 0

\* No operation is active: both resources start closing.  A driver is asked
\* to close again after an earlier failure; a closed store returns at once.
CloseProceed(c) ==
  /\ closer[c] = "waiting" /\ NoActiveOperation
  /\ closer' = [closer EXCEPT ![c] = "closing"]
  /\ awaited' = {f \in Futures : phase[f] \in {"draining", "drained"}}
  /\ driver' = "pending"
  /\ store' = IF store = "closed" THEN "closed" ELSE "closing"
  /\ UNCHANGED <<state, requestVars, cache, callVars>>

\* asyncio.gather of the draining calls (seeded fault: it is skipped).
DrainNotAwaited(f) == TRUE
Drained(f)         == phase[f] # "draining"

\* _close_driver_after_draining reaches driver.close().
DriverCloseStart ==
  /\ driver = "pending"
  /\ \A f \in awaited : Drained(f)
  /\ driver' = "closing"
  /\ awaited' = {}
  /\ UNCHANGED <<state, requestVars, cache, callVars, closer, store>>

DriverCloseDone ==
  /\ driver = "closing"
  /\ driver' \in {"closed", "failed"}
  /\ UNCHANGED <<state, requestVars, cache, callVars, closer, awaited, store>>

StoreCloseDone ==
  /\ store = "closing"
  /\ store' \in {"closed", "failed"}
  /\ UNCHANGED <<state, requestVars, cache, callVars, closer, awaited, driver>>

\* gather with return_exceptions (seeded fault: only success ends the wait).
BothSucceeded == driver = "closed" /\ store = "closed"
BothEnded     == driver \in {"closed", "failed"} /\ store \in {"closed", "failed"}

\* The state close() leaves (seeded fault: one success is enough).
OutcomeOptimistic == IF driver = "closed" \/ store = "closed" THEN "closed" ELSE "close_failed"
Outcome           == IF driver = "closed" /\ store = "closed" THEN "closed" ELSE "close_failed"

\* The results are in; a first cancellation did not cut the wait short.
CloseFinish(c) ==
  /\ closer[c] \in {"closing", "cancelled"} /\ BothEnded
  /\ closer' = [closer EXCEPT ![c] = "idle"]
  /\ state' = Outcome
  /\ UNCHANGED <<requestVars, cache, callVars, awaited, driver, store>>

\* A cancellation before both closes are started ends the call.
CloseCancelEarly(c) ==
  /\ closer[c] \in {"locking", "waiting"}
  /\ closer' = [closer EXCEPT ![c] = "idle"]
  /\ UNCHANGED <<state, requestVars, cache, callVars, awaited, driver, store>>

\* A cancellation of the shielded wait, and a second one, which reaches the
\* closing coroutines: a driver still waiting for drains is then not closed.
CloseCancelLate(c) ==
  /\ \/ /\ closer[c] = "closing"
        /\ closer' = [closer EXCEPT ![c] = "cancelled"]
        /\ UNCHANGED <<awaited, driver>>
     \/ /\ closer[c] = "cancelled"
        /\ closer' = [closer EXCEPT ![c] = "abandoned"]
        /\ IF driver = "pending"
             THEN driver' = "failed" /\ awaited' = {}
             ELSE UNCHANGED <<awaited, driver>>
  /\ UNCHANGED <<state, requestVars, cache, callVars, store>>

\* The abandoned call leaves with CancelledError; _state stays "closing".
CloseAbandon(c) ==
  /\ closer[c] = "abandoned" /\ BothEnded
  /\ closer' = [closer EXCEPT ![c] = "idle"]
  /\ UNCHANGED <<state, requestVars, cache, callVars, awaited, driver, store>>

-----------------------------------------------------------------------------
Request(t) ==
  \/ Accept(t)
  \/ BeginHit(t) \/ BeginFree(t) \/ BeginWait(t) \/ BeginLimit(t)
  \/ Acquire(t)
  \/ CallReturns(t) \/ CallTimeout(t) \/ CancelCall(t) \/ CancelWait(t)
  \/ StoreReturns(t)

Close(c) ==
  \/ CloseCall(c) \/ CloseEnter(c) \/ CloseProceed(c) \/ CloseFinish(c)
  \/ CloseCancelEarly(c) \/ CloseCancelLate(c) \/ CloseAbandon(c)

Next ==
  \/ \E t \in Tasks : Request(t)
  \/ \E f \in Futures : DriverFinish(f) \/ Consume(f)
  \/ Expire
  \/ \E c \in Closers : Close(c)
  \/ DriverCloseStart \/ DriverCloseDone \/ StoreCloseDone

Spec == Init /\ [][Next]_vars

\* The event loop runs what is ready, locks are handed on, a driver wait is
\* bounded by its timeout, the store's worker thread ends.  No assumption is
\* made about the driver.
TaskProgress(t) ==
  \/ BeginHit(t) \/ BeginFree(t) \/ BeginWait(t) \/ BeginLimit(t)
  \/ Acquire(t) \/ CallReturns(t) \/ CallTimeout(t) \/ StoreReturns(t)

CloseProgress(c) ==
  CloseEnter(c) \/ CloseProceed(c) \/ CloseFinish(c) \/ CloseAbandon(c)

FairSpec ==
  /\ Spec
  /\ \A t \in Tasks : WF_vars(TaskProgress(t))
  /\ \A f \in Futures : WF_vars(Consume(f))
  /\ \A c \in Closers : WF_vars(CloseProgress(c))
  /\ WF_vars(DriverCloseStart) /\ WF_vars(StoreCloseDone)

\* A driver that ends what it started.
DrainingDriver ==
  (\A f \in Futures : WF_vars(DriverFinish(f))) /\ WF_vars(DriverCloseDone)

-----------------------------------------------------------------------------
(* Properties.                                                             *)

\* The tasks inside _operation_guard.
Busy == {t \in Tasks : pc[t] # "idle"}

\* The driver works on these calls; nobody waits for a draining one.
Exchanging(f) == phase[f] \in {"running", "draining"}

\* No two driver calls for the same vehicle (or for the fleet list) are under
\* way at once, a timed-out or cancelled call that still drains included: what
\* _vehicle_locks and _draining_driver_fences are for.
NoOverlappingExchange ==
  \A f, g \in Futures :
    Exchanging(f) /\ Exchanging(g) /\ SameSubject(target[f], target[g]) => f = g

\* The same for vehicles alone: per-vehicle locks prevent overlapping exchanges,
\* and a vehicle is fenced until a timed-out exchange has drained.
VehicleExchangesDisjoint ==
  \A f, g \in Futures :
    /\ Exchanging(f) /\ Exchanging(g)
    /\ target[f].kind # "vehicles" /\ target[g].kind # "vehicles"
    /\ target[f].vehicle = target[g].vehicle
    => f = g

\* _active_operations counts the requests inside _operation_guard, so that
\* close() waits for all of them and not for ever.
ActiveCounts == active = Cardinality(Busy)

\* While driver.close() runs, and once the service is closed, no driver call is
\* under way and no request is being served: the order close() and
\* _close_driver_after_draining establish.
CloseIsQuiescent ==
  driver = "closing" \/ state = "closed" =>
    /\ \A f \in Futures : ~Exchanging(f)
    /\ \A t \in Tasks : pc[t] = "idle"

\* Neither table outgrows its limit: one lock per vehicle up to MAX_VEHICLES,
\* cached answers up to max_cache_entries.
TablesBounded ==
  Cardinality(Mapped) <= MaxVehicles /\ Len(cache) <= MaxCacheEntries

\* A service that says it is closed has released both resources, also after
\* failed and abandoned attempts.
ClosedMeansReleased == state = "closed" => driver = "closed" /\ store = "closed"

\* Shutdown is final: a service that began to close never admits a request
\* again, and a closed service is never put back to closing by another close().
ShutdownIsFinal ==
  [][ /\ state # "open" => \A t \in Tasks : pc[t] = "idle" => pc'[t] = "idle"
      /\ state = "closed" => state' = "closed" ]_vars

\* Every request ends, even when the driver never answers: waits for locks are
\* FIFO and every wait for the driver times out.
RequestsTerminate == \A t \in Tasks : pc[t] # "idle" ~> pc[t] = "idle"

\* With a driver that ends what it started, every close() returns.
CloseReturns ==
  DrainingDriver => \A c \in Closers : closer[c] # "idle" ~> closer[c] = "idle"

Exchange(v) ==
  IF \E f \in Futures : phase[f] = "running" /\ target[f].vehicle = v THEN "wanted"
  ELSE IF \E f \in Futures : phase[f] = "draining" /\ target[f].vehicle = v THEN "draining"
  ELSE "none"

Promise == INSTANCE ExclusiveExchange WITH
  Subjects <- FenceKeys,
  exchange <- [k \in FenceKeys |-> Exchange(k)],
  closing  <- driver = "closing"

\* The service keeps its promise to the driver (module ExclusiveExchange).
KeepsPromise == Promise!Spec

-----------------------------------------------------------------------------
(* Why the properties hold: the parts of the inductive invariant.           *)

\* What a task at each place has in hand.
Serving ==
  \A t \in Tasks :
    /\ pc[t] # "idle" => req[t] \in Requests
    /\ pc[t] \in {"ready", "queued", "calling"} => key[t] \in Keys
    /\ pc[t] \in {"queued", "calling"} => lockOf[t] \in AllLocks
    /\ pc[t] = "calling" => futOf[t] \in Futures

\* The lock that guards calls for key k.
GuardOf(k) == IF k.kind = "vehicles" THEN ListLock ELSE vehicleLocks[k.vehicle]

\* Vehicles have locks of their own; a task queues for, and holds, the lock of
\* the key it serves; a held lock has one holder.
LocksGuard ==
  /\ \A v, w \in Vehicles : vehicleLocks[v] # None /\ vehicleLocks[v] = vehicleLocks[w] => v = w
  /\ \A t \in Tasks : pc[t] \in {"queued", "calling"} => lockOf[t] = GuardOf(key[t])
  /\ \A t, u \in Tasks :
       pc[t] = "calling" /\ pc[u] = "calling" /\ lockOf[t] = lockOf[u] => t = u

\* Every call that was not given up belongs to a task that waits for it.
CallsOwned ==
  /\ \A t \in Tasks : pc[t] = "calling" =>
       phase[futOf[t]] \in {"running", "done"} /\ target[futOf[t]] = key[t]
  /\ \A f \in Futures : phase[f] \in {"running", "done"} =>
       \E t \in Tasks : pc[t] = "calling" /\ futOf[t] = f

\* Every draining call is fenced, no other call for its subject passed its fence,
\* and every fence belongs to a call that was given up under that key.
DrainsFenced ==
  /\ \A f \in Futures : phase[f] = "draining" =>
       target[f] \in Keys /\ fence[target[f].vehicle] = f
  /\ \A f, g \in Futures :
       phase[f] = "draining" /\ phase[g] \in {"running", "done"} =>
         ~SameSubject(target[f], target[g])
  /\ \A k \in FenceKeys : fence[k] # None =>
       phase[fence[k]] \in {"draining", "drained"} /\ target[fence[k]].vehicle = k

Exclusion == TypeOK /\ Serving /\ ActiveCounts /\ LocksGuard /\ CallsOwned /\ DrainsFenced

\* Where close() stands while the resources are being closed.
CloseOrder ==
  /\ \A c, d \in Closers : closer[c] \in ClosingPlaces /\ closer[d] \in ClosingPlaces => c = d
  /\ \A c \in Closers : closer[c] \in ClosingPlaces => state = "closing"
  /\ \A c \in Closers : closer[c] \in ClosingPlaces \ {"waiting"} => active = 0
  /\ driver \in {"pending", "closing"} =>
       \E c \in Closers : closer[c] \in ClosingPlaces \ {"waiting"}
  /\ driver = "pending" => \A f \in Futures : phase[f] = "draining" => f \in awaited
  /\ driver # "open" => state # "open" /\ active = 0
  /\ driver \in {"closing", "closed"} => \A f \in Futures : phase[f] # "draining"
  /\ state = "closed" => driver = "closed" /\ store = "closed"

=============================================================================
