---------------------- MODULE DiagnosticServiceProofs ----------------------
(***************************************************************************)
(* Proofs about DiagnosticService, for every number of tasks, vehicles,     *)
(* futures and locks.                                                       *)
(***************************************************************************)
EXTENDS DiagnosticService, FiniteSetTheorems, SequenceTheorems, TLAPS

-----------------------------------------------------------------------------
(* Lemmas about the operators of the specification.                         *)

\* The requests and the keys have the fields the code reads.
LEMMA KeyFields ==
  /\ ListKey \in Keys
  /\ \A k \in Keys : k.vehicle \in FenceKeys /\ (k.kind # "vehicles" => k.vehicle \in Vehicles)
  /\ \A r \in Requests : r.op \in VehicleOps => r.vehicle \in Vehicles
BY DEF Keys, ListKey, VehicleKeys, FenceKeys, Requests, ReadOps, VehicleOps

\* A request goes on to a key of its vehicle, or has no further key.
LEMMA NextKeyType ==
  ASSUME NEW r \in Requests, NEW k, NEW value
  PROVE  NextKey(r, k, value) \in Keys \cup {None}
BY KeyFields DEF NextKey, Keys, VehicleKeys, ReadOps, VehicleOps

\* Making room leaves a queue of entries.
LEMMA RoomType ==
  ASSUME TypeOK
  PROVE  Room \in Seq([key : Keys, value : Values])
<1>1. CASE Len(cache) < MaxCacheEntries
  BY <1>1 DEF TypeOK, Room
<1>2. CASE ~(Len(cache) < MaxCacheEntries)
  <2>1. cache # <<>>
    BY <1>2, ConstantsAssumption DEF TypeOK
  <2> QED
    BY <1>2, <2>1 DEF TypeOK, Room
<1> QED BY <1>1, <1>2

\* Storing an answer leaves a queue of entries.
LEMMA CacheWithType ==
  ASSUME TypeOK, NEW k \in Keys, NEW v \in Values
  PROVE  CacheWith(k, v) \in Seq([key : Keys, value : Values])
<1> DEFINE E == [key : Keys, value : Values]
           entry == [key |-> k, value |-> v]
<1>1. Room \in Seq(E)
  BY RoomType
<1>2. entry \in E
  OBVIOUS
<1>3. CASE \E i \in DOMAIN Room : Room[i].key = k
  <2>1. CacheWith(k, v) = [i \in DOMAIN Room |-> IF Room[i].key = k THEN entry ELSE Room[i]]
    BY <1>3 DEF CacheWith
  <2>2. DOMAIN Room = 1..Len(Room) /\ Len(Room) \in Nat
    BY <1>1
  <2>3. \A i \in 1..Len(Room) : Room[i] \in E
    BY <1>1, ElementOfSeq
  <2>4. CacheWith(k, v) \in [1..Len(Room) -> E]
    BY <1>2, <2>1, <2>2, <2>3
  <2> QED BY <2>2, <2>4, SeqDef
<1>4. CASE ~ \E i \in DOMAIN Room : Room[i].key = k
  <2>1. CacheWith(k, v) = Append(Room, entry)
    BY <1>4 DEF CacheWith
  <2> QED BY <1>1, <1>2, <2>1
<1> QED BY <1>3, <1>4

\* Answers are values.
LEMMA AnswersType == ASSUME NEW k \in Keys PROVE Answers(k) \subseteq Values
BY DEF Answers, Values

\* A task that leaves takes one from the count; it was counted before.
LEMMA LeaveCount ==
  ASSUME TypeOK, ActiveCounts, NEW t \in Tasks, pc[t] # "idle",
         pc' = [pc EXCEPT ![t] = "idle"], active' = active - 1
  PROVE  active' \in Nat /\ ActiveCounts'
<1>1. IsFiniteSet(Busy)
  BY FiniteAssumption, FS_Subset DEF Busy
<1>2. t \in Busy /\ Busy' = Busy \ {t}
  BY DEF Busy, TypeOK
<1>3. Cardinality(Busy \ {t}) = Cardinality(Busy) - 1
  BY <1>1, <1>2, FS_RemoveElement
<1>4. Cardinality(Busy \ {t}) \in Nat
  BY <1>1, FS_CardinalityType, FS_Subset
<1> QED BY <1>2, <1>3, <1>4 DEF ActiveCounts

\* A task that is admitted adds one.
LEMMA AcceptCount ==
  ASSUME TypeOK, ActiveCounts, NEW t \in Tasks, pc[t] = "idle", NEW p, p # "idle",
         pc' = [pc EXCEPT ![t] = p], active' = active + 1
  PROVE  active' \in Nat /\ ActiveCounts'
<1>1. IsFiniteSet(Busy)
  BY FiniteAssumption, FS_Subset DEF Busy
<1>2. t \notin Busy /\ Busy' = Busy \cup {t}
  BY DEF Busy, TypeOK
<1>3. Cardinality(Busy \cup {t}) = Cardinality(Busy) + 1
  BY <1>1, <1>2, FS_AddElement
<1> QED BY <1>2, <1>3 DEF ActiveCounts, TypeOK

\* A task that moves from one place inside the guard to another is still counted.
LEMMA StayCount ==
  ASSUME TypeOK, ActiveCounts, NEW t \in Tasks, pc[t] # "idle", NEW p, p # "idle",
         pc' = [pc EXCEPT ![t] = p], active' = active
  PROVE  active' \in Nat /\ ActiveCounts'
<1>1. Busy' = Busy
  BY DEF Busy, TypeOK
<1> QED BY <1>1 DEF ActiveCounts, TypeOK

\* Advancing a request keeps its bookkeeping and the count.
LEMMA AdvanceType ==
  ASSUME TypeOK, Serving, ActiveCounts,
         NEW t \in Tasks, pc[t] \in {"ready", "queued", "calling"},
         NEW value, Advance(t, value)
  PROVE  /\ \E p \in {"idle", "ready", "storing"} :
              /\ pc' = [pc EXCEPT ![t] = p]
              /\ p = "ready" => key'[t] \in Keys
         /\ req' \in [Tasks -> Requests \cup {None}]
         /\ key' \in [Tasks -> Keys \cup {None}]
         /\ \A u \in Tasks : u # t => req'[u] = req[u] /\ key'[u] = key[u]
         /\ pc'[t] # "idle" => req'[t] = req[t]
         /\ active' \in Nat
         /\ ActiveCounts'
<1> DEFINE next == NextKey(req[t], key[t], value)
<1>1. next \in Keys \cup {None} /\ req[t] \in Requests
  BY NextKeyType DEF Serving
<1>2. CASE /\ next # None
           /\ pc' = [pc EXCEPT ![t] = "ready"]
           /\ key' = [key EXCEPT ![t] = next]
           /\ UNCHANGED <<active, req>>
  <2>1. active' \in Nat /\ ActiveCounts'
    BY <1>2, StayCount
  <2> QED BY <1>1, <1>2, <2>1 DEF TypeOK
<1>3. CASE /\ pc' = [pc EXCEPT ![t] = "storing"]
           /\ key' = [key EXCEPT ![t] = None]
           /\ UNCHANGED <<active, req>>
  <2>1. active' \in Nat /\ ActiveCounts'
    BY <1>3, StayCount
  <2> QED BY <1>1, <1>3, <2>1 DEF TypeOK
<1>4. CASE Leave(t)
  <2>1. active' \in Nat /\ ActiveCounts'
    BY <1>4, LeaveCount DEF Leave, CountOut
  <2> QED BY <1>4, <2>1 DEF TypeOK, Leave
<1> QED BY <1>2, <1>3, <1>4 DEF Advance

\* Leaving does so too.
LEMMA LeaveType ==
  ASSUME TypeOK, Serving, ActiveCounts,
         NEW t \in Tasks, pc[t] # "idle", Leave(t)
  PROVE  /\ pc' = [pc EXCEPT ![t] = "idle"]
         /\ req' \in [Tasks -> Requests \cup {None}]
         /\ key' \in [Tasks -> Keys \cup {None}]
         /\ \A u \in Tasks : u # t => req'[u] = req[u] /\ key'[u] = key[u]
         /\ active' \in Nat
         /\ ActiveCounts'
<1>1. active' \in Nat /\ ActiveCounts'
  BY LeaveCount DEF Leave, CountOut
<1> QED BY <1>1 DEF TypeOK, Leave

\* So does going on with a cached value, or being refused it.
LEMMA FromCacheType ==
  ASSUME TypeOK, Serving, ActiveCounts,
         NEW t \in Tasks, pc[t] \in {"ready", "queued"}, FromCache(t)
  PROVE  /\ \E p \in {"idle", "ready", "storing"} :
              /\ pc' = [pc EXCEPT ![t] = p]
              /\ p = "ready" => key'[t] \in Keys
         /\ req' \in [Tasks -> Requests \cup {None}]
         /\ key' \in [Tasks -> Keys \cup {None}]
         /\ \A u \in Tasks : u # t => req'[u] = req[u] /\ key'[u] = key[u]
         /\ pc'[t] # "idle" => req'[t] = req[t]
         /\ active' \in Nat
         /\ ActiveCounts'
<1> DEFINE value == Cached(key[t])
<1>1. Advance(t, value) \/ Leave(t)
  BY DEF FromCache
<1> HIDE DEF value
<1>2. CASE Advance(t, value)
  BY <1>2, AdvanceType
<1>3. CASE Leave(t)
  BY <1>3, LeaveType DEF TypeOK
<1> QED BY <1>1, <1>2, <1>3

\* A new future is a free element of the pool.
LEMMA NewFutureType ==
  ASSUME \E f \in Futures : phase[f] = "free"
  PROVE  NewFuture \in Futures /\ phase[NewFuture] = "free"
BY DEF NewFuture

\* Looking a lock up leaves a lock map, and returns a lock.
LEMMA LockLookupType ==
  ASSUME TypeOK, NEW k \in Keys, NEW l \in AllLocks, LockLookup(k, l)
  PROVE  vehicleLocks' \in [Vehicles -> Locks \cup {None}]
<1>1. \A m \in Evicted : m \in [Vehicles -> Locks \cup {None}]
  BY DEF Evicted, TypeOK
<1>2. CASE UNCHANGED vehicleLocks
  BY <1>2 DEF TypeOK
<1>3. CASE /\ Fresh(l)
           /\ \E m \in Evicted : vehicleLocks' = [m EXCEPT ![k.vehicle] = l]
  <2>1. l \in Locks
    BY <1>3 DEF Fresh
  <2>2. PICK m \in Evicted : vehicleLocks' = [m EXCEPT ![k.vehicle] = l]
    BY <1>3
  <2>3. m \in [Vehicles -> Locks \cup {None}]
    BY <1>1
  <2> QED BY <2>1, <2>2, <2>3
<1> QED BY <1>2, <1>3 DEF LockLookup

\* Entering a lock: its effect on a task and on the calls.
LEMMA EnterType ==
  ASSUME TypeOK, Serving, ActiveCounts,
         NEW t \in Tasks, pc[t] \in {"ready", "queued"},
         NEW l \in AllLocks, Enter(t, l)
  PROVE  /\ \E p \in {"idle", "ready", "storing", "calling"} :
              /\ pc' = [pc EXCEPT ![t] = p]
              /\ p \in {"ready", "calling"} => key'[t] \in Keys
              /\ p = "calling" => lockOf'[t] = l /\ futOf'[t] \in Futures
         /\ req' \in [Tasks -> Requests \cup {None}]
         /\ key' \in [Tasks -> Keys \cup {None}]
         /\ lockOf' \in [Tasks -> AllLocks \cup {None}]
         /\ futOf' \in [Tasks -> Futures \cup {None}]
         /\ \A u \in Tasks : u # t =>
              req'[u] = req[u] /\ key'[u] = key[u] /\ lockOf'[u] = lockOf[u] /\ futOf'[u] = futOf[u]
         /\ pc'[t] # "idle" => req'[t] = req[t]
         /\ phase' \in [Futures -> CallPhases]
         /\ target' \in [Futures -> Keys \cup {None}]
         /\ fence' = fence
         /\ active' \in Nat
         /\ ActiveCounts'
<1>1. CASE /\ FromCache(t)
           /\ lockOf' = [lockOf EXCEPT ![t] = None]
           /\ UNCHANGED <<futOf, callVars>>
  <2>3. PICK p \in {"idle", "ready", "storing"} :
          /\ pc' = [pc EXCEPT ![t] = p]
          /\ p = "ready" => key'[t] \in Keys
    BY <1>1, FromCacheType
  <2>4. /\ req' \in [Tasks -> Requests \cup {None}]
        /\ key' \in [Tasks -> Keys \cup {None}]
        /\ \A u \in Tasks : u # t => req'[u] = req[u] /\ key'[u] = key[u]
        /\ pc'[t] # "idle" => req'[t] = req[t]
        /\ active' \in Nat
        /\ ActiveCounts'
    BY <1>1, FromCacheType
  <2>5. /\ lockOf' \in [Tasks -> AllLocks \cup {None}]
        /\ \A u \in Tasks : u # t => lockOf'[u] = lockOf[u]
        /\ UNCHANGED <<futOf, phase, target, fence>>
    BY <1>1 DEF TypeOK, callVars
  <2> QED BY <2>3, <2>4, <2>5 DEF TypeOK
<1>2. CASE /\ Leave(t)
           /\ lockOf' = [lockOf EXCEPT ![t] = None]
           /\ UNCHANGED <<futOf, callVars>>
  <2>1. /\ pc' = [pc EXCEPT ![t] = "idle"]
        /\ req' \in [Tasks -> Requests \cup {None}]
        /\ key' \in [Tasks -> Keys \cup {None}]
        /\ \A u \in Tasks : u # t => req'[u] = req[u] /\ key'[u] = key[u]
        /\ active' \in Nat
        /\ ActiveCounts'
    BY <1>2, LeaveType
  <2> QED BY <1>2, <2>1 DEF TypeOK, callVars
<1>3. CASE /\ \E f \in Futures : phase[f] = "free"
           /\ phase' = [phase EXCEPT ![NewFuture] = "running"]
           /\ target' = [target EXCEPT ![NewFuture] = key[t]]
           /\ futOf' = [futOf EXCEPT ![t] = NewFuture]
           /\ pc' = [pc EXCEPT ![t] = "calling"]
           /\ lockOf' = [lockOf EXCEPT ![t] = l]
           /\ UNCHANGED <<active, req, key, fence>>
  <2>1. NewFuture \in Futures
    BY <1>3, NewFutureType
  <2>2. active' \in Nat /\ ActiveCounts'
    BY <1>3, StayCount
  <2>3. key[t] \in Keys
    BY DEF Serving
  <2> QED BY <1>3, <2>1, <2>2, <2>3 DEF TypeOK, CallPhases
<1> QED BY <1>1, <1>2, <1>3 DEF Enter

-----------------------------------------------------------------------------
(* Types, bookkeeping and the operation count.                              *)

LEMMA InitTyped == Init => TypeOK /\ Serving /\ ActiveCounts
<1> SUFFICES ASSUME Init PROVE TypeOK /\ Serving /\ ActiveCounts
  OBVIOUS
<1>1. TypeOK
  BY DEF Init, TypeOK, TaskPlaces, CallPhases, ClosePlaces, DriverStates, StoreStates
<1>2. Serving
  BY DEF Init, Serving
<1>3. Busy = {}
  BY DEF Init, Busy
<1>4. ActiveCounts
  BY <1>3, FS_EmptySet DEF Init, ActiveCounts
<1> QED BY <1>1, <1>2, <1>4

\* A task that leaves, with the rest of the state well typed.
LEMMA LeaveTyped ==
  ASSUME TypeOK, Serving, ActiveCounts,
         NEW t \in Tasks, pc[t] # "idle", Leave(t),
         UNCHANGED <<state, vehicleLocks, closer, awaited, driver, store, cache>>,
         waiters' \in [AllLocks -> Seq(Tasks)],
         lockOf' \in [Tasks -> AllLocks \cup {None}],
         futOf' \in [Tasks -> Futures \cup {None}],
         \A u \in Tasks : u # t => lockOf'[u] = lockOf[u] /\ futOf'[u] = futOf[u],
         phase' \in [Futures -> CallPhases],
         target' \in [Futures -> Keys \cup {None}],
         fence' \in [FenceKeys -> Futures \cup {None}]
  PROVE  TypeOK' /\ Serving' /\ ActiveCounts'
<1>1. /\ pc' = [pc EXCEPT ![t] = "idle"]
      /\ req' \in [Tasks -> Requests \cup {None}]
      /\ key' \in [Tasks -> Keys \cup {None}]
      /\ \A u \in Tasks : u # t => req'[u] = req[u] /\ key'[u] = key[u]
      /\ active' \in Nat
      /\ ActiveCounts'
  BY LeaveType
<1>2. TypeOK'
  BY <1>1 DEF TypeOK, TaskPlaces
<1>3. Serving'
  BY <1>1 DEF Serving, TypeOK
<1> QED BY <1>1, <1>2, <1>3

\* A task that enters a lock, with the rest of the state well typed.
LEMMA EnterTyped ==
  ASSUME TypeOK, Serving, ActiveCounts,
         NEW t \in Tasks, pc[t] \in {"ready", "queued"},
         NEW l \in AllLocks, Enter(t, l),
         UNCHANGED <<state, cache, closeVars>>,
         waiters' \in [AllLocks -> Seq(Tasks)],
         vehicleLocks' \in [Vehicles -> Locks \cup {None}]
  PROVE  TypeOK' /\ Serving' /\ ActiveCounts'
<1>1. PICK p \in {"idle", "ready", "storing", "calling"} :
        /\ pc' = [pc EXCEPT ![t] = p]
        /\ p \in {"ready", "calling"} => key'[t] \in Keys
        /\ p = "calling" => lockOf'[t] = l /\ futOf'[t] \in Futures
  BY EnterType
<1>2. /\ req' \in [Tasks -> Requests \cup {None}]
      /\ key' \in [Tasks -> Keys \cup {None}]
      /\ lockOf' \in [Tasks -> AllLocks \cup {None}]
      /\ futOf' \in [Tasks -> Futures \cup {None}]
      /\ \A u \in Tasks : u # t =>
           req'[u] = req[u] /\ key'[u] = key[u] /\ lockOf'[u] = lockOf[u] /\ futOf'[u] = futOf[u]
      /\ pc'[t] # "idle" => req'[t] = req[t]
      /\ phase' \in [Futures -> CallPhases]
      /\ target' \in [Futures -> Keys \cup {None}]
      /\ fence' = fence
      /\ active' \in Nat
      /\ ActiveCounts'
  BY EnterType
<1>3. TypeOK'
  BY <1>1, <1>2 DEF TypeOK, closeVars, TaskPlaces
<1>4. Serving'
  BY <1>1, <1>2 DEF Serving, TypeOK
<1> QED BY <1>2, <1>3, <1>4

\* The steps of a request.
LEMMA RequestTyped ==
  ASSUME TypeOK, Serving, ActiveCounts, NEW t \in Tasks, Request(t)
  PROVE  TypeOK' /\ Serving' /\ ActiveCounts'
<1>1. ASSUME Accept(t) PROVE TypeOK' /\ Serving' /\ ActiveCounts'
  <2>1. PICK r \in Requests :
          /\ req' = [req EXCEPT ![t] = r]
          /\ IF r.op \in StoreOps
               THEN pc' = [pc EXCEPT ![t] = "storing"] /\ UNCHANGED key
               ELSE pc' = [pc EXCEPT ![t] = "ready"] /\ key' = [key EXCEPT ![t] = ListKey]
    BY <1>1 DEF Accept
  <2>2. active' \in Nat /\ ActiveCounts'
    <3>1. pc' = [pc EXCEPT ![t] = "storing"] \/ pc' = [pc EXCEPT ![t] = "ready"]
      BY <2>1
    <3> QED BY <1>1, <3>1, AcceptCount DEF Accept
  <2>3. UNCHANGED <<state, lockOf, futOf, waiters, vehicleLocks, cache, callVars, closeVars>>
    BY <1>1 DEF Accept
  <2>4. TypeOK'
    BY <2>1, <2>2, <2>3, KeyFields DEF TypeOK, callVars, closeVars, TaskPlaces
  <2>5. Serving'
    BY <2>1, <2>3, KeyFields DEF Serving, TypeOK, callVars, closeVars
  <2> QED BY <2>2, <2>4, <2>5
<1>2. ASSUME BeginHit(t) PROVE TypeOK' /\ Serving' /\ ActiveCounts'
  <2>1. /\ pc[t] = "ready" /\ FromCache(t)
        /\ UNCHANGED <<state, lockOf, futOf, waiters, cache, callVars, closeVars>>
        /\ \E l \in AllLocks : LockLookup(key[t], l)
    BY <1>2 DEF BeginHit
  <2>2. vehicleLocks' \in [Vehicles -> Locks \cup {None}]
    BY <2>1, LockLookupType DEF Serving
  <2>4. PICK p \in {"idle", "ready", "storing"} :
          /\ pc' = [pc EXCEPT ![t] = p]
          /\ p = "ready" => key'[t] \in Keys
    BY <2>1, FromCacheType
  <2>5. /\ req' \in [Tasks -> Requests \cup {None}]
        /\ key' \in [Tasks -> Keys \cup {None}]
        /\ \A u \in Tasks : u # t => req'[u] = req[u] /\ key'[u] = key[u]
        /\ pc'[t] # "idle" => req'[t] = req[t]
        /\ active' \in Nat
        /\ ActiveCounts'
    BY <2>1, FromCacheType
  <2>6. TypeOK'
    BY <2>1, <2>2, <2>4, <2>5 DEF TypeOK, callVars, closeVars, TaskPlaces
  <2>7. Serving'
    BY <2>1, <2>4, <2>5 DEF Serving, TypeOK
  <2> QED BY <2>5, <2>6, <2>7
<1>3. ASSUME BeginFree(t) PROVE TypeOK' /\ Serving' /\ ActiveCounts'
  <2>1. PICK l \in AllLocks : LockLookup(key[t], l) /\ Enter(t, l)
    BY <1>3 DEF BeginFree
  <2>2. pc[t] = "ready" /\ UNCHANGED <<state, waiters, cache, closeVars>>
    BY <1>3 DEF BeginFree
  <2>3. vehicleLocks' \in [Vehicles -> Locks \cup {None}]
    BY <2>1, <2>2, LockLookupType DEF Serving
  <2>4. waiters' \in [AllLocks -> Seq(Tasks)]
    BY <2>2 DEF TypeOK
  <2> QED BY <2>1, <2>2, <2>3, <2>4, EnterTyped
<1>4. ASSUME BeginWait(t) PROVE TypeOK' /\ Serving' /\ ActiveCounts'
  <2>1. PICK l \in AllLocks :
          /\ LockLookup(key[t], l)
          /\ lockOf' = [lockOf EXCEPT ![t] = l]
          /\ waiters' = [waiters EXCEPT ![l] = Append(@, t)]
    BY <1>4 DEF BeginWait
  <2>2. /\ pc[t] = "ready" /\ pc' = [pc EXCEPT ![t] = "queued"]
        /\ UNCHANGED <<state, active, req, key, futOf, cache, callVars, closeVars>>
    BY <1>4 DEF BeginWait
  <2>3. vehicleLocks' \in [Vehicles -> Locks \cup {None}]
    BY <2>1, <2>2, LockLookupType DEF Serving
  <2>4. active' \in Nat /\ ActiveCounts'
    BY <2>2, StayCount
  <2>5. waiters' \in [AllLocks -> Seq(Tasks)]
    BY <2>1 DEF TypeOK
  <2>6. TypeOK'
    BY <2>1, <2>2, <2>3, <2>4, <2>5 DEF TypeOK, callVars, closeVars, TaskPlaces
  <2>7. Serving'
    BY <2>1, <2>2 DEF Serving, TypeOK
  <2> QED BY <2>4, <2>6, <2>7
<1>5. ASSUME BeginLimit(t) PROVE TypeOK' /\ Serving' /\ ActiveCounts'
  <2>1. /\ pc[t] # "idle" /\ Leave(t)
        /\ UNCHANGED <<state, lockOf, futOf, waiters, vehicleLocks, cache, callVars, closeVars>>
    BY <1>5 DEF BeginLimit
  <2> QED BY <2>1, LeaveTyped DEF TypeOK, callVars, closeVars
<1>6. ASSUME Acquire(t) PROVE TypeOK' /\ Serving' /\ ActiveCounts'
  <2> DEFINE l == lockOf[t]
  <2>1. pc[t] = "queued" /\ l \in AllLocks /\ waiters[l] # <<>>
    BY <1>6 DEF Acquire, Serving
  <2>2. /\ waiters' = [waiters EXCEPT ![l] = Tail(@)]
        /\ Enter(t, l)
        /\ UNCHANGED <<state, vehicleLocks, cache, closeVars>>
    BY <1>6 DEF Acquire
  <2>3. waiters' \in [AllLocks -> Seq(Tasks)]
    BY <2>1, <2>2 DEF TypeOK
  <2> QED BY <2>1, <2>2, <2>3, EnterTyped DEF TypeOK
<1>7. ASSUME CallReturns(t) PROVE TypeOK' /\ Serving' /\ ActiveCounts'
  <2>1. /\ pc[t] = "calling" /\ futOf[t] \in Futures /\ key[t] \in Keys
        /\ phase' = [phase EXCEPT ![futOf[t]] = "free"]
        /\ target' = [target EXCEPT ![futOf[t]] = None]
        /\ lockOf' = [lockOf EXCEPT ![t] = None]
        /\ futOf' = [futOf EXCEPT ![t] = None]
        /\ UNCHANGED <<state, waiters, vehicleLocks, fence, closeVars>>
    BY <1>7 DEF CallReturns, Serving
  <2>2. CASE \E value \in Answers(key[t]) :
               cache' = CacheWith(key[t], value) /\ Advance(t, value)
    <3>1. PICK value \in Answers(key[t]) :
            cache' = CacheWith(key[t], value) /\ Advance(t, value)
      BY <2>2
    <3>2. cache' \in Seq([key : Keys, value : Values])
      BY <2>1, <3>1, CacheWithType, AnswersType
    <3>3. PICK p \in {"idle", "ready", "storing"} :
            /\ pc' = [pc EXCEPT ![t] = p]
            /\ p = "ready" => key'[t] \in Keys
      BY <2>1, <3>1, AdvanceType
    <3>4. /\ req' \in [Tasks -> Requests \cup {None}]
          /\ key' \in [Tasks -> Keys \cup {None}]
          /\ \A u \in Tasks : u # t => req'[u] = req[u] /\ key'[u] = key[u]
          /\ pc'[t] # "idle" => req'[t] = req[t]
          /\ active' \in Nat
          /\ ActiveCounts'
      BY <2>1, <3>1, AdvanceType
    <3>5. TypeOK'
      BY <2>1, <3>2, <3>3, <3>4 DEF TypeOK, closeVars, TaskPlaces, CallPhases
    <3>6. Serving'
      BY <2>1, <3>3, <3>4 DEF Serving, TypeOK
    <3> QED BY <3>4, <3>5, <3>6
  <2>3. CASE Leave(t) /\ UNCHANGED cache
    <3>1. /\ phase' \in [Futures -> CallPhases]
          /\ target' \in [Futures -> Keys \cup {None}]
          /\ lockOf' \in [Tasks -> AllLocks \cup {None}]
          /\ futOf' \in [Tasks -> Futures \cup {None}]
          /\ \A u \in Tasks : u # t => lockOf'[u] = lockOf[u] /\ futOf'[u] = futOf[u]
      BY <2>1 DEF TypeOK, CallPhases
    <3> QED BY <2>1, <2>3, <3>1, LeaveTyped DEF TypeOK, closeVars
  <2> QED BY <1>7, <2>2, <2>3 DEF CallReturns
<1>8. ASSUME GiveUp(t), pc[t] = "calling" PROVE TypeOK' /\ Serving' /\ ActiveCounts'
  <2>1. /\ pc[t] = "calling" /\ futOf[t] \in Futures /\ key[t] \in Keys /\ Leave(t)
        /\ phase' = [phase EXCEPT ![futOf[t]] = IF @ = "running" THEN "draining" ELSE "drained"]
        /\ fence' = [fence EXCEPT ![key[t].vehicle] = futOf[t]]
        /\ lockOf' = [lockOf EXCEPT ![t] = None]
        /\ futOf' = [futOf EXCEPT ![t] = None]
        /\ UNCHANGED <<state, waiters, vehicleLocks, cache, target, closeVars>>
    BY <1>8 DEF GiveUp, Serving
  <2>2. /\ phase' \in [Futures -> CallPhases]
        /\ fence' \in [FenceKeys -> Futures \cup {None}]
        /\ lockOf' \in [Tasks -> AllLocks \cup {None}]
        /\ futOf' \in [Tasks -> Futures \cup {None}]
        /\ \A u \in Tasks : u # t => lockOf'[u] = lockOf[u] /\ futOf'[u] = futOf[u]
    BY <2>1 DEF TypeOK, CallPhases
  <2> QED BY <2>1, <2>2, LeaveTyped DEF TypeOK, closeVars
<1>9. ASSUME CancelWait(t) PROVE TypeOK' /\ Serving' /\ ActiveCounts'
  <2> DEFINE l == lockOf[t]
  <2>1. /\ pc[t] = "queued" /\ l \in AllLocks /\ Leave(t)
        /\ lockOf' = [lockOf EXCEPT ![t] = None]
        /\ UNCHANGED <<state, futOf, vehicleLocks, cache, callVars, closeVars>>
    BY <1>9 DEF CancelWait, Serving
  <2>2. PICK i \in DOMAIN waiters[l] :
          waiters' = [waiters EXCEPT ![l] = SubSeq(@, 1, i - 1) \o SubSeq(@, i + 1, Len(@))]
    BY <1>9 DEF CancelWait
  <2>3. waiters[l] \in Seq(Tasks) /\ i \in 1..Len(waiters[l])
    BY <2>1, <2>2 DEF TypeOK
  <2>4. SubSeq(waiters[l], 1, i - 1) \o SubSeq(waiters[l], i + 1, Len(waiters[l])) \in Seq(Tasks)
    BY <2>3
  <2>5. waiters' \in [AllLocks -> Seq(Tasks)]
    BY <2>1, <2>2, <2>4 DEF TypeOK
  <2>6. /\ lockOf' \in [Tasks -> AllLocks \cup {None}]
        /\ \A u \in Tasks : u # t => lockOf'[u] = lockOf[u]
    BY <2>1 DEF TypeOK
  <2> QED BY <2>1, <2>5, <2>6, LeaveTyped DEF TypeOK, callVars, closeVars
<1>10. ASSUME StoreReturns(t) PROVE TypeOK' /\ Serving' /\ ActiveCounts'
  <2>1. /\ pc[t] # "idle" /\ Leave(t)
        /\ UNCHANGED <<state, lockOf, futOf, waiters, vehicleLocks, cache, callVars, closeVars>>
    BY <1>10 DEF StoreReturns
  <2> QED BY <2>1, LeaveTyped DEF TypeOK, callVars, closeVars
<1> QED
  BY <1>1, <1>2, <1>3, <1>4, <1>5, <1>6, <1>7, <1>8, <1>9, <1>10
     DEF Request, CallTimeout, TimesOut, CancelCall

\* The steps of driver calls, of the cache and of close() leave tasks alone.
LEMMA OtherTyped ==
  ASSUME TypeOK, Serving, ActiveCounts, UNCHANGED requestVars,
         state' \in {"open", "closing", "closed", "close_failed"},
         cache' \in Seq([key : Keys, value : Values]),
         phase' \in [Futures -> CallPhases],
         target' \in [Futures -> Keys \cup {None}],
         fence' \in [FenceKeys -> Futures \cup {None}],
         closer' \in [Closers -> ClosePlaces],
         awaited' \in SUBSET Futures, driver' \in DriverStates, store' \in StoreStates
  PROVE  TypeOK' /\ Serving' /\ ActiveCounts'
BY DEF TypeOK, Serving, ActiveCounts, Busy, requestVars

LEMMA CallTyped ==
  ASSUME TypeOK, Serving, ActiveCounts, NEW f \in Futures, DriverFinish(f) \/ Consume(f)
  PROVE  TypeOK' /\ Serving' /\ ActiveCounts'
<1>1. CASE DriverFinish(f)
  <2>1. phase' \in [Futures -> CallPhases]
    BY <1>1 DEF DriverFinish, TypeOK, CallPhases
  <2> QED BY <1>1, <2>1, OtherTyped DEF DriverFinish, TypeOK, closeVars
<1>2. CASE Consume(f)
  <2>1. /\ phase' \in [Futures -> CallPhases]
        /\ target' \in [Futures -> Keys \cup {None}]
        /\ fence' \in [FenceKeys -> Futures \cup {None}]
    BY <1>2 DEF Consume, LiftFence, TypeOK, CallPhases
  <2> QED BY <1>2, <2>1, OtherTyped DEF Consume, TypeOK, closeVars
<1> QED BY <1>1, <1>2

LEMMA ExpireTyped ==
  ASSUME TypeOK, Serving, ActiveCounts, Expire
  PROVE  TypeOK' /\ Serving' /\ ActiveCounts'
<1>1. cache' \in Seq([key : Keys, value : Values])
  BY DEF Expire, TypeOK
<1> QED BY <1>1, OtherTyped DEF Expire, TypeOK, callVars, closeVars

LEMMA CloseTyped ==
  ASSUME TypeOK, Serving, ActiveCounts,
         (\E c \in Closers : Close(c)) \/ DriverCloseStart \/ DriverCloseDone \/ StoreCloseDone
  PROVE  TypeOK' /\ Serving' /\ ActiveCounts'
<1>1. /\ UNCHANGED requestVars /\ UNCHANGED cache /\ UNCHANGED callVars
      /\ state' \in {"open", "closing", "closed", "close_failed"}
  BY DEF Close, CloseCall, CloseEnter, CloseProceed, CloseFinish, CloseCancelEarly,
         CloseCancelLate, CloseAbandon, DriverCloseStart, DriverCloseDone, StoreCloseDone,
         TypeOK, Outcome
<1>2. closer' \in [Closers -> ClosePlaces]
  BY DEF Close, CloseCall, CloseEnter, CloseProceed, CloseFinish, CloseCancelEarly,
         CloseCancelLate, CloseAbandon, DriverCloseStart, DriverCloseDone, StoreCloseDone,
         TypeOK, ClosePlaces
<1>3. awaited' \in SUBSET Futures /\ driver' \in DriverStates /\ store' \in StoreStates
  BY DEF Close, CloseCall, CloseEnter, CloseProceed, CloseFinish, CloseCancelEarly,
         CloseCancelLate, CloseAbandon, DriverCloseStart, DriverCloseDone, StoreCloseDone,
         TypeOK, DriverStates, StoreStates
<1> QED BY <1>1, <1>2, <1>3, OtherTyped DEF TypeOK, callVars

LEMMA TypedInductive ==
  TypeOK /\ Serving /\ ActiveCounts /\ [Next]_vars => TypeOK' /\ Serving' /\ ActiveCounts'
<1> SUFFICES ASSUME TypeOK, Serving, ActiveCounts, [Next]_vars
             PROVE  TypeOK' /\ Serving' /\ ActiveCounts'
  OBVIOUS
<1>1. CASE \E t \in Tasks : Request(t)
  BY <1>1, RequestTyped
<1>2. CASE \E f \in Futures : DriverFinish(f) \/ Consume(f)
  BY <1>2, CallTyped
<1>3. CASE Expire
  BY <1>3, ExpireTyped
<1>4. CASE (\E c \in Closers : Close(c)) \/ DriverCloseStart \/ DriverCloseDone \/ StoreCloseDone
  BY <1>4, CloseTyped
<1>5. CASE UNCHANGED vars
  BY <1>5 DEF vars, requestVars, callVars, closeVars, TypeOK, Serving, ActiveCounts, Busy
<1> QED BY <1>1, <1>2, <1>3, <1>4, <1>5 DEF Next

\* Every variable keeps its type, in particular the operation count, which
\* never goes below zero.
THEOREM TypeCorrect == Spec => []TypeOK
<1>1. Init => TypeOK /\ Serving /\ ActiveCounts
  BY InitTyped
<1>2. TypeOK /\ Serving /\ ActiveCounts /\ [Next]_vars => TypeOK' /\ Serving' /\ ActiveCounts'
  BY TypedInductive
<1> QED BY <1>1, <1>2, PTL DEF Spec

\* The counter that close() waits on is the number of requests being served,
\* whatever way requests end.
THEOREM OperationsCounted == Spec => []ActiveCounts
<1>1. Init => TypeOK /\ Serving /\ ActiveCounts
  BY InitTyped
<1>2. TypeOK /\ Serving /\ ActiveCounts /\ [Next]_vars => TypeOK' /\ Serving' /\ ActiveCounts'
  BY TypedInductive
<1> QED BY <1>1, <1>2, PTL DEF Spec

-----------------------------------------------------------------------------
(* The limits of the lock map and of the cache.                             *)

\* A new lock finds its place below the limit, or takes that of an evicted one.
LEMMA LookupBounded ==
  ASSUME TypeOK, Cardinality(Mapped) <= MaxVehicles,
         NEW k \in Keys, NEW l \in AllLocks, LockLookup(k, l)
  PROVE  Cardinality(Mapped') <= MaxVehicles
<1>1. IsFiniteSet(Vehicles) /\ IsFiniteSet(Mapped) /\ Cardinality(Mapped) \in Nat
  BY FiniteAssumption, FS_Subset, FS_CardinalityType DEF Mapped
<1>2. CASE UNCHANGED vehicleLocks
  BY <1>2 DEF Mapped
<1>3. CASE /\ k.kind # "vehicles" /\ vehicleLocks[k.vehicle] = None
           /\ \E m \in Evicted : vehicleLocks' = [m EXCEPT ![k.vehicle] = l]
  <2> DEFINE x == k.vehicle
  <2>1. x \in Vehicles /\ x \notin Mapped
    BY <1>3, KeyFields DEF Mapped
  <2>2. CASE Cardinality(Mapped) < MaxVehicles
    <3>1. Mapped' \subseteq Mapped \cup {x}
      BY <1>3, <2>2 DEF Evicted, Mapped, TypeOK
    <3>2. IsFiniteSet(Mapped \cup {x}) /\ Cardinality(Mapped \cup {x}) = Cardinality(Mapped) + 1
      BY <1>1, <2>1, FS_AddElement
    <3>3. Cardinality(Mapped') <= Cardinality(Mapped) + 1 /\ Cardinality(Mapped') \in Nat
      BY <3>1, <3>2, FS_Subset, FS_CardinalityType
    <3> QED BY <1>1, <2>2, <3>3, ConstantsAssumption
  <2>3. CASE ~(Cardinality(Mapped) < MaxVehicles)
    <3>1. PICK v \in Mapped : vehicleLocks' = [[vehicleLocks EXCEPT ![v] = None] EXCEPT ![x] = l]
      BY <1>3, <2>3 DEF Evicted
    <3>2. Mapped' \subseteq (Mapped \ {v}) \cup {x}
      BY <3>1 DEF Mapped, TypeOK
    <3>3. /\ IsFiniteSet(Mapped \ {v}) /\ Cardinality(Mapped \ {v}) = Cardinality(Mapped) - 1
      BY <1>1, FS_RemoveElement
    <3>4. /\ IsFiniteSet((Mapped \ {v}) \cup {x})
          /\ Cardinality((Mapped \ {v}) \cup {x}) = Cardinality(Mapped)
      <4>1. x \notin Mapped \ {v}
        BY <2>1
      <4>2. Cardinality((Mapped \ {v}) \cup {x}) = Cardinality(Mapped \ {v}) + 1
        BY <3>3, <4>1, FS_AddElement
      <4>3. IsFiniteSet((Mapped \ {v}) \cup {x})
        BY <3>3, FS_AddElement
      <4> QED BY <1>1, <3>3, <4>2, <4>3
    <3>5. Cardinality(Mapped') <= Cardinality(Mapped) /\ Cardinality(Mapped') \in Nat
      BY <3>2, <3>4, FS_Subset, FS_CardinalityType
    <3> QED BY <1>1, <3>5, ConstantsAssumption
  <2> QED BY <2>2, <2>3
<1> QED BY <1>2, <1>3 DEF LockLookup

\* A new answer finds its place below the limit, or takes that of the oldest.
LEMMA CacheWithBounded ==
  ASSUME TypeOK, Len(cache) <= MaxCacheEntries, NEW k \in Keys, NEW v \in Values
  PROVE  Len(CacheWith(k, v)) <= MaxCacheEntries
<1> DEFINE entry == [key |-> k, value |-> v]
<1>1. Room \in Seq([key : Keys, value : Values])
  BY RoomType
<1>2. Len(Room) \in Nat /\ Len(Room) < MaxCacheEntries
  <2>1. CASE Len(cache) < MaxCacheEntries
    BY <2>1 DEF TypeOK, Room
  <2>2. CASE ~(Len(cache) < MaxCacheEntries)
    <3>1. cache # <<>>
      BY <2>2, ConstantsAssumption DEF TypeOK
    <3>2. Len(Tail(cache)) = Len(cache) - 1
      BY <3>1 DEF TypeOK
    <3> QED BY <2>2, <3>2, ConstantsAssumption DEF TypeOK, Room
  <2> QED BY <2>1, <2>2
<1>3. CASE \E i \in DOMAIN Room : Room[i].key = k
  <2>1. CacheWith(k, v) = [i \in DOMAIN Room |-> IF Room[i].key = k THEN entry ELSE Room[i]]
    BY <1>3 DEF CacheWith
  <2> DEFINE after == CacheWith(k, v)
  <2>2. DOMAIN after = DOMAIN Room
    BY <2>1
  <2>3. after \in Seq([key : Keys, value : Values])
    BY CacheWithType
  <2> HIDE DEF after
  <2>4. DOMAIN Room = 1..Len(Room)
    BY <1>1, LenProperties
  <2>5. DOMAIN after = 1..Len(after) /\ Len(after) \in Nat
    BY <2>3, LenProperties
  <2>6. Len(after) = Len(Room)
    BY <1>2, <2>2, <2>4, <2>5
  <2> QED BY <1>2, <2>6, ConstantsAssumption DEF after
<1>4. CASE ~ \E i \in DOMAIN Room : Room[i].key = k
  <2>1. CacheWith(k, v) = Append(Room, entry)
    BY <1>4 DEF CacheWith
  <2> QED BY <1>1, <1>2, <2>1, ConstantsAssumption
<1> QED BY <1>3, <1>4

LEMMA TablesInductive ==
  TypeOK /\ Serving /\ ActiveCounts /\ TablesBounded /\ [Next]_vars => TablesBounded'
<1> SUFFICES ASSUME TypeOK, Serving, TablesBounded, [Next]_vars PROVE TablesBounded'
  OBVIOUS
<1>1. Cardinality(Mapped') <= MaxVehicles
  <2>1. CASE UNCHANGED vehicleLocks
    BY <2>1 DEF TablesBounded, Mapped
  <2>2. ASSUME NEW t \in Tasks, pc[t] = "ready",
               \E l \in AllLocks : LockLookup(key[t], l)
        PROVE  Cardinality(Mapped') <= MaxVehicles
    BY <2>2, LookupBounded DEF TablesBounded, Serving
  <2>3. CASE \E t \in Tasks : BeginHit(t) \/ BeginFree(t) \/ BeginWait(t)
    BY <2>2, <2>3 DEF BeginHit, BeginFree, BeginWait
  <2>4. UNCHANGED vehicleLocks \/ \E t \in Tasks : BeginHit(t) \/ BeginFree(t) \/ BeginWait(t)
    BY DEF Next, Request, Accept, BeginLimit, Acquire, CallReturns, CallTimeout, TimesOut, CancelCall,
       GiveUp, CancelWait, StoreReturns, DriverFinish, Consume, Expire, Close, CloseCall,
       CloseEnter, CloseProceed, CloseFinish, CloseCancelEarly, CloseCancelLate, CloseAbandon,
       DriverCloseStart, DriverCloseDone, StoreCloseDone, vars, requestVars
  <2> QED BY <2>1, <2>3, <2>4
<1>2. Len(cache') <= MaxCacheEntries
  <2>1. CASE UNCHANGED cache
    BY <2>1 DEF TablesBounded
  <2>2. CASE Expire
    BY <2>2, ConstantsAssumption DEF Expire, TypeOK, TablesBounded
  <2>3. CASE \E t \in Tasks : CallReturns(t)
    <3>1. PICK t \in Tasks : CallReturns(t)
      BY <2>3
    <3>2. key[t] \in Keys
      BY <3>1 DEF CallReturns, Serving
    <3>3. UNCHANGED cache \/ \E value \in Answers(key[t]) : cache' = CacheWith(key[t], value)
      BY <3>1 DEF CallReturns
    <3> QED BY <3>2, <3>3, AnswersType, CacheWithBounded DEF TablesBounded
  <2>4. UNCHANGED cache \/ Expire \/ \E t \in Tasks : CallReturns(t)
    BY DEF Next, Request, Accept, BeginHit, BeginFree, BeginWait, BeginLimit, Acquire,
       CallTimeout, TimesOut, CancelCall, GiveUp, CancelWait, StoreReturns, DriverFinish, Consume,
       Close, CloseCall, CloseEnter, CloseProceed, CloseFinish, CloseCancelEarly,
       CloseCancelLate, CloseAbandon, DriverCloseStart, DriverCloseDone, StoreCloseDone, vars
  <2> QED BY <2>1, <2>2, <2>3, <2>4
<1> QED BY <1>1, <1>2 DEF TablesBounded

\* The lock map never holds more than MAX_VEHICLES locks and the cache never
\* more than its limit of answers.
THEOREM TablesStayBounded == Spec => []TablesBounded
<1>1. Init => TypeOK /\ Serving /\ ActiveCounts
  BY InitTyped
<1>2. Init => TablesBounded
  <2> SUFFICES ASSUME Init PROVE TablesBounded
    OBVIOUS
  <2>1. Mapped = {}
    BY DEF Init, Mapped
  <2> QED BY <2>1, FS_EmptySet, ConstantsAssumption DEF Init, TablesBounded
<1>3. TypeOK /\ Serving /\ ActiveCounts /\ [Next]_vars => TypeOK' /\ Serving' /\ ActiveCounts'
  BY TypedInductive
<1> QED BY <1>1, <1>2, <1>3, TablesInductive, PTL DEF Spec

=============================================================================
