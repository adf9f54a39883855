---------------------- MODULE DiagnosticServicePromise ----------------------
(***************************************************************************)
(* What the service promises the driver, proved: no two calls for one       *)
(* subject overlap, unless a vehicle is named like the fence of the fleet or *)
(* a lock is evicted while a task waits for it, which is what the runs      *)
(* fence_key_collision and lock_eviction_overlap show; close() is orderly, the *)
(* driver is closed only when no call is under way and no request is        *)
(* served; hence the service implements ExclusiveExchange.                  *)
(***************************************************************************)
EXTENDS DiagnosticServiceProofs

-----------------------------------------------------------------------------
(* No two calls for one subject overlap.                                    *)

\* No vehicle has the fleet's fence key for its id.
DistinctFences == FleetKey \notin Vehicles

\* A step takes no lock out of the map that a task waits for.  The code spares a
\* lock that is held; one that was released and not yet taken over is not.
SparesAwaited ==
  \A v \in Vehicles : vehicleLocks[v] # None /\ vehicleLocks'[v] # vehicleLocks[v] =>
    \A t \in Tasks : pc[t] = "queued" => lockOf[t] # vehicleLocks[v]

\* A step overwrites no fence of a call that still drains.
FencesKept ==
  \A k \in FenceKeys :
    fence[k] # None /\ phase[fence[k]] = "draining" => fence'[k] = fence[k]

\* Every vehicle that is ever named has room in the lock map: nothing is evicted.
NoEviction == Cardinality(Vehicles) <= MaxVehicles

\* Some task waits for, or holds, the lock that guards key j.
Needed(j) == \E t \in Tasks : pc[t] \in {"queued", "calling"} /\ key[t] = j

\* A step of task t leaves the places of the other tasks alone.
OthersStay(t) ==
  \A u \in Tasks \ {t} :
    pc'[u] = pc[u] /\ key'[u] = key[u] /\ lockOf'[u] = lockOf[u] /\ futOf'[u] = futOf[u]

-----------------------------------------------------------------------------
(* The lock map.                                                            *)

\* A vehicle without a lock finds room for one.
LEMMA NothingEvicted ==
  ASSUME NoEviction, TypeOK, NEW v \in Vehicles, vehicleLocks[v] = None
  PROVE  Evicted = {vehicleLocks}
<1>1. Mapped \subseteq Vehicles \ {v}
  BY DEF Mapped
<1>2. IsFiniteSet(Vehicles) /\ IsFiniteSet(Vehicles \ {v})
  BY FiniteAssumption, FS_RemoveElement
<1>3. Cardinality(Vehicles \ {v}) = Cardinality(Vehicles) - 1
  BY <1>2, FS_RemoveElement
<1>4. IsFiniteSet(Mapped) /\ Cardinality(Mapped) <= Cardinality(Vehicles \ {v})
  BY <1>1, <1>2, FS_Subset
<1>5. Cardinality(Mapped) \in Nat /\ Cardinality(Vehicles) \in Nat
  BY <1>2, <1>4, FS_CardinalityType
<1>6. Cardinality(Mapped) < MaxVehicles
  BY <1>3, <1>4, <1>5, ConstantsAssumption DEF NoEviction
<1> QED BY <1>6 DEF Evicted

\* The lock that guards a key, once there is one, tells its subject.
LEMMA GuardsTellSubjects ==
  ASSUME TypeOK, LocksGuard, NEW j \in Keys, NEW k \in Keys, GuardOf(j) # None
  PROVE  GuardOf(j) = GuardOf(k) <=> SameSubject(j, k)
<1>1. CASE j.kind = "vehicles" /\ k.kind = "vehicles"
  <2>1. j = ListKey /\ k = ListKey
    BY <1>1 DEF Keys, VehicleKeys, ListKey, ReadOps
  <2> QED BY <2>1 DEF SameSubject
<1>2. CASE j.kind # "vehicles" /\ k.kind # "vehicles"
  <2>1. j.vehicle \in Vehicles /\ k.vehicle \in Vehicles
    BY <1>2, KeyFields
  <2> QED BY <1>2, <2>1 DEF GuardOf, SameSubject, LocksGuard
<1>3. CASE j.kind = "vehicles" /\ k.kind # "vehicles"
  <2>1. GuardOf(j) = ListLock /\ GuardOf(k) \in Locks \cup {None}
    BY <1>3, KeyFields DEF GuardOf, TypeOK
  <2> QED BY <1>3, <2>1, IdentitiesAssumption DEF SameSubject
<1>4. CASE j.kind # "vehicles" /\ k.kind = "vehicles"
  <2>1. GuardOf(k) = ListLock /\ GuardOf(j) \in Locks \cup {None}
    BY <1>4, KeyFields DEF GuardOf, TypeOK
  <2> QED BY <1>4, <2>1, IdentitiesAssumption DEF SameSubject
<1> QED BY <1>1, <1>2, <1>3, <1>4

\* Looking a lock up returns the guard of the key, keeps the guards that are
\* needed, and gives no lock to two vehicles.
LEMMA LookupKeepsGuards ==
  ASSUME SparesAwaited, TypeOK, Serving, LocksGuard,
         NEW k \in Keys, NEW l \in AllLocks, LockLookup(k, l)
  PROVE  /\ GuardOf(k)' = l
         /\ \A j \in Keys : Needed(j) => GuardOf(j)' = GuardOf(j)
         /\ \A v, w \in Vehicles :
              vehicleLocks'[v] # None /\ vehicleLocks'[v] = vehicleLocks'[w] => v = w
<1>1. CASE k.kind = "vehicles" /\ l = ListLock /\ UNCHANGED vehicleLocks
  BY <1>1 DEF GuardOf, LocksGuard
<1>2. CASE k.kind # "vehicles" /\ vehicleLocks[k.vehicle] = l /\ UNCHANGED vehicleLocks
  BY <1>2 DEF GuardOf, LocksGuard
<1>3. CASE /\ k.kind # "vehicles" /\ vehicleLocks[k.vehicle] = None /\ Fresh(l)
           /\ \E m \in Evicted : vehicleLocks' = [m EXCEPT ![k.vehicle] = l]
  <2>1. k.vehicle \in Vehicles
    BY <1>3, KeyFields
  <2>2. PICK m \in Evicted : vehicleLocks' = [m EXCEPT ![k.vehicle] = l]
    BY <1>3
  <2>3. /\ m \in [Vehicles -> Locks \cup {None}]
        /\ \A v \in Vehicles : m[v] # vehicleLocks[v] =>
             m[v] = None /\ vehicleLocks[v] # None /\ ~Locked(vehicleLocks[v])
    BY <2>2 DEF Evicted, Mapped, TypeOK
  <2>4. \A v \in Vehicles : vehicleLocks'[v] = IF v = k.vehicle THEN l ELSE m[v]
    BY <2>1, <2>2, <2>3
  <2>5. l \in Locks /\ \A v \in Vehicles : vehicleLocks[v] # l
    BY <1>3 DEF Fresh, Unused
  <2>6. GuardOf(k)' = l
    BY <1>3, <2>1, <2>4 DEF GuardOf
  <2>7. ASSUME NEW j \in Keys, Needed(j) PROVE GuardOf(j)' = GuardOf(j)
    <3>1. CASE j.kind = "vehicles"
      BY <3>1 DEF GuardOf
    <3>2. CASE j.kind # "vehicles"
      <4>1. PICK u \in Tasks : pc[u] \in {"queued", "calling"} /\ key[u] = j
        BY <2>7 DEF Needed
      <4> PICK v \in Vehicles : v = j.vehicle
        BY <3>2, KeyFields
      <4>2. lockOf[u] = vehicleLocks[v] /\ vehicleLocks[v] # None
        BY <3>2, <4>1, IdentitiesAssumption DEF LocksGuard, Serving, GuardOf, AllLocks
      <4>3. ~(pc[u] = "calling" /\ ~Locked(vehicleLocks[v]))
        BY <4>2 DEF Locked
      <4>4. pc[u] = "queued" => vehicleLocks'[v] = vehicleLocks[v]
        BY <4>2 DEF SparesAwaited
      <4>5. v # k.vehicle
        BY <1>3, <4>2
      <4>6. vehicleLocks'[v] = vehicleLocks[v]
        BY <2>3, <2>4, <4>1, <4>3, <4>4, <4>5
      <4> QED BY <3>2, <4>6 DEF GuardOf
    <3> QED BY <3>1, <3>2
  <2>8. ASSUME NEW v \in Vehicles, NEW w \in Vehicles,
               vehicleLocks'[v] # None, vehicleLocks'[v] = vehicleLocks'[w]
        PROVE  v = w
    <3>1. /\ m[v] # None => m[v] = vehicleLocks[v]
          /\ m[w] # None => m[w] = vehicleLocks[w]
      BY <2>3
    <3>2. m[v] # l /\ m[w] # l
      BY <2>5, <3>1, IdentitiesAssumption
    <3> QED BY <2>4, <2>8, <3>1, <3>2 DEF LocksGuard
  <2> QED BY <2>6, <2>7, <2>8
<1> QED BY <1>1, <1>2, <1>3 DEF LockLookup

-----------------------------------------------------------------------------
(* What a step of one task does to the parts of the invariant.              *)

\* Two tasks that wait for the driver serve different subjects, and wait for
\* different calls.
LEMMA CallersApart ==
  ASSUME TypeOK, Serving, LocksGuard, CallsOwned,
         NEW t \in Tasks, NEW u \in Tasks, pc[t] = "calling", pc[u] = "calling", t # u
  PROVE  ~SameSubject(key[t], key[u]) /\ futOf[t] # futOf[u]
<1>1. /\ lockOf[t] = GuardOf(key[t]) /\ lockOf[u] = GuardOf(key[u]) /\ lockOf[t] # lockOf[u]
      /\ lockOf[t] \in AllLocks /\ key[t] \in Keys /\ key[u] \in Keys
  BY DEF LocksGuard, Serving
<1>2. GuardOf(key[t]) # None
  BY <1>1, IdentitiesAssumption DEF AllLocks
<1>3. ~SameSubject(key[t], key[u])
  BY <1>1, <1>2, GuardsTellSubjects
<1>4. futOf[t] = futOf[u] => key[t] = key[u]
  BY DEF CallsOwned
<1> QED BY <1>3, <1>4 DEF SameSubject

\* With distinct fences, a subject is what is fenced.
LEMMA FencesTellSubjects ==
  ASSUME DistinctFences, NEW j \in Keys, NEW k \in Keys
  PROVE  j.vehicle = k.vehicle <=> SameSubject(j, k)
BY DEF DistinctFences, Keys, VehicleKeys, ListKey, ReadOps, SameSubject

\* LocksGuard survives a step of t that keeps the guards that are needed, if t then
\* queues for, or alone holds, the guard of its key.
LEMMA LocksGuardKept ==
  ASSUME TypeOK, Serving, LocksGuard, NEW t \in Tasks, OthersStay(t),
         \A j \in Keys : Needed(j) => GuardOf(j)' = GuardOf(j),
         \A v, w \in Vehicles :
           vehicleLocks'[v] # None /\ vehicleLocks'[v] = vehicleLocks'[w] => v = w,
         pc'[t] \in {"queued", "calling"} => lockOf'[t] = GuardOf(key[t])',
         pc'[t] = "calling" =>
           \A u \in Tasks \ {t} : pc[u] = "calling" => lockOf[u] # lockOf'[t]
  PROVE  LocksGuard'
<1>1. ASSUME NEW u \in Tasks, pc'[u] \in {"queued", "calling"}
      PROVE  lockOf'[u] = GuardOf(key[u])'
  <2>1. CASE u = t
    BY <1>1, <2>1
  <2>2. CASE u # t
    <3>1. lockOf[u] = GuardOf(key[u]) /\ key[u] \in Keys
      BY <1>1, <2>2 DEF LocksGuard, Serving, OthersStay
    <3>2. Needed(key[u])
      BY <1>1, <2>2 DEF Needed, OthersStay
    <3>3. \A j \in Keys : j = key[u] => GuardOf(j)' = GuardOf(key[u])
      BY <3>2
    <3>4. key'[u] = key[u] /\ lockOf'[u] = lockOf[u]
      BY <2>2 DEF OthersStay
    <3> QED BY <3>1, <3>3, <3>4 DEF GuardOf
  <2> QED BY <2>1, <2>2
<1>2. ASSUME NEW u \in Tasks, NEW w \in Tasks,
             pc'[u] = "calling", pc'[w] = "calling", lockOf'[u] = lockOf'[w]
      PROVE  u = w
  BY <1>2 DEF LocksGuard, OthersStay
<1> QED BY <1>1, <1>2 DEF LocksGuard

\* A step of a task that was not calling and is not afterwards, and that
\* touches no call.
LEMMA IdleStep ==
  ASSUME CallsOwned, DrainsFenced, NEW t \in Tasks, OthersStay(t),
         pc[t] # "calling", pc'[t] # "calling", UNCHANGED <<phase, target, fence>>
  PROVE  CallsOwned' /\ DrainsFenced'
<1>1. CallsOwned'
  BY DEF CallsOwned, OthersStay
<1>2. DrainsFenced'
  BY DEF DrainsFenced
<1> QED BY <1>1, <1>2

\* The start of a call that its fence let pass.
LEMMA StartStep ==
  ASSUME TypeOK, Serving, CallsOwned, DrainsFenced, NEW t \in Tasks, OthersStay(t),
         pc[t] # "calling", pc'[t] = "calling", key[t] \in Keys, key'[t] = key[t],
         NEW f \in Futures, phase[f] = "free", futOf'[t] = f,
         ~FenceBlocks(key[t].vehicle),
         phase' = [phase EXCEPT ![f] = "running"],
         target' = [target EXCEPT ![f] = key[t]],
         UNCHANGED fence
  PROVE  CallsOwned' /\ DrainsFenced'
<1>1. \A u \in Tasks : pc[u] = "calling" => futOf[u] # f /\ futOf[u] \in Futures
  BY DEF CallsOwned, Serving
<1>2. \A g \in Futures : g # f => phase'[g] = phase[g] /\ target'[g] = target[g]
  BY DEF TypeOK
<1>3. phase'[f] = "running" /\ target'[f] = key[t]
  BY DEF TypeOK
<1>4. CallsOwned'
  <2>1. ASSUME NEW u \in Tasks, pc'[u] = "calling"
        PROVE  phase'[futOf'[u]] \in {"running", "done"} /\ target'[futOf'[u]] = key'[u]
    BY <1>1, <1>2, <1>3, <2>1 DEF CallsOwned, OthersStay
  <2>2. ASSUME NEW g \in Futures, phase'[g] \in {"running", "done"}
        PROVE  \E u \in Tasks : pc'[u] = "calling" /\ futOf'[u] = g
    <3>1. CASE g = f
      BY <3>1
    <3>2. CASE g # f
      BY <1>2, <2>2, <3>2 DEF CallsOwned, OthersStay
    <3> QED BY <3>1, <3>2
  <2> QED BY <2>1, <2>2 DEF CallsOwned
<1>5. \A g \in Futures : phase[g] = "draining" => ~SameSubject(target[g], key[t])
  BY IdentitiesAssumption DEF FenceBlocks, DrainsFenced, SameSubject
<1>6. \A k \in FenceKeys : fence[k] # None => fence[k] \in Futures \ {f}
  BY DEF DrainsFenced, TypeOK
<1>7. DrainsFenced'
  BY <1>2, <1>3, <1>5, <1>6 DEF DrainsFenced
<1> QED BY <1>4, <1>7

\* Entering a lock that nobody holds.
LEMMA EnterStep ==
  ASSUME TypeOK, Serving, ActiveCounts, LocksGuard, CallsOwned, DrainsFenced,
         NEW t \in Tasks, pc[t] \in {"ready", "queued"},
         NEW l \in AllLocks, Enter(t, l), ~Locked(l),
         \A j \in Keys : Needed(j) => GuardOf(j)' = GuardOf(j),
         \A v, w \in Vehicles :
           vehicleLocks'[v] # None /\ vehicleLocks'[v] = vehicleLocks'[w] => v = w,
         \A j \in Keys : j = key[t] => GuardOf(j)' = l
  PROVE  LocksGuard' /\ CallsOwned' /\ DrainsFenced'
<1>0. key[t] \in Keys
  BY DEF Serving
<1>1. OthersStay(t)
  <2>1. \E p \in {"idle", "ready", "storing", "calling"} : pc' = [pc EXCEPT ![t] = p]
    BY EnterType
  <2>2. \A u \in Tasks : u # t =>
          key'[u] = key[u] /\ lockOf'[u] = lockOf[u] /\ futOf'[u] = futOf[u]
    BY EnterType
  <2> QED BY <2>1, <2>2 DEF OthersStay, TypeOK
<1>2. CASE Enter(t, l) /\ pc'[t] # "calling"
  <2>1. pc'[t] # "queued" /\ UNCHANGED <<phase, target, fence>>
    <3>1. CASE /\ FromCache(t)
               /\ UNCHANGED <<futOf, callVars>>
      BY <3>1 DEF FromCache, Advance, Leave, TypeOK, callVars
    <3>2. CASE Leave(t) /\ UNCHANGED <<futOf, callVars>>
      BY <3>2 DEF Leave, TypeOK, callVars
    <3>3. CASE pc' = [pc EXCEPT ![t] = "calling"]
      BY <1>2, <3>3 DEF TypeOK
    <3> QED BY <3>1, <3>2, <3>3 DEF Enter
  <2>2. LocksGuard'
    BY <1>1, <1>2, <2>1, LocksGuardKept
  <2> QED BY <1>1, <1>2, <2>1, <2>2, IdleStep
<1>3. CASE Enter(t, l) /\ pc'[t] = "calling"
  <2>1. /\ ~FenceBlocks(key[t].vehicle)
        /\ \E f \in Futures : phase[f] = "free"
        /\ phase' = [phase EXCEPT ![NewFuture] = "running"]
        /\ target' = [target EXCEPT ![NewFuture] = key[t]]
        /\ futOf' = [futOf EXCEPT ![t] = NewFuture]
        /\ lockOf' = [lockOf EXCEPT ![t] = l]
        /\ UNCHANGED <<key, fence>>
    <3>1. ~FromCache(t)
      BY <1>3 DEF FromCache, Advance, Leave, TypeOK
    <3>2. ~Leave(t)
      BY <1>3 DEF Leave, TypeOK
    <3> QED BY <3>1, <3>2 DEF Enter
  <2>2. NewFuture \in Futures /\ phase[NewFuture] = "free"
    BY <2>1, NewFutureType
  <2>3. lockOf'[t] = l /\ futOf'[t] = NewFuture /\ key'[t] = key[t]
    BY <2>1 DEF TypeOK
  <2>4. GuardOf(key[t])' = l
    BY <1>0, <2>1 DEF GuardOf
  <2>5. \A u \in Tasks \ {t} : pc[u] = "calling" => lockOf[u] # lockOf'[t]
    BY <2>3 DEF Locked
  <2>6. LocksGuard'
    BY <1>1, <2>3, <2>4, <2>5, LocksGuardKept
  <2> HIDE DEF NewFuture
  <2>7. CallsOwned' /\ DrainsFenced'
    BY <1>0, <1>1, <1>3, <2>1, <2>2, <2>3, StartStep
  <2> QED BY <2>6, <2>7
<1> QED BY <1>2, <1>3

\* A task that waited for the driver goes elsewhere; no other task waits for
\* its call.
LEMMA ReturnStep ==
  ASSUME TypeOK, Serving, LocksGuard, CallsOwned, DrainsFenced,
         NEW t \in Tasks, pc[t] = "calling", OthersStay(t), pc'[t] # "calling",
         phase[futOf[t]] = "done",
         phase' = [phase EXCEPT ![futOf[t]] = "free"],
         target' = [target EXCEPT ![futOf[t]] = None],
         UNCHANGED fence
  PROVE  CallsOwned' /\ DrainsFenced'
<1>1. futOf[t] \in Futures
  BY DEF Serving
<1>2. \A u \in Tasks \ {t} : pc[u] = "calling" => futOf[u] # futOf[t] /\ futOf[u] \in Futures
  BY CallersApart DEF Serving
<1>3. \A g \in Futures : g # futOf[t] => phase'[g] = phase[g] /\ target'[g] = target[g]
  BY DEF TypeOK
<1>4. phase'[futOf[t]] = "free"
  BY <1>1 DEF TypeOK
<1>5. CallsOwned'
  BY <1>1, <1>2, <1>3, <1>4 DEF CallsOwned, OthersStay
<1>6. \A k \in FenceKeys : fence[k] # None => fence[k] \in Futures \ {futOf[t]}
  BY DEF DrainsFenced, TypeOK
<1>7. DrainsFenced'
  BY <1>1, <1>3, <1>4, <1>6 DEF DrainsFenced
<1> QED BY <1>5, <1>7

\* A call given up is fenced; no other call of its subject is under way, and its
\* fence hides no other draining call.
LEMMA GiveUpStep ==
  ASSUME FencesKept, TypeOK, Serving, LocksGuard, CallsOwned, DrainsFenced,
         NEW t \in Tasks, pc[t] = "calling", OthersStay(t), pc'[t] # "calling",
         phase' = [phase EXCEPT ![futOf[t]] = IF @ = "running" THEN "draining" ELSE "drained"],
         fence' = [fence EXCEPT ![key[t].vehicle] = futOf[t]],
         UNCHANGED target
  PROVE  CallsOwned' /\ DrainsFenced'
<1> DEFINE f == futOf[t]
<1>1. /\ f \in Futures /\ key[t] \in Keys /\ target[f] = key[t]
      /\ phase[f] \in {"running", "done"} /\ key[t].vehicle \in FenceKeys
  BY KeyFields DEF Serving, CallsOwned
<1>2. \A u \in Tasks \ {t} :
        pc[u] = "calling" =>
          /\ futOf[u] # f /\ futOf[u] \in Futures
          /\ ~SameSubject(key[t], key[u])
  BY <1>1, CallersApart DEF Serving
<1>3. \A g \in Futures : g # f => phase'[g] = phase[g]
  BY DEF TypeOK
<1>4. phase'[f] \in {"draining", "drained"} /\ fence'[key[t].vehicle] = f
  BY <1>1 DEF TypeOK
<1>5. CallsOwned'
  BY <1>1, <1>2, <1>3, <1>4 DEF CallsOwned, OthersStay
<1>6. ASSUME NEW g \in Futures, g # f, phase[g] = "draining"
      PROVE  target[g].vehicle # key[t].vehicle
  <2> SUFFICES ASSUME target[g].vehicle = key[t].vehicle PROVE FALSE
    OBVIOUS
  <2>1. fence[key[t].vehicle] = g /\ g # None
    BY <1>6, IdentitiesAssumption DEF DrainsFenced
  <2> QED BY <1>1, <1>4, <1>6, <2>1 DEF FencesKept
<1>7. \A g \in Futures : phase'[g] = "draining" =>
        target'[g] \in Keys /\ fence'[target'[g].vehicle] = g
  <2> SUFFICES ASSUME NEW g \in Futures, phase'[g] = "draining"
               PROVE  target[g] \in Keys /\ fence'[target[g].vehicle] = g
    OBVIOUS
  <2>1. CASE g = f
    BY <1>1, <1>4, <2>1
  <2>2. CASE g # f
    <3>1. phase[g] = "draining" /\ target[g].vehicle # key[t].vehicle
      BY <1>3, <1>6, <2>2
    <3>2. target[g] \in Keys /\ fence[target[g].vehicle] = g
      BY <3>1 DEF DrainsFenced
    <3>3. target[g].vehicle \in FenceKeys
      BY <3>2, KeyFields
    <3> QED BY <3>1, <3>2, <3>3 DEF TypeOK
  <2> QED BY <2>1, <2>2
<1>8. \A g, h \in Futures :
        phase'[g] = "draining" /\ phase'[h] \in {"running", "done"} =>
          ~SameSubject(target'[g], target'[h])
  <2> SUFFICES ASSUME NEW g \in Futures, NEW h \in Futures,
                      phase'[g] = "draining", phase'[h] \in {"running", "done"}
               PROVE  ~SameSubject(target[g], target[h])
    OBVIOUS
  <2>1. h # f /\ phase[h] \in {"running", "done"}
    BY <1>3, <1>4
  <2>2. CASE g = f
    <3>1. PICK u \in Tasks : pc[u] = "calling" /\ futOf[u] = h
      BY <2>1 DEF CallsOwned
    <3>2. u # t /\ target[h] = key[u]
      BY <2>1, <3>1 DEF CallsOwned
    <3> QED BY <1>1, <1>2, <2>2, <3>1, <3>2
  <2>3. CASE g # f
    BY <1>3, <2>1, <2>3 DEF DrainsFenced
  <2> QED BY <2>2, <2>3
<1>9. \A k \in FenceKeys : fence'[k] # None =>
        phase'[fence'[k]] \in {"draining", "drained"} /\ target'[fence'[k]].vehicle = k
  <2> SUFFICES ASSUME NEW k \in FenceKeys, fence'[k] # None
               PROVE  phase'[fence'[k]] \in {"draining", "drained"} /\ target[fence'[k]].vehicle = k
    OBVIOUS
  <2>1. CASE k = key[t].vehicle
    BY <1>1, <1>4, <2>1
  <2>2. CASE k # key[t].vehicle
    <3>1. fence'[k] = fence[k] /\ fence[k] \in Futures
      BY <2>2 DEF TypeOK
    <3>2. phase[fence[k]] \in {"draining", "drained"} /\ target[fence[k]].vehicle = k
      BY <3>1 DEF DrainsFenced
    <3> QED BY <1>1, <1>3, <3>1, <3>2
  <2> QED BY <2>1, <2>2
<1>10. DrainsFenced'
  BY <1>7, <1>8, <1>9 DEF DrainsFenced
<1> QED BY <1>5, <1>10

-----------------------------------------------------------------------------
(* Every step preserves the invariant.                                      *)

\* A task that goes on, or leaves, without a lock and without a call.
LEMMA AwayStep ==
  ASSUME TypeOK, Serving, LocksGuard, CallsOwned, DrainsFenced,
         NEW t \in Tasks, OthersStay(t), pc[t] # "calling",
         pc'[t] \notin {"queued", "calling"},
         \A j \in Keys : Needed(j) => GuardOf(j)' = GuardOf(j),
         \A v, w \in Vehicles :
           vehicleLocks'[v] # None /\ vehicleLocks'[v] = vehicleLocks'[w] => v = w,
         UNCHANGED <<phase, target, fence>>
  PROVE  LocksGuard' /\ CallsOwned' /\ DrainsFenced'
<1>1. LocksGuard'
  BY LocksGuardKept
<1>2. CallsOwned' /\ DrainsFenced'
  BY IdleStep
<1> QED BY <1>1, <1>2

\* The map of locks is left alone.
LEMMA GuardsUnchanged ==
  ASSUME LocksGuard, UNCHANGED vehicleLocks
  PROVE  /\ \A j \in Keys : GuardOf(j)' = GuardOf(j)
         /\ \A v, w \in Vehicles :
              vehicleLocks'[v] # None /\ vehicleLocks'[v] = vehicleLocks'[w] => v = w
BY DEF GuardOf, LocksGuard

\* Where a task goes that advances or leaves.
LEMMA AdvancePlace ==
  ASSUME TypeOK, NEW t \in Tasks, NEW value, Advance(t, value) \/ Leave(t)
  PROVE  /\ pc'[t] \notin {"queued", "calling"}
         /\ \A u \in Tasks \ {t} : pc'[u] = pc[u] /\ key'[u] = key[u]
BY DEF Advance, Leave, TypeOK

LEMMA RequestExclusive ==
  ASSUME SparesAwaited, FencesKept, Exclusion, NEW t \in Tasks, Request(t)
  PROVE  LocksGuard' /\ CallsOwned' /\ DrainsFenced'
<1> USE DEF Exclusion
<1>1. CASE Accept(t)
  <2>1. OthersStay(t) /\ pc[t] = "idle" /\ pc'[t] \in {"ready", "storing"}
    BY <1>1 DEF Accept, OthersStay, TypeOK
  <2>2. UNCHANGED <<vehicleLocks, phase, target, fence>>
    BY <1>1 DEF Accept, callVars
  <2> QED BY <2>1, <2>2, AwayStep, GuardsUnchanged
<1>2. CASE BeginHit(t)
  <2>1. OthersStay(t) /\ pc[t] = "ready" /\ pc'[t] \notin {"queued", "calling"}
    BY <1>2, AdvancePlace DEF BeginHit, FromCache, OthersStay
  <2>2. UNCHANGED <<phase, target, fence>>
    BY <1>2 DEF BeginHit, callVars
  <2>3. PICK l \in AllLocks : LockLookup(key[t], l)
    BY <1>2 DEF BeginHit
  <2>4. key[t] \in Keys
    BY <2>1 DEF Serving
  <2>5. /\ \A j \in Keys : Needed(j) => GuardOf(j)' = GuardOf(j)
        /\ \A v, w \in Vehicles :
             vehicleLocks'[v] # None /\ vehicleLocks'[v] = vehicleLocks'[w] => v = w
    BY <2>3, <2>4, LookupKeepsGuards
  <2> QED BY <2>1, <2>2, <2>5, AwayStep
<1>3. CASE BeginFree(t)
  <2>1. PICK l \in AllLocks : LockLookup(key[t], l) /\ Available(l) /\ Enter(t, l)
    BY <1>3 DEF BeginFree
  <2>2. pc[t] = "ready" /\ key[t] \in Keys /\ ~Locked(l)
    BY <1>3, <2>1 DEF BeginFree, Serving, Available
  <2>3. /\ \A j \in Keys : Needed(j) => GuardOf(j)' = GuardOf(j)
        /\ \A v, w \in Vehicles :
             vehicleLocks'[v] # None /\ vehicleLocks'[v] = vehicleLocks'[w] => v = w
    BY <2>1, <2>2, LookupKeepsGuards
  <2>4. \A j \in Keys : j = key[t] => GuardOf(j)' = l
    BY <2>1, <2>2, LookupKeepsGuards
  <2> QED BY <2>1, <2>2, <2>3, <2>4, EnterStep
<1>4. CASE BeginWait(t)
  <2>1. PICK l \in AllLocks : /\ LockLookup(key[t], l)
                             /\ lockOf' = [lockOf EXCEPT ![t] = l]
    BY <1>4 DEF BeginWait
  <2>2. /\ pc[t] = "ready" /\ key[t] \in Keys
        /\ pc'[t] = "queued" /\ lockOf'[t] = l /\ OthersStay(t)
        /\ UNCHANGED <<key, phase, target, fence>>
    BY <1>4, <2>1 DEF BeginWait, Serving, OthersStay, TypeOK, callVars
  <2>3. /\ \A j \in Keys : Needed(j) => GuardOf(j)' = GuardOf(j)
        /\ \A v, w \in Vehicles :
             vehicleLocks'[v] # None /\ vehicleLocks'[v] = vehicleLocks'[w] => v = w
    BY <2>1, <2>2, LookupKeepsGuards
  <2>4. \A j \in Keys : j = key[t] => GuardOf(j)' = l
    BY <2>1, <2>2, LookupKeepsGuards
  <2>5. lockOf'[t] = GuardOf(key[t])'
    BY <2>2, <2>4 DEF GuardOf
  <2>6. LocksGuard'
    BY <2>2, <2>3, <2>5, LocksGuardKept
  <2> QED BY <2>2, <2>6, IdleStep
<1>5. CASE BeginLimit(t)
  <2>1. OthersStay(t) /\ pc[t] = "ready" /\ pc'[t] \notin {"queued", "calling"}
    BY <1>5, AdvancePlace DEF BeginLimit, OthersStay
  <2>2. UNCHANGED <<vehicleLocks, phase, target, fence>>
    BY <1>5 DEF BeginLimit, callVars
  <2> QED BY <2>1, <2>2, AwayStep, GuardsUnchanged
<1>6. CASE Acquire(t)
  <2>1. /\ pc[t] = "queued" /\ lockOf[t] \in AllLocks /\ lockOf[t] = GuardOf(key[t])
        /\ ~Locked(lockOf[t]) /\ Enter(t, lockOf[t]) /\ UNCHANGED vehicleLocks
    BY <1>6 DEF Acquire, Serving, LocksGuard
  <2>2. \A j \in Keys : j = key[t] => GuardOf(j)' = lockOf[t]
    BY <2>1, GuardsUnchanged
  <2> QED BY <2>1, <2>2, EnterStep, GuardsUnchanged
<1>7. CASE CallReturns(t)
  <2>1. /\ pc[t] = "calling" /\ phase[futOf[t]] = "done"
        /\ phase' = [phase EXCEPT ![futOf[t]] = "free"]
        /\ target' = [target EXCEPT ![futOf[t]] = None]
        /\ lockOf' = [lockOf EXCEPT ![t] = None]
        /\ futOf' = [futOf EXCEPT ![t] = None]
        /\ UNCHANGED <<vehicleLocks, fence>>
    BY <1>7 DEF CallReturns
  <2>2. PICK value : Advance(t, value) \/ Leave(t)
    BY <1>7 DEF CallReturns
  <2>3. OthersStay(t) /\ pc'[t] \notin {"queued", "calling"}
    BY <2>1, <2>2, AdvancePlace DEF OthersStay, TypeOK
  <2>4. LocksGuard'
    BY <2>1, <2>3, LocksGuardKept, GuardsUnchanged
  <2> QED BY <2>1, <2>3, <2>4, ReturnStep
<1>8. ASSUME GiveUp(t), pc[t] = "calling"
      PROVE  LocksGuard' /\ CallsOwned' /\ DrainsFenced'
  <2>1. /\ phase' = [phase EXCEPT ![futOf[t]] = IF @ = "running" THEN "draining" ELSE "drained"]
        /\ fence' = [fence EXCEPT ![key[t].vehicle] = futOf[t]]
        /\ lockOf' = [lockOf EXCEPT ![t] = None]
        /\ futOf' = [futOf EXCEPT ![t] = None]
        /\ Leave(t) /\ UNCHANGED <<vehicleLocks, target>>
    BY <1>8 DEF GiveUp
  <2>2. OthersStay(t) /\ pc'[t] \notin {"queued", "calling"}
    BY <2>1, AdvancePlace DEF OthersStay, TypeOK
  <2>3. LocksGuard'
    BY <2>1, <2>2, LocksGuardKept, GuardsUnchanged
  <2> QED BY <1>8, <2>1, <2>2, <2>3, GiveUpStep
<1>9. CASE CancelWait(t)
  <2>1. OthersStay(t) /\ pc[t] = "queued" /\ pc'[t] \notin {"queued", "calling"}
    BY <1>9, AdvancePlace DEF CancelWait, OthersStay, TypeOK
  <2>2. UNCHANGED <<vehicleLocks, phase, target, fence>>
    BY <1>9 DEF CancelWait, callVars
  <2> QED BY <2>1, <2>2, AwayStep, GuardsUnchanged
<1>10. CASE StoreReturns(t)
  <2>1. OthersStay(t) /\ pc[t] = "storing" /\ pc'[t] \notin {"queued", "calling"}
    BY <1>10, AdvancePlace DEF StoreReturns, OthersStay
  <2>2. UNCHANGED <<vehicleLocks, phase, target, fence>>
    BY <1>10 DEF StoreReturns, callVars
  <2> QED BY <2>1, <2>2, AwayStep, GuardsUnchanged
<1> QED
  BY <1>1, <1>2, <1>3, <1>4, <1>5, <1>6, <1>7, <1>8, <1>9, <1>10
     DEF Request, CallTimeout, TimesOut, CancelCall

\* The driver ends a call; the callback of a drained call lifts its fence.
LEMMA CallExclusive ==
  ASSUME Exclusion, NEW f \in Futures, DriverFinish(f) \/ Consume(f)
  PROVE  LocksGuard' /\ CallsOwned' /\ DrainsFenced'
<1> USE DEF Exclusion
<1>1. UNCHANGED <<pc, key, lockOf, futOf, vehicleLocks>>
  BY DEF DriverFinish, Consume, requestVars
<1>2. LocksGuard'
  BY <1>1 DEF LocksGuard, GuardOf
<1>3. CASE DriverFinish(f)
  <2>1. /\ UNCHANGED <<target, fence>>
        /\ \/ phase[f] = "running" /\ phase' = [phase EXCEPT ![f] = "done"]
           \/ phase[f] = "draining" /\ phase' = [phase EXCEPT ![f] = "drained"]
    BY <1>3 DEF DriverFinish
  <2>2. \A g \in Futures :
          /\ phase'[g] = "draining" => phase[g] = "draining"
          /\ phase'[g] \in {"running", "done"} <=> phase[g] \in {"running", "done"}
          /\ phase[g] \in {"draining", "drained"} => phase'[g] \in {"draining", "drained"}
    BY <2>1 DEF TypeOK
  <2>3. CallsOwned'
    BY <1>1, <2>1, <2>2 DEF CallsOwned, Serving
  <2>4. DrainsFenced'
    BY <2>1, <2>2 DEF DrainsFenced, TypeOK
  <2> QED BY <1>2, <2>3, <2>4
<1>4. CASE Consume(f)
  <2>1. /\ phase[f] = "drained"
        /\ phase' = [phase EXCEPT ![f] = "free"]
        /\ target' = [target EXCEPT ![f] = None]
        /\ fence' = LiftFence(target[f].vehicle, f)
    BY <1>4 DEF Consume
  <2>2. /\ phase'[f] = "free"
        /\ \A g \in Futures : g # f => phase'[g] = phase[g] /\ target'[g] = target[g]
    BY <2>1 DEF TypeOK
  <2>3. CallsOwned'
    BY <1>1, <2>1, <2>2 DEF CallsOwned, Serving
  <2>4. ASSUME NEW g \in Futures, phase[g] = "draining"
        PROVE  fence'[target[g].vehicle] = g
    <3>1. fence[target[g].vehicle] = g /\ g # f /\ target[g].vehicle \in FenceKeys
      BY <2>1, <2>4, KeyFields DEF DrainsFenced
    <3> QED BY <2>1, <3>1 DEF LiftFence, TypeOK
  <2>5. ASSUME NEW k \in FenceKeys, fence'[k] # None
        PROVE  fence'[k] = fence[k] /\ fence[k] \in Futures \ {f}
    <3>1. fence'[k] = fence[k] \/ fence'[k] = None
      BY <2>1 DEF LiftFence, TypeOK
    <3>2. fence'[k] = fence[k] /\ fence[k] # None /\ fence[k] \in Futures
      BY <2>5, <3>1 DEF TypeOK
    <3>3. fence[k] = f => fence'[k] = None
      BY <2>1, <3>2 DEF LiftFence, DrainsFenced, TypeOK
    <3> QED BY <2>5, <3>2, <3>3
  <2>6. DrainsFenced'
    BY <2>2, <2>4, <2>5 DEF DrainsFenced
  <2> QED BY <1>2, <2>3, <2>6
<1> QED BY <1>3, <1>4

\* The invariant holds in the initial state.
LEMMA InitExclusive == Init => Exclusion
<1> SUFFICES ASSUME Init PROVE Exclusion
  OBVIOUS
<1>1. TypeOK /\ Serving /\ ActiveCounts
  BY InitTyped
<1>2. LocksGuard /\ CallsOwned /\ DrainsFenced
  BY DEF Init, LocksGuard, CallsOwned, DrainsFenced
<1> QED BY <1>1, <1>2 DEF Exclusion

LEMMA ExclusionInductive ==
  Exclusion /\ [Next]_vars /\ [SparesAwaited /\ FencesKept]_vars => Exclusion'
<1> SUFFICES ASSUME Exclusion, [Next]_vars, [SparesAwaited /\ FencesKept]_vars PROVE Exclusion'
  OBVIOUS
<1>1. TypeOK' /\ Serving' /\ ActiveCounts'
  BY TypedInductive DEF Exclusion
<1>2. LocksGuard' /\ CallsOwned' /\ DrainsFenced'
  <2>0. SparesAwaited /\ FencesKept
    BY DEF SparesAwaited, FencesKept, vars, requestVars, callVars
  <2>1. CASE \E t \in Tasks : Request(t)
    BY <2>0, <2>1, RequestExclusive
  <2>2. CASE \E f \in Futures : DriverFinish(f) \/ Consume(f)
    BY <2>2, CallExclusive
  <2>3. CASE UNCHANGED <<pc, key, lockOf, futOf, vehicleLocks, phase, target, fence>>
    BY <2>3 DEF Exclusion, LocksGuard, GuardOf, CallsOwned, DrainsFenced
  <2>4. CASE Expire \/ (\E c \in Closers : Close(c))
             \/ DriverCloseStart \/ DriverCloseDone \/ StoreCloseDone \/ UNCHANGED vars
    BY <2>3, <2>4 DEF Expire, Close, CloseCall, CloseEnter, CloseProceed, CloseFinish,
       CloseCancelEarly, CloseCancelLate, CloseAbandon, DriverCloseStart, DriverCloseDone,
       StoreCloseDone, vars, requestVars, callVars
  <2> QED BY <2>1, <2>2, <2>4 DEF Next
<1> QED BY <1>1, <1>2 DEF Exclusion

\* The invariant excludes overlaps: running calls of a subject share a lock, a
\* draining call's fence lets no other start, and a fence holds one call.
LEMMA ExclusionSuffices == Exclusion => NoOverlappingExchange
<1> SUFFICES ASSUME Exclusion, NEW f \in Futures, NEW g \in Futures,
                    Exchanging(f), Exchanging(g), SameSubject(target[f], target[g])
             PROVE  f = g
  BY DEF NoOverlappingExchange
<1> USE DEF Exclusion
<1>1. CASE phase[f] = "running" /\ phase[g] = "running"
  <2>1. PICK t \in Tasks : pc[t] = "calling" /\ futOf[t] = f
    BY <1>1 DEF CallsOwned
  <2>2. PICK u \in Tasks : pc[u] = "calling" /\ futOf[u] = g
    BY <1>1 DEF CallsOwned
  <2>3. target[f] = key[t] /\ target[g] = key[u]
    BY <2>1, <2>2 DEF CallsOwned
  <2>4. t = u
    BY <2>1, <2>2, <2>3, CallersApart
  <2> QED BY <2>1, <2>2, <2>4
<1>2. CASE phase[f] = "draining" /\ phase[g] = "draining"
  BY <1>2 DEF DrainsFenced, SameSubject
<1>3. CASE phase[f] # phase[g]
  BY <1>3 DEF DrainsFenced, SameSubject, Exchanging
<1> QED BY <1>1, <1>2, <1>3 DEF Exchanging

\* Only a request that looks up a lock changes the map of locks.
LEMMA MapChanges ==
  ASSUME TypeOK, Serving, [Next]_vars
  PROVE  \/ UNCHANGED vehicleLocks
         \/ \E k \in Keys, l \in AllLocks : LockLookup(k, l)
<1>1. ASSUME NEW t \in Tasks, Request(t)
      PROVE  \/ UNCHANGED vehicleLocks
             \/ \E k \in Keys, l \in AllLocks : LockLookup(k, l)
  <2>1. CASE BeginHit(t) \/ BeginFree(t) \/ BeginWait(t)
    BY <2>1 DEF BeginHit, BeginFree, BeginWait, Serving
  <2>2. CASE Accept(t) \/ BeginLimit(t) \/ Acquire(t) \/ CallReturns(t) \/ GiveUp(t)
             \/ CancelWait(t) \/ StoreReturns(t)
    BY <2>2 DEF Accept, BeginLimit, Acquire, CallReturns, GiveUp, CancelWait, StoreReturns
  <2> QED BY <1>1, <2>1, <2>2 DEF Request, CallTimeout, CancelCall
<1>2. CASE (\E f \in Futures : DriverFinish(f) \/ Consume(f))
           \/ Expire \/ (\E c \in Closers : Close(c))
           \/ DriverCloseStart \/ DriverCloseDone \/ StoreCloseDone \/ UNCHANGED vars
  BY <1>2 DEF DriverFinish, Consume, Expire, Close, CloseCall, CloseEnter, CloseProceed,
     CloseFinish, CloseCancelEarly, CloseCancelLate, CloseAbandon, DriverCloseStart,
     DriverCloseDone, StoreCloseDone, vars, requestVars
<1> QED BY <1>1, <1>2 DEF Next

\* Where there is room for every vehicle, no lock ever leaves the map.
LEMMA RoomSpares ==
  ASSUME NoEviction
  PROVE  Exclusion /\ [Next]_vars => SparesAwaited
<1> SUFFICES ASSUME Exclusion, [Next]_vars, NEW v \in Vehicles, vehicleLocks[v] # None
             PROVE  vehicleLocks'[v] = vehicleLocks[v]
  BY DEF SparesAwaited
<1>1. CASE UNCHANGED vehicleLocks
  BY <1>1
<1>2. ASSUME NEW k \in Keys, NEW l \in AllLocks, LockLookup(k, l)
      PROVE  vehicleLocks'[v] = vehicleLocks[v]
  <2>1. CASE UNCHANGED vehicleLocks
    BY <2>1
  <2>2. CASE /\ k.kind # "vehicles" /\ vehicleLocks[k.vehicle] = None
             /\ \E m \in Evicted : vehicleLocks' = [m EXCEPT ![k.vehicle] = l]
    <3>1. k.vehicle \in Vehicles
      BY <2>2, KeyFields
    <3>2. vehicleLocks' = [vehicleLocks EXCEPT ![k.vehicle] = l]
      BY <2>2, <3>1, NothingEvicted DEF Exclusion
    <3> QED BY <2>2, <3>2 DEF Exclusion, TypeOK
  <2> QED BY <1>2, <2>1, <2>2 DEF LockLookup
<1> QED BY <1>1, <1>2, MapChanges DEF Exclusion

\* Where no vehicle is named like the fence of the fleet, a fence is not overwritten
\* before its call has drained: a call given up has the subject of that fence, and
\* would have been refused.
LEMMA DistinctKept ==
  ASSUME DistinctFences
  PROVE  Exclusion /\ [Next]_vars => FencesKept
<1> SUFFICES ASSUME Exclusion, [Next]_vars, NEW k \in FenceKeys, fence[k] # None,
                    phase[fence[k]] = "draining"
             PROVE  fence'[k] = fence[k]
  BY DEF FencesKept
<1> PICK g \in Futures : g = fence[k]
  BY DEF Exclusion, TypeOK
<1>1. target[g] \in Keys /\ target[g].vehicle = k
  BY DEF Exclusion, DrainsFenced
<1>2. ASSUME NEW t \in Tasks, GiveUp(t), pc[t] = "calling" PROVE fence'[k] = fence[k]
  <2>1. /\ key[t] \in Keys /\ futOf[t] \in Futures /\ target[futOf[t]] = key[t]
        /\ phase[futOf[t]] \in {"running", "done"}
    BY <1>2 DEF Exclusion, Serving, CallsOwned
  <2>2. ~SameSubject(target[g], key[t])
    BY <2>1 DEF Exclusion, DrainsFenced
  <2>3. key[t].vehicle # k
    BY <1>1, <2>1, <2>2, FencesTellSubjects
  <2> QED BY <1>2, <2>3 DEF GiveUp, Exclusion, TypeOK
<1>3. ASSUME NEW t \in Tasks, Request(t) PROVE fence'[k] = fence[k]
  <2>1. CASE \/ Accept(t) \/ BeginHit(t) \/ BeginWait(t) \/ BeginLimit(t) \/ CallReturns(t)
             \/ CancelWait(t) \/ StoreReturns(t)
    BY <2>1 DEF Accept, BeginHit, BeginWait, BeginLimit, CallReturns, CancelWait, StoreReturns,
       callVars
  <2>2. CASE BeginFree(t) \/ Acquire(t)
    BY <2>2 DEF BeginFree, Acquire, Enter, callVars
  <2>3. CASE CallTimeout(t) \/ CancelCall(t)
    BY <1>2, <2>3 DEF CallTimeout, TimesOut, CancelCall
  <2> QED BY <1>3, <2>1, <2>2, <2>3 DEF Request
<1>4. ASSUME NEW f \in Futures, Consume(f) PROVE fence'[k] = fence[k]
  BY <1>4 DEF Consume, LiftFence, Exclusion, TypeOK
<1>5. CASE (\E f \in Futures : DriverFinish(f))
           \/ Expire \/ (\E c \in Closers : Close(c))
           \/ DriverCloseStart \/ DriverCloseDone \/ StoreCloseDone \/ UNCHANGED vars
  BY <1>5 DEF DriverFinish, Expire, Close, CloseCall, CloseEnter, CloseProceed,
     CloseFinish, CloseCancelEarly, CloseCancelLate, CloseAbandon, DriverCloseStart,
     DriverCloseDone, StoreCloseDone, vars, callVars
<1> QED BY <1>3, <1>4, <1>5 DEF Next

\* At most one driver call per subject is under way, a call that drains after a
\* timeout or a cancellation included, for any number of tasks and vehicles, any
\* names and any size of the lock map: unless a lock is evicted between its release
\* and the wake-up of its waiter, or the fence of a draining call is overwritten.
THEOREM ExclusiveUnlessLost ==
  Spec /\ [][SparesAwaited /\ FencesKept]_vars => []NoOverlappingExchange
<1>1. Init => Exclusion
  BY InitExclusive
<1>2. Exclusion /\ [Next]_vars /\ [SparesAwaited /\ FencesKept]_vars => Exclusion'
  BY ExclusionInductive
<1>3. Exclusion => NoOverlappingExchange
  BY ExclusionSuffices
<1> QED BY <1>1, <1>2, <1>3, PTL DEF Spec

\* Neither is, with distinct fences and a lock map that has room for every vehicle.
THEOREM ExchangesExclusive ==
  ASSUME DistinctFences, NoEviction
  PROVE  Spec => []NoOverlappingExchange
<1>1. Init => Exclusion
  BY InitExclusive
<1>2. Exclusion /\ [Next]_vars => Exclusion'
  BY ExclusionInductive, RoomSpares, DistinctKept
<1>3. Exclusion => NoOverlappingExchange
  BY ExclusionSuffices
<1> QED BY <1>1, <1>2, <1>3, PTL DEF Spec

-----------------------------------------------------------------------------
(* close() is orderly.                                                      *)

\* Calls that nobody gave up and tasks that wait for the driver correspond one
\* to one.  Unlike CallsOwned this does not rest on the locks.
CallsHeld ==
  /\ \A t \in Tasks : pc[t] = "calling" => phase[futOf[t]] \in {"running", "done"}
  /\ \A t, u \in Tasks :
       pc[t] = "calling" /\ pc[u] = "calling" /\ futOf[t] = futOf[u] => t = u
  /\ \A f \in Futures : phase[f] \in {"running", "done"} =>
       \E t \in Tasks : pc[t] = "calling" /\ futOf[t] = f

Orderly == TypeOK /\ Serving /\ ActiveCounts /\ CallsHeld /\ CloseOrder

\* No operation is active exactly when every task is idle.
LEMMA ActiveZero ==
  ASSUME TypeOK, ActiveCounts
  PROVE  active = 0 <=> \A t \in Tasks : pc[t] = "idle"
<1>1. IsFiniteSet(Busy)
  BY FiniteAssumption, FS_Subset DEF Busy
<1>2. Cardinality(Busy) = 0 <=> Busy = {}
  BY <1>1, FS_EmptySet
<1> QED BY <1>2 DEF ActiveCounts, Busy

-----------------------------------------------------------------------------
(* CallsHeld.                                                               *)

\* A task that was not calling and is not afterwards, and no call touched.
LEMMA HeldIdle ==
  ASSUME CallsHeld, NEW t \in Tasks, pc[t] # "calling", pc'[t] # "calling",
         \A u \in Tasks \ {t} : pc'[u] = pc[u] /\ futOf'[u] = futOf[u],
         UNCHANGED phase
  PROVE  CallsHeld'
BY DEF CallsHeld

\* A task that was calling and is not afterwards takes its call along.
LEMMA HeldEnds ==
  ASSUME TypeOK, Serving, CallsHeld, NEW t \in Tasks, pc[t] = "calling", pc'[t] # "calling",
         \A u \in Tasks \ {t} : pc'[u] = pc[u] /\ futOf'[u] = futOf[u],
         NEW p \in {"free", "draining", "drained"},
         phase' = [phase EXCEPT ![futOf[t]] = p]
  PROVE  CallsHeld'
<1>1. futOf[t] \in Futures /\ \A u \in Tasks : pc[u] = "calling" => futOf[u] \in Futures
  BY DEF Serving
<1>2. phase'[futOf[t]] = p /\ \A g \in Futures : g # futOf[t] => phase'[g] = phase[g]
  BY <1>1 DEF TypeOK
<1> QED BY <1>1, <1>2 DEF CallsHeld

\* Entering a lock.
LEMMA HeldEnter ==
  ASSUME TypeOK, Serving, ActiveCounts, CallsHeld,
         NEW t \in Tasks, pc[t] \in {"ready", "queued"}, NEW l \in AllLocks, Enter(t, l)
  PROVE  CallsHeld'
<1>1. CASE (FromCache(t) \/ Leave(t)) /\ UNCHANGED <<futOf, callVars>>
  <2>1. pc'[t] # "calling" /\ \A u \in Tasks \ {t} : pc'[u] = pc[u]
    BY <1>1 DEF FromCache, Advance, Leave, TypeOK
  <2> QED BY <1>1, <2>1, HeldIdle DEF callVars
<1>2. CASE /\ \E f \in Futures : phase[f] = "free"
           /\ phase' = [phase EXCEPT ![NewFuture] = "running"]
           /\ futOf' = [futOf EXCEPT ![t] = NewFuture]
           /\ pc' = [pc EXCEPT ![t] = "calling"]
  <2>1. NewFuture \in Futures /\ phase[NewFuture] = "free"
    BY <1>2, NewFutureType
  <2> HIDE DEF NewFuture
  <2>2. /\ phase'[NewFuture] = "running" /\ futOf'[t] = NewFuture
        /\ \A g \in Futures : g # NewFuture => phase'[g] = phase[g]
        /\ \A u \in Tasks \ {t} : pc'[u] = pc[u] /\ futOf'[u] = futOf[u]
        /\ pc'[t] = "calling"
    BY <1>2, <2>1 DEF TypeOK
  <2>3. \A u \in Tasks : pc[u] = "calling" => futOf[u] \in Futures /\ futOf[u] # NewFuture
    BY <2>1 DEF CallsHeld, Serving
  <2> QED BY <2>1, <2>2, <2>3 DEF CallsHeld
<1> QED BY <1>1, <1>2 DEF Enter

LEMMA HeldRequest ==
  ASSUME TypeOK, Serving, ActiveCounts, CallsHeld, NEW t \in Tasks, Request(t)
  PROVE  CallsHeld'
<1>1. CASE Accept(t) \/ BeginWait(t)
  BY <1>1, HeldIdle DEF Accept, BeginWait, TypeOK, callVars
<1>2. CASE BeginHit(t) \/ BeginLimit(t) \/ CancelWait(t) \/ StoreReturns(t)
  <2>1. PICK value : Advance(t, value) \/ Leave(t)
    BY <1>2 DEF BeginHit, FromCache, BeginLimit, CancelWait, StoreReturns
  <2>2. pc'[t] # "calling" /\ \A u \in Tasks \ {t} : pc'[u] = pc[u]
    BY <2>1 DEF Advance, Leave, TypeOK
  <2>3. pc[t] # "calling" /\ UNCHANGED <<futOf, phase>>
    BY <1>2 DEF BeginHit, BeginLimit, CancelWait, StoreReturns, callVars
  <2> QED BY <2>2, <2>3, HeldIdle
<1>3. CASE BeginFree(t)
  BY <1>3, HeldEnter DEF BeginFree
<1>4. CASE Acquire(t)
  BY <1>4, HeldEnter DEF Acquire, Serving
<1>5. CASE CallReturns(t)
  <2>1. PICK value : Advance(t, value) \/ Leave(t)
    BY <1>5 DEF CallReturns
  <2>2. pc'[t] # "calling" /\ \A u \in Tasks \ {t} : pc'[u] = pc[u]
    BY <2>1 DEF Advance, Leave, TypeOK
  <2>3. /\ pc[t] = "calling" /\ phase' = [phase EXCEPT ![futOf[t]] = "free"]
        /\ \A u \in Tasks \ {t} : futOf'[u] = futOf[u]
    BY <1>5 DEF CallReturns, TypeOK
  <2> QED BY <2>2, <2>3, HeldEnds
<1>6. ASSUME GiveUp(t), pc[t] = "calling" PROVE CallsHeld'
  <2>1. pc'[t] # "calling" /\ \A u \in Tasks \ {t} : pc'[u] = pc[u] /\ futOf'[u] = futOf[u]
    BY <1>6 DEF GiveUp, Leave, TypeOK
  <2>2. \E p \in {"draining", "drained"} : phase' = [phase EXCEPT ![futOf[t]] = p]
    BY <1>6 DEF GiveUp
  <2> QED BY <1>6, <2>1, <2>2, HeldEnds
<1> QED BY <1>1, <1>2, <1>3, <1>4, <1>5, <1>6 DEF Request, CallTimeout, TimesOut, CancelCall

LEMMA HeldCall ==
  ASSUME TypeOK, Serving, CallsHeld, NEW f \in Futures, DriverFinish(f) \/ Consume(f)
  PROVE  CallsHeld'
<1>1. UNCHANGED <<pc, futOf>>
  BY DEF DriverFinish, Consume, requestVars
<1>2. \A g \in Futures :
        phase'[g] \in {"running", "done"} <=> phase[g] \in {"running", "done"}
  BY DEF DriverFinish, Consume, TypeOK
<1> QED BY <1>1, <1>2 DEF CallsHeld, Serving

-----------------------------------------------------------------------------
(* CloseOrder.                                                              *)

\* Requests only take steps before the resources start closing.
LEMMA OrderRequest ==
  ASSUME Orderly, NEW t \in Tasks, Request(t)
  PROVE  CloseOrder'
<1> USE DEF Orderly
<1>1. UNCHANGED <<state, closer, awaited, driver, store>>
  BY DEF Request, Accept, BeginHit, BeginFree, BeginWait, BeginLimit, Acquire, CallReturns,
         CallTimeout, TimesOut, CancelCall, GiveUp, CancelWait, StoreReturns, closeVars
<1>2. state = "open" \/ pc[t] # "idle"
  BY DEF Request, Accept, Admits, BeginHit, BeginFree, BeginWait, BeginLimit, Acquire,
         CallReturns, CallTimeout, TimesOut, CancelCall, CancelWait, StoreReturns
<1>3. state = "open" \/ active # 0
  BY <1>2, ActiveZero
<1>4. driver = "open" /\ \A c \in Closers : closer[c] \notin ClosingPlaces \ {"waiting"}
  BY <1>3 DEF CloseOrder, ClosingPlaces
<1> QED BY <1>1, <1>4 DEF CloseOrder

\* Calls that end leave fewer to drain.
LEMMA OrderCall ==
  ASSUME Orderly, NEW f \in Futures, DriverFinish(f) \/ Consume(f)
  PROVE  CloseOrder'
<1>1. UNCHANGED <<state, active, closer, awaited, driver, store>>
  BY DEF DriverFinish, Consume, requestVars, closeVars
<1>2. \A g \in Futures : phase'[g] = "draining" => phase[g] = "draining"
  BY DEF DriverFinish, Consume, Orderly, TypeOK
<1> QED BY <1>1, <1>2 DEF Orderly, CloseOrder

\* The steps of close() itself.
LEMMA OrderClose ==
  ASSUME Orderly, NEW c \in Closers, Close(c)
  PROVE  CloseOrder'
<1> USE DEF Orderly
<1>1. UNCHANGED <<active, phase>>
  BY DEF Close, CloseCall, CloseEnter, CloseProceed, CloseFinish, CloseCancelEarly,
         CloseCancelLate, CloseAbandon, requestVars, callVars
<1>2. CASE CloseCall(c)
  BY <1>1, <1>2 DEF CloseCall, CloseOrder, TypeOK, ClosingPlaces, ClosePlaces
<1>3. CASE CloseEnter(c)
  <2>1. driver \notin {"pending", "closing"}
    BY <1>3 DEF CloseEnter, CloseOrder
  <2>2. CASE state = "closed"
    BY <1>1, <1>3, <2>1, <2>2 DEF CloseEnter, CloseOrder, TypeOK, ClosingPlaces, ClosePlaces
  <2>3. CASE state # "closed"
    <3>1. /\ closer' = [closer EXCEPT ![c] = "waiting"] /\ state' = "closing"
          /\ \A d \in Closers : closer[d] \notin ClosingPlaces
          /\ UNCHANGED <<awaited, driver, store>>
      BY <1>3, <2>3 DEF CloseEnter
    <3>2. \A d \in Closers : closer'[d] \in ClosingPlaces => d = c /\ closer'[d] = "waiting"
      BY <3>1 DEF TypeOK
    <3> QED BY <1>1, <2>1, <3>1, <3>2 DEF CloseOrder
  <2> QED BY <2>2, <2>3
<1>4. CASE CloseProceed(c)
  <2>1. state = "closing" /\ active = 0
    BY <1>4 DEF CloseProceed, NoActiveOperation, CloseOrder, ClosingPlaces, ClosePlaces
  <2> QED BY <1>1, <1>4, <2>1 DEF CloseProceed, CloseOrder, TypeOK, ClosingPlaces, ClosePlaces
<1>5. CASE CloseFinish(c)
  <2>1. driver \in {"closed", "failed"} /\ store \in {"closed", "failed"}
    BY <1>5 DEF CloseFinish, BothEnded
  <2>2. active = 0
    BY <1>5 DEF CloseFinish, CloseOrder, ClosingPlaces, ClosePlaces
  <2>3. \A d \in Closers : closer'[d] \notin ClosingPlaces
    BY <1>5 DEF CloseFinish, CloseOrder, TypeOK, ClosingPlaces, ClosePlaces
  <2>4. state' = Outcome /\ UNCHANGED <<awaited, driver, store>>
    BY <1>5 DEF CloseFinish
  <2> QED BY <1>1, <2>1, <2>2, <2>3, <2>4 DEF CloseOrder, Outcome
<1>6. CASE CloseCancelEarly(c)
  BY <1>1, <1>6 DEF CloseCancelEarly, CloseOrder, TypeOK, ClosingPlaces, ClosePlaces
<1>7. CASE CloseCancelLate(c)
  BY <1>1, <1>7 DEF CloseCancelLate, CloseOrder, TypeOK, ClosingPlaces, ClosePlaces
<1>8. CASE CloseAbandon(c)
  BY <1>1, <1>8 DEF CloseAbandon, BothEnded, CloseOrder, TypeOK, ClosingPlaces, ClosePlaces
<1> QED BY <1>2, <1>3, <1>4, <1>5, <1>6, <1>7, <1>8 DEF Close

\* The resources' own steps.
LEMMA OrderResources ==
  ASSUME Orderly, DriverCloseStart \/ DriverCloseDone \/ StoreCloseDone
  PROVE  CloseOrder'
<1> USE DEF Orderly
<1>1. UNCHANGED <<state, active, phase, closer>>
  BY DEF DriverCloseStart, DriverCloseDone, StoreCloseDone, requestVars, callVars
<1>2. CASE DriverCloseStart
  <2>1. \A f \in Futures : phase[f] # "draining"
    BY <1>2 DEF DriverCloseStart, Drained, CloseOrder
  <2> QED BY <1>1, <1>2, <2>1 DEF DriverCloseStart, CloseOrder
<1>3. CASE DriverCloseDone
  BY <1>1, <1>3 DEF DriverCloseDone, CloseOrder
<1>4. CASE StoreCloseDone
  BY <1>1, <1>4 DEF StoreCloseDone, CloseOrder
<1> QED BY <1>2, <1>3, <1>4

LEMMA InitOrderly == Init => Orderly
<1> SUFFICES ASSUME Init PROVE Orderly
  OBVIOUS
<1>1. TypeOK /\ Serving /\ ActiveCounts
  BY InitTyped
<1>2. CallsHeld /\ CloseOrder
  BY DEF Init, CallsHeld, CloseOrder, ClosingPlaces
<1> QED BY <1>1, <1>2 DEF Orderly

LEMMA OrderlyInductive == Orderly /\ [Next]_vars => Orderly'
<1> SUFFICES ASSUME Orderly, [Next]_vars PROVE Orderly'
  OBVIOUS
<1>1. TypeOK' /\ Serving' /\ ActiveCounts'
  BY TypedInductive DEF Orderly
<1>2. CallsHeld' /\ CloseOrder'
  <2>1. CASE \E t \in Tasks : Request(t)
    BY <2>1, HeldRequest, OrderRequest DEF Orderly
  <2>2. CASE \E f \in Futures : DriverFinish(f) \/ Consume(f)
    BY <2>2, HeldCall, OrderCall DEF Orderly
  <2>3. CASE \E c \in Closers : Close(c)
    <3>1. UNCHANGED <<pc, futOf, phase>>
      BY <2>3 DEF Close, CloseCall, CloseEnter, CloseProceed, CloseFinish, CloseCancelEarly,
         CloseCancelLate, CloseAbandon, requestVars, callVars
    <3>2. CallsHeld'
      BY <3>1 DEF Orderly, CallsHeld
    <3> QED BY <2>3, <3>2, OrderClose
  <2>4. CASE DriverCloseStart \/ DriverCloseDone \/ StoreCloseDone
    <3>1. UNCHANGED <<pc, futOf, phase>>
      BY <2>4 DEF DriverCloseStart, DriverCloseDone, StoreCloseDone, requestVars, callVars
    <3>2. CallsHeld'
      BY <3>1 DEF Orderly, CallsHeld
    <3> QED BY <2>4, <3>2, OrderResources
  <2>5. CASE Expire \/ UNCHANGED vars
    BY <2>5 DEF Expire, vars, requestVars, callVars, closeVars, Orderly, CallsHeld, CloseOrder
  <2> QED BY <2>1, <2>2, <2>3, <2>4, <2>5 DEF Next
<1> QED BY <1>1, <1>2 DEF Orderly

-----------------------------------------------------------------------------
LEMMA OrderlyQuiescent == Orderly => CloseIsQuiescent
<1> SUFFICES ASSUME Orderly, driver = "closing" \/ state = "closed"
             PROVE  /\ \A f \in Futures : ~Exchanging(f)
                    /\ \A t \in Tasks : pc[t] = "idle"
  BY DEF CloseIsQuiescent
<1>1. active = 0 /\ \A f \in Futures : phase[f] # "draining"
  BY DEF Orderly, CloseOrder
<1>2. \A t \in Tasks : pc[t] = "idle"
  BY <1>1, ActiveZero DEF Orderly
<1> QED BY <1>1, <1>2 DEF Orderly, CallsHeld, Exchanging

\* While driver.close() runs, and once the service is closed, no driver call is
\* under way and no request is served, however many close() calls compete, fail
\* or are cancelled.
THEOREM ClosesQuiescent == Spec => []CloseIsQuiescent
BY OrderlyQuiescent, InitOrderly, OrderlyInductive, PTL DEF Spec

\* A service that says it is closed has released its driver and its store.
THEOREM ClosedReleases == Spec => []ClosedMeansReleased
<1>1. Orderly => ClosedMeansReleased
  BY DEF Orderly, CloseOrder, ClosedMeansReleased
<1> QED BY <1>1, InitOrderly, OrderlyInductive, PTL DEF Spec

\* No request is admitted once a close() has begun, and a closed service stays
\* closed.
THEOREM ShutdownFinal == Spec => ShutdownIsFinal
<1> DEFINE Final == /\ state # "open" => \A t \in Tasks : pc[t] = "idle" => pc'[t] = "idle"
                    /\ state = "closed" => state' = "closed"
<1>1. Orderly /\ [Next]_vars => [Final]_vars
  <2> SUFFICES ASSUME Orderly, Next PROVE Final
    BY DEF vars
  <2>1. CASE \E t \in Tasks : Request(t)
    <3> PICK t \in Tasks : Request(t)
      BY <2>1
    <3>1. UNCHANGED state
      BY DEF Request, Accept, BeginHit, BeginFree, BeginWait, BeginLimit, Acquire,
             CallReturns, CallTimeout, TimesOut, CancelCall, GiveUp, CancelWait, StoreReturns
    <3>2. state = "open" \/ pc[t] # "idle"
      BY DEF Request, Accept, Admits, BeginHit, BeginFree, BeginWait, BeginLimit, Acquire,
             CallReturns, CallTimeout, TimesOut, CancelCall, CancelWait, StoreReturns
    <3>3. \A u \in Tasks \ {t} : pc'[u] = pc[u]
      BY DEF Request, Accept, BeginHit, BeginFree, BeginWait, BeginLimit, Acquire, Enter,
             CallReturns, CallTimeout, TimesOut, CancelCall, GiveUp, CancelWait, StoreReturns,
             FromCache, Advance, Leave, Orderly, TypeOK
    <3> QED BY <3>1, <3>2, <3>3
  <2>2. CASE (\E f \in Futures : DriverFinish(f) \/ Consume(f)) \/ Expire
    BY <2>2 DEF DriverFinish, Consume, Expire, requestVars
  <2>3. CASE \E c \in Closers : Close(c)
    <3>1. UNCHANGED pc
      BY <2>3 DEF Close, CloseCall, CloseEnter, CloseProceed, CloseFinish, CloseCancelEarly,
         CloseCancelLate, CloseAbandon, requestVars
    <3>2. state = "closed" => state' = "closed"
      BY <2>3 DEF Close, CloseCall, CloseEnter, CloseProceed, CloseFinish, CloseCancelEarly,
         CloseCancelLate, CloseAbandon, Orderly, CloseOrder, ClosingPlaces, ClosePlaces
    <3> QED BY <3>1, <3>2
  <2>4. CASE DriverCloseStart \/ DriverCloseDone \/ StoreCloseDone
    BY <2>4 DEF DriverCloseStart, DriverCloseDone, StoreCloseDone, requestVars
  <2> QED BY <2>1, <2>2, <2>3, <2>4 DEF Next
<1>2. Spec => [][Final]_vars
  BY <1>1, InitOrderly, OrderlyInductive, PTL DEF Spec
<1> QED BY <1>2 DEF ShutdownIsFinal

-----------------------------------------------------------------------------
(* The promise to the driver: the service implements ExclusiveExchange.     *)

\* One exchange per fence key, and every exchange has one.
Lone ==
  /\ \A f \in Futures : Exchanging(f) => target[f] \in Keys
  /\ \A f, g \in Futures :
       Exchanging(f) /\ Exchanging(g) /\ target[f].vehicle = target[g].vehicle => f = g

LEMMA ExchangesLone == ASSUME DistinctFences, Exclusion PROVE Lone
<1>1. \A f \in Futures : Exchanging(f) => target[f] \in Keys
  <2> SUFFICES ASSUME NEW f \in Futures, Exchanging(f) PROVE target[f] \in Keys OBVIOUS
  <2>1. CASE phase[f] = "draining" BY <2>1 DEF Exclusion, DrainsFenced
  <2>2. CASE phase[f] = "running"
    <3>1. PICK t \in Tasks : pc[t] = "calling" /\ futOf[t] = f
      BY <2>2 DEF Exclusion, CallsOwned
    <3> QED BY <3>1 DEF Exclusion, CallsOwned, Serving
  <2> QED BY <2>1, <2>2 DEF Exchanging
<1>2. NoOverlappingExchange BY ExclusionSuffices
<1> QED BY <1>1, <1>2, FencesTellSubjects DEF Lone, NoOverlappingExchange

\* What the driver sees of a key, by the call that exchanges with it.
LEMMA ExchangeOf ==
  ASSUME Lone, NEW f \in Futures, Exchanging(f)
  PROVE  Exchange(target[f].vehicle) = IF phase[f] = "running" THEN "wanted" ELSE "draining"
<1>1. CASE phase[f] = "running" BY <1>1 DEF Exchange
<1>2. CASE phase[f] = "draining"
  <2>1. ~\E g \in Futures : phase[g] = "running" /\ target[g].vehicle = target[f].vehicle
    BY <1>2 DEF Lone, Exchanging
  <2> QED BY <1>2, <2>1 DEF Exchange
<1> QED BY <1>1, <1>2 DEF Exchanging

LEMMA NoExchange ==
  ASSUME NEW v
  PROVE  Exchange(v) = "none" <=> \A f \in Futures : Exchanging(f) => target[f].vehicle # v
BY DEF Exchange, Exchanging

\* A step that touches one call touches what the driver sees of one key.
LEMMA OtherExchanges ==
  ASSUME NEW f \in Futures, NEW v,
         \A g \in Futures \ {f} : phase'[g] = phase[g] /\ target'[g] = target[g],
         Exchanging(f) => target[f].vehicle # v,
         Exchanging(f)' => target'[f].vehicle # v
  PROVE  Exchange(v)' = Exchange(v)
<1>1. \A p \in {"running", "draining"} :
        (\E g \in Futures : phase'[g] = p /\ target'[g].vehicle = v)
          <=> (\E g \in Futures : phase[g] = p /\ target[g].vehicle = v)
  BY DEF Exchanging
<1> QED BY <1>1 DEF Exchange

\* One call starts, is given up, ends, or changes unseen.
Exchanges == [k \in FenceKeys |-> Exchange(k)]

LEMMA CallSeen ==
  ASSUME Lone, Lone', NEW f \in Futures, driver' = driver,
         \A g \in Futures \ {f} : phase'[g] = phase[g] /\ target'[g] = target[g],
         \/ phase[f] = "free" /\ phase'[f] = "running" /\ driver # "closing"
         \/ phase[f] = "running" /\ phase'[f] = "draining" /\ target'[f] = target[f]
         \/ ~Exchanging(f)'
  PROVE  [Promise!Next]_(Promise!vars)
<1> DEFINE k == target[f].vehicle
<1>1. CASE phase[f] = "free" /\ phase'[f] = "running" /\ driver # "closing"
  <2>0. target'[f].vehicle \in FenceKeys BY <1>1, KeyFields DEF Lone, Exchanging
  <2> PICK v \in FenceKeys : v = target'[f].vehicle BY <2>0
  <2>1. Exchange(v) = "none"
    <3> SUFFICES ASSUME NEW g \in Futures, Exchanging(g), target[g].vehicle = v PROVE FALSE
      BY NoExchange
    <3>1. g # f BY <1>1 DEF Exchanging
    <3>2. Exchanging(g)' /\ Exchanging(f)' /\ target'[g].vehicle = target'[f].vehicle
      BY <1>1, <3>1 DEF Exchanging
    <3> QED BY <3>1, <3>2 DEF Lone
  <2>2. Exchange(v)' = "wanted" BY <1>1 DEF Exchange
  <2>3. \A w \in FenceKeys \ {v} : Exchange(w)' = Exchange(w)
    <3> SUFFICES ASSUME NEW w \in FenceKeys \ {v} PROVE Exchange(w)' = Exchange(w) OBVIOUS
    <3>1. ~Exchanging(f) /\ target'[f].vehicle # w BY <1>1 DEF Exchanging
    <3> QED BY <3>1, OtherExchanges
  <2>4. Exchanges' = [Exchanges EXCEPT ![v] = "wanted"] BY <2>2, <2>3 DEF Exchanges
  <2>5. Promise!Start(v) BY <1>1, <2>1, <2>4 DEF Promise!Start, Exchanges
  <2> QED BY <2>5 DEF Promise!Next
<1>2. CASE phase[f] = "running" /\ phase'[f] = "draining" /\ target'[f] = target[f]
  <2>0. k \in FenceKeys BY <1>2, KeyFields DEF Lone, Exchanging
  <2> PICK v \in FenceKeys : v = k BY <2>0
  <2>1. Exchange(v) = "wanted" BY <1>2 DEF Exchange
  <2>2. Exchange(v)' = "draining"
    <3>1. ~\E g \in Futures : phase'[g] = "running" /\ target'[g].vehicle = v
      BY <1>2 DEF Lone, Exchanging
    <3> QED BY <1>2, <3>1 DEF Exchange
  <2>3. \A w \in FenceKeys \ {v} : Exchange(w)' = Exchange(w)
    <3> SUFFICES ASSUME NEW w \in FenceKeys \ {v} PROVE Exchange(w)' = Exchange(w) OBVIOUS
    <3>1. target[f].vehicle # w /\ target'[f].vehicle # w BY <1>2
    <3> QED BY <3>1, OtherExchanges
  <2>4. Exchanges' = [Exchanges EXCEPT ![v] = "draining"] BY <2>2, <2>3 DEF Exchanges
  <2>5. Promise!GiveUp(v) BY <2>1, <2>4 DEF Promise!GiveUp, Exchanges
  <2> QED BY <2>5 DEF Promise!Next
<1>3. CASE Exchanging(f) /\ ~Exchanging(f)'
  <2>0. k \in FenceKeys BY <1>3, KeyFields DEF Lone
  <2> PICK v \in FenceKeys : v = k BY <2>0
  <2>1. Exchange(v) # "none" BY <1>3, NoExchange
  <2>2. Exchange(v)' = "none"
    <3>1. ASSUME NEW g \in Futures, Exchanging(g)' PROVE target'[g].vehicle # v
      <4>1. g # f BY <1>3, <3>1
      <4>2. Exchanging(g) /\ target'[g] = target[g] BY <3>1, <4>1 DEF Exchanging
      <4> QED BY <1>3, <4>1, <4>2 DEF Lone
    <3> QED BY <3>1 DEF Exchange, Exchanging
  <2>3. \A w \in FenceKeys \ {v} : Exchange(w)' = Exchange(w)
    <3> SUFFICES ASSUME NEW w \in FenceKeys \ {v} PROVE Exchange(w)' = Exchange(w) OBVIOUS
    <3>1. target[f].vehicle # w OBVIOUS
    <3> QED BY <1>3, <3>1, OtherExchanges
  <2>4. Exchanges' = [Exchanges EXCEPT ![v] = "none"] BY <2>2, <2>3 DEF Exchanges
  <2>5. Promise!Finish(v) BY <2>1, <2>4 DEF Promise!Finish, Exchanges
  <2> QED BY <2>5 DEF Promise!Next
<1>4. CASE ~Exchanging(f) /\ ~Exchanging(f)'
  <2>1. \A w \in FenceKeys : Exchange(w)' = Exchange(w) BY <1>4, OtherExchanges
  <2> QED BY <2>1 DEF Promise!vars
<1> QED BY <1>1, <1>2, <1>3, <1>4

\* No call is touched, and whether driver.close() runs does not change.
LEMMA NothingSeen ==
  ASSUME UNCHANGED <<phase, target>>, (driver' = "closing") <=> (driver = "closing")
  PROVE  UNCHANGED Promise!vars
<1>1. \A v \in FenceKeys : Exchange(v)' = Exchange(v) BY DEF Exchange
<1> QED BY <1>1 DEF Promise!vars

\* What a request does to the calls: nothing, or one starts, ends or is given up.
LEMMA RequestSeen ==
  ASSUME Lone, Lone', Exclusion, Orderly, NEW t \in Tasks, Request(t)
  PROVE  [Promise!Next]_(Promise!vars)
<1> USE DEF Exclusion
<1>0. driver' = driver
  BY DEF Request, Accept, BeginHit, BeginFree, BeginWait, BeginLimit, Acquire, CallReturns,
         CallTimeout, CancelCall, GiveUp, CancelWait, StoreReturns, closeVars
<1>1. CASE Accept(t) \/ BeginHit(t) \/ BeginWait(t) \/ BeginLimit(t) \/ CancelWait(t)
           \/ StoreReturns(t)
  <2>1. UNCHANGED <<phase, target>>
    BY <1>1 DEF Accept, BeginHit, BeginWait, BeginLimit, CancelWait, StoreReturns, callVars
  <2> QED BY <1>0, <2>1, NothingSeen
<1>2. CASE BeginFree(t) \/ Acquire(t)
  <2>1. PICK l \in AllLocks : Enter(t, l)
    BY <1>2 DEF BeginFree, Acquire, Serving
  <2>2. CASE UNCHANGED <<futOf, callVars>> BY <1>0, <2>2, NothingSeen DEF callVars
  <2>3. CASE /\ \E f \in Futures : phase[f] = "free"
             /\ phase' = [phase EXCEPT ![NewFuture] = "running"]
             /\ target' = [target EXCEPT ![NewFuture] = key[t]]
    <3>1. NewFuture \in Futures /\ phase[NewFuture] = "free" BY <2>3, NewFutureType
    <3> HIDE DEF NewFuture
    <3>2. /\ phase'[NewFuture] = "running"
          /\ \A g \in Futures \ {NewFuture} : phase'[g] = phase[g] /\ target'[g] = target[g]
      BY <2>3, <3>1 DEF TypeOK
    <3>3. driver # "closing"
      <4>1. pc[t] # "idle" BY <1>2 DEF BeginFree, Acquire
      <4>2. active # 0 BY <4>1, ActiveZero
      <4> QED BY <4>2 DEF Orderly, CloseOrder
    <3> QED BY <1>0, <3>1, <3>2, <3>3, CallSeen
  <2> QED BY <2>1, <2>2, <2>3 DEF Enter
<1>3. CASE CallReturns(t) \/ CallTimeout(t) \/ CancelCall(t)
  <2>1. pc[t] = "calling" BY <1>3 DEF CallReturns, CallTimeout, TimesOut, CancelCall
  <2>2. futOf[t] \in Futures /\ phase[futOf[t]] \in {"running", "done"}
    BY <2>1 DEF Serving, CallsOwned
  <2> PICK f \in Futures : f = futOf[t] BY <2>2
  <2>3. CASE CallReturns(t)
    <3>1. /\ phase'[f] = "free"
          /\ \A g \in Futures \ {f} : phase'[g] = phase[g] /\ target'[g] = target[g]
      BY <2>2, <2>3 DEF CallReturns, TypeOK
    <3>2. ~Exchanging(f)' BY <3>1 DEF Exchanging
    <3> QED BY <1>0, <2>2, <3>1, <3>2, CallSeen
  <2>4. CASE GiveUp(t)
    <3>1. /\ phase'[f] = IF phase[f] = "running" THEN "draining" ELSE "drained"
          /\ target' = target
          /\ \A g \in Futures \ {f} : phase'[g] = phase[g]
      BY <2>2, <2>4 DEF GiveUp, TypeOK
    <3>2. phase[f] = "done" => ~Exchanging(f)' BY <3>1 DEF Exchanging
    <3> QED BY <1>0, <2>2, <3>1, <3>2, CallSeen
  <2> QED BY <1>3, <2>3, <2>4 DEF CallTimeout, CancelCall
<1> QED BY <1>1, <1>2, <1>3 DEF Request

LEMMA PromiseInit == Init => Promise!Init
BY DEF Init, Promise!Init, Exchange

LEMMA PromiseStep ==
  ASSUME DistinctFences
  PROVE  Exclusion /\ Orderly /\ [Next]_vars /\ [SparesAwaited]_vars =>
           [Promise!Next]_(Promise!vars)
<1> SUFFICES ASSUME Exclusion, Orderly, [Next]_vars, [SparesAwaited]_vars
             PROVE  [Promise!Next]_(Promise!vars)
  OBVIOUS
<1>0. Lone /\ Lone' /\ Orderly'
  <2>1. Exclusion' /\ Orderly' BY ExclusionInductive, DistinctKept, OrderlyInductive
  <2>2. Exclusion => Lone BY ExchangesLone
  <2>3. Exclusion' => Lone'
    <3> SUFFICES ASSUME Exclusion' PROVE Lone' OBVIOUS
    <3> QED BY ExchangesLone, PTL
  <2> QED BY <2>1, <2>2, <2>3
<1>1. ASSUME NEW t \in Tasks, Request(t) PROVE [Promise!Next]_(Promise!vars)
  BY <1>0, <1>1, RequestSeen
<1>2. ASSUME NEW f \in Futures, DriverFinish(f) \/ Consume(f)
      PROVE  [Promise!Next]_(Promise!vars)
  <2>1. /\ phase'[f] \in {"done", "drained", "free"} /\ driver' = driver
        /\ \A g \in Futures \ {f} : phase'[g] = phase[g] /\ target'[g] = target[g]
    BY <1>2 DEF DriverFinish, Consume, closeVars, Exclusion, TypeOK
  <2>2. ~Exchanging(f)' BY <2>1 DEF Exchanging
  <2> QED BY <1>0, <2>1, <2>2, CallSeen
<1>3. CASE Expire \/ StoreCloseDone \/ UNCHANGED vars
  BY <1>3, NothingSeen DEF Expire, StoreCloseDone, vars, callVars, closeVars
<1>4. ASSUME NEW c \in Closers, Close(c) PROVE [Promise!Next]_(Promise!vars)
  <2>1. UNCHANGED <<phase, target>>
    BY <1>4 DEF Close, CloseCall, CloseEnter, CloseProceed, CloseFinish, CloseCancelEarly,
                CloseCancelLate, CloseAbandon, callVars
  <2>2. (driver' = "closing") <=> (driver = "closing")
    <3>1. CASE CloseProceed(c)
      <4>1. driver' = "pending" /\ closer[c] = "waiting" BY <3>1 DEF CloseProceed
      <4>2. driver # "closing"
        BY <4>1 DEF Orderly, CloseOrder, ClosingPlaces, ClosePlaces
      <4> QED BY <4>1, <4>2
    <3>2. CASE CloseCancelLate(c) BY <3>2 DEF CloseCancelLate
    <3>3. CASE CloseCall(c) \/ CloseEnter(c) \/ CloseFinish(c) \/ CloseCancelEarly(c)
               \/ CloseAbandon(c)
      BY <3>3 DEF CloseCall, CloseEnter, CloseFinish, CloseCancelEarly, CloseAbandon
    <3> QED BY <1>4, <3>1, <3>2, <3>3 DEF Close
  <2> QED BY <2>1, <2>2, NothingSeen
<1>5. CASE DriverCloseStart
  <2>1. driver = "pending" /\ driver' = "closing" /\ UNCHANGED <<phase, target>>
    BY <1>5 DEF DriverCloseStart, callVars
  <2>2. \A f \in Futures : ~Exchanging(f)
    <3>1. CloseIsQuiescent' BY <1>0, OrderlyQuiescent, PTL
    <3> QED BY <2>1, <3>1 DEF CloseIsQuiescent, Exchanging
  <2>3. \A k \in FenceKeys : Exchange(k) = "none" /\ Exchange(k)' = Exchange(k)
    BY <2>1, <2>2 DEF Exchange, Exchanging
  <2>4. Promise!BeginClose BY <2>1, <2>3 DEF Promise!BeginClose
  <2> QED BY <2>4 DEF Promise!Next
<1>6. CASE DriverCloseDone
  <2>1. driver = "closing" /\ driver' # "closing" /\ UNCHANGED <<phase, target>>
    BY <1>6 DEF DriverCloseDone, callVars
  <2>2. \A k \in FenceKeys : Exchange(k)' = Exchange(k) BY <2>1 DEF Exchange
  <2>3. Promise!EndClose BY <2>1, <2>2 DEF Promise!EndClose
  <2> QED BY <2>3 DEF Promise!Next
<1> QED BY <1>1, <1>2, <1>3, <1>4, <1>5, <1>6 DEF Next

\* The service keeps its promise to the driver: one exchange per subject, which
\* is over before the next begins even when nobody waits for it any longer, and
\* none beside driver.close(); unless a lock is evicted that a task waits for.
THEOREM PromiseUnlessEvicted ==
  ASSUME DistinctFences
  PROVE  Spec /\ [][SparesAwaited]_vars => KeepsPromise
<1>1. Init => Exclusion /\ Orderly BY InitExclusive, InitOrderly
<1>2. Exclusion /\ Orderly /\ [Next]_vars /\ [SparesAwaited]_vars => (Exclusion /\ Orderly)'
  BY ExclusionInductive, DistinctKept, OrderlyInductive
<1>3. Exclusion /\ Orderly /\ [Next]_vars /\ [SparesAwaited]_vars =>
        [Promise!Next]_(Promise!vars)
  BY PromiseStep
<1> QED BY <1>1, <1>2, <1>3, PromiseInit, PTL DEF Spec, KeepsPromise, Promise!Spec

\* It always does when the lock map has room for every vehicle.
THEOREM PromiseKept ==
  ASSUME DistinctFences, NoEviction
  PROVE  Spec => KeepsPromise
<1>1. Init => Exclusion /\ Orderly BY InitExclusive, InitOrderly
<1>2. Exclusion /\ Orderly /\ [Next]_vars => (Exclusion /\ Orderly)'
  BY ExclusionInductive, DistinctKept, OrderlyInductive, RoomSpares
<1>3. Exclusion /\ Orderly /\ [Next]_vars => [Promise!Next]_(Promise!vars)
  BY PromiseStep, RoomSpares
<1> QED BY <1>1, <1>2, <1>3, PromiseInit, PTL DEF Spec, KeepsPromise, Promise!Spec

=============================================================================
