SPECIFICATION Spec
CONSTANTS
  t1 = t1
  t2 = t2
  t3 = t3
  c1 = c1
  c2 = c2
  v1 = v1
  v2 = v2
  f1 = f1
  f2 = f2
  f3 = f3
  f4 = f4
  l1 = l1
  l2 = l2
  l3 = l3
  None = None
  FleetKey = FleetKey
  ListLock = ListLock
  Tasks = {t1, t2}
  Closers = {c1, c2}
  Vehicles = {v1}
  Futures = {f1, f2, f3, f4}
  Locks = {l1}
  Fleets <- SomeOrNoVehicle
  Statuses <- TwoScopes
  Profiled = {v1}
  Ops = {"snapshot", "open_issue"}
  MaxVehicles = 1
  MaxCacheEntries = 2
INVARIANTS
  TypeOK
  NoOverlappingExchange
  ActiveCounts
  CloseIsQuiescent
  ClosedMeansReleased
PROPERTIES
  ShutdownIsFinal
  KeepsPromise
SYMMETRY Symmetry
