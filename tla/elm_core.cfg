SPECIFICATION FairSpec
CONSTANTS
  t1 = t1
  t2 = t2
  t3 = t3
  None = None
  Tasks = {t1, t2, t3}
  Ops = {"list_vehicles", "get_vehicle_status", "read_standard_pids", "read_dtcs", "read_ecu_snapshot", "close"}
  Pids = 2
INVARIANTS
  TypeOK
  OneWorker
  PortsAccounted
  ClosedForGood
  ReportsHonestly
PROPERTIES
  QueriesVerified
  CallsEnd
