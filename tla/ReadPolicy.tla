----------------------------- MODULE ReadPolicy -----------------------------
(***************************************************************************)
(* The allowlist of src/obd_mcp/policy.py: which services and which PIDs    *)
(* may ever be asked of a vehicle.  Services and PIDs are their numbers.    *)
(* PID values are in thousandths of the unit of the PID.                    *)
(***************************************************************************)
EXTENDS Integers, Sequences, FiniteSets, Functions

CONSTANT None

READ_ONLY_OBD_SERVICES == {1, 3}
MUTABLE_OBD_SERVICES   == {4, 8}
READ_ONLY_UDS_SERVICES == {25, 34}             \* 0x19, 0x22
MUTABLE_UDS_SERVICES   ==                      \* 0x10 ... 0x3D, 0x85
  {16, 17, 20, 39, 40, 46, 47, 49, 52, 53, 54, 55, 61, 133}

Pids == {4, 5, 11, 12, 13, 15, 17, 47, 66}

\* The canonical range of every PID that may be read.
STANDARD_PIDS ==
  [pid \in Pids |->
     CASE pid \in {4, 17, 47} -> [low |-> 0,      high |-> 100000]    \* load, throttle, fuel, %
       [] pid \in {5, 15}     -> [low |-> -40000, high |-> 215000]    \* temperatures, degC
       [] pid \in {11, 13}    -> [low |-> 0,      high |-> 255000]    \* pressure, kPa; speed, km/h
       [] pid = 12            -> [low |-> 0,      high |-> 16383750]  \* engine speed, rpm
       [] pid = 66            -> [low |-> 0,      high |-> 65535]]    \* module voltage, V

\* A PID may be given with its mode ("0104") or without ("04", 4).
NormalizePid(spelled) ==
  IF spelled.mode \in {None, 1} /\ spelled.number \in 0..255 THEN spelled.number ELSE None

\* What is at these places of a sequence, in its order.
Picked(seq, places) ==
  LET place(k) == CHOOSE i \in places : Cardinality({j \in places : j <= i}) = k
  IN [k \in 1..Cardinality(places) |-> seq[place(k)]]

\* The PIDs asked for, each once, in the order of their first mention.
FirstMentions(pids) ==
  Picked(pids, {i \in DOMAIN pids : \A j \in 1..i - 1 : pids[j] # pids[i]})

AllPids == <<4, 5, 11, 12, 13, 15, 17, 47, 66>>

\* None when one of the PIDs is refused.
AuthorizeStandardPids(spelled) ==
  LET pids == [i \in DOMAIN spelled |-> NormalizePid(spelled[i])]
  IN IF spelled = None THEN AllPids
     ELSE IF Range(pids) \subseteq Pids THEN FirstMentions(pids) ELSE None

AuthorizesObdService(service, pid) ==
  /\ service \notin MUTABLE_OBD_SERVICES
  /\ service \in READ_ONLY_OBD_SERVICES
  /\ IF service = 1 THEN pid \in Pids ELSE pid = None

AuthorizesUdsService(service) ==
  /\ service \notin MUTABLE_UDS_SERVICES
  /\ service \in READ_ONLY_UDS_SERVICES

=============================================================================
