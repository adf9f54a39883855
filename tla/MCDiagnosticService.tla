------------------------ MODULE MCDiagnosticService ------------------------
(* Small instances of DiagnosticService for TLC.                            *)
EXTENDS DiagnosticService, TLC

CONSTANTS t1, t2, t3, c1, c2, v1, v2, f1, f2, f3, f4, l1, l2, l3

\* The driver lists the vehicle or reports an empty fleet.
SomeOrNoVehicle == {{}, {v1}}

\* The driver lists one vehicle or the other: its list changes between reads.
EitherVehicle == {{v1}, {v2}}

\* A vehicle whose ECU answers OBD-II, and one that answers UDS only.
TwoScopes  == {{"obd2"}, {"uds"}}
ObdOnly    == {{"obd2"}}

Symmetry == Permutations(Tasks) \cup Permutations(Closers)
=============================================================================
