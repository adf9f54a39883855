---------------------------- MODULE AnswerChecks ----------------------------
(***************************************************************************)
(* What service.py accepts of a driver's answer: _validate_standard_        *)
(* readings, _validate_dtcs and _validate_snapshot.  An answer may come from *)
(* a third-party driver and be anything its model class can hold.           *)
(*                                                                         *)
(* The limit on the signals of a snapshot is not modelled: the other checks *)
(* leave at most one per read or PID, and a profile has at most as many.    *)
(***************************************************************************)
EXTENDS SimulatedVehicle

\* _bounded_tuple.
Bounded(values, limit) == Len(values) <= limit

StandardSemantics(reading) ==
  /\ reading.signal = StandardSignal(reading.pid)
  /\ reading.label = StandardLabel(reading.pid)
  /\ reading.value.kind = "number"
  /\ STANDARD_PIDS[reading.pid].low <= reading.value.n
  /\ reading.value.n <= STANDARD_PIDS[reading.pid].high
  /\ reading.source \in {"standard", "synthetic"}

ReadingsAccepted(readings, vehicle, pids, known) ==
  /\ Bounded(readings, Len(pids))
  /\ \A reading \in Range(readings) :
       /\ reading.vehicle = vehicle
       /\ reading.ecu \in known \cup {None}
       /\ reading.pid \in Range(pids)
       /\ StandardSemantics(reading)
  /\ IsInjective([i \in DOMAIN readings |-> readings[i].pid])

\* ecu is the ECU that was asked, or None.
DtcsAccepted(dtcs, vehicle, ecu, known, family) ==
  /\ Bounded(dtcs, MaxDtcs)
  /\ \A dtc \in Range(dtcs) :
       /\ dtc.vehicle = vehicle
       /\ ecu # None => dtc.ecu = ecu
       /\ dtc.ecu \in known \cup {None}
       /\ dtc.family = family
       /\ family = "obd" => dtc.state = "stored" /\ dtc.source \in {"standard", "synthetic"}
  /\ IsInjective([i \in DOMAIN dtcs |-> <<dtcs[i].ecu, dtcs[i].code, dtcs[i].state>>])

-----------------------------------------------------------------------------
(* Snapshots.                                                               *)

ValueReads(reads) == {read \in Range(reads) : read.service = 34}

AllowedSignals(reads, profile) ==
  IF profile = None THEN {StandardSignal(pid) : pid \in Pids}
  ELSE {read.signal : read \in ValueReads(reads)}

\* The label and the value a read's decoder can produce.
DeclaredSemantics(signal, reads) ==
  LET read    == CHOOSE read \in ValueReads(reads) : read.signal = signal.signal
      ends    == {Decoded(read.decoder, LowestRaw(read.decoder.type)),
                  Decoded(read.decoder, HighestRaw(read.decoder.type))}
  IN /\ signal.label = <<read.name, read.decoder.unit>>
     /\ IF Numeric(read.decoder.type)
        THEN /\ signal.value.kind = "number"
             /\ \E low, high \in ends : low <= signal.value.n /\ signal.value.n <= high
        ELSE signal.value.kind = "text"

SignalsAccepted(signals, vehicle, ecu, reads, profile) ==
  /\ \A signal \in Range(signals) :
       /\ signal.vehicle = vehicle /\ signal.ecu = ecu
       /\ signal.signal \in AllowedSignals(reads, profile)
       /\ IF profile = None THEN signal.pid \in Pids /\ StandardSemantics(signal)
          ELSE signal.pid = None /\ DeclaredSemantics(signal, reads)
  /\ IsInjective([i \in DOMAIN signals |-> signals[i].signal])

\* Seeded fault: the protocol of an answer is not looked at.
AnyProtocolAccepted(snapshot, vehicle, ecu, reads, profile, known, protocol) ==
  /\ snapshot.vehicle = vehicle /\ snapshot.ecu = ecu
  /\ SignalsAccepted(snapshot.signals, vehicle, ecu, reads, profile)

SnapshotAccepted(snapshot, vehicle, ecu, reads, profile, known, protocol) ==
  /\ snapshot.vehicle = vehicle /\ snapshot.ecu = ecu
  /\ ecu \in known
  /\ snapshot.profile \in {None, IF profile = None THEN None ELSE profile.id}
  /\ snapshot.protocol = protocol
  /\ SignalsAccepted(snapshot.signals, vehicle, ecu, reads, profile)
  /\ snapshot.dtcs # <<>> =>
       profile = None \/ \E read \in Range(reads) : read.service = 25
  /\ DtcsAccepted(snapshot.dtcs, vehicle, ecu, known, IF profile = None THEN "obd" ELSE "uds")

\* The profile, its id and its provenance, are the service's word, never the driver's.
Attributed(snapshot, profile) ==
  [snapshot EXCEPT !.profile    = IF profile = None THEN None ELSE profile.id,
                   !.provenance = IF profile = None THEN None ELSE profile.provenance]

=============================================================================
