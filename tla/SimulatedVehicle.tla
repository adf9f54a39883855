-------------------------- MODULE SimulatedVehicle --------------------------
(***************************************************************************)
(* The built-in simulator of src/obd_mcp/drivers/simulator.py: what a       *)
(* configured vehicle must look like, and what it answers.                  *)
(*                                                                         *)
(* A vehicle is [ecus, dtcs, pidValues]: a set, [ecus -> sequences of       *)
(* codes] and [some PIDs -> values in thousandths].  The keyed digest that  *)
(* makes values look random is a fraction in -10000..10000, ten thousandths.*)
(***************************************************************************)
EXTENDS ReadProfiles, SequencesExt

CONSTANTS MaxDtcs  \* _MAX_SIMULATOR_DTCS, and MAX_DTCS_PER_READ of the service

ASSUME MaxDtcsAssumption == MaxDtcs \in Nat

Number(n) == [kind |-> "number", n |-> n]
SomeText  == [kind |-> "text", n |-> 0]

\* What names a PID in an answer: its signal id, its name and its unit.
StandardSignal(pid) == <<"signal", pid>>
StandardLabel(pid)  == <<pid, "label">>

-----------------------------------------------------------------------------
(* Configuration: SimulatorVehicle.                                         *)

\* The trouble codes, each as its ECU and its place there.
Codes(vehicle) == UNION {{ecu} \X DOMAIN vehicle.dtcs[ecu] : ecu \in DOMAIN vehicle.dtcs}

ValidSimulator(vehicle) ==
  /\ "engine" \in vehicle.ecus
  /\ DOMAIN vehicle.dtcs \subseteq vehicle.ecus
  /\ \A ecu \in DOMAIN vehicle.dtcs : IsInjective(vehicle.dtcs[ecu])
  /\ Cardinality(Codes(vehicle)) <= MaxDtcs
  /\ \A pid \in DOMAIN vehicle.pidValues :
       /\ pid \in Pids
       /\ STANDARD_PIDS[pid].low <= vehicle.pidValues[pid]
       /\ vehicle.pidValues[pid] <= STANDARD_PIDS[pid].high

-----------------------------------------------------------------------------
(* Values.                                                                  *)

\* The integer nearest to a / b, of two the even one.
Nearest(a, b) ==
  LET q == (2 * a + b) \div (2 * b)
  IN IF (2 * a + b) % (2 * b) = 0 /\ q % 2 = 1 THEN q - 1 ELSE q

\* Base value and jitter of a PID, and the digits it is rounded to.  (These floats
\* are taken for exact: they stay far from the ends of their PID.)
BASE_VALUES ==
  [pid \in Pids |->
     CASE pid = 4  -> [base |-> 24000,  jitter |-> 1500,  digit |-> 10]
       [] pid = 5  -> [base |-> 91000,  jitter |-> 2000,  digit |-> 1000]
       [] pid = 11 -> [base |-> 42000,  jitter |-> 2000,  digit |-> 1000]
       [] pid = 12 -> [base |-> 812000, jitter |-> 30000, digit |-> 1000]
       [] pid = 13 -> [base |-> 0,      jitter |-> 0,     digit |-> 1000]
       [] pid = 15 -> [base |-> 24000,  jitter |-> 1000,  digit |-> 1000]
       [] pid = 17 -> [base |-> 15000,  jitter |-> 1000,  digit |-> 10]
       [] pid = 47 -> [base |-> 68000,  jitter |-> 500,   digit |-> 10]
       [] pid = 66 -> [base |-> 14200,  jitter |-> 100,   digit |-> 10]]

PidValue(vehicle, pid, fraction) ==
  LET b == BASE_VALUES[pid]
  IN IF pid \in DOMAIN vehicle.pidValues THEN vehicle.pidValues[pid]
     ELSE b.base + b.digit * Nearest(fraction * b.jitter, 10000 * b.digit)

\* int(): towards zero.
Truncated(a, b) == IF a >= 0 THEN a \div b ELSE -((-a) \div b)

RawValue(low, high, fraction) == Truncated(20000 * low + (fraction + 10000) * (high - low), 20000)

\* Seeded fault: the highest raw value is taken for the number of raw values.
RawCount(type)  == HighestRaw(type) + 1
RawLimit(type)  == HighestRaw(type)

\* round(x, 4): the float nearest to x rounded to four digits.
Rounded(x) == Float(Digit * Nearest(x, Digit))

SimulatedValue(decoder, fraction) ==
  IF Numeric(decoder.type)
  THEN Number(Rounded(Decoded(decoder, RawValue(LowestRaw(decoder.type),
                                                RawLimit(decoder.type), fraction))))
  ELSE SomeText

-----------------------------------------------------------------------------
(* Answers.                                                                 *)

\* The engine answers for every PID.
SimulatedReadings(name, vehicle, pids, fraction) ==
  [i \in DOMAIN pids |->
     [vehicle |-> name, ecu |-> "engine", pid |-> pids[i],
      signal |-> StandardSignal(pids[i]), label |-> StandardLabel(pids[i]),
      value |-> Number(PidValue(vehicle, pids[i], fraction)), source |-> "synthetic"]]

CodesOf(vehicle, ecu) == IF ecu \in DOMAIN vehicle.dtcs THEN vehicle.dtcs[ecu] ELSE <<>>

\* family: whole codes, or three bytes of a digest of each, taken for distinct.
Dtc(name, ecu, code, family) ==
  [vehicle |-> name, ecu |-> ecu, family |-> family, code |-> code,
   state |-> "stored", source |-> "synthetic"]

DtcsOf(name, vehicle, ecu, family) ==
  LET codes == CodesOf(vehicle, ecu)
  IN [i \in DOMAIN codes |-> Dtc(name, ecu, codes[i], family)]

\* ecu = None asks all ECUs; no check looks at the order of their codes.
SimulatedDtcs(name, vehicle, ecu) ==
  IF ecu # None THEN DtcsOf(name, vehicle, ecu, "obd")
  ELSE LET all == SetToSeq(Codes(vehicle))
       IN [i \in DOMAIN all |->
             Dtc(name, all[i][1], vehicle.dtcs[all[i][1]][all[i][2]], "obd")]

SimulatedSignals(name, vehicle, ecu, reads, fraction) ==
  LET values == Picked(reads, {i \in DOMAIN reads : reads[i].ecu = ecu /\ reads[i].service # 25})
  IN [i \in DOMAIN values |->
        [vehicle |-> name, ecu |-> ecu, pid |-> None, signal |-> values[i].signal,
         label |-> <<values[i].name, values[i].decoder.unit>>,
         value |-> SimulatedValue(values[i].decoder, fraction), source |-> "synthetic"]]

\* Without a profile: the engine's PIDs and the codes of the ECU.
SimulatedSnapshot(name, vehicle, ecu, reads, id, fraction) ==
  [vehicle  |-> name, ecu |-> ecu, protocol |-> "simulated", profile |-> id, provenance |-> None,
   signals  |-> IF reads # <<>> THEN SimulatedSignals(name, vehicle, ecu, reads, fraction)
                ELSE IF ecu = "engine" THEN SimulatedReadings(name, vehicle, AllPids, fraction)
                ELSE <<>>,
   dtcs     |-> IF reads = <<>> THEN DtcsOf(name, vehicle, ecu, "obd")
                ELSE IF \E read \in Range(reads) : read.ecu = ecu /\ read.service = 25
                THEN DtcsOf(name, vehicle, ecu, "uds")
                ELSE <<>>]

=============================================================================
