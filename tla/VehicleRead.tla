----------------------------- MODULE VehicleRead -----------------------------
(***************************************************************************)
(* One read of one vehicle, from src/obd_mcp/service.py: which profile the   *)
(* server bound to it, what the policy and the protocols allow, what the     *)
(* driver is asked and which of its answers are accepted.                   *)
(*                                                                         *)
(* Reads that overlap, their locks, time-outs and cached results are        *)
(* DiagnosticService's subject; here the vehicle changes between the steps   *)
(* of a read, and only the cached status outlives one.                      *)
(***************************************************************************)
EXTENDS AnswerChecks, PublicValues

CONSTANTS
  Target,       \* the vehicle that is read
  Files,        \* what may be on disk: a set of [paths -> documents]
  Configs,      \* a set of [vehicles -> paths or None]
  Simulators,   \* configured simulator vehicles
  Ecus,         \* a set of [some ECUs -> protocols], what a plugin may report
  Requests,     \* a set of [op, ecu, pids, wanted]
  Metadata,     \* the values a plugin may attach to a status
  PluginReadings, PluginDtcs, PluginSignals,  \* what a plugin may answer
  Fractions,    \* what the simulator's digest may yield
  MaxError      \* _MAX_ERROR_MESSAGE_CHARS

VARIABLES
  bound,      \* profile the registry gives for the vehicle, or None
  declared,   \* document at the path configured for the vehicle (history)
  simulator,  \* the built-in simulator's vehicle, or None when a plugin drives it
  ecus,       \* ECUs of the vehicle and the protocols they speak now
  metadata,   \* metadata of the last status, an object the plugin may keep
  status,     \* cached status: the ECUs it reports, or None
  step,       \* where the request is
  request,    \* the request
  scope,      \* ECUs in the status the request was checked against
  asked,      \* what the driver was asked for it
  over,       \* ecus when the driver answered (history)
  outcome     \* what the service returns or raises

readVars == <<bound, declared, simulator, ecus, metadata, status,
              step, request, scope, asked, over, outcome>>

\* {"source": "synthetic"}: a map and two texts, which any check lets pass.
Harmless(m) == KindsIn(m) = {"map", "text"} /\ MetadataAccepted(m) /\ Serializable(m)
Plain == CHOOSE m \in Metadata : Harmless(m)

ASSUME PlainAssumption == \E m \in Metadata : Harmless(m)
ASSUME MetadataAssumption ==
  \A m \in Metadata :
    /\ IsFiniteSet(Objects(m)) /\ Root \in Objects(m)
    /\ m.kids \in [Objects(m) -> Seq(Objects(m))]
    /\ \A n \in Objects(m) : m.kind[n] \notin {"map", "list"} => m.kids[n] = <<>>
ASSUME FilesAssumption ==
  \A files \in Files : \A path \in DOMAIN files :
    /\ files[path].reads \in Seq(Range(files[path].reads))
    /\ \A read \in Range(files[path].reads) : read.decoder # None =>
         /\ Numeric(read.decoder.type) => read.decoder.type \in ScalarTypes
         /\ \A n \in {read.decoder.scale, read.decoder.offset} : n \in Int /\ IsDouble(n)
ASSUME ConfigsAssumption ==
  \A config \in Configs :
    /\ Target \in DOMAIN config
    /\ \A files \in Files : UsedPaths(config) \subseteq DOMAIN files
ASSUME SimulatorsAssumption ==
  \A vehicle \in Simulators :
    /\ vehicle # None /\ None \notin vehicle.ecus /\ IsFiniteSet(DOMAIN vehicle.dtcs)
    /\ \A ecu \in DOMAIN vehicle.dtcs : vehicle.dtcs[ecu] \in Seq(Range(vehicle.dtcs[ecu]))
ASSUME FractionsAssumption ==
  \A fraction \in Fractions : fraction \in Int /\ -10000 <= fraction /\ fraction <= 10000
ASSUME RequestsAssumption ==
  \A r \in Requests :
    /\ r.op \in {"status", "pids", "dtcs", "snapshot"}
    /\ r.pids = None \/ r.pids \in Seq(Range(r.pids))
    /\ r.op = "snapshot" => r.ecu # None
ASSUME MaxErrorAssumption == MaxError \in Nat

Init ==
  /\ bound = None /\ declared = None /\ simulator = None
  /\ ecus = <<>> /\ metadata = Plain /\ status = None
  /\ step = "down"
  /\ request = None /\ scope = None /\ asked = None /\ over = None /\ outcome = None

-----------------------------------------------------------------------------
(* The server starts (_build_runtime); what does not load stops it.         *)

SimulatedEcus(vehicle) == [ecu \in vehicle.ecus |-> "simulated"]

StartUp ==
  /\ step = "down" /\ step' = "idle"
  /\ \E files \in Files, config \in Configs, driver \in Simulators \cup {None} :
       /\ ProfilesLoad(files, config)
       /\ driver # None => ValidSimulator(driver)
       /\ bound' = BoundProfile(files, config, Target)
       /\ declared' = IF config[Target] = None THEN None ELSE files[config[Target]]
       /\ simulator' = driver
       /\ IF driver # None THEN ecus' = SimulatedEcus(driver) ELSE ecus' \in Ecus
  /\ UNCHANGED <<metadata, status, request, scope, asked, over, outcome>>

\* The ECUs behind a plugin change, or what it can tell of them.
Change ==
  /\ step # "down" /\ simulator = None
  /\ ecus' \in Ecus
  /\ UNCHANGED <<bound, declared, simulator, metadata, status, step, request, scope,
                 asked, over, outcome>>

Expire ==
  /\ status # None /\ status' = None
  /\ UNCHANGED <<bound, declared, simulator, ecus, metadata, step, request, scope,
                 asked, over, outcome>>

-----------------------------------------------------------------------------
(* A request.                                                               *)

\* causes: the classes of the errors behind an error.
Error(class, text, causes) == [kind |-> "error", class |-> class, text |-> text, causes |-> causes]
Said(from, vin, length)    == [from |-> from, vin |-> vin, length |-> length]
Result(value)              == [kind |-> "result", value |-> value]

DriverError == Error("driver", Said("driver", FALSE, 1), <<>>)
\* Names a PID, an ECU or a profile.
CoreError   == Error("core", Said("core", FALSE, 1), <<>>)

ASSUME NoneAssumption == None \notin {DriverError, CoreError}

Ends(result) == step' = "done" /\ outcome' = result

PidsAsked(r) == AuthorizeStandardPids(r.pids)

PolicyAllows(r) ==
  CASE r.op = "status"   -> TRUE
    [] r.op = "pids"     -> /\ PidsAsked(r) # None
                            /\ \A pid \in Range(PidsAsked(r)) : AuthorizesObdService(1, pid)
    [] r.op = "dtcs"     -> AuthorizesObdService(3, None)
    [] r.op = "snapshot" ->
         /\ ContextAllows(bound, r.ecu, r.wanted)
         /\ bound = None =>
              (\A pid \in Pids : AuthorizesObdService(1, pid)) /\ AuthorizesObdService(3, None)

Begin(r) ==
  /\ step = "idle" /\ request' = r
  /\ IF PolicyAllows(r) THEN step' = "scoping" /\ UNCHANGED outcome ELSE Ends(CoreError)
  /\ UNCHANGED <<bound, declared, simulator, ecus, metadata, status, scope, asked, over>>

OBD_PROTOCOLS == {"obd2", "simulated"}
UDS_PROTOCOLS == {"uds", "simulated"}

StandardScope(known, ecu) ==
  IF ecu = None THEN DOMAIN known # {} /\ Range(known) \subseteq OBD_PROTOCOLS
  ELSE known[ecu] \in OBD_PROTOCOLS

ScopeAllows(r, known) ==
  CASE r.op = "status"   -> TRUE
    [] r.op = "pids"     -> StandardScope(known, None)
    [] r.op = "dtcs"     -> StandardScope(known, r.ecu)
    [] r.op = "snapshot" -> IF bound = None THEN StandardScope(known, r.ecu)
                            ELSE known[r.ecu] \in UDS_PROTOCOLS

EcuKnown(r, known) == r.op \in {"dtcs", "snapshot"} /\ r.ecu # None => r.ecu \in DOMAIN known

\* What is wrong with the request, given the status, or None.
ScopeError(r, known, data) ==
  IF ~PublicAccepted(data) \/ ~EcuKnown(r, known) THEN DriverError
  ELSE IF ScopeAllows(r, known) THEN None ELSE CoreError

Scoped(known) ==
  /\ scope' = known
  /\ LET error == ScopeError(request, known, metadata')
     IN \/ error # None /\ Ends(error)
        \/ error = None /\ request.op = "status" /\ Ends(Result([ecus |-> known]))
        \/ error = None /\ request.op # "status" /\ step' = "waiting" /\ UNCHANGED outcome

\* A cached status is vetted again.
CachedStatus ==
  /\ step = "scoping" /\ status # None
  /\ UNCHANGED <<metadata, status>>
  /\ Scoped(status)
  /\ UNCHANGED <<bound, declared, simulator, ecus, request, asked, over>>

FetchStatus ==
  /\ step = "scoping" /\ status = None
  /\ IF simulator # None THEN metadata' = Plain ELSE metadata' \in Metadata
  /\ status' = IF PublicAccepted(metadata') THEN ecus ELSE None
  /\ Scoped(ecus)
  /\ UNCHANGED <<bound, declared, simulator, ecus, request, asked, over>>

\* The vehicle's lock is free: the driver is asked.
Ask ==
  /\ step = "waiting" /\ step' = "asked"
  /\ asked' = [op      |-> request.op,
               ecu     |-> request.ecu,
               pids    |-> IF request.op = "pids" THEN PidsAsked(request) ELSE <<>>,
               reads   |-> IF request.op = "snapshot" THEN ReadsFor(bound, request.ecu) ELSE <<>>,
               profile |-> IF request.op = "snapshot" /\ bound # None THEN bound.id ELSE None]
  /\ UNCHANGED <<bound, declared, simulator, ecus, metadata, status, request, scope,
                 over, outcome>>

-----------------------------------------------------------------------------
(* The answer.                                                              *)

SimulatorAnswers ==
  CASE asked.op = "pids" ->
         {SimulatedReadings(Target, simulator, asked.pids, f) : f \in Fractions}
    [] asked.op = "dtcs" -> {SimulatedDtcs(Target, simulator, asked.ecu)}
    [] asked.op = "snapshot" ->
         {SimulatedSnapshot(Target, simulator, asked.ecu, asked.reads, asked.profile, f) :
            f \in Fractions}

\* A plugin answers anything, but over the protocol that it says it used.
PluginAnswers ==
  CASE asked.op = "pids" -> PluginReadings
    [] asked.op = "dtcs" -> PluginDtcs
    [] asked.op = "snapshot" ->
         {[vehicle |-> Target, ecu |-> asked.ecu, protocol |-> ecus[asked.ecu], profile |-> id,
           provenance |-> "driver", signals |-> signals, dtcs |-> dtcs] :
            id \in {None, "p", "q"}, signals \in PluginSignals, dtcs \in PluginDtcs}

Accepted(answer) ==
  CASE asked.op = "pids" -> ReadingsAccepted(answer, Target, asked.pids, DOMAIN scope)
    [] asked.op = "dtcs" -> DtcsAccepted(answer, Target, asked.ecu, DOMAIN scope, "obd")
    [] asked.op = "snapshot" ->
         SnapshotAccepted(answer, Target, asked.ecu, asked.reads, bound, DOMAIN scope,
                          scope[asked.ecu])

Returned(answer) == IF asked.op = "snapshot" THEN Attributed(answer, bound) ELSE answer

Answer ==
  /\ step = "asked" /\ over' = ecus
  /\ asked.op = "snapshot" => asked.ecu \in DOMAIN ecus
  /\ \E answer \in IF simulator # None THEN SimulatorAnswers ELSE PluginAnswers :
       Ends(IF Accepted(answer) THEN Result(Returned(answer)) ELSE DriverError)
  /\ UNCHANGED <<bound, declared, simulator, ecus, metadata, status, request, scope, asked>>

\* A plugin raises what it likes, its own errors or those of the core.
DriverFails ==
  /\ simulator = None
  /\ step = "asked" \/ (step = "scoping" /\ status = None)
  /\ \E class \in {"driver", "core", "other"}, vin \in BOOLEAN, length \in 1..MaxError + 1,
        causes \in {<<>>, <<"ValidationError">>} :
       Ends(Error(class, Said(IF class = "core" THEN "core" ELSE "driver", vin, length), causes))
  /\ UNCHANGED <<bound, declared, simulator, ecus, metadata, status, request, scope,
                 asked, over>>

\* The request is over (its answer was published).
Finish ==
  /\ step = "done" /\ step' = "idle"
  /\ request' = None /\ scope' = None /\ asked' = None /\ over' = None /\ outcome' = None
  /\ UNCHANGED <<bound, declared, simulator, ecus, metadata, status>>

-----------------------------------------------------------------------------
(* Properties.                                                              *)

Answered == asked # None /\ step = "done" /\ outcome.kind = "result"

\* A driver is asked for nothing that the allowlist, and the document configured
\* for this very vehicle and this ECU, do not declare.  The binding goes through
\* profile ids, so that it takes distinct ids (server.py, profiles.py); what an
\* ECU may be asked is filtered once more in service.py.
OnlyDeclaredReads ==
  asked # None =>
    /\ Range(asked.pids) \subseteq Pids
    /\ asked.op = "snapshot" /\ declared # None =>
         /\ asked.reads # <<>> /\ asked.profile = declared.id
         /\ \A read \in Range(asked.reads) :
              /\ read \in Range(declared.reads) /\ read.ecu = asked.ecu
              /\ read.service \in {25, 34}
              /\ read.service = 34 => read.identifier # VIN_DID
         /\ declared.ecus # {} => asked.ecu \in declared.ecus
    /\ declared = None => asked.reads = <<>>

\* Whatever a driver answers, and however the vehicle changed after its status
\* was taken: each accepted signal belongs to exactly one thing that was asked and
\* carries its label; a snapshot was read over a protocol fit for it (the readings
\* of PIDs do not say over which they were taken), and its profile and provenance
\* are those of the configured document.
AttributableSignals ==
  Answered =>
    /\ asked.op = "pids" =>
         \A i \in DOMAIN outcome.value :
           LET reading == outcome.value[i]
           IN /\ reading.label = StandardLabel(reading.pid)
              /\ Cardinality({j \in DOMAIN asked.pids : asked.pids[j] = reading.pid}) = 1
              /\ \A j \in DOMAIN outcome.value : outcome.value[j].signal = reading.signal => j = i
    /\ asked.op = "dtcs" /\ asked.ecu # None =>
         \A dtc \in Range(outcome.value) : dtc.ecu = asked.ecu
    /\ asked.op = "snapshot" /\ declared # None =>
         /\ over[asked.ecu] \in UDS_PROTOCOLS
         /\ outcome.value.profile = declared.id
         /\ outcome.value.provenance = declared.provenance
         /\ \A signal \in Range(outcome.value.signals) :
              \E i \in DOMAIN asked.reads :
                /\ \A j \in DOMAIN asked.reads : asked.reads[j].signal = signal.signal <=> j = i
                /\ signal.label[1] = asked.reads[i].name
         /\ outcome.value.dtcs # <<>> => \E read \in Range(asked.reads) : read.service = 25
    /\ asked.op = "snapshot" /\ declared = None =>
         /\ over[asked.ecu] \in OBD_PROTOCOLS
         /\ outcome.value.provenance = None
         /\ \A signal \in Range(outcome.value.signals) : signal.label = StandardLabel(signal.pid)

\* The value at an end of the decoder's range is rounded out of that range, as
\* with a uint8 and scale 0.03: 255 * 0.03 is 7.6499999999999995, rounded 7.65.
RoundedOut(decoder) ==
  LET ends == {Decoded(decoder, LowestRaw(decoder.type)),
               Decoded(decoder, HighestRaw(decoder.type))}
  IN \E end \in ends : ~ \E low, high \in ends : low <= Rounded(end) /\ Rounded(end) <= high

RoundsOut(reads) ==
  \E read \in ValueReads(reads) : Numeric(read.decoder.type) /\ RoundedOut(read.decoder)

\* What the code builds itself passes its own checks.  The service refuses no
\* answer of the built-in simulator, for any valid configuration and digest, but
\* where rounding takes an end of a decoder's range out of it (simulator.py:334
\* rounds, service.py does not): values between the ends are never the problem.
\* And metadata of a vehicle that a model class took, unless it changed, passes
\* the check of the SDK's result by itself (domain.py).
HonestIsServed ==
  /\ step = "done" /\ simulator # None /\ asked # None /\ ~Answered => RoundsOut(asked.reads)
  /\ MetadataAccepted(metadata) => ResultAccepted(metadata)

=============================================================================
