----------------------------- MODULE MCToolCall -----------------------------
(* A small instance of ToolCall for TLC.                                    *)
EXTENDS ToolCall

-----------------------------------------------------------------------------
(* Profiles.                                                                *)

\* Floats with twelve bits; the fourth digit is 50 of their units.
MCIsDouble(n) == \E e \in 0..4 : n % 2^e = 0 /\ n \div 2^e \in -4096..4096

Decoder(type, scale, offset) ==
  [type |-> type, length |-> IF Numeric(type) THEN None ELSE 4,
   scale |-> scale, offset |-> offset, unit |-> "u"]
ValueRead(name, ecu, identifier, signal, decoder) ==
  [name |-> name, ecu |-> ecu, service |-> 34, identifier |-> identifier,
   signal |-> signal, decoder |-> decoder]
CodeRead(name, ecu) ==
  [name |-> name, ecu |-> ecu, service |-> 25, identifier |-> 2, signal |-> None, decoder |-> None]
Document(id, provenance, onEcus, reads) ==
  [id |-> id, provenance |-> provenance, ecus |-> onEcus, reads |-> reads]

S1 == ValueRead(101, "engine", 1, <<"own", 1>>, Decoder("uint8", 100, 0))
S2 == ValueRead(102, "engine", 2, <<"own", 2>>, Decoder("int8", -13, 43))
Same == ValueRead(103, "engine", 3, <<"own", 1>>, Decoder("uint8", 200, 0))
Wide == ValueRead(104, "body", 1, <<"own", 1>>, Decoder("int16", 1, 0))
\* An end that is rounded out of the range: 255 * 23 + 85 is 5950, as a float 5948.
Odd  == ValueRead(107, "engine", 4, <<"own", 3>>, Decoder("uint8", 23, 85))
Text == ValueRead(105, "body", 2, <<"own", 2>>, Decoder("ascii", 0, 0))

P     == Document("p", "community", {"engine"}, <<S1, S2, CodeRead(106, "engine")>>)
Twin  == Document("p", "standard", {}, <<S2>>)
Q     == Document("q", "standard", {}, <<S1, S2, Odd, Wide, Text>>)
Vague == Document("v", "community", {}, <<S1, Same>>)
Memory == Document("m", "community", {}, <<[S1 EXCEPT !.service = 35], CodeRead(106, "body")>>)
Vin   == Document("n", "community", {}, <<[S1 EXCEPT !.identifier = VIN_DID]>>)

MCFiles == {[a |-> d[1], b |-> d[2]] :
              d \in {<<P, Q>>, <<P, Twin>>, <<Vague, Q>>, <<Memory, P>>, <<Vin, Q>>}}
MCConfigs == [{"v1", "v2"} -> {None, "a", "b"}]

-----------------------------------------------------------------------------
(* Vehicles.                                                                *)

MCSimulators ==
  {[ecus |-> {"engine"}, dtcs |-> [engine |-> <<"c1", "c2">>], pidValues |-> 4 :> 100000],
   [ecus |-> {"engine", "body"}, dtcs |-> [engine |-> <<"c1">>, body |-> <<"c1">>],
    pidValues |-> <<>>],
   [ecus |-> {"engine"}, dtcs |-> [engine |-> <<"c1", "c2", "c3">>], pidValues |-> <<>>],
   [ecus |-> {"engine"}, dtcs |-> [body |-> <<"c1">>], pidValues |-> <<>>],
   [ecus |-> {"engine"}, dtcs |-> [engine |-> <<>>], pidValues |-> 4 :> 100001]}
MCFractions == {-10000, -1, 3333, 10000}

MCEcus == {<<>>, [engine |-> "obd2"], [engine |-> "uds"], [engine |-> "obd2", body |-> "uds"]}

Spelled(mode, number) == [mode |-> mode, number |-> number]
Request(op, ecu, pids, wanted) == [op |-> op, ecu |-> ecu, pids |-> pids, wanted |-> wanted]
MCRequests ==
  {Request("status", None, None, None), Request("pids", None, None, None),
   Request("pids", None, <<Spelled(1, 12), Spelled(None, 4), Spelled(None, 12)>>, None),
   Request("pids", None, <<Spelled(None, 4), Spelled(3, 4)>>, None),
   Request("dtcs", None, None, None), Request("dtcs", "engine", None, None),
   Request("snapshot", "engine", None, None), Request("snapshot", "engine", None, "q"),
   Request("snapshot", "body", None, None)}

-----------------------------------------------------------------------------
(* What a plugin may answer.                                                *)

Reading(ecu, pid, named, n) ==
  [vehicle |-> "v1", ecu |-> ecu, pid |-> pid, signal |-> StandardSignal(named),
   label |-> StandardLabel(named), value |-> Number(n), source |-> "standard"]
SomeReadings ==
  {Reading("engine", 4, 4, 0), Reading("engine", 4, 4, 100001), Reading(None, 12, 12, 5),
   Reading("engine", 12, 4, 5), Reading("body", 5, 5, 5)}
Pairs(values) == {<<>>} \cup {<<v>> : v \in values} \cup (values \X values)
MCPluginReadings == Pairs(SomeReadings)

Code(ecu, family, code, state) ==
  [vehicle |-> "v1", ecu |-> ecu, family |-> family, code |-> code, state |-> state,
   source |-> "standard"]
MCPluginDtcs ==
  Pairs({Code("engine", "obd", "c1", "stored"), Code("body", "obd", "c1", "stored"),
         Code("engine", "obd", "c1", "pending"), Code("engine", "uds", "c2", "pending")})

Signal(ecu, read, n) ==
  [vehicle |-> "v1", ecu |-> ecu, pid |-> None, signal |-> read.signal,
   label |-> <<read.name, "u">>, value |-> Number(n), source |-> "standard"]
MCPluginSignals ==
  Pairs({Signal("engine", S1, 25496), Signal("engine", S1, 25504),
         Signal("engine", S2, -1608), Signal("engine", Same, 0), Signal("body", Wide, -5000),
         Reading("engine", 4, 4, 0), Reading("engine", 12, 12, 5), Reading("engine", 12, 4, 5)})

-----------------------------------------------------------------------------
(* Metadata: a map at 1, and up to three more objects.                      *)

Value(kinds, kids) == [kind |-> kinds, kids |-> kids]
Leaf == <<>>
MCMetadata ==
  {Value(<<"map", "text">>, <<<<2>>, Leaf>>),
   Value(<<"map", "vin">>, <<<<2>>, Leaf>>),
   Value(<<"map", "name">>, <<<<2>>, Leaf>>),
   Value(<<"map", "list", "text", "text">>, <<<<3, 2>>, <<4>>, Leaf, Leaf>>),
   Value(<<"map", "list", "list">>, <<<<2, 2, 3>>, <<3>>, Leaf>>),
   Value(<<"map", "list", "list">>, <<<<2>>, <<3>>, <<2>>>>),
   Value(<<"map", "list", "vin">>, <<<<2, 2>>, <<3>>, Leaf>>),
   Value(<<"map", "list", "list", "list">>, <<<<2>>, <<3>>, <<4>>, Leaf>>),
   Value(<<"map", "list", "text">>, <<<<2, 2, 2>>, <<3, 3>>, Leaf>>)}
=============================================================================
