---------------------------- MODULE ReadProfiles ----------------------------
(***************************************************************************)
(* Diagnostic profiles: the documents of src/obd_mcp/profiles.py, which     *)
(* declare what may be read from the ECUs of a vehicle, and the part of     *)
(* server.py and service.py that binds them to vehicles and picks from them.*)
(*                                                                         *)
(* A document is [id, provenance, ecus, reads]; a read is [name, ecu,       *)
(* service, identifier, signal, decoder]; a decoder is [type, length,       *)
(* scale, offset, unit].  Numbers that are decoded are floats: they count   *)
(* units so small that every float and 10^-4 are integers.                  *)
(***************************************************************************)
EXTENDS ReadPolicy

CONSTANTS
  IsDouble(_),  \* which numbers are floats
  Digit         \* 10^-4, the fourth digit after the point

ASSUME DoublesAssumption == IsDouble(0) /\ Digit \in Nat \ {0}

VIN_DID == 61840  \* 0xF190, the identifier that would read the VIN

-----------------------------------------------------------------------------
(* Decoders.                                                                *)

ScalarTypes  == {"uint8", "int8", "uint16", "int16", "uint32", "int32"}
Signed(type) == type \in {"int8", "int16", "int32"}
Bytes(type)  == CASE type \in {"uint8", "int8"}   -> 1
                  [] type \in {"uint16", "int16"} -> 2
                  [] type \in {"uint32", "int32"} -> 4
Numeric(type) == type \notin {"ascii", "bytes"}

LowestRaw(type)  == IF Signed(type) THEN -(2^(8 * Bytes(type) - 1)) ELSE 0
HighestRaw(type) == IF Signed(type) THEN 2^(8 * Bytes(type) - 1) - 1 ELSE 2^(8 * Bytes(type)) - 1

\* A result is rounded to a float nearest to it (of two, to either).
FloatsAt(n, distance) == {d \in {n - distance, n + distance} : IsDouble(d)}
Float(n) ==
  LET gap == CHOOSE k \in 0..(IF n < 0 THEN -n ELSE n) :
               FloatsAt(n, k) # {} /\ \A j \in 0..k - 1 : FloatsAt(n, j) = {}
  IN CHOOSE d \in FloatsAt(n, gap) : TRUE

Decoded(decoder, raw) == Float(Float(raw * decoder.scale) + decoder.offset)

ValidDecoder(decoder) ==
  IF Numeric(decoder.type)
  THEN decoder.length \in {None, Bytes(decoder.type)}
  ELSE decoder.length # None

-----------------------------------------------------------------------------
(* Documents.                                                               *)

ValidRead(read) ==
  /\ AuthorizesUdsService(read.service)
  /\ read.service = 25 =>
       read.identifier <= 255 /\ read.decoder = None /\ read.signal = None
  /\ read.service = 34 =>
       /\ read.signal # None /\ read.decoder # None
       /\ ValidDecoder(read.decoder)
       /\ read.identifier # VIN_DID

\* reads_must_be_unambiguous.
Unambiguous(reads) ==
  /\ IsInjective([i \in DOMAIN reads |-> reads[i].name])
  /\ IsInjective([i \in DOMAIN reads |-> <<reads[i].ecu, reads[i].service, reads[i].identifier>>])
  /\ LET signals == {i \in DOMAIN reads : reads[i].signal # None}
     IN IsInjective([i \in signals |-> <<reads[i].ecu, reads[i].signal>>])

ValidDocument(document) ==
  /\ document.reads # <<>>
  /\ \A read \in Range(document.reads) : ValidRead(read)
  /\ Unambiguous(document.reads)

-----------------------------------------------------------------------------
(* The registry.  files: [paths -> documents]; config: [vehicles -> path].  *)

UsedPaths(config) == Range(config) \ {None}

\* ProfileRegistry.add (seeded fault: an id that is taken is overwritten).
Overwrites(files, paths)  == TRUE
IdsDistinct(files, paths) == \A p, q \in paths : files[p].id = files[q].id => p = q

\* Every path is loaded once, however many vehicles name it.
ProfilesLoad(files, config) ==
  /\ \A p \in UsedPaths(config) : ValidDocument(files[p])
  /\ IdsDistinct(files, UsedPaths(config))

RegistryGet(files, config, id) ==
  files[CHOOSE p \in UsedPaths(config) : files[p].id = id]

BoundProfile(files, config, vehicle) ==
  IF config[vehicle] = None THEN None
  ELSE RegistryGet(files, config, files[config[vehicle]].id)

-----------------------------------------------------------------------------
(* _profile_context.                                                        *)

ReadsFor(profile, ecu) ==
  IF profile = None THEN <<>>
  ELSE Picked(profile.reads, {i \in DOMAIN profile.reads : profile.reads[i].ecu = ecu})

\* The profile that is bound to the vehicle may serve a request that names
\* the profile wanted, or none.
ContextAllows(profile, ecu, wanted) ==
  /\ wanted # None => profile # None /\ profile.id = wanted
  /\ profile # None =>
       /\ profile.ecus = {} \/ ecu \in profile.ecus
       /\ ReadsFor(profile, ecu) # <<>>
       /\ \A read \in Range(ReadsFor(profile, ecu)) : AuthorizesUdsService(read.service)

=============================================================================
