---------------------------- MODULE PublicValues ----------------------------
(***************************************************************************)
(* Values that leave the server, src/obd_mcp/domain.py: Python objects that *)
(* share and contain each other, and the two walks that vet them.           *)
(*                                                                         *)
(* A value is [kind, kids]: what each node is, "map", "list", "text", "vin" *)
(* (VIN-shaped text), "name" (a key that names an identity field) or        *)
(* "binary", and what each map or list mentions, in order; the keys of a    *)
(* map are text among its kids.  Texts are mentioned once.  Text lengths    *)
(* and bytes are abstracted to the count of values.                         *)
(***************************************************************************)
EXTENDS Integers, Sequences, FiniteSets, Functions

CONSTANTS
  Root,      \* the node a value starts at
  MaxDepth,  \* _MAX_METADATA_DEPTH
  MaxItems,  \* _MAX_METADATA_ITEMS
  MaxSize    \* MAX_PUBLIC_RESULT_BYTES

ASSUME LimitsAssumption ==
  /\ MaxDepth \in Nat /\ MaxItems \in Nat /\ MaxSize \in Nat
  /\ 2 * MaxItems <= MaxSize

Objects(value) == DOMAIN value.kind

\* Sets of objects that hold all that their members mention.
Closed(value) ==
  {S \in SUBSET Objects(value) : \A m \in S : Range(value.kids[m]) \subseteq S}

\* Each object with all that it contains, however deep, itself included.
Parts(value) ==
  LET closed == Closed(value)
  IN [m \in Objects(value) |-> {n \in Objects(value) : \A S \in closed : m \in S => n \in S}]

Reached(value) == Parts(value)[Root]

KindsIn(value) == {value.kind[n] : n \in Reached(value)}

\* Each place where an object is mentioned: in which other one, and where.
Mentions(value) == UNION {{m} \X DOMAIN value.kids[m] : m \in Reached(value)}
Mentioned(value, place) == value.kids[place[1]][place[2]]

-----------------------------------------------------------------------------
(* _reject_sensitive_metadata, when a model is built.                       *)

\* No map or list is entered twice, on a cycle or not; the walk begins at the root.
EnteredOnce(value) ==
  LET mentions == Mentions(value)
  IN \A n \in Reached(value) : value.kind[n] \in {"map", "list"} =>
       Cardinality({place \in mentions : Mentioned(value, place) = n})
         <= IF n = Root THEN 0 ELSE 1

DepthsWithin(value, limit) ==
  LET parts == Parts(value)
  IN \A n \in parts[Root] : Cardinality({m \in parts[Root] \ {n} : n \in parts[m]}) <= limit

Items(value) == 1 + Cardinality(Mentions(value))

MetadataAccepted(value) ==
  /\ EnteredOnce(value)
  /\ DepthsWithin(value, MaxDepth)
  /\ Items(value) <= MaxItems
  /\ KindsIn(value) \cap {"vin", "name", "binary"} = {}

-----------------------------------------------------------------------------
(* ensure_safe_public_value, on every way out.                              *)

\* to_json gives up on a cycle.
Serializable(value) ==
  LET parts == Parts(value)
  IN \A place \in Mentions(value) : place[1] \notin parts[Mentioned(value, place)]

\* What is shared is written out again, once for each way that leads to it.
Ways(value) ==
  LET mentions == Mentions(value)
  IN {way \in UNION {[1..n -> mentions] : n \in 0..Cardinality(Reached(value)) - 1} :
        /\ way # <<>> => way[1][1] = Root
        /\ \A k \in 1..Len(way) - 1 : way[k + 1][1] = Mentioned(value, way[k])}

SizeOf(value) == Cardinality(Ways(value))

\* A map or list seen before is not walked again.
PublicAccepted(value) ==
  /\ KindsIn(value) \cap {"vin", "binary"} = {}
  /\ Serializable(value)
  /\ SizeOf(value) <= MaxSize

\* The SDK's result holds the value twice, as text and as data.
ResultAccepted(value) ==
  /\ KindsIn(value) \cap {"vin", "binary"} = {}
  /\ Serializable(value)
  /\ 2 * SizeOf(value) <= MaxSize

=============================================================================
