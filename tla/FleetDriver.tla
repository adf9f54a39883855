----------------------------- MODULE FleetDriver -----------------------------
(***************************************************************************)
(* _ConfiguredFleetDriver of src/obd_mcp/server.py: one driver to the       *)
(* diagnostic service, and behind it one driver per configured vehicle.     *)
(*                                                                         *)
(* The service is whatever keeps the promise of ExclusiveExchange, whose    *)
(* subjects are the vehicles and the fleet list.  A call is answered when   *)
(* the driver behind it answers; a list and a close ask all the drivers.    *)
(***************************************************************************)
EXTENDS Naturals, FiniteSets

CONSTANTS
  Drivers,   \* the configured vehicles, each with its driver
  Fleet,     \* the subject of list_vehicles
  MaxLists   \* list calls under way at one driver (a bound of the model)

ASSUME FleetAssumption == IsFiniteSet(Drivers) /\ Fleet \notin Drivers /\ MaxLists \in Nat \ {0}

VARIABLES
  exchange, closing,  \* the service's calls, as ExclusiveExchange has them
  reading,   \* [Drivers -> the vehicles whose exchange the driver works on]
  asked,     \* the drivers whose answer to the current list is outstanding
  orphans,   \* [Drivers -> list calls whose answer nobody waits for]
  shut,      \* [Drivers -> where its close() is]
  broken     \* a list ended before all its drivers answered (history)

driverVars == <<reading, asked, orphans, shut, broken>>
vars       == <<exchange, closing, driverVars>>

Service == INSTANCE ExclusiveExchange WITH Subjects <- Drivers \cup {Fleet}

TypeOK ==
  /\ Service!TypeOK
  /\ reading \in [Drivers -> SUBSET Drivers]
  /\ asked \subseteq Drivers
  /\ orphans \in [Drivers -> 0..MaxLists]
  /\ shut \in [Drivers -> {"open", "closing", "closed", "failed"}]
  /\ broken \in BOOLEAN

Init ==
  /\ Service!Init
  /\ reading = [d \in Drivers |-> {}]
  /\ asked = {}
  /\ orphans = [d \in Drivers |-> 0]
  /\ shut = [d \in Drivers |-> "open"]
  /\ broken = FALSE

-----------------------------------------------------------------------------
(* Calls on a vehicle.                                                      *)

\* _driver: the drivers are keyed by the vehicle they were configured for.
Route(v) == v

Read(v) ==
  /\ Service!Start(v)
  /\ reading' = [reading EXCEPT ![Route(v)] = @ \cup {v}]
  /\ UNCHANGED <<asked, orphans, shut, broken>>

ReadEnds(d) ==
  \E v \in reading[d] :
    /\ reading' = [reading EXCEPT ![d] = @ \ {v}]
    /\ Service!Finish(v)
    /\ UNCHANGED <<asked, orphans, shut, broken>>

\* The service stops waiting: nobody tells the drivers.
GiveUp(s) == Service!GiveUp(s) /\ UNCHANGED driverVars

-----------------------------------------------------------------------------
(* list_vehicles: gather, which fails with the first driver that fails.     *)

Listing(d) == orphans[d] + (IF d \in asked THEN 1 ELSE 0)

List ==
  /\ \A d \in Drivers : Listing(d) < MaxLists
  /\ Service!Start(Fleet)
  /\ asked' = Drivers
  /\ UNCHANGED <<reading, orphans, shut, broken>>

\* A list is complete with its last answer (seeded fault: with its first one).
FirstAnswered(rest) == TRUE
AllAnswered(rest)   == rest = {}

\* Calls of a list that ended, by driver (seeded fault: it is asked once more).
AskedAgain(rest) == [d \in Drivers |-> orphans[d] + (IF d \in rest THEN 2 ELSE 0)]
LeftTo(rest)     == [d \in Drivers |-> orphans[d] + (IF d \in rest THEN 1 ELSE 0)]

\* The list ends while these drivers still work on it.
Abandon(rest) ==
  /\ Service!Finish(Fleet)
  /\ asked' = {}
  /\ orphans' = LeftTo(rest)

ListAnswered(d) ==
  /\ d \in asked
  /\ IF AllAnswered(asked \ {d})
       THEN Abandon(asked \ {d})
       ELSE asked' = asked \ {d} /\ UNCHANGED <<exchange, closing, orphans>>
  /\ UNCHANGED <<reading, shut, broken>>

ListFails(d) ==
  /\ d \in asked
  /\ Abandon(asked \ {d})
  /\ broken' = (broken \/ asked # {d})
  /\ UNCHANGED <<reading, shut>>

OrphanEnds(d) ==
  /\ orphans[d] > 0
  /\ orphans' = [orphans EXCEPT ![d] = @ - 1]
  /\ UNCHANGED <<exchange, closing, reading, asked, shut, broken>>

-----------------------------------------------------------------------------
(* close: gather with return_exceptions.                                    *)

Close ==
  /\ Service!BeginClose
  /\ shut' = [d \in Drivers |-> "closing"]
  /\ UNCHANGED <<reading, asked, orphans, broken>>

DriverCloses(d) ==
  /\ shut[d] = "closing"
  /\ \E outcome \in {"closed", "failed"} : shut' = [shut EXCEPT ![d] = outcome]
  /\ UNCHANGED <<exchange, closing, reading, asked, orphans, broken>>

\* Close ends with the last driver (seeded faults: with the first that fails,
\* as gather alone would; only when none failed).
FirstFailed == (\E d \in Drivers : shut[d] = "failed") \/ \A d \in Drivers : shut[d] = "closed"
NoneFailed  == \A d \in Drivers : shut[d] = "closed"
AllEnded    == \A d \in Drivers : shut[d] # "closing"

CloseReturns ==
  /\ AllEnded
  /\ Service!EndClose
  /\ UNCHANGED driverVars

-----------------------------------------------------------------------------
Next ==
  \/ List \/ Close \/ CloseReturns
  \/ \E s \in Drivers \cup {Fleet} : GiveUp(s)
  \/ \E d \in Drivers :
       Read(d) \/ ReadEnds(d) \/ ListAnswered(d) \/ ListFails(d) \/ OrphanEnds(d) \/ DriverCloses(d)

Spec == Init /\ [][Next]_vars

\* Drivers that end what they start.
FairSpec ==
  /\ Spec /\ WF_vars(CloseReturns)
  /\ \A d \in Drivers :
       /\ WF_vars(ReadEnds(d)) /\ WF_vars(DriverCloses(d))
       /\ WF_vars(ListAnswered(d) \/ ListFails(d))

-----------------------------------------------------------------------------
(* Properties.                                                              *)

\* What the driver of vehicle d sees of the service's exchanges.
SeenBy(d) ==
  IF reading[d] = {} THEN "none"
  ELSE IF \E v \in reading[d] : exchange[v] = "wanted" THEN "wanted" ELSE "draining"

Behind == INSTANCE ExclusiveExchange WITH
  Subjects <- Drivers,
  exchange <- [d \in Drivers |-> SeenBy(d)],
  closing  <- \E d \in Drivers : shut[d] = "closing"

\* The fleet driver hands the service's promise on to the drivers behind it:
\* each works on one exchange at a time, and no driver is being closed while
\* any of them works on one, not even when another driver failed to close.
HandsPromiseOn == Behind!Spec

\* list_vehicles of one driver runs neither twice at once nor beside its
\* close(), as long as no list was cut short by a driver that failed.
ListsExclusive ==
  ~broken => \A d \in Drivers : Listing(d) <= 1 /\ (shut[d] = "closing" => Listing(d) = 0)

\* The service gets its answer: no vehicle call, no list and no close stays
\* under way for ever once the drivers are done.
CallsAnswered ==
  /\ \A s \in Drivers \cup {Fleet} : exchange[s] # "none" ~> exchange[s] = "none"
  /\ closing ~> ~closing

=============================================================================
