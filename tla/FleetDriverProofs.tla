-------------------------- MODULE FleetDriverProofs --------------------------
(***************************************************************************)
(* Proofs about FleetDriver, for any set of configured vehicles: what the    *)
(* service promises the fleet driver, the drivers behind it get as well.     *)
(***************************************************************************)
EXTENDS FleetDriver, TLAPS

Subjects == Drivers \cup {Fleet}

\* The service keeps exchanges and close() apart.
Apart == closing => \A s \in Subjects : exchange[s] = "none"

\* A driver works on the exchange of its own vehicle, and on no other.
OwnVehicle ==
  \A d \in Drivers : reading[d] = IF exchange[d] = "none" THEN {} ELSE {d}

\* Drivers are asked for a list that is under way; they are closed by a close
\* that is.
UnderWay ==
  /\ asked # {} => exchange[Fleet] # "none"
  /\ \A d \in Drivers : shut[d] = "closing" => closing

\* Where lists that ended left calls behind.
LeftBehind ==
  /\ \A d \in Drivers : Listing(d) <= MaxLists
  /\ ~broken => \A d \in Drivers : orphans[d] = 0

Sound == TypeOK /\ Apart /\ OwnVehicle /\ UnderWay /\ LeftBehind

-----------------------------------------------------------------------------
LEMMA SoundInit == Init => Sound
<1> SUFFICES ASSUME Init PROVE Sound OBVIOUS
<1> USE FleetAssumption DEF Init, Service!Init
<1>1. TypeOK
  <2>1. closing \in BOOLEAN /\ broken \in BOOLEAN OBVIOUS
  <2>2. exchange \in [Drivers \cup {Fleet} -> {"none", "wanted", "draining"}] OBVIOUS
  <2>3. /\ reading \in [Drivers -> SUBSET Drivers] /\ asked \subseteq Drivers
        /\ shut \in [Drivers -> {"open", "closing", "closed", "failed"}]
    OBVIOUS
  <2>4. orphans \in [Drivers -> 0..MaxLists] OBVIOUS
  <2> QED BY <2>1, <2>2, <2>3, <2>4 DEF TypeOK, Service!TypeOK
<1>2. Apart /\ OwnVehicle /\ UnderWay BY DEF Apart, OwnVehicle, UnderWay, Subjects
<1>3. LeftBehind
  <2>1. \A d \in Drivers : orphans[d] = 0 /\ Listing(d) = 0 BY DEF Listing
  <2> QED BY <2>1 DEF LeftBehind
<1> QED BY <1>1, <1>2, <1>3 DEF Sound

\* What the service does to its exchanges, whoever it calls.
LEMMA ServiceKeeps ==
  ASSUME Sound, NEW s \in Subjects,
         Service!Start(s) \/ Service!GiveUp(s) \/ Service!Finish(s)
  PROVE  /\ Service!TypeOK' /\ Apart' /\ closing' = closing
         /\ \A r \in Subjects \ {s} : exchange'[r] = exchange[r]
BY DEF Sound, TypeOK, Apart, Subjects, Service!TypeOK, Service!Start, Service!GiveUp, Service!Finish

LEMMA ReadKeeps == ASSUME Sound, NEW v \in Drivers, Read(v) PROVE Sound'
<1> USE DEF Read, Route, Sound
<1>1. /\ Service!TypeOK' /\ Apart' /\ closing' = closing
      /\ \A r \in Subjects \ {v} : exchange'[r] = exchange[r]
  BY ServiceKeeps DEF Subjects
<1>2. exchange[v] = "none" /\ exchange'[v] = "wanted"
  BY DEF Service!Start, TypeOK, Service!TypeOK
<1>3. reading' = [reading EXCEPT ![v] = {v}] BY <1>2 DEF OwnVehicle, TypeOK
<1>4. TypeOK' BY <1>1, <1>3 DEF TypeOK
<1>5. OwnVehicle'
  <2>1. reading'[v] = {v} /\ \A d \in Drivers \ {v} : reading'[d] = reading[d] BY <1>3 DEF TypeOK
  <2> QED BY <1>1, <1>2, <2>1 DEF OwnVehicle, Subjects
<1>6. UnderWay' BY <1>1, FleetAssumption DEF UnderWay, Subjects
<1>7. LeftBehind' BY DEF LeftBehind, Listing
<1> QED BY <1>1, <1>4, <1>5, <1>6, <1>7

LEMMA ReadEndsKeeps == ASSUME Sound, NEW d \in Drivers, ReadEnds(d) PROVE Sound'
<1> USE DEF Sound
<1>0. d \in reading[d] /\ reading' = [reading EXCEPT ![d] = {}] /\ Service!Finish(d)
      /\ UNCHANGED <<asked, orphans, shut, broken>>
  <2>1. PICK v \in reading[d] :
          /\ reading' = [reading EXCEPT ![d] = @ \ {v}]
          /\ Service!Finish(v)
          /\ UNCHANGED <<asked, orphans, shut, broken>>
    BY DEF ReadEnds
  <2>2. v = d /\ reading[d] \ {v} = {} BY <2>1 DEF OwnVehicle
  <2> QED BY <2>1, <2>2 DEF TypeOK
<1>1. /\ Service!TypeOK' /\ Apart' /\ closing' = closing
      /\ \A r \in Subjects \ {d} : exchange'[r] = exchange[r]
  BY <1>0, ServiceKeeps DEF Subjects
<1>2. exchange'[d] = "none" BY <1>0 DEF Service!Finish, TypeOK, Service!TypeOK
<1>3. TypeOK' BY <1>0, <1>1 DEF TypeOK
<1>4. OwnVehicle'
  <2>1. reading'[d] = {} /\ \A e \in Drivers \ {d} : reading'[e] = reading[e] BY <1>0 DEF TypeOK
  <2> QED BY <1>1, <1>2, <2>1 DEF OwnVehicle, Subjects
<1>5. UnderWay' BY <1>0, <1>1, FleetAssumption DEF UnderWay, Subjects
<1>6. LeftBehind' BY <1>0 DEF LeftBehind, Listing
<1> QED BY <1>1, <1>3, <1>4, <1>5, <1>6

LEMMA GiveUpKeeps == ASSUME Sound, NEW s \in Subjects, GiveUp(s) PROVE Sound'
<1> USE DEF GiveUp, driverVars, Sound
<1>1. /\ Service!TypeOK' /\ Apart' /\ closing' = closing
      /\ \A r \in Subjects \ {s} : exchange'[r] = exchange[r]
  BY ServiceKeeps
<1>2. exchange[s] = "wanted" /\ exchange'[s] = "draining"
  BY DEF Service!GiveUp, TypeOK, Service!TypeOK, Subjects
<1>3. \A r \in Subjects : exchange'[r] = "none" <=> exchange[r] = "none" BY <1>1, <1>2
<1>4. TypeOK' BY <1>1 DEF TypeOK
<1>5. OwnVehicle' BY <1>3 DEF OwnVehicle, Subjects
<1>6. UnderWay' BY <1>1, <1>3 DEF UnderWay, Subjects
<1>7. LeftBehind' BY DEF LeftBehind, Listing
<1> QED BY <1>1, <1>4, <1>5, <1>6, <1>7

LEMMA ListKeeps == ASSUME Sound, List PROVE Sound'
<1> USE DEF List, Sound
<1>1. /\ Service!TypeOK' /\ Apart' /\ closing' = closing
      /\ \A r \in Drivers : exchange'[r] = exchange[r]
  BY ServiceKeeps, FleetAssumption DEF Subjects
<1>2. exchange'[Fleet] = "wanted" BY DEF Service!Start, TypeOK, Service!TypeOK
<1>3. TypeOK' BY <1>1 DEF TypeOK
<1>4. OwnVehicle' BY <1>1 DEF OwnVehicle
<1>5. UnderWay' BY <1>1, <1>2 DEF UnderWay
<1>6. LeftBehind'
  <2>1. \A d \in Drivers : orphans[d] \in Nat /\ orphans[d] < MaxLists
    BY FleetAssumption DEF TypeOK, Listing
  <2> QED BY <2>1, FleetAssumption DEF LeftBehind, Listing
<1> QED BY <1>1, <1>3, <1>4, <1>5, <1>6

\* A list ends: what it leaves behind is what it had asked for.
LEMMA AbandonKeeps ==
  ASSUME Sound, NEW rest \in SUBSET asked, Abandon(rest), UNCHANGED <<reading, shut>>,
         broken' \in BOOLEAN, ~broken' => ~broken /\ rest = {}
  PROVE  Sound'
<1> USE DEF Abandon, Sound
<1>1. /\ Service!TypeOK' /\ Apart' /\ closing' = closing
      /\ \A r \in Drivers : exchange'[r] = exchange[r]
  BY ServiceKeeps, FleetAssumption DEF Subjects
<1>2. \A d \in Drivers : orphans[d] \in Nat /\ orphans[d] + (IF d \in asked THEN 1 ELSE 0) <= MaxLists
  BY FleetAssumption DEF TypeOK, LeftBehind, Listing
<1>3. orphans' \in [Drivers -> 0..MaxLists]
      /\ \A d \in Drivers : orphans'[d] = orphans[d] + (IF d \in rest THEN 1 ELSE 0)
  BY <1>2, FleetAssumption DEF LeftTo, TypeOK
<1>4. TypeOK' BY <1>1, <1>3 DEF TypeOK
<1>5. OwnVehicle' BY <1>1 DEF OwnVehicle
<1>6. UnderWay' BY <1>1 DEF UnderWay
<1>7. LeftBehind'
  <2>1. \A d \in Drivers : Listing(d)' <= MaxLists BY <1>3, FleetAssumption DEF Listing
  <2>2. ~broken' => \A d \in Drivers : orphans'[d] = 0 BY <1>2, <1>3 DEF LeftBehind
  <2> QED BY <2>1, <2>2 DEF LeftBehind
<1> QED BY <1>1, <1>4, <1>5, <1>6, <1>7

LEMMA ListAnsweredKeeps == ASSUME Sound, NEW d \in Drivers, ListAnswered(d) PROVE Sound'
<1> USE DEF ListAnswered, AllAnswered
<1>1. CASE asked \ {d} = {}
  BY <1>1, AbandonKeeps DEF Sound, TypeOK
<1>2. CASE asked \ {d} # {}
  <2>1. /\ asked' = asked \ {d} /\ asked # {}
        /\ UNCHANGED <<exchange, closing, reading, orphans, shut, broken>>
    BY <1>2
  <2>2. TypeOK' BY <2>1 DEF Sound, TypeOK, Service!TypeOK
  <2>3. Apart' /\ OwnVehicle' /\ UnderWay' BY <2>1 DEF Sound, Apart, OwnVehicle, UnderWay
  <2>4. LeftBehind' BY <2>1, FleetAssumption DEF Sound, TypeOK, LeftBehind, Listing
  <2> QED BY <2>2, <2>3, <2>4 DEF Sound
<1> QED BY <1>1, <1>2

LEMMA ListFailsKeeps == ASSUME Sound, NEW d \in Drivers, ListFails(d) PROVE Sound'
<1> USE DEF ListFails
<1>1. broken' \in BOOLEAN /\ (~broken' => ~broken /\ asked \ {d} = {}) BY DEF Sound, TypeOK
<1> QED BY <1>1, AbandonKeeps

LEMMA OrphanEndsKeeps == ASSUME Sound, NEW d \in Drivers, OrphanEnds(d) PROVE Sound'
<1> USE DEF OrphanEnds, Sound
<1>1. orphans' \in [Drivers -> 0..MaxLists]
      /\ \A e \in Drivers : orphans'[e] <= orphans[e] /\ orphans[e] \in Nat /\ orphans'[e] \in Nat
  BY FleetAssumption DEF TypeOK
<1>2. TypeOK' BY <1>1 DEF TypeOK, Service!TypeOK
<1>3. Apart' /\ OwnVehicle' /\ UnderWay' BY DEF Apart, OwnVehicle, UnderWay
<1>4. LeftBehind' BY <1>1, FleetAssumption DEF LeftBehind, Listing
<1> QED BY <1>2, <1>3, <1>4

LEMMA CloseKeeps == ASSUME Sound, Close PROVE Sound'
<1> USE DEF Close, Sound
<1>1. closing' = TRUE /\ exchange' = exchange /\ \A s \in Subjects : exchange[s] = "none"
  BY DEF Service!BeginClose, Subjects
<1>2. TypeOK' BY <1>1 DEF TypeOK, Service!TypeOK
<1>3. Apart' /\ OwnVehicle' /\ UnderWay' BY <1>1 DEF Apart, OwnVehicle, UnderWay
<1>4. LeftBehind' BY DEF LeftBehind, Listing
<1> QED BY <1>2, <1>3, <1>4

LEMMA DriverClosesKeeps == ASSUME Sound, NEW d \in Drivers, DriverCloses(d) PROVE Sound'
<1> USE DEF DriverCloses, Sound
<1>1. /\ shut' \in [Drivers -> {"open", "closing", "closed", "failed"}]
      /\ \A e \in Drivers : shut'[e] = "closing" => shut[e] = "closing"
      /\ UNCHANGED <<exchange, closing, reading, asked, orphans, broken>>
  BY DEF TypeOK
<1>2. TypeOK' BY <1>1 DEF TypeOK, Service!TypeOK
<1>3. Apart' /\ OwnVehicle' /\ UnderWay' BY <1>1 DEF Apart, OwnVehicle, UnderWay
<1>4. LeftBehind' BY DEF LeftBehind, Listing
<1> QED BY <1>2, <1>3, <1>4

\* close() of the fleet driver ends only when that of every driver has.
LEMMA CloseReturnsKeeps == ASSUME Sound, CloseReturns PROVE Sound'
<1> USE DEF CloseReturns, driverVars, AllEnded, Sound, Service!EndClose
<1>1. TypeOK' BY DEF TypeOK, Service!TypeOK
<1>2. Apart' /\ OwnVehicle' /\ UnderWay' BY DEF Apart, OwnVehicle, UnderWay
<1>3. LeftBehind' BY DEF LeftBehind, Listing
<1> QED BY <1>1, <1>2, <1>3

LEMMA SoundStep == Sound /\ [Next]_vars => Sound'
<1> SUFFICES ASSUME Sound, [Next]_vars PROVE Sound' OBVIOUS
<1>1. CASE UNCHANGED vars
  BY <1>1 DEF vars, driverVars, Sound, TypeOK, Apart, OwnVehicle, UnderWay, LeftBehind, Listing,
              Service!TypeOK
<1> QED BY <1>1, ReadKeeps, ReadEndsKeeps, GiveUpKeeps, ListKeeps, ListAnsweredKeeps,
        ListFailsKeeps, OrphanEndsKeeps, CloseKeeps, DriverClosesKeeps, CloseReturnsKeeps
     DEF Next, Subjects

LEMMA SoundHolds == Spec => []Sound
BY SoundInit, SoundStep, PTL DEF Spec

-----------------------------------------------------------------------------
\* The variables of the fleet driver, and of the service's promise to it, stay
\* within their types.
THEOREM TypeCorrect == Spec => []TypeOK
BY SoundHolds, PTL DEF Sound

\* No driver is asked for two lists at once, or for a list while it is closed,
\* until a driver that fails cuts a list short.
THEOREM ExclusiveLists == Spec => []ListsExclusive
<1>1. Sound => ListsExclusive
  <2> SUFFICES ASSUME Sound, ~broken, NEW d \in Drivers
               PROVE  Listing(d) <= 1 /\ (shut[d] = "closing" => Listing(d) = 0)
    BY DEF ListsExclusive
  <2>1. orphans[d] = 0 BY DEF Sound, LeftBehind
  <2>2. shut[d] = "closing" => asked = {}
    BY DEF Sound, UnderWay, Apart, Subjects
  <2> QED BY <2>1, <2>2 DEF Listing
<1> QED BY <1>1, SoundHolds, PTL

\* What a driver sees of its vehicle's exchange is what the service means by it.
LEMMA SeenAsMeant ==
  ASSUME Sound, NEW d \in Drivers
  PROVE  SeenBy(d) = exchange[d]
<1>1. exchange[d] \in {"none", "wanted", "draining"} BY DEF Sound, TypeOK, Service!TypeOK
<1>2. CASE exchange[d] = "none" BY <1>2 DEF Sound, OwnVehicle, SeenBy
<1>3. CASE exchange[d] # "none"
  <2>1. reading[d] = {d} BY <1>3 DEF Sound, OwnVehicle
  <2>2. (\E v \in reading[d] : exchange[v] = "wanted") <=> exchange[d] = "wanted" BY <2>1
  <2> QED BY <1>1, <1>3, <2>1, <2>2 DEF SeenBy
<1> QED BY <1>2, <1>3

LEMMA BehindInit == Init => Behind!Init
BY DEF Init, Behind!Init, Service!Init, SeenBy

\* The exchanges that the drivers see, and whether one of them is being closed.
Exchanges == [d \in Drivers |-> SeenBy(d)]
Closing   == \E d \in Drivers : shut[d] = "closing"

LEMMA BehindStep == Sound /\ [Next]_vars => [Behind!Next]_(Behind!vars)
<1> SUFFICES ASSUME Sound, [Next]_vars PROVE [Behind!Next]_(Behind!vars) OBVIOUS
<1>0. Sound' BY SoundStep
<1>1. /\ Exchanges = [d \in Drivers |-> exchange[d]]
      /\ Exchanges' = [d \in Drivers |-> exchange'[d]]
  <2>1. \A d \in Drivers : SeenBy(d) = exchange[d] BY SeenAsMeant
  <2>2. \A d \in Drivers : SeenBy(d)' = exchange'[d]
    BY <1>0 DEF Sound, OwnVehicle, SeenBy, TypeOK, Service!TypeOK
  <2> QED BY <2>1, <2>2 DEF Exchanges
<1>2. Closing => closing BY DEF Closing, Sound, UnderWay
<1>3. exchange \in [Subjects -> {"none", "wanted", "draining"}] /\ Fleet \notin Drivers
  BY FleetAssumption DEF Sound, TypeOK, Service!TypeOK, Subjects
<1>4. ASSUME \A d \in Drivers : exchange'[d] = exchange[d], UNCHANGED shut PROVE UNCHANGED Behind!vars
  BY <1>1, <1>4 DEF Behind!vars, Exchanges, Closing
<1>5. ASSUME NEW d \in Drivers, Read(d) PROVE Behind!Next
  <2>1. Exchanges[d] = "none" /\ ~Closing /\ Closing' = Closing
        /\ Exchanges' = [Exchanges EXCEPT ![d] = "wanted"]
    BY <1>1, <1>2, <1>3, <1>5 DEF Read, Service!Start, Subjects, Closing
  <2>2. Behind!Start(d) BY <2>1 DEF Behind!Start, Exchanges, Closing
  <2> QED BY <2>2 DEF Behind!Next
<1>6. ASSUME NEW d \in Drivers, ReadEnds(d) PROVE Behind!Next
  <2>1. Service!Finish(d) /\ UNCHANGED shut
    BY <1>6 DEF ReadEnds, Sound, OwnVehicle
  <2>2. Exchanges[d] # "none" /\ Closing' = Closing /\ Exchanges' = [Exchanges EXCEPT ![d] = "none"]
    BY <1>1, <1>3, <2>1 DEF Service!Finish, Subjects, Closing
  <2>3. Behind!Finish(d) BY <2>2 DEF Behind!Finish, Exchanges, Closing
  <2> QED BY <2>3 DEF Behind!Next
<1>7. ASSUME NEW d \in Drivers, GiveUp(d) PROVE Behind!Next
  <2>1. Exchanges[d] = "wanted" /\ Closing' = Closing
        /\ Exchanges' = [Exchanges EXCEPT ![d] = "draining"]
    BY <1>1, <1>3, <1>7 DEF GiveUp, driverVars, Service!GiveUp, Subjects, Closing
  <2>2. Behind!GiveUp(d) BY <2>1 DEF Behind!GiveUp, Exchanges, Closing
  <2> QED BY <2>2 DEF Behind!Next
<1>8. CASE GiveUp(Fleet) \/ List
  BY <1>3, <1>4, <1>8 DEF GiveUp, driverVars, List, Service!GiveUp, Service!Start, Subjects
<1>9. ASSUME NEW d \in Drivers, ListAnswered(d) \/ ListFails(d) \/ OrphanEnds(d)
      PROVE  UNCHANGED Behind!vars
  BY <1>3, <1>4, <1>9 DEF ListAnswered, ListFails, OrphanEnds, Abandon, Service!Finish, Subjects
<1>10. CASE Close
  <2>1. ~Closing /\ UNCHANGED exchange /\ \A d \in Drivers : exchange[d] = "none"
    BY <1>2, <1>10 DEF Close, Service!BeginClose
  <2>2. Exchanges' = Exchanges /\ \A d \in Drivers : Exchanges[d] = "none" BY <1>1, <2>1
  <2>3. CASE Drivers = {} BY <2>2, <2>3 DEF Behind!vars, Exchanges
  <2>4. CASE Drivers # {}
    <3>1. Closing' BY <1>10, <2>4 DEF Close, Closing
    <3>2. Behind!BeginClose BY <2>1, <2>2, <3>1 DEF Behind!BeginClose, Exchanges, Closing
    <3> QED BY <3>2 DEF Behind!Next
  <2> QED BY <2>3, <2>4
<1>11. ASSUME NEW d \in Drivers, DriverCloses(d) PROVE [Behind!Next]_(Behind!vars)
  <2>1. Closing /\ Exchanges' = Exchanges BY <1>1, <1>11 DEF DriverCloses, Closing
  <2>2. CASE Closing' BY <2>1, <2>2 DEF Behind!vars, Exchanges, Closing
  <2>3. CASE ~Closing'
    <3>1. Behind!EndClose BY <2>1, <2>3 DEF Behind!EndClose, Exchanges, Closing
    <3> QED BY <3>1 DEF Behind!Next
  <2> QED BY <2>2, <2>3
<1>12. CASE CloseReturns \/ UNCHANGED vars
  BY <1>4, <1>12 DEF CloseReturns, vars, driverVars, Service!EndClose
<1> QED BY <1>5, <1>6, <1>7, <1>8, <1>9, <1>10, <1>11, <1>12 DEF Next

\* Every driver behind the fleet driver is promised what the service promised the
\* fleet driver: one exchange at a time, and none while any driver is closed.
THEOREM Refinement == Spec => HandsPromiseOn
BY BehindInit, BehindStep, SoundHolds, PTL DEF Spec, HandsPromiseOn, Behind!Spec
=============================================================================
