------------------------- MODULE Elm327DriverProofs -------------------------
(***************************************************************************)
(* Proofs about Elm327Driver, for any number of tasks, any operations and    *)
(* any number of PIDs: Sound is an inductive invariant, and the safety       *)
(* properties that elm_core checks follow from it.                           *)
(***************************************************************************)
EXTENDS Elm327Driver, SequenceLemmas

\* A task that waits for the lock is in its queue.
Queued == \A t \in Tasks : pc[t] = "queued" => Waits(waiters, t)

\* A thread works exactly while its caller holds the lock, and one at a time.
LockHeld ==
  /\ \A t \in Tasks : job[t] # "none" <=> pc[t] = "running"
  /\ \A t, u \in Tasks : pc[t] = "running" /\ pc[u] = "running" => t = u

\* The serial port while a thread connects, and while none does.
PortsFollow ==
  /\ poisoned \/ linked \/ matching => connection
  /\ (\A t \in Tasks : job[t] # "verify") => (ports = 1 <=> connection)
  /\ \A t \in Tasks : job[t] \in {"open", "verify"} => ~connection /\ ~closed
  /\ \A t \in Tasks : job[t] = "verify" => ports = 1

\* What a query about to go out rests on.
QueryReady ==
  \A t \in Tasks : job[t] = "query" => connection /\ ~poisoned /\ matching /\ ~closed

Sound ==
  /\ TypeOK /\ Queued /\ LockHeld /\ PortsFollow /\ QueryReady
  /\ ReportsHonestly /\ ClosedForGood

-----------------------------------------------------------------------------
\* The thread of a call does one step: nobody else's thread is at work, and the
\* lock and its queue stay as they are.
LEMMA WorkerFrame ==
  ASSUME Sound, NEW t \in Tasks, job[t] # "none", NEW step \in Working \cup {"done", "failed"},
         Ended(t, step)
  PROVE  /\ Queued' /\ LockHeld'
         /\ waiters' \in Seq(Tasks)
         /\ pc' \in [Tasks -> {"idle", "queued", "running"}]
         /\ call' \in [Tasks -> Ops \cup {None}]
         /\ left' \in [Tasks -> 0..(Pids + 1)]
         /\ cancelled' \in [Tasks -> BOOLEAN]
         /\ job' \in [Tasks -> Working \cup {"none", "done", "failed"}]
         /\ job'[t] = step
         /\ \A u \in Tasks \ {t} : job[u] = "none" /\ job'[u] = "none"
<1> USE DEF Sound, Ended
<1>1. job'[t] = step /\ \A u \in Tasks \ {t} : job'[u] = job[u] BY DEF TypeOK
<1>2. job' \in [Tasks -> Working \cup {"none", "done", "failed"}] BY DEF TypeOK
<1>3. \A u \in Tasks \ {t} : job[u] = "none" BY DEF LockHeld
<1>4. step # "none" BY DEF Working
<1>5. Queued' BY DEF Queued
<1>6. LockHeld' BY <1>1, <1>4 DEF LockHeld
<1> QED BY <1>1, <1>2, <1>3, <1>5, <1>6 DEF TypeOK

LEMMA SoundInit == Init => Sound
<1> SUFFICES ASSUME Init PROVE Sound OBVIOUS
<1> USE DEF Init
<1>1. TypeOK
  <2>1. 0 \in 0..(Pids + 1) BY DriverAssumption
  <2>2. left \in [Tasks -> 0..(Pids + 1)] BY <2>1
  <2>3. waiters \in Seq(Tasks) OBVIOUS
  <2>4. call \in [Tasks -> Ops \cup {None}] OBVIOUS
  <2>5. job \in [Tasks -> Working \cup {"none", "done", "failed"}] OBVIOUS
  <2>6. pc \in [Tasks -> {"idle", "queued", "running"}] OBVIOUS
  <2>7. cancelled \in [Tasks -> BOOLEAN] OBVIOUS
  <2>8. ports \in 0..1 OBVIOUS
  <2> QED BY <2>2, <2>3, <2>4, <2>5, <2>6, <2>7, <2>8, Zenon DEF TypeOK
<1>2. Queued /\ LockHeld BY DEF Queued, LockHeld
<1>3. PortsFollow /\ QueryReady BY DEF PortsFollow, QueryReady
<1> QED BY <1>1, <1>2, <1>3 DEF Sound, ReportsHonestly, ClosedForGood

\* A step that leaves the adapter and the threads alone leaves what they are about.
LEMMA AdapterFrame ==
  ASSUME Sound, UNCHANGED <<closed, adapterVars>>,
         \A t \in Tasks : \/ job'[t] = job[t]
                          \/ job'[t] \in {"none", "check", "close"} /\ job[t] # "verify"
  PROVE  PortsFollow' /\ QueryReady' /\ ReportsHonestly' /\ ClosedForGood'
<1> USE DEF Sound, adapterVars
<1>1. (\A t \in Tasks : job'[t] # "verify") <=> (\A t \in Tasks : job[t] # "verify") OBVIOUS
<1>2. PortsFollow' BY <1>1 DEF PortsFollow
<1>3. QueryReady' BY DEF QueryReady
<1> QED BY <1>2, <1>3 DEF ReportsHonestly, ClosedForGood

\* A call ends: its task is idle, and nothing of the call is left.
LEMMA EndsFrame ==
  ASSUME Sound, NEW t \in Tasks, Ends(t), UNCHANGED <<closed, adapterVars>>,
         job[t] # "verify", waiters' \in Seq(Tasks),
         \A u \in Tasks \ {t} : Waits(waiters, u) => Waits(waiters', u)
  PROVE  Sound'
<1> USE DEF Sound, Ends
<1>1. 0 \in 0..(Pids + 1) BY DriverAssumption
<1>2. TypeOK' BY <1>1 DEF TypeOK, adapterVars
<1>3. Queued' BY DEF Queued, TypeOK
<1>4. LockHeld' BY DEF LockHeld, TypeOK
<1>5. PortsFollow' /\ QueryReady' /\ ReportsHonestly' /\ ClosedForGood'
  <2>1. UNCHANGED <<closed, adapterVars>> OBVIOUS
  <2>2. \A u \in Tasks : job'[u] = job[u] \/ (job'[u] = "none" /\ job[u] # "verify") BY DEF TypeOK
  <2> QED BY <2>1, <2>2, AdapterFrame
<1> QED BY <1>2, <1>3, <1>4, <1>5

LEMMA CallKeeps == ASSUME Sound, NEW t \in Tasks, Call(t) PROVE Sound'
<1> USE DEF Sound, Call
<1>1. TypeOK'
  <2>1. \A op \in Ops : Queries(op) \in 0..(Pids + 1) BY DriverAssumption DEF Queries
  <2>2. left' \in [Tasks -> 0..(Pids + 1)] /\ call' \in [Tasks -> Ops \cup {None}]
    BY <2>1 DEF TypeOK
  <2>3. waiters' \in Seq(Tasks) BY QueueJoin DEF TypeOK
  <2> QED BY <2>2, <2>3 DEF TypeOK, adapterVars
<1>2. Queued'
  <2>1. Waits(waiters', t) /\ \A u : Waits(waiters, u) => Waits(waiters', u)
    BY QueueJoin DEF TypeOK
  <2> QED BY <2>1 DEF Queued, TypeOK
<1>3. LockHeld' BY DEF LockHeld, TypeOK
<1>4. PortsFollow' /\ QueryReady' /\ ReportsHonestly' /\ ClosedForGood'
  <2>1. UNCHANGED <<closed, adapterVars>> OBVIOUS
  <2>2. \A u \in Tasks : job'[u] = job[u] \/ (job'[u] = "none" /\ job[u] # "verify") OBVIOUS
  <2> QED BY <2>1, <2>2, AdapterFrame
<1> QED BY <1>1, <1>2, <1>3, <1>4

\* The task at the head of the queue leaves it.
LEMMA TurnTaken ==
  ASSUME Sound, NEW t \in Tasks, pc[t] = "queued", LockFree(t), waiters' = Tail(waiters)
  PROVE  /\ waiters' \in Seq(Tasks)
         /\ \A u \in Tasks \ {t} : Waits(waiters, u) => Waits(waiters', u)
         /\ \A u \in Tasks : job[u] = "none"
<1> USE DEF Sound, LockFree
<1>1. Waits(waiters, t) /\ waiters \in Seq(Tasks) BY DEF Queued, TypeOK
<1>2. \A u \in Tasks : job[u] = "none" BY DEF LockHeld
<1> QED BY <1>1, <1>2, QueueTurn

LEMMA ListKeeps == ASSUME Sound, NEW t \in Tasks, List(t) PROVE Sound'
BY TurnTaken, EndsFrame DEF List

LEMMA AcquireKeeps == ASSUME Sound, NEW t \in Tasks, Acquire(t) PROVE Sound'
<1> USE DEF Sound, Acquire
<1>1. TypeOK' BY TurnTaken DEF TypeOK, adapterVars, Working
<1>2. Queued' BY TurnTaken DEF Queued, TypeOK
<1>3. LockHeld' BY DEF LockHeld, TypeOK, LockFree
<1>4. PortsFollow' /\ QueryReady' /\ ReportsHonestly' /\ ClosedForGood'
  BY TurnTaken, AdapterFrame DEF TypeOK
<1> QED BY <1>1, <1>2, <1>3, <1>4

LEMMA NextTurnKeeps == ASSUME Sound, NEW t \in Tasks, NextTurn(t) PROVE Sound'
<1> USE DEF Sound, NextTurn
<1>1. TypeOK'
  <2>1. left[t] - 1 \in 0..(Pids + 1) BY DriverAssumption DEF TypeOK
  <2>2. waiters' \in Seq(Tasks) BY QueueJoin DEF TypeOK
  <2> QED BY <2>1, <2>2 DEF TypeOK, adapterVars
<1>2. Queued'
  <2>1. Waits(waiters', t) /\ \A u : Waits(waiters, u) => Waits(waiters', u)
    BY QueueJoin DEF TypeOK
  <2> QED BY <2>1 DEF Queued, TypeOK
<1>3. LockHeld' BY DEF LockHeld, TypeOK
<1>4. PortsFollow' /\ QueryReady' /\ ReportsHonestly' /\ ClosedForGood'
  <2>1. UNCHANGED <<closed, adapterVars>> OBVIOUS
  <2>2. \A u \in Tasks : job'[u] = job[u] \/ (job'[u] = "none" /\ job[u] # "verify") BY DEF TypeOK
  <2> QED BY <2>1, <2>2, AdapterFrame
<1> QED BY <1>1, <1>2, <1>3, <1>4

LEMMA ReturnKeeps == ASSUME Sound, NEW t \in Tasks, Return(t) PROVE Sound'
BY EndsFrame DEF Return, WorkerEnded, Sound, TypeOK

LEMMA CancelRunningKeeps == ASSUME Sound, NEW t \in Tasks, CancelRunning(t) PROVE Sound'
<1> USE DEF Sound, CancelRunning, Drains
<1>1. TypeOK' BY DEF TypeOK, adapterVars
<1>2. Queued' /\ LockHeld' BY DEF Queued, LockHeld
<1>3. PortsFollow' /\ QueryReady' /\ ReportsHonestly' /\ ClosedForGood'
  <2>1. UNCHANGED <<closed, adapterVars>> OBVIOUS
  <2>2. \A u \in Tasks : job'[u] = job[u] \/ (job'[u] = "none" /\ job[u] # "verify") OBVIOUS
  <2> QED BY <2>1, <2>2, AdapterFrame
<1> QED BY <1>1, <1>2, <1>3

LEMMA CancelQueuedKeeps == ASSUME Sound, NEW t \in Tasks, CancelQueued(t) PROVE Sound'
<1> USE DEF Sound, CancelQueued
<1>1. PICK i \in DOMAIN waiters : waiters[i] = t /\ waiters' = Without(waiters, i)
  BY DEF Without
<1>2. waiters' \in Seq(Tasks) /\ \A u \in Tasks \ {t} : Waits(waiters, u) => Waits(waiters', u)
  BY <1>1, QueueLeave DEF TypeOK
<1>3. job[t] # "verify" BY DEF LockHeld
<1> QED BY <1>2, <1>3, EndsFrame

-----------------------------------------------------------------------------
(* The worker thread.                                                       *)

\* What one step of the thread must see to: the others have none, so that all
\* that is claimed of the adapter is a claim about this step.
LEMMA WorkerKeeps ==
  ASSUME Sound, NEW t \in Tasks, job[t] # "none",
         NEW step \in Working \cup {"done", "failed"}, Ended(t, step),
         closed' \in BOOLEAN, connection' \in BOOLEAN, poisoned' \in BOOLEAN,
         linked' \in BOOLEAN, matching' \in BOOLEAN,
         reported' \in {"disconnected", "connected", "degraded"}, ports' \in 0..1,
         poisoned' \/ linked' \/ matching' => connection',
         step # "verify" => (ports' = 1 <=> connection'),
         step \in {"open", "verify"} => ~connection' /\ ~closed',
         step = "verify" => ports' = 1,
         step = "query" => connection' /\ ~poisoned' /\ matching' /\ ~closed',
         ReportsHonestly', ClosedForGood'
  PROVE  Sound'
<1>1. /\ Queued' /\ LockHeld' /\ job'[t] = step
      /\ \A u \in Tasks \ {t} : job'[u] = "none"
  BY WorkerFrame
<1>2. TypeOK' BY WorkerFrame, Zenon DEF TypeOK
<1>3. PortsFollow' BY <1>1 DEF PortsFollow
<1>4. QueryReady' BY <1>1 DEF QueryReady
<1> QED BY <1>1, <1>2, <1>3, <1>4 DEF Sound

\* The adapter before a step of the thread t.
LEMMA AdapterBefore ==
  ASSUME Sound, NEW t \in Tasks, job[t] # "none"
  PROVE  /\ job[t] # "verify" => (ports = 1 <=> connection)
         /\ job[t] \in {"open", "verify"} => ~connection /\ ~closed
         /\ job[t] = "verify" => ports = 1
         /\ ports = 0 \/ ports = 1
         /\ left[t] \in Nat
<1>1. \A u \in Tasks \ {t} : job[u] = "none" BY DEF Sound, LockHeld
<1>2. left[t] \in Nat BY DriverAssumption DEF Sound, TypeOK
<1>3. ports = 0 \/ ports = 1 BY DEF Sound, TypeOK
<1> QED BY <1>1, <1>2, <1>3 DEF Sound, PortsFollow

LEMMA CheckKeeps ==
  ASSUME Sound, NEW t \in Tasks, CheckClosed(t) \/ CheckAbsent(t) \/ CheckDiscard(t) \/ CheckReuse(t)
  PROVE  Sound'
<1> USE AdapterBefore DEF Working
<1>n. job[t] = "check" BY DEF CheckClosed, CheckAbsent, CheckDiscard, CheckReuse
<1>b. /\ connection \in BOOLEAN /\ closed \in BOOLEAN /\ ReportsHonestly /\ ClosedForGood
      /\ poisoned \/ linked \/ matching => connection
      /\ ports = 1 <=> connection
  BY <1>n DEF Sound, TypeOK, PortsFollow
<1>t. TypeOK BY DEF Sound
<1>1. CASE CheckClosed(t)
  BY <1>1, <1>n, <1>b, <1>t, WorkerKeeps
  DEF CheckClosed, Goes, Ended, adapterVars, TypeOK, ReportsHonestly, ClosedForGood
<1>2. CASE CheckAbsent(t)
  BY <1>2, <1>n, <1>b, <1>t, WorkerKeeps
  DEF CheckAbsent, Refuses, Goes, Ended, adapterVars, TypeOK, ReportsHonestly, ClosedForGood
<1>3. CASE CheckDiscard(t)
  <2>1. CASE Dropped /\ Goes(t, "open")
    <3>1. /\ Ended(t, "open") /\ UNCHANGED closed /\ ~closed
          /\ ports' = 0 /\ reported' = "disconnected"
          /\ connection' = FALSE /\ poisoned' = FALSE /\ linked' = FALSE /\ matching' = FALSE
      BY <1>3, <2>1, <1>b DEF CheckDiscard, Refuses, Dropped, Goes, Ended
    <3>2. ReportsHonestly' /\ ClosedForGood' BY <3>1 DEF ReportsHonestly, ClosedForGood
    <3>3. ~(ports' = 1) /\ ports' \in 0..1 BY <3>1
    <3> QED BY <3>1, <3>2, <3>3, <1>n, <1>b, <1>t, WorkerKeeps DEF TypeOK
  <2>2. CASE StaysDegraded /\ Goes(t, "failed")
    BY <1>3, <2>2, <1>n, <1>b, <1>t, WorkerKeeps
    DEF StaysDegraded, Goes, Ended, TypeOK, ReportsHonestly, ClosedForGood
  <2> QED BY <1>3, <2>1, <2>2 DEF CheckDiscard
<1>4. CASE CheckReuse(t)
  <2>1. CASE matching
    BY <1>4, <2>1, <1>n, <1>b, <1>t, WorkerKeeps
    DEF CheckReuse, Refuses, Quarantined, AfterConnect, Goes, Ended, TypeOK,
        ReportsHonestly, ClosedForGood
  <2>2. CASE ~matching
    <3>1. StaysDegraded /\ Goes(t, "failed") BY <1>4, <2>2 DEF CheckReuse
    <3> QED BY <3>1, <1>n, <1>b, <1>t, WorkerKeeps
        DEF StaysDegraded, Goes, Ended, TypeOK, ReportsHonestly, ClosedForGood
  <2> QED BY <2>1, <2>2
<1> QED BY <1>1, <1>2, <1>3, <1>4

LEMMA OpenKeeps ==
  ASSUME Sound, NEW t \in Tasks, OpenRejected(t) \/ Open(t) PROVE Sound'
<1> USE AdapterBefore DEF Working
<1>n. job[t] = "open" BY DEF OpenRejected, Open
<1>b. /\ ~connection /\ ~closed /\ ports = 0 /\ ReportsHonestly /\ ClosedForGood
      /\ ~poisoned /\ ~linked /\ ~matching
  BY <1>n DEF Sound, TypeOK, PortsFollow
<1>t. TypeOK BY DEF Sound
<1>1. CASE OpenRejected(t)
  BY <1>1, <1>n, <1>b, <1>t, WorkerKeeps
  DEF OpenRejected, Goes, Ended, TypeOK, ReportsHonestly, ClosedForGood
<1>2. CASE Open(t)
  <2>1. /\ Ended(t, "verify") /\ ports' = 1
        /\ UNCHANGED <<closed, connection, poisoned, reported, linked, matching>>
    BY <1>2, <1>b DEF Open, Goes, Ended
  <2>2. ReportsHonestly' /\ ClosedForGood' BY <2>1, <1>b DEF ReportsHonestly, ClosedForGood
  <2> QED BY <2>1, <2>2, <1>n, <1>b, <1>t, WorkerKeeps DEF TypeOK
<1> QED BY <1>1, <1>2

LEMMA VerifyKeeps ==
  ASSUME Sound, NEW t \in Tasks, Verified(t) \/ Unverified(t) PROVE Sound'
<1> USE AdapterBefore DEF Working
<1>n. job[t] = "verify" BY DEF Verified, Unverified
<1>b. /\ ~connection /\ ~closed /\ ports = 1 /\ ReportsHonestly /\ ClosedForGood
      /\ ~poisoned /\ ~linked /\ ~matching
  BY <1>n DEF Sound, TypeOK, PortsFollow
<1>t. TypeOK BY DEF Sound
<1>1. CASE Verified(t)
  <2>1. /\ Ended(t, AfterConnect(t)) /\ UNCHANGED closed
        /\ ports' = 1 /\ reported' = "connected"
        /\ connection' = TRUE /\ poisoned' = FALSE /\ linked' = TRUE /\ matching' = TRUE
    BY <1>1, <1>b DEF Verified, Goes, Ended
  <2>2. AfterConnect(t) \in {"done", "query"} BY DEF AfterConnect
  <2>3. ReportsHonestly' /\ ClosedForGood' BY <2>1, <1>b DEF ReportsHonestly, ClosedForGood
  <2> QED BY <2>1, <2>2, <2>3, <1>n, <1>b, <1>t, WorkerKeeps DEF TypeOK
<1>2. CASE Unverified(t)
  <2>1. Ended(t, "failed") /\ UNCHANGED closed BY <1>2 DEF Unverified, Goes, Ended
  <2>2. CASE /\ ports' = ports - 1
             /\ reported' \in {reported, "disconnected"}
             /\ UNCHANGED <<connection, poisoned, linked, matching>>
    <3>1. ports' = 0 /\ reported' \in {"disconnected", "degraded"}
      BY <2>2, <1>b, <1>t DEF ReportsHonestly, TypeOK
    <3>2. ReportsHonestly' /\ ClosedForGood'
      BY <2>1, <2>2, <3>1, <1>b DEF ReportsHonestly, ClosedForGood
    <3> QED BY <2>1, <2>2, <3>1, <3>2, <1>n, <1>b, <1>t, WorkerKeeps DEF TypeOK
  <2>3. CASE /\ KeepFailed
             /\ \E up, same \in BOOLEAN : linked' = up /\ matching' = same
             /\ reported' = "degraded"
             /\ UNCHANGED ports
    BY <2>1, <2>3, <1>n, <1>b, <1>t, WorkerKeeps
    DEF KeepFailed, TypeOK, ReportsHonestly, ClosedForGood
  <2> QED BY <1>2, <2>2, <2>3 DEF Unverified
<1> QED BY <1>1, <1>2

LEMMA QueryKeeps == ASSUME Sound, NEW t \in Tasks, Query(t) PROVE Sound'
<1> USE AdapterBefore DEF Working
<1>n. job[t] = "query" BY DEF Query
<1>b. /\ connection /\ ports = 1 /\ ReportsHonestly /\ ClosedForGood
  BY <1>n DEF Sound, TypeOK, QueryReady
<1>t. TypeOK BY DEF Sound
<1>1. PICK result \in {"done", "failed"} : Goes(t, result) BY DEF Query
<1> QED BY <1>1, <1>n, <1>b, <1>t, WorkerKeeps
  DEF Query, Goes, Ended, TypeOK, ReportsHonestly, ClosedForGood

LEMMA CloseKeeps == ASSUME Sound, NEW t \in Tasks, Close(t) PROVE Sound'
<1> USE AdapterBefore DEF Working
<1>n. job[t] = "close" BY DEF Close
<1>b. /\ ReportsHonestly /\ ClosedForGood
      /\ poisoned \/ linked \/ matching => connection
      /\ ports = 1 <=> connection
  BY <1>n DEF Sound, TypeOK, PortsFollow
<1>t. TypeOK BY DEF Sound
<1>1. CASE closed /\ Ended(t, "done") /\ UNCHANGED <<closed, adapterVars>>
  BY <1>1, <1>n, <1>b, <1>t, WorkerKeeps DEF adapterVars, TypeOK, ReportsHonestly, ClosedForGood
<1>2. CASE connection /\ Dropped /\ closed' = TRUE /\ Ended(t, "done")
  <2>1. ports' = 0 BY <1>2, <1>b DEF Dropped
  <2>2. /\ connection' = FALSE /\ poisoned' = FALSE /\ linked' = FALSE /\ matching' = FALSE
        /\ reported' = "disconnected"
    BY <1>2 DEF Dropped
  <2>3. ReportsHonestly' /\ ClosedForGood' BY <2>1, <2>2 DEF ReportsHonestly, ClosedForGood
  <2>4. ~(ports' = 1) /\ ports' \in 0..1 BY <2>1
  <2>5. Ended(t, "done") /\ closed' = TRUE BY <1>2
  <2>6. job[t] # "none" BY <1>n
  <2> QED BY <2>2, <2>3, <2>4, <2>5, <2>6, WorkerKeeps
<1>3. CASE ~closed /\ StaysDegraded /\ CloseFailed /\ Ended(t, "failed")
  BY <1>3, <1>n, <1>b, <1>t, WorkerKeeps
  DEF StaysDegraded, CloseFailed, TypeOK, ReportsHonestly, ClosedForGood
<1>4. CASE /\ ~closed /\ ~connection
           /\ closed' = TRUE /\ reported' = "disconnected" /\ Ended(t, "done")
           /\ UNCHANGED <<connection, poisoned, linked, matching, ports>>
  <2>1. ports' = 0 BY <1>4, <1>b, <1>t DEF TypeOK
  <2> QED BY <1>4, <2>1, <1>n, <1>b, <1>t, WorkerKeeps DEF TypeOK, ReportsHonestly, ClosedForGood
<1> QED BY <1>1, <1>2, <1>3, <1>4 DEF Close

LEMMA UnplugKeeps == ASSUME Sound, Unplug PROVE Sound'
<1> USE DEF Sound, Unplug, taskVars
<1>1. TypeOK' BY Zenon DEF TypeOK
<1>2. Queued' /\ LockHeld' BY DEF Queued, LockHeld
<1>3. PortsFollow' BY DEF PortsFollow
<1>4. QueryReady' BY DEF QueryReady
<1> QED BY <1>1, <1>2, <1>3, <1>4 DEF ReportsHonestly, ClosedForGood

LEMMA SoundStep == Sound /\ [Next]_vars => Sound'
<1> SUFFICES ASSUME Sound, [Next]_vars PROVE Sound' OBVIOUS
<1>1. ASSUME NEW t \in Tasks, Call(t) \/ List(t) \/ Acquire(t) \/ NextTurn(t) \/ Return(t)
      PROVE  Sound'
  BY <1>1, CallKeeps, ListKeeps, AcquireKeeps, NextTurnKeeps, ReturnKeeps
<1>2. ASSUME NEW t \in Tasks, CancelRunning(t) \/ CancelQueued(t) PROVE Sound'
  BY <1>2, CancelRunningKeeps, CancelQueuedKeeps
<1>3. ASSUME NEW t \in Tasks, Worker(t) PROVE Sound'
  BY <1>3, CheckKeeps, OpenKeeps, VerifyKeeps, QueryKeeps, CloseKeeps DEF Worker
<1>4. CASE Unplug BY <1>4, UnplugKeeps
<1>5. CASE UNCHANGED vars
  <2> USE <1>5 DEF Sound, vars, adapterVars, taskVars
  <2>1. TypeOK' BY Zenon DEF TypeOK
  <2>2. Queued' /\ LockHeld' BY DEF Queued, LockHeld
  <2>3. PortsFollow' /\ QueryReady' BY DEF PortsFollow, QueryReady
  <2> QED BY <2>1, <2>2, <2>3 DEF ReportsHonestly, ClosedForGood
<1> QED BY <1>1, <1>2, <1>3, <1>4, <1>5 DEF Next

LEMMA SoundHolds == Spec => []Sound
BY SoundInit, SoundStep, PTL DEF Spec

-----------------------------------------------------------------------------
(* The properties.                                                          *)

\* Every variable keeps its type.
THEOREM TypeCorrect == Spec => []TypeOK
<1>1. Sound => TypeOK BY DEF Sound
<1> QED BY <1>1, SoundHolds, PTL

\* _run_serialized_sync: however calls and cancellations interleave, at most one
\* worker thread has been started and not been waited for.
THEOREM MutualExclusion == Spec => []OneWorker
<1>1. Sound => OneWorker BY DEF Sound, LockHeld, OneWorker
<1> QED BY <1>1, SoundHolds, PTL

\* _connect_sync and _cleanup_failed_connection leak no serial port: with no
\* thread at work, one is open exactly when the driver keeps a connection.
THEOREM PortsHeld == Spec => []PortsAccounted
<1>1. Sound => PortsAccounted
  <2> SUFFICES ASSUME Sound PROVE PortsAccounted OBVIOUS
  <2>1. ports <= 1 BY DEF Sound, TypeOK
  <2>2. ASSUME \A t \in Tasks : job[t] \notin Working PROVE ports = 1 <=> connection
    BY <2>2 DEF Sound, PortsFollow, Working
  <2> QED BY <2>1, <2>2 DEF PortsAccounted
<1> QED BY <1>1, SoundHolds, PTL

\* Once _close_sync has closed the driver no port is open, and no call that was
\* already waiting opens one (_connect_sync looks at _closed in the thread).
THEOREM ClosedHoldsNothing == Spec => []ClosedForGood
<1>1. Sound => ClosedForGood BY DEF Sound
<1> QED BY <1>1, SoundHolds, PTL

\* list_vehicles never reports a connection that is absent or quarantined.
THEOREM HonestReports == Spec => []ReportsHonestly
<1>1. Sound => ReportsHonestly BY DEF Sound
<1> QED BY <1>1, SoundHolds, PTL

\* A query goes out only over a connection verified for the configured protocol.
THEOREM VerifiedQueries == Spec => QueriesVerified
<1>1. Sound /\ [Next]_vars
        => [\A t \in Tasks : Query(t) => connection /\ ~poisoned /\ matching /\ ~closed]_vars
  BY DEF Sound, QueryReady, Query
<1>2. Spec => [][Sound /\ [Next]_vars]_vars BY SoundHolds, PTL DEF Spec
<1> QED BY <1>1, <1>2, PTL DEF QueriesVerified
=============================================================================
