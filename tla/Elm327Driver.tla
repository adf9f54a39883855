---------------------------- MODULE Elm327Driver ----------------------------
(***************************************************************************)
(* The ELM327 driver of src/obd_mcp/drivers/elm327.py: one serial adapter,  *)
(* used by blocking worker threads one at a time (_io_lock), a cancelled    *)
(* caller keeping the lock until its thread has ended.                      *)
(*                                                                         *)
(* A read is a series of queries, each a turn at the lock of its own that   *)
(* first connects (_connect_sync).  Turns of different calls interleave.    *)
(***************************************************************************)
EXTENDS Naturals, Sequences

CONSTANTS
  Tasks,    \* the tasks that call the driver, one call at a time
  Ops,      \* the operations they call
  Pids,     \* the number of PIDs a PID read asks for (a bound of the model)
  None

ASSUME DriverAssumption ==
  /\ Ops \subseteq {"list_vehicles", "get_vehicle_status", "read_standard_pids",
                    "read_dtcs", "read_ecu_snapshot", "close"}
  /\ Pids \in Nat \ {0}
  /\ None \notin Ops

VARIABLES
  closed,      \* _closed
  connection,  \* _connection is set
  poisoned,    \* _connection_poisoned
  reported,    \* _connection_state
  linked,      \* is_connected() of the connection
  matching,    \* its protocol is the configured one
  ports,       \* the number of serial ports open in the process
  waiters,     \* queue of tasks for _io_lock
  pc,          \* [Tasks -> where the caller's coroutine is]
  call,        \* [Tasks -> the operation it called]
  left,        \* [Tasks -> queries still to come in its call]
  cancelled,   \* [Tasks -> a cancellation is kept until the worker ends]
  job          \* [Tasks -> the next step of its worker, or how it ended]

adapterVars == <<connection, poisoned, reported, linked, matching, ports>>
taskVars    == <<waiters, pc, call, left, cancelled, job>>
vars        == <<closed, adapterVars, taskVars>>

Working == {"check", "open", "verify", "query", "close"}

TypeOK ==
  /\ closed \in BOOLEAN /\ connection \in BOOLEAN /\ poisoned \in BOOLEAN
  /\ reported \in {"disconnected", "connected", "degraded"}
  /\ linked \in BOOLEAN /\ matching \in BOOLEAN
  /\ ports \in 0..1
  /\ waiters \in Seq(Tasks)
  /\ pc \in [Tasks -> {"idle", "queued", "running"}]
  /\ call \in [Tasks -> Ops \cup {None}]
  /\ left \in [Tasks -> 0..(Pids + 1)]
  /\ cancelled \in [Tasks -> BOOLEAN]
  /\ job \in [Tasks -> Working \cup {"none", "done", "failed"}]

Init ==
  /\ closed = FALSE /\ connection = FALSE /\ poisoned = FALSE
  /\ reported = "disconnected"
  /\ linked = FALSE /\ matching = FALSE
  /\ ports = 0
  /\ waiters = <<>>
  /\ pc = [t \in Tasks |-> "idle"]
  /\ call = [t \in Tasks |-> None]
  /\ left = [t \in Tasks |-> 0]
  /\ cancelled = [t \in Tasks |-> FALSE]
  /\ job = [t \in Tasks |-> "none"]

-----------------------------------------------------------------------------
(* The callers: _run_serialized_sync around every turn.                     *)

\* The turns of a call that query the adapter.
Queries(op) == CASE op = "read_standard_pids" -> Pids
                 [] op = "read_dtcs"          -> 1
                 [] op = "read_ecu_snapshot"  -> Pids + 1
                 [] OTHER                     -> 0

\* A closed driver refuses vehicle calls at once (_ensure_vehicle).
Call(t) ==
  /\ pc[t] = "idle" /\ job[t] = "none"
  /\ \E op \in Ops :
       /\ op \in {"list_vehicles", "close"} \/ ~closed
       /\ call' = [call EXCEPT ![t] = op]
       /\ left' = [left EXCEPT ![t] = Queries(op)]
  /\ pc' = [pc EXCEPT ![t] = "queued"]
  /\ waiters' = Append(waiters, t)
  /\ UNCHANGED <<closed, adapterVars, cancelled, job>>

LockFree(t) == (\A u \in Tasks : pc[u] # "running") /\ Head(waiters) = t

Ends(t) ==
  /\ pc' = [pc EXCEPT ![t] = "idle"]
  /\ call' = [call EXCEPT ![t] = None]
  /\ left' = [left EXCEPT ![t] = 0]
  /\ cancelled' = [cancelled EXCEPT ![t] = FALSE]
  /\ job' = [job EXCEPT ![t] = "none"]

\* list_vehicles only looks at the state, under the lock.
List(t) ==
  /\ pc[t] = "queued" /\ call[t] = "list_vehicles" /\ LockFree(t)
  /\ waiters' = Tail(waiters)
  /\ Ends(t)
  /\ UNCHANGED <<closed, adapterVars>>

Acquire(t) ==
  /\ pc[t] = "queued" /\ call[t] # "list_vehicles" /\ LockFree(t)
  /\ waiters' = Tail(waiters)
  /\ pc' = [pc EXCEPT ![t] = "running"]
  /\ job' = [job EXCEPT ![t] = IF call[t] = "close" THEN "close" ELSE "check"]
  /\ UNCHANGED <<closed, adapterVars, call, left, cancelled>>

\* What a caller waits for (seeded fault: an exception does not end the wait).
WorkerSucceeded(t) == job[t] = "done"
WorkerEnded(t)     == job[t] \in {"done", "failed"}

\* The turn is over, and the lock released: the next query asks for it anew.
\* (read_ecu_snapshot looks at _closed again before its last query; no close can
\* have run since the query that has just succeeded.)
NextTurn(t) ==
  /\ pc[t] = "running" /\ job[t] = "done" /\ ~cancelled[t] /\ left[t] > 1
  /\ left' = [left EXCEPT ![t] = @ - 1]
  /\ pc' = [pc EXCEPT ![t] = "queued"]
  /\ waiters' = Append(waiters, t)
  /\ job' = [job EXCEPT ![t] = "none"]
  /\ UNCHANGED <<closed, adapterVars, call, cancelled>>

Return(t) ==
  /\ pc[t] = "running" /\ WorkerEnded(t)
  /\ job[t] = "failed" \/ cancelled[t] \/ left[t] <= 1
  /\ Ends(t)
  /\ UNCHANGED <<closed, adapterVars, waiters>>

\* A cancellation waits for the thread (seeded fault: it frees the lock).
LeavesWorker(t) == pc' = [pc EXCEPT ![t] = "idle"] /\ UNCHANGED cancelled
Drains(t)       == cancelled' = [cancelled EXCEPT ![t] = TRUE] /\ UNCHANGED pc

CancelRunning(t) ==
  /\ pc[t] = "running"
  /\ Drains(t)
  /\ UNCHANGED <<closed, adapterVars, waiters, call, left, job>>

CancelQueued(t) ==
  /\ pc[t] = "queued"
  /\ \E i \in DOMAIN waiters :
       /\ waiters[i] = t
       /\ waiters' = SubSeq(waiters, 1, i - 1) \o SubSeq(waiters, i + 1, Len(waiters))
  /\ Ends(t)
  /\ UNCHANGED <<closed, adapterVars>>

-----------------------------------------------------------------------------
(* The worker: _connect_sync, then the query.                               *)

Goes(t, step) ==
  job' = [job EXCEPT ![t] = step] /\ UNCHANGED <<closed, waiters, pc, call, left, cancelled>>

\* Seeded faults: no check that the driver is open; a poisoned connection is
\* looked at like any other.
NeverRefuses     == FALSE
Refuses          == closed
NeverQuarantined == FALSE
Quarantined      == connection /\ poisoned

\* A connection is let go once it is closed (seeded fault: the state it was
\* reported in stays).
DroppedSilently ==
  /\ connection' = FALSE /\ poisoned' = FALSE /\ linked' = FALSE /\ matching' = FALSE
  /\ ports' = ports - 1
  /\ UNCHANGED reported

Dropped ==
  /\ connection' = FALSE /\ poisoned' = FALSE /\ linked' = FALSE /\ matching' = FALSE
  /\ reported' = "disconnected"
  /\ ports' = ports - 1

StaysDegraded ==
  reported' = "degraded" /\ UNCHANGED <<connection, poisoned, linked, matching, ports>>

CheckClosed(t) ==
  /\ job[t] = "check" /\ Refuses
  /\ Goes(t, "failed")
  /\ UNCHANGED adapterVars

CheckAbsent(t) ==
  /\ job[t] = "check" /\ ~Refuses /\ ~connection
  /\ Goes(t, "open")
  /\ UNCHANGED adapterVars

\* A quarantined or unlinked connection is closed before another is made.
CheckDiscard(t) ==
  /\ job[t] = "check" /\ ~Refuses /\ connection
  /\ Quarantined \/ ~linked
  /\ \/ Dropped /\ Goes(t, "open")
     \/ StaysDegraded /\ Goes(t, "failed")

AfterConnect(t) == IF left[t] = 0 THEN "done" ELSE "query"

CheckReuse(t) ==
  /\ job[t] = "check" /\ ~Refuses /\ connection /\ ~Quarantined /\ linked
  /\ \/ /\ matching
        /\ reported' = "connected"
        /\ Goes(t, AfterConnect(t))
        /\ UNCHANGED <<connection, poisoned, linked, matching, ports>>
     \/ ~matching /\ StaysDegraded /\ Goes(t, "failed")

\* The optional package is missing, or its constructor rejects the options.
OpenRejected(t) ==
  /\ job[t] = "open"
  /\ reported' \in {reported, "degraded"}
  /\ Goes(t, "failed")
  /\ UNCHANGED <<connection, poisoned, linked, matching, ports>>

\* connect() opens the port, and may fail after it did.
Open(t) ==
  /\ job[t] = "open"
  /\ ports' = ports + 1
  /\ Goes(t, "verify")
  /\ UNCHANGED <<connection, poisoned, reported, linked, matching>>

Verified(t) ==
  /\ job[t] = "verify"
  /\ connection' = TRUE /\ poisoned' = FALSE /\ linked' = TRUE /\ matching' = TRUE
  /\ reported' = "connected"
  /\ Goes(t, AfterConnect(t))
  /\ UNCHANGED ports

\* A connection that cannot be closed is kept (seeded fault: it is forgotten).
ForgetFailed == UNCHANGED <<connection, poisoned>>
KeepFailed   == connection' = TRUE /\ poisoned' = TRUE

\* connect() raised, or another protocol was negotiated:
\* _cleanup_failed_connection.
Unverified(t) ==
  /\ job[t] = "verify"
  /\ \/ /\ ports' = ports - 1
        /\ reported' \in {reported, "disconnected"}
        /\ UNCHANGED <<connection, poisoned, linked, matching>>
     \/ /\ KeepFailed
        /\ \E up, same \in BOOLEAN : linked' = up /\ matching' = same
        /\ reported' = "degraded"
        /\ UNCHANGED ports
  /\ Goes(t, "failed")

\* The query is answered or not; the adapter may leave the protocol meanwhile.
Query(t) ==
  /\ job[t] = "query"
  /\ \E result \in {"done", "failed"} : Goes(t, result)
  /\ matching' \in {matching, FALSE}
  /\ UNCHANGED <<connection, poisoned, reported, linked, ports>>

\* _close_sync (seeded fault: a failed close counts as done).
CloseFailedCloses == closed' = TRUE
CloseFailed       == UNCHANGED closed

Ended(t, result) ==
  job' = [job EXCEPT ![t] = result] /\ UNCHANGED <<waiters, pc, call, left, cancelled>>

Close(t) ==
  /\ job[t] = "close"
  /\ \/ closed /\ Ended(t, "done") /\ UNCHANGED <<closed, adapterVars>>
     \/ /\ ~closed /\ connection
        /\ Dropped /\ closed' = TRUE /\ Ended(t, "done")
     \/ /\ ~closed /\ connection
        /\ StaysDegraded /\ CloseFailed /\ Ended(t, "failed")
     \/ /\ ~closed /\ ~connection
        /\ closed' = TRUE /\ reported' = "disconnected" /\ Ended(t, "done")
        /\ UNCHANGED <<connection, poisoned, linked, matching, ports>>

\* The adapter is unplugged.
Unplug ==
  /\ connection /\ linked
  /\ linked' = FALSE
  /\ UNCHANGED <<closed, connection, poisoned, reported, matching, ports, taskVars>>

Worker(t) ==
  \/ CheckClosed(t) \/ CheckAbsent(t) \/ CheckDiscard(t) \/ CheckReuse(t)
  \/ OpenRejected(t) \/ Open(t) \/ Verified(t) \/ Unverified(t)
  \/ Query(t) \/ Close(t)

Next ==
  \/ \E t \in Tasks :
       \/ Call(t) \/ List(t) \/ Acquire(t) \/ NextTurn(t) \/ Return(t)
       \/ CancelRunning(t) \/ CancelQueued(t)
       \/ Worker(t)
  \/ Unplug

Spec == Init /\ [][Next]_vars

\* The event loop runs what is ready, and a thread's serial I/O times out.
FairSpec ==
  Spec /\ \A t \in Tasks :
            WF_vars(List(t) \/ Acquire(t) \/ NextTurn(t) \/ Return(t) \/ Worker(t))

-----------------------------------------------------------------------------
(* Properties.                                                              *)

\* Only one thread talks to the adapter at a time, cancelled calls included.
OneWorker ==
  \A t, u \in Tasks : job[t] # "none" /\ job[u] # "none" => t = u

\* Every open serial port is the port of the connection the driver keeps, once
\* no thread is at work: none is leaked by a failed attempt, and none is opened
\* while a failed one could not be closed.
PortsAccounted ==
  /\ ports <= 1
  /\ (\A t \in Tasks : job[t] \notin Working) => (ports = 1 <=> connection)

\* A closed driver holds no port, and none of its interrupted reads opens one.
ClosedForGood == closed => ports = 0 /\ ~connection

\* A query goes out only over a connection that reached the configured protocol
\* and is not one whose closing failed.
QueriesVerified ==
  [][ \A t \in Tasks : Query(t) => connection /\ ~poisoned /\ matching /\ ~closed ]_vars

\* list_vehicles never reports a vehicle as connected whose connection the driver has
\* dropped or quarantined.  It does not ask the adapter: one that was unplugged stays
\* reported as connected until the next read notices.
ReportsHonestly == reported = "connected" => connection /\ ~poisoned /\ ports = 1

\* Every call ends, even one cancelled while its thread runs.
CallsEnd == \A t \in Tasks : pc[t] # "idle" ~> pc[t] = "idle"

=============================================================================
