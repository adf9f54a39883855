----------------------------- MODULE IssueStore -----------------------------
(***************************************************************************)
(* The issue store of src/obd_mcp/storage.py: an asyncio facade over a      *)
(* SQLite file.  Every operation runs in a worker thread, one at a time per *)
(* store (_operation_lock); a cancelled caller keeps the lock until its     *)
(* worker has ended (_drain_task_on_cancellation).                          *)
(*                                                                         *)
(* A store is one process with one connection; several may share the file,  *)
(* and any of them may crash and start again.  SQLite is modelled by what   *)
(* it guarantees in the modes the code sets: a rollback journal holds what  *)
(* the file was at BEGIN, readers see that until COMMIT, one writer at a    *)
(* time.                                                                    *)
(***************************************************************************)
EXTENDS Naturals, Sequences

CONSTANTS
  Stores,     \* the processes that use the file
  Tasks,      \* the tasks that call a store, one call at a time
  Home,       \* [Tasks -> the store a task calls]
  Issues,     \* the issue ids
  Ops,        \* the operations that tasks call
  MaxEvents,  \* events per issue (a bound of the model)
  MaxClock,   \* ticks of the wall clock (a bound of the model)
  StepsBack,  \* TRUE: the wall clock may be set back
  None

Writes   == {"open_issue", "append_event", "close_issue"}
IssueOps == Writes \cup {"get_issue", "get_timeline"}

ASSUME StoreAssumption ==
  /\ Home \in [Tasks -> Stores]
  /\ Ops \subseteq IssueOps \cup {"initialize", "close"}
  /\ MaxEvents \in Nat /\ MaxClock \in Nat
  /\ StepsBack \in BOOLEAN
  /\ None \notin Tasks \cup Issues

Statuses == {"absent", "open", "closed"}
Kinds    == {"opened", "note", "closed"}
Events   == [kind : Kinds, at : 0..MaxClock]
Journals == [by : Tasks, status : [Issues -> Statuses], log : [Issues -> Seq(Events)]]

ASSUME NoneAssumption == None \notin Journals

Calls == [op : Ops \cap IssueOps, issue : Issues] \cup [op : Ops \ IssueOps, issue : {None}]

VARIABLES
  status,      \* [Issues -> the status column of its row, "absent" without one]
  log,         \* [Issues -> its timeline_events, in insertion order]
  journal,     \* the rollback journal of the running transaction
  connection,  \* [Stores -> _connection]
  closed,      \* [Stores -> _closed]
  waiters,     \* [Stores -> queue of tasks for _operation_lock]
  pc,          \* [Tasks -> where the caller's coroutine is]
  call,        \* [Tasks -> what it called]
  cancelled,   \* [Tasks -> a cancellation is kept until the worker ends]
  job,         \* [Tasks -> the next step of its worker, or how it ended]
  seen,        \* [Tasks -> the status its worker read]
  stamp,       \* [Tasks -> the time its event carries]
  clock,       \* the wall clock, utc_now()
  acked        \* the writes reported successful (history)

fileVars  == <<status, log, journal>>
storeVars == <<connection, closed, waiters>>
taskVars  == <<pc, call, cancelled, job, seen, stamp>>
vars      == <<fileVars, storeVars, taskVars, clock, acked>>

TxSteps    == {"row", "event", "commit"}
DataSteps  == TxSteps \cup {"read", "events", "begin", "insert"}
CloseSteps == {"disconnect", "seal"}
Working    == DataSteps \cup CloseSteps \cup {"init", "harden"}
Ended      == {"initialized", "done", "missing", "failed"}

TypeOK ==
  /\ status \in [Issues -> Statuses]
  /\ log \in [Issues -> Seq(Events)]
  /\ journal # None => journal \in Journals /\ job[journal.by] \in TxSteps
  /\ connection \in [Stores -> {"none", "open", "unusable"}]
  /\ closed \in [Stores -> BOOLEAN]
  /\ waiters \in [Stores -> Seq(Tasks)]
  /\ pc \in [Tasks -> {"idle", "queued", "running"}]
  /\ call \in [Tasks -> Calls \cup {None}]
  /\ cancelled \in [Tasks -> BOOLEAN]
  /\ job \in [Tasks -> Working \cup Ended \cup {"none"}]
  /\ seen \in [Tasks -> Statuses \cup {None}]
  /\ stamp \in [Tasks -> 0..MaxClock]
  /\ clock \in 0..MaxClock
  /\ acked \subseteq Calls

Init ==
  /\ status = [i \in Issues |-> "absent"]
  /\ log = [i \in Issues |-> <<>>]
  /\ journal = None
  /\ connection = [s \in Stores |-> "none"]
  /\ closed = [s \in Stores |-> FALSE]
  /\ waiters = [s \in Stores |-> <<>>]
  /\ pc = [t \in Tasks |-> "idle"]
  /\ call = [t \in Tasks |-> None]
  /\ cancelled = [t \in Tasks |-> FALSE]
  /\ job = [t \in Tasks |-> "none"]
  /\ seen = [t \in Tasks |-> None]
  /\ stamp = [t \in Tasks |-> 0]
  /\ clock = 0
  /\ acked = {}

-----------------------------------------------------------------------------
(* The database file, as a connection other than the writer's sees it.      *)

VisibleStatus == IF journal = None THEN status ELSE journal.status
VisibleLog    == IF journal = None THEN log ELSE journal.log

\* What BEGIN saves (seeded fault: the statements run without a transaction).
NoTransaction(t) == None
Saved(t)         == [by |-> t, status |-> status, log |-> log]

\* The transaction of one of these tasks is undone (seeded fault: it is left).
RollbackMissing(ts) == UNCHANGED fileVars
Rollback(ts) ==
  IF journal # None /\ journal.by \in ts
    THEN status' = journal.status /\ log' = journal.log /\ journal' = None
    ELSE UNCHANGED fileVars

-----------------------------------------------------------------------------
(* The callers: _run, initialize, close, and the drain on cancellation.     *)

\* A call is made; a new issue takes its opened_at here, before the lock.
Call(t) ==
  /\ pc[t] = "idle" /\ job[t] = "none"
  /\ \E c \in Calls :
       /\ c.op = "append_event" => Len(log[c.issue]) < MaxEvents
       /\ call' = [call EXCEPT ![t] = c]
       /\ stamp' = [stamp EXCEPT ![t] = IF c.op = "open_issue" THEN clock ELSE 0]
  /\ pc' = [pc EXCEPT ![t] = "queued"]
  /\ waiters' = [waiters EXCEPT ![Home[t]] = Append(@, t)]
  /\ UNCHANGED <<fileVars, connection, closed, cancelled, job, seen, clock, acked>>

FirstStep(op) == CASE op = "open_issue" -> "begin"
                   [] op = "initialize" -> "done"
                   [] OTHER             -> "read"

\* A closed store refuses to work (seeded fault: it does not).
RefusesNothing(s) == FALSE
Refuses(s)        == closed[s]

\* The worker's first step once the lock is held.
Started(t) ==
  LET s == Home[t] op == call[t].op IN
  IF op = "close"
    THEN IF closed[s] THEN "done" ELSE IF connection[s] = "none" THEN "seal" ELSE "disconnect"
  ELSE IF Refuses(s) THEN "failed"
  ELSE IF connection[s] = "none" THEN "init"
  ELSE FirstStep(op)

\* _operation_lock is taken in FIFO order.
Acquire(t) ==
  LET s == Home[t] IN
  /\ pc[t] = "queued"
  /\ \A u \in Tasks : Home[u] = s => pc[u] # "running"
  /\ Head(waiters[s]) = t
  /\ waiters' = [waiters EXCEPT ![s] = Tail(@)]
  /\ pc' = [pc EXCEPT ![t] = "running"]
  /\ job' = [job EXCEPT ![t] = Started(t)]
  /\ UNCHANGED <<fileVars, connection, closed, call, cancelled, seen, stamp, clock, acked>>

\* The connection is made: the operation's own worker starts, unless the call
\* was cancelled meanwhile.
Continue(t) ==
  /\ job[t] = "initialized"
  /\ job' = [job EXCEPT ![t] = IF cancelled[t] THEN "failed" ELSE FirstStep(call[t].op)]
  /\ UNCHANGED <<fileVars, storeVars, pc, call, cancelled, seen, stamp, clock, acked>>

\* What a caller waits for (seeded fault: an exception does not end the wait).
WorkerSucceeded(t) == job[t] \in {"done", "missing"}
WorkerEnded(t)     == job[t] \in {"done", "missing", "failed"}

\* The caller resumes with the worker's result, or with its cancellation.
Finish(t) ==
  /\ pc[t] = "running" /\ WorkerEnded(t)
  /\ acked' = IF job[t] = "done" /\ ~cancelled[t] /\ call[t].op \in Writes
                THEN acked \cup {call[t]} ELSE acked
  /\ pc' = [pc EXCEPT ![t] = "idle"]
  /\ call' = [call EXCEPT ![t] = None]
  /\ cancelled' = [cancelled EXCEPT ![t] = FALSE]
  /\ job' = [job EXCEPT ![t] = "none"]
  /\ seen' = [seen EXCEPT ![t] = None]
  /\ stamp' = [stamp EXCEPT ![t] = 0]
  /\ UNCHANGED <<fileVars, storeVars, clock>>

\* A cancellation waits for the worker (seeded fault: it frees the lock).
LeavesWorker(t) == pc' = [pc EXCEPT ![t] = "idle"] /\ UNCHANGED cancelled
Drains(t)       == cancelled' = [cancelled EXCEPT ![t] = TRUE] /\ UNCHANGED pc

CancelRunning(t) ==
  /\ pc[t] = "running"
  /\ Drains(t)
  /\ UNCHANGED <<fileVars, storeVars, call, job, seen, stamp, clock, acked>>

CancelQueued(t) ==
  /\ pc[t] = "queued"
  /\ \E i \in DOMAIN waiters[Home[t]] :
       /\ waiters[Home[t]][i] = t
       /\ waiters' = [waiters EXCEPT
            ![Home[t]] = SubSeq(@, 1, i - 1) \o SubSeq(@, i + 1, Len(@))]
  /\ pc' = [pc EXCEPT ![t] = "idle"]
  /\ call' = [call EXCEPT ![t] = None]
  /\ stamp' = [stamp EXCEPT ![t] = 0]
  /\ UNCHANGED <<fileVars, connection, closed, cancelled, job, seen, clock, acked>>

-----------------------------------------------------------------------------
(* The workers.                                                             *)

Goes(t, step) == job' = [job EXCEPT ![t] = step]

\* _initialize_sync, and the two assignments that follow it.
Initialize(t) ==
  /\ job[t] = "init"
  /\ connection' = [connection EXCEPT ![Home[t]] = "open"]
  /\ Goes(t, "initialized")
  /\ UNCHANGED <<fileVars, closed, waiters, pc, call, cancelled, seen, stamp, clock, acked>>

Connected(t) == connection[Home[t]] = "open"

\* The time of a new event (seeded fault: an issue is closed as of its opening).
OpeningTime(t) ==
  LET events == VisibleLog[call[t].issue] IN
  IF call[t].op = "close_issue" /\ events # <<>> THEN events[1].at ELSE clock
EventTime(t) == clock

\* _get_issue_sync, and the event that append_event and close_issue prepare.
Read(t) ==
  LET row == VisibleStatus[call[t].issue] IN
  /\ job[t] = "read" /\ Connected(t)
  /\ seen' = [seen EXCEPT ![t] = row]
  /\ stamp' = [stamp EXCEPT ![t] = IF call[t].op \in Writes THEN EventTime(t) ELSE 0]
  /\ Goes(t, IF row = "absent" THEN "missing" ELSE
               CASE call[t].op = "append_event"                  -> "insert"
                 [] call[t].op = "get_timeline"                  -> "events"
                 [] call[t].op = "close_issue" /\ row # "closed" -> "begin"
                 [] OTHER                                        -> "harden")
  /\ UNCHANGED <<fileVars, storeVars, pc, call, cancelled, clock, acked>>

\* The second query of _get_timeline_sync.
ReadEvents(t) ==
  /\ job[t] = "events" /\ Connected(t)
  /\ Goes(t, "harden")
  /\ UNCHANGED <<fileVars, storeVars, pc, call, cancelled, seen, stamp, clock, acked>>

AddEvent(t, kind) ==
  log' = [log EXCEPT ![call[t].issue] = Append(@, [kind |-> kind, at |-> stamp[t]])]

\* append_event: one statement in autocommit mode.
Insert(t) ==
  /\ job[t] = "insert" /\ Connected(t) /\ journal = None
  /\ AddEvent(t, "note")
  /\ Goes(t, "harden")
  /\ UNCHANGED <<status, journal, storeVars, pc, call, cancelled, seen, stamp, clock, acked>>

\* BEGIN IMMEDIATE.
Begin(t) ==
  /\ job[t] = "begin" /\ Connected(t) /\ journal = None
  /\ journal' = Saved(t)
  /\ Goes(t, "row")
  /\ UNCHANGED <<status, log, storeVars, pc, call, cancelled, seen, stamp, clock, acked>>

\* INSERT INTO issues, whose key must be new, or UPDATE issues.
WriteRow(t) ==
  LET i == call[t].issue IN
  /\ job[t] = "row"
  /\ call[t].op = "open_issue" => status[i] = "absent"
  /\ status' = [status EXCEPT ![i] = IF call[t].op = "open_issue" THEN "open" ELSE "closed"]
  /\ Goes(t, "event")
  /\ UNCHANGED <<log, journal, storeVars, pc, call, cancelled, seen, stamp, clock, acked>>

\* What follows the event (seeded fault: no COMMIT).
CommitForgotten == "harden"
AfterEvent      == "commit"

WriteEvent(t) ==
  /\ job[t] = "event"
  /\ AddEvent(t, IF call[t].op = "open_issue" THEN "opened" ELSE "closed")
  /\ Goes(t, AfterEvent)
  /\ UNCHANGED <<status, journal, storeVars, pc, call, cancelled, seen, stamp, clock, acked>>

Commit(t) ==
  /\ job[t] = "commit"
  /\ journal' = None
  /\ Goes(t, "harden")
  /\ UNCHANGED <<status, log, storeVars, pc, call, cancelled, seen, stamp, clock, acked>>

\* _harden_permissions succeeds.
Harden(t) ==
  /\ job[t] = "harden"
  /\ Goes(t, "done")
  /\ UNCHANGED <<fileVars, storeVars, pc, call, cancelled, seen, stamp, clock, acked>>

\* close_in_background: the connection is closed, then the store.
Disconnect(t) ==
  /\ job[t] = "disconnect"
  /\ connection' = [connection EXCEPT ![Home[t]] = "unusable"]
  /\ Goes(t, "seal")
  /\ UNCHANGED <<fileVars, closed, waiters, pc, call, cancelled, seen, stamp, clock, acked>>

Seal(t) ==
  /\ job[t] = "seal"
  /\ connection' = [connection EXCEPT ![Home[t]] = "none"]
  /\ closed' = [closed EXCEPT ![Home[t]] = TRUE]
  /\ Goes(t, "done")
  /\ UNCHANGED <<fileVars, waiters, pc, call, cancelled, seen, stamp, clock, acked>>

\* A statement fails (an unusable connection, a busy database, a duplicate key,
\* the disk), or the file's identity or permissions are not as expected.
Fail(t) ==
  /\ job[t] \in Working
  /\ Rollback({t})
  /\ Goes(t, "failed")
  /\ UNCHANGED <<storeVars, pc, call, cancelled, seen, stamp, clock, acked>>

-----------------------------------------------------------------------------
(* The environment.                                                         *)

\* The process of store s dies and starts again; its tasks are gone, and the
\* next connection rolls its transaction back.
Crash(s) ==
  LET lost == {t \in Tasks : Home[t] = s}
      Reset(f, x) == [t \in Tasks |-> IF t \in lost THEN x ELSE f[t]]
  IN
  /\ Rollback(lost)
  /\ connection' = [connection EXCEPT ![s] = "none"]
  /\ closed' = [closed EXCEPT ![s] = FALSE]
  /\ waiters' = [waiters EXCEPT ![s] = <<>>]
  /\ pc' = Reset(pc, "idle")
  /\ call' = Reset(call, None)
  /\ cancelled' = Reset(cancelled, FALSE)
  /\ job' = Reset(job, "none")
  /\ seen' = Reset(seen, None)
  /\ stamp' = Reset(stamp, 0)
  /\ UNCHANGED <<clock, acked>>

Tick ==
  /\ \/ clock < MaxClock /\ clock' = clock + 1
     \/ StepsBack /\ clock > 0 /\ clock' = clock - 1
  /\ UNCHANGED <<fileVars, storeVars, taskVars, acked>>

Worker(t) ==
  \/ Initialize(t)
  \/ Read(t) \/ ReadEvents(t) \/ Insert(t)
  \/ Begin(t) \/ WriteRow(t) \/ WriteEvent(t) \/ Commit(t) \/ Harden(t)
  \/ Disconnect(t) \/ Seal(t)
  \/ Fail(t)

Caller(t) ==
  Call(t) \/ Acquire(t) \/ Continue(t) \/ Finish(t) \/ CancelRunning(t) \/ CancelQueued(t)

Next ==
  \/ \E t \in Tasks : Caller(t) \/ Worker(t)
  \/ \E s \in Stores : Crash(s)
  \/ Tick

Spec == Init /\ [][Next]_vars

\* The event loop runs what is ready, a worker thread ends: SQLite waits a
\* bounded time for a busy database.
FairSpec ==
  Spec /\ \A t \in Tasks : WF_vars(Acquire(t) \/ Continue(t) \/ Finish(t) \/ Worker(t))

-----------------------------------------------------------------------------
(* The listing of a timeline: by time, then by event id.  Ids are random, so *)
(* events of one clock tick come in either order.                            *)

MayPrecede(e, f) == e.at <= f.at

-----------------------------------------------------------------------------
(* Properties.                                                              *)

\* At most one worker of a store runs at a time, cancellations or not: the
\* connection is never used by two threads, nor closed under a running
\* operation.
OneWorker ==
  \A t, u \in Tasks : Home[t] = Home[u] /\ job[t] # "none" /\ job[u] # "none" => t = u

\* What a caller was told is done is in the file, whatever crashes or fails later.
AckedIsDurable ==
  \A c \in acked :
    /\ c.op = "open_issue" => VisibleStatus[c.issue] # "absent"
    /\ c.op = "close_issue" => VisibleStatus[c.issue] = "closed"
    /\ c.op = "append_event" =>
         \E n \in DOMAIN VisibleLog[c.issue] : VisibleLog[c.issue][n].kind = "note"

\* A timeline is one snapshot although it is read in two queries: its issue is
\* closed exactly if its events say so.
TimelinesAgree ==
  [][ \A t \in Tasks : ReadEvents(t) =>
        (seen[t] = "closed" <=>
           \E n \in DOMAIN VisibleLog[call[t].issue] :
             VisibleLog[call[t].issue][n].kind = "closed") ]_vars

\* The timeline lists a later event before an earlier one only when one clock
\* tick stamped both: the order of the listing is that of the writes otherwise.
TimelineInOrder ==
  \A i \in Issues : \A m, n \in DOMAIN VisibleLog[i] :
    m < n /\ MayPrecede(VisibleLog[i][n], VisibleLog[i][m]) =>
      VisibleLog[i][n].at = VisibleLog[i][m].at

\* The events of a timeline that close its issue: their places, and their times.
Closings(events) ==
  [n \in {m \in DOMAIN events : events[m].kind = "closed"} |-> events[n].at]

\* A closed issue keeps the closed_at it was closed with.
ClosedOnce ==
  [][ \A i \in Issues :
        VisibleStatus[i] = "closed" => Closings(VisibleLog'[i]) = Closings(VisibleLog[i]) ]_vars

\* A closed store lets its connection go, keeps it so and never works again
\* until the process is started anew.
ClosedIsFinal ==
  \A s \in Stores : closed[s] =>
    /\ connection[s] = "none"
    /\ \A t \in Tasks : Home[t] = s => job[t] \notin Working

\* Every call returns, even one cancelled while its worker runs.
CallsReturn == \A t \in Tasks : pc[t] # "idle" ~> pc[t] = "idle"

Log == INSTANCE IssueLog WITH
  status <- VisibleStatus,
  log    <- [i \in Issues |->
               [n \in DOMAIN VisibleLog[i] |-> VisibleLog[i][n].kind]]

\* The file is an issue log: every change of it is one whole change of one issue.
KeepsLog == Log!Spec

=============================================================================
