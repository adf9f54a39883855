-------------------------- MODULE IssueStoreProofs --------------------------
(***************************************************************************)
(* Proofs about IssueStore, for any stores, tasks, issues and bounds.        *)
(*                                                                         *)
(* Sound is an inductive invariant however many processes share the file.    *)
(* While no issue is closed behind the back of a call that has read its row  *)
(* (ClosesApart; always so with OneProcess), StillSo is preserved too, and   *)
(* the store implements IssueLog.  With one process and a clock that is      *)
(* never set back, InTime is.                                               *)
(***************************************************************************)
EXTENDS IssueStore, SequenceLemmas

\* _operation_lock: who waits for it is in its queue, and a worker runs exactly
\* while its caller holds it.
Locks ==
  /\ \A t \in Tasks : pc[t] = "queued" => Waits(waiters[Home[t]], t)
  /\ \A t \in Tasks : job[t] # "none" <=> pc[t] = "running"
  /\ \A t, u \in Tasks :
       Home[t] = Home[u] /\ pc[t] = "running" /\ pc[u] = "running" => t = u
  /\ \A t \in Tasks : pc[t] # "idle" => call[t] \in Calls

\* Some event of a timeline is of this kind.
Has(events, kind) == \E n \in DOMAIN events : events[n].kind = kind

\* What a call that is done rests on.
Durable(c) ==
  /\ c.op = "open_issue" => VisibleStatus[c.issue] # "absent"
  /\ c.op = "close_issue" => VisibleStatus[c.issue] = "closed"
  /\ c.op = "append_event" => Has(VisibleLog[c.issue], "note")

\* Which call reaches which step of its worker.
Phase(t) ==
  /\ job[t] \in {"init", "initialized"} => call[t].op # "close"
  /\ job[t] \in CloseSteps => call[t].op = "close"
  /\ job[t] = "read" => call[t].op \in IssueOps \ {"open_issue"}
  /\ job[t] = "events" => call[t].op = "get_timeline"
  /\ job[t] = "insert" =>
       call[t].op = "append_event" /\ VisibleStatus[call[t].issue] # "absent"
  /\ job[t] \in TxSteps \cup {"begin"} => call[t].op \in {"open_issue", "close_issue"}
  /\ job[t] \in {"harden", "done"} => Durable(call[t])

Phases == \A t \in Tasks : Phase(t)

\* The row and the event that a transaction writes.
NewStatus(t) == IF call[t].op = "open_issue" THEN "open" ELSE "closed"
NewEvent(t)  == [kind |-> IF call[t].op = "open_issue" THEN "opened" ELSE "closed",
                 at   |-> stamp[t]]

\* A transaction has changed, of what BEGIN saved, just what its steps so far say.
Transaction ==
  /\ \A t \in Tasks : job[t] \in TxSteps => journal # None /\ journal.by = t
  /\ \A t \in Tasks : LET i == call[t].issue IN
       /\ job[t] = "row" => status = journal.status
       /\ job[t] \in {"row", "event"} => log = journal.log
       /\ job[t] \in {"event", "commit"} =>
            /\ status = [journal.status EXCEPT ![i] = NewStatus(t)]
            /\ call[t].op = "open_issue" => journal.status[i] = "absent"
       /\ job[t] = "commit" => log = [journal.log EXCEPT ![i] = Append(@, NewEvent(t))]

\* The log of an issue and its row say the same.
Matches ==
  \A i \in Issues :
    /\ VisibleStatus[i] = "absent" => VisibleLog[i] = <<>>
    /\ VisibleStatus[i] = "closed" <=> Has(VisibleLog[i], "closed")

\* A closed store has no connection and no worker.
ClosedLetsGo ==
  /\ \A s \in Stores : closed[s] => connection[s] = "none"
  /\ \A t \in Tasks : job[t] \in Working \cup {"initialized"} => ~closed[Home[t]]

Sound ==
  /\ TypeOK /\ Locks /\ Phases /\ Transaction /\ Matches
  /\ ClosedLetsGo /\ AckedIsDurable

\* One process uses the file.
OneProcess == \A t, u \in Tasks : Home[t] = Home[u]

\* A close_issue is not committed while another call stands between its read of
\* the same row and the statement that relies on it: the events of a timeline, or
\* the BEGIN of another close_issue.
ClosesApart ==
  \A t, u \in Tasks :
    /\ t # u /\ Commit(t) /\ call[t].op = "close_issue"
    /\ job[u] = "events" \/ (job[u] = "begin" /\ call[u].op = "close_issue")
    => call[u].issue # call[t].issue

\* What a worker has read is still so when it goes on.
StillSoAt(t) ==
  LET i == call[t].issue IN
  /\ job[t] = "events" => seen[t] = VisibleStatus[i] /\ seen[t] # "absent"
  /\ job[t] \in TxSteps \cup {"begin"} /\ call[t].op = "close_issue" => VisibleStatus[i] = "open"

StillSo == \A t \in Tasks : StillSoAt(t)

\* No event is later than this time; the events are in the order of their times.
Upto(events, time) == \A n \in DOMAIN events : events[n].at <= time
Sorted(events) ==
  \A m, n \in DOMAIN events : m < n => events[m].at <= events[n].at

\* A new event is not older than the ones in the file.
TimeAt(t) ==
  /\ stamp[t] <= clock
  /\ job[t] \in TxSteps \cup {"begin", "insert"} /\ call[t].op # "open_issue" =>
       Upto(VisibleLog[call[t].issue], stamp[t])

InTime ==
  /\ \A i \in Issues : Upto(VisibleLog[i], clock) /\ Sorted(VisibleLog[i])
  /\ \A t \in Tasks : TimeAt(t)

-----------------------------------------------------------------------------
(* What steps have in common.                                               *)

\* Nothing of an issue that other processes can see is taken back.
Grows ==
  \A i \in Issues :
    /\ VisibleStatus[i] # "absent" => VisibleStatus'[i] # "absent"
    /\ VisibleStatus[i] = "closed" => VisibleStatus'[i] = "closed"
    /\ Has(VisibleLog[i], "note") => Has(VisibleLog'[i], "note")

LEMMA CallTyped ==
  ASSUME NEW c \in Calls
  PROVE  c.op \in IssueOps \cup {"initialize", "close"} /\ (c.op \in IssueOps => c.issue \in Issues)
BY StoreAssumption DEF Calls, IssueOps, Writes

LEMMA DurableStays ==
  ASSUME NEW c \in Calls, Durable(c), Grows PROVE Durable(c)'
<1>1. c.op \in Writes => c.issue \in Issues BY CallTyped DEF IssueOps
<1> QED BY <1>1 DEF Durable, Grows, Writes

\* The other tasks are where they were.
LEMMA OthersKeep ==
  ASSUME Sound, NEW t \in Tasks, Grows, Phase(t)',
         \A u \in Tasks \ {t} : job'[u] = job[u] /\ call'[u] = call[u]
  PROVE  Phases'
<1> SUFFICES ASSUME NEW u \in Tasks \ {t} PROVE Phase(u)' BY DEF Phases
<1>1. Phase(u) BY DEF Sound, Phases
<1>2. job[u] # "none" => call[u] \in Calls BY DEF Sound, Locks
<1>3. job[u] \in {"harden", "done"} => Durable(call[u])'
  <2> SUFFICES ASSUME job[u] \in {"harden", "done"} PROVE Durable(call[u])' OBVIOUS
  <2>1. call[u] \in Calls /\ Durable(call[u]) BY <1>1, <1>2 DEF Phase
  <2>2. call'[u] = call[u] OBVIOUS
  <2> QED BY <2>1, <2>2, DurableStays DEF Durable
<1>4. job[u] = "insert" => VisibleStatus'[call[u].issue] # "absent"
  <2>1. job[u] = "insert" => call[u] \in Calls /\ call[u].op = "append_event" BY <1>1, <1>2 DEF Phase
  <2>2. job[u] = "insert" => call[u].issue \in Issues BY <2>1, CallTyped DEF IssueOps, Writes
  <2> QED BY <1>1, <2>2 DEF Phase, Grows
<1> QED BY <1>1, <1>3, <1>4 DEF Phase, Durable

LEMMA AckedKeep ==
  ASSUME Sound, Grows, acked' = acked PROVE AckedIsDurable'
<1> SUFFICES ASSUME NEW c \in acked PROVE Durable(c)' BY DEF AckedIsDurable, Durable, Has
<1>1. c \in Calls /\ Durable(c) BY DEF Sound, TypeOK, AckedIsDurable, Durable, Has
<1> QED BY <1>1, DurableStays

LEMMA FileSame ==
  ASSUME UNCHANGED fileVars
  PROVE  UNCHANGED <<VisibleStatus, VisibleLog>> /\ Grows
BY DEF fileVars, VisibleStatus, VisibleLog, Grows

\* The types of what is in the file and of what others see of it.
LEMMA FileTyped ==
  ASSUME TypeOK
  PROVE  /\ VisibleStatus \in [Issues -> Statuses] /\ VisibleLog \in [Issues -> Seq(Events)]
         /\ journal # None => journal.by \in Tasks
BY DEF TypeOK, VisibleStatus, VisibleLog, Journals

\* A worker does one step: it is the only one of its store, and its caller keeps
\* the lock.
LEMMA WorkerFrame ==
  ASSUME Sound, NEW t \in Tasks, job[t] # "none", NEW step \in Working \cup Ended, Goes(t, step),
         UNCHANGED <<waiters, pc, call, cancelled, clock, acked>>
  PROVE  /\ Locks'
         /\ job' \in [Tasks -> Working \cup Ended \cup {"none"}]
         /\ job'[t] = step /\ \A u \in Tasks \ {t} : job'[u] = job[u]
         /\ pc[t] = "running" /\ call[t] \in Calls
         /\ \A u \in Tasks \ {t} : Home[u] = Home[t] => job[u] = "none"
<1> USE DEF Sound, Goes
<1>1. job' \in [Tasks -> Working \cup Ended \cup {"none"}] BY DEF TypeOK
<1>2. job'[t] = step /\ \A u \in Tasks \ {t} : job'[u] = job[u] BY DEF TypeOK
<1>3. pc[t] = "running" /\ call[t] \in Calls BY DEF Locks
<1>4. \A u \in Tasks \ {t} : Home[u] = Home[t] => job[u] = "none" BY <1>3 DEF Locks
<1>5. step # "none"
  BY DEF Working, DataSteps, TxSteps, CloseSteps, Ended
<1>6. Locks' BY <1>2, <1>5 DEF Locks
<1> QED BY <1>1, <1>2, <1>3, <1>4, <1>6

LEMMA WorkerKeeps ==
  ASSUME Sound, NEW t \in Tasks, job[t] # "none", NEW step \in Working \cup Ended, Goes(t, step),
         UNCHANGED <<waiters, pc, call, cancelled, clock, acked>>,
         status' \in [Issues -> Statuses], log' \in [Issues -> Seq(Events)],
         journal' # None => journal' \in Journals /\ job'[journal'.by] \in TxSteps,
         connection' \in [Stores -> {"none", "open", "unusable"}],
         closed' \in [Stores -> BOOLEAN],
         seen' \in [Tasks -> Statuses \cup {None}],
         stamp' \in [Tasks -> 0..MaxClock],
         Grows, Phase(t)', Transaction', Matches', ClosedLetsGo'
  PROVE  Sound'
<1>1. TypeOK' BY WorkerFrame DEF Sound, TypeOK
<1>2. Locks' BY WorkerFrame
<1>3. Phases'
  <2>1. \A u \in Tasks \ {t} : job'[u] = job[u] /\ call'[u] = call[u] BY WorkerFrame
  <2> QED BY <2>1, OthersKeep
<1>4. AckedIsDurable' BY AckedKeep
<1> QED BY <1>1, <1>2, <1>3, <1>4 DEF Sound

\* A task outside a transaction, whose step leaves the file alone.
LEMMA TransactionElsewhere ==
  ASSUME Sound, NEW t \in Tasks, job[t] \notin TxSteps, job'[t] \notin TxSteps, UNCHANGED fileVars,
         \A u \in Tasks \ {t} : job'[u] = job[u] /\ call'[u] = call[u] /\ stamp'[u] = stamp[u]
  PROVE  /\ Transaction' /\ Matches' /\ Grows
         /\ journal' # None => journal' \in Journals /\ job'[journal'.by] \in TxSteps
<1>1. Transaction'
  <2> SUFFICES ASSUME NEW u \in Tasks, job'[u] \in TxSteps
               PROVE  /\ journal' # None /\ journal'.by = u
                      /\ job'[u] = "row" => status' = journal'.status
                      /\ job'[u] \in {"row", "event"} => log' = journal'.log
                      /\ job'[u] \in {"event", "commit"} =>
                           /\ status' = [journal'.status EXCEPT ![call'[u].issue] = NewStatus(u)']
                           /\ call'[u].op = "open_issue" =>
                                journal'.status[call'[u].issue] = "absent"
                      /\ job'[u] = "commit" =>
                           log' = [journal'.log EXCEPT ![call'[u].issue] = Append(@, NewEvent(u)')]
    BY DEF Transaction, TxSteps
  <2>1. job'[u] = job[u] /\ call'[u] = call[u] /\ stamp'[u] = stamp[u] OBVIOUS
  <2> QED BY <2>1 DEF Sound, Transaction, fileVars, NewStatus, NewEvent, TxSteps
<1>2. Matches' BY FileSame DEF Sound, Matches
<1>3. journal' # None => journal' \in Journals /\ job'[journal'.by] \in TxSteps
  <2> SUFFICES ASSUME journal' # None
               PROVE  journal' \in Journals /\ job'[journal'.by] \in TxSteps
    OBVIOUS
  <2>1. journal' = journal /\ journal \in Journals /\ job[journal.by] \in TxSteps
    BY DEF Sound, TypeOK, fileVars
  <2>2. journal.by \in Tasks \ {t} BY <2>1 DEF Journals
  <2> QED BY <2>1, <2>2
<1> QED BY <1>1, <1>2, <1>3, FileSame

LEMMA QuietWorker ==
  ASSUME Sound, NEW t \in Tasks, job[t] \notin TxSteps \cup {"none"},
         NEW step \in (Working \cup Ended) \ TxSteps, Goes(t, step),
         UNCHANGED <<fileVars, waiters, pc, call, cancelled, clock, acked>>,
         connection' \in [Stores -> {"none", "open", "unusable"}],
         closed' \in [Stores -> BOOLEAN],
         seen' \in [Tasks -> Statuses \cup {None}],
         stamp' \in [Tasks -> 0..MaxClock],
         \A u \in Tasks \ {t} : stamp'[u] = stamp[u],
         Phase(t)', ClosedLetsGo'
  PROVE  Sound'
<1>1. job'[t] = step /\ \A u \in Tasks \ {t} : job'[u] = job[u] /\ call'[u] = call[u]
  BY WorkerFrame
<1>2. UNCHANGED fileVars OBVIOUS
<1>3. /\ Transaction' /\ Matches' /\ Grows
      /\ journal' # None => journal' \in Journals /\ job'[journal'.by] \in TxSteps
  BY <1>1, <1>2, TransactionElsewhere
<1>4. status' \in [Issues -> Statuses] /\ log' \in [Issues -> Seq(Events)]
  BY DEF Sound, TypeOK, fileVars
<1>5. UNCHANGED <<waiters, pc, call, cancelled, clock, acked>> OBVIOUS
<1> QED BY <1>3, <1>4, <1>5, WorkerKeeps

-----------------------------------------------------------------------------
(* Steps that leave the file alone.                                         *)

LEMMA InitializeKeeps == ASSUME Sound, NEW t \in Tasks, Initialize(t) PROVE Sound'
<1> USE DEF Initialize
<1>1. Phase(t) /\ ~closed[Home[t]] BY DEF Sound, Phases, ClosedLetsGo, Working
<1>2. job'[t] = "initialized" /\ \A u \in Tasks \ {t} : job'[u] = job[u]
  BY DEF Goes, Sound, TypeOK
<1>3. Phase(t)' BY <1>1, <1>2 DEF Phase, TxSteps, CloseSteps
<1>4. ClosedLetsGo'
  <2>1. connection' \in [Stores -> {"none", "open", "unusable"}]
        /\ \A s \in Stores \ {Home[t]} : connection'[s] = connection[s]
    BY DEF Sound, TypeOK
  <2> QED BY <1>1, <1>2, <2>1 DEF ClosedLetsGo, Sound
<1>5. connection' \in [Stores -> {"none", "open", "unusable"}] BY DEF Sound, TypeOK
<1>6. closed' \in [Stores -> BOOLEAN] /\ seen' \in [Tasks -> Statuses \cup {None}]
      /\ stamp' \in [Tasks -> 0..MaxClock] BY DEF Sound, TypeOK
<1>7. "initialized" \in (Working \cup Ended) \ TxSteps BY DEF Ended, TxSteps
<1>8. job[t] \notin TxSteps \cup {"none"} BY DEF TxSteps
<1> QED BY <1>3, <1>4, <1>5, <1>6, <1>7, <1>8, QuietWorker

LEMMA ReadKeeps == ASSUME Sound, NEW t \in Tasks, Read(t) PROVE Sound'
<1> USE DEF Read
<1> DEFINE i == call[t].issue
           op == call[t].op
           row == VisibleStatus[i]
           step == IF row = "absent" THEN "missing" ELSE
                     CASE op = "append_event"                  -> "insert"
                       [] op = "get_timeline"                  -> "events"
                       [] op = "close_issue" /\ row # "closed" -> "begin"
                       [] OTHER                                -> "harden"
<1>1. job[t] = "read" /\ Goes(t, step) OBVIOUS
<1>2. op \in IssueOps \ {"open_issue"} /\ call[t] \in Calls /\ ~closed[Home[t]]
  BY DEF Sound, Phases, Phase, Locks, ClosedLetsGo, Working, DataSteps
<1>3. i \in Issues /\ row \in Statuses BY <1>2, CallTyped, FileTyped DEF Sound
<1>4. /\ step \in {"missing", "insert", "events", "begin", "harden"}
      /\ step = "insert" => op = "append_event" /\ row # "absent"
      /\ step = "events" => op = "get_timeline"
      /\ step = "begin" => op = "close_issue"
      /\ step = "harden" => row # "absent" /\ op # "append_event"
                            /\ (op = "close_issue" => row = "closed")
  OBVIOUS
<1> HIDE DEF step
<1>5. job'[t] = step /\ \A u \in Tasks \ {t} : job'[u] = job[u] BY <1>1 DEF Goes, Sound, TypeOK
<1>6. Phase(t)'
  <2>1. UNCHANGED <<VisibleStatus, VisibleLog>> BY FileSame
  <2> QED BY <1>2, <1>4, <1>5, <2>1 DEF Phase, TxSteps, CloseSteps, Durable
<1>7. ClosedLetsGo' BY <1>2, <1>5 DEF ClosedLetsGo, Sound, storeVars
<1>8. /\ connection' \in [Stores -> {"none", "open", "unusable"}]
      /\ closed' \in [Stores -> BOOLEAN]
  BY DEF Sound, TypeOK, storeVars
<1>9. seen' \in [Tasks -> Statuses \cup {None}] BY <1>3 DEF Sound, TypeOK
<1>10. /\ stamp' \in [Tasks -> 0..MaxClock]
       /\ \A u \in Tasks \ {t} : stamp'[u] = stamp[u]
  BY StoreAssumption DEF Sound, TypeOK, EventTime
<1>11. step \in (Working \cup Ended) \ TxSteps BY <1>4 DEF Ended, TxSteps, Working, DataSteps
<1>12. job[t] \notin TxSteps \cup {"none"} BY DEF TxSteps
<1> QED BY <1>1, <1>6, <1>7, <1>8, <1>9, <1>10, <1>11, <1>12, QuietWorker DEF storeVars

LEMMA ReadEventsKeeps == ASSUME Sound, NEW t \in Tasks, ReadEvents(t) PROVE Sound'
<1> USE DEF ReadEvents
<1>1. Phase(t) /\ ~closed[Home[t]] BY DEF Sound, Phases, ClosedLetsGo, Working, DataSteps
<1>2. job'[t] = "harden" /\ \A u \in Tasks \ {t} : job'[u] = job[u] BY DEF Goes, Sound, TypeOK
<1>3. Phase(t)' BY <1>1, <1>2 DEF Phase, TxSteps, CloseSteps, Durable
<1>4. ClosedLetsGo' BY <1>1, <1>2 DEF ClosedLetsGo, Sound, storeVars
<1>5. /\ connection' \in [Stores -> {"none", "open", "unusable"}] /\ closed' \in [Stores -> BOOLEAN]
      /\ seen' \in [Tasks -> Statuses \cup {None}] /\ stamp' \in [Tasks -> 0..MaxClock]
  BY DEF Sound, TypeOK, storeVars
<1>6. "harden" \in (Working \cup Ended) \ TxSteps /\ job[t] \notin TxSteps \cup {"none"}
  BY DEF Working, TxSteps
<1> QED BY <1>3, <1>4, <1>5, <1>6, QuietWorker DEF storeVars

LEMMA HardenKeeps == ASSUME Sound, NEW t \in Tasks, Harden(t) PROVE Sound'
<1> USE DEF Harden
<1>1. Phase(t) BY DEF Sound, Phases
<1>2. job'[t] = "done" /\ \A u \in Tasks \ {t} : job'[u] = job[u] BY DEF Goes, Sound, TypeOK
<1>3. Phase(t)'
  <2>1. UNCHANGED <<VisibleStatus, VisibleLog>> BY FileSame
  <2> QED BY <1>1, <1>2, <2>1 DEF Phase, TxSteps, CloseSteps, Durable
<1>4. ClosedLetsGo'
  <2>1. "done" \notin Working \cup {"initialized"}
    BY DEF Working, DataSteps, TxSteps, CloseSteps
  <2> QED BY <1>2, <2>1 DEF ClosedLetsGo, Sound, storeVars
<1>5. /\ connection' \in [Stores -> {"none", "open", "unusable"}] /\ closed' \in [Stores -> BOOLEAN]
      /\ seen' \in [Tasks -> Statuses \cup {None}] /\ stamp' \in [Tasks -> 0..MaxClock]
  BY DEF Sound, TypeOK, storeVars
<1>6. "done" \in (Working \cup Ended) \ TxSteps /\ job[t] \notin TxSteps \cup {"none"}
  BY DEF Ended, TxSteps
<1> QED BY <1>3, <1>4, <1>5, <1>6, QuietWorker DEF storeVars

LEMMA ContinueKeeps == ASSUME Sound, NEW t \in Tasks, Continue(t) PROVE Sound'
<1> USE DEF Continue
<1> DEFINE op == call[t].op
           step == IF cancelled[t] THEN "failed" ELSE FirstStep(op)
<1>1. job[t] = "initialized" /\ Goes(t, step) BY DEF Goes
<1>2. op # "close" /\ call[t] \in Calls /\ ~closed[Home[t]]
  BY DEF Sound, Phases, Phase, Locks, ClosedLetsGo
<1>3. /\ step \in {"failed", "begin", "done", "read"}
      /\ step = "begin" => op = "open_issue"
      /\ step = "done" => op = "initialize"
      /\ step = "read" => op \in IssueOps \ {"open_issue"}
  BY <1>2, CallTyped DEF FirstStep
<1> HIDE DEF step
<1>4. job'[t] = step /\ \A u \in Tasks \ {t} : job'[u] = job[u] BY <1>1 DEF Goes, Sound, TypeOK
<1>5. Phase(t)' BY <1>3, <1>4 DEF Phase, TxSteps, CloseSteps, Durable
<1>6. ClosedLetsGo' BY <1>2, <1>4 DEF ClosedLetsGo, Sound, storeVars
<1>7. /\ connection' \in [Stores -> {"none", "open", "unusable"}] /\ closed' \in [Stores -> BOOLEAN]
      /\ seen' \in [Tasks -> Statuses \cup {None}] /\ stamp' \in [Tasks -> 0..MaxClock]
  BY DEF Sound, TypeOK, storeVars
<1>8. step \in (Working \cup Ended) \ TxSteps BY <1>3 DEF Ended, TxSteps, Working, DataSteps
<1>9. job[t] \notin TxSteps \cup {"none"} BY DEF TxSteps
<1> QED BY <1>1, <1>5, <1>6, <1>7, <1>8, <1>9, QuietWorker DEF storeVars

LEMMA DisconnectKeeps == ASSUME Sound, NEW t \in Tasks, Disconnect(t) PROVE Sound'
<1> USE DEF Disconnect
<1>1. ~closed[Home[t]] /\ call[t].op = "close"
  BY DEF Sound, ClosedLetsGo, Phases, Phase, Working, CloseSteps
<1>2. job'[t] = "seal" /\ \A u \in Tasks \ {t} : job'[u] = job[u] BY DEF Goes, Sound, TypeOK
<1>3. Phase(t)' BY <1>1, <1>2 DEF Phase, TxSteps, CloseSteps
<1>4. /\ connection' \in [Stores -> {"none", "open", "unusable"}]
      /\ \A s \in Stores \ {Home[t]} : connection'[s] = connection[s]
      /\ closed' \in [Stores -> BOOLEAN]
      /\ seen' \in [Tasks -> Statuses \cup {None}] /\ stamp' \in [Tasks -> 0..MaxClock]
  BY DEF Sound, TypeOK
<1>5. ClosedLetsGo' BY <1>1, <1>2, <1>4 DEF ClosedLetsGo, Sound
<1>6. "seal" \in (Working \cup Ended) \ TxSteps /\ job[t] \notin TxSteps \cup {"none"}
  BY DEF Working, CloseSteps, TxSteps
<1> QED BY <1>3, <1>4, <1>5, <1>6, QuietWorker

LEMMA SealKeeps == ASSUME Sound, NEW t \in Tasks, Seal(t) PROVE Sound'
<1> USE DEF Seal
<1>1. call[t].op = "close" BY DEF Sound, Phases, Phase, CloseSteps
<1>2. /\ job'[t] = "done" /\ \A u \in Tasks \ {t} : job'[u] = job[u]
      /\ \A u \in Tasks \ {t} : Home[u] = Home[t] => job[u] = "none"
  <2>1. "done" \in Working \cup Ended BY DEF Ended
  <2> QED BY <2>1, WorkerFrame
<1>3. Phase(t)' BY <1>1, <1>2 DEF Phase, TxSteps, CloseSteps, Durable
<1>4. /\ connection' \in [Stores -> {"none", "open", "unusable"}]
      /\ closed' \in [Stores -> BOOLEAN]
      /\ seen' \in [Tasks -> Statuses \cup {None}] /\ stamp' \in [Tasks -> 0..MaxClock]
  BY DEF Sound, TypeOK
<1>5. ClosedLetsGo'
  <2>1. \A s \in Stores : closed'[s] => connection'[s] = "none"
    BY DEF Sound, TypeOK, ClosedLetsGo
  <2>2. \A u \in Tasks : job'[u] \in Working \cup {"initialized"} => u # t /\ Home[u] # Home[t]
    BY <1>2 DEF Working, DataSteps, TxSteps, CloseSteps
  <2>3. \A s \in Stores : s # Home[t] => closed'[s] = closed[s] BY DEF Sound, TypeOK
  <2>4. \A u \in Tasks : Home[u] \in Stores BY StoreAssumption
  <2> QED BY <1>2, <2>1, <2>2, <2>3, <2>4 DEF Sound, ClosedLetsGo
<1>6. "done" \in (Working \cup Ended) \ TxSteps /\ job[t] \notin TxSteps \cup {"none"}
  BY DEF Ended, TxSteps
<1> QED BY <1>3, <1>4, <1>5, <1>6, QuietWorker

-----------------------------------------------------------------------------
(* Steps that write the file.                                               *)

\* An event is added to a timeline.
LEMMA EventAdded ==
  ASSUME NEW q \in Seq(Events), NEW e \in Events
  PROVE  /\ Append(q, e) \in Seq(Events) /\ Append(q, e) # <<>>
         /\ DOMAIN Append(q, e) = DOMAIN q \cup {Len(q) + 1}
         /\ \A n \in DOMAIN q : Append(q, e)[n] = q[n]
         /\ \A n \in DOMAIN q : n < Len(q) + 1
         /\ Append(q, e)[Len(q) + 1] = e
         /\ \A kind : Has(Append(q, e), kind) <=> e.kind = kind \/ Has(q, kind)
<1> DEFINE h == Append(q, e)
<1>1. h \in Seq(Events) /\ Len(h) = Len(q) + 1 /\ h # <<>> BY AppendProperties
<1>2. h[Len(q) + 1] = e /\ \A n \in 1..Len(q) : h[n] = q[n] OBVIOUS
<1>3. DOMAIN h = 1..(Len(q) + 1) /\ DOMAIN q = 1..Len(q) /\ Len(q) \in Nat BY <1>1
<1> HIDE DEF h
<1>4. DOMAIN h = DOMAIN q \cup {Len(q) + 1} /\ \A n \in DOMAIN q : n < Len(q) + 1 BY <1>3
<1>5. \A kind : Has(h, kind) <=> e.kind = kind \/ Has(q, kind)
  BY <1>2, <1>3, <1>4 DEF Has
<1> QED BY <1>1, <1>2, <1>3, <1>4, <1>5 DEF h

\* Only the task that holds the journal is in a transaction.
LEMMA OneWriter ==
  ASSUME Sound, NEW t \in Tasks, job[t] \in TxSteps \/ journal = None
  PROVE  /\ \A u \in Tasks \ {t} : job[u] \notin TxSteps
         /\ job[t] \in TxSteps =>
              /\ journal # None /\ journal.by = t /\ journal \in Journals
              /\ VisibleStatus = journal.status /\ VisibleLog = journal.log
         /\ journal = None => VisibleStatus = status /\ VisibleLog = log /\ job[t] \notin TxSteps
BY DEF Sound, TypeOK, Transaction, VisibleStatus, VisibleLog

\* A worker in a step of the file: what its call is about.
LEMMA WriterCall ==
  ASSUME Sound, NEW t \in Tasks, job[t] \in TxSteps \cup {"begin", "insert"}
  PROVE  /\ call[t] \in Calls /\ call[t].issue \in Issues /\ ~closed[Home[t]]
         /\ job[t] # "insert" => call[t].op \in {"open_issue", "close_issue"}
         /\ stamp[t] \in 0..MaxClock
<1>1. call[t] \in Calls BY DEF Sound, Locks, TxSteps
<1>2. call[t].op \in Writes BY DEF Sound, Phases, Phase, TxSteps, Writes
<1>3. ~closed[Home[t]] BY DEF Sound, ClosedLetsGo, Working, DataSteps
<1>4. job[t] # "insert" => call[t].op \in {"open_issue", "close_issue"}
  BY DEF Sound, Phases, Phase, TxSteps
<1> QED BY <1>1, <1>2, <1>3, <1>4, CallTyped DEF IssueOps, Sound, TypeOK

LEMMA InsertKeeps == ASSUME Sound, NEW t \in Tasks, Insert(t) PROVE Sound'
<1> USE DEF Insert
<1> DEFINE i == call[t].issue
           e == [kind |-> "note", at |-> stamp[t]]
<1>1. /\ i \in Issues /\ ~closed[Home[t]] /\ stamp[t] \in 0..MaxClock
      /\ call[t].op = "append_event" /\ status[i] # "absent"
      /\ VisibleStatus = status /\ VisibleLog = log
      /\ \A u \in Tasks : job[u] \notin TxSteps
  BY WriterCall, OneWriter DEF Sound, Phases, Phase
<1>2. e \in Events BY <1>1 DEF Events, Kinds
<1>3. log \in [Issues -> Seq(Events)] /\ log' = [log EXCEPT ![i] = Append(@, e)]
  BY DEF Sound, TypeOK, AddEvent
<1>4. /\ log' \in [Issues -> Seq(Events)]
      /\ \A j \in Issues \ {i} : log'[j] = log[j]
      /\ Has(log'[i], "note")
      /\ Has(log'[i], "closed") <=> Has(log[i], "closed")
  <2>1. /\ log' \in [Issues -> Seq(Events)]
        /\ \A j \in Issues \ {i} : log'[j] = log[j]
        /\ \A kind : Has(log'[i], kind) <=> e.kind = kind \/ Has(log[i], kind)
    <3>1. log[i] \in Seq(Events) /\ log'[i] = Append(log[i], e) BY <1>1, <1>3
    <3>2. \A j \in Issues \ {i} : log'[j] = log[j] BY <1>3
    <3>3. log' \in [Issues -> Seq(Events)] BY <1>2, <1>3, <3>1, EventAdded
    <3> HIDE DEF e
    <3>4. \A kind : Has(Append(log[i], e), kind) <=> e.kind = kind \/ Has(log[i], kind)
      BY <1>2, <3>1, EventAdded
    <3> QED BY <3>1, <3>2, <3>3, <3>4
  <2>2. e.kind = "note" OBVIOUS
  <2> QED BY <2>1, <2>2
<1>5. VisibleStatus' = status /\ VisibleLog' = log' BY DEF VisibleStatus, VisibleLog
<1>6. Grows
  <2> SUFFICES ASSUME NEW j \in Issues
               PROVE  Has(log[j], "note") => Has(log'[j], "note")
    BY <1>1, <1>5 DEF Grows
  <2> QED BY <1>4
<1>7. Matches'
  <2> SUFFICES ASSUME NEW j \in Issues
               PROVE  /\ status[j] = "absent" => log'[j] = <<>>
                      /\ status[j] = "closed" <=> Has(log'[j], "closed")
    BY <1>5 DEF Matches
  <2>1. /\ status[j] = "absent" => log[j] = <<>>
        /\ status[j] = "closed" <=> Has(log[j], "closed")
    BY <1>1 DEF Matches, Sound
  <2> QED BY <1>1, <1>4, <2>1
<1>8. job'[t] = "harden" /\ \A u \in Tasks \ {t} : job'[u] = job[u] BY DEF Goes, Sound, TypeOK
<1>9. Transaction' BY <1>1, <1>8 DEF Transaction, TxSteps
<1>10. Phase(t)' BY <1>1, <1>4, <1>5, <1>8 DEF Phase, TxSteps, CloseSteps, Durable
<1>11. ClosedLetsGo' BY <1>1, <1>8 DEF ClosedLetsGo, Sound, storeVars
<1>12. /\ connection' \in [Stores -> {"none", "open", "unusable"}] /\ closed' \in [Stores -> BOOLEAN]
       /\ seen' \in [Tasks -> Statuses \cup {None}] /\ stamp' \in [Tasks -> 0..MaxClock]
       /\ status' \in [Issues -> Statuses] /\ journal' = None
  BY DEF Sound, TypeOK, storeVars
<1>13. "harden" \in Working \cup Ended BY DEF Working
<1> QED BY <1>4, <1>6, <1>7, <1>9, <1>10, <1>11, <1>12, <1>13, WorkerKeeps DEF storeVars

LEMMA BeginKeeps == ASSUME Sound, NEW t \in Tasks, Begin(t) PROVE Sound'
<1> USE DEF Begin
<1>1. /\ ~closed[Home[t]] /\ call[t].op \in {"open_issue", "close_issue"}
      /\ VisibleStatus = status /\ VisibleLog = log
      /\ \A u \in Tasks : job[u] \notin TxSteps
  BY WriterCall, OneWriter
<1>2. journal' \in Journals /\ journal'.by = t /\ journal'.status = status /\ journal'.log = log
  BY DEF Saved, Journals, Sound, TypeOK
<1>3. journal' # None BY <1>2, NoneAssumption
<1>4. UNCHANGED <<VisibleStatus, VisibleLog>> BY <1>1, <1>2, <1>3 DEF VisibleStatus, VisibleLog
<1>5. Grows BY <1>4 DEF Grows
<1>6. Matches' BY <1>4 DEF Matches, Sound
<1>7. job'[t] = "row" /\ \A u \in Tasks \ {t} : job'[u] = job[u] BY DEF Goes, Sound, TypeOK
<1>8. Transaction' BY <1>1, <1>2, <1>3, <1>7 DEF Transaction, TxSteps
<1>9. Phase(t)' BY <1>1, <1>7 DEF Phase, TxSteps, CloseSteps
<1>10. ClosedLetsGo' BY <1>1, <1>7 DEF ClosedLetsGo, Sound, storeVars
<1>11. /\ connection' \in [Stores -> {"none", "open", "unusable"}] /\ closed' \in [Stores -> BOOLEAN]
       /\ seen' \in [Tasks -> Statuses \cup {None}] /\ stamp' \in [Tasks -> 0..MaxClock]
       /\ status' \in [Issues -> Statuses] /\ log' \in [Issues -> Seq(Events)]
       /\ job'[journal'.by] \in TxSteps
  BY <1>2, <1>7 DEF Sound, TypeOK, storeVars, TxSteps
<1>12. "row" \in Working \cup Ended BY DEF Working, DataSteps, TxSteps
<1> QED BY <1>2, <1>5, <1>6, <1>8, <1>9, <1>10, <1>11, <1>12, WorkerKeeps DEF storeVars

\* A step inside a transaction that goes on: nobody else sees anything of it.
LEMMA TxStepKeeps ==
  ASSUME Sound, NEW t \in Tasks, job[t] \in TxSteps, NEW step \in TxSteps, Goes(t, step),
         UNCHANGED <<journal, storeVars, pc, call, cancelled, seen, stamp, clock, acked>>,
         status' \in [Issues -> Statuses], log' \in [Issues -> Seq(Events)],
         step # "row",
         step = "event" => log' = journal.log,
         /\ status' = [journal.status EXCEPT ![call[t].issue] = NewStatus(t)]
         /\ call[t].op = "open_issue" => journal.status[call[t].issue] = "absent",
         step = "commit" => log' = [journal.log EXCEPT ![call[t].issue] = Append(@, NewEvent(t))]
  PROVE  Sound'
<1>1. /\ ~closed[Home[t]] /\ call[t].op \in {"open_issue", "close_issue"}
      /\ journal # None /\ journal.by = t /\ journal \in Journals
      /\ \A u \in Tasks \ {t} : job[u] \notin TxSteps
  BY WriterCall, OneWriter DEF TxSteps
<1>2. UNCHANGED <<VisibleStatus, VisibleLog>> BY <1>1 DEF VisibleStatus, VisibleLog
<1>3. Grows BY <1>2 DEF Grows
<1>4. Matches' BY <1>2 DEF Matches, Sound
<1>5. job'[t] = step /\ \A u \in Tasks \ {t} : job'[u] = job[u] BY DEF Goes, Sound, TypeOK
<1>6. Transaction'
  <2> SUFFICES ASSUME NEW u \in Tasks, job'[u] \in TxSteps
               PROVE  /\ journal' # None /\ journal'.by = u
                      /\ job'[u] = "row" => status' = journal'.status
                      /\ job'[u] \in {"row", "event"} => log' = journal'.log
                      /\ job'[u] \in {"event", "commit"} =>
                           /\ status' = [journal'.status EXCEPT ![call'[u].issue] = NewStatus(u)']
                           /\ call'[u].op = "open_issue" =>
                                journal'.status[call'[u].issue] = "absent"
                      /\ job'[u] = "commit" =>
                           log' = [journal'.log EXCEPT ![call'[u].issue] = Append(@, NewEvent(u)')]
    BY DEF Transaction, TxSteps
  <2>1. u = t BY <1>1, <1>5
  <2> QED BY <1>1, <1>5, <2>1 DEF NewStatus, NewEvent
<1>7. Phase(t)' BY <1>1, <1>5 DEF Phase, TxSteps, CloseSteps
<1>8. ClosedLetsGo' BY <1>1, <1>5 DEF ClosedLetsGo, Sound, storeVars
<1>9. /\ connection' \in [Stores -> {"none", "open", "unusable"}] /\ closed' \in [Stores -> BOOLEAN]
      /\ seen' \in [Tasks -> Statuses \cup {None}] /\ stamp' \in [Tasks -> 0..MaxClock]
      /\ journal' \in Journals /\ job'[journal'.by] \in TxSteps
  BY <1>1, <1>5 DEF Sound, TypeOK, storeVars
<1>10. step \in Working \cup Ended /\ job[t] # "none" BY DEF Working, DataSteps, TxSteps
<1> QED BY <1>3, <1>4, <1>6, <1>7, <1>8, <1>9, <1>10, WorkerKeeps DEF storeVars

LEMMA WriteRowKeeps == ASSUME Sound, NEW t \in Tasks, WriteRow(t) PROVE Sound'
<1> USE DEF WriteRow
<1>1. job[t] \in TxSteps /\ call[t].issue \in Issues BY WriterCall DEF TxSteps
<1>2. status = journal.status /\ log = journal.log BY DEF Sound, Transaction
<1>3. status' = [journal.status EXCEPT ![call[t].issue] = NewStatus(t)] BY <1>2 DEF NewStatus
<1>4. status' \in [Issues -> Statuses] BY DEF Sound, TypeOK, Statuses
<1>5. log' \in [Issues -> Seq(Events)] /\ log' = journal.log BY <1>2 DEF Sound, TypeOK
<1>6. "event" \in TxSteps BY DEF TxSteps
<1> QED BY <1>1, <1>2, <1>3, <1>4, <1>5, <1>6, TxStepKeeps

LEMMA WriteEventKeeps == ASSUME Sound, NEW t \in Tasks, WriteEvent(t) PROVE Sound'
<1> USE DEF WriteEvent
<1>1. /\ job[t] \in TxSteps /\ call[t].issue \in Issues /\ stamp[t] \in 0..MaxClock
      /\ call[t].op \in {"open_issue", "close_issue"}
  BY WriterCall DEF TxSteps
<1>2. /\ log = journal.log
      /\ status = [journal.status EXCEPT ![call[t].issue] = NewStatus(t)]
      /\ call[t].op = "open_issue" => journal.status[call[t].issue] = "absent"
  BY DEF Sound, Transaction
<1>3. log' = [journal.log EXCEPT ![call[t].issue] = Append(@, NewEvent(t))]
  BY <1>2 DEF AddEvent, NewEvent
<1>4. log' \in [Issues -> Seq(Events)]
  <2>1. NewEvent(t) \in Events BY <1>1 DEF NewEvent, Events, Kinds
  <2>2. log \in [Issues -> Seq(Events)] BY DEF Sound, TypeOK
  <2> QED BY <1>1, <1>2, <1>3, <2>1, <2>2, EventAdded
<1>5. status' \in [Issues -> Statuses] BY DEF Sound, TypeOK
<1>6. "commit" \in TxSteps BY DEF TxSteps
<1>7. Goes(t, "commit") BY DEF AfterEvent
<1> QED BY <1>1, <1>2, <1>3, <1>4, <1>5, <1>6, <1>7, TxStepKeeps

\* What others see of a committed transaction.
LEMMA CommitSeen ==
  ASSUME Sound, NEW t \in Tasks, Commit(t)
  PROVE  LET i == call[t].issue IN
         /\ i \in Issues /\ call[t].op \in {"open_issue", "close_issue"}
         /\ call[t].op = "open_issue" => VisibleStatus[i] = "absent"
         /\ VisibleStatus' = [VisibleStatus EXCEPT ![i] = NewStatus(t)]
         /\ VisibleLog' = [VisibleLog EXCEPT ![i] = Append(@, NewEvent(t))]
         /\ VisibleStatus \in [Issues -> Statuses] /\ VisibleLog \in [Issues -> Seq(Events)]
         /\ NewEvent(t) \in Events
<1> USE DEF Commit
<1>1. job[t] \in TxSteps BY DEF TxSteps
<1>2. /\ call[t].issue \in Issues /\ stamp[t] \in 0..MaxClock
      /\ call[t].op \in {"open_issue", "close_issue"}
  BY <1>1, WriterCall DEF TxSteps
<1>3. VisibleStatus = journal.status /\ VisibleLog = journal.log BY <1>1, OneWriter
<1>4. VisibleStatus' = status /\ VisibleLog' = log BY DEF VisibleStatus, VisibleLog
<1>5. NewEvent(t) \in Events BY <1>2 DEF NewEvent, Events, Kinds
<1> QED BY <1>2, <1>3, <1>4, <1>5, FileTyped DEF Sound, Transaction

LEMMA CommitKeeps == ASSUME Sound, NEW t \in Tasks, Commit(t) PROVE Sound'
<1> USE DEF Commit
<1> DEFINE i == call[t].issue
<1>1. /\ ~closed[Home[t]] /\ \A u \in Tasks \ {t} : job[u] \notin TxSteps
  BY WriterCall, OneWriter DEF TxSteps
<1>2. /\ i \in Issues /\ call[t].op \in {"open_issue", "close_issue"}
      /\ call[t].op = "open_issue" => VisibleStatus[i] = "absent"
      /\ VisibleStatus'[i] = NewStatus(t)
      /\ \A j \in Issues \ {i} : VisibleStatus'[j] = VisibleStatus[j]
  BY CommitSeen
<1>3. /\ \A j \in Issues \ {i} : VisibleLog'[j] = VisibleLog[j]
      /\ \A kind : Has(VisibleLog'[i], kind)
                     <=> NewEvent(t).kind = kind \/ Has(VisibleLog[i], kind)
  <2>1. /\ VisibleLog \in [Issues -> Seq(Events)] /\ NewEvent(t) \in Events
        /\ VisibleLog' = [VisibleLog EXCEPT ![i] = Append(@, NewEvent(t))]
    BY CommitSeen
  <2>2. VisibleLog[i] \in Seq(Events) /\ VisibleLog'[i] = Append(VisibleLog[i], NewEvent(t))
    BY <1>2, <2>1
  <2>3. \A kind : Has(Append(VisibleLog[i], NewEvent(t)), kind)
                    <=> NewEvent(t).kind = kind \/ Has(VisibleLog[i], kind)
    BY <2>1, <2>2, EventAdded
  <2> QED BY <2>1, <2>2, <2>3
<1>4. Grows BY <1>2, <1>3 DEF Grows, NewStatus
<1>5. Matches'
  <2>1. NewStatus(t) # "absent" BY DEF NewStatus
  <2>2. NewStatus(t) = "closed" <=> NewEvent(t).kind = "closed" BY DEF NewStatus, NewEvent
  <2>3. NewStatus(t) = "open" => VisibleStatus[i] = "absent" BY <1>2 DEF NewStatus
  <2>4. Matches BY DEF Sound
  <2>5. NewStatus(t) \in {"open", "closed"} BY DEF NewStatus
  <2> QED BY <1>2, <1>3, <2>1, <2>2, <2>3, <2>4, <2>5 DEF Matches
<1>6. job'[t] = "harden" /\ \A u \in Tasks \ {t} : job'[u] = job[u] BY DEF Goes, Sound, TypeOK
<1>7. Transaction' BY <1>1, <1>6 DEF Transaction, TxSteps
<1>8. Phase(t)' BY <1>2, <1>6 DEF Phase, TxSteps, CloseSteps, Durable, NewStatus
<1>9. ClosedLetsGo' BY <1>1, <1>6 DEF ClosedLetsGo, Sound, storeVars
<1>10. /\ connection' \in [Stores -> {"none", "open", "unusable"}] /\ closed' \in [Stores -> BOOLEAN]
       /\ seen' \in [Tasks -> Statuses \cup {None}] /\ stamp' \in [Tasks -> 0..MaxClock]
       /\ status' \in [Issues -> Statuses] /\ log' \in [Issues -> Seq(Events)] /\ journal' = None
  BY DEF Sound, TypeOK, storeVars
<1>11. "harden" \in Working \cup Ended BY DEF Working
<1> QED BY <1>4, <1>5, <1>7, <1>8, <1>9, <1>10, <1>11, WorkerKeeps DEF storeVars

\* A transaction is undone: others see what they saw, and nobody is in one.
LEMMA RollbackSeen ==
  ASSUME Sound, NEW ts, journal # None, journal.by \in ts, Rollback(ts)
  PROVE  /\ UNCHANGED <<VisibleStatus, VisibleLog>> /\ journal' = None
         /\ status' \in [Issues -> Statuses] /\ log' \in [Issues -> Seq(Events)]
         /\ journal.by \in Tasks
         /\ \A u \in Tasks : u # journal.by => job[u] \notin TxSteps
<1>1. journal \in Journals BY DEF Sound, TypeOK
<1>2. status' = journal.status /\ log' = journal.log /\ journal' = None BY DEF Rollback
<1>3. UNCHANGED <<VisibleStatus, VisibleLog>> BY <1>2 DEF VisibleStatus, VisibleLog
<1>4. \A u \in Tasks : u # journal.by => job[u] \notin TxSteps BY DEF Sound, Transaction
<1> QED BY <1>1, <1>2, <1>3, <1>4 DEF Journals

LEMMA FailKeeps == ASSUME Sound, NEW t \in Tasks, Fail(t) PROVE Sound'
<1> USE DEF Fail
<1>1. job'[t] = "failed" /\ \A u \in Tasks \ {t} : job'[u] = job[u] BY DEF Goes, Sound, TypeOK
<1>2. Phase(t)' BY <1>1 DEF Phase, TxSteps, CloseSteps
<1>3. "failed" \notin Working \cup {"initialized"} /\ "failed" \in (Working \cup Ended) \ TxSteps
      /\ job[t] # "none"
  BY DEF Working, DataSteps, TxSteps, CloseSteps, Ended
<1>4. ClosedLetsGo' BY <1>1, <1>3 DEF ClosedLetsGo, Sound, storeVars
<1>5. /\ connection' \in [Stores -> {"none", "open", "unusable"}] /\ closed' \in [Stores -> BOOLEAN]
      /\ seen' \in [Tasks -> Statuses \cup {None}] /\ stamp' \in [Tasks -> 0..MaxClock]
  BY DEF Sound, TypeOK, storeVars
<1>6. CASE journal # None /\ journal.by = t
  <2>1. /\ UNCHANGED <<VisibleStatus, VisibleLog>> /\ journal' = None
        /\ status' \in [Issues -> Statuses] /\ log' \in [Issues -> Seq(Events)]
        /\ \A u \in Tasks : u # t => job[u] \notin TxSteps
    BY <1>6, RollbackSeen
  <2>2. Grows BY <2>1 DEF Grows
  <2>3. Matches' BY <2>1 DEF Matches, Sound
  <2>4. Transaction' BY <1>1, <1>3, <2>1 DEF Transaction, TxSteps
  <2> QED BY <1>2, <1>3, <1>4, <1>5, <2>1, <2>2, <2>3, <2>4, WorkerKeeps DEF storeVars
<1>7. CASE ~(journal # None /\ journal.by = t)
  <2>1. UNCHANGED fileVars BY <1>7 DEF Rollback
  <2>2. job[t] \notin TxSteps BY <1>7 DEF Sound, Transaction
  <2> QED BY <1>2, <1>3, <1>4, <1>5, <2>1, <2>2, QuietWorker DEF storeVars
<1> QED BY <1>6, <1>7

\* A process dies: of its tasks nothing is left, the others go on.
LEMMA CrashKeeps == ASSUME Sound, NEW s \in Stores, Crash(s) PROVE Sound'
<1> DEFINE lost == {t \in Tasks : Home[t] = s}
<1>1. /\ Rollback(lost)
      /\ connection' = [connection EXCEPT ![s] = "none"]
      /\ closed' = [closed EXCEPT ![s] = FALSE]
      /\ waiters' = [waiters EXCEPT ![s] = <<>>]
      /\ \A t \in lost : /\ pc'[t] = "idle" /\ job'[t] = "none"
      /\ \A t \in Tasks \ lost : /\ pc'[t] = pc[t] /\ job'[t] = job[t]
                                 /\ call'[t] = call[t] /\ stamp'[t] = stamp[t]
      /\ UNCHANGED <<clock, acked>>
  BY DEF Crash
<1>2. /\ pc' \in [Tasks -> {"idle", "queued", "running"}]
      /\ call' \in [Tasks -> Calls \cup {None}]
      /\ cancelled' \in [Tasks -> BOOLEAN]
      /\ job' \in [Tasks -> Working \cup Ended \cup {"none"}]
      /\ seen' \in [Tasks -> Statuses \cup {None}]
      /\ stamp' \in [Tasks -> 0..MaxClock]
  <2>1. 0 \in 0..MaxClock BY StoreAssumption
  <2> QED BY <2>1 DEF Crash, Sound, TypeOK
<1>3. /\ connection' \in [Stores -> {"none", "open", "unusable"}] /\ closed' \in [Stores -> BOOLEAN]
      /\ waiters' \in [Stores -> Seq(Tasks)] /\ clock' \in 0..MaxClock /\ acked' \subseteq Calls
      /\ connection'[s] = "none" /\ ~closed'[s]
      /\ \A r \in Stores \ {s} : connection'[r] = connection[r] /\ closed'[r] = closed[r]
                                 /\ waiters'[r] = waiters[r]
  BY <1>1 DEF Sound, TypeOK
<1> HIDE DEF lost
<1>4. \A t \in Tasks : t \notin lost => Home[t] \in Stores \ {s} BY StoreAssumption DEF lost
<1>5. Locks' BY <1>1, <1>3, <1>4 DEF Locks, Sound
<1>6. ClosedLetsGo'
  <2>1. "none" \notin Working \cup {"initialized"}
    BY DEF Working, DataSteps, TxSteps, CloseSteps
  <2> QED BY <1>1, <1>3, <1>4, <2>1 DEF ClosedLetsGo, Sound
<1>7. /\ UNCHANGED <<VisibleStatus, VisibleLog>> /\ Transaction'
      /\ status' \in [Issues -> Statuses] /\ log' \in [Issues -> Seq(Events)]
      /\ journal' # None => journal' \in Journals /\ job'[journal'.by] \in TxSteps
  <2>1. CASE journal # None /\ journal.by \in lost
    <3>1. /\ UNCHANGED <<VisibleStatus, VisibleLog>> /\ journal' = None
          /\ status' \in [Issues -> Statuses] /\ log' \in [Issues -> Seq(Events)]
          /\ \A u \in Tasks : u # journal.by => job[u] \notin TxSteps
      BY <1>1, <2>1, RollbackSeen
    <3>2. \A u \in Tasks : job'[u] \notin TxSteps BY <1>1, <2>1, <3>1 DEF TxSteps
    <3> QED BY <3>1, <3>2 DEF Transaction, TxSteps
  <2>2. CASE ~(journal # None /\ journal.by \in lost)
    <3>1. UNCHANGED fileVars BY <1>1, <2>2 DEF Rollback
    <3>2. \A u \in Tasks : u \in lost => job[u] \notin TxSteps /\ job'[u] \notin TxSteps
      BY <1>1, <2>2 DEF Sound, Transaction, TxSteps
    <3>3. Transaction'
      <4> SUFFICES ASSUME NEW u \in Tasks, job'[u] \in TxSteps
                   PROVE  /\ journal' # None /\ journal'.by = u
                          /\ job'[u] = "row" => status' = journal'.status
                          /\ job'[u] \in {"row", "event"} => log' = journal'.log
                          /\ job'[u] \in {"event", "commit"} =>
                               /\ status' = [journal'.status EXCEPT ![call'[u].issue] = NewStatus(u)']
                               /\ call'[u].op = "open_issue" =>
                                    journal'.status[call'[u].issue] = "absent"
                          /\ job'[u] = "commit" =>
                               log' = [journal'.log EXCEPT ![call'[u].issue] = Append(@, NewEvent(u)')]
        BY DEF Transaction, TxSteps
      <4>1. job'[u] = job[u] /\ call'[u] = call[u] /\ stamp'[u] = stamp[u] BY <1>1, <3>2
      <4> QED BY <3>1, <4>1 DEF Sound, Transaction, fileVars, NewStatus, NewEvent, TxSteps
    <3>4. journal' # None => journal' \in Journals /\ job'[journal'.by] \in TxSteps
      <4> SUFFICES ASSUME journal' # None
                   PROVE  journal' \in Journals /\ job'[journal'.by] \in TxSteps
        OBVIOUS
      <4>1. journal' = journal /\ journal \in Journals /\ job[journal.by] \in TxSteps
        BY <3>1 DEF Sound, TypeOK, fileVars
      <4>2. journal.by \in Tasks /\ journal.by \notin lost BY <2>2, <3>1, <4>1 DEF Journals, fileVars
      <4> QED BY <1>1, <4>1, <4>2
    <3> QED BY <3>1, <3>3, <3>4, FileSame DEF Sound, TypeOK, fileVars
  <2> QED BY <2>1, <2>2
<1>8. Grows BY <1>7 DEF Grows
<1>9. Matches' BY <1>7 DEF Matches, Sound
<1>10. Phases'
  <2> SUFFICES ASSUME NEW u \in Tasks PROVE Phase(u)' BY DEF Phases
  <2>1. CASE u \in lost BY <1>1, <2>1 DEF Phase, TxSteps, CloseSteps
  <2>2. CASE u \notin lost
    <3>1. job'[u] = job[u] /\ call'[u] = call[u] BY <1>1, <2>2
    <3>2. Phase(u) BY DEF Sound, Phases
    <3> QED BY <1>7, <3>1, <3>2 DEF Phase, Durable
  <2> QED BY <2>1, <2>2
<1>11. AckedIsDurable' BY <1>1, <1>8, AckedKeep
<1>12. TypeOK' BY <1>2, <1>3, <1>7 DEF TypeOK
<1> QED BY <1>5, <1>6, <1>7, <1>9, <1>10, <1>11, <1>12 DEF Sound

-----------------------------------------------------------------------------
(* The callers.                                                             *)

\* A task calls, gets the lock, or ends its call.
LEMMA CallerKeeps ==
  ASSUME Sound, NEW t \in Tasks, job[t] \notin TxSteps, job'[t] \notin TxSteps,
         UNCHANGED fileVars, UNCHANGED <<connection, closed, clock>>,
         \A u \in Tasks \ {t} : job'[u] = job[u] /\ call'[u] = call[u] /\ stamp'[u] = stamp[u],
         waiters' \in [Stores -> Seq(Tasks)],
         pc' \in [Tasks -> {"idle", "queued", "running"}],
         call' \in [Tasks -> Calls \cup {None}],
         cancelled' \in [Tasks -> BOOLEAN],
         job' \in [Tasks -> Working \cup Ended \cup {"none"}],
         seen' \in [Tasks -> Statuses \cup {None}],
         stamp' \in [Tasks -> 0..MaxClock],
         acked' \subseteq Calls, AckedIsDurable',
         job'[t] \in Working \cup {"initialized"} => ~closed[Home[t]],
         Phase(t)', Locks'
  PROVE  Sound'
<1>1. /\ Transaction' /\ Matches' /\ Grows
      /\ journal' # None => journal' \in Journals /\ job'[journal'.by] \in TxSteps
  BY TransactionElsewhere
<1>2. Phases'
  <2>1. \A u \in Tasks \ {t} : job'[u] = job[u] /\ call'[u] = call[u] OBVIOUS
  <2> QED BY <1>1, <2>1, OthersKeep
<1>3. ClosedLetsGo' BY DEF ClosedLetsGo, Sound
<1>4. TypeOK' BY <1>1 DEF TypeOK, Sound, fileVars
<1> QED BY <1>1, <1>2, <1>3, <1>4 DEF Sound

\* Durable calls stay so while the file is left alone.
LEMMA AckedQuiet ==
  ASSUME Sound, UNCHANGED fileVars, UNCHANGED acked
  PROVE  acked' \subseteq Calls /\ AckedIsDurable'
BY FileSame, AckedKeep DEF Sound, TypeOK

LEMMA CallKeeps == ASSUME Sound, NEW t \in Tasks, Call(t) PROVE Sound'
<1> USE DEF Call
<1>1. PICK c \in Calls :
        /\ call' = [call EXCEPT ![t] = c]
        /\ stamp' = [stamp EXCEPT ![t] = IF c.op = "open_issue" THEN clock ELSE 0]
  OBVIOUS
<1>2. 0 \in 0..MaxClock BY StoreAssumption
<1>3. /\ call' \in [Tasks -> Calls \cup {None}] /\ call'[t] = c
      /\ \A u \in Tasks \ {t} : call'[u] = call[u] /\ stamp'[u] = stamp[u]
      /\ stamp' \in [Tasks -> 0..MaxClock]
  BY <1>1, <1>2 DEF Sound, TypeOK
<1>4. /\ pc' \in [Tasks -> {"idle", "queued", "running"}] /\ pc'[t] = "queued"
      /\ \A u \in Tasks \ {t} : pc'[u] = pc[u]
  BY DEF Sound, TypeOK
<1>5. Home[t] \in Stores BY StoreAssumption
<1>6. /\ waiters' \in [Stores -> Seq(Tasks)] /\ Waits(waiters'[Home[t]], t)
      /\ \A s \in Stores, u \in Tasks : Waits(waiters[s], u) => Waits(waiters'[s], u)
  <2>1. /\ Append(waiters[Home[t]], t) \in Seq(Tasks) /\ Waits(Append(waiters[Home[t]], t), t)
        /\ \A u : Waits(waiters[Home[t]], u) => Waits(Append(waiters[Home[t]], t), u)
    BY <1>5, QueueJoin DEF Sound, TypeOK
  <2>2. /\ waiters'[Home[t]] = Append(waiters[Home[t]], t)
        /\ \A s \in Stores \ {Home[t]} : waiters'[s] = waiters[s]
    BY <1>5 DEF Sound, TypeOK
  <2>3. waiters' \in [Stores -> Seq(Tasks)] BY <2>1 DEF Sound, TypeOK
  <2> QED BY <2>1, <2>2, <2>3
<1>7. Locks'
  <2>1. \A u \in Tasks : Home[u] \in Stores BY StoreAssumption
  <2> QED BY <1>3, <1>4, <1>6, <2>1 DEF Sound, Locks
<1>8. Phase(t)' BY DEF Phase, TxSteps, CloseSteps
<1>9. /\ job' \in [Tasks -> Working \cup Ended \cup {"none"}] /\ cancelled' \in [Tasks -> BOOLEAN]
      /\ seen' \in [Tasks -> Statuses \cup {None}]
      /\ job[t] \notin TxSteps /\ job'[t] \notin TxSteps
      /\ job'[t] \notin Working \cup {"initialized"}
      /\ \A u \in Tasks \ {t} : job'[u] = job[u]
  BY DEF Sound, TypeOK, TxSteps, Working, DataSteps, CloseSteps
<1> QED BY <1>3, <1>4, <1>6, <1>7, <1>8, <1>9, AckedQuiet, CallerKeeps

LEMMA AcquireKeeps == ASSUME Sound, NEW t \in Tasks, Acquire(t) PROVE Sound'
<1> USE DEF Acquire
<1> DEFINE s == Home[t]
           op == call[t].op
<1>1. s \in Stores /\ \A u \in Tasks : Home[u] \in Stores BY StoreAssumption
<1>2. call[t] \in Calls /\ Waits(waiters[s], t) /\ job[t] = "none" BY DEF Sound, Locks
<1>3. /\ waiters' \in [Stores -> Seq(Tasks)]
      /\ \A r \in Stores, u \in Tasks : u # t /\ Waits(waiters[r], u) => Waits(waiters'[r], u)
  <2>1. /\ Tail(waiters[s]) \in Seq(Tasks)
        /\ \A u : u # t /\ Waits(waiters[s], u) => Waits(Tail(waiters[s]), u)
    BY <1>1, <1>2, QueueTurn DEF Sound, TypeOK
  <2>2. /\ waiters'[s] = Tail(waiters[s])
        /\ \A r \in Stores \ {s} : waiters'[r] = waiters[r]
    BY <1>1 DEF Sound, TypeOK
  <2>3. waiters' \in [Stores -> Seq(Tasks)] BY <2>1 DEF Sound, TypeOK
  <2> QED BY <2>1, <2>2, <2>3
<1>4. /\ Started(t) \in {"done", "seal", "disconnect", "failed", "init", "begin", "read"}
      /\ Started(t) = "done" => op \in {"close", "initialize"}
      /\ Started(t) \in {"seal", "disconnect"} => op = "close" /\ ~closed[s]
      /\ Started(t) \in {"init", "begin", "read"} => ~closed[s]
      /\ Started(t) = "init" => op # "close"
      /\ Started(t) = "begin" => op = "open_issue"
      /\ Started(t) = "read" => op \in IssueOps \ {"open_issue"}
  BY <1>2, CallTyped DEF Started, FirstStep, Refuses
<1>5. /\ job' \in [Tasks -> Working \cup Ended \cup {"none"}] /\ job'[t] = Started(t)
      /\ \A u \in Tasks \ {t} : job'[u] = job[u]
  <2>1. Started(t) \in Working \cup Ended BY <1>4 DEF Working, DataSteps, CloseSteps, Ended
  <2> QED BY <2>1 DEF Sound, TypeOK
<1>6. /\ pc' \in [Tasks -> {"idle", "queued", "running"}] /\ pc'[t] = "running"
      /\ \A u \in Tasks \ {t} : pc'[u] = pc[u]
  BY DEF Sound, TypeOK
<1>7. Locks' BY <1>1, <1>2, <1>3, <1>4, <1>5, <1>6 DEF Sound, Locks
<1>8. Phase(t)' BY <1>4, <1>5 DEF Phase, TxSteps, CloseSteps, Durable
<1>9. /\ call' \in [Tasks -> Calls \cup {None}] /\ cancelled' \in [Tasks -> BOOLEAN]
      /\ seen' \in [Tasks -> Statuses \cup {None}] /\ stamp' \in [Tasks -> 0..MaxClock]
  BY DEF Sound, TypeOK
<1>10. job[t] \notin TxSteps /\ job'[t] \notin TxSteps BY <1>2, <1>4, <1>5 DEF TxSteps
<1>11. job'[t] \in Working \cup {"initialized"} => ~closed[Home[t]]
  <2>1. "done" \notin Working \cup {"initialized"} /\ "failed" \notin Working \cup {"initialized"}
    BY DEF Working, DataSteps, TxSteps, CloseSteps
  <2> QED BY <1>4, <1>5, <2>1
<1> QED BY <1>3, <1>5, <1>6, <1>7, <1>8, <1>9, <1>10, <1>11, AckedQuiet, CallerKeeps

LEMMA FinishKeeps == ASSUME Sound, NEW t \in Tasks, Finish(t) PROVE Sound'
<1> USE DEF Finish
<1>1. call[t] \in Calls /\ Phase(t) BY DEF Sound, Locks, Phases
<1>2. acked' \subseteq Calls /\ AckedIsDurable'
  <2>1. Grows /\ UNCHANGED <<VisibleStatus, VisibleLog>> BY FileSame
  <2>2. \A c \in acked : c \in Calls /\ Durable(c)'
    BY <2>1, DurableStays DEF Sound, TypeOK, AckedIsDurable, Durable, Has
  <2>3. job[t] = "done" => Durable(call[t]) BY <1>1 DEF Phase
  <2>4. \A c \in acked' : c \in Calls /\ Durable(c)' BY <1>1, <2>1, <2>2, <2>3 DEF Durable
  <2> QED BY <2>4 DEF AckedIsDurable, Durable, Has
<1>3. 0 \in 0..MaxClock BY StoreAssumption
<1>4. /\ call' \in [Tasks -> Calls \cup {None}] /\ cancelled' \in [Tasks -> BOOLEAN]
      /\ seen' \in [Tasks -> Statuses \cup {None}] /\ stamp' \in [Tasks -> 0..MaxClock]
      /\ pc' \in [Tasks -> {"idle", "queued", "running"}]
      /\ job' \in [Tasks -> Working \cup Ended \cup {"none"}]
      /\ waiters' \in [Stores -> Seq(Tasks)]
      /\ pc'[t] = "idle" /\ job'[t] = "none"
      /\ \A u \in Tasks \ {t} : /\ pc'[u] = pc[u] /\ job'[u] = job[u]
                                /\ call'[u] = call[u] /\ stamp'[u] = stamp[u]
  BY <1>3 DEF Sound, TypeOK, storeVars
<1>5. Locks' BY <1>4 DEF Sound, Locks, storeVars
<1>6. Phase(t)' BY <1>4 DEF Phase, TxSteps, CloseSteps
<1>7. /\ job[t] \notin TxSteps /\ job'[t] \notin TxSteps
      /\ job'[t] \notin Working \cup {"initialized"}
  BY <1>4 DEF WorkerEnded, TxSteps, Working, DataSteps, CloseSteps
<1> QED BY <1>2, <1>4, <1>5, <1>6, <1>7, CallerKeeps DEF storeVars

LEMMA CancelRunningKeeps == ASSUME Sound, NEW t \in Tasks, CancelRunning(t) PROVE Sound'
<1> USE DEF CancelRunning, Drains
<1>1. TypeOK' BY DEF Sound, TypeOK, fileVars, storeVars
<1>2. Locks' BY DEF Sound, Locks, storeVars
<1>3. UNCHANGED <<VisibleStatus, VisibleLog>> BY FileSame
<1>4. Phases' BY <1>3 DEF Sound, Phases, Phase, Durable
<1>5. Transaction' BY DEF Sound, Transaction, NewStatus, NewEvent, fileVars
<1>6. Matches' BY <1>3 DEF Sound, Matches
<1>7. ClosedLetsGo' BY DEF Sound, ClosedLetsGo, storeVars
<1> QED BY <1>1, <1>2, <1>4, <1>5, <1>6, <1>7, AckedQuiet DEF Sound

LEMMA CancelQueuedKeeps == ASSUME Sound, NEW t \in Tasks, CancelQueued(t) PROVE Sound'
<1> USE DEF CancelQueued
<1> DEFINE s == Home[t]
<1>1. s \in Stores /\ \A u \in Tasks : Home[u] \in Stores BY StoreAssumption
<1>2. job[t] = "none" BY DEF Sound, Locks, TypeOK
<1>3. PICK i \in DOMAIN waiters[s] :
        /\ waiters[s][i] = t
        /\ waiters' = [waiters EXCEPT ![s] = Without(waiters[s], i)]
  BY DEF Without
<1>4. /\ waiters' \in [Stores -> Seq(Tasks)]
      /\ \A r \in Stores, u \in Tasks : u # t /\ Waits(waiters[r], u) => Waits(waiters'[r], u)
  <2>1. /\ Without(waiters[s], i) \in Seq(Tasks)
        /\ \A u : u # t /\ Waits(waiters[s], u) => Waits(Without(waiters[s], i), u)
    BY <1>1, <1>3, QueueLeave DEF Sound, TypeOK
  <2>2. /\ waiters'[s] = Without(waiters[s], i)
        /\ \A r \in Stores \ {s} : waiters'[r] = waiters[r]
    BY <1>1, <1>3 DEF Sound, TypeOK
  <2>3. waiters' \in [Stores -> Seq(Tasks)] BY <1>3, <2>1 DEF Sound, TypeOK
  <2> QED BY <2>1, <2>2, <2>3
<1>5. 0 \in 0..MaxClock BY StoreAssumption
<1>6. /\ call' \in [Tasks -> Calls \cup {None}] /\ cancelled' \in [Tasks -> BOOLEAN]
      /\ seen' \in [Tasks -> Statuses \cup {None}] /\ stamp' \in [Tasks -> 0..MaxClock]
      /\ pc' \in [Tasks -> {"idle", "queued", "running"}]
      /\ job' \in [Tasks -> Working \cup Ended \cup {"none"}]
      /\ pc'[t] = "idle" /\ job' = job
      /\ \A u \in Tasks \ {t} : pc'[u] = pc[u] /\ call'[u] = call[u] /\ stamp'[u] = stamp[u]
  BY <1>5 DEF Sound, TypeOK
<1>7. Locks'
  <2>1. \A u \in Tasks : pc'[u] = "queued" => Waits(waiters'[Home[u]], u)
    BY <1>1, <1>4, <1>6 DEF Sound, Locks
  <2>2. \A u \in Tasks : pc'[u] = "running" <=> pc[u] = "running" BY <1>6
  <2>3. \A u \in Tasks : pc'[u] # "idle" => u # t BY <1>6
  <2> QED BY <2>1, <2>2, <2>3, <1>6 DEF Sound, Locks
<1>8. Phase(t)' BY <1>2, <1>6 DEF Phase, TxSteps, CloseSteps
<1>9. /\ job[t] \notin TxSteps /\ job'[t] \notin TxSteps
      /\ job'[t] \notin Working \cup {"initialized"}
  BY <1>2, <1>6 DEF TxSteps, Working, DataSteps, CloseSteps
<1> QED BY <1>4, <1>6, <1>7, <1>8, <1>9, AckedQuiet, CallerKeeps

LEMMA TickKeeps == ASSUME Sound, Tick PROVE Sound'
<1> USE DEF Tick
<1>1. clock' \in 0..MaxClock BY StoreAssumption DEF Sound, TypeOK
<1>2. TypeOK' BY <1>1 DEF Sound, TypeOK, fileVars, storeVars, taskVars
<1>3. Locks' BY DEF Sound, Locks, storeVars, taskVars
<1>4. UNCHANGED <<VisibleStatus, VisibleLog>> BY FileSame
<1>5. Phases' BY <1>4 DEF Sound, Phases, Phase, Durable, taskVars
<1>6. Transaction' BY DEF Sound, Transaction, NewStatus, NewEvent, fileVars, taskVars
<1>7. Matches' BY <1>4 DEF Sound, Matches
<1>8. ClosedLetsGo' BY DEF Sound, ClosedLetsGo, storeVars, taskVars
<1> QED BY <1>2, <1>3, <1>5, <1>6, <1>7, <1>8, AckedQuiet DEF Sound

LEMMA StutterKeeps == ASSUME Sound, UNCHANGED vars PROVE Sound'
<1> USE DEF vars, fileVars, storeVars, taskVars
<1>1. TypeOK' BY DEF Sound, TypeOK
<1>2. Locks' BY DEF Sound, Locks
<1>3. UNCHANGED <<VisibleStatus, VisibleLog>> BY FileSame
<1>4. Phases' BY <1>3 DEF Sound, Phases, Phase, Durable
<1>5. Transaction' BY DEF Sound, Transaction, NewStatus, NewEvent
<1>6. Matches' BY <1>3 DEF Sound, Matches
<1>7. ClosedLetsGo' BY DEF Sound, ClosedLetsGo
<1>8. AckedIsDurable' BY FileSame, AckedKeep
<1> QED BY <1>1, <1>2, <1>4, <1>5, <1>6, <1>7, <1>8 DEF Sound

LEMMA SoundInit == Init => Sound
<1> SUFFICES ASSUME Init PROVE Sound OBVIOUS
<1> USE DEF Init
<1>1. TypeOK
  <2>1. 0 \in 0..MaxClock BY StoreAssumption
  <2>2. log \in [Issues -> Seq(Events)] OBVIOUS
  <2>3. waiters \in [Stores -> Seq(Tasks)] OBVIOUS
  <2> QED BY <2>1, <2>2, <2>3 DEF TypeOK, Statuses
<1>2. Locks BY DEF Locks
<1>3. Phases BY DEF Phases, Phase, TxSteps, CloseSteps
<1>4. Transaction BY DEF Transaction, TxSteps
<1>5. Matches
  <2>1. VisibleStatus = status /\ VisibleLog = log BY DEF VisibleStatus, VisibleLog
  <2> QED BY <2>1 DEF Matches, Has
<1>6. ClosedLetsGo BY DEF ClosedLetsGo, Working, DataSteps, TxSteps, CloseSteps
<1> QED BY <1>1, <1>2, <1>3, <1>4, <1>5, <1>6 DEF Sound, AckedIsDurable

LEMMA SoundStep == Sound /\ [Next]_vars => Sound'
<1> SUFFICES ASSUME Sound, [Next]_vars PROVE Sound' OBVIOUS
<1>1. ASSUME NEW t \in Tasks, Caller(t) PROVE Sound'
  BY <1>1, CallKeeps, AcquireKeeps, ContinueKeeps, FinishKeeps, CancelRunningKeeps,
     CancelQueuedKeeps DEF Caller
<1>2. ASSUME NEW t \in Tasks, Worker(t) PROVE Sound'
  BY <1>2, InitializeKeeps, ReadKeeps, ReadEventsKeeps, InsertKeeps, BeginKeeps, WriteRowKeeps,
     WriteEventKeeps, CommitKeeps, HardenKeeps, DisconnectKeeps, SealKeeps, FailKeeps DEF Worker
<1>3. ASSUME NEW s \in Stores, Crash(s) PROVE Sound' BY <1>3, CrashKeeps
<1>4. CASE Tick BY <1>4, TickKeeps
<1>5. CASE UNCHANGED vars BY <1>5, StutterKeeps
<1> QED BY <1>1, <1>2, <1>3, <1>4, <1>5 DEF Next

LEMMA SoundHolds == Spec => []Sound
BY SoundInit, SoundStep, PTL DEF Spec

-----------------------------------------------------------------------------
(* What holds however many processes share the file.                        *)

\* Every variable keeps its type; the journal is that of a task in a transaction.
THEOREM TypeCorrect == Spec => []TypeOK
<1>1. Sound => TypeOK BY DEF Sound
<1> QED BY <1>1, SoundHolds, PTL

\* _operation_lock and _drain_task_on_cancellation: at most one worker of a store
\* runs, cancelled calls included.
THEOREM MutualExclusion == Spec => []OneWorker
<1>1. Sound => OneWorker BY DEF Sound, Locks, OneWorker
<1> QED BY <1>1, SoundHolds, PTL

\* What a caller was told is done stays in the file, across failures of later
\* statements, rollbacks, other processes and crashes.
THEOREM Durability == Spec => []AckedIsDurable
<1>1. Sound => AckedIsDurable BY DEF Sound
<1> QED BY <1>1, SoundHolds, PTL

\* Once close() has sealed a store it has no connection, and no worker of it
\* runs, until its process starts anew.
THEOREM ClosedStaysClosed == Spec => []ClosedIsFinal
<1>1. Sound => ClosedIsFinal
  BY StoreAssumption DEF Sound, ClosedLetsGo, ClosedIsFinal
<1> QED BY <1>1, SoundHolds, PTL

-----------------------------------------------------------------------------
(* Closes apart: what a worker has read stays true.                          *)

\* Of what a task does, only an insert and a commit change what others see.
LEMMA TaskSeen ==
  ASSUME Sound, NEW t \in Tasks, Caller(t) \/ Worker(t), ~Insert(t), ~Commit(t)
  PROVE  UNCHANGED <<VisibleStatus, VisibleLog>>
<1>1. CASE Caller(t)
  <2>1. UNCHANGED fileVars
    BY <1>1 DEF Caller, Call, Acquire, Continue, Finish, CancelRunning, CancelQueued
  <2> QED BY <2>1, FileSame
<1>2. CASE Worker(t)
  <2>1. CASE Initialize(t) \/ Read(t) \/ ReadEvents(t) \/ Harden(t) \/ Disconnect(t) \/ Seal(t)
    <3>1. UNCHANGED fileVars
      BY <2>1 DEF Initialize, Read, ReadEvents, Harden, Disconnect, Seal
    <3> QED BY <3>1, FileSame
  <2>2. CASE Begin(t)
    <3>1. journal' # None BY <2>2, NoneAssumption DEF Begin, Saved, Journals, Sound, TypeOK
    <3> QED BY <2>2, <3>1 DEF Begin, Saved, VisibleStatus, VisibleLog
  <2>3. CASE WriteRow(t) \/ WriteEvent(t)
    <3>1. journal # None /\ UNCHANGED journal
      BY <2>3 DEF WriteRow, WriteEvent, Sound, Transaction, TxSteps
    <3> QED BY <3>1 DEF VisibleStatus, VisibleLog
  <2>4. CASE Fail(t)
    <3>1. CASE journal # None /\ journal.by \in {t} BY <2>4, <3>1, RollbackSeen DEF Fail
    <3>2. CASE ~(journal # None /\ journal.by \in {t})
      BY <2>4, <3>2, FileSame DEF Fail, Rollback
    <3> QED BY <3>1, <3>2
  <2> QED BY <1>2, <2>1, <2>2, <2>3, <2>4 DEF Worker
<1> QED BY <1>1, <1>2

\* A crash changes nothing of it either.
LEMMA CrashSeen ==
  ASSUME Sound, NEW s \in Stores, Crash(s) PROVE UNCHANGED <<VisibleStatus, VisibleLog>>
<1> DEFINE lost == {t \in Tasks : Home[t] = s}
<1>1. Rollback(lost) BY DEF Crash
<1> HIDE DEF lost
<1>2. CASE journal # None /\ journal.by \in lost BY <1>1, <1>2, RollbackSeen
<1>3. CASE ~(journal # None /\ journal.by \in lost) BY <1>1, <1>3, FileSame DEF Rollback
<1> QED BY <1>2, <1>3

\* What is left of the tasks after a crash.
LEMMA CrashTasks ==
  ASSUME NEW s \in Stores, Crash(s), NEW t \in Tasks
  PROVE  \/ job'[t] = "none" /\ stamp'[t] = 0
         \/ job'[t] = job[t] /\ call'[t] = call[t] /\ seen'[t] = seen[t] /\ stamp'[t] = stamp[t]
BY DEF Crash

\* With one process, a worker is the only one there is.
LEMMA OnlyWorker ==
  ASSUME OneProcess, Sound, NEW t \in Tasks, job[t] # "none"
  PROVE  \A u \in Tasks \ {t} : job[u] = "none"
BY DEF OneProcess, Sound, Locks

\* What a step may change of the tasks.
LEMMA StepFrame ==
  ASSUME Sound, NEW t \in Tasks, Caller(t) \/ Worker(t)
  PROVE  \A u \in Tasks \ {t} :
           job'[u] = job[u] /\ call'[u] = call[u] /\ seen'[u] = seen[u] /\ stamp'[u] = stamp[u]
<1> USE DEF Sound, TypeOK
<1>1. CASE Caller(t)
  BY <1>1 DEF Caller, Call, Acquire, Continue, Finish, CancelRunning, CancelQueued, Drains
<1>2. CASE Worker(t)
  BY <1>2 DEF Worker, Initialize, Read, ReadEvents, Insert, Begin, WriteRow, WriteEvent, Commit,
              Harden, Disconnect, Seal, Fail, Goes
<1> QED BY <1>1, <1>2

\* What a step of a caller, or of a worker, leaves for its own task.
LEMMA CallerStillSo ==
  ASSUME Sound, StillSo, NEW t \in Tasks, Caller(t) PROVE StillSoAt(t)'
<1> USE DEF StillSoAt, TxSteps
<1>0. UNCHANGED <<VisibleStatus, VisibleLog>>
  <2>1. UNCHANGED fileVars
    BY DEF Caller, Call, Acquire, Continue, Finish, CancelRunning, CancelQueued
  <2> QED BY <2>1, FileSame
<1>1. CASE Call(t) BY <1>1 DEF Call
<1>2. CASE Acquire(t)
  <2>1. call[t] \in Calls /\ call' = call BY <1>2 DEF Acquire, Sound, Locks
  <2>2. job'[t] = Started(t) BY <1>2 DEF Acquire, Sound, TypeOK
  <2>3. Started(t) \notin {"events", "row", "event", "commit"}
        /\ (Started(t) = "begin" => call[t].op = "open_issue")
    BY DEF Started, FirstStep
  <2> QED BY <2>1, <2>2, <2>3
<1>3. CASE Continue(t)
  <2>1. call' = call BY <1>3 DEF Continue
  <2>2. job'[t] \in {"failed", FirstStep(call[t].op)} BY <1>3 DEF Continue, Sound, TypeOK
  <2>3. FirstStep(call[t].op) \notin {"events", "row", "event", "commit"}
        /\ (FirstStep(call[t].op) = "begin" => call[t].op = "open_issue")
    BY DEF FirstStep
  <2> QED BY <2>1, <2>2, <2>3
<1>4. CASE Finish(t) \/ CancelQueued(t)
  BY <1>4 DEF Finish, CancelQueued, Sound, TypeOK, Locks
<1>5. CASE CancelRunning(t)
  BY <1>0, <1>5 DEF CancelRunning, StillSo
<1> QED BY <1>1, <1>2, <1>3, <1>4, <1>5 DEF Caller

LEMMA WorkerStillSo ==
  ASSUME Sound, StillSo, NEW t \in Tasks, Worker(t) PROVE StillSoAt(t)'
<1> USE DEF StillSoAt, TxSteps
<1>a. StillSoAt(t) /\ call[t] \in Calls BY DEF StillSo, Sound, Locks, Worker, Initialize, Read, ReadEvents,
        Insert, Begin, WriteRow, WriteEvent, Commit, Harden, Disconnect, Seal, Fail,
        Working, DataSteps, CloseSteps
<1>1. CASE Insert(t) \/ Commit(t)
  BY <1>1 DEF Insert, Commit, Goes, Sound, TypeOK
<1>2. CASE ~Insert(t) /\ ~Commit(t)
  <2>0. UNCHANGED <<VisibleStatus, VisibleLog>> BY <1>2, TaskSeen
  <2>1. CASE Read(t)
    <3>1. /\ seen'[t] = VisibleStatus[call[t].issue] /\ call' = call
          /\ call[t].op \in IssueOps
      BY <2>1 DEF Read, Sound, TypeOK, Phases, Phase
    <3>2. VisibleStatus[call[t].issue] \in Statuses
      BY <3>1, <1>a, CallTyped, FileTyped DEF Sound
    <3>3. /\ job'[t] \in {"missing", "insert", "events", "begin", "harden"}
          /\ job'[t] = "events" => VisibleStatus[call[t].issue] # "absent"
          /\ job'[t] = "begin" => VisibleStatus[call[t].issue] \notin {"absent", "closed"}
      BY <2>1 DEF Read, Goes, Sound, TypeOK
    <3> QED BY <2>0, <3>1, <3>2, <3>3 DEF Statuses
  <2>2. CASE Begin(t) \/ WriteRow(t) \/ WriteEvent(t)
    <3>1. job[t] \in {"begin", "row", "event"} /\ call' = call
          /\ job'[t] \in {"row", "event", "commit"}
      BY <2>2 DEF Begin, WriteRow, WriteEvent, AfterEvent, Goes, Sound, TypeOK
    <3> QED BY <1>a, <2>0, <3>1
  <2>3. CASE Initialize(t) \/ ReadEvents(t) \/ Harden(t) \/ Disconnect(t) \/ Seal(t) \/ Fail(t)
    <3>1. job'[t] \in {"initialized", "harden", "done", "seal", "failed"}
      BY <2>3 DEF Initialize, ReadEvents, Harden, Disconnect, Seal, Fail, Goes, Sound, TypeOK
    <3> QED BY <3>1
  <2> QED BY <1>2, <2>1, <2>2, <2>3 DEF Worker
<1> QED BY <1>1, <1>2

LEMMA StillSoInit == Init => StillSo
BY DEF Init, StillSo, StillSoAt, TxSteps

LEMMA StillSoStep == Sound /\ StillSo /\ [Next]_vars /\ [ClosesApart]_vars => StillSo'
<1> SUFFICES ASSUME Sound, StillSo, [Next]_vars, [ClosesApart]_vars PROVE StillSo' OBVIOUS
<1>1. ASSUME NEW t \in Tasks, Caller(t) \/ Worker(t) PROVE StillSo'
  <2> SUFFICES ASSUME NEW u \in Tasks PROVE StillSoAt(u)' BY DEF StillSo
  <2>1. CASE u = t BY <1>1, <2>1, CallerStillSo, WorkerStillSo
  <2>2. CASE u # t
    <3>1. job'[u] = job[u] /\ call'[u] = call[u] /\ seen'[u] = seen[u] BY <1>1, <2>2, StepFrame
    <3>2. ASSUME VisibleStatus'[call[u].issue] = VisibleStatus[call[u].issue] PROVE StillSoAt(u)'
      BY <3>1, <3>2 DEF StillSo, StillSoAt
    <3>3. CASE Insert(t)
      BY <3>2, <3>3 DEF Insert, VisibleStatus
    <3>4. CASE Commit(t)
      <4>1. /\ call[t].op \in {"open_issue", "close_issue"}
            /\ call[t].op = "open_issue" => VisibleStatus[call[t].issue] = "absent"
            /\ VisibleStatus' = [VisibleStatus EXCEPT ![call[t].issue] = NewStatus(t)]
        BY <3>4, CommitSeen
      <4>2. CASE call[u].issue # call[t].issue
        BY <3>2, <4>1, <4>2 DEF Sound, TypeOK
      <4>3. CASE call[u].issue = call[t].issue
        <5>1. job[u] \notin TxSteps
          BY <2>2, <3>4 DEF Commit, Sound, Transaction, TxSteps
        <5>2. CASE call[t].op = "open_issue"
          BY <3>1, <4>1, <4>3, <5>1, <5>2 DEF StillSo, StillSoAt, TxSteps
        <5>3. CASE call[t].op = "close_issue"
          <6>1. ClosesApart BY <3>4 DEF Commit, vars, taskVars, Goes, Sound, TypeOK
          <6>2. job[u] # "events" /\ (job[u] = "begin" => call[u].op # "close_issue")
            BY <2>2, <3>4, <4>3, <5>3, <6>1 DEF ClosesApart
          <6> QED BY <3>1, <5>1, <6>2 DEF StillSoAt, TxSteps
        <5> QED BY <4>1, <5>2, <5>3
      <4> QED BY <4>2, <4>3
    <3>5. CASE ~Insert(t) /\ ~Commit(t)
      BY <1>1, <3>2, <3>5, TaskSeen
    <3> QED BY <3>3, <3>4, <3>5
  <2> QED BY <2>1, <2>2
<1>2. ASSUME NEW s \in Stores, Crash(s) PROVE StillSo'
  <2>1. UNCHANGED <<VisibleStatus, VisibleLog>> BY <1>2, CrashSeen
  <2> SUFFICES ASSUME NEW u \in Tasks PROVE StillSoAt(u)' BY DEF StillSo
  <2> QED BY <1>2, <2>1, CrashTasks DEF StillSo, StillSoAt, TxSteps
<1>3. CASE Tick \/ UNCHANGED vars
  <2>1. UNCHANGED <<fileVars, taskVars>> BY <1>3 DEF Tick, vars
  <2>2. UNCHANGED <<VisibleStatus, VisibleLog>> BY <2>1, FileSame
  <2> QED BY <2>1, <2>2 DEF StillSo, StillSoAt, taskVars
<1> QED BY <1>1, <1>2, <1>3 DEF Next

LEMMA StillSoHolds == Spec /\ [][ClosesApart]_vars => [](Sound /\ StillSo)
<1>1. Init => Sound /\ StillSo BY SoundInit, StillSoInit
<1>2. Sound /\ StillSo /\ [Next]_vars /\ [ClosesApart]_vars => (Sound /\ StillSo)'
  BY SoundStep, StillSoStep
<1> QED BY <1>1, <1>2, PTL DEF Spec

\* With one process, nothing is committed while another call is at work.
LEMMA OneProcessApart == OneProcess => (Spec => [][ClosesApart]_vars)
<1> SUFFICES ASSUME OneProcess PROVE Spec => [][ClosesApart]_vars OBVIOUS
<1>1. Sound => ClosesApart
  <2> SUFFICES ASSUME Sound, NEW t \in Tasks, NEW u \in Tasks, t # u, Commit(t)
               PROVE  job[u] = "none"
    BY DEF ClosesApart
  <2> QED BY OnlyWorker DEF Commit
<1> QED BY <1>1, SoundHolds, PTL

\* _get_timeline_sync reads the row and the events in two queries: they agree,
\* unless another process closes the issue between them.
THEOREM SnapshotUnlessRaced == Spec /\ [][ClosesApart]_vars => TimelinesAgree
<1>1. Sound /\ StillSo /\ [Next]_vars =>
        [\A t \in Tasks : ReadEvents(t) =>
           (seen[t] = "closed" <=>
              \E n \in DOMAIN VisibleLog[call[t].issue] :
                VisibleLog[call[t].issue][n].kind = "closed")]_vars
  <2> SUFFICES ASSUME Sound, StillSo, NEW t \in Tasks, ReadEvents(t)
               PROVE  seen[t] = "closed" <=>
                        \E n \in DOMAIN VisibleLog[call[t].issue] :
                          VisibleLog[call[t].issue][n].kind = "closed"
    OBVIOUS
  <2>1. job[t] = "events" BY DEF ReadEvents
  <2>2. call[t] \in Calls /\ call[t].op \in IssueOps
    BY <2>1 DEF Sound, Locks, Phases, Phase, IssueOps
  <2>3. seen[t] = VisibleStatus[call[t].issue] BY <2>1 DEF StillSo, StillSoAt
  <2> QED BY <2>2, <2>3, CallTyped DEF Sound, Matches, Has
<1> QED BY <1>1, StillSoHolds, PTL DEF Spec, TimelinesAgree

\* No other worker of the same process comes between them.
THEOREM TimelineSnapshot == OneProcess => (Spec => TimelinesAgree)
<1> SUFFICES ASSUME OneProcess PROVE Spec => TimelinesAgree OBVIOUS
<1> QED BY SnapshotUnlessRaced, OneProcessApart, PTL

\* A closed issue keeps the closed_at it was closed with, however many processes
\* use the file: unless another one closes it between the read of its row and the
\* transaction.
THEOREM ClosedAtUnlessRaced == Spec /\ [][ClosesApart]_vars => ClosedOnce
<1>1. Sound /\ StillSo /\ [Next]_vars =>
        [\A i \in Issues : VisibleStatus[i] = "closed" =>
           Closings(VisibleLog'[i]) = Closings(VisibleLog[i])]_vars
  <2> SUFFICES ASSUME Sound, StillSo, Next, NEW i \in Issues, VisibleStatus[i] = "closed"
               PROVE  Closings(VisibleLog'[i]) = Closings(VisibleLog[i])
    OBVIOUS
  <2>1. ASSUME NEW e \in Events, e.kind # "closed", VisibleLog' = [VisibleLog EXCEPT ![i] = Append(@, e)]
        PROVE  Closings(VisibleLog'[i]) = Closings(VisibleLog[i])
    <3> DEFINE q == VisibleLog[i]
               h == Append(q, e)
    <3>1. q \in Seq(Events) /\ VisibleLog'[i] = h BY <2>1, FileTyped DEF Sound
    <3>2. /\ DOMAIN h = DOMAIN q \cup {Len(q) + 1} /\ h[Len(q) + 1] = e
          /\ \A n \in DOMAIN q : h[n] = q[n]
      BY <3>1, EventAdded
    <3> HIDE DEF h
    <3>3. {m \in DOMAIN h : h[m].kind = "closed"} = {m \in DOMAIN q : q[m].kind = "closed"}
      BY <2>1, <3>2
    <3>4. Closings(h) = Closings(q) BY <3>2, <3>3 DEF Closings
    <3> QED BY <3>1, <3>4
  <2>2. ASSUME NEW t \in Tasks, Insert(t) PROVE Closings(VisibleLog'[i]) = Closings(VisibleLog[i])
    <3> DEFINE e == [kind |-> "note", at |-> stamp[t]]
    <3>1. /\ call[t].issue \in Issues /\ stamp[t] \in 0..MaxClock
          /\ VisibleLog = log /\ VisibleLog' = log'
      BY <2>2, WriterCall, OneWriter DEF Insert, VisibleLog
    <3>2. e \in Events /\ e.kind # "closed" BY <3>1 DEF Events, Kinds
    <3>3. VisibleLog' = [VisibleLog EXCEPT ![call[t].issue] = Append(@, e)]
      BY <2>2, <3>1 DEF Insert, AddEvent
    <3> HIDE DEF e
    <3>4. CASE call[t].issue = i BY <2>1, <3>2, <3>3, <3>4
    <3>5. CASE call[t].issue # i
      <4>1. VisibleLog \in [Issues -> Seq(Events)] BY FileTyped DEF Sound
      <4> QED BY <3>3, <3>5, <4>1
    <3> QED BY <3>4, <3>5
  <2>3. ASSUME NEW t \in Tasks, Commit(t) PROVE Closings(VisibleLog'[i]) = Closings(VisibleLog[i])
    <3>1. /\ call[t].op \in {"open_issue", "close_issue"}
          /\ call[t].op = "open_issue" => VisibleStatus[call[t].issue] = "absent"
          /\ VisibleLog' = [VisibleLog EXCEPT ![call[t].issue] = Append(@, NewEvent(t))]
          /\ VisibleLog \in [Issues -> Seq(Events)]
      BY <2>3, CommitSeen
    <3>2. call[t].op = "close_issue" => VisibleStatus[call[t].issue] = "open"
      BY <2>3 DEF StillSo, StillSoAt, Commit, TxSteps
    <3>3. call[t].issue # i BY <3>1, <3>2
    <3> QED BY <3>1, <3>3
  <2>4. ASSUME UNCHANGED <<VisibleStatus, VisibleLog>>
        PROVE  Closings(VisibleLog'[i]) = Closings(VisibleLog[i])
    BY <2>4
  <2>5. ASSUME NEW t \in Tasks, Caller(t) \/ Worker(t), ~Insert(t), ~Commit(t)
        PROVE  UNCHANGED <<VisibleStatus, VisibleLog>>
    BY <2>5, TaskSeen
  <2>6. ASSUME NEW s \in Stores, Crash(s) PROVE UNCHANGED <<VisibleStatus, VisibleLog>>
    BY <2>6, CrashSeen
  <2>7. CASE Tick BY <2>4, <2>7, FileSame DEF Tick
  <2> QED BY <2>2, <2>3, <2>4, <2>5, <2>6, <2>7 DEF Next
<1> QED BY <1>1, StillSoHolds, PTL DEF Spec, ClosedOnce

\* With one process it always does.
THEOREM KeepsClosedAt == OneProcess => (Spec => ClosedOnce)
<1> SUFFICES ASSUME OneProcess PROVE Spec => ClosedOnce OBVIOUS
<1> QED BY ClosedAtUnlessRaced, OneProcessApart, PTL

-----------------------------------------------------------------------------
(* One process and a clock that is never set back: times are in order.      *)

LEMMA TimeAppend ==
  ASSUME NEW q \in Seq(Events), NEW e \in Events, NEW time \in Nat,
         Upto(q, e.at), Sorted(q), e.at <= time
  PROVE  Upto(Append(q, e), time) /\ Sorted(Append(q, e))
<1> DEFINE h == Append(q, e)
           last == Len(q) + 1
<1>1. /\ h \in Seq(Events) /\ DOMAIN h = DOMAIN q \cup {last} /\ last \in Nat
      /\ \A n \in DOMAIN q : h[n] = q[n] /\ n < last /\ n \in Nat
      /\ h[last] = e
  BY EventAdded
<1> HIDE DEF h, last
<1>2. \A n \in DOMAIN h : h[n].at \in Nat
  <2>1. \A n \in DOMAIN h : h[n] \in Events BY <1>1
  <2> QED BY <2>1, StoreAssumption DEF Events
<1>3. e.at \in Nat BY StoreAssumption DEF Events
<1>4. \A n \in DOMAIN h : h[n].at <= e.at BY <1>1, <1>3 DEF Upto
<1>5. Upto(h, time) BY <1>2, <1>3, <1>4 DEF Upto
<1>6. Sorted(h)
  <2> SUFFICES ASSUME NEW m \in DOMAIN h, NEW n \in DOMAIN h, m < n PROVE h[m].at <= h[n].at
    BY DEF Sorted
  <2>1. CASE n = last BY <1>1, <1>4, <2>1
  <2>2. CASE n # last
    <3>1. n \in DOMAIN q /\ n < last /\ n \in Nat /\ last \in Nat BY <1>1, <2>2
    <3>2. m \in DOMAIN q BY <1>1, <3>1
    <3> QED BY <1>1, <3>1, <3>2 DEF Sorted
  <2> QED BY <2>1, <2>2
<1> QED BY <1>5, <1>6 DEF h

\* Where a call enters its worker, it writes only if it opens an issue.
LEMMA CallerTime ==
  ASSUME Sound, InTime, NEW t \in Tasks, Caller(t) PROVE TimeAt(t)'
<1> USE DEF TimeAt, TxSteps
<1>0. UNCHANGED <<VisibleStatus, VisibleLog>> /\ clock' = clock /\ clock \in Nat
  <2>1. UNCHANGED fileVars /\ clock' = clock
    BY DEF Caller, Call, Acquire, Continue, Finish, CancelRunning, CancelQueued
  <2> QED BY <2>1, FileSame, StoreAssumption DEF Sound, TypeOK
<1>1. CASE Call(t)
  <2>1. job'[t] = "none" /\ stamp'[t] \in {clock, 0} BY <1>1 DEF Call, Sound, TypeOK
  <2> QED BY <1>0, <2>1
<1>2. CASE Acquire(t)
  <2>1. call' = call /\ stamp' = stamp BY <1>2 DEF Acquire
  <2>2. job'[t] = Started(t) BY <1>2 DEF Acquire, Sound, TypeOK
  <2>3. Started(t) \notin {"insert", "row", "event", "commit"}
        /\ (Started(t) = "begin" => call[t].op = "open_issue")
    BY DEF Started, FirstStep
  <2> QED BY <1>0, <2>1, <2>2, <2>3 DEF InTime
<1>3. CASE Continue(t)
  <2>1. call' = call /\ stamp' = stamp BY <1>3 DEF Continue
  <2>2. job'[t] \in {"failed", FirstStep(call[t].op)} BY <1>3 DEF Continue, Sound, TypeOK
  <2>3. FirstStep(call[t].op) \notin {"insert", "row", "event", "commit"}
        /\ (FirstStep(call[t].op) = "begin" => call[t].op = "open_issue")
    BY DEF FirstStep
  <2> QED BY <1>0, <2>1, <2>2, <2>3 DEF InTime
<1>4. CASE Finish(t) \/ CancelQueued(t)
  <2>1. job'[t] = "none" /\ stamp'[t] = 0
    BY <1>4 DEF Finish, CancelQueued, Sound, TypeOK, Locks
  <2> QED BY <1>0, <2>1
<1>5. CASE CancelRunning(t) BY <1>0, <1>5 DEF CancelRunning, InTime
<1> QED BY <1>1, <1>2, <1>3, <1>4, <1>5 DEF Caller

\* A worker reads the clock with the row; what it writes later carries that time.
LEMMA WorkerTime ==
  ASSUME Sound, InTime, NEW t \in Tasks, Worker(t) PROVE TimeAt(t)'
<1> USE DEF TimeAt, TxSteps
<1>0. clock' = clock /\ clock \in Nat /\ TimeAt(t)
  BY StoreAssumption
  DEF Worker, Initialize, Read, ReadEvents, Insert, Begin, WriteRow, WriteEvent, Commit, Harden,
      Disconnect, Seal, Fail, Sound, TypeOK, InTime
<1>1. CASE Read(t)
  <2>1. call' = call /\ stamp'[t] \in {clock, 0} /\ (call[t].op \in Writes => stamp'[t] = clock)
    BY <1>1 DEF Read, EventTime, Sound, TypeOK
  <2>2. job'[t] \in {"insert", "begin"} => call[t].op \in Writes
    BY <1>1 DEF Read, Goes, Sound, TypeOK, Writes
  <2>3. job'[t] \in {"missing", "insert", "events", "begin", "harden"}
    BY <1>1 DEF Read, Goes, Sound, TypeOK
  <2>4. call[t] \in Calls BY <1>1 DEF Read, Sound, Locks
  <2>5. call[t].op \in Writes => Upto(VisibleLog[call[t].issue], clock)
    BY <2>4, CallTyped DEF InTime, IssueOps
  <2>6. UNCHANGED <<VisibleStatus, VisibleLog>> BY <1>1, FileSame DEF Read
  <2> QED BY <1>0, <2>1, <2>2, <2>3, <2>5, <2>6
<1>2. CASE Begin(t) \/ WriteRow(t) \/ WriteEvent(t)
  <2>1. job[t] \in {"begin", "row", "event"} /\ call' = call /\ stamp' = stamp
    BY <1>2 DEF Begin, WriteRow, WriteEvent
  <2>2. ~Insert(t) /\ ~Commit(t) BY <2>1 DEF Insert, Commit
  <2>3. UNCHANGED <<VisibleStatus, VisibleLog>> BY <1>2, <2>2, TaskSeen DEF Worker
  <2> QED BY <1>0, <2>1, <2>3
<1>3. CASE Initialize(t) \/ ReadEvents(t) \/ Insert(t) \/ Commit(t) \/ Harden(t)
           \/ Disconnect(t) \/ Seal(t) \/ Fail(t)
  <2>1. job'[t] \in {"initialized", "harden", "done", "seal", "failed"} /\ stamp' = stamp
    BY <1>3 DEF Initialize, ReadEvents, Insert, Commit, Harden, Disconnect, Seal, Fail, Goes,
                Sound, TypeOK
  <2> QED BY <1>0, <2>1
<1> QED BY <1>1, <1>2, <1>3 DEF Worker

\* An event that is added to the file is the latest one there.
LEMMA AddedInTime ==
  ASSUME Sound, InTime, NEW t \in Tasks, Insert(t) \/ Commit(t)
  PROVE  \A i \in Issues : Upto(VisibleLog'[i], clock') /\ Sorted(VisibleLog'[i])
<1> DEFINE i == call[t].issue
<1>0. stamp[t] \in Nat /\ clock \in Nat /\ stamp[t] <= clock /\ clock' = clock
  BY StoreAssumption DEF Sound, TypeOK, InTime, TimeAt, Insert, Commit
<1>1. PICK e \in Events :
        /\ i \in Issues /\ VisibleLog \in [Issues -> Seq(Events)] /\ e.at = stamp[t]
        /\ VisibleLog' = [VisibleLog EXCEPT ![i] = Append(@, e)]
        /\ Upto(VisibleLog[i], stamp[t])
  <2>1. CASE Insert(t)
    <3> DEFINE e == [kind |-> "note", at |-> stamp[t]]
    <3>1. i \in Issues /\ stamp[t] \in 0..MaxClock /\ VisibleLog = log
      BY <2>1, WriterCall, OneWriter DEF Insert
    <3>2. e \in Events BY <3>1 DEF Events, Kinds
    <3>3. VisibleLog' = log' BY <2>1 DEF Insert, VisibleLog
    <3>4. VisibleLog' = [VisibleLog EXCEPT ![i] = Append(@, e)]
      BY <2>1, <3>1, <3>3 DEF Insert, AddEvent
    <3>5. call[t].op = "append_event" BY <2>1 DEF Insert, Sound, Phases, Phase
    <3>6. Upto(VisibleLog[i], stamp[t]) BY <2>1, <3>5 DEF Insert, InTime, TimeAt
    <3> QED BY <3>1, <3>2, <3>4, <3>6, FileTyped DEF Sound
  <2>2. CASE Commit(t)
    <3>1. /\ i \in Issues /\ call[t].op \in {"open_issue", "close_issue"}
          /\ call[t].op = "open_issue" => VisibleStatus[i] = "absent"
          /\ VisibleLog' = [VisibleLog EXCEPT ![i] = Append(@, NewEvent(t))]
          /\ VisibleLog \in [Issues -> Seq(Events)] /\ NewEvent(t) \in Events
      BY <2>2, CommitSeen
    <3>2. NewEvent(t).at = stamp[t] BY DEF NewEvent
    <3>3. Upto(VisibleLog[i], stamp[t])
      <4>1. CASE call[t].op = "open_issue"
        <5>1. VisibleLog[i] = <<>> BY <3>1, <4>1 DEF Sound, Matches
        <5> QED BY <5>1 DEF Upto
      <4>2. CASE call[t].op # "open_issue"
        BY <2>2, <4>2 DEF Commit, InTime, TimeAt, TxSteps
      <4> QED BY <4>1, <4>2
    <3> QED BY <3>1, <3>2, <3>3
  <2> QED BY <2>1, <2>2
<1> SUFFICES ASSUME NEW j \in Issues PROVE Upto(VisibleLog'[j], clock) /\ Sorted(VisibleLog'[j])
  BY <1>0
<1>2. CASE j = i
  <2>1. VisibleLog[i] \in Seq(Events) /\ VisibleLog'[i] = Append(VisibleLog[i], e) BY <1>1
  <2>2. Upto(VisibleLog[i], e.at) /\ Sorted(VisibleLog[i]) /\ e.at <= clock
    BY <1>0, <1>1 DEF InTime
  <2> QED BY <1>0, <1>2, <2>1, <2>2, TimeAppend
<1>3. CASE j # i BY <1>1, <1>3 DEF InTime
<1> QED BY <1>2, <1>3

LEMMA InTimeInit == Init => InTime
<1> SUFFICES ASSUME Init PROVE InTime OBVIOUS
<1>1. \A i \in Issues : VisibleLog[i] = <<>> BY DEF Init, VisibleLog
<1> QED BY <1>1 DEF Init, InTime, TimeAt, Upto, Sorted, TxSteps

LEMMA InTimeStep == OneProcess /\ ~StepsBack /\ Sound /\ InTime /\ [Next]_vars => InTime'
<1> SUFFICES ASSUME OneProcess, ~StepsBack, Sound, InTime, [Next]_vars PROVE InTime' OBVIOUS
<1>1. ASSUME NEW t \in Tasks, Caller(t) \/ Worker(t) PROVE InTime'
  <2>0. clock' = clock
    BY <1>1 DEF Caller, Call, Acquire, Continue, Finish, CancelRunning, CancelQueued,
                Worker, Initialize, Read, ReadEvents, Insert, Begin, WriteRow, WriteEvent, Commit,
                Harden, Disconnect, Seal, Fail
  <2>1. \A i \in Issues : Upto(VisibleLog'[i], clock') /\ Sorted(VisibleLog'[i])
    <3>1. CASE Insert(t) \/ Commit(t) BY <3>1, AddedInTime
    <3>2. CASE ~Insert(t) /\ ~Commit(t) BY <1>1, <2>0, <3>2, TaskSeen DEF InTime
    <3> QED BY <3>1, <3>2
  <2>2. ASSUME NEW u \in Tasks PROVE TimeAt(u)'
    <3>1. CASE u = t BY <1>1, <3>1, CallerTime, WorkerTime
    <3>2. CASE u # t
      <4>1. job'[u] = job[u] /\ call'[u] = call[u] /\ stamp'[u] = stamp[u]
        BY <1>1, <3>2, StepFrame
      <4>2. CASE Insert(t) \/ Commit(t)
        <5>1. job[t] # "none" BY <4>2 DEF Insert, Commit
        <5>2. job'[u] = "none" BY <3>2, <4>1, <5>1, OnlyWorker
        <5> QED BY <2>0, <4>1, <5>2 DEF InTime, TimeAt, TxSteps
      <4>3. CASE ~Insert(t) /\ ~Commit(t)
        <5>1. UNCHANGED <<VisibleStatus, VisibleLog>> BY <1>1, <4>3, TaskSeen
        <5> QED BY <2>0, <4>1, <5>1 DEF InTime, TimeAt
      <4> QED BY <4>2, <4>3
    <3> QED BY <3>1, <3>2
  <2> QED BY <2>1, <2>2 DEF InTime
<1>2. ASSUME NEW s \in Stores, Crash(s) PROVE InTime'
  <2>1. UNCHANGED <<VisibleStatus, VisibleLog>> /\ clock' = clock BY <1>2, CrashSeen DEF Crash
  <2>2. clock \in Nat BY StoreAssumption DEF Sound, TypeOK
  <2>3. ASSUME NEW u \in Tasks PROVE TimeAt(u)'
    BY <1>2, <2>1, <2>2, CrashTasks DEF InTime, TimeAt, TxSteps
  <2> QED BY <2>1, <2>3 DEF InTime
<1>3. CASE Tick
  <2>1. UNCHANGED <<fileVars, taskVars>> /\ clock' = clock + 1 BY <1>3 DEF Tick
  <2>2. UNCHANGED <<VisibleStatus, VisibleLog>> BY <2>1, FileSame
  <2>3. clock \in Nat /\ \A t \in Tasks : stamp[t] \in Nat
    BY StoreAssumption DEF Sound, TypeOK
  <2>4. \A i \in Issues : Upto(VisibleLog[i], clock + 1)
    <3> SUFFICES ASSUME NEW i \in Issues, NEW n \in DOMAIN VisibleLog[i]
                 PROVE  VisibleLog[i][n].at <= clock + 1
      BY DEF Upto
    <3>1. VisibleLog[i][n] \in Events BY FileTyped DEF Sound
    <3>2. VisibleLog[i][n].at \in Nat BY <3>1, StoreAssumption DEF Events
    <3>3. VisibleLog[i][n].at <= clock BY DEF InTime, Upto
    <3> QED BY <2>3, <3>2, <3>3
  <2>5. \A t \in Tasks : TimeAt(t)' BY <2>1, <2>2, <2>3 DEF InTime, TimeAt, taskVars
  <2> QED BY <2>1, <2>2, <2>4, <2>5 DEF InTime
<1>4. CASE UNCHANGED vars
  <2>1. UNCHANGED <<fileVars, taskVars, clock>> BY <1>4 DEF vars
  <2>2. UNCHANGED <<VisibleStatus, VisibleLog>> BY <2>1, FileSame
  <2> QED BY <2>1, <2>2 DEF InTime, TimeAt, taskVars
<1> QED BY <1>1, <1>2, <1>3, <1>4 DEF Next

\* Events of different clock ticks are listed in the order in which they were
\* written: with one process, and while the wall clock is not set back.  Neither
\* can be left out, nor can the exception for events of one tick.
THEOREM TimelineOrdered == OneProcess /\ ~StepsBack => (Spec => []TimelineInOrder)
<1> SUFFICES ASSUME OneProcess, ~StepsBack PROVE Spec => []TimelineInOrder OBVIOUS
<1>1. Sound /\ InTime /\ [Next]_vars => InTime' BY InTimeStep
<1>2. Sound /\ InTime => TimelineInOrder
  <2> SUFFICES ASSUME Sound, InTime, NEW i \in Issues,
                      NEW m \in DOMAIN VisibleLog[i], NEW n \in DOMAIN VisibleLog[i],
                      m < n, MayPrecede(VisibleLog[i][n], VisibleLog[i][m])
               PROVE  VisibleLog[i][n].at = VisibleLog[i][m].at
    BY DEF TimelineInOrder
  <2>1. VisibleLog[i][m] \in Events /\ VisibleLog[i][n] \in Events BY FileTyped DEF Sound
  <2>2. VisibleLog[i][m].at \in Nat /\ VisibleLog[i][n].at \in Nat
    BY <2>1, StoreAssumption DEF Events
  <2>3. VisibleLog[i][m].at <= VisibleLog[i][n].at BY DEF InTime, Sorted
  <2> QED BY <2>2, <2>3 DEF MayPrecede
<1> QED BY <1>1, <1>2, InTimeInit, SoundHolds, PTL DEF Spec

-----------------------------------------------------------------------------
(* Closes apart: the file is an issue log.                                   *)

\* The kinds of the events that others see, which is what IssueLog keeps.
KindsOf(events) == [n \in DOMAIN events |-> events[n].kind]
KindsSeen       == [i \in Issues |-> KindsOf(VisibleLog[i])]

LEMMA KindsAppend ==
  ASSUME NEW q \in Seq(Events), NEW e \in Events
  PROVE  KindsOf(Append(q, e)) = Append(KindsOf(q), e.kind)
<1> DEFINE h == Append(q, e)
<1>1. h \in Seq(Events) /\ Len(h) = Len(q) + 1 /\ Len(q) \in Nat BY AppendProperties
<1>2. h[Len(q) + 1] = e /\ \A n \in 1..Len(q) : h[n] = q[n] OBVIOUS
<1>3. DOMAIN h = 1..(Len(q) + 1) /\ DOMAIN q = 1..Len(q) BY <1>1
<1>4. KindsOf(q) \in Seq(Kinds) /\ Len(KindsOf(q)) = Len(q)
      /\ \A n \in 1..Len(q) : KindsOf(q)[n] = q[n].kind
  <2>1. \A n \in 1..Len(q) : q[n] \in Events OBVIOUS
  <2>2. \A n \in 1..Len(q) : q[n].kind \in Kinds BY <2>1 DEF Events
  <2> QED BY <1>1, <1>3, <2>2 DEF KindsOf
<1>5. e.kind \in Kinds BY DEF Events
<1> DEFINE k == Append(KindsOf(q), e.kind)
<1>6. /\ k \in Seq(Kinds) /\ Len(k) = Len(q) + 1 /\ k[Len(q) + 1] = e.kind
      /\ \A n \in 1..Len(q) : k[n] = q[n].kind
  BY <1>1, <1>4, <1>5, AppendProperties
<1> HIDE DEF h, k
<1>7. KindsOf(h) \in Seq(Kinds) /\ Len(KindsOf(h)) = Len(q) + 1
      /\ \A n \in 1..(Len(q) + 1) : KindsOf(h)[n] = h[n].kind
  <2>1. \A n \in 1..(Len(q) + 1) : h[n] \in Events BY <1>1
  <2>2. \A n \in 1..(Len(q) + 1) : h[n].kind \in Kinds BY <2>1 DEF Events
  <2> QED BY <1>1, <1>3, <2>2 DEF KindsOf
<1>8. \A n \in 1..(Len(q) + 1) : KindsOf(h)[n] = k[n] BY <1>1, <1>2, <1>6, <1>7
<1>9. KindsOf(h) = k BY <1>1, <1>6, <1>7, <1>8, SeqEqual
<1> QED BY <1>9 DEF h, k

\* One change of one issue, as others see it.
LEMMA OneChange ==
  ASSUME VisibleLog \in [Issues -> Seq(Events)], NEW i \in Issues, NEW e \in Events,
         VisibleLog' = [VisibleLog EXCEPT ![i] = Append(@, e)]
  PROVE  KindsSeen' = [KindsSeen EXCEPT ![i] = Append(@, e.kind)]
<1>1. VisibleLog'[i] = Append(VisibleLog[i], e) /\ VisibleLog[i] \in Seq(Events) OBVIOUS
<1>2. \A j \in Issues \ {i} : VisibleLog'[j] = VisibleLog[j] OBVIOUS
<1>3. KindsOf(VisibleLog'[i]) = Append(KindsOf(VisibleLog[i]), e.kind) BY <1>1, KindsAppend
<1> QED BY <1>2, <1>3 DEF KindsSeen

LEMMA LogInit == Init => Log!Init
<1> SUFFICES ASSUME Init PROVE Log!Init OBVIOUS
<1>1. VisibleStatus = [i \in Issues |-> "absent"] /\ VisibleLog = [i \in Issues |-> <<>>]
  BY DEF Init, VisibleStatus, VisibleLog
<1>2. KindsOf(<<>>) = <<>> BY DEF KindsOf
<1>3. KindsSeen = [i \in Issues |-> <<>>] BY <1>1, <1>2 DEF KindsSeen
<1> QED BY <1>1, <1>3 DEF Log!Init, KindsSeen, KindsOf

LEMMA LogStep ==
  Sound /\ StillSo /\ [Next]_vars => [Log!Next]_(Log!vars)
<1> SUFFICES ASSUME Sound, StillSo, [Next]_vars PROVE [Log!Next]_(Log!vars) OBVIOUS
<1>1. ASSUME UNCHANGED <<VisibleStatus, VisibleLog>> PROVE UNCHANGED Log!vars
  BY <1>1 DEF Log!vars
<1>2. ASSUME NEW t \in Tasks, Insert(t) PROVE Log!Next
  <2>0. call[t].issue \in Issues BY <1>2, WriterCall DEF Insert
  <2> PICK i \in Issues : i = call[t].issue BY <2>0
  <2> DEFINE e == [kind |-> "note", at |-> stamp[t]]
  <2>1. /\ i \in Issues /\ e \in Events /\ status[i] # "absent"
        /\ VisibleStatus = status /\ VisibleLog = log
    BY <1>2, WriterCall, OneWriter DEF Insert, Sound, Phases, Phase, Events, Kinds
  <2>2. VisibleStatus' = status /\ VisibleLog' = log' BY <1>2 DEF Insert, VisibleStatus, VisibleLog
  <2>3. VisibleLog' = [VisibleLog EXCEPT ![i] = Append(@, e)]
    BY <1>2, <2>1, <2>2 DEF Insert, AddEvent
  <2>4. VisibleLog \in [Issues -> Seq(Events)] /\ VisibleStatus \in [Issues -> Statuses]
    BY FileTyped DEF Sound
  <2>5. KindsSeen' = [KindsSeen EXCEPT ![i] = Append(@, "note")] BY <2>1, <2>3, <2>4, OneChange
  <2>6. VisibleStatus' = [VisibleStatus EXCEPT ![i] = VisibleStatus[i]] BY <2>1, <2>2, <2>4
  <2>7. Log!AddNote(i) BY <2>1, <2>5, <2>6 DEF Log!AddNote, Log!Record, KindsSeen, KindsOf
  <2> QED BY <2>1, <2>7 DEF Log!Next
<1>3. ASSUME NEW t \in Tasks, Commit(t) PROVE Log!Next
  <2>0. call[t].issue \in Issues BY <1>3, CommitSeen
  <2> PICK i \in Issues : i = call[t].issue BY <2>0
  <2>1. /\ i \in Issues /\ call[t].op \in {"open_issue", "close_issue"}
        /\ call[t].op = "open_issue" => VisibleStatus[i] = "absent"
        /\ VisibleStatus' = [VisibleStatus EXCEPT ![i] = NewStatus(t)]
        /\ VisibleLog' = [VisibleLog EXCEPT ![i] = Append(@, NewEvent(t))]
        /\ VisibleLog \in [Issues -> Seq(Events)] /\ NewEvent(t) \in Events
    BY <1>3, CommitSeen
  <2>2. KindsSeen' = [KindsSeen EXCEPT ![i] = Append(@, NewEvent(t).kind)] BY <2>1, OneChange
  <2>3. CASE call[t].op = "open_issue"
    <3>1. NewStatus(t) = "open" /\ NewEvent(t).kind = "opened" BY <2>3 DEF NewStatus, NewEvent
    <3>2. Log!OpenIssue(i)
      BY <2>1, <2>2, <2>3, <3>1 DEF Log!OpenIssue, Log!Record, KindsSeen, KindsOf
    <3> QED BY <2>1, <3>2 DEF Log!Next
  <2>4. CASE call[t].op = "close_issue"
    <3>1. NewStatus(t) = "closed" /\ NewEvent(t).kind = "closed" BY <2>4 DEF NewStatus, NewEvent
    <3>2. VisibleStatus[i] = "open" BY <1>3, <2>4 DEF StillSo, StillSoAt, Commit, TxSteps
    <3>3. Log!CloseIssue(i)
      BY <2>1, <2>2, <3>1, <3>2 DEF Log!CloseIssue, Log!Record, KindsSeen, KindsOf
    <3> QED BY <2>1, <3>3 DEF Log!Next
  <2> QED BY <2>1, <2>3, <2>4
<1>4. ASSUME NEW t \in Tasks, Caller(t) \/ Worker(t), ~Insert(t), ~Commit(t)
      PROVE  UNCHANGED <<VisibleStatus, VisibleLog>>
  BY <1>4, TaskSeen
<1>5. ASSUME NEW s \in Stores, Crash(s) PROVE UNCHANGED <<VisibleStatus, VisibleLog>>
  BY <1>5, CrashSeen
<1>6. CASE Tick \/ UNCHANGED vars BY <1>1, <1>6, FileSame DEF Tick, vars
<1> QED BY <1>1, <1>2, <1>3, <1>4, <1>5, <1>6 DEF Next

\* The file is an issue log, however many processes use it: begun writes are seen
\* by nobody until they are committed whole, or never, and every issue is closed at
\* most once; unless a close is committed behind the back of another.
THEOREM RefinementUnlessRaced == Spec /\ [][ClosesApart]_vars => KeepsLog
BY LogInit, LogStep, StillSoHolds, PTL DEF Spec, KeepsLog, Log!Spec

\* With one process none ever is.
THEOREM Refinement == OneProcess => (Spec => KeepsLog)
<1> SUFFICES ASSUME OneProcess PROVE Spec => KeepsLog OBVIOUS
<1> QED BY RefinementUnlessRaced, OneProcessApart, PTL
=============================================================================
