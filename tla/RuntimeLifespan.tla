--------------------------- MODULE RuntimeLifespan ---------------------------
(***************************************************************************)
(* The runtime of the MCP server, src/obd_mcp/server.py: the scopes that    *)
(* run inside runtime_lifespan share one service and one store.  The first  *)
(* scope initializes the store, the last one closes the service, and a      *)
(* runtime that was closed is never started again.                          *)
(*                                                                         *)
(* initialize and close are awaited under _runtime_lock; nothing else in it *)
(* suspends, so the lock is held exactly during these two.                  *)
(***************************************************************************)
EXTENDS Naturals, Sequences, FiniteSets

CONSTANTS
  Scopes,  \* the tasks that enter runtime_lifespan
  MaxLost  \* scopes that end without being counted out (a bound of the model)

ASSUME LifespanAssumption == IsFiniteSet(Scopes) /\ MaxLost \in Nat

VARIABLES
  runtime,   \* the store and the service
  scopes,    \* _runtime_scopes
  finished,  \* _runtime_finished
  waiters,   \* queue of tasks for _runtime_lock
  pc,        \* [Scopes -> where the task is]
  used,      \* some scope has been open (history)
  lost       \* the scopes that ended without being counted out (history)

vars == <<runtime, scopes, finished, waiters, pc, used, lost>>

TypeOK ==
  /\ runtime \in {"new", "ready", "closing", "closed", "failed"}
  /\ scopes \in 0..(Cardinality(Scopes) + MaxLost)
  /\ finished \in BOOLEAN
  /\ waiters \in Seq(Scopes)
  /\ pc \in [Scopes -> {"idle", "entering", "initializing", "inside", "leaving", "closing"}]
  /\ used \in BOOLEAN
  /\ lost \in 0..MaxLost

Init ==
  /\ runtime = "new"
  /\ scopes = 0
  /\ finished = FALSE
  /\ waiters = <<>>
  /\ pc = [s \in Scopes |-> "idle"]
  /\ used = FALSE /\ lost = 0

-----------------------------------------------------------------------------
(* _runtime_lock is an asyncio.Lock: FIFO, no newcomer overtakes a waiter.   *)

\* (Seeded fault: there is no lock.)
NeverHeld == FALSE
Held      == \E s \in Scopes : pc[s] \in {"initializing", "closing"}

Goes(s, place) == pc' = [pc EXCEPT ![s] = place]

\* Task s queues for the lock with this intention.
Queues(s, intention) ==
  /\ Held \/ waiters # <<>>
  /\ waiters' = Append(waiters, s)
  /\ Goes(s, intention)

\* Task s gets the lock: at once, or as the first waiter.
GetsLock(s, from, queued) ==
  /\ ~Held
  /\ \/ pc[s] = from /\ waiters = <<>> /\ UNCHANGED waiters
     \/ /\ pc[s] = queued
        /\ waiters # <<>> /\ Head(waiters) = s
        /\ waiters' = Tail(waiters)

\* How many scopes are left when one leaves (seeded fault: as many as before),
\* and how many are none (seeded fault: one).
NotCountedOut(n) == n
CountedOut(n)    == n - 1
LastButOne(n)    == n <= 1
NoneLeft(n)      == n = 0

-----------------------------------------------------------------------------
(* The scopes.                                                              *)

EnterWait(s) ==
  /\ pc[s] = "idle"
  /\ Queues(s, "entering")
  /\ UNCHANGED <<runtime, scopes, finished, used, lost>>

\* "server runtime cannot be restarted after shutdown", or in it goes.
Enter(s) ==
  /\ GetsLock(s, "idle", "entering")
  /\ \/ finished /\ Goes(s, "idle") /\ UNCHANGED <<scopes, used>>
     \/ ~finished /\ scopes = 0 /\ Goes(s, "initializing") /\ UNCHANGED <<scopes, used>>
     \/ ~finished /\ scopes > 0 /\ Goes(s, "inside") /\ scopes' = scopes + 1 /\ used' = TRUE
  /\ UNCHANGED <<runtime, finished, lost>>

InitializeReturns(s) ==
  /\ pc[s] = "initializing"
  /\ runtime' = "ready"
  /\ scopes' = scopes + 1 /\ used' = TRUE
  /\ Goes(s, "inside")
  /\ UNCHANGED <<finished, waiters, lost>>

\* initialize fails, or is cancelled: the store may then be open all the same.
InitializeFails(s) ==
  /\ pc[s] = "initializing"
  /\ runtime' \in {runtime, "ready"}
  /\ Goes(s, "idle")
  /\ UNCHANGED <<scopes, finished, waiters, used, lost>>

LeaveWait(s) ==
  /\ pc[s] = "inside"
  /\ Queues(s, "leaving")
  /\ UNCHANGED <<runtime, scopes, finished, used, lost>>

Leave(s) ==
  /\ GetsLock(s, "inside", "leaving")
  /\ scopes' = CountedOut(scopes)
  /\ IF NoneLeft(scopes')
       THEN Goes(s, "closing") /\ runtime' = "closing"
       ELSE Goes(s, "idle") /\ UNCHANGED runtime
  /\ UNCHANGED <<finished, used, lost>>

\* _runtime_finished after close() (seeded fault: only if it succeeded).
FinishedIfClosed(outcome) == outcome = "closed"
FinishedAfter(outcome)    == TRUE

\* The task that closes (seeded fault: close() takes the lock once more).
ClosesReentrantly(s) == pc[s] = "closing" /\ ~Held
Closes(s)            == pc[s] = "closing"

\* close() returns, fails or was cancelled.
CloseReturns(s) ==
  /\ Closes(s)
  /\ \E outcome \in {"closed", "failed"} :
       /\ runtime' = outcome
       /\ finished' = FinishedAfter(outcome)
  /\ Goes(s, "idle")
  /\ UNCHANGED <<scopes, waiters, used, lost>>

\* A task that waits for the lock is cancelled.  One that was leaving is
\* never counted out.
CancelQueued(s) ==
  /\ pc[s] \in {"entering", "leaving"}
  /\ \E i \in DOMAIN waiters :
       /\ waiters[i] = s
       /\ waiters' = SubSeq(waiters, 1, i - 1) \o SubSeq(waiters, i + 1, Len(waiters))
  /\ IF pc[s] = "leaving" THEN lost < MaxLost /\ lost' = lost + 1 ELSE UNCHANGED lost
  /\ Goes(s, "idle")
  /\ UNCHANGED <<runtime, scopes, finished, used>>

Progress(s) ==
  \/ (pc[s] # "idle" /\ Enter(s)) \/ InitializeReturns(s) \/ InitializeFails(s)
  \/ LeaveWait(s) \/ Leave(s) \/ CloseReturns(s)

Next == \E s \in Scopes : EnterWait(s) \/ (pc[s] = "idle" /\ Enter(s)) \/ Progress(s) \/ CancelQueued(s)

Spec == Init /\ [][Next]_vars

\* The store's initialize and the service's close end, and the lock is handed
\* on.  A scope may stay open for ever.
FairSpec == Spec /\ \A s \in Scopes : WF_vars(pc[s] # "inside" /\ Progress(s))

-----------------------------------------------------------------------------
(* Properties.                                                              *)

Open == {s \in Scopes : pc[s] \in {"inside", "leaving"}}

\* Whoever is inside the lifespan has a runtime that is initialized and not
\* being closed, whatever other scopes come, fail and go.
ReadyInside == Open # {} => runtime = "ready"

\* A runtime whose shutdown has begun is never used again, even if it failed.
NeverRestarted ==
  [][ runtime \notin {"new", "ready"} => runtime' \notin {"new", "ready"} ]_vars

\* When the last scope is gone the runtime has been closed, unless a scope was
\* cancelled on its way out.
LastScopeCloses ==
  used /\ lost = 0 /\ (\A s \in Scopes : pc[s] \in {"idle", "entering"}) =>
    finished /\ runtime \in {"closed", "failed"}

\* Nobody waits for the lock, or stays in initialize or close, for ever.
NobodyStuck == \A s \in Scopes : pc[s] \notin {"idle", "inside"} ~> pc[s] \in {"idle", "inside"}

-----------------------------------------------------------------------------
(* Why the properties hold: the parts of the inductive invariant.           *)

Counted == scopes = Cardinality(Open) + lost

\* One task holds the lock.
OneHolder ==
  \A s, t \in Scopes :
    pc[s] \in {"initializing", "closing"} /\ pc[t] \in {"initializing", "closing"} => s = t

\* How the count goes with the state of the runtime.
Phases ==
  /\ scopes > 0 => runtime = "ready" /\ used
  /\ scopes = 0 /\ used => runtime \in {"closing", "closed", "failed"}
  /\ finished <=> runtime \in {"closed", "failed"}
  /\ runtime = "closing" <=> \E s \in Scopes : pc[s] = "closing"
  /\ \A s \in Scopes : pc[s] = "initializing" => scopes = 0 /\ ~used /\ ~finished

Orderly == TypeOK /\ Counted /\ OneHolder /\ Phases

=============================================================================
