------------------------ MODULE RuntimeLifespanProofs ------------------------
(***************************************************************************)
(* Proofs about RuntimeLifespan, for any number of scopes: Orderly is an    *)
(* inductive invariant, and the safety properties follow from it.           *)
(***************************************************************************)
EXTENDS RuntimeLifespan, FiniteSetTheorems, TLAPS

\* How the number of open scopes follows the tasks.
LEMMA OpenFinite ==
  /\ IsFiniteSet(Open) /\ Cardinality(Open) \in 0..Cardinality(Scopes)
  /\ IsFiniteSet(Open') /\ Cardinality(Open') \in 0..Cardinality(Scopes)
  /\ Cardinality(Scopes) \in Nat
<1>1. IsFiniteSet(Scopes) BY LifespanAssumption
<1>2. Open \subseteq Scopes /\ Open' \subseteq Scopes BY DEF Open
<1> QED BY <1>1, <1>2, FS_Subset, FS_CardinalityType

LEMMA OpenGrows ==
  ASSUME TypeOK, NEW s \in Scopes, pc[s] \notin {"inside", "leaving"}, Goes(s, "inside")
  PROVE  Cardinality(Open') = Cardinality(Open) + 1
<1>1. Open' = Open \cup {s} /\ s \notin Open BY DEF Open, Goes, TypeOK
<1> QED BY <1>1, OpenFinite, FS_AddElement

LEMMA OpenShrinks ==
  ASSUME TypeOK, NEW s \in Scopes, pc[s] \in {"inside", "leaving"},
         NEW place \in {"idle", "closing"}, Goes(s, place)
  PROVE  Cardinality(Open') = Cardinality(Open) - 1
<1>1. Open' = Open \ {s} /\ s \in Open BY DEF Open, Goes, TypeOK
<1> QED BY <1>1, OpenFinite, FS_RemoveElement

\* The lock queue stays one of tasks.
LEMMA QueueTyped ==
  ASSUME TypeOK, NEW s \in Scopes
  PROVE  /\ Append(waiters, s) \in Seq(Scopes)
         /\ waiters # <<>> => Tail(waiters) \in Seq(Scopes)
         /\ \A i \in DOMAIN waiters :
              SubSeq(waiters, 1, i - 1) \o SubSeq(waiters, i + 1, Len(waiters)) \in Seq(Scopes)
<1> waiters \in Seq(Scopes) BY DEF TypeOK
<1>1. \A i \in DOMAIN waiters : SubSeq(waiters, 1, i - 1) \in Seq(Scopes) OBVIOUS
<1>2. \A i \in DOMAIN waiters : SubSeq(waiters, i + 1, Len(waiters)) \in Seq(Scopes) OBVIOUS
<1> QED BY <1>1, <1>2

LEMMA OrderlyInit == Init => Orderly
<1> SUFFICES ASSUME Init PROVE Orderly OBVIOUS
<1>1. Cardinality(Open) = 0
  <2>1. Open = {} BY DEF Init, Open
  <2> QED BY <2>1, FS_EmptySet
<1>2. TypeOK
  <2>1. waiters \in Seq(Scopes) BY DEF Init
  <2>2. pc \in [Scopes -> {"idle", "entering", "initializing", "inside", "leaving", "closing"}]
    BY DEF Init
  <2>3. scopes \in 0..(Cardinality(Scopes) + MaxLost) /\ lost \in 0..MaxLost
    BY OpenFinite, LifespanAssumption DEF Init
  <2> QED BY <2>1, <2>2, <2>3 DEF Init, TypeOK
<1>3. Counted BY <1>1 DEF Init, Counted
<1> QED BY <1>2, <1>3 DEF Init, Orderly, OneHolder, Phases

LEMMA OrderlyStep == Orderly /\ [Next]_vars => Orderly'
<1> SUFFICES ASSUME Orderly, [Next]_vars PROVE Orderly' OBVIOUS
<1>n. MaxLost \in Nat BY LifespanAssumption
<1>1. ASSUME NEW s \in Scopes, EnterWait(s) PROVE Orderly'
  <2> USE <1>1 DEF Orderly, EnterWait, Queues, Goes
  <2>1. TypeOK' BY QueueTyped DEF TypeOK
  <2>2. Counted' 
    <3>1. Open' = Open BY DEF TypeOK, Open
    <3> QED BY <3>1 DEF Counted
  <2>3. OneHolder' BY DEF TypeOK, OneHolder
  <2>4. Phases' BY DEF TypeOK, Phases
  <2> QED BY <2>1, <2>2, <2>3, <2>4
<1>2. ASSUME NEW s \in Scopes, Enter(s) PROVE Orderly'
  <2> USE <1>2 DEF Orderly, Enter, GetsLock
  <2>1. waiters' \in Seq(Scopes) BY QueueTyped DEF TypeOK
  <2>2. CASE Goes(s, "inside") /\ ~finished /\ scopes > 0 /\ scopes' = scopes + 1 /\ used' = TRUE
    <3> USE <2>2
    <3>1. Counted'
      <4>1. Cardinality(Open') = Cardinality(Open) + 1 BY OpenGrows
      <4> QED BY <4>1, OpenFinite DEF Counted, TypeOK
    <3>2. TypeOK'
      <4>1. pc' \in [Scopes -> {"idle", "entering", "initializing", "inside", "leaving", "closing"}]
        BY DEF TypeOK, Goes
      <4>2. scopes' \in 0..(Cardinality(Scopes) + MaxLost)
        BY <3>1, <1>n, OpenFinite DEF Counted, TypeOK
      <4> QED BY <2>1, <4>1, <4>2 DEF TypeOK
    <3>3. OneHolder' BY DEF TypeOK, OneHolder, Goes
    <3>4. Phases' BY DEF TypeOK, Phases, Goes
    <3> QED BY <3>1, <3>2, <3>3, <3>4
  <2>3. ASSUME NEW place \in {"idle", "initializing"}, Goes(s, place), UNCHANGED <<scopes, used>>,
               place = "initializing" => ~finished /\ scopes = 0
        PROVE  Orderly'
    <3> USE <2>3
    <3>1. TypeOK' BY <2>1 DEF TypeOK, Goes
    <3>2. Counted'
      <4>1. Open' = Open BY DEF TypeOK, Open, Goes
      <4> QED BY <4>1 DEF Counted
    <3>3. OneHolder' BY DEF TypeOK, OneHolder, Goes, Held
    <3>4. Phases' BY DEF TypeOK, Phases, Goes, Held
    <3> QED BY <3>1, <3>2, <3>3, <3>4
  <2> QED BY <2>2, <2>3
<1>3. ASSUME NEW s \in Scopes, InitializeReturns(s) PROVE Orderly'
  <2> USE <1>3 DEF Orderly, InitializeReturns
  <2>1. Counted'
    <3>1. Cardinality(Open') = Cardinality(Open) + 1 BY OpenGrows
    <3> QED BY <3>1, OpenFinite DEF Counted, TypeOK
  <2>2. TypeOK' BY <2>1, <1>n, OpenFinite DEF TypeOK, Goes, Counted
  <2>3. OneHolder' BY DEF TypeOK, OneHolder, Goes
  <2>4. Phases' BY DEF TypeOK, Phases, Goes, OneHolder
  <2> QED BY <2>1, <2>2, <2>3, <2>4
<1>4. ASSUME NEW s \in Scopes, InitializeFails(s) PROVE Orderly'
  <2> USE <1>4 DEF Orderly, InitializeFails, Goes
  <2>1. TypeOK' BY DEF TypeOK
  <2>2. Counted'
    <3>1. Open' = Open BY DEF TypeOK, Open
    <3> QED BY <3>1 DEF Counted
  <2>3. OneHolder' BY DEF TypeOK, OneHolder
  <2>4. Phases' BY DEF TypeOK, Phases, OneHolder
  <2> QED BY <2>1, <2>2, <2>3, <2>4
<1>5. ASSUME NEW s \in Scopes, LeaveWait(s) PROVE Orderly'
  <2> USE <1>5 DEF Orderly, LeaveWait, Queues, Goes
  <2>1. TypeOK' BY QueueTyped DEF TypeOK
  <2>2. Counted'
    <3>1. Open' = Open BY DEF TypeOK, Open
    <3> QED BY <3>1 DEF Counted
  <2>3. OneHolder' BY DEF TypeOK, OneHolder
  <2>4. Phases' BY DEF TypeOK, Phases
  <2> QED BY <2>1, <2>2, <2>3, <2>4
<1>6. ASSUME NEW s \in Scopes, Leave(s) PROVE Orderly'
  <2> USE <1>6 DEF Orderly, Leave, GetsLock, CountedOut, NoneLeft
  <2>1. waiters' \in Seq(Scopes) BY QueueTyped DEF TypeOK
  <2>2. PICK place \in {"idle", "closing"} : Goes(s, place) OBVIOUS
  <2>c. Cardinality(Open') = Cardinality(Open) - 1 BY <2>2, OpenShrinks
  <2>3. Counted' BY <2>c, OpenFinite DEF Counted, TypeOK
  <2>4. TypeOK'
    <3>1. pc' \in [Scopes -> {"idle", "entering", "initializing", "inside", "leaving", "closing"}]
      BY <2>2 DEF TypeOK, Goes
    <3>2. scopes' \in 0..(Cardinality(Scopes) + MaxLost)
      <4>1. scopes' = Cardinality(Open') + lost BY <2>3 DEF Counted
      <4>2. lost \in 0..MaxLost BY DEF TypeOK
      <4> HIDE <1>6 DEF Orderly, Leave, GetsLock
      <4> QED BY <4>1, <4>2, <1>n, OpenFinite
    <3> QED BY <2>1, <3>1, <3>2 DEF TypeOK
  <2>5. OneHolder' BY <2>2 DEF TypeOK, OneHolder, Goes, Held
  <2>6. scopes > 0 BY <2>c, OpenFinite, <1>n DEF Counted, TypeOK
  <2>7. Phases' BY <2>2, <2>6 DEF TypeOK, Phases, Goes, Held
  <2> QED BY <2>3, <2>4, <2>5, <2>7
<1>7. ASSUME NEW s \in Scopes, CloseReturns(s) PROVE Orderly'
  <2> USE <1>7 DEF Orderly, CloseReturns, Closes, FinishedAfter, Goes
  <2>1. TypeOK' BY DEF TypeOK
  <2>2. Counted'
    <3>1. Open' = Open BY DEF TypeOK, Open
    <3> QED BY <3>1 DEF Counted
  <2>3. OneHolder' BY DEF TypeOK, OneHolder
  <2>4. Phases' BY DEF TypeOK, Phases, OneHolder
  <2> QED BY <2>1, <2>2, <2>3, <2>4
<1>8. ASSUME NEW s \in Scopes, CancelQueued(s) PROVE Orderly'
  <2> USE <1>8 DEF Orderly, CancelQueued
  <2>1. TypeOK'
    <3>1. waiters' \in Seq(Scopes) BY QueueTyped DEF TypeOK
    <3>2. pc' \in [Scopes -> {"idle", "entering", "initializing", "inside", "leaving", "closing"}]
      BY DEF TypeOK, Goes
    <3>3. lost' \in 0..MaxLost BY <1>n DEF TypeOK
    <3> QED BY <3>1, <3>2, <3>3 DEF TypeOK
  <2>2. Counted'
    <3>1. CASE pc[s] = "entering"
      <4>1. Open' = Open BY <3>1 DEF TypeOK, Open, Goes
      <4> QED BY <4>1, <3>1 DEF Counted
    <3>2. CASE pc[s] = "leaving"
      <4>1. Cardinality(Open') = Cardinality(Open) - 1 BY <3>2, OpenShrinks
      <4> QED BY <4>1, <3>2, OpenFinite DEF Counted, TypeOK
    <3> QED BY <3>1, <3>2
  <2>3. OneHolder' BY DEF TypeOK, OneHolder, Goes
  <2>4. Phases' BY DEF TypeOK, Phases, Goes
  <2> QED BY <2>1, <2>2, <2>3, <2>4
<1>9. CASE UNCHANGED vars
  BY <1>9 DEF Orderly, vars, TypeOK, Counted, Open, OneHolder, Phases
<1> QED BY <1>1, <1>2, <1>3, <1>4, <1>5, <1>6, <1>7, <1>8, <1>9 DEF Next, Progress

LEMMA OrderlyHolds == Spec => []Orderly
<1> QED BY OrderlyInit, OrderlyStep, PTL DEF Spec

\* Every variable of the lifespan keeps its type: the count of scopes is
\* neither negative nor larger than the scopes there are and were lost.
THEOREM TypeCorrect == Spec => []TypeOK
<1>1. Orderly => TypeOK BY DEF Orderly
<1> QED BY <1>1, OrderlyHolds, PTL

\* runtime_lifespan yields only over an initialized runtime that nobody closes.
THEOREM InsideIsReady == Spec => []ReadyInside
<1>1. Orderly => ReadyInside
  <2> SUFFICES ASSUME Orderly, Open # {} PROVE runtime = "ready" BY DEF ReadyInside
  <2>1. Cardinality(Open) # 0 BY OpenFinite, FS_EmptySet
  <2> QED BY <2>1, OpenFinite, LifespanAssumption DEF Orderly, TypeOK, Counted, Phases
<1> QED BY <1>1, OrderlyHolds, PTL

\* The last scope to leave runtime_lifespan closes the service, unless one was
\* cancelled while it waited for _runtime_lock.
THEOREM LastCloses == Spec => []LastScopeCloses
<1>1. Orderly => LastScopeCloses
  <2> SUFFICES ASSUME Orderly, used, lost = 0, \A s \in Scopes : pc[s] \in {"idle", "entering"}
               PROVE  finished /\ runtime \in {"closed", "failed"}
    BY DEF LastScopeCloses
  <2>1. Open = {} BY DEF Open
  <2>2. scopes = 0 BY <2>1, FS_EmptySet DEF Orderly, Counted
  <2> QED BY <2>2 DEF Orderly, Phases
<1> QED BY <1>1, OrderlyHolds, PTL

\* A runtime whose shutdown has begun is never initialized again.
THEOREM NotRestarted == Spec => NeverRestarted
<1>1. Orderly /\ [Next]_vars =>
        [runtime \notin {"new", "ready"} => runtime' \notin {"new", "ready"}]_vars
  <2> SUFFICES ASSUME Orderly, Next, runtime \notin {"new", "ready"}
               PROVE  runtime' \notin {"new", "ready"}
    OBVIOUS
  <2>1. \A s \in Scopes : pc[s] # "initializing"
    BY DEF Orderly, TypeOK, OneHolder, Phases
  <2>2. PICK s \in Scopes :
          EnterWait(s) \/ (pc[s] = "idle" /\ Enter(s)) \/ Progress(s) \/ CancelQueued(s)
    BY DEF Next
  <2> QED BY <2>1, <2>2 DEF Progress, EnterWait, Enter, InitializeReturns, InitializeFails,
        LeaveWait, Leave, CloseReturns, CancelQueued
<1> QED BY <1>1, OrderlyHolds, PTL DEF Spec, NeverRestarted

=============================================================================
