--------------------------- MODULE ToolCallProofs ---------------------------
(***************************************************************************)
(* What a tool call may ask of a vehicle, what it may return and what it    *)
(* may let out, for any profiles, configurations, requests, driver answers  *)
(* and limits; and that what the server builds itself passes its own checks. *)
(***************************************************************************)
EXTENDS ToolCall, SequenceLemmas

-----------------------------------------------------------------------------
(* Sequences.                                                               *)

\* What is picked comes from the places, each at most once.
LEMMA PickedFacts ==
  ASSUME NEW S, NEW s \in Seq(S), NEW places \in SUBSET (DOMAIN s)
  PROVE  /\ Picked(s, places) \in Seq(S)
         /\ \E place \in [1..Cardinality(places) -> places] :
              /\ IsInjective(place)
              /\ Picked(s, places) = [k \in 1..Cardinality(places) |-> s[place[k]]]
<1> DEFINE count == Cardinality(places)
           place == [k \in 1..count |-> CHOOSE i \in places : Rank(places, i) = k]
<1>1. places \in SUBSET (1..Len(s)) /\ Len(s) \in Nat
  OBVIOUS
<1>2. count \in Nat
  <2>1. IsFiniteSet(1..Len(s)) BY <1>1, FS_Interval
  <2>2. IsFiniteSet(places) BY <1>1, <2>1, FS_Subset
  <2> QED BY <2>2, FS_CardinalityType
<1>3. \A k \in 1..count : place[k] \in places /\ Rank(places, place[k]) = k
  BY <1>1, Ranked
<1>4. place \in [1..count -> places]
  BY <1>3
<1>5. IsInjective(place)
  BY <1>3 DEF IsInjective
<1>6. Picked(s, places) = [k \in 1..count |-> s[place[k]]]
  BY DEF Picked, Rank
<1>7. [k \in 1..count |-> s[place[k]]] \in Seq(S)
  <2>1. \A k \in 1..count : s[place[k]] \in S BY <1>3, <1>1
  <2> HIDE DEF place
  <2> QED BY <2>1, <1>2
<1> QED BY <1>4, <1>5, <1>6, <1>7

-----------------------------------------------------------------------------
(* What is asked.                                                           *)

LEMMA FirstMentionsFacts ==
  ASSUME NEW S, NEW pids \in Seq(S)
  PROVE  /\ FirstMentions(pids) \in Seq(S)
         /\ IsInjective(FirstMentions(pids))
<1> DEFINE firsts == {i \in DOMAIN pids : \A j \in 1..i - 1 : pids[j] # pids[i]}
           n == Cardinality(firsts)
<1>1. /\ Picked(pids, firsts) \in Seq(S)
      /\ \E place \in [1..n -> firsts] :
           IsInjective(place) /\ Picked(pids, firsts) = [k \in 1..n |-> pids[place[k]]]
  <2>1. firsts \in SUBSET (DOMAIN pids) OBVIOUS
  <2> HIDE DEF firsts
  <2> QED BY <2>1, PickedFacts
<1>2. \A i, j \in firsts : i \in 1..Len(pids) /\ (pids[i] = pids[j] => i = j)
  <2>1. \A i, j \in firsts : i \in 1..Len(pids) /\ j \in 1..Len(pids) /\ Len(pids) \in Nat OBVIOUS
  <2>2. ASSUME NEW i \in firsts, NEW j \in firsts, i < j PROVE pids[i] # pids[j]
    BY <2>1, <2>2
  <2>3. ASSUME NEW i \in firsts, NEW j \in firsts, pids[i] = pids[j] PROVE i = j
    <3>1. ~ (i < j) /\ ~ (j < i) BY <2>2, <2>3
    <3> QED BY <3>1, <2>1
  <2> QED BY <2>1, <2>3
<1>3. FirstMentions(pids) = Picked(pids, firsts)
  BY DEF FirstMentions
<1> HIDE DEF firsts
<1>4. PICK place \in [1..n -> firsts] :
        IsInjective(place) /\ Picked(pids, firsts) = [k \in 1..n |-> pids[place[k]]]
  BY <1>1
<1>5. \A k, l \in 1..n : pids[place[k]] = pids[place[l]] => k = l
  BY <1>2, <1>4 DEF IsInjective
<1>6. IsInjective(Picked(pids, firsts))
  BY <1>4, <1>5 DEF IsInjective
<1> QED BY <1>1, <1>3, <1>6

\* The PIDs a request stands for are allowed ones, each once.
LEMMA PidsFacts ==
  ASSUME NEW spelled, spelled = None \/ spelled \in Seq(Range(spelled)),
         AuthorizeStandardPids(spelled) # None
  PROVE  /\ AuthorizeStandardPids(spelled) \in Seq(Pids)
         /\ Range(AuthorizeStandardPids(spelled)) \subseteq Pids
         /\ IsInjective(AuthorizeStandardPids(spelled))
<1>1. CASE spelled = None
  <2>1. AllPids \in Seq(Pids) /\ Range(AllPids) \subseteq Pids
    BY DEF AllPids, Pids, Range
  <2>2. IsInjective(AllPids)
    BY DEF AllPids, IsInjective
  <2> QED BY <1>1, <2>1, <2>2 DEF AuthorizeStandardPids
<1>2. CASE spelled # None
  <2> DEFINE pids == [i \in DOMAIN spelled |-> NormalizePid(spelled[i])]
  <2>1. /\ Range(pids) \subseteq Pids
        /\ AuthorizeStandardPids(spelled) = FirstMentions(pids)
    BY <1>2 DEF AuthorizeStandardPids
  <2>2. DOMAIN spelled = 1..Len(spelled) /\ Len(spelled) \in Nat
    BY <1>2
  <2>3. \A i \in 1..Len(spelled) : pids[i] \in Pids
    BY <2>1, <2>2 DEF Range
  <2>4. pids \in Seq(Pids)
    <3>1. pids = [i \in 1..Len(spelled) |-> pids[i]] BY <2>2
    <3> HIDE DEF pids
    <3>2. pids \in [1..Len(spelled) -> Pids] BY <3>1, <2>3
    <3> QED BY <3>2, <2>2
  <2>5. FirstMentions(pids) \in Seq(Pids) /\ IsInjective(FirstMentions(pids))
    <3> HIDE DEF pids
    <3> QED BY <2>4, FirstMentionsFacts
  <2>6. Range(FirstMentions(pids)) \subseteq Pids
    <3> HIDE DEF pids
    <3> QED BY <2>5 DEF Range
  <2> QED BY <2>1, <2>5, <2>6
<1> QED BY <1>1, <1>2

LEMMA ReadsForFacts ==
  ASSUME NEW profile, profile # None, profile.reads \in Seq(Range(profile.reads)),
         ValidDocument(profile), NEW ecu
  PROVE  LET reads == ReadsFor(profile, ecu)
         IN /\ reads \in Seq(Range(profile.reads))
            /\ \A read \in Range(reads) :
                 read \in Range(profile.reads) /\ read.ecu = ecu /\ ValidRead(read)
            /\ \A i, j \in DOMAIN reads :
                 reads[i].signal # None /\ reads[i].signal = reads[j].signal => i = j
<1> DEFINE all == profile.reads
           own == {i \in DOMAIN all : all[i].ecu = ecu}
           n == Cardinality(own)
           reads == Picked(all, own)
<1>1. reads = ReadsFor(profile, ecu)
  BY DEF ReadsFor
<1>2. /\ reads \in Seq(Range(all))
      /\ \E place \in [1..n -> own] : IsInjective(place) /\ reads = [k \in 1..n |-> all[place[k]]]
  <2>1. own \in SUBSET (DOMAIN all) /\ all \in Seq(Range(all)) OBVIOUS
  <2> HIDE DEF own, all
  <2>2. PICK S : S = Range(all) OBVIOUS
  <2>3. all \in Seq(S) BY <2>1, <2>2
  <2>4. /\ reads \in Seq(S)
        /\ \E place \in [1..n -> own] : IsInjective(place) /\ reads = [k \in 1..n |-> all[place[k]]]
    <3>1. /\ Picked(all, own) \in Seq(S)
          /\ \E place \in [1..Cardinality(own) -> own] :
               /\ IsInjective(place)
               /\ Picked(all, own) = [k \in 1..Cardinality(own) |-> all[place[k]]]
      BY ONLY <2>1, <2>3, PickedFacts
    <3> QED BY <3>1
  <2> QED BY <2>2, <2>4
<1>3. PICK place \in [1..n -> own] : IsInjective(place) /\ reads = [k \in 1..n |-> all[place[k]]]
  BY <1>2
<1>4. \A read \in Range(all) : ValidRead(read)
  BY DEF ValidDocument
<1>5. \A i, j \in own : all[i].signal # None /\ all[i].signal = all[j].signal => i = j
  <2> DEFINE signals == {i \in DOMAIN all : all[i].signal # None}
             pair == [i \in signals |-> <<all[i].ecu, all[i].signal>>]
  <2>1. \A i, j \in signals : pair[i] = pair[j] => i = j
    BY DEF ValidDocument, Unambiguous, IsInjective
  <2>2. ASSUME NEW i \in own, NEW j \in own, all[i].signal # None, all[i].signal = all[j].signal
        PROVE  i = j
    <3>1. i \in signals /\ j \in signals BY <2>2
    <3>2. pair[i] = pair[j] BY <2>2, <3>1
    <3> QED BY <2>1, <3>1, <3>2
  <2> QED BY <2>2
<1>6. \A i \in own : all[i].ecu = ecu /\ all[i] \in Range(all)
  BY DEF Range
<1> HIDE DEF own, all, reads
<1>7. \A read \in Range(reads) : read \in Range(all) /\ read.ecu = ecu /\ ValidRead(read)
  BY <1>3, <1>4, <1>6 DEF Range
<1>8. \A i, j \in DOMAIN reads : reads[i].signal # None /\ reads[i].signal = reads[j].signal => i = j
  BY <1>3, <1>5 DEF IsInjective
<1> QED BY <1>1, <1>2, <1>7, <1>8 DEF all

-----------------------------------------------------------------------------
(* The inductive invariant.                                                 *)

\* The registry gave the document configured for the vehicle, as it was vetted.
Bound ==
  /\ bound = declared
  /\ bound # None => bound.reads \in Seq(Range(bound.reads)) /\ ValidDocument(bound)

Simulates == simulator # None => \A ecu \in DOMAIN ecus : ecus[ecu] = "simulated"

AskedFor(r) ==
  [op      |-> r.op,
   ecu     |-> r.ecu,
   pids    |-> IF r.op = "pids" THEN PidsAsked(r) ELSE <<>>,
   reads   |-> IF r.op = "snapshot" THEN ReadsFor(bound, r.ecu) ELSE <<>>,
   profile |-> IF r.op = "snapshot" /\ bound # None THEN bound.id ELSE None]

\* What is asked is the request, which passed the policy and the scope.
Vetted ==
  /\ step \in {"down", "idle", "scoping", "waiting"} => asked = None
  /\ step \in {"scoping", "waiting", "asked"} \/ asked # None =>
       request \in Requests /\ PolicyAllows(request)
  /\ step \in {"waiting", "asked"} \/ asked # None => ScopeAllows(request, scope)
  /\ step = "asked" \/ asked # None => asked = AskedFor(request)

\* Only the core's errors have the core's words, and the SDK's error about refused
\* input, which quotes it, has its cause.
Worded ==
  /\ step = "done" /\ outcome.kind = "error" /\ outcome.class = "core" =>
       outcome.text = Said("core", outcome.text.vin, outcome.text.length)
  /\ stage = "raised" =>
       /\ raised.text.from # "driver"
       /\ raised.text.from = "input" => HasValidationCause(raised)

\* What is buffered is what was heard, measured; what was fed is its beginning.
Buffered ==
  /\ heard \in Seq(ClientMessages) /\ messages = heard
  /\ IsFiniteSet(BytesIn(heard)) /\ total = BytesOf(heard)
  /\ fed \in Seq(ClientMessages)
  /\ \A i \in 1..Len(fed) : fed[i] = IF i <= Len(heard) THEN heard[i] ELSE Disconnect
  /\ stage # "app" => fed = <<>>
  /\ stage = "headers" => heard = <<>>
  /\ IF stage = "rejected" THEN heard # <<>> => total > MaxBytes ELSE total <= MaxBytes

Sound ==
  /\ Bound /\ Simulates /\ Vetted /\ Worded /\ Buffered
  /\ OnlyDeclaredReads /\ AttributableSignals /\ NothingLeaks /\ BodyReplayed

-----------------------------------------------------------------------------
(* The steps of a read, among those of a call.                              *)

MutateRead ==
  /\ simulator = None /\ metadata' \in Metadata
  /\ UNCHANGED <<bound, declared, simulator, ecus, status, step, request, scope, asked, over,
                 outcome>>

ReadNext ==
  \/ StartUp \/ Change \/ Expire \/ (\E r \in Requests : Begin(r)) \/ CachedStatus \/ FetchStatus
  \/ Ask \/ Answer \/ DriverFails \/ Finish \/ MutateRead \/ UNCHANGED readVars

LEMMA CallSteps == Next => ReadNext
<1> SUFFICES ASSUME Next PROVE ReadNext
  OBVIOUS
<1>1. ASSUME NEW length, CheckLength(length) PROVE ReadNext
  BY <1>1 DEF CheckLength, ReadNext
<1>2. ASSUME NEW message, Receive(message) PROVE ReadNext
  BY <1>2 DEF Receive, ReadNext
<1>3. CASE Replay \/ Dispatch \/ SdkRefuses \/ Invoke \/ Convert \/ PublishError \/ PublishResult
           \/ GetPrompt \/ ReadResource
  BY <1>3 DEF Replay, Dispatch, SdkRefuses, Invoke, Convert, PublishError, PublishResult,
              GetPrompt, ReadResource, ReadNext
<1>4. CASE CallService
  BY <1>4 DEF CallService, ReadNext
<1>5. CASE Mutate
  BY <1>5 DEF Mutate, MutateRead, ReadNext
<1>6. CASE NextCall
  BY <1>6 DEF NextCall, ReadNext
<1>7. CASE StartUp \/ Change \/ Expire \/ CachedStatus \/ FetchStatus \/ Ask \/ Answer \/ DriverFails
  BY <1>7 DEF ReadNext
<1> QED BY <1>1, <1>2, <1>3, <1>4, <1>5, <1>6, <1>7 DEF Next

-----------------------------------------------------------------------------
(* The binding.                                                             *)

LEMMA Binding ==
  ASSUME NEW files \in Files, NEW config \in Configs, ProfilesLoad(files, config),
         config[Target] # None
  PROVE  /\ BoundProfile(files, config, Target) = files[config[Target]]
         /\ files[config[Target]].reads \in Seq(Range(files[config[Target]].reads))
         /\ ValidDocument(files[config[Target]])
<1> DEFINE path == config[Target]
           id   == files[path].id
<1>1. path \in UsedPaths(config) /\ path \in DOMAIN files
  BY ConfigsAssumption DEF UsedPaths, Range
<1>2. ValidDocument(files[path]) /\ files[path].reads \in Seq(Range(files[path].reads))
  BY <1>1, FilesAssumption DEF ProfilesLoad
<1>3. \A p \in UsedPaths(config) : files[p].id = id => p = path
  BY <1>1 DEF ProfilesLoad, IdsDistinct
<1>4. (CHOOSE p \in UsedPaths(config) : files[p].id = id) = path
  <2> HIDE DEF path
  <2> QED BY <1>1, <1>3
<1>5. RegistryGet(files, config, id) = files[path]
  BY <1>4 DEF RegistryGet
<1> QED BY <1>2, <1>5 DEF BoundProfile

LEMMA BoundStep ==
  ASSUME Bound, ReadNext
  PROVE  Bound'
<1>1. CASE StartUp
  <2>1. PICK files \in Files, config \in Configs :
          /\ ProfilesLoad(files, config)
          /\ bound' = BoundProfile(files, config, Target)
          /\ declared' = IF config[Target] = None THEN None ELSE files[config[Target]]
    BY <1>1 DEF StartUp
  <2>2. CASE config[Target] = None
    BY <2>1, <2>2 DEF BoundProfile, Bound
  <2>3. CASE config[Target] # None
    BY <2>1, <2>3, Binding DEF Bound
  <2> QED BY <2>2, <2>3
<1>2. CASE ~ StartUp
  <2>1. UNCHANGED <<bound, declared>>
    BY <1>2 DEF ReadNext, Change, Expire, Begin, CachedStatus, FetchStatus, Ask, Answer, DriverFails,
                Finish, MutateRead, readVars
  <2> QED BY <2>1 DEF Bound
<1> QED BY <1>1, <1>2

LEMMA SimulatesStep ==
  ASSUME Simulates, ReadNext
  PROVE  Simulates'
<1>1. CASE StartUp
  BY <1>1 DEF StartUp, Simulates, SimulatedEcus
<1>2. CASE Change
  BY <1>2 DEF Change, Simulates
<1>3. CASE ~ StartUp /\ ~ Change
  <2>1. UNCHANGED <<simulator, ecus>>
    BY <1>3 DEF ReadNext, Expire, Begin, CachedStatus, FetchStatus, Ask, Answer, DriverFails,
                Finish, MutateRead, readVars
  <2> QED BY <2>1 DEF Simulates
<1> QED BY <1>1, <1>2, <1>3

-----------------------------------------------------------------------------
(* The request and what is asked for it.                                    *)

\* A request goes on to the vehicle only when the scope allows it.
LEMMA ScopedFacts ==
  ASSUME NEW known, Scoped(known)
  PROVE  /\ scope' = known
         /\ step' = "done" \/ (step' = "waiting" /\ ScopeAllows(request, known))
<1>1. ScopeError(request, known, metadata') = None => ScopeAllows(request, known)
  BY NoneAssumption DEF ScopeError
<1> QED BY <1>1 DEF Scoped, Ends

LEMMA VettedStep ==
  ASSUME Vetted, ReadNext
  PROVE  Vetted'
<1>1. CASE StartUp
  <2>1. step' = "idle" /\ asked = None /\ asked' = None
    BY <1>1 DEF StartUp, Vetted
  <2> QED BY <2>1 DEF Vetted
<1>2. CASE \E r \in Requests : Begin(r)
  <2>1. PICK r \in Requests : Begin(r) BY <1>2
  <2>2. asked = None /\ asked' = None /\ bound' = bound /\ request' = r
    BY <2>1 DEF Begin, Vetted
  <2>3. (step' = "scoping" /\ PolicyAllows(r)) \/ step' = "done"
    BY <2>1 DEF Begin, Ends
  <2>4. PolicyAllows(r) => PolicyAllows(request)'
    BY <2>2 DEF PolicyAllows
  <2> QED BY <2>1, <2>2, <2>3, <2>4 DEF Vetted
<1>3. CASE CachedStatus \/ FetchStatus
  <2>1. PICK known : Scoped(known)
    BY <1>3 DEF CachedStatus, FetchStatus
  <2>2. /\ step = "scoping" /\ asked = None /\ asked' = None
        /\ bound' = bound /\ request' = request
        /\ request \in Requests /\ PolicyAllows(request)
    BY <1>3 DEF CachedStatus, FetchStatus, Vetted
  <2>3. /\ PolicyAllows(request)'
        /\ ScopeAllows(request, known) => ScopeAllows(request, known)'
    BY <2>2 DEF PolicyAllows, ScopeAllows
  <2> QED BY <2>1, <2>2, <2>3, ScopedFacts DEF Vetted
<1>4. CASE Ask
  <2>1. /\ step = "waiting" /\ step' = "asked"
        /\ UNCHANGED <<bound, request, scope>>
        /\ asked' = AskedFor(request)
    BY <1>4 DEF Ask, AskedFor
  <2>2. asked' = AskedFor(request)'
    BY <2>1 DEF AskedFor
  <2>3. PolicyAllows(request)' = PolicyAllows(request)
    BY <2>1 DEF PolicyAllows
  <2>4. ScopeAllows(request, scope)' = ScopeAllows(request, scope)
    BY <2>1 DEF ScopeAllows
  <2> QED BY <2>1, <2>2, <2>3, <2>4 DEF Vetted
<1>5. CASE Finish
  <2>1. step' = "idle" /\ asked' = None BY <1>5 DEF Finish
  <2> QED BY <2>1 DEF Vetted
<1>6. CASE \/ Change \/ Expire \/ Answer \/ DriverFails \/ MutateRead \/ UNCHANGED readVars
  <2>1. UNCHANGED <<bound, request, scope, asked>> /\ (step' = step \/ step' = "done")
    BY <1>6 DEF Change, Expire, Answer, DriverFails, MutateRead, readVars, Ends
  <2>2. AskedFor(request)' = AskedFor(request)
    BY <2>1 DEF AskedFor
  <2>3. PolicyAllows(request)' = PolicyAllows(request)
    BY <2>1 DEF PolicyAllows
  <2>4. ScopeAllows(request, scope)' = ScopeAllows(request, scope)
    BY <2>1 DEF ScopeAllows
  <2> QED BY <2>1, <2>2, <2>3, <2>4 DEF Vetted
<1> QED BY <1>1, <1>2, <1>3, <1>4, <1>5, <1>6 DEF ReadNext

\* What was asked is declared.
LEMMA DeclaredOnly ==
  ASSUME Bound, Vetted
  PROVE  OnlyDeclaredReads
<1> SUFFICES ASSUME asked # None
             PROVE  /\ Range(asked.pids) \subseteq Pids
                    /\ asked.op = "snapshot" /\ declared # None =>
                         /\ asked.reads # <<>> /\ asked.profile = declared.id
                         /\ \A read \in Range(asked.reads) :
                              /\ read \in Range(declared.reads) /\ read.ecu = asked.ecu
                              /\ read.service \in {25, 34}
                              /\ read.service = 34 => read.identifier # VIN_DID
                         /\ declared.ecus # {} => asked.ecu \in declared.ecus
                    /\ declared = None => asked.reads = <<>>
  BY DEF OnlyDeclaredReads
<1>1. /\ request \in Requests /\ PolicyAllows(request)
      /\ asked = AskedFor(request) /\ bound = declared
  BY DEF Vetted, Bound
<1>2. Range(asked.pids) \subseteq Pids
  <2>1. CASE request.op = "pids"
    <3>1. asked.pids = AuthorizeStandardPids(request.pids)
      BY <1>1, <2>1 DEF AskedFor, PidsAsked
    <3>2. AuthorizeStandardPids(request.pids) # None
      BY <1>1, <2>1 DEF PolicyAllows, PidsAsked
    <3>3. request.pids = None \/ request.pids \in Seq(Range(request.pids))
      BY <1>1, RequestsAssumption
    <3> QED BY <3>1, <3>2, <3>3, PidsFacts
  <2>2. CASE request.op # "pids"
    <3>1. asked.pids = <<>> BY <1>1, <2>2 DEF AskedFor
    <3> QED BY <3>1 DEF Range
  <2> QED BY <2>1, <2>2
<1>3. declared = None => asked.reads = <<>>
  BY <1>1 DEF AskedFor, ReadsFor
<1>4. ASSUME asked.op = "snapshot", declared # None
      PROVE  /\ asked.reads # <<>> /\ asked.profile = declared.id
             /\ \A read \in Range(asked.reads) :
                  /\ read \in Range(declared.reads) /\ read.ecu = asked.ecu
                  /\ read.service \in {25, 34}
                  /\ read.service = 34 => read.identifier # VIN_DID
             /\ declared.ecus # {} => asked.ecu \in declared.ecus
  <2>1. /\ request.op = "snapshot" /\ asked.ecu = request.ecu
        /\ asked.reads = ReadsFor(declared, request.ecu) /\ asked.profile = declared.id
    BY <1>1, <1>4 DEF AskedFor
  <2>2. ContextAllows(declared, request.ecu, request.wanted)
    BY <1>1, <2>1 DEF PolicyAllows
  <2>3. asked.reads # <<>> /\ (declared.ecus # {} => asked.ecu \in declared.ecus)
    BY <1>4, <2>1, <2>2 DEF ContextAllows
  <2>4. declared.reads \in Seq(Range(declared.reads)) /\ ValidDocument(declared)
    BY <1>1, <1>4 DEF Bound
  <2>5. \A read \in Range(ReadsFor(declared, request.ecu)) :
          read \in Range(declared.reads) /\ read.ecu = request.ecu /\ ValidRead(read)
    BY <1>4, <2>4, ReadsForFacts
  <2>6. \A read : ValidRead(read) =>
          read.service \in {25, 34} /\ (read.service = 34 => read.identifier # VIN_DID)
    BY DEF ValidRead, AuthorizesUdsService, READ_ONLY_UDS_SERVICES
  <2> QED BY <2>1, <2>3, <2>5, <2>6
<1> QED BY <1>2, <1>3, <1>4

-----------------------------------------------------------------------------
(* The answer.                                                              *)

\* Readings that are accepted are one each for some of the PIDs that were asked.
LEMMA ReadingsAttributed ==
  ASSUME NEW readings, NEW vehicle, NEW pids, NEW known,
         ReadingsAccepted(readings, vehicle, pids, known), IsInjective(pids),
         NEW i \in DOMAIN readings
  PROVE  /\ readings[i].label = StandardLabel(readings[i].pid)
         /\ Cardinality({j \in DOMAIN pids : pids[j] = readings[i].pid}) = 1
         /\ \A j \in DOMAIN readings : readings[j].signal = readings[i].signal => j = i
<1>1. \A r \in Range(readings) : r.pid \in Range(pids) /\ StandardSemantics(r)
  BY DEF ReadingsAccepted
<1>2. \A j \in DOMAIN readings : readings[j] \in Range(readings)
  BY DEF Range
<1>3. PICK j \in DOMAIN pids : pids[j] = readings[i].pid
  BY <1>1, <1>2 DEF Range
<1>4. {k \in DOMAIN pids : pids[k] = readings[i].pid} = {j}
  BY <1>3 DEF IsInjective
<1>5. \A k, l \in DOMAIN readings : readings[k].pid = readings[l].pid => k = l
  BY DEF ReadingsAccepted, IsInjective
<1>6. \A k \in DOMAIN readings : readings[k].signal = StandardSignal(readings[k].pid)
  BY <1>1, <1>2 DEF StandardSemantics
<1>7. ASSUME NEW k \in DOMAIN readings, readings[k].signal = readings[i].signal PROVE k = i
  <2>1. readings[k].pid = readings[i].pid BY <1>6, <1>7 DEF StandardSignal
  <2> QED BY <1>5, <2>1
<1>8. readings[i].label = StandardLabel(readings[i].pid)
  BY <1>1, <1>2 DEF StandardSemantics
<1> QED BY <1>4, <1>7, <1>8, FS_Singleton

\* What a driver can answer for a snapshot, and what the service makes of it.
LEMMA SnapshotAnswered ==
  ASSUME Simulates, asked.op = "snapshot", asked.ecu \in DOMAIN ecus,
         NEW answer \in IF simulator # None THEN SimulatorAnswers ELSE PluginAnswers
  PROVE  /\ answer.protocol = ecus[asked.ecu]
         /\ Returned(answer).signals = answer.signals /\ Returned(answer).dtcs = answer.dtcs
         /\ Returned(answer).profile = IF bound = None THEN None ELSE bound.id
         /\ Returned(answer).provenance = IF bound = None THEN None ELSE bound.provenance
<1>1. \E signals, dtcs, id :
        answer = [vehicle |-> Target, ecu |-> asked.ecu, protocol |-> ecus[asked.ecu],
                  profile |-> id, provenance |-> answer.provenance,
                  signals |-> signals, dtcs |-> dtcs]
  <2>1. CASE simulator # None
    <3>1. ecus[asked.ecu] = "simulated" BY <2>1 DEF Simulates
    <3>2. PICK f \in Fractions :
            answer = SimulatedSnapshot(Target, simulator, asked.ecu, asked.reads, asked.profile, f)
      BY <2>1 DEF SimulatorAnswers
    <3> QED BY <3>1, <3>2 DEF SimulatedSnapshot
  <2>2. CASE simulator = None
    BY <2>2 DEF PluginAnswers
  <2> QED BY <2>1, <2>2
<1>2. Returned(answer) = Attributed(answer, bound)
  BY DEF Returned
<1> QED BY <1>1, <1>2 DEF Attributed

\* With a profile: each signal is that of one read, by its name.
LEMMA SignalsAttributed ==
  ASSUME Bound, bound # None, NEW ecu, NEW signals, NEW vehicle,
         SignalsAccepted(signals, vehicle, ecu, ReadsFor(bound, ecu), bound),
         NEW signal \in Range(signals)
  PROVE  LET reads == ReadsFor(bound, ecu)
         IN \E i \in DOMAIN reads :
              /\ \A j \in DOMAIN reads : reads[j].signal = signal.signal <=> j = i
              /\ signal.label[1] = reads[i].name
<1> DEFINE reads == ReadsFor(bound, ecu)
<1>1. /\ \A read \in Range(reads) : ValidRead(read)
      /\ \A i, j \in DOMAIN reads :
           reads[i].signal # None /\ reads[i].signal = reads[j].signal => i = j
  BY ReadsForFacts DEF Bound
<1>2. /\ \E read \in ValueReads(reads) : read.signal = signal.signal
      /\ DeclaredSemantics(signal, reads)
  BY DEF SignalsAccepted, AllowedSignals
<1> HIDE DEF reads
<1>3. PICK read \in ValueReads(reads) :
        read.signal = signal.signal /\ signal.label = <<read.name, read.decoder.unit>>
  <2> DEFINE read == CHOOSE read \in ValueReads(reads) : read.signal = signal.signal
  <2>1. read \in ValueReads(reads) /\ read.signal = signal.signal
    BY <1>2
  <2>2. signal.label = <<read.name, read.decoder.unit>>
    BY <1>2 DEF DeclaredSemantics
  <2> HIDE DEF read
  <2> QED BY <2>1, <2>2
<1>4. read \in Range(reads) /\ read.signal # None
  BY <1>1, <1>3 DEF ValueReads, ValidRead
<1>5. PICK i \in DOMAIN reads : reads[i] = read
  BY <1>4 DEF Range
<1>6. \A j \in DOMAIN reads : reads[j].signal = signal.signal <=> j = i
  BY <1>1, <1>3, <1>4, <1>5
<1> QED BY <1>3, <1>5, <1>6 DEF reads

LEMMA AnswerAttributes ==
  ASSUME Bound, Simulates, Vetted, Answer
  PROVE  AttributableSignals'
<1>1. /\ asked = AskedFor(request) /\ PolicyAllows(request) /\ request \in Requests
      /\ ScopeAllows(request, scope)
  BY DEF Answer, Vetted
<1>2. UNCHANGED <<bound, declared, scope, asked, request>> /\ over' = ecus /\ bound = declared
  BY DEF Answer, Bound
<1>3. PICK answer \in IF simulator # None THEN SimulatorAnswers ELSE PluginAnswers :
        outcome' = IF Accepted(answer) THEN Result(Returned(answer)) ELSE DriverError
  BY DEF Answer, Ends
<1>4. CASE ~ Accepted(answer)
  <2>1. outcome'.kind = "error" BY <1>3, <1>4 DEF DriverError, Error
  <2> QED BY <2>1 DEF AttributableSignals, Answered
<1>5. CASE Accepted(answer)
  <2>1. outcome'.value = Returned(answer)
    BY <1>3, <1>5 DEF Result
  <2>2. asked.op = request.op /\ asked.ecu = request.ecu
    BY <1>1 DEF AskedFor
  <2>3. CASE asked.op = "pids"
    <3>1. outcome'.value = answer /\ ReadingsAccepted(answer, Target, asked.pids, DOMAIN scope)
      BY <1>5, <2>1, <2>3 DEF Returned, Accepted
    <3>2. IsInjective(asked.pids)
      <4>1. asked.pids = AuthorizeStandardPids(request.pids)
        BY <1>1, <2>2, <2>3 DEF AskedFor, PidsAsked
      <4>2. AuthorizeStandardPids(request.pids) # None
        BY <1>1, <2>2, <2>3 DEF PolicyAllows, PidsAsked
      <4>3. request.pids = None \/ request.pids \in Seq(Range(request.pids))
        BY <1>1, RequestsAssumption
      <4> QED BY <4>1, <4>2, <4>3, PidsFacts
    <3> QED BY <1>2, <2>3, <3>1, <3>2, ReadingsAttributed DEF AttributableSignals
  <2>4. CASE asked.op = "dtcs"
    <3>1. /\ outcome'.value = answer
          /\ DtcsAccepted(answer, Target, asked.ecu, DOMAIN scope, "obd")
      BY <1>5, <2>1, <2>4 DEF Returned, Accepted
    <3> QED BY <1>2, <2>4, <3>1 DEF AttributableSignals, DtcsAccepted
  <2>5. CASE asked.op = "snapshot"
    <3> DEFINE reads == ReadsFor(bound, asked.ecu)
    <3>1. asked.reads = reads
      BY <1>1, <2>2, <2>5 DEF AskedFor
    <3>2. SnapshotAccepted(answer, Target, asked.ecu, reads, bound, DOMAIN scope, scope[asked.ecu])
      BY <1>5, <2>5, <3>1 DEF Accepted
    <3>3. /\ answer.protocol = ecus[asked.ecu]
          /\ outcome'.value.signals = answer.signals /\ outcome'.value.dtcs = answer.dtcs
          /\ outcome'.value.profile = IF bound = None THEN None ELSE bound.id
          /\ outcome'.value.provenance = IF bound = None THEN None ELSE bound.provenance
      BY <1>3, <2>1, <2>5, SnapshotAnswered DEF Answer
    <3>4. over'[asked.ecu] = scope[asked.ecu] /\ asked.ecu \in DOMAIN scope
      BY <1>2, <3>2, <3>3 DEF SnapshotAccepted
    <3>5. SignalsAccepted(answer.signals, Target, asked.ecu, reads, bound)
      BY <3>2 DEF SnapshotAccepted
    <3>6. CASE declared # None
      <4>1. scope[asked.ecu] \in UDS_PROTOCOLS
        BY <1>1, <1>2, <2>2, <2>5, <3>6 DEF ScopeAllows
      <4>2. answer.dtcs # <<>> => \E read \in Range(reads) : read.service = 25
        BY <1>2, <3>2, <3>6 DEF SnapshotAccepted
      <4>3. \A signal \in Range(answer.signals) :
              \E i \in DOMAIN reads :
                /\ \A j \in DOMAIN reads : reads[j].signal = signal.signal <=> j = i
                /\ signal.label[1] = reads[i].name
        BY <1>2, <3>5, <3>6, SignalsAttributed
      <4> HIDE DEF reads
      <4> QED BY <1>2, <2>5, <3>1, <3>3, <3>4, <3>6, <4>1, <4>2, <4>3 DEF AttributableSignals
    <3>7. CASE declared = None
      <4>1. scope[asked.ecu] \in OBD_PROTOCOLS
        BY <1>1, <1>2, <2>2, <2>5, <3>4, <3>7 DEF ScopeAllows, StandardScope, Range
      <4>2. \A signal \in Range(answer.signals) : signal.label = StandardLabel(signal.pid)
        BY <1>2, <3>5, <3>7 DEF SignalsAccepted, StandardSemantics
      <4> QED BY <1>2, <2>5, <3>3, <3>4, <3>7, <4>1, <4>2 DEF AttributableSignals
    <3> QED BY <3>6, <3>7
  <2>6. CASE asked.op \notin {"pids", "dtcs", "snapshot"}
    BY <1>2, <2>6 DEF AttributableSignals
  <2> QED BY <2>3, <2>4, <2>5, <2>6
<1> QED BY <1>4, <1>5

LEMMA AttributableStep ==
  ASSUME Bound, Simulates, Vetted, AttributableSignals, ReadNext
  PROVE  AttributableSignals'
<1>1. CASE Answer
  BY <1>1, AnswerAttributes
<1>2. CASE StartUp \/ Ask \/ Finish
  <2>1. step' # "done" BY <1>2 DEF StartUp, Ask, Finish
  <2> QED BY <2>1 DEF AttributableSignals, Answered
<1>3. CASE (\E r \in Requests : Begin(r)) \/ CachedStatus \/ FetchStatus
  <2>1. asked' = None BY <1>3 DEF Begin, CachedStatus, FetchStatus, Vetted
  <2> QED BY <2>1 DEF AttributableSignals, Answered
<1>4. CASE DriverFails
  <2>1. outcome'.kind = "error" BY <1>4 DEF DriverFails, Ends, Error
  <2> QED BY <2>1 DEF AttributableSignals, Answered
<1>5. CASE Change \/ Expire \/ MutateRead \/ UNCHANGED readVars
  <2>1. UNCHANGED <<declared, step, asked, over, outcome>>
    BY <1>5 DEF Change, Expire, MutateRead, readVars
  <2> QED BY <2>1 DEF AttributableSignals, Answered
<1> QED BY <1>1, <1>2, <1>3, <1>4, <1>5 DEF ReadNext

-----------------------------------------------------------------------------
(* The body.                                                                *)

LEMMA NoBytes == BytesIn(<<>>) = {} /\ BytesOf(<<>>) = 0
<1>1. BytesIn(<<>>) = {} BY DEF BytesIn
<1> QED BY <1>1, FS_EmptySet DEF BytesOf

LEMMA MessageBytes ==
  /\ \A m \in ClientMessages : m.bytes \in Nat
  /\ Disconnect \in ClientMessages /\ Disconnect.bytes = 0
BY MaxBytesAssumption DEF ClientMessages, Body, Disconnect, OtherMessage

LEMMA OneMore ==
  ASSUME NEW seen \in Seq(ClientMessages), IsFiniteSet(BytesIn(seen)),
         NEW message \in ClientMessages
  PROVE  /\ IsFiniteSet(BytesIn(Append(seen, message)))
         /\ BytesOf(seen) \in Nat
         /\ BytesOf(Append(seen, message)) = BytesOf(seen) + message.bytes
<1> DEFINE n == Len(seen) + 1
           longer == Append(seen, message)
           last == {n} \X (1..message.bytes)
<1>1. /\ Len(seen) \in Nat /\ DOMAIN seen = 1..Len(seen)
      /\ DOMAIN longer = 1..n /\ longer[n] = message
      /\ \A i \in 1..Len(seen) : longer[i] = seen[i]
  OBVIOUS
<1>2. message.bytes \in Nat
  BY MessageBytes
<1>3. IsFiniteSet(last) /\ Cardinality(last) = message.bytes
  <2>1. IsFiniteSet({n}) /\ Cardinality({n}) = 1 BY FS_Singleton
  <2>2. IsFiniteSet(1..message.bytes) /\ Cardinality(1..message.bytes) = message.bytes
    <3>1. 1 \in Int /\ message.bytes \in Int BY <1>2
    <3>2. /\ IsFiniteSet(1..message.bytes)
          /\ Cardinality(1..message.bytes) = IF 1 > message.bytes THEN 0 ELSE message.bytes - 1 + 1
      BY <3>1, FS_Interval
    <3> QED BY <3>2, <1>2
  <2> QED BY <2>1, <2>2, <1>2, FS_Product
<1> HIDE DEF longer
<1>4. BytesIn(longer) = BytesIn(seen) \cup last
  <2> DEFINE of(i) == {i} \X (1..longer[i].bytes)
             was(i) == {i} \X (1..seen[i].bytes)
  <2>1. BytesIn(longer) = UNION {of(i) : i \in 1..n} BY <1>1 DEF BytesIn
  <2>2. BytesIn(seen) = UNION {was(i) : i \in 1..Len(seen)} BY <1>1 DEF BytesIn
  <2>3. of(n) = last /\ \A i \in 1..Len(seen) : of(i) = was(i) BY <1>1
  <2>4. 1..n = (1..Len(seen)) \cup {n} BY <1>1
  <2> HIDE DEF of, was, last, n
  <2> QED BY <2>1, <2>2, <2>3, <2>4
<1>5. BytesIn(seen) \cap last = {}
  <2>1. \A x \in BytesIn(seen) : \E i \in 1..Len(seen) : x[1] = i BY <1>1 DEF BytesIn
  <2>2. \A x \in last : x[1] = n OBVIOUS
  <2>3. \A i \in 1..Len(seen) : i # n BY <1>1
  <2> HIDE DEF last, n
  <2> QED BY <2>1, <2>2, <2>3
<1>6. Cardinality(BytesIn(seen)) \in Nat
  BY FS_CardinalityType
<1> HIDE DEF last
<1>7. /\ IsFiniteSet(BytesIn(longer))
      /\ Cardinality(BytesIn(longer)) = Cardinality(BytesIn(seen)) + message.bytes
  <2>1. Cardinality(BytesIn(seen) \cap last) = 0 BY <1>5, FS_EmptySet
  <2>2. /\ IsFiniteSet(BytesIn(seen) \cup last)
        /\ Cardinality(BytesIn(seen) \cup last) =
             Cardinality(BytesIn(seen)) + Cardinality(last) - Cardinality(BytesIn(seen) \cap last)
    BY <1>3, FS_Union
  <2> QED BY <1>2, <1>3, <1>4, <1>6, <2>1, <2>2
<1> QED BY <1>6, <1>7 DEF BytesOf, longer

\* The beginning of what was heard, and disconnections.
LEMMA Replayed ==
  ASSUME Buffered
  PROVE  /\ fed = SubSeq(Sent, 1, Len(fed))
         /\ BytesOf(fed) \in Nat /\ BytesOf(heard) \in Nat /\ BytesOf(fed) <= BytesOf(heard)
<1>1. /\ Len(fed) \in Nat /\ DOMAIN fed = 1..Len(fed)
      /\ Len(heard) \in Nat /\ DOMAIN heard = 1..Len(heard)
  BY DEF Buffered
<1>2. \A i \in 1..Len(fed) : fed[i] = IF i <= Len(heard) THEN heard[i] ELSE Disconnect
  BY DEF Buffered
<1>3. fed = SubSeq(Sent, 1, Len(fed))
  <2> DEFINE after == [i \in 1..Len(fed) |-> Disconnect]
  <2>1. heard \in Seq(ClientMessages) /\ fed \in Seq(ClientMessages)
    BY DEF Buffered
  <2>2. after \in Seq(ClientMessages) /\ Len(after) = Len(fed)
    BY <1>1, MessageBytes
  <2>3. /\ Sent \in Seq(ClientMessages) /\ Len(Sent) = Len(heard) + Len(fed)
        /\ \A i \in 1..Len(Sent) : Sent[i] = IF i <= Len(heard) THEN heard[i] ELSE after[i - Len(heard)]
    BY <2>1, <2>2, ConcatProperties DEF Sent
  <2>4. \A i \in 1..Len(fed) : Sent[i] = fed[i]
    BY <1>1, <1>2, <2>3
  <2>5. /\ SubSeq(Sent, 1, Len(fed)) \in Seq(ClientMessages)
        /\ Len(SubSeq(Sent, 1, Len(fed))) = Len(fed)
        /\ \A i \in 1..Len(fed) : SubSeq(Sent, 1, Len(fed))[i] = Sent[i]
    BY <1>1, <2>3
  <2> QED BY <1>1, <2>1, <2>4, <2>5
<1>4. BytesIn(fed) \subseteq BytesIn(heard)
  <2>1. SUFFICES ASSUME NEW x \in BytesIn(fed) PROVE x \in BytesIn(heard)
    OBVIOUS
  <2>2. PICK i \in 1..Len(fed) : x \in {i} \X (1..fed[i].bytes)
    BY <1>1 DEF BytesIn
  <2>3. i <= Len(heard)
    <3>1. SUFFICES ASSUME ~ (i <= Len(heard)) PROVE FALSE OBVIOUS
    <3>2. fed[i].bytes = 0 BY <1>2, <3>1, MessageBytes
    <3> QED BY <2>2, <3>2
  <2>4. i \in DOMAIN heard /\ x \in {i} \X (1..heard[i].bytes)
    BY <1>1, <1>2, <2>2, <2>3
  <2> QED BY <2>4 DEF BytesIn
<1>5. IsFiniteSet(BytesIn(heard))
  BY DEF Buffered
<1>6. IsFiniteSet(BytesIn(fed)) /\ Cardinality(BytesIn(fed)) <= Cardinality(BytesIn(heard))
  BY <1>4, <1>5, FS_Subset
<1>7. Cardinality(BytesIn(fed)) \in Nat /\ Cardinality(BytesIn(heard)) \in Nat
  BY <1>5, <1>6, FS_CardinalityType
<1> QED BY <1>3, <1>6, <1>7 DEF BytesOf

LEMMA BodyKept ==
  ASSUME Buffered
  PROVE  BodyReplayed
<1>1. /\ fed = SubSeq(Sent, 1, Len(fed))
      /\ BytesOf(fed) \in Nat /\ BytesOf(heard) \in Nat /\ BytesOf(fed) <= BytesOf(heard)
  BY Replayed
<1>2. BytesOf(fed) <= MaxBytes
  <2>1. CASE stage = "app"
    <3>1. BytesOf(heard) <= MaxBytes BY <2>1 DEF Buffered
    <3> QED BY <1>1, <3>1, MaxBytesAssumption
  <2>2. CASE stage # "app"
    <3>1. fed = <<>> BY <2>2 DEF Buffered
    <3> QED BY <3>1, NoBytes, MaxBytesAssumption
  <2> QED BY <2>1, <2>2
<1>3. stage = "rejected" => fed = <<>> /\ (heard # <<>> => BytesOf(heard) > MaxBytes)
  BY DEF Buffered
<1> QED BY <1>1, <1>2, <1>3 DEF BodyReplayed

\* The rest of a call hears and feeds nothing.
LEMMA BufferedElsewhere ==
  ASSUME Buffered, UNCHANGED webVars,
         stage' = stage \/ (stage = "called" /\ stage' \notin {"headers", "rejected", "app"})
                        \/ (stage \in {"raised", "returned", "converted"}
                            /\ stage' \notin {"headers", "rejected", "app"})
  PROVE  Buffered'
<1>1. UNCHANGED <<heard, messages, total, fed>>
  BY DEF webVars
<1>2. BytesIn(heard)' = BytesIn(heard) /\ BytesOf(heard)' = BytesOf(heard)
  BY <1>1 DEF BytesIn, BytesOf
<1>3. stage' = stage \/ (stage' \notin {"headers", "rejected", "app"} /\ stage \notin {"rejected", "app"})
  OBVIOUS
<1> QED BY <1>1, <1>2, <1>3 DEF Buffered

LEMMA BufferedStep ==
  ASSUME Buffered, Next
  PROVE  Buffered'
<1>1. ASSUME NEW length, CheckLength(length) PROVE Buffered'
  <2>1. /\ stage = "headers" /\ stage' \in {"buffering", "rejected"}
        /\ UNCHANGED <<heard, messages, total, fed>>
    BY <1>1 DEF CheckLength, Rejects, webVars
  <2>2. BytesIn(heard)' = BytesIn(heard) /\ BytesOf(heard)' = BytesOf(heard)
    BY <2>1 DEF BytesIn, BytesOf
  <2> QED BY <2>1, <2>2 DEF Buffered
<1>2. ASSUME NEW message \in ClientMessages, Receive(message) PROVE Buffered'
  <2>1. /\ stage = "buffering" /\ fed = <<>> /\ fed' = fed
        /\ heard' = Append(heard, message) /\ messages' = Append(messages, message)
        /\ total' = total + message.bytes
    BY <1>2 DEF Receive, Buffered
  <2>2. /\ heard \in Seq(ClientMessages) /\ messages = heard
        /\ IsFiniteSet(BytesIn(heard)) /\ total = BytesOf(heard) /\ total <= MaxBytes
    BY <2>1 DEF Buffered
  <2>3. /\ heard' \in Seq(ClientMessages) /\ messages' = heard' /\ heard' # <<>>
    BY <2>1, <2>2
  <2>4. /\ IsFiniteSet(BytesIn(heard'))
        /\ BytesOf(heard) \in Nat /\ BytesOf(heard') = BytesOf(heard) + message.bytes
    BY <2>1, <2>2, OneMore
  <2>5. IsFiniteSet(BytesIn(heard))' /\ BytesOf(heard)' = BytesOf(heard')
    BY <2>4 DEF BytesIn, BytesOf
  <2>6. message.bytes \in Nat /\ (message.type # "request" => message.bytes = 0)
    BY MaxBytesAssumption DEF ClientMessages, Body, Disconnect, OtherMessage
  <2>7. \/ stage' = "rejected" /\ total' > MaxBytes
        \/ stage' \in {"app", "buffering"} /\ total' <= MaxBytes
    <3>1. CASE message.type = "request" /\ TooMuch(message.bytes, total')
      BY <1>2, <3>1 DEF Receive, Rejects, TooMuch
    <3>2. CASE ~ (message.type = "request" /\ TooMuch(message.bytes, total'))
      <4>1. stage' \in {"app", "buffering"} BY <1>2, <3>2 DEF Receive
      <4>2. total' <= MaxBytes
        <5>1. total' \in Nat BY <2>1, <2>2, <2>4, <2>6
        <5>2. CASE message.type = "request"
          BY <3>2, <5>1, <5>2, MaxBytesAssumption DEF TooMuch
        <5>3. CASE message.type # "request"
          BY <2>1, <2>2, <2>4, <2>6, <5>3, MaxBytesAssumption
        <5> QED BY <5>2, <5>3
      <4> QED BY <4>1, <4>2
    <3> QED BY <3>1, <3>2
  <2>8. fed' = <<>> /\ fed' \in Seq(ClientMessages) /\ Len(fed') = 0
    BY <2>1
  <2> QED BY <2>1, <2>2, <2>3, <2>4, <2>5, <2>7, <2>8 DEF Buffered
<1>3. CASE Replay
  <2> DEFINE next == IF Len(fed) < Len(messages) THEN messages[Len(fed) + 1] ELSE Disconnect
  <2>1. /\ stage = "app" /\ fed' = Append(fed, next)
        /\ UNCHANGED <<heard, messages, total, stage>>
    BY <1>3 DEF Replay
  <2>2. /\ heard \in Seq(ClientMessages) /\ messages = heard /\ fed \in Seq(ClientMessages)
        /\ \A i \in 1..Len(fed) : fed[i] = IF i <= Len(heard) THEN heard[i] ELSE Disconnect
    BY DEF Buffered
  <2>3. /\ next = IF Len(fed) + 1 <= Len(heard) THEN heard[Len(fed) + 1] ELSE Disconnect
        /\ next \in ClientMessages
    BY <2>2, MessageBytes
  <2> HIDE DEF next
  <2>4. /\ fed' \in Seq(ClientMessages) /\ Len(fed') = Len(fed) + 1 /\ fed'[Len(fed) + 1] = next
        /\ \A i \in 1..Len(fed) : fed'[i] = fed[i]
    BY <2>1, <2>2, <2>3
  <2>5. \A i \in 1..Len(fed') : fed'[i] = IF i <= Len(heard) THEN heard[i] ELSE Disconnect
    <3>1. \A i \in 1..Len(fed') : i \in 1..Len(fed) \/ i = Len(fed) + 1 BY <2>2, <2>4
    <3> QED BY <2>2, <2>3, <2>4, <3>1
  <2>6. BytesIn(heard)' = BytesIn(heard) /\ BytesOf(heard)' = BytesOf(heard)
    BY <2>1 DEF BytesIn, BytesOf
  <2> QED BY <2>1, <2>4, <2>5, <2>6 DEF Buffered
<1>4. CASE Dispatch \/ NextCall
  <2>1. heard' = <<>> /\ messages' = <<>> /\ total' = 0 /\ fed' = <<>> /\ stage' = "called"
    BY <1>4 DEF Dispatch, NextCall
  <2>2. IsFiniteSet(BytesIn(heard))' /\ BytesOf(heard)' = 0
    BY <2>1, NoBytes, FS_EmptySet DEF BytesIn, BytesOf
  <2>3. <<>> \in Seq(ClientMessages) /\ Len(<<>>) = 0
    OBVIOUS
  <2> QED BY <2>1, <2>2, <2>3, MaxBytesAssumption DEF Buffered
<1>5. CASE \/ SdkRefuses \/ CallService \/ Mutate \/ Invoke \/ Convert \/ PublishError
           \/ PublishResult \/ GetPrompt \/ ReadResource
  <2>1. UNCHANGED webVars
    BY <1>5 DEF SdkRefuses, CallService, Mutate, Invoke, Convert, PublishError, PublishResult,
                GetPrompt, ReadResource
  <2>2. \/ stage' = stage
        \/ stage \in {"called", "raised", "returned", "converted"}
           /\ stage' \in {"raised", "returned", "converted", "replied"}
    BY <1>5 DEF SdkRefuses, CallService, Mutate, Invoke, Convert, PublishError, PublishResult,
                GetPrompt, ReadResource, Raises, Replies, outVars
  <2> QED BY <2>1, <2>2, BufferedElsewhere
<1>6. CASE UNCHANGED <<stage, webVars, outVars>>
  BY <1>6, BufferedElsewhere
<1> QED BY <1>1, <1>2, <1>3, <1>4, <1>5, <1>6 DEF Next

-----------------------------------------------------------------------------
(* What leaves.                                                             *)

LEMMA WordedStep ==
  ASSUME Worded, Next
  PROVE  Worded'
<1> USE DEF Worded
<1>1. (step = "done" /\ outcome.kind = "error" /\ outcome.class = "core" =>
         outcome.text = Said("core", outcome.text.vin, outcome.text.length))'
  <2>1. ReadNext BY CallSteps
  <2>2. CASE CachedStatus \/ FetchStatus
    <3>1. PICK known : Scoped(known) BY <2>2 DEF CachedStatus, FetchStatus
    <3>2. step' # "done" \/ \E error \in {DriverError, CoreError} : outcome' = error
          \/ \E value : outcome' = Result(value)
      BY <3>1 DEF Scoped, Ends, ScopeError
    <3> QED BY <3>2 DEF DriverError, CoreError, Error, Said, Result
  <2>3. CASE \E r \in Requests : Begin(r)
    <3>1. step' # "done" \/ outcome' = CoreError BY <2>3 DEF Begin, Ends
    <3> QED BY <3>1 DEF CoreError, Error, Said
  <2>4. CASE Answer
    <3>1. outcome' = DriverError \/ \E value : outcome' = Result(value)
      BY <2>4 DEF Answer, Ends
    <3>2. outcome' = DriverError => outcome'.class # "core" BY DEF DriverError, Error
    <3>3. ASSUME NEW value, outcome' = Result(value) PROVE outcome'.kind # "error"
      BY <3>3 DEF Result
    <3> QED BY <3>1, <3>2, <3>3
  <2>5. CASE DriverFails
    BY <2>5 DEF DriverFails, Ends, Error, Said
  <2>6. CASE StartUp \/ Ask \/ Finish
    BY <2>6 DEF StartUp, Ask, Finish
  <2>7. CASE Change \/ Expire \/ MutateRead \/ UNCHANGED readVars
    BY <2>7 DEF Change, Expire, MutateRead, readVars
  <2> QED BY <2>1, <2>2, <2>3, <2>4, <2>5, <2>6, <2>7 DEF ReadNext
<1>2. (stage = "raised" =>
         /\ raised.text.from # "driver"
         /\ raised.text.from = "input" => HasValidationCause(raised))'
  <2>1. CASE SdkRefuses
    BY <2>1 DEF SdkRefuses, Raises, ToolError, Said, HasValidationCause
  <2>2. CASE Invoke
    <3>1. CASE outcome.kind = "error"
      <4> DEFINE text == IF outcome.class = "core" /\ SafeText(outcome.text) THEN outcome.text ELSE Fixed
      <4>1. raised' = ToolError(Mapped(outcome).text, Mapped(outcome).causes)
        BY <2>2, <3>1 DEF Invoke, Raises
      <4>2. \E vin, length : text = Said("core", vin, length) \/ text = Said("constant", vin, length)
        BY <2>2, <3>1 DEF Invoke, Fixed
      <4>3. PICK from, vin, length :
              from \in {"core", "constant"} /\ text = Said(from, vin, length)
        BY <4>2
      <4>4. Mapped(outcome).text = [text EXCEPT !.length = @ + 1]
        BY DEF Mapped, ToolError
      <4> HIDE DEF text
      <4>5. Mapped(outcome).text = Said(from, vin, length + 1)
        BY <4>3, <4>4 DEF Said
      <4>6. raised'.text = Said(from, vin, length + 1 + 1)
        BY <4>1, <4>5 DEF ToolError, Said
      <4> QED BY <4>3, <4>6 DEF Said
    <3>2. CASE outcome.kind # "error"
      <4>1. stage' = "returned" \/ raised' = ToolError(Fixed, <<"ToolError">>)
        BY <2>2, <3>2 DEF Invoke, Raises
      <4> QED BY <4>1 DEF ToolError, Fixed, Said
    <3> QED BY <3>1, <3>2
  <2>3. CASE Convert
    BY <2>3 DEF Convert, Raises, ToolError, Said
  <2>4. CASE ~ SdkRefuses /\ ~ Invoke /\ ~ Convert
    <3>1. stage' # "raised" \/ (stage' = stage /\ raised' = raised)
      BY <2>4 DEF Next, CheckLength, Receive, Replay, Dispatch, CallService, Mutate, PublishError,
                  PublishResult, GetPrompt, ReadResource, NextCall, Rejects, Replies, outVars
    <3> QED BY <3>1 DEF HasValidationCause
  <2> QED BY <2>1, <2>2, <2>3, <2>4
<1> QED BY <1>1, <1>2

\* What is published has been vetted, or is the server's own.
LEMMA LeaksStep ==
  ASSUME Worded, NothingLeaks, Next
  PROVE  NothingLeaks'
<1> DEFINE Sealed(kind, content) ==
             IF kind = "result"
             THEN KindsIn(content) \cap {"vin", "binary"} = {} /\ Serializable(content)
             ELSE SafeText(content) /\ content.from \notin {"driver", "input"}
<1>1. ASSUME NEW kind, NEW content, Replies(kind, content), Sealed(kind, content)
      PROVE  NothingLeaks'
  <2>1. reply' = [kind |-> kind, content |-> content] BY <1>1 DEF Replies
  <2> QED BY <1>1, <2>1 DEF NothingLeaks
<1>2. Sealed("error", Fixed)
  BY MaxErrorAssumption DEF Fixed, Said, SafeText
<1>3. Sealed("result", Plain)
  <2>1. Harmless(Plain) BY PlainAssumption DEF Plain
  <2> QED BY <2>1 DEF Harmless
<1>4. \A value : ResultAccepted(value) => Sealed("result", value)
  BY DEF ResultAccepted
<1> HIDE DEF Sealed
<1>5. CASE PublishError
  <2>1. CASE HasValidationCause(raised) \/ ~ SafeText(raised.text)
    BY <1>1, <1>2, <1>5, <2>1 DEF PublishError
  <2>2. CASE ~ HasValidationCause(raised) /\ SafeText(raised.text)
    <3>1. Sealed("error", raised.text) BY <1>5, <2>2 DEF PublishError, Worded, Sealed
    <3> QED BY <1>1, <1>5, <2>2, <3>1 DEF PublishError
  <2> QED BY <2>1, <2>2
<1>6. CASE PublishResult
  BY <1>1, <1>2, <1>4, <1>6 DEF PublishResult
<1>7. CASE GetPrompt
  <2>1. \/ Replies("error", Fixed) \/ Replies("result", Plain)
        \/ \E hidden \in BOOLEAN, said \in 1..MaxError + 1 :
             LET text == Said("prompt", hidden, said)
             IN Replies("error", IF SafeText(text) THEN text ELSE Fixed)
    BY <1>7 DEF GetPrompt
  <2>2. ASSUME NEW hidden \in BOOLEAN, NEW said \in 1..MaxError + 1
        PROVE  LET text == Said("prompt", hidden, said)
               IN SafeText(text) => Sealed("error", text)
    BY DEF Sealed, Said
  <2> QED BY <1>1, <1>2, <1>3, <2>1, <2>2
<1>8. CASE ReadResource
  <2>1. Sealed("error", Said("sdk", FALSE, 0))
    BY MaxErrorAssumption DEF Sealed, Said, SafeText
  <2> QED BY <1>1, <1>2, <1>3, <1>8, <2>1 DEF ReadResource
<1>9. CASE ~ PublishError /\ ~ PublishResult /\ ~ GetPrompt /\ ~ ReadResource
  <2>1. reply' = reply \/ reply' = None
    BY <1>9 DEF Next, CheckLength, Receive, Replay, Dispatch, SdkRefuses, CallService, Mutate,
                Invoke, Convert, NextCall, Raises, outVars
  <2> QED BY <2>1 DEF NothingLeaks
<1> QED BY <1>5, <1>6, <1>7, <1>8, <1>9

-----------------------------------------------------------------------------
(* Objects that contain each other.                                         *)

Shaped(value) ==
  /\ IsFiniteSet(Objects(value)) /\ Root \in Objects(value)
  /\ value.kids \in [Objects(value) -> Seq(Objects(value))]
  /\ \A n \in Objects(value) : value.kind[n] \notin {"map", "list"} => value.kids[n] = <<>>

\* The parts of an object are the least closed set that holds it.
LEMMA PartsFacts ==
  ASSUME NEW value, Shaped(value), NEW m \in Objects(value)
  PROVE  LET parts == Parts(value)
         IN /\ m \in parts[m] /\ parts[m] \in Closed(value)
            /\ \A S \in Closed(value) : m \in S => parts[m] \subseteq S
            /\ \A n \in parts[m] : parts[n] \subseteq parts[m]
<1> DEFINE objects == Objects(value)
           parts == Parts(value)
           closed == Closed(value)
<1>1. \A n \in objects : parts[n] = {x \in objects : \A S \in closed : n \in S => x \in S}
  BY DEF Parts
<1>2. \A S \in closed : S \subseteq objects /\ \A x \in S : Range(value.kids[x]) \subseteq S
  BY DEF Closed
<1>3. \A x \in objects : Range(value.kids[x]) \subseteq objects
  BY DEF Shaped, Range
<1>4. \A S \in closed : m \in S => parts[m] \subseteq S
  BY <1>1
<1>5. m \in parts[m] /\ parts[m] \subseteq objects
  BY <1>1
<1>6. \A x \in parts[m] : Range(value.kids[x]) \subseteq parts[m]
  <2>1. SUFFICES ASSUME NEW x \in parts[m], NEW y \in Range(value.kids[x]) PROVE y \in parts[m]
    OBVIOUS
  <2>2. y \in objects BY <1>3, <1>5
  <2>3. \A S \in closed : m \in S => y \in S BY <1>1, <1>2
  <2> QED BY <1>1, <2>2, <2>3
<1>7. parts[m] \in closed
  BY <1>5, <1>6 DEF Closed
<1>8. \A n \in parts[m] : parts[n] \subseteq parts[m]
  BY <1>1, <1>5, <1>7
<1> QED BY <1>4, <1>5, <1>7, <1>8

LEMMA MentionsFacts ==
  ASSUME NEW value, Shaped(value)
  PROVE  /\ Reached(value) \subseteq Objects(value) /\ Root \in Reached(value)
         /\ \A place \in Mentions(value) :
              /\ place = <<place[1], place[2]>>
              /\ place[1] \in Reached(value) /\ place[2] \in DOMAIN value.kids[place[1]]
              /\ value.kind[place[1]] \in {"map", "list"}
              /\ Mentioned(value, place) \in Reached(value)
              /\ Mentioned(value, place) \in Range(value.kids[place[1]])
         /\ \A m \in Reached(value) : \A n \in Range(value.kids[m]) :
              n \in Reached(value)
              /\ \E place \in Mentions(value) : place[1] = m /\ Mentioned(value, place) = n
         /\ IsFiniteSet(Mentions(value))
<1> DEFINE at(m) == {m} \X DOMAIN value.kids[m]
<1>1. Root \in Reached(value) /\ Reached(value) \in Closed(value)
  BY PartsFacts DEF Reached, Shaped
<1>2. /\ Reached(value) \subseteq Objects(value)
      /\ \A m \in Reached(value) : Range(value.kids[m]) \subseteq Reached(value)
  BY <1>1 DEF Closed
<1>3. \A m \in Reached(value) : \A i \in DOMAIN value.kids[m] :
        value.kids[m][i] \in Range(value.kids[m]) /\ value.kind[m] \in {"map", "list"}
  BY <1>2 DEF Shaped, Range
<1>4. \A place \in Mentions(value) :
        /\ place = <<place[1], place[2]>>
        /\ place[1] \in Reached(value) /\ place[2] \in DOMAIN value.kids[place[1]]
  BY DEF Mentions
<1>5. \A m \in Reached(value) : \A i \in DOMAIN value.kids[m] :
        <<m, i>> \in Mentions(value) /\ Mentioned(value, <<m, i>>) = value.kids[m][i]
  BY DEF Mentions, Mentioned
<1>6. \A m \in Reached(value) : \A n \in Range(value.kids[m]) :
        \E place \in Mentions(value) : place[1] = m /\ Mentioned(value, place) = n
  <2>1. SUFFICES ASSUME NEW m \in Reached(value), NEW n \in Range(value.kids[m])
                 PROVE  \E place \in Mentions(value) : place[1] = m /\ Mentioned(value, place) = n
    OBVIOUS
  <2>2. PICK i \in DOMAIN value.kids[m] : value.kids[m][i] = n
    BY DEF Range
  <2>3. <<m, i>> \in Mentions(value) /\ Mentioned(value, <<m, i>>) = n
    BY <1>5, <2>2
  <2> QED BY <2>3
<1>7. IsFiniteSet(Mentions(value))
  <2>1. IsFiniteSet(Reached(value)) BY <1>2, FS_Subset DEF Shaped
  <2>2. \A m \in Reached(value) : IsFiniteSet(at(m))
    <3>1. SUFFICES ASSUME NEW m \in Reached(value) PROVE IsFiniteSet(at(m)) OBVIOUS
    <3>2. value.kids[m] \in Seq(Objects(value)) BY <1>2 DEF Shaped
    <3>3. IsFiniteSet(DOMAIN value.kids[m])
      <4>1. DOMAIN value.kids[m] = 1..Len(value.kids[m]) /\ Len(value.kids[m]) \in Int BY <3>2
      <4>2. PICK n \in Int : n = Len(value.kids[m]) BY <4>1
      <4>3. IsFiniteSet(1..n) BY FS_Interval
      <4> QED BY <4>1, <4>2, <4>3
    <3>4. IsFiniteSet({m}) BY FS_Singleton
    <3> QED BY <3>3, <3>4, FS_Product
  <2>3. IsFiniteSet({at(m) : m \in Reached(value)})
    <3> DEFINE all == {at(m) : m \in Reached(value)}
               f == [m \in Reached(value) |-> at(m)]
    <3>1. f \in [Reached(value) -> all] /\ \A t \in all : \E m \in Reached(value) : f[m] = t
      <4> HIDE DEF at
      <4> QED OBVIOUS
    <3> HIDE DEF all, f
    <3>2. f \in Surjection(Reached(value), all) BY <3>1 DEF Surjection
    <3> QED BY <2>1, <3>2, FS_Surjection DEF all
  <2>4. Mentions(value) = UNION {at(m) : m \in Reached(value)} BY DEF Mentions
  <2> HIDE DEF at
  <2>5. \A T \in {at(m) : m \in Reached(value)} : IsFiniteSet(T) BY <2>2
  <2> QED BY <2>3, <2>4, <2>5, FS_UNION
<1> QED BY <1>1, <1>2, <1>3, <1>4, <1>5, <1>6, <1>7 DEF Mentioned

\* The root is mentioned nowhere and a map or list in one place at most.
LEMMA OnePlace ==
  ASSUME NEW value, Shaped(value), EnteredOnce(value),
         NEW p \in Mentions(value), value.kind[Mentioned(value, p)] \in {"map", "list"}
  PROVE  /\ Mentioned(value, p) # Root
         /\ \A q \in Mentions(value) : Mentioned(value, q) = Mentioned(value, p) => q = p
<1> DEFINE n == Mentioned(value, p)
           places == {q \in Mentions(value) : Mentioned(value, q) = n}
<1>1. n \in Reached(value) /\ IsFiniteSet(Mentions(value))
  BY MentionsFacts
<1>2. IsFiniteSet(places) BY <1>1, FS_Subset
<1>3. Cardinality(places) <= IF n = Root THEN 0 ELSE 1
  BY <1>1 DEF EnteredOnce
<1>4. ASSUME NEW q \in places, q # p PROVE FALSE
  <2>1. {p, q} \in SUBSET places BY <1>4
  <2> HIDE DEF places
  <2>2. Cardinality({p, q}) = 2 /\ Cardinality({p, q}) <= Cardinality(places)
    <3>1. IsFiniteSet({p}) /\ Cardinality({p}) = 1 BY FS_Singleton
    <3>2. Cardinality({p} \cup {q}) = 2
      <4>1. q \notin {p} BY <1>4
      <4>2. Cardinality({p} \cup {q}) = Cardinality({p}) + 1 BY <3>1, <4>1, FS_AddElement
      <4> QED BY <3>1, <4>2
    <3>3. {p} \cup {q} = {p, q} OBVIOUS
    <3> QED BY <2>1, <3>2, <3>3, <1>2, FS_Subset
  <2>3. Cardinality(places) \in Nat BY <1>2, FS_CardinalityType
  <2> QED BY <2>2, <2>3, <1>3
<1>5. n # Root
  <2>1. SUFFICES ASSUME n = Root PROVE FALSE OBVIOUS
  <2>2. Cardinality(places) = 0
    <3>1. Cardinality(places) \in Nat BY <1>2, FS_CardinalityType
    <3> QED BY <3>1, <1>3, <2>1
  <2>3. places = {} BY <1>2, <2>2, FS_EmptySet
  <2>4. p \in places OBVIOUS
  <2> QED BY <2>3, <2>4
<1> QED BY <1>4, <1>5

\* What is entered once is a tree: on a cycle some object would be mentioned from
\* the cycle and from outside, or be the root.
LEMMA EnteredOnceIsTree ==
  ASSUME NEW value, Shaped(value), EnteredOnce(value)
  PROVE  Serializable(value)
<1> DEFINE parts == Parts(value)
           reached == Reached(value)
<1> SUFFICES ASSUME NEW place \in Mentions(value), place[1] \in parts[Mentioned(value, place)]
             PROVE  FALSE
  BY DEF Serializable
<1> DEFINE m == place[1]
           n == Mentioned(value, place)
           C == {x \in parts[n] : n \in parts[x]}
<1>1. /\ m \in reached /\ n \in reached /\ reached \subseteq Objects(value)
      /\ n \in Range(value.kids[m])
  BY MentionsFacts
<1>2. /\ \A x \in Objects(value) :
           /\ x \in parts[x] /\ parts[x] \subseteq Objects(value)
           /\ \A y \in parts[x] : Range(value.kids[y]) \subseteq parts[x]
           /\ \A S \in Closed(value) : x \in S => parts[x] \subseteq S
           /\ \A y \in parts[x] : parts[y] \subseteq parts[x]
      /\ parts[Root] = reached
  <2>1. \A x \in Objects(value) : parts[x] \in Closed(value) => 
          parts[x] \subseteq Objects(value) /\ \A y \in parts[x] : Range(value.kids[y]) \subseteq parts[x]
    BY DEF Closed
  <2> QED BY <2>1, PartsFacts DEF Reached
<1>3. Root \in Objects(value) /\ Root \in reached
  BY MentionsFacts
<1> HIDE DEF parts, reached
<1>4. n \in C /\ m \in C /\ C \subseteq reached
  <2>1. n \in parts[m] BY <1>1, <1>2
  <2>2. parts[n] \subseteq reached BY <1>1, <1>2, <1>3
  <2> QED BY <1>1, <1>2, <2>1, <2>2
\* Each member is mentioned by another.
<1>5. ASSUME NEW y \in C
      PROVE  \E p \in Mentions(value) : p[1] \in C /\ Mentioned(value, p) = y
  <2>1. CASE y = n
    BY <1>4, <2>1
  <2>2. CASE y # n
    <3> DEFINE S == parts[n] \ {y}
    <3>1. n \in S /\ ~ (parts[n] \subseteq S) BY <1>1, <1>2, <2>2
    <3>2. S \notin Closed(value) BY <1>1, <1>2, <3>1
    <3>3. PICK x \in S : ~ (Range(value.kids[x]) \subseteq S)
      <4>1. S \in SUBSET Objects(value) BY <1>1, <1>2
      <4> HIDE DEF S
      <4> QED BY <3>2, <4>1 DEF Closed
    <3>4. y \in Range(value.kids[x]) BY <3>3, <1>1, <1>2
    <3>5. x \in Objects(value) BY <1>1, <1>2
    <3>6. y \in parts[x] BY <3>4, <3>5, <1>2
    <3>7. x \in C BY <3>5, <3>6, <1>2
    <3>8. x \in Reached(value) BY <3>7, <1>4 DEF reached
    <3>9. PICK p \in Mentions(value) : p[1] = x /\ Mentioned(value, p) = y
      BY <3>4, <3>8, MentionsFacts
    <3> QED BY <3>7, <3>9
  <2> QED BY <2>1, <2>2
<1>6. ASSUME NEW y \in C PROVE value.kind[y] \in {"map", "list"}
  <2>1. SUFFICES ASSUME value.kind[y] \notin {"map", "list"} PROVE FALSE
    OBVIOUS
  <2>2. y \in Objects(value) /\ Range(value.kids[y]) = {}
    BY <1>1, <1>2, <2>1 DEF Shaped, Range
  <2>3. {y} \in Closed(value) BY <2>2 DEF Closed
  <2>4. n = y BY <1>2, <2>2, <2>3
  <2>5. m = y BY <1>2, <1>4, <2>2, <2>3, <2>4
  <2> QED BY <1>1, <2>2, <2>5
<1>7. CASE Root \in C
  <2>1. PICK p \in Mentions(value) : Mentioned(value, p) = Root
    BY <1>5, <1>7
  <2> QED BY <1>6, <1>7, <2>1, OnePlace
<1>8. CASE Root \notin C
  <2> DEFINE S == reached \ C
  <2>1. Root \in S /\ ~ (reached \subseteq S) BY <1>3, <1>4, <1>8
  <2>2. S \notin Closed(value) BY <1>2, <1>3, <2>1
  <2>3. PICK x \in S : ~ (Range(value.kids[x]) \subseteq S)
    <3>1. S \in SUBSET Objects(value) BY <1>1
    <3> HIDE DEF S
    <3> QED BY <2>2, <3>1 DEF Closed
  <2>4. PICK y \in Range(value.kids[x]) : y \in C
    BY <1>2, <1>3, <2>3
  <2>5. PICK p \in Mentions(value) : p[1] = x /\ Mentioned(value, p) = y
    <3>1. x \in Reached(value) BY DEF reached
    <3> QED BY <3>1, MentionsFacts
  <2>6. PICK q \in Mentions(value) : q[1] \in C /\ Mentioned(value, q) = y
    BY <1>5, <2>4
  <2>7. p # q BY <2>5, <2>6
  <2> QED BY <1>6, <2>4, <2>5, <2>6, <2>7, OnePlace
<1> QED BY <1>7, <1>8

\* A way through a tree is known by its last mention.
LEMMA WaysOfTree ==
  ASSUME NEW value, Shaped(value), EnteredOnce(value),
         NEW v \in Ways(value), NEW w \in Ways(value), v # <<>>, w # <<>>,
         v[Len(v)] = w[Len(w)], Len(v) <= Len(w)
  PROVE  v = w
<1> DEFINE mentions == Mentions(value)
<1>1. \A u \in {v, w} :
        /\ Len(u) \in Nat /\ u \in [1..Len(u) -> mentions] /\ Len(u) > 0
        /\ u[1][1] = Root
        /\ \A k \in 1..Len(u) - 1 : u[k + 1][1] = Mentioned(value, u[k])
  <2>1. SUFFICES ASSUME NEW u \in Ways(value), u # <<>>
                 PROVE  /\ Len(u) \in Nat /\ u \in [1..Len(u) -> mentions] /\ Len(u) > 0
                        /\ u[1][1] = Root
                        /\ \A k \in 1..Len(u) - 1 : u[k + 1][1] = Mentioned(value, u[k])
    OBVIOUS
  <2>2. /\ \E n \in 0..Cardinality(Reached(value)) - 1 : u \in [1..n -> mentions]
        /\ u[1][1] = Root
        /\ \A k \in 1..Len(u) - 1 : u[k + 1][1] = Mentioned(value, u[k])
    BY <2>1 DEF Ways
  <2>3. PICK n \in Nat : u \in [1..n -> mentions]
    <3>1. PICK n \in 0..Cardinality(Reached(value)) - 1 : u \in [1..n -> mentions] BY <2>2
    <3> QED BY <3>1
  <2> HIDE DEF mentions
  <2>4. u \in Seq(mentions) /\ Len(u) = n BY <2>3
  <2> QED BY <2>1, <2>2, <2>3, <2>4
<1>2. PICK i \in Nat, j \in Nat : i = Len(v) /\ j = Len(w) /\ 0 < i /\ i <= j
  BY <1>1
<1>3. /\ v \in [1..i -> mentions] /\ w \in [1..j -> mentions]
      /\ v[1][1] = Root /\ w[1][1] = Root /\ v[i] = w[j]
      /\ \A k \in 1..i - 1 : v[k + 1][1] = Mentioned(value, v[k])
      /\ \A k \in 1..j - 1 : w[k + 1][1] = Mentioned(value, w[k])
  BY <1>1, <1>2
<1> HIDE DEF mentions
\* Two places where a holder of something is mentioned are the same.
<1>4. \A p, q, r \in mentions : Mentioned(value, p) = r[1] /\ Mentioned(value, q) = r[1] =>
        p = q /\ r[1] # Root
  BY MentionsFacts, OnePlace DEF mentions
<1>5. \A d \in 0..i - 1 : v[i - d] = w[j - d]
  <2> DEFINE T == {d \in 0..i - 1 : v[i - d] # w[j - d]}
  <2>1. SUFFICES ASSUME T # {} PROVE FALSE
    OBVIOUS
  <2>2. T \in SUBSET Nat BY <1>2
  <2>3. PICK d \in T : \A e \in T : d <= e
    <3> HIDE DEF T
    <3> QED BY <2>1, <2>2, Least
  <2>4. d \in 0..i - 1 /\ d # 0 BY <1>2, <1>3
  <2>5. v[i - (d - 1)] = w[j - (d - 1)]
    <3>1. d - 1 \notin T
      <4>1. d \in Nat /\ ~ (d <= d - 1) BY <2>4
      <4> QED BY <2>3, <4>1
    <3>2. d - 1 \in 0..i - 1 BY <2>4, <1>2
    <3> QED BY <3>1, <3>2
  <2>6. PICK k \in 1..i - 1, l \in 1..j - 1 : k = i - d /\ l = j - d
    <3>1. i - d \in 1..i - 1 /\ j - d \in 1..j - 1 BY <2>4, <1>2
    <3> QED BY <3>1
  <2>7. v[k + 1] = w[l + 1]
    <3>1. k + 1 = i - (d - 1) /\ l + 1 = j - (d - 1) BY <2>4, <2>6, <1>2
    <3> QED BY <2>5, <3>1
  <2>8. v[k + 1][1] = Mentioned(value, v[k]) /\ w[l + 1][1] = Mentioned(value, w[l])
    BY <1>3
  <2>9. v[k] \in mentions /\ w[l] \in mentions /\ v[k + 1] \in mentions
    <3>1. k \in 1..i /\ k + 1 \in 1..i /\ l \in 1..j BY <1>2
    <3> QED BY <1>3, <3>1
  <2>10. v[k] = w[l] BY <1>4, <2>7, <2>8, <2>9
  <2> QED BY <2>3, <2>6, <2>10
<1>6. i = j
  <2>1. SUFFICES ASSUME i < j PROVE FALSE BY <1>2
  <2>2. PICK k \in 1..j - 1 : k = j - i
    <3>1. j - i \in 1..j - 1 BY <2>1, <1>2
    <3> QED BY <3>1
  <2>3. v[1] = w[k + 1]
    <3>1. i - 1 \in 0..i - 1 /\ i - (i - 1) = 1 /\ j - (i - 1) = k + 1 BY <1>2, <2>2
    <3> QED BY <1>5, <3>1
  <2>4. Mentioned(value, w[k]) = Root BY <1>3, <2>3
  <2>5. v[1] \in mentions /\ w[k] \in mentions BY <1>2, <1>3
  <2> QED BY <1>3, <1>4, <2>4, <2>5
<1>7. \A k \in 1..i : v[k] = w[k]
  <2>1. SUFFICES ASSUME NEW k \in 1..i PROVE v[k] = w[k] OBVIOUS
  <2>2. PICK d \in 0..i - 1 : d = i - k
    <3>1. i - k \in 0..i - 1 BY <1>2
    <3> QED BY <3>1
  <2>3. i - d = k /\ j - d = k BY <2>2, <1>2, <1>6
  <2> QED BY <1>5, <2>3
<1> QED BY <1>3, <1>6, <1>7

LEMMA TreeSize ==
  ASSUME NEW value, Shaped(value), EnteredOnce(value)
  PROVE  SizeOf(value) \in Nat /\ SizeOf(value) <= Items(value) /\ Items(value) \in Nat
<1> DEFINE longer == Ways(value) \ {<<>>}
           f == [w \in longer |-> w[Len(w)]]
<1>1. IsFiniteSet(Mentions(value)) /\ Cardinality(Mentions(value)) \in Nat
  BY MentionsFacts, FS_CardinalityType
<1>2. \A w \in longer : Len(w) \in Nat /\ w[Len(w)] \in Mentions(value)
  <2>1. SUFFICES ASSUME NEW w \in longer PROVE Len(w) \in Nat /\ w[Len(w)] \in Mentions(value)
    OBVIOUS
  <2>2. PICK n \in Nat : w \in [1..n -> Mentions(value)] BY DEF Ways
  <2>3. w \in Seq(Mentions(value)) /\ Len(w) = n BY <2>2
  <2>4. n # 0 BY <2>2, <2>3
  <2> QED BY <2>2, <2>3, <2>4
<1>3. \A v, w \in longer : v[Len(v)] = w[Len(w)] => v = w
  <2>1. SUFFICES ASSUME NEW v \in longer, NEW w \in longer, v[Len(v)] = w[Len(w)] PROVE v = w
    OBVIOUS
  <2>2. Len(v) <= Len(w) \/ Len(w) <= Len(v) BY <1>2
  <2> QED BY <2>1, <2>2, WaysOfTree
<1> HIDE DEF longer
<1>4. f \in Injection(longer, Mentions(value))
  BY <1>2, <1>3 DEF Injection, IsInjective
<1>5. IsFiniteSet(longer) /\ Cardinality(longer) <= Cardinality(Mentions(value))
  <2> HIDE DEF f
  <2> QED BY <1>1, <1>4, FS_Injection
<1>6. IsFiniteSet(Ways(value)) /\ Cardinality(Ways(value)) <= 1 + Cardinality(Mentions(value))
  <2>1. IsFiniteSet(longer \cup {<<>>}) /\ Cardinality(longer \cup {<<>>}) = Cardinality(longer) + 1
    <3>1. <<>> \notin longer BY DEF longer
    <3> QED BY <1>5, <3>1, FS_AddElement
  <2>2. Cardinality(longer) \in Nat BY <1>5, FS_CardinalityType
  <2>3. Cardinality(longer \cup {<<>>}) <= 1 + Cardinality(Mentions(value))
    BY <1>1, <1>5, <2>1, <2>2
  <2>4. Ways(value) \in SUBSET (longer \cup {<<>>}) BY DEF longer
  <2>5. /\ IsFiniteSet(Ways(value))
        /\ Cardinality(Ways(value)) <= Cardinality(longer \cup {<<>>})
    BY <2>1, <2>4, FS_Subset
  <2>6. Cardinality(Ways(value)) \in Nat BY <2>5, FS_CardinalityType
  <2> QED BY <1>1, <2>1, <2>2, <2>3, <2>5, <2>6
<1> QED BY <1>1, <1>6, FS_CardinalityType DEF SizeOf, Items

\* Metadata that a model class took passes every check on the way out.
LEMMA AcceptedIsPublic ==
  ASSUME NEW value, Shaped(value), MetadataAccepted(value)
  PROVE  ResultAccepted(value)
<1>1. EnteredOnce(value) /\ Items(value) <= MaxItems
  BY DEF MetadataAccepted
<1>2. Serializable(value)
  BY <1>1, EnteredOnceIsTree
<1>3. 2 * SizeOf(value) <= MaxSize
  BY <1>1, TreeSize, LimitsAssumption
<1> QED BY <1>2, <1>3 DEF MetadataAccepted, ResultAccepted

-----------------------------------------------------------------------------
(* The numbers of the simulator.                                            *)

LEMMA RawEnds ==
  ASSUME NEW type \in ScalarTypes
  PROVE  /\ LowestRaw(type) \in Int /\ HighestRaw(type) \in Int
         /\ LowestRaw(type) <= HighestRaw(type)
<1>1. \E b \in {1, 2, 4} : Bytes(type) = b
  <2>1. CASE type \in {"uint8", "int8"}
    BY <2>1, Zenon DEF Bytes
  <2>2. CASE type \in {"uint16", "int16"}
    BY <2>2, Zenon DEF Bytes
  <2>3. CASE type \in {"uint32", "int32"}
    BY <2>3, Zenon DEF Bytes
  <2> QED BY <2>1, <2>2, <2>3 DEF ScalarTypes
<1>2. PICK b \in {1, 2, 4} : Bytes(type) = b
  BY <1>1
<1>3. \E half, whole \in Nat : half = 2^(8 * b - 1) /\ whole = 2^(8 * b) /\ 0 < half /\ 0 < whole
  <2>1. 2^(8 * 1 - 1) = 128 /\ 2^(8 * 1) = 256
    BY SMT
  <2>2. 2^(8 * 2 - 1) = 32768 /\ 2^(8 * 2) = 65536
    BY SMT
  <2>3. 2^(8 * 4 - 1) = 2147483648 /\ 2^(8 * 4) = 4294967296
    BY SMT
  <2>4. 2^(8 * b - 1) \in Nat /\ 2^(8 * b) \in Nat /\ 0 < 2^(8 * b - 1) /\ 0 < 2^(8 * b)
    <3>1. CASE b = 1 BY <2>1, <3>1, SMT
    <3>2. CASE b = 2 BY <2>2, <3>2, SMT
    <3>3. CASE b = 4 BY <2>3, <3>3, SMT
    <3> QED BY <3>1, <3>2, <3>3
  <2> QED BY <2>4
<1>4. PICK half \in Nat, whole \in Nat :
        half = 2^(8 * b - 1) /\ whole = 2^(8 * b) /\ 0 < half /\ 0 < whole
  BY <1>3
<1>5. CASE Signed(type)
  <2>1. LowestRaw(type) = -half /\ HighestRaw(type) = half - 1
    BY <1>2, <1>4, <1>5 DEF LowestRaw, HighestRaw
  <2> QED BY <2>1, <1>4
<1>6. CASE ~ Signed(type)
  <2>1. LowestRaw(type) = 0 /\ HighestRaw(type) = whole - 1
    BY <1>2, <1>4, <1>6 DEF LowestRaw, HighestRaw
  <2> QED BY <2>1, <1>4
<1> QED BY <1>5, <1>6

LEMMA Product ==
  ASSUME NEW g \in Int, NEW d \in Int, NEW m \in Int, 0 <= g, g <= m, 0 <= d
  PROVE  0 <= g * d /\ g * d <= m * d /\ g * d \in Int
OBVIOUS

Distance(n, d) == IF n <= d THEN d - n ELSE n - d

\* No float is nearer to a number than the one it is rounded to.
LEMMA FloatFacts ==
  ASSUME NEW n \in Int
  PROVE  /\ Float(n) \in Int /\ IsDouble(Float(n))
         /\ \A d \in Int : IsDouble(d) => Distance(n, Float(n)) <= Distance(n, d)
<1> DEFINE size == IF n < 0 THEN -n ELSE n
           gaps == {k \in 0..size : FloatsAt(n, k) # {}}
           found(k) == FloatsAt(n, k) # {} /\ \A j \in 0..k - 1 : FloatsAt(n, j) = {}
           gap == CHOOSE k \in 0..size : found(k)
<1>1. size \in gaps
  <2>1. 0 \in FloatsAt(n, size) BY DoublesAssumption DEF FloatsAt
  <2> QED BY <2>1
<1>2. PICK m \in gaps : \A k \in gaps : m <= k
  <2>1. gaps \in SUBSET Nat /\ gaps # {} BY <1>1
  <2> HIDE DEF gaps
  <2> QED BY <2>1, Least
<1>3. m \in 0..size /\ found(m)
  BY <1>2
<1> HIDE DEF found
<1>4. gap \in 0..size /\ found(gap)
  BY <1>3
<1>5. Float(n) = CHOOSE d \in FloatsAt(n, gap) : TRUE
  BY DEF Float, found
<1> HIDE DEF gap
<1>6. Float(n) \in FloatsAt(n, gap)
  BY <1>4, <1>5 DEF found
<1>7. Float(n) \in {n - gap, n + gap} /\ IsDouble(Float(n)) /\ gap \in Nat
  BY <1>4, <1>6 DEF FloatsAt
<1>8. ASSUME NEW d \in Int, IsDouble(d) PROVE gap <= Distance(n, d)
  <2> DEFINE k == Distance(n, d)
  <2>1. k \in Nat /\ (d = n - k \/ d = n + k) BY DEF Distance
  <2>2. d \in FloatsAt(n, k) BY <1>8, <2>1 DEF FloatsAt
  <2> HIDE DEF k
  <2>3. ~ (k < gap)
    <3>1. SUFFICES ASSUME k < gap PROVE FALSE OBVIOUS
    <3>2. k \in 0..gap - 1 BY <1>7, <2>1, <3>1
    <3> QED BY <1>4, <2>2, <3>2 DEF found
  <2> QED BY <1>7, <2>1, <2>3 DEF k
<1>9. Distance(n, Float(n)) = gap
  BY <1>7 DEF Distance
<1> QED BY <1>7, <1>8, <1>9

LEMMA FloatMonotone ==
  ASSUME NEW a \in Int, NEW b \in Int, a <= b
  PROVE  Float(a) \in Int /\ Float(b) \in Int /\ Float(a) <= Float(b)
<1>1. PICK d \in Int : d = Float(a) /\ IsDouble(d)
  BY FloatFacts
<1>2. PICK e \in Int : e = Float(b) /\ IsDouble(e)
  BY FloatFacts
<1>3. Distance(a, d) <= Distance(a, e) /\ Distance(b, e) <= Distance(b, d)
  BY <1>1, <1>2, FloatFacts
<1>4. a < b => d <= e
  BY <1>3 DEF Distance
<1> QED BY <1>1, <1>2, <1>4

LEMMA Division ==
  ASSUME NEW n \in Int, NEW d \in Int, 0 < d
  PROVE  \E q \in Int, r \in 0..d - 1 : q = n \div d /\ r = n % d /\ n = d * q + r
OBVIOUS

LEMMA NearestMonotone ==
  ASSUME NEW a \in Int, NEW b \in Int, a <= b, NEW c \in Nat \ {0}
  PROVE  Nearest(a, c) \in Int /\ Nearest(b, c) \in Int /\ Nearest(a, c) <= Nearest(b, c)
<1> DEFINE even(q, r) == IF r = 0 /\ q % 2 = 1 THEN q - 1 ELSE q
<1>1. PICK t \in Int : t = 2 * c /\ 0 < t OBVIOUS
<1>2. ASSUME NEW n \in Int
      PROVE  \E q \in Int, r \in 0..t - 1 : Nearest(n, c) = even(q, r) /\ 2 * n + c = t * q + r
  <2>1. PICK m \in Int : m = 2 * n + c OBVIOUS
  <2>2. PICK q \in Int, r \in 0..t - 1 : q = m \div t /\ r = m % t /\ m = t * q + r
    BY <1>1, Division
  <2>3. Nearest(n, c) = even(q, r) BY <1>1, <2>1, <2>2 DEF Nearest
  <2> QED BY <2>1, <2>2, <2>3
<1>3. PICK q \in Int, r \in 0..t - 1 : Nearest(a, c) = even(q, r) /\ 2 * a + c = t * q + r
  BY <1>2
<1>4. PICK p \in Int, s \in 0..t - 1 : Nearest(b, c) = even(p, s) /\ 2 * b + c = t * p + s
  BY <1>2
<1>5. t * q + r <= t * p + s
  <2>1. 2 * a + c <= 2 * b + c OBVIOUS
  <2> QED BY <1>3, <1>4, <2>1
<1>6. q <= p
  <2>1. SUFFICES ASSUME p < q PROVE FALSE OBVIOUS
  <2>2. q - p - 1 \in Int /\ 0 <= q - p - 1 BY <2>1
  <2>3. 0 <= (q - p - 1) * t BY <1>1, <2>2, Product
  <2>4. (q - p - 1) * t = t * q - t * p - t BY <1>1
  <2> QED BY <1>1, <1>5, <2>3, <2>4
<1>7. CASE q < p
  BY <1>3, <1>4, <1>7
<1>8. CASE q = p
  <2>1. r <= s BY <1>5, <1>8
  <2>2. r = s => a = b BY <1>3, <1>4, <1>8
  <2>3. r < s => s # 0 BY <1>1
  <2> QED BY <1>3, <1>4, <1>8, <2>1, <2>2, <2>3
<1> QED BY <1>6, <1>7, <1>8

LEMMA RoundedMonotone ==
  ASSUME NEW a \in Int, NEW b \in Int, a <= b
  PROVE  Rounded(a) \in Int /\ Rounded(b) \in Int /\ Rounded(a) <= Rounded(b)
<1>1. PICK c \in Nat \ {0} : c = Digit
  BY DoublesAssumption
<1>2. PICK p \in Int, q \in Int : p = Nearest(a, c) /\ q = Nearest(b, c) /\ p <= q
  BY NearestMonotone
<1>3. c * p \in Int /\ c * q \in Int /\ c * p <= c * q
  <2>1. q - p \in Int /\ 0 <= q - p BY <1>2
  <2>2. 0 <= (q - p) * c BY <2>1, Product
  <2> QED BY <2>2
<1> QED BY <1>1, <1>2, <1>3, FloatMonotone DEF Rounded

LEMMA TruncatedWithin ==
  ASSUME NEW a \in Int, NEW low \in Int, NEW high \in Int,
         20000 * low <= a, a <= 20000 * high
  PROVE  /\ Truncated(a, 20000) \in Int
         /\ low <= Truncated(a, 20000) /\ Truncated(a, 20000) <= high
BY DEF Truncated

LEMMA RawWithin ==
  ASSUME NEW low \in Int, NEW high \in Int, low <= high,
         NEW fraction \in Int, -10000 <= fraction, fraction <= 10000
  PROVE  /\ RawValue(low, high, fraction) \in Int
         /\ low <= RawValue(low, high, fraction) /\ RawValue(low, high, fraction) <= high
<1> DEFINE d == high - low
           p == (fraction + 10000) * d
<1>1. 0 <= p /\ p <= 20000 * d /\ p \in Int
  <2>1. fraction + 10000 \in Int /\ 0 <= fraction + 10000 /\ fraction + 10000 <= 20000
    OBVIOUS
  <2>2. d \in Int /\ 0 <= d OBVIOUS
  <2> HIDE DEF d
  <2> QED BY <2>1, <2>2, Product
<1> HIDE DEF p
<1>2. 20000 * low <= 20000 * low + p /\ 20000 * low + p <= 20000 * high
  BY <1>1
<1>3. RawValue(low, high, fraction) = Truncated(20000 * low + p, 20000)
  BY DEF RawValue, p
<1>4. 20000 * low + p \in Int BY <1>1
<1>5. PICK a \in Int : a = 20000 * low + p BY <1>4
<1>6. Truncated(a, 20000) \in Int /\ low <= Truncated(a, 20000) /\ Truncated(a, 20000) <= high
  <2>1. 20000 * low <= a /\ a <= 20000 * high BY <1>2, <1>5
  <2> QED BY <2>1, TruncatedWithin
<1> QED BY <1>3, <1>5, <1>6

LEMMA DecodedWithin ==
  ASSUME NEW decoder, decoder.scale \in Int, decoder.offset \in Int,
         NEW low \in Int, NEW high \in Int, NEW raw \in Int, low <= raw, raw <= high
  PROVE  LET a == Decoded(decoder, low)
             b == Decoded(decoder, high)
             x == Decoded(decoder, raw)
         IN /\ a \in Int /\ b \in Int /\ x \in Int
            /\ (a <= x /\ x <= b) \/ (b <= x /\ x <= a)
<1>0. PICK s \in Int, o \in Int : s = decoder.scale /\ o = decoder.offset OBVIOUS
<1>1. ASSUME NEW m \in Int, NEW n \in Int, m * s <= n * s
      PROVE  /\ Decoded(decoder, m) \in Int /\ Decoded(decoder, n) \in Int
             /\ Decoded(decoder, m) <= Decoded(decoder, n)
  <2>1. PICK p \in Int, q \in Int : p = Float(m * s) /\ q = Float(n * s) /\ p <= q
    <3>1. m * s \in Int /\ n * s \in Int OBVIOUS
    <3> QED BY <1>1, <3>1, FloatMonotone
  <2>2. p + o \in Int /\ q + o \in Int /\ p + o <= q + o BY <2>1
  <2>3. Float(p + o) \in Int /\ Float(q + o) \in Int /\ Float(p + o) <= Float(q + o)
    BY <2>2, FloatMonotone
  <2> QED BY <1>0, <2>1, <2>3 DEF Decoded
<1>2. \/ low * s <= raw * s /\ raw * s <= high * s
      \/ high * s <= raw * s /\ raw * s <= low * s
  <2>1. CASE s >= 0
    <3>1. (raw - low) * s >= 0 /\ (high - raw) * s >= 0 BY <2>1, Product
    <3> QED BY <3>1
  <2>2. CASE s < 0
    <3>1. (raw - low) * (-s) >= 0 /\ (high - raw) * (-s) >= 0 BY <2>2, Product
    <3> QED BY <3>1
  <2> QED BY <2>1, <2>2
<1> HIDE DEF Decoded
<1> QED BY <1>1, <1>2

\* A simulator's vehicle as the server builds it.
Built(vehicle) == vehicle \in Simulators /\ ValidSimulator(vehicle)

LEMMA SimulatorFacts ==
  ASSUME NEW vehicle, Built(vehicle)
  PROVE  vehicle # None /\ None \notin vehicle.ecus /\ "engine" \in vehicle.ecus
<1>1. vehicle \in Simulators /\ ValidSimulator(vehicle)
  BY DEF Built
<1>2. "engine" \in vehicle.ecus
  BY <1>1 DEF ValidSimulator
<1>3. vehicle # None /\ None \notin vehicle.ecus
  BY <1>1, SimulatorsAssumption
<1> QED BY <1>2, <1>3

LEMMA PidWithin ==
  ASSUME NEW vehicle, Built(vehicle), NEW pid \in Pids, NEW fraction \in Fractions
  PROVE  /\ STANDARD_PIDS[pid].low <= PidValue(vehicle, pid, fraction)
         /\ PidValue(vehicle, pid, fraction) <= STANDARD_PIDS[pid].high
<1>0. fraction \in Int /\ -10000 <= fraction /\ fraction <= 10000
  BY FractionsAssumption
<1>1. CASE pid \in DOMAIN vehicle.pidValues
  BY <1>1 DEF PidValue, Built, ValidSimulator
<1>2. CASE pid \notin DOMAIN vehicle.pidValues
  <2> DEFINE b == BASE_VALUES[pid]
  <2>1. PidValue(vehicle, pid, fraction)
          = b.base + b.digit * Nearest(fraction * b.jitter, 10000 * b.digit)
    BY <1>2 DEF PidValue
  <2>2. CASE pid = 4
    <3>1. b.base = 24000 /\ b.jitter = 1500 /\ b.digit = 10
      BY <2>2 DEF BASE_VALUES, Pids
    <3>2. STANDARD_PIDS[pid].low = 0 /\ STANDARD_PIDS[pid].high = 100000
      BY <2>2 DEF STANDARD_PIDS, Pids
    <3> QED BY <1>0, <2>1, <3>1, <3>2 DEF Nearest
  <2>3. CASE pid = 5
    <3>1. b.base = 91000 /\ b.jitter = 2000 /\ b.digit = 1000
      BY <2>3 DEF BASE_VALUES, Pids
    <3>2. STANDARD_PIDS[pid].low = -40000 /\ STANDARD_PIDS[pid].high = 215000
      BY <2>3 DEF STANDARD_PIDS, Pids
    <3> QED BY <1>0, <2>1, <3>1, <3>2 DEF Nearest
  <2>4. CASE pid = 11
    <3>1. b.base = 42000 /\ b.jitter = 2000 /\ b.digit = 1000
      BY <2>4 DEF BASE_VALUES, Pids
    <3>2. STANDARD_PIDS[pid].low = 0 /\ STANDARD_PIDS[pid].high = 255000
      BY <2>4 DEF STANDARD_PIDS, Pids
    <3> QED BY <1>0, <2>1, <3>1, <3>2 DEF Nearest
  <2>5. CASE pid = 12
    <3>1. b.base = 812000 /\ b.jitter = 30000 /\ b.digit = 1000
      BY <2>5 DEF BASE_VALUES, Pids
    <3>2. STANDARD_PIDS[pid].low = 0 /\ STANDARD_PIDS[pid].high = 16383750
      BY <2>5 DEF STANDARD_PIDS, Pids
    <3> QED BY <1>0, <2>1, <3>1, <3>2 DEF Nearest
  <2>6. CASE pid = 13
    <3>1. b.base = 0 /\ b.jitter = 0 /\ b.digit = 1000
      BY <2>6 DEF BASE_VALUES, Pids
    <3>2. STANDARD_PIDS[pid].low = 0 /\ STANDARD_PIDS[pid].high = 255000
      BY <2>6 DEF STANDARD_PIDS, Pids
    <3> QED BY <1>0, <2>1, <3>1, <3>2 DEF Nearest
  <2>7. CASE pid = 15
    <3>1. b.base = 24000 /\ b.jitter = 1000 /\ b.digit = 1000
      BY <2>7 DEF BASE_VALUES, Pids
    <3>2. STANDARD_PIDS[pid].low = -40000 /\ STANDARD_PIDS[pid].high = 215000
      BY <2>7 DEF STANDARD_PIDS, Pids
    <3> QED BY <1>0, <2>1, <3>1, <3>2 DEF Nearest
  <2>8. CASE pid = 17
    <3>1. b.base = 15000 /\ b.jitter = 1000 /\ b.digit = 10
      BY <2>8 DEF BASE_VALUES, Pids
    <3>2. STANDARD_PIDS[pid].low = 0 /\ STANDARD_PIDS[pid].high = 100000
      BY <2>8 DEF STANDARD_PIDS, Pids
    <3> QED BY <1>0, <2>1, <3>1, <3>2 DEF Nearest
  <2>9. CASE pid = 47
    <3>1. b.base = 68000 /\ b.jitter = 500 /\ b.digit = 10
      BY <2>9 DEF BASE_VALUES, Pids
    <3>2. STANDARD_PIDS[pid].low = 0 /\ STANDARD_PIDS[pid].high = 100000
      BY <2>9 DEF STANDARD_PIDS, Pids
    <3> QED BY <1>0, <2>1, <3>1, <3>2 DEF Nearest
  <2>10. CASE pid = 66
    <3>1. b.base = 14200 /\ b.jitter = 100 /\ b.digit = 10
      BY <2>10 DEF BASE_VALUES, Pids
    <3>2. STANDARD_PIDS[pid].low = 0 /\ STANDARD_PIDS[pid].high = 65535
      BY <2>10 DEF STANDARD_PIDS, Pids
    <3> QED BY <1>0, <2>1, <3>1, <3>2 DEF Nearest
  <2> QED BY <2>2, <2>3, <2>4, <2>5, <2>6, <2>7, <2>8, <2>9, <2>10 DEF Pids
<1> QED BY <1>1, <1>2

-----------------------------------------------------------------------------
(* What the simulator answers.                                              *)

LEMMA ReadingsServed ==
  ASSUME NEW vehicle, Built(vehicle), NEW name, NEW fraction \in Fractions,
         NEW pids \in Seq(Pids), IsInjective(pids), NEW known, "engine" \in known
  PROVE  LET readings == SimulatedReadings(name, vehicle, pids, fraction)
         IN /\ ReadingsAccepted(readings, name, pids, known)
            /\ \A reading \in Range(readings) :
                 /\ reading.vehicle = name /\ reading.ecu = "engine"
                 /\ reading.pid \in Pids /\ reading.signal = StandardSignal(reading.pid)
                 /\ StandardSemantics(reading)
            /\ \A i, j \in DOMAIN readings : readings[i].signal = readings[j].signal => i = j
<1> DEFINE readings == SimulatedReadings(name, vehicle, pids, fraction)
           at(i) == [vehicle |-> name, ecu |-> "engine", pid |-> pids[i],
                     signal |-> StandardSignal(pids[i]), label |-> StandardLabel(pids[i]),
                     value |-> Number(PidValue(vehicle, pids[i], fraction)), source |-> "synthetic"]
<1>1. DOMAIN pids = 1..Len(pids) /\ Len(pids) \in Nat /\ \A i \in DOMAIN pids : pids[i] \in Pids
  OBVIOUS
<1>2. readings = [i \in DOMAIN pids |-> at(i)]
  BY DEF SimulatedReadings
<1>3. \A i \in DOMAIN pids :
        /\ at(i).vehicle = name /\ at(i).ecu = "engine" /\ at(i).pid = pids[i]
        /\ at(i).signal = StandardSignal(pids[i]) /\ at(i).label = StandardLabel(pids[i])
        /\ at(i).value.kind = "number" /\ at(i).value.n = PidValue(vehicle, pids[i], fraction)
        /\ at(i).source = "synthetic"
  BY DEF Number
<1>4. \A pid \in Pids : /\ STANDARD_PIDS[pid].low <= PidValue(vehicle, pid, fraction)
                        /\ PidValue(vehicle, pid, fraction) <= STANDARD_PIDS[pid].high
  BY PidWithin
<1> HIDE DEF at, readings
<1>5. DOMAIN readings = DOMAIN pids /\ \A i \in DOMAIN pids : readings[i] = at(i)
  BY <1>2
<1>6. Len(readings) = Len(pids)
  BY <1>1, <1>2
<1>7. \A i \in DOMAIN pids : StandardSemantics(readings[i])
  BY <1>1, <1>3, <1>4, <1>5 DEF StandardSemantics
<1>8. \A reading \in Range(readings) :
        /\ reading.vehicle = name /\ reading.ecu = "engine" /\ reading.pid \in Range(pids)
        /\ reading.pid \in Pids /\ reading.signal = StandardSignal(reading.pid)
        /\ StandardSemantics(reading)
  BY <1>1, <1>3, <1>5, <1>7 DEF Range
<1>9. /\ IsInjective([i \in DOMAIN readings |-> readings[i].pid])
      /\ \A i, j \in DOMAIN readings : readings[i].signal = readings[j].signal => i = j
  BY <1>3, <1>5 DEF IsInjective, StandardSignal
<1>10. ReadingsAccepted(readings, name, pids, known)
  BY <1>1, <1>6, <1>8, <1>9 DEF ReadingsAccepted, Bounded
<1> QED BY <1>8, <1>9, <1>10 DEF readings

LEMMA CodesFacts ==
  ASSUME NEW vehicle, Built(vehicle)
  PROVE  /\ IsFiniteSet(Codes(vehicle))
         /\ \A ecu \in vehicle.ecus :
              /\ CodesOf(vehicle, ecu) \in Seq(Range(CodesOf(vehicle, ecu)))
              /\ IsInjective(CodesOf(vehicle, ecu))
              /\ Len(CodesOf(vehicle, ecu)) <= MaxDtcs
<1> DEFINE ecus_ == DOMAIN vehicle.dtcs
           of(ecu) == {ecu} \X DOMAIN vehicle.dtcs[ecu]
<1>1. /\ IsFiniteSet(ecus_) /\ \A ecu \in ecus_ : vehicle.dtcs[ecu] \in Seq(Range(vehicle.dtcs[ecu]))
      /\ \A ecu \in ecus_ : IsInjective(vehicle.dtcs[ecu])
      /\ Cardinality(Codes(vehicle)) <= MaxDtcs
  BY SimulatorsAssumption DEF Built, ValidSimulator
<1>2. ASSUME NEW ecu \in ecus_
      PROVE  /\ IsFiniteSet(of(ecu))
             /\ Len(vehicle.dtcs[ecu]) \in Nat
             /\ Cardinality(of(ecu)) = Len(vehicle.dtcs[ecu])
  <2> DEFINE codes == vehicle.dtcs[ecu]
  <2>1. DOMAIN codes = 1..Len(codes) /\ Len(codes) \in Nat
    <3>1. codes \in Seq(Range(codes)) BY <1>1
    <3> HIDE DEF codes
    <3> QED BY <3>1
  <2> HIDE DEF codes
  <2>2. PICK n \in Nat : n = Len(codes) BY <2>1
  <2>3. IsFiniteSet(1..n) /\ Cardinality(1..n) = n
    <3>1. 1 \in Int /\ n \in Int OBVIOUS
    <3>2. IsFiniteSet(1..n) /\ Cardinality(1..n) = IF 1 > n THEN 0 ELSE n - 1 + 1
      BY <3>1, FS_Interval
    <3> QED BY <3>2
  <2>4. IsFiniteSet({ecu}) /\ Cardinality({ecu}) = 1 BY FS_Singleton
  <2>5. IsFiniteSet({ecu} \X (1..n)) /\ Cardinality({ecu} \X (1..n)) = 1 * n
    BY <2>3, <2>4, FS_Product
  <2> QED BY <2>1, <2>2, <2>5 DEF codes
<1>3. Codes(vehicle) = UNION {of(ecu) : ecu \in ecus_}
  BY DEF Codes
<1> HIDE DEF of
<1>4. IsFiniteSet({of(ecu) : ecu \in ecus_})
  <2> DEFINE all == {of(ecu) : ecu \in ecus_}
             f == [ecu \in ecus_ |-> of(ecu)]
  <2>1. f \in [ecus_ -> all] /\ \A t \in all : \E ecu \in ecus_ : f[ecu] = t
    OBVIOUS
  <2> HIDE DEF all, f
  <2>2. f \in Surjection(ecus_, all) BY <2>1 DEF Surjection
  <2> QED BY <1>1, <2>2, FS_Surjection DEF all
<1>5. IsFiniteSet(Codes(vehicle))
  <2>1. \A T \in {of(ecu) : ecu \in ecus_} : IsFiniteSet(T) BY <1>2
  <2> QED BY <1>3, <1>4, <2>1, FS_UNION
<1>6. ASSUME NEW ecu \in ecus_ PROVE Len(vehicle.dtcs[ecu]) <= MaxDtcs
  <2>1. of(ecu) \in SUBSET Codes(vehicle) BY <1>3
  <2>2. Cardinality(of(ecu)) <= Cardinality(Codes(vehicle)) BY <1>5, <2>1, FS_Subset
  <2>3. Cardinality(Codes(vehicle)) \in Nat BY <1>5, FS_CardinalityType
  <2> QED BY <1>1, <1>2, <2>2, <2>3, MaxDtcsAssumption
<1>7. ASSUME NEW ecu \in vehicle.ecus
      PROVE  /\ CodesOf(vehicle, ecu) \in Seq(Range(CodesOf(vehicle, ecu)))
             /\ IsInjective(CodesOf(vehicle, ecu))
             /\ Len(CodesOf(vehicle, ecu)) <= MaxDtcs
  <2>1. CASE ecu \in ecus_
    BY <1>1, <1>6, <2>1 DEF CodesOf
  <2>2. CASE ecu \notin ecus_
    <3>1. CodesOf(vehicle, ecu) = <<>> BY <2>2 DEF CodesOf
    <3>2. IsInjective(<<>>) /\ Len(<<>>) = 0 /\ <<>> \in Seq(Range(<<>>)) BY DEF IsInjective
    <3> QED BY <3>1, <3>2, MaxDtcsAssumption
  <2> QED BY <2>1, <2>2
<1> QED BY <1>5, <1>7

LEMMA DtcsServed ==
  ASSUME NEW vehicle, Built(vehicle), NEW name, NEW family, NEW ecu \in vehicle.ecus
  PROVE  DtcsAccepted(DtcsOf(name, vehicle, ecu, family), name, ecu, vehicle.ecus, family)
<1> DEFINE codes == CodesOf(vehicle, ecu)
           dtcs == DtcsOf(name, vehicle, ecu, family)
<1>1. codes \in Seq(Range(codes)) /\ IsInjective(codes) /\ Len(codes) <= MaxDtcs
  BY CodesFacts
<1>2. dtcs = [i \in DOMAIN codes |-> Dtc(name, ecu, codes[i], family)]
  BY DEF DtcsOf
<1> HIDE DEF codes, dtcs
<1>3. DOMAIN codes = 1..Len(codes) /\ Len(codes) \in Nat
  BY <1>1
<1>4. DOMAIN dtcs = DOMAIN codes /\ Len(dtcs) = Len(codes)
  BY <1>2, <1>3
<1>5. \A i \in DOMAIN codes :
        /\ dtcs[i].vehicle = name /\ dtcs[i].ecu = ecu /\ dtcs[i].family = family
        /\ dtcs[i].code = codes[i] /\ dtcs[i].state = "stored" /\ dtcs[i].source = "synthetic"
  BY <1>2 DEF Dtc
<1>6. \A dtc \in Range(dtcs) :
        /\ dtc.vehicle = name /\ dtc.ecu = ecu /\ dtc.ecu \in vehicle.ecus
        /\ dtc.family = family /\ dtc.state = "stored" /\ dtc.source = "synthetic"
  BY <1>4, <1>5 DEF Range
<1>7. IsInjective([i \in DOMAIN dtcs |-> <<dtcs[i].ecu, dtcs[i].code, dtcs[i].state>>])
  BY <1>1, <1>4, <1>5 DEF IsInjective
<1> QED BY <1>1, <1>4, <1>6, <1>7 DEF DtcsAccepted, Bounded, dtcs

LEMMA AllDtcsServed ==
  ASSUME NEW vehicle, Built(vehicle), NEW name, NEW ecu \in vehicle.ecus \cup {None}
  PROVE  DtcsAccepted(SimulatedDtcs(name, vehicle, ecu), name, ecu, vehicle.ecus, "obd")
<1>1. CASE ecu # None
  BY <1>1, DtcsServed DEF SimulatedDtcs
<1>2. CASE ecu = None
  <2> DEFINE codes == Codes(vehicle)
             all == SetToSeq(codes)
             n == Cardinality(codes)
             code(i) == vehicle.dtcs[all[i][1]][all[i][2]]
             dtcs == [i \in DOMAIN all |-> Dtc(name, all[i][1], code(i), "obd")]
  <2>1. SimulatedDtcs(name, vehicle, ecu) = dtcs
    BY <1>2 DEF SimulatedDtcs
  <2>2. IsFiniteSet(codes) /\ n \in Nat /\ n <= MaxDtcs
    BY CodesFacts, FS_CardinalityType DEF Built, ValidSimulator
  <2>3. all \in [1..n -> codes] /\ IsInjective(all)
    <3>1. PICK k \in Nat : ExistsBijection(1..k, codes)
      BY <2>2, FS_NatBijection
    <3>2. k = n BY <3>1, FS_CountingElements
    <3>3. \E f \in [1..n -> codes] : IsInjective(f)
      BY <3>1, <3>2 DEF ExistsBijection, Bijection, Injection
    <3> QED BY <3>3 DEF SetToSeq
  <2>4. \A place \in codes :
          /\ place = <<place[1], place[2]>> /\ place[1] \in vehicle.ecus
          /\ place[1] \in DOMAIN vehicle.dtcs /\ place[2] \in DOMAIN vehicle.dtcs[place[1]]
    BY DEF Codes, Built, ValidSimulator
  <2>5. \A p, q \in codes :
          p[1] = q[1] /\ vehicle.dtcs[p[1]][p[2]] = vehicle.dtcs[q[1]][q[2]] => p = q
    BY <2>4 DEF Built, ValidSimulator, IsInjective
  <2> HIDE DEF codes, all, n
  <2>6. DOMAIN all = 1..n /\ \A i \in 1..n : all[i] \in codes
    BY <2>3
  <2>7. \A i \in 1..n :
          /\ dtcs[i].vehicle = name /\ dtcs[i].ecu = all[i][1] /\ dtcs[i].family = "obd"
          /\ dtcs[i].code = code(i) /\ dtcs[i].state = "stored" /\ dtcs[i].source = "synthetic"
    BY <2>6 DEF Dtc
  <2>8. DOMAIN dtcs = 1..n /\ Len(dtcs) = n
    BY <2>2, <2>6
  <2> HIDE DEF dtcs
  <2>9. \A dtc \in Range(dtcs) :
          /\ dtc.vehicle = name /\ dtc.ecu \in vehicle.ecus
          /\ dtc.family = "obd" /\ dtc.state = "stored" /\ dtc.source = "synthetic"
    BY <2>4, <2>6, <2>7, <2>8 DEF Range
  <2>10. \A i, j \in 1..n : dtcs[i].ecu = dtcs[j].ecu /\ dtcs[i].code = dtcs[j].code => i = j
    BY <2>3, <2>5, <2>6, <2>7 DEF IsInjective
  <2>11. IsInjective([i \in DOMAIN dtcs |-> <<dtcs[i].ecu, dtcs[i].code, dtcs[i].state>>])
    BY <2>8, <2>10 DEF IsInjective
  <2> QED BY <1>2, <2>1, <2>2, <2>8, <2>9, <2>11 DEF DtcsAccepted, Bounded
<1> QED BY <1>1, <1>2

Loaded(document) == \E files \in Files : \E path \in DOMAIN files : document = files[path]

\* What lies between two ends that round inside their range rounds inside it.
LEMMA RoundedWithin ==
  ASSUME NEW low \in Int, NEW high \in Int, NEW x \in Int, low <= x, x <= high,
         \A end \in {low, high} :
           \E l, h \in {low, high} : l <= Rounded(end) /\ Rounded(end) <= h
  PROVE  low <= Rounded(x) /\ Rounded(x) <= high
<1>1. Rounded(low) \in Int /\ Rounded(x) \in Int /\ Rounded(low) <= Rounded(x)
  BY RoundedMonotone
<1>2. Rounded(high) \in Int /\ Rounded(x) <= Rounded(high)
  BY RoundedMonotone
<1>3. low <= Rounded(low) /\ Rounded(high) <= high
  BY <1>1, <1>2
<1> QED BY <1>1, <1>2, <1>3

LEMMA ValueServed ==
  ASSUME NEW document, Loaded(document), NEW read \in Range(document.reads),
         read.decoder # None, Numeric(read.decoder.type), ~ RoundedOut(read.decoder),
         NEW fraction \in Fractions
  PROVE  LET low  == Decoded(read.decoder, LowestRaw(read.decoder.type))
             high == Decoded(read.decoder, HighestRaw(read.decoder.type))
             x    == SimulatedValue(read.decoder, fraction)
         IN /\ x.kind = "number"
            /\ (low <= x.n /\ x.n <= high) \/ (high <= x.n /\ x.n <= low)
<1> DEFINE decoder == read.decoder
           type == decoder.type
           bottom == LowestRaw(type)
           top == HighestRaw(type)
           low == Decoded(decoder, bottom)
           high == Decoded(decoder, top)
           raw == RawValue(bottom, top, fraction)
           exact == Decoded(decoder, raw)
<1>1. type \in ScalarTypes /\ decoder.scale \in Int /\ decoder.offset \in Int
  BY FilesAssumption DEF Loaded
<1>2. \A end \in {low, high} : \E l, h \in {low, high} : l <= Rounded(end) /\ Rounded(end) <= h
  BY DEF RoundedOut
<1>3. bottom \in Int /\ top \in Int /\ bottom <= top
  BY <1>1, RawEnds
<1>4. PICK f \in Int : f = fraction /\ -10000 <= f /\ f <= 10000
  BY FractionsAssumption
<1>5. SimulatedValue(decoder, fraction) = Number(Rounded(exact))
  BY DEF SimulatedValue, RawLimit
<1> HIDE DEF exact, raw, low, high, bottom, top, type, decoder
<1>6. raw \in Int /\ bottom <= raw /\ raw <= top
  <2>1. PICK b \in Int, t \in Int : b = bottom /\ t = top BY <1>3
  <2>2. b <= t BY <1>3, <2>1
  <2>3. RawValue(b, t, f) \in Int /\ b <= RawValue(b, t, f) /\ RawValue(b, t, f) <= t
    BY <1>4, <2>2, RawWithin
  <2> QED BY <1>4, <2>1, <2>3 DEF raw
<1>7. /\ low \in Int /\ high \in Int /\ exact \in Int
      /\ (low <= exact /\ exact <= high) \/ (high <= exact /\ exact <= low)
  BY <1>1, <1>3, <1>6, DecodedWithin DEF low, high, exact
<1>8. (low <= Rounded(exact) /\ Rounded(exact) <= high) \/ (high <= Rounded(exact) /\ Rounded(exact) <= low)
  <2>1. PICK l \in Int, h \in Int, x \in Int : l = low /\ h = high /\ x = exact BY <1>7
  <2>2. CASE l <= x /\ x <= h
    <3>1. l <= Rounded(x) /\ Rounded(x) <= h BY <1>2, <2>1, <2>2, RoundedWithin
    <3> QED BY <2>1, <3>1
  <2>3. CASE h <= x /\ x <= l
    <3>1. {h, l} = {low, high} BY <2>1
    <3>2. h <= Rounded(x) /\ Rounded(x) <= l BY <1>2, <2>3, <3>1, RoundedWithin
    <3> QED BY <2>1, <3>2
  <2> QED BY <1>7, <2>1, <2>2, <2>3
<1> QED BY <1>5, <1>8 DEF Number, low, high, bottom, top, type, decoder

LEMMA SignalsServed ==
  ASSUME NEW profile, profile # None, Loaded(profile), ValidDocument(profile),
         NEW name, NEW vehicle, NEW ecu, NEW fraction \in Fractions,
         ~ RoundsOut(ReadsFor(profile, ecu))
  PROVE  LET reads == ReadsFor(profile, ecu)
         IN SignalsAccepted(SimulatedSignals(name, vehicle, ecu, reads, fraction),
                            name, ecu, reads, profile)
<1> DEFINE reads == ReadsFor(profile, ecu)
           own == {i \in DOMAIN reads : reads[i].ecu = ecu /\ reads[i].service # 25}
           values == Picked(reads, own)
           n == Cardinality(own)
           at(i) == [vehicle |-> name, ecu |-> ecu, pid |-> None, signal |-> values[i].signal,
                     label |-> <<values[i].name, values[i].decoder.unit>>,
                     value |-> SimulatedValue(values[i].decoder, fraction), source |-> "synthetic"]
           signals == SimulatedSignals(name, vehicle, ecu, reads, fraction)
<1>1. signals = [i \in DOMAIN values |-> at(i)]
  BY DEF SimulatedSignals
<1>2. profile.reads \in Seq(Range(profile.reads))
  BY FilesAssumption DEF Loaded
<1>3. /\ reads \in Seq(Range(profile.reads))
      /\ \A read \in Range(reads) : read \in Range(profile.reads) /\ read.ecu = ecu /\ ValidRead(read)
      /\ \A i, j \in DOMAIN reads : reads[i].signal # None /\ reads[i].signal = reads[j].signal => i = j
  BY <1>2, ReadsForFacts
<1>4. \A read : ValidRead(read) /\ read.service # 25 =>
        read.service = 34 /\ read.signal # None /\ read.decoder # None
  BY DEF ValidRead, AuthorizesUdsService, READ_ONLY_UDS_SERVICES
<1> HIDE DEF reads
<1>5. \E place \in [1..n -> own] :
        IsInjective(place) /\ values = [k \in 1..n |-> reads[place[k]]]
  <2>1. PICK S : S = Range(profile.reads) OBVIOUS
  <2>2. reads \in Seq(S) /\ own \in SUBSET (DOMAIN reads) BY <1>3, <2>1
  <2> HIDE DEF own
  <2> QED BY ONLY <2>2, PickedFacts
<1>6. PICK place \in [1..n -> own] :
        IsInjective(place) /\ values = [k \in 1..n |-> reads[place[k]]]
  BY <1>5
<1>7. \A i \in own : /\ reads[i] \in Range(profile.reads) /\ reads[i].signal # None
                     /\ reads[i].decoder # None
                     /\ reads[i] \in ValueReads(reads)
  BY <1>3, <1>4 DEF Range, ValueReads
<1> HIDE DEF own, n, values
<1>8. DOMAIN values = 1..n /\ \A k \in 1..n : values[k] = reads[place[k]] /\ place[k] \in own
  BY <1>6
<1>9. \A read, other \in ValueReads(reads) : read.signal # None /\ read.signal = other.signal => read = other
  BY <1>3 DEF ValueReads, Range
\* The read that is found by a signal is the one it was made from.
<1>10. \A k \in 1..n : (CHOOSE read \in ValueReads(reads) : read.signal = values[k].signal) = values[k]
  <2>1. SUFFICES ASSUME NEW k \in 1..n
                 PROVE  (CHOOSE read \in ValueReads(reads) : read.signal = values[k].signal) = values[k]
    OBVIOUS
  <2>2. PICK v : v = values[k] OBVIOUS
  <2>3. v \in ValueReads(reads) /\ v.signal # None BY <1>7, <1>8, <2>2
  <2>4. \A read \in ValueReads(reads) : read.signal = v.signal => read = v BY <1>9, <2>3
  <2>5. (CHOOSE read \in ValueReads(reads) : read.signal = v.signal) = v BY <2>3, <2>4
  <2> QED BY <2>2, <2>5
<1>11. \A k \in 1..n : /\ at(k).vehicle = name /\ at(k).ecu = ecu /\ at(k).pid = None
                       /\ at(k).signal = values[k].signal
                       /\ at(k).label = <<values[k].name, values[k].decoder.unit>>
                       /\ at(k).value = SimulatedValue(values[k].decoder, fraction)
  OBVIOUS
<1> HIDE DEF at, signals
<1>12. DOMAIN signals = 1..n /\ \A k \in 1..n : signals[k] = at(k)
  BY <1>1, <1>8
<1>13. ASSUME NEW k \in 1..n PROVE DeclaredSemantics(signals[k], reads)
  <2> DEFINE decoder == values[k].decoder
             low == Decoded(decoder, LowestRaw(decoder.type))
             high == Decoded(decoder, HighestRaw(decoder.type))
  <2>1. values[k] \in Range(profile.reads) /\ decoder # None BY <1>7, <1>8
  <2>2. /\ signals[k].signal = values[k].signal
        /\ signals[k].label = <<values[k].name, decoder.unit>>
        /\ signals[k].value = SimulatedValue(decoder, fraction)
    BY <1>11, <1>12
  <2>3. CASE Numeric(decoder.type)
    <3>0. ~ RoundedOut(decoder) BY <1>7, <1>8, <2>3 DEF RoundsOut, reads
    <3>1. /\ signals[k].value.kind = "number"
          /\ \/ low <= signals[k].value.n /\ signals[k].value.n <= high
             \/ high <= signals[k].value.n /\ signals[k].value.n <= low
      BY <2>1, <2>2, <2>3, <3>0, ValueServed
    <3>2. \E a, b \in {low, high} : a <= signals[k].value.n /\ signals[k].value.n <= b
      BY <3>1
    <3> QED BY <1>10, <2>2, <2>3, <3>1, <3>2 DEF DeclaredSemantics
  <2>4. CASE ~ Numeric(decoder.type)
    <3>1. signals[k].value.kind = "text" BY <2>2, <2>4 DEF SimulatedValue, SomeText
    <3> QED BY <1>10, <2>2, <2>4, <3>1 DEF DeclaredSemantics
  <2> QED BY <2>3, <2>4
<1>14. \A k \in 1..n : signals[k].signal \in AllowedSignals(reads, profile)
  BY <1>7, <1>8, <1>11, <1>12 DEF AllowedSignals
<1>15. IsInjective([k \in DOMAIN signals |-> signals[k].signal])
  <2>1. \A k, l \in 1..n : signals[k].signal = signals[l].signal => k = l
    <3>1. \A k, l \in 1..n : reads[place[k]].signal = reads[place[l]].signal => place[k] = place[l]
      BY <1>3, <1>7, <1>8 DEF own
    <3>2. \A k, l \in 1..n : place[k] = place[l] => k = l
      BY <1>6 DEF IsInjective
    <3> QED BY <1>8, <1>11, <1>12, <3>1, <3>2
  <2> QED BY <1>12, <2>1 DEF IsInjective
<1>16. SignalsAccepted(signals, name, ecu, reads, profile)
  BY <1>11, <1>12, <1>13, <1>14, <1>15 DEF SignalsAccepted, Range
<1> QED BY <1>16 DEF signals, reads

LEMMA EngineServed ==
  ASSUME NEW vehicle, Built(vehicle), NEW name, NEW fraction \in Fractions, NEW reads
  PROVE  SignalsAccepted(SimulatedReadings(name, vehicle, AllPids, fraction), name, "engine", reads, None)
<1> DEFINE readings == SimulatedReadings(name, vehicle, AllPids, fraction)
<1>1. AllPids \in Seq(Pids) /\ IsInjective(AllPids)
  BY DEF AllPids, Pids, IsInjective
<1>2. "engine" \in vehicle.ecus
  BY SimulatorFacts
<1>3. /\ \A reading \in Range(readings) :
           /\ reading.vehicle = name /\ reading.ecu = "engine"
           /\ reading.pid \in Pids /\ reading.signal = StandardSignal(reading.pid)
           /\ StandardSemantics(reading)
      /\ \A i, j \in DOMAIN readings : readings[i].signal = readings[j].signal => i = j
  BY <1>1, <1>2, ReadingsServed
<1> HIDE DEF readings
<1> QED BY <1>3 DEF SignalsAccepted, AllowedSignals, IsInjective, readings

LEMMA SnapshotServed ==
  ASSUME NEW vehicle, Built(vehicle), NEW name, NEW ecu \in vehicle.ecus,
         NEW fraction \in Fractions, NEW profile,
         profile # None => Loaded(profile) /\ ValidDocument(profile) /\ ReadsFor(profile, ecu) # <<>>,
         NEW id, id = IF profile = None THEN None ELSE profile.id,
         ~ RoundsOut(ReadsFor(profile, ecu))
  PROVE  LET reads == ReadsFor(profile, ecu)
         IN SnapshotAccepted(SimulatedSnapshot(name, vehicle, ecu, reads, id, fraction),
                             name, ecu, reads, profile, vehicle.ecus, "simulated")
<1> DEFINE reads == ReadsFor(profile, ecu)
           snapshot == SimulatedSnapshot(name, vehicle, ecu, reads, id, fraction)
           family == IF profile = None THEN "obd" ELSE "uds"
           readings == SimulatedReadings(name, vehicle, AllPids, fraction)
<1>1. /\ snapshot.vehicle = name /\ snapshot.ecu = ecu
      /\ snapshot.profile = id /\ snapshot.protocol = "simulated"
      /\ snapshot.signals = IF reads # <<>> THEN SimulatedSignals(name, vehicle, ecu, reads, fraction)
                            ELSE IF ecu = "engine" THEN readings ELSE <<>>
      /\ snapshot.dtcs = IF reads = <<>> THEN DtcsOf(name, vehicle, ecu, "obd")
                         ELSE IF \E read \in Range(reads) : read.ecu = ecu /\ read.service = 25
                         THEN DtcsOf(name, vehicle, ecu, "uds")
                         ELSE <<>>
  BY DEF SimulatedSnapshot
<1>2. profile = None <=> reads = <<>>
  BY DEF ReadsFor
<1>3. DtcsAccepted(<<>>, name, ecu, vehicle.ecus, family)
  BY MaxDtcsAssumption DEF DtcsAccepted, Bounded, Range, IsInjective
<1>4. \A f : DtcsAccepted(DtcsOf(name, vehicle, ecu, f), name, ecu, vehicle.ecus, f)
  BY DtcsServed
<1> HIDE DEF snapshot, reads
<1>5. DtcsAccepted(snapshot.dtcs, name, ecu, vehicle.ecus, family)
  BY <1>1, <1>2, <1>3, <1>4
<1>6. snapshot.dtcs # <<>> => profile = None \/ \E read \in Range(reads) : read.service = 25
  BY <1>1, <1>2
<1>7. SignalsAccepted(snapshot.signals, name, ecu, reads, profile)
  <2>1. CASE profile # None
    BY <1>1, <1>2, <2>1, SignalsServed DEF reads
  <2>2. CASE profile = None /\ ecu = "engine"
    <3>1. SignalsAccepted(readings, name, "engine", reads, None)
      BY EngineServed
    <3> HIDE DEF readings
    <3> QED BY <1>1, <1>2, <2>2, <3>1
  <2>3. CASE profile = None /\ ecu # "engine"
    <3>1. snapshot.signals = <<>> BY <1>1, <1>2, <2>3
    <3> QED BY <3>1 DEF SignalsAccepted, Range, IsInjective
  <2> QED BY <2>1, <2>2, <2>3
<1> QED BY <1>1, <1>5, <1>6, <1>7 DEF SnapshotAccepted, snapshot, reads

-----------------------------------------------------------------------------
(* What is served: a second invariant, beside the first.                    *)

\* The simulator's vehicle does not change, and what was once taken for its status
\* is still true of it.
Unchanging ==
  simulator # None =>
    /\ Built(simulator) /\ ecus = SimulatedEcus(simulator)
    /\ status \in {None, ecus}
    /\ step \in {"waiting", "asked"} => scope = ecus

Serving ==
  /\ Unchanging
  /\ step = "down" => status = None
  /\ metadata \in Metadata
  /\ step \in {"waiting", "asked"} => request.op # "status" /\ EcuKnown(request, scope)
  /\ bound # None => Loaded(bound)
  /\ step = "done" /\ simulator # None /\ asked # None /\ ~ Answered => RoundsOut(asked.reads)

LEMMA SimulatorServed ==
  ASSUME Bound, Vetted, Serving, step = "asked", simulator # None,
         ~ RoundsOut(asked.reads), NEW answer \in SimulatorAnswers
  PROVE  Accepted(answer)
<1>1. /\ Built(simulator) /\ scope = SimulatedEcus(simulator)
      /\ request \in Requests /\ PolicyAllows(request) /\ asked = AskedFor(request)
      /\ request.op # "status" /\ EcuKnown(request, scope)
  BY DEF Serving, Unchanging, Vetted
<1>2. /\ DOMAIN scope = simulator.ecus /\ \A ecu \in simulator.ecus : scope[ecu] = "simulated"
      /\ "engine" \in DOMAIN scope
  BY <1>1, SimulatorFacts DEF SimulatedEcus
<1>3. asked.op = request.op /\ asked.ecu = request.ecu
  BY <1>1 DEF AskedFor
<1>4. request.op \in {"pids", "dtcs", "snapshot"}
  BY <1>1, RequestsAssumption
<1>5. CASE request.op = "pids"
  <2>1. PICK f \in Fractions : answer = SimulatedReadings(Target, simulator, asked.pids, f)
    BY <1>3, <1>5 DEF SimulatorAnswers
  <2>2. asked.pids \in Seq(Pids) /\ IsInjective(asked.pids)
    <3>1. asked.pids = AuthorizeStandardPids(request.pids) /\ AuthorizeStandardPids(request.pids) # None
      BY <1>1, <1>5 DEF AskedFor, PidsAsked, PolicyAllows
    <3>2. request.pids = None \/ request.pids \in Seq(Range(request.pids))
      BY <1>1, RequestsAssumption
    <3> QED BY <3>1, <3>2, PidsFacts
  <2>3. ReadingsAccepted(answer, Target, asked.pids, DOMAIN scope)
    BY <1>1, <1>2, <2>1, <2>2, ReadingsServed
  <2> QED BY <1>3, <1>5, <2>3 DEF Accepted
<1>6. CASE request.op = "dtcs"
  <2>1. answer = SimulatedDtcs(Target, simulator, asked.ecu)
    BY <1>3, <1>6 DEF SimulatorAnswers
  <2>2. asked.ecu \in simulator.ecus \cup {None}
    BY <1>1, <1>2, <1>3, <1>6 DEF EcuKnown
  <2>3. DtcsAccepted(answer, Target, asked.ecu, DOMAIN scope, "obd")
    BY <1>1, <1>2, <2>1, <2>2, AllDtcsServed
  <2> QED BY <1>3, <1>6, <2>3 DEF Accepted
<1>7. CASE request.op = "snapshot"
  <2>1. PICK f \in Fractions :
          answer = SimulatedSnapshot(Target, simulator, asked.ecu, asked.reads, asked.profile, f)
    BY <1>3, <1>7 DEF SimulatorAnswers
  <2>2. asked.ecu \in simulator.ecus
    <3>1. request.ecu # None BY <1>1, <1>7, RequestsAssumption
    <3> QED BY <1>1, <1>2, <1>3, <1>7, <3>1 DEF EcuKnown
  <2>3. /\ asked.reads = ReadsFor(bound, asked.ecu)
        /\ asked.profile = IF bound = None THEN None ELSE bound.id
    BY <1>1, <1>3, <1>7 DEF AskedFor
  <2>4. bound # None => Loaded(bound) /\ ValidDocument(bound) /\ ReadsFor(bound, asked.ecu) # <<>>
    BY <1>1, <1>3, <1>7 DEF PolicyAllows, ContextAllows, Bound, Serving
  <2>5. SnapshotAccepted(answer, Target, asked.ecu, asked.reads, bound, simulator.ecus, "simulated")
    BY <1>1, <2>1, <2>2, <2>3, <2>4, SnapshotServed
  <2>6. scope[asked.ecu] = "simulated" BY <1>2, <2>2
  <2> QED BY <1>2, <1>3, <1>7, <2>5, <2>6 DEF Accepted
<1> QED BY <1>4, <1>5, <1>6, <1>7

LEMMA UnchangingStep ==
  ASSUME Vetted, Serving, ReadNext
  PROVE  Unchanging' /\ (step = "down" => status = None)'
<1> USE DEF Serving
<1>1. CASE StartUp
  <2>1. /\ step = "down" /\ step' = "idle" /\ status' = None
        /\ \E driver \in Simulators \cup {None} :
             /\ driver # None => ValidSimulator(driver)
             /\ simulator' = driver
             /\ driver # None => ecus' = SimulatedEcus(driver)
    BY <1>1 DEF StartUp
  <2>2. simulator' # None => Built(simulator') /\ ecus' = SimulatedEcus(simulator')
    BY <2>1 DEF Built
  <2> QED BY <2>1, <2>2 DEF Unchanging, Built, SimulatedEcus, ValidSimulator, Codes
<1>2. CASE ~ StartUp
  <2>1. /\ simulator' = simulator /\ (simulator # None => ecus' = ecus)
        /\ step' = "down" => step = "down"
    BY <1>2 DEF ReadNext, Change, Expire, Begin, CachedStatus, FetchStatus, Scoped, Ask, Answer,
                DriverFails, Finish, MutateRead, readVars, Ends
  <2>2. status' \in {status, None} \/ (status' = ecus /\ FetchStatus)
    <3>1. CASE FetchStatus
      <4>1. status' = IF PublicAccepted(metadata') THEN ecus ELSE None BY <3>1 DEF FetchStatus
      <4> QED BY <3>1, <4>1
    <3>2. CASE MutateRead
      BY <3>2 DEF MutateRead
    <3>3. CASE ~ FetchStatus /\ ~ MutateRead
      BY <1>2, <3>3 DEF ReadNext, Change, Expire, Begin, CachedStatus, Ask, Answer, DriverFails,
                        Finish, readVars
    <3> QED BY <3>1, <3>2, <3>3
  <2>3. step' \in {"waiting", "asked"} =>
          \/ step \in {"waiting", "asked"} /\ scope' = scope
          \/ CachedStatus /\ scope' = status /\ status # None
          \/ FetchStatus /\ scope' = ecus
    BY <1>2 DEF ReadNext, Change, Expire, Begin, CachedStatus, FetchStatus, Scoped, Ask, Answer,
                DriverFails, Finish, MutateRead, readVars, Ends
  <2>4. step' = "down" => status' = None
    BY <2>1, <2>2 DEF FetchStatus, Scoped, Ends
  <2>5. SimulatedEcus(simulator)' = SimulatedEcus(simulator) /\ Built(simulator)' = Built(simulator)
    BY <2>1 DEF SimulatedEcus, Built, ValidSimulator, Codes
  <2> QED BY <2>1, <2>2, <2>3, <2>4, <2>5 DEF Unchanging
<1> QED BY <1>1, <1>2

LEMMA LoadedStep ==
  ASSUME Bound, ReadNext, bound # None => Loaded(bound)
  PROVE  bound' # None => Loaded(bound')
<1>1. CASE StartUp
  <2>1. PICK files \in Files, config \in Configs :
          ProfilesLoad(files, config) /\ bound' = BoundProfile(files, config, Target)
    BY <1>1 DEF StartUp
  <2>2. CASE config[Target] = None
    BY <2>1, <2>2 DEF BoundProfile
  <2>3. CASE config[Target] # None
    <3>1. bound' = files[config[Target]] BY <2>1, <2>3, Binding
    <3>2. config[Target] \in DOMAIN files
      BY <2>3, ConfigsAssumption DEF UsedPaths, Range
    <3> QED BY <3>1, <3>2 DEF Loaded
  <2> QED BY <2>2, <2>3
<1>2. CASE ~ StartUp
  <2>1. bound' = bound
    BY <1>2 DEF ReadNext, Change, Expire, Begin, CachedStatus, FetchStatus, Ask, Answer, DriverFails,
                Finish, MutateRead, readVars
  <2> QED BY <2>1
<1> QED BY <1>1, <1>2

LEMMA MetadataStep ==
  ASSUME metadata \in Metadata, ReadNext
  PROVE  metadata' \in Metadata
<1>1. Plain \in Metadata
  BY PlainAssumption DEF Plain
<1> QED BY <1>1 DEF ReadNext, StartUp, Change, Expire, Begin, CachedStatus, FetchStatus, Ask, Answer,
                    DriverFails, Finish, MutateRead, readVars

LEMMA KnownStep ==
  ASSUME Serving, ReadNext
  PROVE  (step \in {"waiting", "asked"} => request.op # "status" /\ EcuKnown(request, scope))'
<1>1. CASE CachedStatus \/ FetchStatus
  <2>1. PICK known : Scoped(known) BY <1>1 DEF CachedStatus, FetchStatus
  <2>2. request' = request BY <1>1 DEF CachedStatus, FetchStatus
  <2>3. scope' = known BY <2>1 DEF Scoped
  <2>4. step' # "done" => request.op # "status" /\ ScopeError(request, known, metadata') = None
    BY <2>1 DEF Scoped, Ends
  <2>5. ScopeError(request, known, metadata') = None => EcuKnown(request, known)
    BY NoneAssumption DEF ScopeError
  <2>6. EcuKnown(request, scope)' = EcuKnown(request, known)
    BY <2>2, <2>3 DEF EcuKnown
  <2> QED BY <2>2, <2>4, <2>5, <2>6
<1>2. CASE Ask
  <2>1. step = "waiting" /\ UNCHANGED <<request, scope>> BY <1>2 DEF Ask
  <2> QED BY <2>1 DEF Serving, EcuKnown
<1>3. CASE StartUp \/ (\E r \in Requests : Begin(r)) \/ Answer \/ DriverFails \/ Finish
  BY <1>3 DEF StartUp, Begin, Answer, DriverFails, Finish, Ends
<1>4. CASE Change \/ Expire \/ MutateRead \/ UNCHANGED readVars
  <2>1. UNCHANGED <<step, request, scope>>
    BY <1>4 DEF Change, Expire, MutateRead, readVars
  <2> QED BY <2>1 DEF Serving, EcuKnown
<1> QED BY <1>1, <1>2, <1>3, <1>4 DEF ReadNext

LEMMA ServingStep ==
  ASSUME Bound, Vetted, Serving, ReadNext
  PROVE  Serving'
<1>1. (step = "done" /\ simulator # None /\ asked # None /\ ~ Answered => RoundsOut(asked.reads))'
  <2>1. CASE Answer
    <3>1. PICK answer \in IF simulator # None THEN SimulatorAnswers ELSE PluginAnswers :
            outcome' = IF Accepted(answer) THEN Result(Returned(answer)) ELSE DriverError
      BY <2>1 DEF Answer, Ends
    <3>2. step = "asked" /\ UNCHANGED <<simulator, asked>> /\ step' = "done"
      BY <2>1 DEF Answer, Ends
    <3>3. CASE simulator # None /\ ~ RoundsOut(asked.reads)
      <4>1. Accepted(answer) BY <3>1, <3>2, <3>3, SimulatorServed
      <4>2. outcome'.kind = "result" BY <3>1, <4>1 DEF Result
      <4>3. asked # None => Answered' BY <3>2, <4>2 DEF Answered
      <4> QED BY <3>2, <4>3
    <3>4. RoundsOut(asked.reads)' = RoundsOut(asked.reads) BY <3>2
    <3> QED BY <3>2, <3>3, <3>4
  <2>2. CASE DriverFails
    BY <2>2 DEF DriverFails
  <2>3. CASE StartUp \/ Ask \/ Finish
    BY <2>3 DEF StartUp, Ask, Finish
  <2>4. CASE (\E r \in Requests : Begin(r)) \/ CachedStatus \/ FetchStatus
    BY <2>4 DEF Begin, CachedStatus, FetchStatus, Vetted
  <2>5. CASE Change \/ Expire \/ MutateRead \/ UNCHANGED readVars
    <3>1. UNCHANGED <<simulator, step, asked, outcome>>
      BY <2>5 DEF Change, Expire, MutateRead, readVars
    <3>2. RoundsOut(asked.reads)' = RoundsOut(asked.reads) BY <3>1
    <3> QED BY <3>1, <3>2 DEF Serving, Answered
  <2> QED BY <2>1, <2>2, <2>3, <2>4, <2>5 DEF ReadNext
<1>2. bound' # None => Loaded(bound')
  BY LoadedStep DEF Serving
<1>3. metadata' \in Metadata
  BY MetadataStep DEF Serving
<1> QED BY <1>1, <1>2, <1>3, KnownStep, UnchangingStep DEF Serving, Loaded

LEMMA Serves ==
  ASSUME Serving
  PROVE  HonestIsServed
<1>1. Shaped(metadata) BY MetadataAssumption DEF Serving, Shaped
<1> QED BY <1>1, AcceptedIsPublic DEF Serving, HonestIsServed

-----------------------------------------------------------------------------
(* The theorems.                                                            *)

LEMMA Starts == ToolInit => Sound
<1> SUFFICES ASSUME ToolInit PROVE Sound
  OBVIOUS
<1>1. Bound /\ Simulates /\ Vetted
  BY DEF ToolInit, Init, Bound, Simulates, Vetted
<1>2. Worded
  BY DEF ToolInit, Init, Worded
<1>3. Buffered
  <2>1. heard = <<>> /\ messages = <<>> /\ total = 0 /\ fed = <<>> /\ stage = "headers"
    BY DEF ToolInit
  <2>2. <<>> \in Seq(ClientMessages) /\ Len(<<>>) = 0 OBVIOUS
  <2> QED BY <2>1, <2>2, NoBytes, FS_EmptySet, MaxBytesAssumption DEF Buffered
<1>4. AttributableSignals /\ NothingLeaks
  BY DEF ToolInit, Init, AttributableSignals, Answered, NothingLeaks
<1> QED BY <1>1, <1>2, <1>3, <1>4, DeclaredOnly, BodyKept DEF Sound

LEMMA StepsKeep == Sound /\ [Next]_vars => Sound'
<1> SUFFICES ASSUME Sound, [Next]_vars PROVE Sound'
  OBVIOUS
<1>1. CASE Next
  <2>1. ReadNext BY <1>1, CallSteps
  <2>2. Bound' /\ Simulates' /\ Vetted'
    BY <2>1, BoundStep, SimulatesStep, VettedStep DEF Sound
  <2>3. AttributableSignals'
    BY <2>1, AttributableStep DEF Sound
  <2>4. Worded' /\ NothingLeaks'
    BY <1>1, WordedStep, LeaksStep DEF Sound
  <2>5. Buffered'
    BY <1>1, BufferedStep DEF Sound
  <2>6. OnlyDeclaredReads'
    <3>1. SUFFICES ASSUME Bound', Vetted' PROVE OnlyDeclaredReads' BY <2>2
    <3> QED BY <3>1, DeclaredOnly, PTL
  <2>7. BodyReplayed'
    <3>1. SUFFICES ASSUME Buffered' PROVE BodyReplayed' BY <2>5
    <3> QED BY <3>1, BodyKept, PTL
  <2> QED BY <2>2, <2>3, <2>4, <2>5, <2>6, <2>7 DEF Sound
<1>2. CASE UNCHANGED vars
  <2>1. UNCHANGED <<bound, declared, simulator, ecus, step, request, scope, asked, over, outcome,
                    stage, heard, messages, total, fed, raised, reply>>
    BY <1>2 DEF vars, readVars, webVars, outVars
  <2>2. Bound' /\ Simulates'
    BY <2>1 DEF Sound, Bound, Simulates
  <2>3. Vetted' /\ AttributableSignals'
    <3>1. ReadNext BY <1>2 DEF ReadNext, vars
    <3> QED BY <3>1, VettedStep, AttributableStep DEF Sound
  <2>4. Worded'
    BY <2>1 DEF Sound, Worded, HasValidationCause
  <2>5. Buffered'
    BY <1>2, BufferedElsewhere DEF Sound, vars
  <2>6. OnlyDeclaredReads'
    BY <2>1 DEF Sound, OnlyDeclaredReads
  <2>7. NothingLeaks'
    BY <2>1 DEF Sound, NothingLeaks
  <2>8. BodyReplayed'
    <3>1. SUFFICES ASSUME Buffered' PROVE BodyReplayed' BY <2>5
    <3> QED BY <3>1, BodyKept, PTL
  <2> QED BY <2>2, <2>3, <2>4, <2>5, <2>6, <2>7, <2>8 DEF Sound
<1> QED BY <1>1, <1>2

\* A driver is asked for nothing that the allowlist and the document configured for
\* the vehicle do not declare, whatever is on disk and whatever a request names.
THEOREM DeclaredReads == Spec => []OnlyDeclaredReads
<1>1. Sound => OnlyDeclaredReads BY DEF Sound
<1> QED BY <1>1, Starts, StepsKeep, PTL DEF Spec

\* Each accepted signal belongs to exactly one thing that was asked and carries its
\* label, and a snapshot was read over a fit protocol, for any plugin and any change
\* of the vehicle under way.
THEOREM SignalsAttributable == Spec => []AttributableSignals
<1>1. Sound => AttributableSignals BY DEF Sound
<1> QED BY <1>1, Starts, StepsKeep, PTL DEF Spec

\* No VIN, no binary data, none of a driver's words and none of the input that a tool
\* refused leave the server, for any metadata, any error of a driver and any limits.
THEOREM NoLeak == Spec => []NothingLeaks
<1>1. Sound => NothingLeaks BY DEF Sound
<1> QED BY <1>1, Starts, StepsKeep, PTL DEF Spec

\* The application is fed what the client sent, and no more than the limit, for any
\* limit and any number of messages.
THEOREM BodyBounded == Spec => []BodyReplayed
<1>1. Sound => BodyReplayed BY DEF Sound
<1> QED BY <1>1, Starts, StepsKeep, PTL DEF Spec

\* The service refuses no answer of the built-in simulator but where an end of a
\* decoder's range is rounded out of it, for any floats, any valid configuration and
\* documents, any request and any digest; and metadata that a model class took,
\* however its objects share each other, is let out again.
THEOREM HonestServed == Spec => []HonestIsServed
<1>1. ToolInit => Serving
  <2>1. Plain \in Metadata BY PlainAssumption DEF Plain
  <2> QED BY <2>1 DEF ToolInit, Init, Serving, Unchanging
<1>2. Sound /\ Serving /\ [Next]_vars => Serving'
  <2>1. [Next]_vars => ReadNext BY CallSteps DEF vars, ReadNext
  <2> QED BY <2>1, ServingStep DEF Sound
<1> QED BY <1>1, <1>2, Serves, Starts, StepsKeep, PTL DEF Spec

=============================================================================
