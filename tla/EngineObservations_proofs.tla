---------------------- MODULE EngineObservations_proofs ----------------------
(***************************************************************************)
(* Proofs about EngineObservations, for any engines, operations, classes   *)
(* and limits.                                                             *)
(*                                                                         *)
(* TablesAgree and CapturedIsAnswered are not inductive.  A handle is used *)
(* once (UnusedAt) and belongs to one operation wherever it is known       *)
(* (OwnedAt); while an operation can still close each of its observations  *)
(* is open or finished (KeptAt), and its evidence has one owned            *)
(* observation for each finished one (Accounted); an operation's           *)
(* coordinator, registry entry and bound World go together (Staged).       *)
(***************************************************************************)
EXTENDS EngineObservations, FiniteSetTheorems, SequenceTheorems, TLAPS

SessionRecords ==
  [op : Operations \cup {None}, class : Classes, state : SessionStates, request : Requests,
   response : Responses, position : Nat]

EntryRecords ==
  [op : Operations \cup {None}, kind : Kinds, request : Requests, validated : BOOLEAN,
   response : Responses]

WatchRecords == [op : Operations \cup {None}, dispatched : BOOLEAN]

Evidence == [class : Classes, position : Nat, owned : BOOLEAN]

Shape ==
  /\ coordinator \in [Operations -> {"absent", "live", "taken"}]
  /\ incomplete \in [Operations -> BOOLEAN]
  /\ overflowed \in [Operations -> BOOLEAN]
  /\ recording \in [Operations -> BOOLEAN]
  /\ nextPosition \in [Operations -> [Classes -> Nat]]
  /\ observations \in [Operations -> Seq(Evidence)]
  /\ session \in [Sessions -> SessionRecords]
  /\ entry \in [Sessions -> EntryRecords]
  /\ watch \in [Sessions -> WatchRecords]
  /\ engines \subseteq Engines
  /\ engineOf \in [Operations -> engines \cup {None}]
  /\ closure \subseteq Operations
  /\ nextHandle \in 1 .. MaxHandle + 1
  /\ active \subseteq Operations
  /\ suspect \subseteq active
  /\ owner \in [Sessions -> Operations \cup {None}]
  /\ finished \subseteq Sessions

Limits ==
  /\ \A o \in Operations : Len(observations[o]) <= MaxEvents
  /\ \A o \in Operations : Cardinality(SessionsOf(o)) <= MaxSessions
  /\ Cardinality(Entries) <= MaxObservations
  /\ Cardinality(Watched) <= MaxWatched

(* What the three places hold under one handle. *)
UnusedAt(h) ==
  h >= nextHandle =>
    entry[h].op = None /\ session[h].op = None /\ watch[h].op = None /\ owner[h] = None

OwnedAt(h) ==
  /\ entry[h].op # None => entry[h].op = owner[h] /\ h \notin finished
  /\ session[h].op # None => session[h].op = owner[h] /\ h \notin finished /\ Live(owner[h])
  /\ watch[h].op # None => watch[h].op = owner[h]
  /\ owner[h] # None => InRegistry(owner[h])
  /\ h \in finished => owner[h] # None

AgreesAt(h) ==
  /\ session[h].op # None => SameSession(h)
  /\ entry[h].op # None /\ Live(entry[h].op) => SameSession(h)

WatchAt(h) ==
  /\ watch[h].op # None /\ Capturable(watch[h].op) =>
       /\ entry[h].op = watch[h].op
       /\ watch[h].dispatched = (session[h].state = "capture")
  /\ entry[h].op # None /\ Capturable(entry[h].op) => watch[h].op = entry[h].op

KeptAt(h) ==
  owner[h] # None /\ Live(owner[h]) /\ ~incomplete[owner[h]] =>
    h \in finished \/ session[h].op = owner[h]

HandleInv(h) ==
  /\ UnusedAt(h)
  /\ OwnedAt(h)
  /\ AgreesAt(h)
  /\ WatchAt(h)
  /\ KeptAt(h)

Staged ==
  \A o \in Operations :
    /\ coordinator[o] = "absent" <=> ~InRegistry(o)
    /\ o \in closure => coordinator[o] = "taken"

Finished(o) == {h \in finished : owner[h] = o}

BegunFor(o) == {h \in Sessions : owner[h] = o}

AccountedFor(o) ==
  AllOwned(o) => Len(observations[o]) = Cardinality(Internal) + Cardinality(Finished(o))

Accounted == \A o \in Operations : Live(o) => AccountedFor(o)

IInv ==
  /\ Shape
  /\ Limits
  /\ \A h \in Sessions : HandleInv(h)
  /\ Staged
  /\ Accounted
  /\ CapturedIsAnswered

-----------------------------------------------------------------------------
(***************************************************************************)
(* Counting, and the values the records start from.                        *)
(***************************************************************************)
LEMMA Counting ==
  /\ \A S \in SUBSET Sessions : IsFiniteSet(S) /\ Cardinality(S) \in Nat
  /\ \A S, T \in SUBSET Sessions : S \subseteq T => Cardinality(S) <= Cardinality(T)
  /\ \A S \in SUBSET Sessions, h \in Sessions :
       Cardinality(S \cup {h}) = IF h \in S THEN Cardinality(S) ELSE Cardinality(S) + 1
  /\ Cardinality(Internal) \in Nat /\ Cardinality({}) = 0
<1>1. IsFiniteSet(Sessions)
  BY EngineAssumption, FS_Interval
<1>2. \A S \in SUBSET Sessions : IsFiniteSet(S)
  BY <1>1, FS_Subset
<1>3. \A S \in SUBSET Sessions : Cardinality(S) \in Nat
  BY <1>2, FS_CardinalityType
<1>4. \A S, T \in SUBSET Sessions : S \subseteq T => Cardinality(S) <= Cardinality(T)
  BY <1>2, FS_Subset
<1>5. \A S \in SUBSET Sessions, h \in Sessions :
        Cardinality(S \cup {h}) = IF h \in S THEN Cardinality(S) ELSE Cardinality(S) + 1
  BY <1>2, FS_AddElement
<1>6. IsFiniteSet(Internal)
  BY CoordinatorAssumption, FS_Subset
<1>7. Cardinality(Internal) \in Nat
  BY <1>6, FS_CardinalityType
<1> QED BY <1>2, <1>3, <1>4, <1>5, <1>7, FS_EmptySet

(* The internal observations can be put in an order, one after the other. *)
LEMMA InternalOrdered ==
  LET order == CHOOSE q \in InternalSequences : TRUE
      first == [i \in DOMAIN order |-> Observation(order[i], 0, TRUE)]
  IN  /\ first \in Seq(Evidence)
      /\ Len(first) = Cardinality(Internal)
      /\ \A i \in DOMAIN first : first[i].owned
<1> DEFINE order == CHOOSE q \in InternalSequences : TRUE
           n == Cardinality(Internal)
           first == [i \in DOMAIN order |-> Observation(order[i], 0, TRUE)]
<1>1. IsFiniteSet(Internal) /\ n \in Nat
  BY CoordinatorAssumption, FS_Subset, FS_CardinalityType
<1>2. PICK f \in Bijection(1 .. n, Internal) : TRUE
  BY <1>1, FS_CardinalityType DEF ExistsBijection
<1>3. f \in InternalSequences
  BY <1>2 DEF InternalSequences, Bijection, Injection, IsInjective
<1>4. order \in InternalSequences
  BY <1>3
<1>5. DOMAIN order = 1 .. n /\ \A i \in 1 .. n : order[i] \in Classes
  BY <1>4, CoordinatorAssumption DEF InternalSequences
<1>6. \A i \in 1 .. n : Observation(order[i], 0, TRUE) \in Evidence /\ Observation(order[i], 0, TRUE).owned
  BY <1>5 DEF Observation, Evidence
<1> HIDE DEF order, n
<1>7. first = [i \in 1 .. n |-> Observation(order[i], 0, TRUE)]
  BY <1>5
<1>8. first \in [1 .. n -> Evidence]
  BY <1>6, <1>7
<1>9. \A i \in DOMAIN first : first[i].owned
  BY <1>6, <1>7
<1> HIDE DEF first
<1>10. first \in Seq(Evidence)
  BY <1>1, <1>8, SeqDef
<1>11. Len(first) = n
  BY <1>1, <1>8, <1>10
<1> QED BY <1>9, <1>10, <1>11 DEF n, order, first

(* The empty entry of each table. *)
LEMMA EmptyRecords ==
  /\ NoSession \in SessionRecords /\ NoSession.op = None /\ NoSession.state = "none"
  /\ NoEntry \in EntryRecords /\ NoEntry.op = None
  /\ NoWatch \in WatchRecords /\ NoWatch.op = None
<1>1. AnyClass \in Classes
  BY CoordinatorAssumption DEF AnyClass
<1> QED
  BY <1>1 DEF NoSession, Session, SessionRecords, SessionStates, Requests, Responses, NoEntry,
     Entry, EntryRecords, Kinds, NoWatch, Watch, WatchRecords

(* IInv holds with every table empty. *)
LEMMA InductiveInit == Init => IInv
<1> SUFFICES ASSUME Init PROVE IInv
  OBVIOUS
<1>1. /\ \A h \in Sessions : /\ session[h] = NoSession /\ entry[h] = NoEntry
                             /\ watch[h] = NoWatch /\ owner[h] = None
      /\ finished = {} /\ closure = {}
      /\ \A o \in Operations : coordinator[o] = "absent" /\ engineOf[o] = None
                                /\ observations[o] = <<>>
  BY DEF Init, CoordinatorInit
<1>2. Shape
  <2>1. observations \in [Operations -> Seq(Evidence)]
    BY DEF Init, CoordinatorInit
  <2>2. nextHandle \in 1 .. MaxHandle + 1
    BY EngineAssumption DEF Init
  <2>3. /\ coordinator \in [Operations -> {"absent", "live", "taken"}]
        /\ incomplete \in [Operations -> BOOLEAN]
        /\ overflowed \in [Operations -> BOOLEAN]
        /\ recording \in [Operations -> BOOLEAN]
        /\ nextPosition \in [Operations -> [Classes -> Nat]]
    BY DEF Init, CoordinatorInit
  <2>4. /\ session \in [Sessions -> SessionRecords]
        /\ entry \in [Sessions -> EntryRecords]
        /\ watch \in [Sessions -> WatchRecords]
    BY EmptyRecords DEF Init, CoordinatorInit
  <2>5. /\ engines \subseteq Engines /\ engineOf \in [Operations -> engines \cup {None}]
        /\ closure \subseteq Operations /\ active \subseteq Operations /\ suspect \subseteq active
        /\ owner \in [Sessions -> Operations \cup {None}] /\ finished \subseteq Sessions
    BY DEF Init
  <2> QED BY <2>1, <2>2, <2>3, <2>4, <2>5 DEF Shape
<1>3. Limits
  <2>1. Entries = {} /\ Watched = {} /\ \A o \in Operations : SessionsOf(o) = {}
    BY <1>1, EmptyRecords, CoordinatorAssumption DEF Entries, Watched, SessionsOf
  <2>2. \A o \in Operations : Len(observations[o]) = 0
    BY <1>1
  <2> QED BY <2>1, <2>2, Counting, CoordinatorAssumption, EngineAssumption DEF Limits
<1>4. Staged /\ \A h \in Sessions : HandleInv(h)
  BY <1>1, EmptyRecords, CoordinatorAssumption
     DEF HandleInv, UnusedAt, OwnedAt, AgreesAt, WatchAt, KeptAt, Staged, InRegistry
<1>5. Accounted /\ CapturedIsAnswered
  BY <1>1 DEF Accounted, CapturedIsAnswered, Live
<1> QED BY <1>2, <1>3, <1>4, <1>5 DEF IInv

-----------------------------------------------------------------------------
(***************************************************************************)
(* Sets of handles that stay as large or grow by one.                      *)
(***************************************************************************)
LEMMA NoMoreSessions ==
  ASSUME NEW T \in SUBSET Sessions, NEW S \in SUBSET T, NEW m \in Nat, Cardinality(T) <= m
  PROVE  Cardinality(S) <= m
<1>1. Cardinality(S) <= Cardinality(T) /\ Cardinality(S) \in Nat /\ Cardinality(T) \in Nat
  BY Counting
<1> QED BY <1>1

(* A table with room for one more stays within its limit. *)
LEMMA OneMoreSession ==
  ASSUME NEW T \in SUBSET Sessions, NEW h \in Sessions, NEW S \in SUBSET (T \cup {h}),
         NEW m \in Nat, Cardinality(T) < m
  PROVE  Cardinality(S) <= m
<1>1. Cardinality(T \cup {h}) <= Cardinality(T) + 1 /\ Cardinality(T) \in Nat
  BY Counting
<1>2. T \cup {h} \in SUBSET Sessions /\ S \in SUBSET Sessions
  OBVIOUS
<1>3. Cardinality(S) <= Cardinality(T \cup {h}) /\ Cardinality(S) \in Nat /\ Cardinality(T \cup {h}) \in Nat
  BY <1>2, Counting
<1> QED BY <1>1, <1>3

(* A step in which no place holds more handles. *)
LEMMA LimitsKept ==
  ASSUME Limits,
         \A o \in Operations : Len(observations'[o]) <= MaxEvents,
         \A h \in Sessions : entry'[h].op \in {entry[h].op, None},
         \A h \in Sessions : session'[h].op \in {session[h].op, None},
         \A h \in Sessions : watch'[h].op \in {watch[h].op, None}
  PROVE  Limits'
<1> USE CoordinatorAssumption, EngineAssumption
<1>1. /\ Entries \in SUBSET Sessions /\ Entries' \in SUBSET Entries
      /\ Watched \in SUBSET Sessions /\ Watched' \in SUBSET Watched
  BY DEF Entries, Watched
<1>2. Cardinality(Entries') <= MaxObservations
  BY <1>1, NoMoreSessions DEF Limits
<1>3. Cardinality(Watched') <= MaxWatched
  BY <1>1, NoMoreSessions DEF Limits
<1>4. ASSUME NEW o \in Operations PROVE Cardinality(SessionsOf(o)') <= MaxSessions
  <2>1. SessionsOf(o) \in SUBSET Sessions /\ SessionsOf(o)' \in SUBSET SessionsOf(o)
    BY DEF SessionsOf
  <2> QED BY <2>1, NoMoreSessions DEF Limits
<1> QED BY <1>2, <1>3, <1>4 DEF Limits

-----------------------------------------------------------------------------
(***************************************************************************)
(* Steps on one handle.                                                    *)
(***************************************************************************)
(* A handle a step does not touch keeps its invariant, if its operation     *)
(* stays where it is and loses at most its chance to be captured.           *)
LEMMA HandleKept ==
  ASSUME NEW h \in Sessions, HandleInv(h),
         UNCHANGED <<session[h], entry[h], watch[h], owner[h]>>,
         h \in finished' <=> h \in finished,
         nextHandle \in Int, nextHandle' \in Int, nextHandle <= nextHandle', h \in Int,
         owner[h] # None =>
           /\ InRegistry(owner[h])'
           /\ Live(owner[h])' <=> Live(owner[h])
           /\ incomplete[owner[h]] => incomplete'[owner[h]]
           /\ Capturable(owner[h])' => Capturable(owner[h])
  PROVE  HandleInv(h)'
<1> DEFINE o == owner[h]
<1> USE DEF HandleInv
<1>1. UnusedAt(h)'
  BY DEF UnusedAt
<1>2. OwnedAt(h)'
  BY DEF OwnedAt, Live, InRegistry
<1>3. SameSession(h)' <=> SameSession(h)
  BY DEF SameSession, IsSemantic
<1>4. AgreesAt(h)'
  BY <1>3 DEF AgreesAt, OwnedAt, Live
<1>5. WatchAt(h)'
  <2>1. entry[h].op # None => entry[h].op = owner[h]
    BY DEF OwnedAt
  <2>2. watch[h].op # None => watch[h].op = owner[h]
    BY DEF OwnedAt
  <2>3. owner[h] # None /\ Capturable(owner[h])' => Capturable(owner[h])
    OBVIOUS
  <2>4. entry'[h].op # None /\ Capturable(entry[h].op)' => Capturable(entry[h].op)
    BY <2>1, <2>3 DEF Capturable, Reachable, InRegistry, Live
  <2>5. watch'[h].op # None /\ Capturable(watch[h].op)' => Capturable(watch[h].op)
    BY <2>2, <2>3 DEF Capturable, Reachable, InRegistry, Live
  <2> QED BY <2>4, <2>5 DEF WatchAt
<1>6. KeptAt(h)'
  BY DEF KeptAt, Live
<1> QED BY <1>1, <1>2, <1>4, <1>5, <1>6

(* A call changes one handle; the others keep what they say. *)
LEMMA HandleStep ==
  ASSUME IInv, Shape', Limits', NEW g,
         UNCHANGED <<coordinator, closure, engineOf, active>>,
         suspect \subseteq suspect', nextHandle <= nextHandle',
         \A o \in Operations : incomplete[o] => incomplete'[o],
         \A h \in Sessions \ {g} :
           /\ UNCHANGED <<session[h], entry[h], watch[h], owner[h]>>
           /\ h \in finished' <=> h \in finished,
         g \in Sessions => HandleInv(g)',
         g \in Sessions => owner'[g] = owner[g] \/ (owner[g] = None /\ Live(owner'[g])),
         \A o \in Operations :
           \/ observations'[o] = observations[o] /\ Finished(o)' = Finished(o)
           \/ Live(o) /\ AccountedFor(o)'
  PROVE  IInv'
<1> USE CoordinatorAssumption, EngineAssumption
<1>1. \A o \in Operations : /\ InRegistry(o)' <=> InRegistry(o)
                            /\ Live(o)' <=> Live(o)
                            /\ Capturable(o)' => Capturable(o)
  BY DEF InRegistry, Live, Capturable, Reachable
<1>2. ASSUME NEW h \in Sessions PROVE HandleInv(h)'
  <2>1. CASE h = g
    BY <2>1
  <2>2. CASE h # g
    <3>1. HandleInv(h) /\ owner[h] \in Operations \cup {None}
      BY DEF IInv, Shape
    <3>2. owner[h] # None => InRegistry(owner[h])
      BY <3>1 DEF HandleInv, OwnedAt
    <3>3. h \in Int /\ nextHandle \in Int /\ nextHandle' \in Int
      BY DEF IInv, Shape
    <3> QED BY <1>1, <2>2, <3>1, <3>2, <3>3, HandleKept
  <2> QED BY <2>1, <2>2
<1>3. Staged'
  BY <1>1 DEF IInv, Staged
<1>4. Accounted'
  <2> SUFFICES ASSUME NEW o \in Operations, Live(o) PROVE AccountedFor(o)'
    BY <1>1 DEF Accounted
  <2>1. AccountedFor(o)
    BY DEF IInv, Accounted
  <2> QED BY <2>1 DEF AccountedFor, AllOwned
<1>5. CapturedIsAnswered'
  <2> SUFFICES ASSUME NEW o \in closure
               PROVE  /\ BegunFor(o)' \subseteq finished'
                      /\ AllOwned(o)'
                      /\ Len(observations'[o]) = Cardinality(Internal) + Cardinality(BegunFor(o)')
    BY DEF CapturedIsAnswered, BegunFor
  <2>1. o \in Operations /\ ~Live(o) /\ o # None
    BY DEF IInv, Shape, Staged, Live
  <2>2. observations'[o] = observations[o] /\ Finished(o)' = Finished(o)
    BY <2>1
  <2>3. /\ BegunFor(o) \subseteq finished
        /\ AllOwned(o)
        /\ Len(observations[o]) = Cardinality(Internal) + Cardinality(BegunFor(o))
    BY DEF IInv, CapturedIsAnswered, BegunFor
  <2>4. \A h \in Sessions : owner'[h] = o <=> owner[h] = o
    BY <2>1
  <2>5. BegunFor(o)' = BegunFor(o)
    BY <2>4 DEF BegunFor
  <2>6. BegunFor(o) \subseteq Finished(o)
    BY <2>3 DEF Finished, BegunFor
  <2>7. Finished(o)' \subseteq finished'
    BY DEF Finished
  <2> QED BY <2>2, <2>3, <2>5, <2>6, <2>7 DEF AllOwned
<1> QED BY <1>2, <1>3, <1>4, <1>5 DEF IInv

(* The finished observations of an operation, when nothing finishes. *)
LEMMA FinishedKept ==
  ASSUME finished' = finished, \A h \in finished : owner'[h] = owner[h]
  PROVE  \A o \in Operations : Finished(o)' = Finished(o)
<1> SUFFICES ASSUME NEW o \in Operations PROVE Finished(o)' = Finished(o)
  OBVIOUS
<1>1. \A h : h \in Finished(o)' <=> h \in Finished(o)
  BY DEF Finished
<1> QED BY <1>1

(* An observation is opened under a new handle: the engine, the coordinator  *)
(* and, while it has room, the sentinel get to know it together.             *)
LEMMA OpenedStep ==
  ASSUME IInv, NEW o \in Operations, Live(o), NEW n \in Sessions, n = nextHandle,
         NEW s \in SessionRecords, NEW e \in EntryRecords, NEW d \in BOOLEAN,
         s.op = o, e.op = o, s.state \in {"request", "capture"}, d = (s.state = "capture"),
         e.kind # "plain" =>
           /\ s.class \in Semantic /\ e.request = s.request /\ e.response = s.response
           /\ e.validated = (s.state = "capture"),
         Cardinality(Entries) < MaxObservations,
         Cardinality(SessionsOf(o)) < MaxSessions,
         session' = [session EXCEPT ![n] = s],
         entry' = [entry EXCEPT ![n] = e],
         WatchOpened(n, o, d), Begun(n, o),
         nextHandle' = nextHandle + 1,
         nextPosition' \in [Operations -> [Classes -> Nat]],
         UNCHANGED <<coordinator, incomplete, overflowed, recording, observations, registryVars>>
  PROVE  IInv'
<1> USE CoordinatorAssumption, EngineAssumption DEF registryVars
<1>1. /\ Shape /\ Limits /\ HandleInv(n)
      /\ n \in Nat /\ o # None /\ InRegistry(o)
      /\ entry[n].op = None /\ session[n].op = None /\ watch[n].op = None /\ owner[n] = None
      /\ n \notin finished
  BY DEF IInv, Shape, HandleInv, UnusedAt, OwnedAt, Staged, Live
<1>2. /\ \A h \in Sessions : /\ session'[h] = IF h = n THEN s ELSE session[h]
                             /\ entry'[h] = IF h = n THEN e ELSE entry[h]
                             /\ owner'[h] = IF h = n THEN o ELSE owner[h]
      /\ session' \in [Sessions -> SessionRecords]
      /\ entry' \in [Sessions -> EntryRecords]
      /\ owner' \in [Sessions -> Operations \cup {None}]
      /\ finished' = finished
  BY <1>1 DEF Shape, Begun
<1>3. /\ Watch(o, d) \in WatchRecords /\ Watch(o, d).op = o /\ Watch(o, d).dispatched = d
  BY DEF Watch, WatchRecords
<1>4. \/ /\ Cardinality(Watched) < MaxWatched
         /\ watch' = [watch EXCEPT ![n] = Watch(o, d)]
         /\ suspect' = suspect
      \/ watch' = watch /\ suspect' = active
  BY DEF WatchOpened
<1>5. /\ \A h \in Sessions \ {n} : watch'[h] = watch[h]
      /\ watch' \in [Sessions -> WatchRecords]
      /\ \/ watch'[n] = Watch(o, d) /\ Cardinality(Watched) < MaxWatched
         \/ watch'[n] = watch[n] /\ suspect' = active
      /\ suspect \subseteq suspect' /\ suspect' \subseteq active
  <2>1. CASE /\ Cardinality(Watched) < MaxWatched
             /\ watch' = [watch EXCEPT ![n] = Watch(o, d)]
             /\ suspect' = suspect
    BY <1>1, <1>3, <2>1 DEF Shape
  <2>2. CASE watch' = watch /\ suspect' = active
    BY <1>1, <2>2 DEF Shape
  <2> QED BY <1>4, <2>1, <2>2
<1>6. active' = active
  BY DEF WatchOpened
<1>7. Shape'
  BY <1>1, <1>2, <1>5, <1>6 DEF Shape
<1>8. Limits'
  <2>1. Entries' \subseteq Entries \cup {n} /\ Entries \in SUBSET Sessions
    BY <1>2 DEF Entries
  <2>2. Cardinality(Entries') <= MaxObservations
    BY <2>1, OneMoreSession
  <2>3. Cardinality(Watched') <= MaxWatched
    <3>1. Watched \in SUBSET Sessions /\ Watched' \in SUBSET Sessions
      BY DEF Watched
    <3>2. CASE watch'[n] = watch[n]
      <4>1. Watched' \subseteq Watched
        BY <1>5, <3>2 DEF Watched
      <4> QED BY <1>1, <3>1, <4>1, NoMoreSessions DEF Limits
    <3>3. CASE Cardinality(Watched) < MaxWatched
      <4>1. Watched' \subseteq Watched \cup {n}
        BY <1>5 DEF Watched
      <4> QED BY <3>1, <3>3, <4>1, OneMoreSession
    <3> QED BY <1>5, <3>2, <3>3
  <2>4. ASSUME NEW q \in Operations PROVE Cardinality(SessionsOf(q)') <= MaxSessions
    <3>1. SessionsOf(q) \in SUBSET Sessions /\ SessionsOf(q)' \in SUBSET Sessions
      BY DEF SessionsOf
    <3>2. CASE q = o
      <4>1. SessionsOf(o)' \subseteq SessionsOf(o) \cup {n}
        BY <1>2 DEF SessionsOf
      <4> QED BY <3>1, <3>2, <4>1, OneMoreSession
    <3>3. CASE q # o
      <4>1. SessionsOf(q)' \subseteq SessionsOf(q)
        BY <1>2, <3>3 DEF SessionsOf
      <4>2. Cardinality(SessionsOf(q)) <= MaxSessions
        BY <1>1 DEF Limits
      <4> QED BY <3>1, <4>1, <4>2, NoMoreSessions
    <3> QED BY <3>2, <3>3
  <2> QED BY <1>1, <2>2, <2>3, <2>4 DEF Limits
<1>9. HandleInv(n)'
  <2>1. session'[n] = s /\ entry'[n] = e /\ owner'[n] = o
    BY <1>2
  <2>2. UnusedAt(n)'
    BY <1>1 DEF UnusedAt
  <2>3. Live(o)' /\ InRegistry(o)'
    BY <1>1 DEF Live, InRegistry
  <2>4. watch'[n].op \in {None, o}
    BY <1>1, <1>3, <1>5
  <2>5. OwnedAt(n)'
    BY <1>1, <1>2, <2>1, <2>3, <2>4 DEF OwnedAt, Live, InRegistry
  <2>6. AgreesAt(n)'
    BY <2>1 DEF AgreesAt, SameSession, IsSemantic
  <2>7. Capturable(o)' => watch'[n] = Watch(o, d)
    BY <1>5, <1>6 DEF Capturable
  <2>8. WatchAt(n)'
    <3>1. CASE Capturable(o)'
      BY <1>3, <2>1, <2>7, <3>1 DEF WatchAt
    <3>2. CASE ~Capturable(o)'
      BY <2>1, <2>4, <3>2 DEF WatchAt, Capturable, Reachable, InRegistry, Live
    <3> QED BY <3>1, <3>2
  <2>9. KeptAt(n)'
    BY <2>1 DEF KeptAt
  <2> QED BY <2>2, <2>5, <2>6, <2>8, <2>9 DEF HandleInv
<1>10. \A q \in Operations : Finished(q)' = Finished(q)
  BY <1>1, <1>2, FinishedKept DEF Shape
<1>11. \A h \in Sessions \ {n} :
          /\ UNCHANGED <<session[h], entry[h], watch[h], owner[h]>>
          /\ h \in finished' <=> h \in finished
  BY <1>2, <1>5
<1>12. nextHandle <= nextHandle' /\ owner'[n] = o
  BY <1>1, <1>2
<1> HIDE DEF registryVars
<1> QED
  BY <1>1, <1>5, <1>6, <1>7, <1>8, <1>9, <1>10, <1>11, <1>12, HandleStep DEF registryVars

(* No place holds an observation under a new handle, and the operation it    *)
(* was begun for, if any, can no longer be captured.                         *)
LEMMA HalfOpenedStep ==
  ASSUME IInv, NEW o \in Operations, Live(o), NEW n \in Sessions, n = nextHandle,
         nextHandle' = nextHandle + 1,
         nextPosition' \in [Operations -> [Classes -> Nat]],
         Begun(n, o), MarkIncomplete(o), WatchPassed,
         UNCHANGED <<session, entry, coordinator, overflowed, recording, observations, registryVars>>
  PROVE  IInv'
<1> USE CoordinatorAssumption, EngineAssumption DEF registryVars
<1>1. /\ Shape /\ Limits /\ HandleInv(n)
      /\ n \in Nat /\ o # None /\ InRegistry(o)
      /\ entry[n].op = None /\ session[n].op = None /\ watch[n].op = None /\ owner[n] = None
      /\ n \notin finished
  BY DEF IInv, Shape, HandleInv, UnusedAt, OwnedAt, Staged, Live
<1>2. /\ \A h \in Sessions : owner'[h] = IF h = n THEN o ELSE owner[h]
      /\ owner' \in [Sessions -> Operations \cup {None}]
      /\ finished' = finished /\ active' = active /\ watch' = watch
  BY <1>1 DEF Shape, Begun, WatchPassed
<1>3. suspect \subseteq suspect' /\ suspect' \subseteq active
  BY <1>1 DEF Shape, WatchPassed
<1>4. /\ incomplete' \in [Operations -> BOOLEAN]
      /\ incomplete'[o] /\ \A q \in Operations : incomplete[q] => incomplete'[q]
  BY <1>1 DEF Shape, MarkIncomplete
<1>5. Shape'
  BY <1>1, <1>2, <1>3, <1>4 DEF Shape
<1>6. Limits'
  BY <1>1, <1>2, LimitsKept DEF Limits
<1>7. HandleInv(n)'
  BY <1>1, <1>2, <1>4 DEF HandleInv, UnusedAt, OwnedAt, AgreesAt, WatchAt, KeptAt, InRegistry
<1>8. \A q \in Operations : Finished(q)' = Finished(q)
  BY <1>1, <1>2, FinishedKept DEF Shape
<1>9. \A h \in Sessions \ {n} :
          /\ UNCHANGED <<session[h], entry[h], watch[h], owner[h]>>
          /\ h \in finished' <=> h \in finished
  BY <1>2
<1>10. nextHandle <= nextHandle' /\ owner'[n] = o
  BY <1>1, <1>2
<1> HIDE DEF registryVars
<1> QED
  BY <1>1, <1>2, <1>3, <1>4, <1>5, <1>6, <1>7, <1>8, <1>9, <1>10, HandleStep DEF registryVars

(* A step that touches no handle: at most an operation becomes incomplete or  *)
(* its evidence gets an observation nobody owns.                              *)
LEMMA QuietStep ==
  ASSUME IInv,
         UNCHANGED <<coordinator, session, entry, registryVars, sentinelVars, historyVars>>,
         incomplete' \in [Operations -> BOOLEAN], overflowed' \in [Operations -> BOOLEAN],
         recording' \in [Operations -> BOOLEAN], nextPosition' = nextPosition,
         \A o \in Operations : incomplete[o] => incomplete'[o],
         nextHandle' \in 1 .. MaxHandle + 1, nextHandle <= nextHandle',
         observations' \in [Operations -> Seq(Evidence)],
         \A o \in Operations :
           \/ observations'[o] = observations[o]
           \/ Live(o) /\ ~AllOwned(o)' /\ Len(observations'[o]) <= MaxEvents
  PROVE  IInv'
<1> USE DEF registryVars, sentinelVars, historyVars
<1>1. Shape /\ Limits
  BY DEF IInv
<1>2. Shape'
  BY <1>1 DEF Shape
<1>3. Limits'
  BY <1>1, LimitsKept DEF Limits
<1>4. \A o \in Operations : Finished(o)' = Finished(o)
  BY FinishedKept
<1>5. PICK g : g \notin Sessions
  <2>1. 0 \notin Sessions
    BY EngineAssumption
  <2> QED BY <2>1
<1>6. \A o \in Operations : \/ observations'[o] = observations[o] /\ Finished(o)' = Finished(o)
                            \/ Live(o) /\ AccountedFor(o)'
  BY <1>4 DEF AccountedFor
<1> HIDE DEF registryVars, sentinelVars, historyVars
<1> QED
  BY <1>2, <1>3, <1>5, <1>6, HandleStep DEF registryVars, sentinelVars, historyVars

(* A step that changes one open observation in place. *)
LEMMA InPlaceStep ==
  ASSUME IInv, NEW g \in Sessions, NEW o \in Operations, Live(o),
         NEW s \in SessionRecords, NEW e \in EntryRecords,
         entry[g].op = o, s.op = o, e.op = o, s.state \in {"request", "capture"},
         e.kind # "plain" =>
           /\ s.class \in Semantic /\ e.request = s.request /\ e.response = s.response
           /\ e.validated = (s.state = "capture"),
         session' = [session EXCEPT ![g] = s],
         entry' = [entry EXCEPT ![g] = e],
         watch' \in [Sessions -> WatchRecords],
         \A h \in Sessions \ {g} : watch'[h] = watch[h],
         watch'[g].op = watch[g].op,
         \/ suspect' = active
         \/ watch'[g].dispatched = (s.state = "capture")
         \/ watch'[g] = watch[g] /\ s.state = session[g].state,
         suspect \subseteq suspect', suspect' \subseteq active,
         UNCHANGED <<coordinator, incomplete, overflowed, recording, observations, nextPosition,
                     nextHandle, active, registryVars, historyVars>>
  PROVE  IInv'
<1> USE CoordinatorAssumption, EngineAssumption DEF registryVars, historyVars
<1>1. /\ Shape /\ Limits /\ HandleInv(g) /\ o # None /\ g \in Nat /\ nextHandle \in Nat
      /\ owner[g] = o /\ g \notin finished /\ InRegistry(o) /\ g < nextHandle
      /\ session[g].op = o
  <2>1. Shape /\ Limits /\ HandleInv(g) /\ o # None /\ g \in Nat /\ nextHandle \in Nat
    BY DEF IInv, Shape
  <2>2. owner[g] = o /\ g \notin finished /\ InRegistry(o)
    BY <2>1 DEF HandleInv, OwnedAt
  <2>3. g < nextHandle
    BY <2>1 DEF HandleInv, UnusedAt
  <2>4. SameSession(g)
    BY <2>1 DEF HandleInv, AgreesAt
  <2> QED BY <2>1, <2>2, <2>3, <2>4 DEF SameSession
<1>2. /\ \A h \in Sessions : /\ session'[h] = IF h = g THEN s ELSE session[h]
                             /\ entry'[h] = IF h = g THEN e ELSE entry[h]
      /\ session' \in [Sessions -> SessionRecords]
      /\ entry' \in [Sessions -> EntryRecords]
  BY <1>1 DEF Shape
<1>3. Shape'
  BY <1>1, <1>2 DEF Shape
<1>4. Limits'
  BY <1>1, <1>2, LimitsKept DEF Limits
<1>5. HandleInv(g)'
  <2>1. session'[g] = s /\ entry'[g] = e /\ owner'[g] = o
    BY <1>1, <1>2
  <2>2. UnusedAt(g)'
    BY <1>1 DEF UnusedAt
  <2>3. OwnedAt(g)'
    BY <1>1, <2>1 DEF HandleInv, OwnedAt, InRegistry, Live
  <2>4. AgreesAt(g)'
    BY <2>1 DEF AgreesAt, SameSession, IsSemantic
  <2>5. Capturable(o)' => Capturable(o) /\ suspect' # active
    BY DEF Capturable, Reachable, InRegistry, Live
  <2>6. watch[g].op \in {None, o}
    BY <1>1 DEF HandleInv, OwnedAt
  <2>7. WatchAt(g)'
    <3>1. CASE Capturable(o)'
      <4>1. Capturable(o) /\ suspect' # active
        BY <2>5, <3>1
      <4>2. watch[g].op = o /\ watch[g].dispatched = (session[g].state = "capture")
        BY <1>1, <4>1 DEF HandleInv, WatchAt
      <4>3. watch'[g].op = o /\ watch'[g].dispatched = (s.state = "capture")
        BY <4>1, <4>2
      <4> QED BY <2>1, <4>3 DEF WatchAt
    <3>2. CASE ~Capturable(o)'
      BY <2>1, <2>6, <3>2 DEF WatchAt, Capturable, Reachable, InRegistry, Live
    <3> QED BY <3>1, <3>2
  <2>8. KeptAt(g)'
    BY <2>1 DEF KeptAt
  <2> QED BY <2>2, <2>3, <2>4, <2>7, <2>8 DEF HandleInv
<1>6. \A q \in Operations : Finished(q)' = Finished(q)
  BY FinishedKept
<1>7. \A h \in Sessions \ {g} :
          /\ UNCHANGED <<session[h], entry[h], watch[h], owner[h]>>
          /\ h \in finished' <=> h \in finished
  BY <1>2
<1>8. nextHandle <= nextHandle'
  BY <1>1
<1> HIDE DEF registryVars, historyVars
<1> QED
  BY <1>3, <1>4, <1>5, <1>6, <1>7, <1>8, HandleStep DEF registryVars, historyVars

(* The watch of one handle ends, or stays as it is. *)
WatchEnds(g) ==
  /\ \A h \in Sessions \ {g} : watch'[h] = watch[h]
  /\ g \in Sessions => watch'[g] \in {watch[g], NoWatch}
  /\ watch' \in [Sessions -> WatchRecords]
  /\ suspect \subseteq suspect' /\ suspect' \subseteq active
  /\ active' = active

(* The sentinel ends the watch of one observation. *)
LEMMA WatchFinishedEnds ==
  ASSUME Shape, NEW g \in Sessions, WatchFinished(g)
  PROVE  WatchEnds(g)
<1>1. watch' = [watch EXCEPT ![g] = NoWatch] /\ active' = active
  BY DEF WatchFinished
<1>2. suspect' = suspect \/ suspect' = active
  BY DEF WatchFinished
<1>3. suspect \subseteq suspect' /\ suspect' \subseteq active
  BY <1>2 DEF Shape
<1> QED BY <1>1, <1>3, EmptyRecords DEF Shape, WatchEnds

(* The sentinel keeps its watches. *)
LEMMA WatchStays ==
  ASSUME Shape, NEW g \in Sessions, UNCHANGED sentinelVars
  PROVE  WatchEnds(g)
BY DEF Shape, WatchEnds, sentinelVars

(* The handle of an operation that can no longer be captured, or of none, is  *)
(* not watched any more.                                                      *)
LEMMA UnwatchedStep ==
  ASSUME IInv, NEW g \in Sessions, WatchEnds(g),
         g \in Entries => ~Reachable(entry[g].op),
         UNCHANGED <<coordinatorVars, registryVars, tableVars, historyVars>>
  PROVE  IInv'
<1> USE EngineAssumption DEF coordinatorVars, registryVars, tableVars, historyVars
<1>1. Shape /\ Limits /\ HandleInv(g) /\ nextHandle \in Int
  BY DEF IInv, Shape
<1>2. Shape'
  BY <1>1 DEF Shape, WatchEnds
<1>3. \A h \in Sessions : watch'[h].op \in {watch[h].op, None}
  BY EmptyRecords DEF WatchEnds
<1>4. Limits'
  BY <1>1, <1>3, LimitsKept DEF Limits
<1>5. HandleInv(g)'
  <2>1. UnusedAt(g)' /\ OwnedAt(g)' /\ KeptAt(g)'
    BY <1>1, <1>3 DEF HandleInv, UnusedAt, OwnedAt, KeptAt, InRegistry, Live
  <2>2. AgreesAt(g)'
    BY <1>1 DEF HandleInv, AgreesAt, SameSession, IsSemantic, Live
  <2>3. entry[g].op # None => ~Capturable(entry[g].op)'
    BY DEF Entries, Capturable, Reachable, InRegistry, Live
  <2>4. Capturable(watch[g].op)' => Capturable(watch'[g].op)
    BY DEF Capturable, Reachable, InRegistry, Live, WatchEnds
  <2>5. WatchAt(g)'
    BY <1>1, <1>3, <2>3, <2>4, EmptyRecords DEF HandleInv, WatchAt, WatchEnds
  <2> QED BY <2>1, <2>2, <2>5 DEF HandleInv
<1>6. \A q \in Operations : Finished(q)' = Finished(q)
  BY FinishedKept
<1>7. \A h \in Sessions \ {g} :
          /\ UNCHANGED <<session[h], entry[h], watch[h], owner[h]>>
          /\ h \in finished' <=> h \in finished
  BY DEF WatchEnds
<1> HIDE DEF coordinatorVars, registryVars, tableVars, historyVars
<1> QED
  BY <1>1, <1>2, <1>4, <1>5, <1>6, <1>7, HandleStep
     DEF WatchEnds, coordinatorVars, registryVars, tableVars, historyVars

(* An observation is dropped: its operation becomes incomplete, or was out    *)
(* of reach before.                                                           *)
LEMMA DroppedStep ==
  ASSUME IInv, NEW g \in Sessions, WatchEnds(g), g \in Entries,
         entry' = [entry EXCEPT ![g] = NoEntry],
         session' \in [Sessions -> SessionRecords], session'[g].op = None,
         \A h \in Sessions \ {g} : session'[h] = session[h],
         incomplete' \in [Operations -> BOOLEAN],
         \A o \in Operations : incomplete[o] => incomplete'[o],
         Live(owner[g]) => incomplete'[owner[g]],
         recording' \in [Operations -> BOOLEAN],
         UNCHANGED <<coordinator, overflowed, nextPosition, observations, registryVars, nextHandle,
                     historyVars>>
  PROVE  IInv'
<1> USE EngineAssumption DEF registryVars, historyVars
<1>1. Shape /\ Limits /\ HandleInv(g) /\ nextHandle \in Int /\ owner[g] \in Operations \cup {None}
  BY DEF IInv, Shape
<1>2. /\ entry' \in [Sessions -> EntryRecords] /\ entry'[g].op = None
      /\ \A h \in Sessions \ {g} : entry'[h] = entry[h]
  BY <1>1, EmptyRecords DEF Shape
<1>3. Shape'
  BY <1>1, <1>2 DEF Shape, WatchEnds
<1>4. \A h \in Sessions : watch'[h].op \in {watch[h].op, None}
  BY EmptyRecords DEF WatchEnds
<1>5. Limits'
  BY <1>1, <1>2, <1>4, LimitsKept DEF Limits
<1>6. HandleInv(g)'
  <2>1. UnusedAt(g)' /\ OwnedAt(g)'
    BY <1>1, <1>2, <1>4 DEF HandleInv, UnusedAt, OwnedAt, InRegistry
  <2>2. KeptAt(g)'
    BY DEF KeptAt, Live
  <2>3. AgreesAt(g)'
    BY <1>2 DEF AgreesAt
  <2>4. ~Capturable(owner[g])'
    BY DEF Capturable, Reachable, InRegistry, Live
  <2>5. watch'[g].op # None => watch'[g].op = owner'[g]
    BY <1>1, <1>4 DEF HandleInv, OwnedAt
  <2>6. watch'[g].op # None => ~Capturable(watch[g].op)'
    BY <2>4, <2>5 DEF Capturable, Reachable, InRegistry, Live
  <2>7. WatchAt(g)'
    BY <1>2, <2>6 DEF WatchAt
  <2> QED BY <2>1, <2>2, <2>3, <2>7 DEF HandleInv
<1>7. \A q \in Operations : Finished(q)' = Finished(q)
  BY FinishedKept
<1>8. \A h \in Sessions \ {g} :
          /\ UNCHANGED <<session[h], entry[h], watch[h], owner[h]>>
          /\ h \in finished' <=> h \in finished
  BY <1>2 DEF WatchEnds
<1> HIDE DEF registryVars, historyVars
<1> QED
  BY <1>1, <1>3, <1>5, <1>6, <1>7, <1>8, HandleStep DEF WatchEnds, registryVars, historyVars

(* What a handle of the table says of its operation. *)
LEMMA EntryOf ==
  ASSUME IInv, NEW g \in Sessions, g \in Entries
  PROVE  /\ entry[g].op \in Operations /\ owner[g] = entry[g].op /\ InRegistry(owner[g])
         /\ g \notin finished
         /\ Reachable(entry[g].op) <=> Live(entry[g].op)
         /\ Live(entry[g].op) => SameSession(g) /\ session[g].op = entry[g].op
         /\ ~Live(entry[g].op) => session[g].op = None
<1>1. Shape /\ HandleInv(g) /\ entry[g].op # None
  BY DEF IInv, Entries
<1>2. entry[g].op \in Operations
  BY <1>1 DEF Shape, EntryRecords
<1>3. owner[g] = entry[g].op /\ InRegistry(owner[g]) /\ g \notin finished
  BY <1>1 DEF HandleInv, OwnedAt
<1>4. Live(entry[g].op) => SameSession(g)
  BY <1>1 DEF HandleInv, AgreesAt
<1>5. ~Live(entry[g].op) => session[g].op = None
  BY <1>1, <1>3 DEF HandleInv, OwnedAt
<1> QED BY <1>2, <1>3, <1>4, <1>5 DEF Reachable, SameSession

(* A call on a handle fails and makes its operation incomplete. *)
LEMMA InvalidateStep ==
  ASSUME IInv, NEW g \in Sessions, g \in Entries, WatchEnds(g), Invalidate(g),
         UNCHANGED <<registryVars, nextHandle, historyVars>>
  PROVE  IInv'
<1>1. Shape
  BY DEF IInv
<1>2. entry' = [entry EXCEPT ![g] = NoEntry]
  BY DEF Invalidate
<1>3. CASE Reachable(entry[g].op) /\ AbandonSession(g)
  <2>1. session[g].op = owner[g] /\ owner[g] \in Operations
    BY <1>3, EntryOf
  <2>2. session' = [session EXCEPT ![g] = NoSession]
    BY <1>3 DEF AbandonSession, RemoveSession
  <2>3. /\ session' \in [Sessions -> SessionRecords] /\ session'[g].op = None
        /\ \A h \in Sessions \ {g} : session'[h] = session[h]
    BY <1>1, <2>2, EmptyRecords DEF Shape
  <2>4. incomplete' = [incomplete EXCEPT ![owner[g]] = TRUE]
    BY <1>3, <2>1 DEF AbandonSession, MarkIncomplete
  <2>5. /\ incomplete' \in [Operations -> BOOLEAN] /\ incomplete'[owner[g]]
        /\ \A o \in Operations : incomplete[o] => incomplete'[o]
    BY <1>1, <2>1, <2>4 DEF Shape
  <2>6. /\ recording' \in [Operations -> BOOLEAN]
        /\ UNCHANGED <<coordinator, overflowed, nextPosition, observations>>
    BY <1>1, <1>3 DEF Shape, AbandonSession
  <2> QED BY <1>2, <2>3, <2>5, <2>6, DroppedStep
<1>4. CASE ~Reachable(entry[g].op) /\ UNCHANGED coordinatorVars
  <2>1. session[g].op = None /\ ~Live(owner[g])
    BY <1>4, EntryOf
  <2>2. UNCHANGED <<session, incomplete, recording, coordinator, overflowed, nextPosition, observations>>
    BY <1>4 DEF coordinatorVars
  <2> QED BY <1>1, <1>2, <2>1, <2>2, DroppedStep DEF Shape
<1> QED BY <1>3, <1>4 DEF Invalidate

(* A call on a handle fails while it stores its record. *)
LEMMA LogLostStep ==
  ASSUME IInv, NEW g \in Sessions, g \in Entries, Live(entry[g].op), WatchEnds(g), LogLost(g),
         UNCHANGED <<registryVars, nextHandle>>
  PROVE  IInv'
<1>1. Shape /\ UNCHANGED historyVars
  BY DEF IInv, LogLost
<1>2. session[g].op = owner[g] /\ owner[g] \in Operations
  BY EntryOf
<1>3. /\ session' = [session EXCEPT ![g] = NoSession]
      /\ incomplete' = [incomplete EXCEPT ![owner[g]] = TRUE]
      /\ recording' = [recording EXCEPT ![owner[g]] = recording[owner[g]] /\ ~TRUE]
  BY <1>2 DEF LogLost, Uncommitted, RemoveSession, MarkIncomplete
<1>4. /\ session' \in [Sessions -> SessionRecords] /\ session'[g].op = None
      /\ \A h \in Sessions \ {g} : session'[h] = session[h]
  BY <1>1, <1>3, EmptyRecords DEF Shape
<1>5. /\ incomplete' \in [Operations -> BOOLEAN] /\ incomplete'[owner[g]]
      /\ \A o \in Operations : incomplete[o] => incomplete'[o]
  BY <1>1, <1>2, <1>3 DEF Shape
<1>6. recording' \in [Operations -> BOOLEAN]
  BY <1>1, <1>3 DEF Shape
<1>7. /\ UNCHANGED <<coordinator, overflowed, nextPosition, observations>>
      /\ entry' = [entry EXCEPT ![g] = NoEntry]
  BY DEF LogLost, Uncommitted
<1> QED BY <1>1, <1>4, <1>5, <1>6, <1>7, DroppedStep

(* A finished observation leaves the table and the coordinator, and the      *)
(* evidence gets one owned observation for it.                               *)
LEMMA CommittedStep ==
  ASSUME IInv, NEW g \in Sessions, g \in Entries, NEW o \in Operations, entry[g].op = o, Live(o),
         WatchFinished(g), Commit(g), Answered(g),
         UNCHANGED <<registryVars, nextHandle>>
  PROVE  IInv'
<1> USE CoordinatorAssumption, EngineAssumption DEF registryVars
<1> DEFINE ob == Observation(session[g].class, session[g].position, TRUE)
<1>1. /\ Shape /\ Limits /\ HandleInv(g) /\ nextHandle \in Int
      /\ o \in Operations /\ owner[g] = o /\ g \notin finished /\ session[g].op = o /\ o # None
  <2>1. Shape /\ Limits /\ HandleInv(g) /\ nextHandle \in Int
    BY DEF IInv, Shape
  <2> QED BY <2>1, EntryOf
<1>2. WatchEnds(g) /\ watch'[g] = NoWatch
  BY <1>1, WatchFinishedEnds DEF WatchFinished, Shape
<1>3. /\ entry' = [entry EXCEPT ![g] = NoEntry]
      /\ session' = [session EXCEPT ![g] = NoSession]
      /\ finished' = finished \cup {g} /\ owner' = owner
  BY DEF Answered, Commit, RemoveSession
<1>4. /\ entry' \in [Sessions -> EntryRecords] /\ entry'[g] = NoEntry
      /\ session' \in [Sessions -> SessionRecords] /\ session'[g] = NoSession
      /\ \A h \in Sessions \ {g} : entry'[h] = entry[h] /\ session'[h] = session[h]
  BY <1>1, <1>3, EmptyRecords DEF Shape
<1>5. /\ Len(observations[o]) < MaxEvents
      /\ observations' = [observations EXCEPT ![o] = Append(observations[o], ob)]
      /\ UNCHANGED <<coordinator, incomplete, overflowed, nextPosition, recording>>
  BY <1>1 DEF Commit, Committable
<1>6. ob \in Evidence /\ ob.owned
  BY <1>1 DEF Observation, Evidence, Shape, SessionRecords
<1> HIDE DEF ob
<1>7. observations[o] \in Seq(Evidence)
  BY <1>1 DEF Shape
<1>8. /\ Append(observations[o], ob) \in Seq(Evidence)
      /\ Len(Append(observations[o], ob)) = Len(observations[o]) + 1
      /\ Len(observations[o]) \in Nat
      /\ DOMAIN observations[o] = 1 .. Len(observations[o])
      /\ \A i \in 1 .. Len(observations[o]) : Append(observations[o], ob)[i] = observations[o][i]
      /\ DOMAIN Append(observations[o], ob) = 1 .. Len(observations[o]) + 1
  BY <1>6, <1>7
<1>9. /\ observations' \in [Operations -> Seq(Evidence)]
      /\ observations'[o] = Append(observations[o], ob)
      /\ \A q \in Operations \ {o} : observations'[q] = observations[q]
  BY <1>1, <1>5, <1>8 DEF Shape
<1>10. Shape'
  BY <1>1, <1>2, <1>3, <1>4, <1>5, <1>9 DEF Shape, WatchEnds
<1>11. Limits'
  <2>1. \A q \in Operations : Len(observations'[q]) <= MaxEvents
    BY <1>1, <1>5, <1>8, <1>9 DEF Limits
  <2>2. \A h \in Sessions : watch'[h].op \in {watch[h].op, None}
    BY <1>2, EmptyRecords DEF WatchEnds
  <2> QED BY <1>1, <1>4, <2>1, <2>2, EmptyRecords, LimitsKept
<1>12. HandleInv(g)'
  <2>1. UnusedAt(g)'
    BY <1>1, <1>2, <1>3, <1>4, EmptyRecords DEF HandleInv, UnusedAt
  <2>2. OwnedAt(g)'
    BY <1>1, <1>2, <1>3, <1>4, EmptyRecords DEF HandleInv, OwnedAt, InRegistry
  <2>3. AgreesAt(g)' /\ WatchAt(g)' /\ KeptAt(g)'
    BY <1>2, <1>3, <1>4, EmptyRecords DEF AgreesAt, WatchAt, KeptAt
  <2> QED BY <2>1, <2>2, <2>3 DEF HandleInv
<1>13. \A q \in Operations \ {o} : Finished(q)' = Finished(q)
  <2> SUFFICES ASSUME NEW q \in Operations \ {o} PROVE Finished(q)' = Finished(q)
    OBVIOUS
  <2>1. \A h : h \in Finished(q)' <=> h \in Finished(q)
    BY <1>1, <1>3 DEF Finished
  <2> QED BY <2>1
<1>14. AccountedFor(o)'
  <2> SUFFICES ASSUME AllOwned(o)'
               PROVE  Len(observations'[o]) = Cardinality(Internal) + Cardinality(Finished(o)')
    BY <1>1, <1>4, EmptyRecords DEF AccountedFor, AllOwned, Finished
  <2>1. AllOwned(o)
    BY <1>8, <1>9 DEF AllOwned
  <2>2. Len(observations[o]) = Cardinality(Internal) + Cardinality(Finished(o))
    BY <1>1, <2>1 DEF IInv, Accounted, AccountedFor
  <2>3. \A h : h \in Finished(o)' <=> h \in Finished(o) \cup {g}
    BY <1>1, <1>3 DEF Finished
  <2>4. Finished(o)' = Finished(o) \cup {g} /\ g \notin Finished(o) /\ Finished(o) \in SUBSET Sessions
    BY <1>1, <2>3 DEF Finished, Shape
  <2>5. /\ Cardinality(Finished(o) \cup {g}) = Cardinality(Finished(o)) + 1
        /\ Cardinality(Finished(o)) \in Nat /\ Cardinality(Internal) \in Nat
    BY <2>4, Counting
  <2> QED BY <1>8, <1>9, <2>2, <2>4, <2>5
<1>15. \A h \in Sessions \ {g} :
          /\ UNCHANGED <<session[h], entry[h], watch[h], owner[h]>>
          /\ h \in finished' <=> h \in finished
  BY <1>2, <1>3, <1>4 DEF WatchEnds
<1>16. \A q \in Operations : \/ observations'[q] = observations[q] /\ Finished(q)' = Finished(q)
                             \/ Live(q) /\ AccountedFor(q)'
  BY <1>9, <1>13, <1>14
<1> HIDE DEF registryVars
<1> QED
  BY <1>1, <1>2, <1>3, <1>5, <1>10, <1>11, <1>12, <1>15, <1>16, HandleStep
     DEF WatchEnds, registryVars

-----------------------------------------------------------------------------
(***************************************************************************)
(* The calls on observations.                                              *)
(***************************************************************************)
(* A position is used up, and the handle that comes next is a session's. *)
LEMMA Allocated ==
  ASSUME IInv, NEW o \in Operations, Allocate(o)
  PROVE  /\ Cardinality(Entries) < MaxObservations
         /\ nextHandle \in Sessions /\ nextHandle' = nextHandle + 1
         /\ nextHandle' \in 1 .. MaxHandle + 1 /\ nextHandle <= nextHandle'
         /\ UNCHANGED registryVars
BY EngineAssumption DEF Allocate, IInv, Shape

(* The positions of a class are numbers, and stay so. *)
LEMMA PositionTyped ==
  ASSUME IInv, NEW o \in Operations, NEW c \in Classes, AdvancePosition(o, c)
  PROVE  /\ nextPosition[o][c] \in Nat
         /\ nextPosition' \in [Operations -> [Classes -> Nat]]
<1>1. nextPosition \in [Operations -> [Classes -> Nat]]
  BY DEF IInv, Shape
<1>2. nextPosition[o] \in [Classes -> Nat] /\ nextPosition[o][c] \in Nat
  BY <1>1
<1>3. nextPosition' = [nextPosition EXCEPT ![o] = [nextPosition[o] EXCEPT ![c] = nextPosition[o][c] + 1]]
  BY DEF AdvancePosition
<1>4. [nextPosition[o] EXCEPT ![c] = nextPosition[o][c] + 1] \in [Classes -> Nat]
  BY <1>2
<1> QED BY <1>1, <1>2, <1>3, <1>4

(* A call that is refused changes nothing. *)
LEMMA UnchangedStep ==
  ASSUME IInv, UNCHANGED vars
  PROVE  IInv'
<1>1. Shape
  BY DEF IInv
<1>2. UNCHANGED <<coordinator, incomplete, overflowed, recording, nextPosition, observations,
                  session, entry, nextHandle, registryVars, sentinelVars, historyVars>>
  BY DEF vars, coordinatorVars, tableVars
<1>3. nextHandle' \in 1 .. MaxHandle + 1 /\ nextHandle <= nextHandle'
  BY <1>1, <1>2, EngineAssumption DEF Shape
<1> QED BY <1>1, <1>2, <1>3, QuietStep DEF Shape

(* An observation that could not be opened leaves no handle. *)
LEMMA NotOpenedStep ==
  ASSUME IInv, NEW o \in Operations, NEW c \in Classes, NotOpened(o, c)
  PROVE  IInv'
<1>1. Shape
  BY DEF IInv
<1>2. /\ nextHandle' \in 1 .. MaxHandle + 1 /\ nextHandle <= nextHandle' /\ UNCHANGED registryVars
  BY Allocated DEF NotOpened
<1>3. UNCHANGED <<coordinator, overflowed, recording, nextPosition, observations, session, entry,
                  sentinelVars, historyVars>>
  BY DEF NotOpened, OpenRefused, OpenFails, coordinatorVars
<1>4. incomplete' = incomplete \/ incomplete' = [incomplete EXCEPT ![o] = TRUE]
  BY DEF NotOpened, OpenRefused, OpenFails, MarkIncomplete, coordinatorVars
<1>5. /\ incomplete' \in [Operations -> BOOLEAN]
      /\ \A q \in Operations : incomplete[q] => incomplete'[q]
  BY <1>1, <1>4 DEF Shape
<1> QED BY <1>1, <1>2, <1>3, <1>5, QuietStep DEF Shape

(* ObservationOpen keeps IInv. *)
LEMMA ObservationOpenStep ==
  ASSUME IInv, NEW o \in Operations, NEW c \in Classes, ObservationOpen(o, c)
  PROVE  IInv'
<1>1. CASE TableFull
  BY <1>1, UnchangedStep DEF TableFull
<1>2. CASE NotOpened(o, c)
  BY <1>2, NotOpenedStep
<1>3. CASE /\ Allocate(o)
           /\ Reachable(o)
           /\ OpenOk(o, nextHandle, c)
           /\ entry' = [entry EXCEPT ![nextHandle] = Entry(o, KindOf(c), "empty", FALSE, "empty")]
           /\ WatchOpened(nextHandle, o, FALSE)
           /\ Begun(nextHandle, o)
  <2> DEFINE s == Session(o, c, "request", "empty", "empty", nextPosition[o][c])
             e == Entry(o, KindOf(c), "empty", FALSE, "empty")
  <2>1. /\ nextPosition[o][c] \in Nat /\ nextPosition' \in [Operations -> [Classes -> Nat]]
        /\ session' = [session EXCEPT ![nextHandle] = s]
        /\ Cardinality(SessionsOf(o)) < MaxSessions
        /\ UNCHANGED <<coordinator, incomplete, overflowed, recording, observations>>
    BY <1>3, PositionTyped DEF OpenOk, OpenAdmitted
  <2>2. /\ s \in SessionRecords /\ s.op = o /\ s.state = "request" /\ s.class = c
        /\ s.request = "empty" /\ s.response = "empty"
    BY <2>1 DEF Session, SessionRecords, SessionStates, Requests, Responses
  <2>3. /\ e \in EntryRecords /\ e.op = o /\ e.kind = KindOf(c) /\ e.request = "empty"
        /\ e.response = "empty" /\ e.validated = FALSE
    BY DEF Entry, EntryRecords, Kinds, KindOf, Requests, Responses
  <2>4. KindOf(c) # "plain" => c \in Semantic
    BY DEF KindOf
  <2>5. Live(o)
    BY <1>3 DEF Reachable
  <2> HIDE DEF s, e
  <2>6. /\ s.state \in {"request", "capture"} /\ FALSE = (s.state = "capture")
        /\ e.kind # "plain" =>
           /\ s.class \in Semantic /\ e.request = s.request /\ e.response = s.response
           /\ e.validated = (s.state = "capture")
    BY <2>2, <2>3, <2>4
  <2>7. entry' = [entry EXCEPT ![nextHandle] = e]
    BY <1>3 DEF e
  <2>8. /\ Cardinality(Entries) < MaxObservations
        /\ nextHandle \in Sessions /\ nextHandle' = nextHandle + 1
        /\ UNCHANGED registryVars
    BY <1>3, Allocated
  <2> QED BY <1>3, <2>1, <2>2, <2>3, <2>5, <2>6, <2>7, <2>8, OpenedStep
<1> QED BY <1>1, <1>2, <1>3 DEF ObservationOpen

(* DependencyOpen keeps IInv. *)
LEMMA DependencyOpenStep ==
  ASSUME IInv, NEW o \in Operations, NEW c \in Classes, DependencyOpen(o, c)
  PROVE  IInv'
<1>1. CASE TableFull
  BY <1>1, UnchangedStep DEF TableFull
<1>2. CASE NotOpened(o, c)
  BY <1>2, NotOpenedStep
<1> DEFINE s == Session(o, c, "capture", "record", "empty", nextPosition[o][c])
           e == Entry(o, "bound", "record", TRUE, "empty")
<1>3. CASE /\ Allocate(o)
           /\ Reachable(o)
           /\ OpenAdmitted(o, c)
           /\ AdvancePosition(o, c)
           /\ Begun(nextHandle, o)
           /\ UNCHANGED <<mode, coordinator, overflowed, covered, observations, recording, consumed>>
           /\ \/ /\ session' = [session EXCEPT ![nextHandle] = s]
                 /\ entry' = [entry EXCEPT ![nextHandle] = e]
                 /\ WatchOpened(nextHandle, o, TRUE)
                 /\ UNCHANGED incomplete
              \/ /\ MarkIncomplete(o)
                 /\ WatchPassed
                 /\ UNCHANGED <<session, entry>>
  <2>1. /\ nextPosition[o][c] \in Nat /\ nextPosition' \in [Operations -> [Classes -> Nat]]
        /\ Cardinality(SessionsOf(o)) < MaxSessions
    BY <1>3, PositionTyped DEF OpenAdmitted
  <2>2. /\ s \in SessionRecords /\ s.op = o /\ s.state = "capture" /\ s.class = c
        /\ s.request = "record" /\ s.response = "empty"
    BY <2>1 DEF Session, SessionRecords, SessionStates, Requests, Responses
  <2>3. /\ e \in EntryRecords /\ e.op = o /\ e.request = "record"
        /\ e.response = "empty" /\ e.validated = TRUE
    BY DEF Entry, EntryRecords, Kinds, Requests, Responses
  <2>4. Live(o) /\ c \in Semantic
    BY <1>3 DEF Reachable, DependencyOpen
  <2>5. /\ Cardinality(Entries) < MaxObservations
        /\ nextHandle \in Sessions /\ nextHandle' = nextHandle + 1
        /\ UNCHANGED registryVars
    BY <1>3, Allocated
  <2> HIDE DEF s, e
  <2>6. /\ s.state \in {"request", "capture"} /\ TRUE = (s.state = "capture")
        /\ e.kind # "plain" =>
           /\ s.class \in Semantic /\ e.request = s.request /\ e.response = s.response
           /\ e.validated = (s.state = "capture")
    BY <2>2, <2>3, <2>4
  <2>7. CASE /\ session' = [session EXCEPT ![nextHandle] = s]
             /\ entry' = [entry EXCEPT ![nextHandle] = e]
             /\ WatchOpened(nextHandle, o, TRUE)
             /\ UNCHANGED incomplete
    BY <1>3, <2>1, <2>2, <2>3, <2>4, <2>5, <2>6, <2>7, OpenedStep
  <2>8. CASE MarkIncomplete(o) /\ WatchPassed /\ UNCHANGED <<session, entry>>
    BY <1>3, <2>1, <2>4, <2>5, <2>8, HalfOpenedStep
  <2> QED BY <1>3, <2>7, <2>8
<1> QED BY <1>1, <1>2, <1>3 DEF DependencyOpen

(* ObservationWrite keeps IInv. *)
LEMMA ObservationWriteStep ==
  ASSUME IInv, NEW g \in Sessions, NEW stream \in {"request", "response"}, ObservationWrite(g, stream)
  PROVE  IInv'
<1>1. Shape /\ g \in Entries /\ UNCHANGED <<registryVars, nextHandle, sentinelVars, historyVars>>
  BY DEF IInv, ObservationWrite
<1>2. CASE Invalidate(g)
  BY <1>1, <1>2, WatchStays, InvalidateStep
<1>3. ASSUME Reachable(entry[g].op), WriteOk(g, stream),
             IF IsSemantic(g)
               THEN SetEntry(g, session'[g].request, entry[g].validated, session'[g].response)
               ELSE UNCHANGED entry
      PROVE  IInv'
  <2> DEFINE s == session'[g]
             e == entry'[g]
  <2>1. PICK o \in Operations : entry[g].op = o
    BY <1>1, EntryOf
  <2>2. Live(o) /\ SameSession(g) /\ session[g].op = o
    BY <1>1, <1>3, <2>1, EntryOf
  <2>3. PICK request \in Requests, response \in Responses :
             session' = [session EXCEPT ![g] =
               Session(session[g].op, session[g].class, session[g].state, request, response,
                       session[g].position)]
    <3>1. session[g] \in SessionRecords
      BY <1>1 DEF Shape
    <3>2. session[g].request \in Requests /\ session[g].response \in Responses
      BY <3>1 DEF SessionRecords
    <3> QED BY <1>3, <3>2 DEF WriteOk, SetSession
  <2>4. /\ session[g] \in SessionRecords /\ entry[g] \in EntryRecords
    BY <1>1 DEF Shape
  <2>5. /\ s = Session(o, session[g].class, session[g].state, request, response, session[g].position)
        /\ session' = [session EXCEPT ![g] = s]
    BY <1>1, <2>2, <2>3 DEF Shape
  <2>6. /\ s \in SessionRecords /\ s.op = o /\ s.state = session[g].state
        /\ s.class = session[g].class
    BY <2>4, <2>5 DEF Session, SessionRecords
  <2>7. entry' = [entry EXCEPT ![g] = e]
    BY <1>1, <1>3 DEF Shape, SetEntry
  <2>8. IsSemantic(g) => e = Entry(o, entry[g].kind, s.request, entry[g].validated, s.response)
    BY <1>1, <1>3, <2>1 DEF Shape, SetEntry
  <2>9. ~IsSemantic(g) => e = entry[g]
    BY <1>3
  <2>10. s.request \in Requests /\ s.response \in Responses
    BY <2>6 DEF SessionRecords
  <2>11. e \in EntryRecords /\ e.op = o /\ e.kind = entry[g].kind
    <3>1. CASE IsSemantic(g)
      BY <2>4, <2>8, <2>10, <3>1 DEF Entry, EntryRecords
    <3>2. CASE ~IsSemantic(g)
      BY <2>1, <2>4, <2>9, <3>2
    <3> QED BY <3>1, <3>2
  <2>12. s.state \in {"request", "capture"}
    BY <2>2, <2>6 DEF SameSession
  <2>13. e.kind # "plain" =>
           /\ s.class \in Semantic /\ e.request = s.request /\ e.response = s.response
           /\ e.validated = (s.state = "capture")
    <3> SUFFICES ASSUME e.kind # "plain"
                 PROVE  /\ s.class \in Semantic /\ e.request = s.request /\ e.response = s.response
                        /\ e.validated = (s.state = "capture")
      OBVIOUS
    <3>1. IsSemantic(g)
      BY <2>11 DEF IsSemantic
    <3>2. e.request = s.request /\ e.response = s.response /\ e.validated = entry[g].validated
      BY <2>8, <3>1 DEF Entry
    <3>3. session[g].class \in Semantic /\ entry[g].validated = (session[g].state = "capture")
      BY <2>2, <3>1 DEF SameSession
    <3> QED BY <2>6, <3>2, <3>3
  <2>14. UNCHANGED <<coordinator, incomplete, overflowed, recording, observations, nextPosition>>
    BY <1>3 DEF WriteOk
  <2>15. watch' = watch /\ suspect' = suspect /\ active' = active
    BY <1>1 DEF sentinelVars
  <2> HIDE DEF s, e
  <2>16. watch' \in [Sessions -> WatchRecords] /\ suspect' \subseteq active
    BY <1>1, <2>15 DEF Shape
  <2> QED
    BY <1>1, <2>1, <2>2, <2>5, <2>6, <2>7, <2>11, <2>12, <2>13, <2>14, <2>15, <2>16, InPlaceStep
<1> QED BY <1>2, <1>3 DEF ObservationWrite

(* ObservationDispatch keeps IInv. *)
LEMMA ObservationDispatchStep ==
  ASSUME IInv, NEW g \in Sessions, ObservationDispatch(g)
  PROVE  IInv'
<1>1. Shape /\ g \in Entries /\ UNCHANGED <<registryVars, nextHandle, historyVars>>
  BY DEF IInv, ObservationDispatch
<1>2. CASE Invalidate(g) /\ UNCHANGED sentinelVars
  BY <1>1, <1>2, WatchStays, InvalidateStep
<1>3. ASSUME Reachable(entry[g].op), SemanticDispatch(g), DispatchCapture(g),
             SetEntry(g, entry[g].request, IsSemantic(g), entry[g].response),
             WatchDispatched(g)
      PROVE  IInv'
  <2> DEFINE s == Session(session[g].op, session[g].class, "capture", session[g].request,
                          session[g].response, session[g].position)
             e == Entry(entry[g].op, entry[g].kind, entry[g].request, IsSemantic(g),
                        entry[g].response)
  <2>1. PICK o \in Operations : entry[g].op = o
    BY <1>1, EntryOf
  <2>2. Live(o) /\ SameSession(g) /\ session[g].op = o
    BY <1>1, <1>3, <2>1, EntryOf
  <2>3. /\ session[g] \in SessionRecords /\ entry[g] \in EntryRecords /\ watch[g] \in WatchRecords
    BY <1>1 DEF Shape
  <2>4. /\ session' = [session EXCEPT ![g] = s] /\ entry' = [entry EXCEPT ![g] = e]
        /\ UNCHANGED <<coordinator, incomplete, overflowed, recording, observations, nextPosition>>
    BY <1>3 DEF DispatchCapture, SetSession, SetEntry
  <2>5. /\ s \in SessionRecords /\ s.op = o /\ s.state = "capture" /\ s.class = session[g].class
        /\ s.request = session[g].request /\ s.response = session[g].response
    BY <2>2, <2>3 DEF Session, SessionRecords, SessionStates
  <2>6. IsSemantic(g) \in BOOLEAN /\ (IsSemantic(g) <=> entry[g].kind # "plain")
    BY DEF IsSemantic
  <2>7. /\ e \in EntryRecords /\ e.op = o /\ e.kind = entry[g].kind
        /\ e.request = entry[g].request /\ e.response = entry[g].response
        /\ e.validated = IsSemantic(g)
    BY <2>1, <2>3, <2>6 DEF Entry, EntryRecords
  <2> HIDE DEF s, e
  <2>8. /\ s.state \in {"request", "capture"}
        /\ e.kind # "plain" =>
           /\ s.class \in Semantic /\ e.request = s.request /\ e.response = s.response
           /\ e.validated = (s.state = "capture")
    BY <2>2, <2>5, <2>6, <2>7 DEF SameSession
  <2>9. active' = active
    BY <1>3 DEF WatchDispatched
  <2>10. CASE /\ watch' = [watch EXCEPT ![g].dispatched = TRUE]
              /\ UNCHANGED suspect
    <3>1. /\ watch'[g] = [watch[g] EXCEPT !.dispatched = TRUE]
          /\ \A h \in Sessions \ {g} : watch'[h] = watch[h]
          /\ watch' = [watch EXCEPT ![g] = [watch[g] EXCEPT !.dispatched = TRUE]]
      BY <1>1, <2>10 DEF Shape
    <3>2. /\ [watch[g] EXCEPT !.dispatched = TRUE] \in WatchRecords
          /\ [watch[g] EXCEPT !.dispatched = TRUE].op = watch[g].op
          /\ [watch[g] EXCEPT !.dispatched = TRUE].dispatched = TRUE
      BY <2>3 DEF WatchRecords
    <3>3. /\ watch' \in [Sessions -> WatchRecords]
          /\ watch'[g].op = watch[g].op /\ watch'[g].dispatched = (s.state = "capture")
      BY <1>1, <2>5, <3>1, <3>2 DEF Shape
    <3>4. suspect' = suspect /\ suspect' \subseteq active
      BY <1>1, <2>10 DEF Shape
    <3> QED
      BY <1>1, <2>1, <2>2, <2>4, <2>5, <2>7, <2>8, <2>9, <3>1, <3>3, <3>4, InPlaceStep
  <2>11. CASE suspect' = active /\ UNCHANGED watch
    <3>1. watch' \in [Sessions -> WatchRecords] /\ suspect \subseteq suspect'
      BY <1>1, <2>11 DEF Shape
    <3> QED
      BY <1>1, <2>1, <2>2, <2>4, <2>5, <2>7, <2>8, <2>9, <2>11, <3>1, InPlaceStep
  <2> QED BY <1>3, <2>10, <2>11 DEF WatchDispatched
<1> QED BY <1>2, <1>3 DEF ObservationDispatch

(* ObservationRead keeps IInv. *)
LEMMA ObservationReadStep ==
  ASSUME IInv, NEW g \in Sessions, ObservationRead(g)
  PROVE  IInv'
<1>1. UNCHANGED vars
  BY DEF ObservationRead, ReadFails, vars
<1> QED BY <1>1, UnchangedStep

(* ObservationFinish keeps IInv. *)
LEMMA ObservationFinishStep ==
  ASSUME IInv, NEW g \in Sessions, ObservationFinish(g)
  PROVE  IInv'
<1>1. Shape /\ WatchFinished(g) /\ UNCHANGED <<registryVars, nextHandle>>
  BY DEF IInv, ObservationFinish
<1>2. WatchEnds(g)
  BY <1>1, WatchFinishedEnds
<1>3. CASE g \notin Entries /\ UNCHANGED <<coordinatorVars, entry, historyVars>>
  <2>1. UNCHANGED <<coordinatorVars, registryVars, tableVars, historyVars>>
    BY <1>1, <1>3 DEF tableVars
  <2> QED BY <1>2, <1>3, <2>1, UnwatchedStep
<1>4. CASE /\ g \in Entries
           /\ Reachable(entry[g].op)
           /\ (Commit(g) /\ Answered(g)) \/ LogLost(g)
  <2>1. Live(entry[g].op) /\ entry[g].op \in Operations
    BY <1>4, EntryOf
  <2>2. CASE Commit(g) /\ Answered(g)
    BY <1>1, <1>4, <2>1, <2>2, CommittedStep
  <2>3. CASE LogLost(g)
    BY <1>1, <1>2, <1>4, <2>1, <2>3, LogLostStep
  <2> QED BY <1>4, <2>2, <2>3
<1>5. CASE g \in Entries /\ Invalidate(g) /\ UNCHANGED historyVars
  BY <1>1, <1>2, <1>5, InvalidateStep
<1> QED BY <1>3, <1>4, <1>5 DEF ObservationFinish

(* ObservationAbandon keeps IInv. *)
LEMMA ObservationAbandonStep ==
  ASSUME IInv, NEW g \in Sessions, ObservationAbandon(g)
  PROVE  IInv'
<1>1. Shape /\ WatchFinished(g) /\ UNCHANGED <<registryVars, nextHandle, historyVars>>
  BY DEF IInv, ObservationAbandon
<1>2. WatchEnds(g)
  BY <1>1, WatchFinishedEnds
<1>3. CASE g \in Entries /\ Invalidate(g)
  BY <1>1, <1>2, <1>3, InvalidateStep
<1>4. CASE /\ g \in Entries => ~Reachable(entry[g].op)
           /\ UNCHANGED <<coordinatorVars, entry>>
  <2>1. UNCHANGED <<coordinatorVars, registryVars, tableVars, historyVars>>
    BY <1>1, <1>4 DEF tableVars
  <2> QED BY <1>2, <1>4, <2>1, UnwatchedStep
<1> QED BY <1>3, <1>4 DEF ObservationAbandon

(* DependencyFinish keeps IInv. *)
LEMMA DependencyFinishStep ==
  ASSUME IInv, NEW g \in Sessions, DependencyFinish(g)
  PROVE  IInv'
<1>1. Shape /\ g \in Entries /\ WatchFinished(g) /\ UNCHANGED <<registryVars, nextHandle>>
  BY DEF IInv, DependencyFinish
<1>2. WatchEnds(g)
  BY <1>1, WatchFinishedEnds
<1>3. CASE Reachable(entry[g].op) /\ ((Commit(g) /\ Answered(g)) \/ LogLost(g))
  <2>1. Live(entry[g].op) /\ entry[g].op \in Operations
    BY <1>1, <1>3, EntryOf
  <2>2. CASE Commit(g) /\ Answered(g)
    BY <1>1, <2>1, <2>2, CommittedStep
  <2>3. CASE LogLost(g)
    BY <1>1, <1>2, <2>1, <2>3, LogLostStep
  <2> QED BY <1>3, <2>2, <2>3
<1>4. CASE Invalidate(g) /\ UNCHANGED historyVars
  BY <1>1, <1>2, <1>4, InvalidateStep
<1> QED BY <1>3, <1>4 DEF DependencyFinish, DependencyAnswerable

-----------------------------------------------------------------------------
(***************************************************************************)
(* The calls on operations.                                                *)
(***************************************************************************)
LEMMA OperationInputStep ==
  ASSUME IInv, NEW o \in Operations, OperationInput(o)
  PROVE  IInv'
<1>1. Shape
  BY DEF IInv
<1>2. PICK kept \in BOOLEAN : recording' = [recording EXCEPT ![o] = recording[o] /\ kept]
  BY DEF OperationInput
<1>3. recording' \in [Operations -> BOOLEAN]
  BY <1>1, <1>2 DEF Shape
<1>4. UNCHANGED <<coordinator, incomplete, overflowed, nextPosition, observations, session,
                  registryVars, tableVars, sentinelVars, historyVars>>
  BY DEF OperationInput
<1>5. nextHandle' \in 1 .. MaxHandle + 1 /\ nextHandle <= nextHandle' /\ entry' = entry
  BY <1>1, <1>4, EngineAssumption DEF Shape, tableVars
<1> QED BY <1>1, <1>3, <1>4, <1>5, QuietStep DEF Shape

(* OperationUnowned keeps IInv. *)
LEMMA OperationUnownedStep ==
  ASSUME IInv, NEW o \in Operations, OperationUnowned(o)
  PROVE  IInv'
<1>1. Shape /\ Limits /\ Live(o)
  BY DEF IInv, OperationUnowned, Reachable
<1>2. UNCHANGED <<coordinator, incomplete, nextPosition, session, registryVars, tableVars,
                  sentinelVars, historyVars>>
  BY DEF OperationUnowned, UnownedOverflows, UnownedUnstored, UnownedUnrecorded, UnownedOk,
     coordinatorVars
<1>3. nextHandle' \in 1 .. MaxHandle + 1 /\ nextHandle <= nextHandle' /\ entry' = entry
  BY <1>1, <1>2, EngineAssumption DEF Shape, tableVars
<1>4. overflowed' \in [Operations -> BOOLEAN] /\ recording' \in [Operations -> BOOLEAN]
  <2>1. overflowed' = overflowed \/ overflowed' = [overflowed EXCEPT ![o] = TRUE]
    BY DEF OperationUnowned, UnownedOverflows, UnownedUnstored, UnownedUnrecorded, UnownedOk,
       coordinatorVars
  <2>2. recording' = recording \/ recording' = [recording EXCEPT ![o] = FALSE]
    BY DEF OperationUnowned, UnownedOverflows, UnownedUnstored, UnownedUnrecorded, UnownedOk,
       coordinatorVars
  <2> QED BY <1>1, <2>1, <2>2 DEF Shape
<1> DEFINE ob == Observation(AnyClass, 0, FALSE)
<1>5. \/ observations' = observations
      \/ /\ Len(observations[o]) < MaxEvents
         /\ observations' = [observations EXCEPT ![o] = Append(observations[o], ob)]
  BY DEF OperationUnowned, UnownedOverflows, UnownedUnstored, UnownedUnrecorded, UnownedOk,
     coordinatorVars
<1>6. ob \in Evidence /\ ~ob.owned
  <2>1. AnyClass \in Classes
    BY CoordinatorAssumption DEF AnyClass
  <2> QED BY <2>1 DEF Observation, Evidence
<1> HIDE DEF ob
<1>7. /\ observations' \in [Operations -> Seq(Evidence)]
      /\ \A q \in Operations :
           \/ observations'[q] = observations[q]
           \/ Live(q) /\ ~AllOwned(q)' /\ Len(observations'[q]) <= MaxEvents
  <2>1. CASE observations' = observations
    BY <1>1, <2>1 DEF Shape
  <2>2. CASE /\ Len(observations[o]) < MaxEvents
             /\ observations' = [observations EXCEPT ![o] = Append(observations[o], ob)]
    <3>1. observations[o] \in Seq(Evidence)
      BY <1>1 DEF Shape
    <3> DEFINE longer == Append(observations[o], ob)
               n == Len(observations[o]) + 1
    <3>2. /\ longer \in Seq(Evidence)
          /\ Len(longer) = n /\ n \in DOMAIN longer /\ longer[n] = ob
          /\ Len(observations[o]) \in Nat
      BY <1>6, <3>1
    <3>3. n <= MaxEvents
      BY <2>2, <3>2, CoordinatorAssumption
    <3> HIDE DEF longer, n
    <3>4. /\ observations' \in [Operations -> Seq(Evidence)]
          /\ observations'[o] = longer
          /\ \A q \in Operations \ {o} : observations'[q] = observations[q]
      BY <1>1, <2>2, <3>2 DEF Shape, longer
    <3>5. ~AllOwned(o)'
      BY <1>6, <3>2, <3>4 DEF AllOwned
    <3> QED BY <1>1, <3>2, <3>3, <3>4, <3>5
  <2> QED BY <1>5, <2>1, <2>2
<1> QED BY <1>1, <1>2, <1>3, <1>4, <1>7, QuietStep DEF Shape

(* An operation begins under a name no handle belongs to. *)
LEMMA OperationBeginStep ==
  ASSUME IInv, NEW o \in Operations, NEW e \in Engines, OperationBegin(o, e)
  PROVE  IInv'
<1> USE CoordinatorAssumption, EngineAssumption DEF historyVars, tableVars
<1> DEFINE order == CHOOSE q \in InternalSequences : TRUE
           first == [i \in DOMAIN order |-> Observation(order[i], 0, TRUE)]
<1>1. /\ Shape /\ Limits /\ coordinator[o] = "absent" /\ ~InRegistry(o)
      /\ e \in engines /\ e # None /\ o # None /\ ~Live(o) /\ o \notin closure
  BY DEF IInv, OperationBegin, Staged, Live, Shape
<1>2. /\ first \in Seq(Evidence) /\ Len(first) = Cardinality(Internal)
      /\ \A i \in DOMAIN first : first[i].owned
  BY InternalOrdered
<1>3. /\ Cardinality(Internal) <= MaxEvents
      /\ coordinator' = [coordinator EXCEPT ![o] = "live"]
      /\ recording' = [recording EXCEPT ![o] = TRUE]
      /\ observations' = [observations EXCEPT ![o] = first]
      /\ nextPosition' = [nextPosition EXCEPT ![o] = FirstPositions]
      /\ engineOf' = [engineOf EXCEPT ![o] = e]
      /\ UNCHANGED <<incomplete, overflowed, session, engines, closure, nextHandle, entry, watch,
                     owner, finished>>
  BY DEF OperationBegin, NewCapture
<1> HIDE DEF first
<1>4. /\ coordinator' \in [Operations -> {"absent", "live", "taken"}]
      /\ recording' \in [Operations -> BOOLEAN]
      /\ observations' \in [Operations -> Seq(Evidence)]
      /\ nextPosition' \in [Operations -> [Classes -> Nat]]
      /\ engineOf' \in [Operations -> engines \cup {None}]
  <2>1. FirstPositions \in [Classes -> Nat]
    BY DEF FirstPositions
  <2> QED BY <1>1, <1>2, <1>3, <2>1 DEF Shape
<1>5. \/ active' = active \cup {o} /\ suspect' \in {suspect, suspect \cup {o}}
      \/ suspect' = active /\ active' = active
  BY DEF OperationBegin
<1>6. /\ active' \subseteq Operations /\ suspect' \subseteq active'
      /\ \A q \in Operations \ {o} : q \in active' \ suspect' => q \in active \ suspect
  BY <1>1, <1>5 DEF Shape
<1>7. Shape'
  BY <1>1, <1>3, <1>4, <1>6 DEF Shape
<1>8. \A q \in Operations \ {o} :
        /\ coordinator'[q] = coordinator[q] /\ observations'[q] = observations[q]
        /\ engineOf'[q] = engineOf[q]
  BY <1>1, <1>3 DEF Shape
<1>9. coordinator'[o] = "live" /\ observations'[o] = first /\ engineOf'[o] = e
  BY <1>1, <1>3 DEF Shape
<1>10. Limits'
  <2>1. \A q \in Operations : Len(observations'[q]) <= MaxEvents
    BY <1>1, <1>2, <1>3, <1>8, <1>9 DEF Limits
  <2> QED BY <1>1, <1>3, <2>1, LimitsKept
<1>11. \A h \in Sessions : owner[h] # o
  BY <1>1 DEF IInv, HandleInv, OwnedAt
<1>12. ASSUME NEW h \in Sessions PROVE HandleInv(h)'
  <2>1. HandleInv(h) /\ owner[h] \in Operations \cup {None} /\ owner[h] # o /\ h \in Int
    BY <1>1, <1>11 DEF IInv, Shape
  <2>2. owner[h] # None =>
           /\ InRegistry(owner[h])'
           /\ Live(owner[h])' <=> Live(owner[h])
           /\ incomplete[owner[h]] => incomplete'[owner[h]]
           /\ Capturable(owner[h])' => Capturable(owner[h])
    <3> SUFFICES ASSUME owner[h] # None
                 PROVE  /\ InRegistry(owner[h])'
                        /\ Live(owner[h])' <=> Live(owner[h])
                        /\ incomplete[owner[h]] => incomplete'[owner[h]]
                        /\ Capturable(owner[h])' => Capturable(owner[h])
      OBVIOUS
    <3>1. owner[h] \in Operations \ {o} /\ InRegistry(owner[h])
      BY <2>1 DEF HandleInv, OwnedAt
    <3> QED BY <1>3, <1>6, <1>8, <3>1 DEF InRegistry, Live, Capturable, Reachable
  <2>3. nextHandle \in Int /\ nextHandle' = nextHandle
    BY <1>1, <1>3 DEF Shape
  <2> QED BY <1>3, <2>1, <2>2, <2>3, HandleKept
<1>13. Staged'
  BY <1>1, <1>3, <1>8, <1>9 DEF IInv, Staged, InRegistry
<1>14. \A q \in Operations : Finished(q)' = Finished(q)
  BY <1>3, FinishedKept
<1>15. Accounted'
  <2>1. AccountedFor(o)'
    <3>1. \A h : h \notin Finished(o)
      BY <1>1, <1>11 DEF Finished, Shape
    <3>2. Finished(o)' = {}
      BY <1>14, <3>1
    <3>3. Cardinality(Finished(o)') = 0 /\ Cardinality(Internal) \in Nat
      BY <3>2, Counting
    <3> QED BY <1>2, <1>9, <3>3 DEF AccountedFor
  <2>2. ASSUME NEW q \in Operations \ {o}, Live(q)' PROVE AccountedFor(q)'
    <3>1. Live(q)
      BY <1>8, <2>2 DEF Live
    <3>2. AccountedFor(q)
      BY <3>1 DEF IInv, Accounted
    <3> QED BY <1>8, <1>14, <3>2 DEF AccountedFor, AllOwned
  <2> QED BY <2>1, <2>2 DEF Accounted
<1>16. CapturedIsAnswered'
  <2>1. \A q \in closure : q \in Operations \ {o}
    BY <1>1 DEF Shape
  <2> QED BY <1>3, <1>8, <2>1 DEF IInv, CapturedIsAnswered, AllOwned
<1> QED BY <1>7, <1>10, <1>12, <1>13, <1>15, <1>16 DEF IInv

(* The coordinators of S are dropped and the sentinel watches S no more: what *)
(* that leaves of a handle.                                                   *)
LEMMA DropTyped ==
  ASSUME Shape, NEW S \in SUBSET Operations, NEW state \in {"absent", "live", "taken"},
         DropCoordinators(S, state)
  PROVE  /\ coordinator' \in [Operations -> {"absent", "live", "taken"}]
         /\ incomplete' \in [Operations -> BOOLEAN]
         /\ overflowed' \in [Operations -> BOOLEAN]
         /\ nextPosition' \in [Operations -> [Classes -> Nat]]
         /\ session' \in [Sessions -> SessionRecords]
         /\ \A q \in S : coordinator'[q] = state
         /\ \A q \in Operations \ S :
              coordinator'[q] = coordinator[q] /\ incomplete'[q] = incomplete[q]
         /\ \A h \in Sessions :
              session'[h] = IF session[h].op \in S THEN NoSession ELSE session[h]
<1>1. coordinator' \in [Operations -> {"absent", "live", "taken"}]
  BY DEF Shape, DropCoordinators, Reset
<1>2. incomplete' \in [Operations -> BOOLEAN] /\ overflowed' \in [Operations -> BOOLEAN]
  BY DEF Shape, DropCoordinators, Reset
<1>3. nextPosition' \in [Operations -> [Classes -> Nat]]
  <2>1. [c \in Classes |-> 0] \in [Classes -> Nat]
    OBVIOUS
  <2> QED BY <2>1 DEF Shape, DropCoordinators, Reset
<1>4. session' \in [Sessions -> SessionRecords]
  BY EmptyRecords DEF Shape, DropCoordinators
<1>5. /\ \A q \in S : coordinator'[q] = state
      /\ \A q \in Operations \ S :
           coordinator'[q] = coordinator[q] /\ incomplete'[q] = incomplete[q]
      /\ \A h \in Sessions :
           session'[h] = IF session[h].op \in S THEN NoSession ELSE session[h]
  BY DEF DropCoordinators, Reset
<1> QED BY <1>1, <1>2, <1>3, <1>4, <1>5

(* Dropping an operation's watches leaves a watch table. *)
LEMMA UnwatchTyped ==
  ASSUME Shape, NEW S \in SUBSET Operations, Unwatch(S)
  PROVE  /\ watch' \in [Sessions -> WatchRecords]
         /\ \A h \in Sessions : watch'[h] = IF watch[h].op \in S THEN NoWatch ELSE watch[h]
         /\ active' \subseteq Operations /\ suspect' \subseteq active'
         /\ active' = active \ S /\ suspect' = suspect \ S
BY EmptyRecords DEF Shape, Unwatch

(* close_world that cannot bind clean coverage only loses the coverage.        *)
LEMMA CoverageUnboundStep ==
  ASSUME IInv, NEW o \in Operations, OperationCloseWorld(o), CoverageUnbound(o)
  PROVE  IInv'
<1> USE CoordinatorAssumption, EngineAssumption DEF tableVars, historyVars
<1>1. /\ Shape /\ Limits
      /\ UNCHANGED <<engines, engineOf, nextHandle, entry, owner, finished>>
  BY DEF IInv, OperationCloseWorld
<1>2. /\ watch' \in [Sessions -> WatchRecords]
      /\ \A h \in Sessions : watch'[h] = IF watch[h].op = o THEN NoWatch ELSE watch[h]
      /\ active' \subseteq Operations /\ suspect' \subseteq active'
      /\ active' = active \ {o} /\ suspect' = suspect \ {o}
  BY <1>1, UnwatchTyped DEF OperationCloseWorld
<1>3. /\ UNCHANGED <<coordinator, overflowed, nextPosition, observations, recording, session, closure>>
      /\ incomplete' \in [Operations -> BOOLEAN]
      /\ \A q \in Operations : incomplete[q] => incomplete'[q]
      /\ \A q \in Operations \ {o} : incomplete'[q] = incomplete[q]
  BY <1>1 DEF CoverageUnbound, MarkIncomplete, Shape
<1>4. Shape'
  BY <1>1, <1>2, <1>3 DEF Shape
<1>5. Limits'
  <2>1. /\ \A q \in Operations : Len(observations'[q]) <= MaxEvents
        /\ \A h \in Sessions : entry'[h].op \in {entry[h].op, None}
        /\ \A h \in Sessions : session'[h].op \in {session[h].op, None}
    BY <1>1, <1>3 DEF Limits
  <2>2. \A h \in Sessions : watch'[h].op \in {watch[h].op, None}
    BY <1>2, EmptyRecords
  <2> QED BY <1>1, <2>1, <2>2, LimitsKept
<1>6. ASSUME NEW h \in Sessions PROVE HandleInv(h)'
  <2>1. HandleInv(h) /\ owner[h] \in Operations \cup {None} /\ h \in Int /\ nextHandle \in Int
    BY <1>1 DEF IInv, Shape
  <2>2. UnusedAt(h)' /\ OwnedAt(h)' /\ AgreesAt(h)'
    BY <1>1, <1>2, <1>3, <2>1, EmptyRecords
       DEF HandleInv, UnusedAt, OwnedAt, AgreesAt, SameSession, IsSemantic, InRegistry, Live
  <2>3. ~Capturable(o)'
    BY <1>2 DEF Capturable
  <2>4. \A q \in Operations \ {o} : Capturable(q)' => Capturable(q)
    BY <1>1, <1>2, <1>3 DEF Capturable, Reachable, InRegistry, Live
  <2>5. WatchAt(h)'
    BY <1>1, <1>2, <1>3, <2>1, <2>3, <2>4, EmptyRecords DEF HandleInv, WatchAt, OwnedAt
  <2>6. KeptAt(h)'
    BY <1>1, <1>3, <2>1 DEF HandleInv, KeptAt, Live
  <2> QED BY <2>2, <2>5, <2>6 DEF HandleInv
<1>7. Staged'
  BY <1>1, <1>3 DEF IInv, Staged, InRegistry
<1>8. Accounted'
  <2>1. \A q \in Operations : Finished(q)' = Finished(q)
    BY <1>1, FinishedKept
  <2> QED BY <1>3, <2>1 DEF IInv, Accounted, AccountedFor, AllOwned, Live
<1>9. CapturedIsAnswered'
  <2>1. \A q : BegunFor(q)' = BegunFor(q)
    BY <1>1 DEF BegunFor
  <2> QED BY <1>1, <1>3, <2>1 DEF IInv, CapturedIsAnswered, AllOwned, BegunFor
<1> QED BY <1>4, <1>5, <1>6, <1>7, <1>8, <1>9 DEF IInv

(* OperationCloseWorld keeps IInv. *)
LEMMA OperationCloseWorldStep ==
  ASSUME IInv, NEW o \in Operations, OperationCloseWorld(o), ~CoverageUnbound(o)
  PROVE  IInv'
<1> USE CoordinatorAssumption, EngineAssumption DEF tableVars, historyVars
<1>1. /\ Shape /\ Limits /\ InRegistry(o) /\ o # None
      /\ UNCHANGED <<engines, engineOf, nextHandle, entry, owner, finished>>
  BY DEF IInv, OperationCloseWorld
<1>2. /\ watch' \in [Sessions -> WatchRecords]
      /\ \A h \in Sessions : watch'[h] = IF watch[h].op = o THEN NoWatch ELSE watch[h]
      /\ active' \subseteq Operations /\ suspect' \subseteq active'
      /\ active' = active \ {o} /\ suspect' = suspect \ {o}
  BY <1>1, UnwatchTyped DEF OperationCloseWorld
<1>3. /\ coordinator' \in [Operations -> {"absent", "live", "taken"}]
      /\ incomplete' \in [Operations -> BOOLEAN]
      /\ overflowed' \in [Operations -> BOOLEAN]
      /\ nextPosition' \in [Operations -> [Classes -> Nat]]
      /\ session' \in [Sessions -> SessionRecords]
      /\ \A q \in Operations \ {o} :
           coordinator'[q] = coordinator[q] /\ incomplete'[q] = incomplete[q]
      /\ coordinator'[o] = "taken"
      /\ \A h \in Sessions : session'[h].op = IF session[h].op = o THEN None ELSE session[h].op
      /\ \A h \in Sessions : session[h].op # o => session'[h] = session[h]
  <2>1. CASE Live(o)
    <3>1. DropCoordinators({o}, "taken")
      BY <2>1 DEF OperationCloseWorld
    <3>2. {o} \in SUBSET Operations
      OBVIOUS
    <3>3. /\ coordinator' \in [Operations -> {"absent", "live", "taken"}]
          /\ incomplete' \in [Operations -> BOOLEAN]
          /\ overflowed' \in [Operations -> BOOLEAN]
          /\ nextPosition' \in [Operations -> [Classes -> Nat]]
          /\ session' \in [Sessions -> SessionRecords]
          /\ \A q \in {o} : coordinator'[q] = "taken"
          /\ \A q \in Operations \ {o} :
               coordinator'[q] = coordinator[q] /\ incomplete'[q] = incomplete[q]
          /\ \A h \in Sessions :
               session'[h] = IF session[h].op \in {o} THEN NoSession ELSE session[h]
      BY <1>1, <3>1, <3>2, DropTyped
    <3> QED BY <3>3, EmptyRecords
  <2>2. CASE ~Live(o)
    <3>1. UNCHANGED coordinatorVars
      BY <2>2 DEF OperationCloseWorld
    <3>2. \A h \in Sessions : session[h].op # o
      BY <1>1, <2>2 DEF IInv, HandleInv, OwnedAt
    <3>3. coordinator[o] = "taken"
      BY <1>1, <2>2 DEF IInv, Staged, Shape, Live
    <3> QED BY <1>1, <3>1, <3>2, <3>3 DEF Shape, coordinatorVars
  <2> QED BY <2>1, <2>2
<1>4. /\ recording' = recording
      /\ closure' = closure \/ (closure' = closure \cup {o} /\ Live(o) /\ WorldCloses(o))
      /\ observations' = observations
           \/ (observations' = Reset(observations, {o}, <<>>) /\ Live(o) /\ closure' = closure)
  BY DEF OperationCloseWorld, coordinatorVars
<1>5. /\ observations' \in [Operations -> Seq(Evidence)]
      /\ \A q \in Operations : Len(observations'[q]) <= MaxEvents
      /\ \A q \in Operations \ {o} : observations'[q] = observations[q]
  <2>1. CASE observations' = observations
    BY <1>1, <2>1 DEF Shape, Limits
  <2>2. CASE observations' = Reset(observations, {o}, <<>>)
    <3>1. <<>> \in Seq(Evidence) /\ Len(<<>>) = 0
      OBVIOUS
    <3> QED BY <1>1, <2>2, <3>1 DEF Shape, Limits, Reset
  <2> QED BY <1>4, <2>1, <2>2
<1>6. Shape'
  <2>1. closure' \subseteq Operations
    BY <1>1, <1>4 DEF Shape
  <2> QED BY <1>1, <1>2, <1>3, <1>4, <1>5, <2>1 DEF Shape
<1>7. Limits'
  BY <1>1, <1>2, <1>3, <1>5, EmptyRecords, LimitsKept
<1>8. ASSUME NEW h \in Sessions PROVE HandleInv(h)'
  <2>1. HandleInv(h) /\ owner[h] \in Operations \cup {None} /\ h \in Int /\ nextHandle \in Int
    BY <1>1 DEF IInv, Shape
  <2>2. CASE owner[h] = o
    <3>1. session'[h].op = None /\ watch'[h].op = None /\ owner'[h] = o
      BY <1>1, <1>2, <1>3, <2>1, <2>2, EmptyRecords DEF HandleInv, OwnedAt
    <3>2. ~Live(o)' /\ InRegistry(o)'
      BY <1>1, <1>3 DEF Live, InRegistry
    <3>3. UnusedAt(h)'
      BY <1>1, <2>1, <3>1 DEF HandleInv, UnusedAt
    <3>4. OwnedAt(h)'
      BY <1>1, <2>1, <2>2, <3>1, <3>2 DEF HandleInv, OwnedAt, InRegistry
    <3>5. entry'[h].op # None => entry'[h].op = o
      BY <1>1, <2>1, <2>2 DEF HandleInv, OwnedAt
    <3>6. AgreesAt(h)' /\ WatchAt(h)' /\ KeptAt(h)'
      BY <3>1, <3>2, <3>5 DEF AgreesAt, WatchAt, KeptAt, Capturable, Reachable, Live
    <3> QED BY <3>3, <3>4, <3>6 DEF HandleInv
  <2>3. CASE owner[h] # o
    <3>1. session[h].op # o /\ watch[h].op # o
      BY <1>1, <2>1, <2>3 DEF HandleInv, OwnedAt
    <3>2. UNCHANGED <<session[h], entry[h], watch[h], owner[h]>>
      BY <1>1, <1>2, <1>3, <3>1
    <3>3. owner[h] # None =>
             /\ InRegistry(owner[h])'
             /\ Live(owner[h])' <=> Live(owner[h])
             /\ incomplete[owner[h]] => incomplete'[owner[h]]
             /\ Capturable(owner[h])' => Capturable(owner[h])
      <4> SUFFICES ASSUME owner[h] # None
                   PROVE  /\ InRegistry(owner[h])'
                          /\ Live(owner[h])' <=> Live(owner[h])
                          /\ incomplete[owner[h]] => incomplete'[owner[h]]
                          /\ Capturable(owner[h])' => Capturable(owner[h])
        OBVIOUS
      <4>1. owner[h] \in Operations \ {o} /\ InRegistry(owner[h])
        BY <2>1, <2>3 DEF HandleInv, OwnedAt
      <4> QED BY <1>1, <1>2, <1>3, <4>1 DEF InRegistry, Live, Capturable, Reachable
    <3> QED BY <1>1, <2>1, <3>2, <3>3, HandleKept
  <2> QED BY <2>2, <2>3
<1>9. Staged'
  <2>1. \A q \in closure' : q \in closure \/ q = o
    BY <1>4
  <2>2. /\ \A q \in Operations : coordinator[q] = "absent" <=> engineOf[q] = None
        /\ \A q \in Operations : q \in closure => coordinator[q] = "taken"
    BY DEF IInv, Staged, InRegistry
  <2>3. engineOf' = engineOf /\ engineOf[o] # None
    BY <1>1 DEF InRegistry
  <2> QED BY <1>3, <2>1, <2>2, <2>3 DEF Staged, InRegistry
<1>10. \A q \in Operations : Finished(q)' = Finished(q)
  BY <1>1, FinishedKept
<1>11. Accounted'
  <2> SUFFICES ASSUME NEW q \in Operations, Live(q)' PROVE AccountedFor(q)'
    BY DEF Accounted
  <2>1. q # o /\ Live(q)
    BY <1>3 DEF Live
  <2>2. AccountedFor(q)
    BY <2>1 DEF IInv, Accounted
  <2> QED BY <1>5, <1>10, <2>1, <2>2 DEF AccountedFor, AllOwned
<1>12. CapturedIsAnswered'
  <2> SUFFICES ASSUME NEW q \in closure'
               PROVE  /\ BegunFor(q)' \subseteq finished'
                      /\ AllOwned(q)'
                      /\ Len(observations'[q]) = Cardinality(Internal) + Cardinality(BegunFor(q)')
    BY DEF CapturedIsAnswered, BegunFor
  <2>1. BegunFor(q)' = BegunFor(q)
    BY <1>1 DEF BegunFor
  <2>2. CASE q \in closure
    <3>1. q \in Operations /\ ~Live(q)
      BY <1>1, <2>2 DEF IInv, Shape, Staged, Live
    <3>2. observations'[q] = observations[q]
      BY <1>4, <1>5, <3>1
    <3>3. /\ BegunFor(q) \subseteq finished
          /\ AllOwned(q)
          /\ Len(observations[q]) = Cardinality(Internal) + Cardinality(BegunFor(q))
      BY <2>2 DEF IInv, CapturedIsAnswered, BegunFor
    <3> QED BY <1>1, <2>1, <3>2, <3>3 DEF AllOwned
  <2>3. CASE q \notin closure
    <3>1. q = o /\ Live(o) /\ WorldCloses(o) /\ closure' # closure
      BY <1>4, <2>3
    <3>2. observations' = observations
      BY <1>4, <3>1
    <3>3. ~incomplete[o] /\ AllOwned(o) /\ \A h \in Sessions : session[h].op # o
      BY <3>1 DEF WorldCloses, Complete, NoOpenSession, SessionsOf
    <3>4. BegunFor(o) \subseteq finished
      BY <1>1, <3>1, <3>3 DEF BegunFor, IInv, HandleInv, KeptAt
    <3>5. \A h : h \in Finished(o) <=> h \in BegunFor(o)
      BY <1>1, <3>4 DEF Finished, BegunFor, Shape
    <3>6. Finished(o) = BegunFor(o)
      BY <3>5
    <3>7. AccountedFor(o)
      BY <3>1 DEF IInv, Accounted
    <3> QED BY <1>1, <2>1, <3>1, <3>2, <3>3, <3>4, <3>6, <3>7 DEF AccountedFor, AllOwned
  <2> QED BY <2>2, <2>3
<1> QED BY <1>6, <1>7, <1>8, <1>9, <1>11, <1>12 DEF IInv

(* Operations leave the registry and take everything they own with them. *)
LEMMA ForgetStep ==
  ASSUME IInv, NEW S \in SUBSET Operations, Forget(S),
         engines' \subseteq engines,
         \A q \in Operations \ S : engineOf[q] \in engines' \cup {None}
  PROVE  IInv'
<1> USE CoordinatorAssumption, EngineAssumption
<1>1. Shape /\ Limits /\ None \notin S /\ nextHandle' = nextHandle /\ nextHandle \in Int
  BY DEF IInv, Forget, Shape
<1>2. /\ watch' \in [Sessions -> WatchRecords]
      /\ \A h \in Sessions : watch'[h] = IF watch[h].op \in S THEN NoWatch ELSE watch[h]
      /\ active' \subseteq Operations /\ suspect' \subseteq active'
      /\ active' = active \ S /\ suspect' = suspect \ S
  BY <1>1, UnwatchTyped DEF Forget
<1>3. /\ coordinator' \in [Operations -> {"absent", "live", "taken"}]
      /\ incomplete' \in [Operations -> BOOLEAN]
      /\ overflowed' \in [Operations -> BOOLEAN]
      /\ nextPosition' \in [Operations -> [Classes -> Nat]]
      /\ session' \in [Sessions -> SessionRecords]
      /\ \A q \in S : coordinator'[q] = "absent"
      /\ \A q \in Operations \ S :
           coordinator'[q] = coordinator[q] /\ incomplete'[q] = incomplete[q]
      /\ \A h \in Sessions :
           session'[h] = IF session[h].op \in S THEN NoSession ELSE session[h]
  BY <1>1, DropTyped DEF Forget
<1>4. /\ entry' \in [Sessions -> EntryRecords]
      /\ \A h \in Sessions : entry'[h] = IF entry[h].op \in S THEN NoEntry ELSE entry[h]
  BY <1>1, EmptyRecords DEF Shape, Forget, RemoveObservations
<1>5. /\ observations' \in [Operations -> Seq(Evidence)]
      /\ \A q \in Operations : Len(observations'[q]) <= MaxEvents
      /\ \A q \in Operations \ S : observations'[q] = observations[q]
  <2>1. <<>> \in Seq(Evidence) /\ Len(<<>>) = 0
    OBVIOUS
  <2>2. observations' = Reset(observations, S, <<>>)
    BY DEF Forget
  <2> QED BY <1>1, <2>1, <2>2 DEF Shape, Limits, Reset
<1>6. /\ recording' \in [Operations -> BOOLEAN]
      /\ engineOf' \in [Operations -> engines' \cup {None}]
      /\ \A q \in S : engineOf'[q] = None
      /\ \A q \in Operations \ S : engineOf'[q] = engineOf[q]
      /\ closure' = closure \ S
  BY <1>1 DEF Shape, Forget, Reset
<1>7. /\ owner' \in [Sessions -> Operations \cup {None}]
      /\ \A h \in Sessions : owner'[h] = IF owner[h] \in S THEN None ELSE owner[h]
      /\ finished' \subseteq finished
      /\ \A h \in Sessions : h \in finished' <=> h \in finished /\ owner[h] \notin S
  BY <1>1 DEF Shape, Forget
<1>8. Shape'
  <2>1. closure' \subseteq Operations /\ finished' \subseteq Sessions /\ engines' \subseteq Engines
    BY <1>1, <1>6, <1>7 DEF Shape
  <2> QED BY <1>1, <1>2, <1>3, <1>4, <1>5, <1>6, <1>7, <2>1 DEF Shape
<1>9. Limits'
  BY <1>1, <1>2, <1>3, <1>4, <1>5, EmptyRecords, LimitsKept
<1>10. ASSUME NEW h \in Sessions PROVE HandleInv(h)'
  <2>1. HandleInv(h) /\ owner[h] \in Operations \cup {None} /\ h \in Int
    BY <1>1 DEF IInv, Shape
  <2>2. CASE owner[h] \in S
    <3>1. /\ session'[h].op = None /\ watch'[h].op = None /\ entry'[h].op = None
          /\ owner'[h] = None /\ h \notin finished'
      BY <1>1, <1>2, <1>3, <1>4, <1>7, <2>1, <2>2, EmptyRecords DEF HandleInv, OwnedAt
    <3> QED BY <3>1 DEF HandleInv, UnusedAt, OwnedAt, AgreesAt, WatchAt, KeptAt
  <2>3. CASE owner[h] \notin S
    <3>1. session[h].op \notin S /\ watch[h].op \notin S /\ entry[h].op \notin S
      BY <1>1, <2>1, <2>3 DEF HandleInv, OwnedAt
    <3>2. /\ UNCHANGED <<session[h], entry[h], watch[h], owner[h]>>
          /\ h \in finished' <=> h \in finished
      BY <1>2, <1>3, <1>4, <1>7, <2>3, <3>1
    <3>3. owner[h] # None =>
             /\ InRegistry(owner[h])'
             /\ Live(owner[h])' <=> Live(owner[h])
             /\ incomplete[owner[h]] => incomplete'[owner[h]]
             /\ Capturable(owner[h])' => Capturable(owner[h])
      <4> SUFFICES ASSUME owner[h] # None
                   PROVE  /\ InRegistry(owner[h])'
                          /\ Live(owner[h])' <=> Live(owner[h])
                          /\ incomplete[owner[h]] => incomplete'[owner[h]]
                          /\ Capturable(owner[h])' => Capturable(owner[h])
        OBVIOUS
      <4>1. owner[h] \in Operations \ S /\ InRegistry(owner[h]) /\ owner'[h] = owner[h]
        BY <2>1, <2>3, <3>2 DEF HandleInv, OwnedAt
      <4> QED BY <1>2, <1>3, <1>6, <4>1 DEF InRegistry, Live, Capturable, Reachable
    <3> QED BY <1>1, <2>1, <3>2, <3>3, HandleKept
  <2> QED BY <2>2, <2>3
<1>11. Staged'
  BY <1>1, <1>3, <1>6 DEF IInv, Staged, InRegistry
<1>12. ASSUME NEW q \in Operations \ S
       PROVE  Finished(q)' = Finished(q) /\ BegunFor(q)' = BegunFor(q)
  <2>1. \A h : h \in Finished(q)' <=> h \in Finished(q)
    BY <1>1, <1>7 DEF Finished, Shape
  <2>2. \A h : h \in BegunFor(q)' <=> h \in BegunFor(q)
    BY <1>1, <1>7 DEF BegunFor
  <2> QED BY <2>1, <2>2
<1>13. Accounted'
  <2> SUFFICES ASSUME NEW q \in Operations, Live(q)' PROVE AccountedFor(q)'
    BY DEF Accounted
  <2>1. q \notin S /\ Live(q)
    BY <1>3 DEF Live
  <2>2. AccountedFor(q)
    BY <2>1 DEF IInv, Accounted
  <2> QED BY <1>5, <1>12, <2>1, <2>2 DEF AccountedFor, AllOwned
<1>14. CapturedIsAnswered'
  <2> SUFFICES ASSUME NEW q \in closure'
               PROVE  /\ BegunFor(q)' \subseteq finished'
                      /\ AllOwned(q)'
                      /\ Len(observations'[q]) = Cardinality(Internal) + Cardinality(BegunFor(q)')
    BY DEF CapturedIsAnswered, BegunFor
  <2>1. q \in closure /\ q \in Operations \ S
    BY <1>1, <1>6 DEF Shape
  <2>2. /\ BegunFor(q) \subseteq finished
        /\ AllOwned(q)
        /\ Len(observations[q]) = Cardinality(Internal) + Cardinality(BegunFor(q))
    BY <2>1 DEF IInv, CapturedIsAnswered, BegunFor
  <2>3. BegunFor(q)' \subseteq finished'
    BY <1>7, <1>12, <2>1, <2>2 DEF BegunFor
  <2> QED BY <1>5, <1>12, <2>1, <2>2, <2>3 DEF AllOwned
<1> QED BY <1>8, <1>9, <1>10, <1>11, <1>13, <1>14 DEF IInv

(* OperationEnds keeps IInv. *)
LEMMA OperationEndsStep ==
  ASSUME IInv, NEW o \in Operations, OperationEnds(o)
  PROVE  IInv'
<1>1. Shape /\ Forget({o}) /\ engines' = engines
  BY DEF IInv, OperationEnds
<1>2. \A q \in Operations : engineOf[q] \in engines' \cup {None}
  BY <1>1 DEF Shape
<1> QED BY <1>1, <1>2, ForgetStep

(* EngineClose keeps IInv. *)
LEMMA EngineCloseStep ==
  ASSUME IInv, NEW e \in Engines, EngineClose(e)
  PROVE  IInv'
<1> DEFINE S == {o \in Operations : engineOf[o] = e}
<1>1. Shape /\ Forget(S) /\ engines' = engines \ {e}
  BY DEF IInv, EngineClose
<1>2. S \in SUBSET Operations /\ \A q \in Operations \ S : engineOf[q] \in engines' \cup {None}
  BY <1>1 DEF Shape
<1> HIDE DEF S
<1> QED BY <1>1, <1>2, ForgetStep

-----------------------------------------------------------------------------
(* Every call keeps IInv. *)
LEMMA InductiveStep == IInv /\ [Next]_vars => IInv'
<1> SUFFICES ASSUME IInv, [Next]_vars PROVE IInv'
  OBVIOUS
<1>1. CASE UNCHANGED vars
  BY <1>1, UnchangedStep
<1>2. ASSUME NEW e \in Engines, EngineClose(e) PROVE IInv'
  BY <1>2, EngineCloseStep
<1>3. ASSUME NEW o \in Operations, OperationCall(o) PROVE IInv'
  BY <1>3, OperationBeginStep, OperationInputStep, OperationUnownedStep, OperationCloseWorldStep,
     CoverageUnboundStep,
     OperationEndsStep, ObservationOpenStep, DependencyOpenStep DEF OperationCall
<1>4. ASSUME NEW h \in Sessions, ObservationCall(h) PROVE IInv'
  BY <1>4, ObservationWriteStep, ObservationDispatchStep, ObservationReadStep,
     ObservationFinishStep, ObservationAbandonStep, DependencyFinishStep DEF ObservationCall
<1> QED BY <1>1, <1>2, <1>3, <1>4 DEF Next

(* IInv is an invariant of the specification. *)
LEMMA Invariant == Spec => []IInv
BY InductiveInit, InductiveStep, PTL DEF Spec

(* The tables of the engine, the coordinators' sessions and the sentinel's    *)
(* observations agree whatever calls hosts make in whatever order, on         *)
(* handles that are gone and after calls that failed half way                 *)
(* (observation.rs, semantic_dependency.rs).                                  *)
THEOREM TablesAgreeHolds == Spec => []TablesAgree
<1>1. IInv => TablesAgree
  <2> SUFFICES ASSUME IInv PROVE TablesAgree
    OBVIOUS
  <2>1. TypeOK
    BY DEF IInv, Shape, Limits, TypeOK, SessionRecords, EntryRecords, WatchRecords
  <2>2. \A h \in Sessions : HandleInv(h)
    BY DEF IInv
  <2>3. \A h \in Entries : InRegistry(entry[h].op)
    BY <2>2 DEF Entries, HandleInv, OwnedAt
  <2>4. \A h \in Watched : InRegistry(watch[h].op)
    BY <2>2 DEF Watched, HandleInv, OwnedAt
  <2>5. ASSUME NEW o \in Operations, Reachable(o), NEW h \in Sessions,
               entry[h].op = o \/ session[h].op = o
        PROVE  SameSession(h)
    BY <2>2, <2>5, CoordinatorAssumption DEF HandleInv, AgreesAt, Reachable
  <2>6. ASSUME NEW o \in Operations, Capturable(o), NEW h \in Sessions
        PROVE  /\ watch[h].op = o <=> entry[h].op = o
               /\ watch[h].op = o => watch[h].dispatched = (session[h].state = "capture")
    BY <2>2, <2>6, CoordinatorAssumption DEF HandleInv, WatchAt
  <2> QED BY <2>1, <2>3, <2>4, <2>5, <2>6 DEF TablesAgree
<1> QED BY <1>1, Invariant, PTL

(* A World that close_world bound holds one owned observation for each        *)
(* observation begun for the operation, and each of those was finished with   *)
(* success (lib.rs, observation.rs).                                          *)
THEOREM CapturedIsAnsweredHolds == Spec => []CapturedIsAnswered
<1>1. IInv => CapturedIsAnswered
  BY DEF IInv
<1> QED BY <1>1, Invariant, PTL
=============================================================================
