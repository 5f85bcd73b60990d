------------------------- MODULE EngineObservations -------------------------
(***************************************************************************)
(* The observation table of the native engine (observation.rs), the        *)
(* semantic dependencies on top of it (semantic_dependency.rs) and their   *)
(* calls (dispatch_operation and dispatch_observation_call of lib.rs).     *)
(*                                                                         *)
(* One observation is known in three places: the engine's table by handle, *)
(* the coordinator of its operation as a session of the same number, and   *)
(* the sentinel as an observation that may own kernel effects.  Every call *)
(* holds the registry's mutex, so it is one step, but it goes through the  *)
(* three places one after the other and may fail in each.  Hosts may make  *)
(* the calls in any order, on handles that are gone too.                   *)
(*                                                                         *)
(* The engine starts captures only; the sentinel's own events are the      *)
(* subject of Sentinel, here it may withhold coverage at any time.  What   *)
(* OperationFail does after it took the operation is FailureDelivery's.    *)
(***************************************************************************)
EXTENDS WorldCoordinator

CONSTANTS
  Engines,          \* engine handles
  Semantic,         \* the classes SemanticDependencySession::for_class accepts
  MaxObservations,  \* MAX_OBSERVATION_SESSIONS
  MaxWatched,       \* MAX_ACTIVE_OBSERVATIONS of the sentinel
  MaxHandle         \* bound on observation handles

(* validate_adapter_implementations opens an engine only with an adapter for *)
(* every class.                                                              *)
ASSUME EngineAssumption ==
  /\ Sessions = 1 .. MaxHandle
  /\ Registered = Classes
  /\ Semantic \subseteq Classes
  /\ MaxObservations \in Nat /\ MaxWatched \in Nat /\ MaxHandle \in Nat
  /\ None \notin Engines

VARIABLES
  engines,     \* Registry.engines
  engineOf,    \* the engine of each entry of Registry.operations
  closure,     \* operations with a World bound by OperationCloseWorld
  nextHandle,  \* Registry.next_handle, for observations
  entry,       \* Registry.observations
  active,      \* the sentinel's active_operations
  suspect,     \* those of them that are marked incomplete
  watch,       \* the sentinel's active_observations
  owner,       \* history: the operation an observation was begun for
  finished     \* history: handles whose finish was answered with success

registryVars == <<engines, engineOf, closure>>
tableVars == <<nextHandle, entry>>
sentinelVars == <<active, suspect, watch>>
historyVars == <<owner, finished>>
vars == <<coordinatorVars, registryVars, tableVars, sentinelVars, historyVars>>

(* An entry of the table.  A plain observation has no semantic session; a      *)
(* bound one was opened by DependencyOpen, with its position and action.       *)
Kinds == {"plain", "semantic", "bound"}

Entry(o, kind, request, validated, response) ==
  [op |-> o, kind |-> kind, request |-> request, validated |-> validated,
   response |-> response]

NoEntry == Entry(None, "plain", "empty", FALSE, "empty")

(* SemanticDependencySession::for_class. *)
KindOf(c) == IF c \in Semantic THEN "semantic" ELSE "plain"

Watch(o, dispatched) == [op |-> o, dispatched |-> dispatched]
NoWatch == Watch(None, FALSE)

Init ==
  /\ CoordinatorInit
  /\ engines = Engines
  /\ engineOf = [o \in Operations |-> None]
  /\ closure = {}
  /\ nextHandle = 1
  /\ entry = [h \in Sessions |-> NoEntry]
  /\ active = {}
  /\ suspect = {}
  /\ watch = [h \in Sessions |-> NoWatch]
  /\ owner = [h \in Sessions |-> None]
  /\ finished = {}

InRegistry(o) == engineOf[o] # None

(* with_coordinator succeeds until the World is closed. *)
Reachable(o) == InRegistry(o) /\ Live(o)

Entries == {h \in Sessions : entry[h].op # None}
Watched == {h \in Sessions : watch[h].op # None}

IsSemantic(h) == entry[h].kind # "plain"

-----------------------------------------------------------------------------
(***************************************************************************)
(* The sentinel, as far as the engine's calls change it.                   *)
(***************************************************************************)
(* observation_opened, and observation_dispatched if the call goes on. *)
WatchOpened(h, o, dispatched) ==
  /\ \/ /\ Cardinality(Watched) < MaxWatched
        /\ watch' = [watch EXCEPT ![h] = Watch(o, dispatched)]
        /\ UNCHANGED suspect
     \/ /\ Cardinality(Watched) >= MaxWatched
        /\ suspect' = active
        /\ UNCHANGED watch
  /\ UNCHANGED active

(* The observation opens and its cleanup finishes it in the same call. *)
WatchPassed ==
  /\ suspect' = IF Cardinality(Watched) < MaxWatched THEN suspect ELSE active
  /\ UNCHANGED <<active, watch>>

(* observation_dispatched. *)
WatchDispatched(h) ==
  /\ \/ /\ h \in Watched
        /\ watch' = [watch EXCEPT ![h].dispatched = TRUE]
        /\ UNCHANGED suspect
     \/ /\ h \notin Watched
        /\ suspect' = active
        /\ UNCHANGED watch
  /\ UNCHANGED active

(* observation_finished: an observation the sentinel does not know makes     *)
(* every operation incomplete.                                               *)
WatchFinished(h) ==
  /\ watch' = [watch EXCEPT ![h] = NoWatch]
  /\ suspect' = IF h \in Watched THEN suspect ELSE active
  /\ UNCHANGED active

(* operation_finished, operation_removed. *)
Unwatch(S) ==
  /\ watch' = [h \in Sessions |-> IF watch[h].op \in S THEN NoWatch ELSE watch[h]]
  /\ active' = active \ S
  /\ suspect' = suspect \ S

-----------------------------------------------------------------------------
(***************************************************************************)
(* Operations.                                                             *)
(***************************************************************************)
(* begin_operation.  The sentinel may have no room for the operation, which  *)
(* costs every operation its coverage, or no healthy tracer.                 *)
OperationBegin(o, e) ==
  /\ coordinator[o] = "absent"
  /\ e \in engines
  /\ NewCapture(o)
  /\ engineOf' = [engineOf EXCEPT ![o] = e]
  /\ \/ active' = active \cup {o} /\ suspect' \in {suspect, suspect \cup {o}}
     \/ suspect' = active /\ UNCHANGED active
  /\ UNCHANGED <<engines, closure, tableVars, watch, historyVars>>

(* record_input of the SDK, which deletes the log when it has no room. *)
OperationInput(o) ==
  /\ InRegistry(o)
  /\ \E kept \in BOOLEAN : recording' = [recording EXCEPT ![o] = recording[o] /\ kept]
  /\ UNCHANGED <<mode, coordinator, incomplete, overflowed, covered, nextPosition,
                 observations, consumed, session, registryVars, tableVars,
                 sentinelVars, historyVars>>

(* record_unowned; evidence that does not decode changes nothing. *)
OperationUnowned(o) ==
  /\ Reachable(o)
  /\ UnownedOverflows(o) \/ UnownedUnstored(o) \/ UnownedUnrecorded(o) \/ UnownedOk(o)
  /\ UNCHANGED <<registryVars, tableVars, sentinelVars, historyVars>>

(* close with clean coverage, and binding its World to the SDK's log. *)
WorldCloses(o) == o \in active \ suspect /\ Complete(o) /\ recording[o]

Reset(f, S, value) == [o \in Operations |-> IF o \in S THEN value ELSE f[o]]

(* The coordinators of a set of operations are dropped. *)
DropCoordinators(S, state) ==
  /\ coordinator' = Reset(coordinator, S, state)
  /\ incomplete' = Reset(incomplete, S, FALSE)
  /\ overflowed' = Reset(overflowed, S, FALSE)
  /\ nextPosition' = Reset(nextPosition, S, [c \in Classes |-> 0])
  /\ session' = [h \in Sessions |->
                   IF session[h].op \in S THEN NoSession ELSE session[h]]
  /\ UNCHANGED <<mode, covered, consumed>>

(* The coordinator refuses clean coverage and is incomplete: close_world       *)
(* returns with the World open, and no later call finds its coverage again.    *)
CoverageUnbound(o) ==
  /\ Live(o)
  /\ o \in active \ suspect
  /\ MarkIncomplete(o)
  /\ UNCHANGED <<mode, coordinator, overflowed, covered, nextPosition,
                 observations, recording, consumed, session, closure>>

(* close_world.  Clean coverage is bound and the coordinator leaves; the       *)
(* tracer may be unhealthy, and storing or binding the World may fail.         *)
OperationCloseWorld(o) ==
  /\ InRegistry(o)
  /\ Unwatch({o})
  /\ \/ ~Live(o) /\ UNCHANGED <<coordinatorVars, closure>>
     \/ CoverageUnbound(o)
     \/ /\ Live(o)
        /\ DropCoordinators({o}, "taken")
        /\ UNCHANGED recording
        /\ \/ observations' = Reset(observations, {o}, <<>>) /\ UNCHANGED closure
           \/ WorldCloses(o) /\ closure' = closure \cup {o} /\ UNCHANGED observations
  /\ UNCHANGED <<engines, engineOf, tableVars, historyVars>>

(* Mutant: the observations of an operation stay in the table. *)
MutRemoveObservations(S) == UNCHANGED entry

(* remove_operation_observations. *)
RemoveObservations(S) ==
  entry' = [h \in Sessions |-> IF entry[h].op \in S THEN NoEntry ELSE entry[h]]

(* The operations leave the registry, their observations before them, and    *)
(* their names stand for other operations later.                             *)
Forget(S) ==
  /\ RemoveObservations(S)
  /\ Unwatch(S)
  /\ DropCoordinators(S, "absent")
  /\ observations' = Reset(observations, S, <<>>)
  /\ recording' = Reset(recording, S, FALSE)
  /\ engineOf' = Reset(engineOf, S, None)
  /\ closure' = closure \ S
  /\ owner' = [h \in Sessions |-> IF owner[h] \in S THEN None ELSE owner[h]]
  /\ finished' = {h \in finished : owner[h] \notin S}
  /\ UNCHANGED nextHandle

(* succeed_operation, abandon_operation, and the part of enqueue_failure that *)
(* takes the operation.                                                       *)
OperationEnds(o) == InRegistry(o) /\ Forget({o}) /\ UNCHANGED engines

(* close_engine. *)
EngineClose(e) ==
  /\ e \in engines
  /\ engines' = engines \ {e}
  /\ Forget({o \in Operations : engineOf[o] = e})

-----------------------------------------------------------------------------
(***************************************************************************)
(* Opening an observation.                                                 *)
(***************************************************************************)
Allocate(o) ==
  /\ Cardinality(Entries) < MaxObservations
  /\ nextHandle <= MaxHandle
  /\ nextHandle' = nextHandle + 1
  /\ UNCHANGED registryVars

(* Registry::open_observation fails after it took a handle. *)
NotOpened(o, c) ==
  /\ Allocate(o)
  /\ \/ ~Reachable(o) /\ UNCHANGED coordinatorVars
     \/ Reachable(o) /\ (OpenRefused(o, c) \/ OpenFails(o, c))
  /\ UNCHANGED <<entry, sentinelVars, historyVars>>

(* The table is full: the call fails before anything changes. *)
TableFull == Cardinality(Entries) >= MaxObservations /\ UNCHANGED vars

Begun(h, o) ==
  /\ owner' = [owner EXCEPT ![h] = o]
  /\ UNCHANGED finished

ObservationOpen(o, c) ==
  \/ TableFull
  \/ NotOpened(o, c)
  \/ /\ Allocate(o)
     /\ Reachable(o)
     /\ OpenOk(o, nextHandle, c)
     /\ entry' = [entry EXCEPT ![nextHandle] = Entry(o, KindOf(c), "empty", FALSE, "empty")]
     /\ WatchOpened(nextHandle, o, FALSE)
     /\ Begun(nextHandle, o)

(* open_dependency: opens, writes the request record and dispatches.  When   *)
(* that fails half way the observation is cleaned up.                        *)
DependencyOpen(o, c) ==
  /\ c \in Semantic
  /\ \/ TableFull
     \/ NotOpened(o, c)
     \/ /\ Allocate(o)
        /\ Reachable(o)
        /\ OpenAdmitted(o, c)
        /\ AdvancePosition(o, c)
        /\ Begun(nextHandle, o)
        /\ UNCHANGED <<mode, coordinator, overflowed, covered, observations,
                       recording, consumed>>
        /\ \/ /\ session' = [session EXCEPT ![nextHandle] =
                   Session(o, c, "capture", "record", "empty", nextPosition[o][c])]
              /\ entry' = [entry EXCEPT ![nextHandle] =
                   Entry(o, "bound", "record", TRUE, "empty")]
              /\ WatchOpened(nextHandle, o, TRUE)
              /\ UNCHANGED incomplete
           \/ /\ MarkIncomplete(o)
              /\ WatchPassed
              /\ UNCHANGED <<session, entry>>

-----------------------------------------------------------------------------
(***************************************************************************)
(* Calls on an observation of the table.                                   *)
(***************************************************************************)
(* invalidate_semantic_observation, after a call failed.  The failed call may *)
(* have overflowed the session before; close refuses either way.              *)
Invalidate(h) ==
  /\ entry' = [entry EXCEPT ![h] = NoEntry]
  /\ \/ Reachable(entry[h].op) /\ AbandonSession(h)
     \/ ~Reachable(entry[h].op) /\ UNCHANGED coordinatorVars

SetEntry(h, request, validated, response) ==
  entry' = [entry EXCEPT ![h] =
              Entry(entry[h].op, entry[h].kind, request, validated, response)]

(* SemanticDependencySession::write takes a request until it is validated    *)
(* and a response from then on.                                              *)
SemanticOrder(h, stream) ==
  IsSemantic(h) => entry[h].validated = (stream = "response")

(* write_observation_bytes.  A chunk that does not decode changes nothing.   *)
ObservationWrite(h, stream) ==
  /\ h \in Entries
  /\ \/ /\ Reachable(entry[h].op)
        /\ SemanticOrder(h, stream)
        /\ WriteOk(h, stream)
        /\ IF IsSemantic(h)
             THEN SetEntry(h, session'[h].request, entry[h].validated, session'[h].response)
             ELSE UNCHANGED entry
     \/ Invalidate(h)
  /\ UNCHANGED <<registryVars, nextHandle, sentinelVars, historyVars>>

(* SemanticDependencySession::dispatch. *)
SemanticDispatch(h) ==
  IsSemantic(h) =>
    entry[h].request = "record" /\ ~entry[h].validated /\ entry[h].response = "empty"

(* dispatch_observation; the sentinel hears of it when it succeeds. *)
ObservationDispatch(h) ==
  /\ h \in Entries
  /\ \/ /\ Reachable(entry[h].op)
        /\ SemanticDispatch(h)
        /\ DispatchCapture(h)
        /\ SetEntry(h, entry[h].request, IsSemantic(h), entry[h].response)
        /\ WatchDispatched(h)
     \/ /\ Invalidate(h)
        /\ UNCHANGED sentinelVars
  /\ UNCHANGED <<registryVars, nextHandle, historyVars>>

(* read_observation: a capture has no response to read. *)
ObservationRead(h) ==
  /\ h \in Entries
  /\ ReadFails(h)
  /\ UNCHANGED <<registryVars, tableVars, sentinelVars, historyVars>>

(* The coordinator kept the observation and the handle is gone. *)
Answered(h) ==
  /\ entry' = [entry EXCEPT ![h] = NoEntry]
  /\ finished' = finished \cup {h}
  /\ UNCHANGED owner

(* SemanticDependencySession::finish. *)
SemanticFinish(h, outcome) ==
  IsSemantic(h) => entry[h].validated /\ entry[h].response = outcome

(* The log is lost while the observation is committed. *)
LogLost(h) ==
  /\ LogMayOverflow(entry[h].op)
  /\ Uncommitted(h, TRUE)
  /\ entry' = [entry EXCEPT ![h] = NoEntry]
  /\ UNCHANGED historyVars

(* ObservationFinish: the sentinel hears of it first, of any handle.  A wrong *)
(* outcome or position is one way to fail.                                    *)
ObservationFinish(h) ==
  /\ h < nextHandle
  /\ WatchFinished(h)
  /\ \/ h \notin Entries /\ UNCHANGED <<coordinatorVars, entry, historyVars>>
     \/ /\ h \in Entries
        /\ Reachable(entry[h].op)
        /\ \E outcome \in Outcomes :
             /\ SemanticFinish(h, outcome)
             /\ Finishable(h, outcome, session[h].position)
        /\ (Commit(h) /\ Answered(h)) \/ LogLost(h)
     \/ h \in Entries /\ Invalidate(h) /\ UNCHANGED historyVars
  /\ UNCHANGED <<registryVars, nextHandle>>

(* ObservationAbandon keeps the entry when the coordinator is gone. *)
ObservationAbandon(h) ==
  /\ h < nextHandle
  /\ WatchFinished(h)
  /\ \/ h \in Entries /\ Reachable(entry[h].op) /\ Invalidate(h)
     \/ /\ h \in Entries => ~Reachable(entry[h].op)
        /\ UNCHANGED <<coordinatorVars, entry>>
  /\ UNCHANGED <<registryVars, nextHandle, historyVars>>

(* validate_finish_input, and what the coordinator finds once the response   *)
(* record is written: one written before by ObservationWrite is one too many. *)
DependencyAnswerable(h) ==
  /\ Reachable(entry[h].op)
  /\ entry[h].kind = "bound"
  /\ ResponseComplete(h)
  /\ session[h].request = "record"
  /\ session[h].response = "empty"

(* finish_dependency writes the response record and commits it; when anything *)
(* fails the observation is cleaned up.                                       *)
DependencyFinish(h) ==
  /\ h \in Entries
  /\ WatchFinished(h)
  /\ \/ DependencyAnswerable(h) /\ ((Commit(h) /\ Answered(h)) \/ LogLost(h))
     \/ Invalidate(h) /\ UNCHANGED historyVars
  /\ UNCHANGED <<registryVars, nextHandle>>

-----------------------------------------------------------------------------
ObservationCall(h) ==
  \/ \E stream \in {"request", "response"} : ObservationWrite(h, stream)
  \/ ObservationDispatch(h)
  \/ ObservationRead(h)
  \/ ObservationFinish(h)
  \/ ObservationAbandon(h)
  \/ DependencyFinish(h)

OperationCall(o) ==
  \/ \E e \in Engines : OperationBegin(o, e)
  \/ OperationInput(o)
  \/ OperationUnowned(o)
  \/ OperationCloseWorld(o)
  \/ OperationEnds(o)
  \/ \E c \in Classes : ObservationOpen(o, c) \/ DependencyOpen(o, c)

Next ==
  \/ \E e \in Engines : EngineClose(e)
  \/ \E o \in Operations : OperationCall(o)
  \/ \E h \in Sessions : ObservationCall(h)

Spec == Init /\ [][Next]_vars

-----------------------------------------------------------------------------
TypeOK ==
  /\ coordinator \in [Operations -> {"absent", "live", "taken"}]
  /\ incomplete \in [Operations -> BOOLEAN]
  /\ overflowed \in [Operations -> BOOLEAN]
  /\ recording \in [Operations -> BOOLEAN]
  /\ nextPosition \in [Operations -> [Classes -> Nat]]
  /\ \A o \in Operations :
       /\ Len(observations[o]) <= MaxEvents
       /\ Cardinality(SessionsOf(o)) <= MaxSessions
  /\ \A h \in Sessions :
       /\ session[h] \in [op : Operations \cup {None}, class : Classes,
                         state : SessionStates, request : Requests,
                         response : Responses, position : Nat]
       /\ entry[h] \in [op : Operations \cup {None}, kind : Kinds,
                       request : Requests, validated : BOOLEAN, response : Responses]
       /\ watch[h] \in [op : Operations \cup {None}, dispatched : BOOLEAN]
  /\ engines \subseteq Engines
  /\ engineOf \in [Operations -> engines \cup {None}]
  /\ closure \subseteq Operations
  /\ nextHandle \in 1 .. MaxHandle + 1
  /\ active \subseteq Operations
  /\ suspect \subseteq active
  /\ owner \in [Sessions -> Operations \cup {None}]
  /\ finished \subseteq Sessions
  /\ Cardinality(Entries) <= MaxObservations
  /\ Cardinality(Watched) <= MaxWatched

(* The engine and the coordinator hold the same observation. *)
SameSession(h) ==
  /\ entry[h].op = session[h].op
  /\ session[h].state \in {"request", "capture"}
  /\ IsSemantic(h) => /\ session[h].class \in Semantic
                      /\ entry[h].request = session[h].request
                      /\ entry[h].response = session[h].response
                      /\ entry[h].validated = (session[h].state = "capture")

(* Nothing has cost the operation its capture so far. *)
Capturable(o) == Reachable(o) /\ ~incomplete[o] /\ o \in active \ suspect

(* The engine's table, the coordinators' sessions and the sentinel's          *)
(* observations agree, whatever call failed half way (observation.rs:255,     *)
(* semantic_dependency.rs:427): an entry's operation is registered; while its *)
(* World is open the coordinator has the same observation with the same       *)
(* bytes; and while the operation can still be captured the sentinel watches  *)
(* exactly the open observations, dispatched exactly when the coordinator     *)
(* dispatched them.                                                           *)
TablesAgree ==
  /\ TypeOK
  /\ \A h \in Entries : InRegistry(entry[h].op)
  /\ \A h \in Watched : InRegistry(watch[h].op)
  /\ \A o \in Operations : Reachable(o) =>
       \A h \in Sessions : entry[h].op = o \/ session[h].op = o => SameSession(h)
  /\ \A o \in Operations : Capturable(o) =>
       \A h \in Sessions :
         /\ watch[h].op = o <=> entry[h].op = o
         /\ watch[h].op = o => watch[h].dispatched = (session[h].state = "capture")

(* A World is bound only if every observation ever begun for the operation    *)
(* was finished with success, and it holds one owned observation for each     *)
(* (lib.rs:551, observation.rs:196): none that was given a position and then  *)
(* failed, was abandoned or came too late is forgotten.  A call that begins   *)
(* none leaves nothing to forget: a full table (observation.rs:54), a request *)
(* that does not parse, unowned evidence that could not be stored.            *)
CapturedIsAnswered ==
  \A o \in closure :
    LET begun == {h \in Sessions : owner[h] = o} IN
    /\ begun \subseteq finished
    /\ AllOwned(o)
    /\ Len(observations[o]) = Cardinality(Internal) + Cardinality(begun)
=============================================================================
