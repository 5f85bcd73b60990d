--------------------------- MODULE WorldCoordinator ---------------------------
(***************************************************************************)
(* The automatic World coordinator (automatic_world.rs and its artifacts    *)
(* and semantics files in reproit-sdk-rust): it collects the observations  *)
(* of one operation, each a session with a request and a response spooled  *)
(* to files, and decides at the end whether the evidence is complete.      *)
(* This module holds the coordinators of a set of operations and their     *)
(* calls; a module that drives them supplies the callers.                  *)
(*                                                                         *)
(* Streams are abstracted to what the coordinator tells apart: empty,      *)
(* broken (not one canonical semantic record) or a record; a response      *)
(* record carries its outcome.  File errors, refused byte reservations and *)
(* a refused record in the SDK's event log may happen at every call that   *)
(* meets them.                                                             *)
(***************************************************************************)
EXTENDS Integers, Sequences, FiniteSets

CONSTANTS
  Operations,   \* operation ids
  Sessions,     \* session ids, each used once
  Classes,      \* AutomaticObservationClass::ALL
  Internal,     \* classes capture_ambient observes when the operation begins
  Registered,   \* classes with a registered adapter
  Recorded,     \* the <<class, position>> pairs a replay has responses for
  MaxSessions,  \* MAX_AUTOMATIC_OBSERVATION_SESSIONS_PER_OPERATION
  MaxEvents,    \* MAX_EVENTS
  None          \* no operation

ASSUME CoordinatorAssumption ==
  /\ IsFiniteSet(Classes) /\ Classes # {}
  /\ Internal \subseteq Registered
  /\ Registered \subseteq Classes
  /\ Recorded \subseteq Classes \X Nat
  /\ MaxSessions \in Nat
  /\ MaxEvents \in Nat
  /\ None \notin Operations

VARIABLES
  mode,          \* capture or replay
  coordinator,   \* absent, live, or taken by the call that ends the operation
  incomplete,    \* incomplete_session
  overflowed,    \* overflowed; dropped_observation_count is then not zero
  covered,       \* every registration has its sentinel coverage digest
  nextPosition,  \* next_session_positions
  observations,  \* observations, in commit order
  recording,     \* the SDK still holds the operation's event log
  consumed,      \* the recorded responses a replay has taken
  session        \* sessions

coordinatorVars == <<mode, coordinator, incomplete, overflowed, covered,
                     nextPosition, observations, recording, consumed, session>>

Outcomes == {"response", "error"}
Requests == {"empty", "broken", "record"}
Responses == {"empty", "broken"} \cup Outcomes
SessionStates == {"none", "request", "capture", "replay", "drained", "overflowed"}

Session(o, c, state, request, response, position) ==
  [op |-> o, class |-> c, state |-> state, request |-> request,
   response |-> response, position |-> position]

(* Stands for a class nothing depends on. *)
AnyClass == CHOOSE c \in Classes : TRUE

NoSession == Session(None, AnyClass, "none", "empty", "empty", 0)

Observation(c, position, owned) ==
  [class |-> c, position |-> position, owned |-> owned]

(* Every capture begins with the internal observations at position 0. *)
InternalSequences ==
  {q \in [1 .. Cardinality(Internal) -> Internal] :
     \A i, j \in DOMAIN q : q[i] = q[j] => i = j}

CoordinatorInit ==
  /\ mode = [o \in Operations |-> "capture"]
  /\ coordinator = [o \in Operations |-> "absent"]
  /\ incomplete = [o \in Operations |-> FALSE]
  /\ overflowed = [o \in Operations |-> FALSE]
  /\ covered = [o \in Operations |-> FALSE]
  /\ nextPosition = [o \in Operations |-> [c \in Classes |-> 0]]
  /\ observations = [o \in Operations |-> <<>>]
  /\ recording = [o \in Operations |-> FALSE]
  /\ consumed = [o \in Operations |-> {}]
  /\ session = [s \in Sessions |-> NoSession]

Live(o) == coordinator[o] = "live"

(* AutomaticReplay::first_position: a replay does not repeat the internal    *)
(* observations.                                                             *)
FirstPositions == [c \in Classes |-> IF c \in Internal THEN 1 ELSE 0]

-----------------------------------------------------------------------------
(* A capture starts with its internal observations committed; when one of   *)
(* them fails, so does the start.                                           *)
NewCapture(o) ==
  LET order == CHOOSE q \in InternalSequences : TRUE
  IN  /\ Cardinality(Internal) <= MaxEvents
      /\ coordinator' = [coordinator EXCEPT ![o] = "live"]
      /\ recording' = [recording EXCEPT ![o] = TRUE]
      /\ observations' = [observations EXCEPT ![o] =
           [i \in DOMAIN order |-> Observation(order[i], 0, TRUE)]]
      /\ nextPosition' = [nextPosition EXCEPT ![o] = FirstPositions]
      /\ UNCHANGED <<mode, incomplete, overflowed, covered, consumed, session>>

NewReplay(o) ==
  /\ mode' = [mode EXCEPT ![o] = "replay"]
  /\ coordinator' = [coordinator EXCEPT ![o] = "live"]
  /\ nextPosition' = [nextPosition EXCEPT ![o] = FirstPositions]
  /\ UNCHANGED <<incomplete, overflowed, covered, observations, recording,
                 consumed, session>>

SessionsOf(o) == {s \in Sessions : session[s].op = o}

(* The operation must not close from here on. *)
MarkIncomplete(o) == incomplete' = [incomplete EXCEPT ![o] = TRUE]

(* open_observation. *)
OpenRefused(o, c) ==
  /\ \/ mode[o] = "capture" /\ c \notin Registered
     \/ Cardinality(SessionsOf(o)) >= MaxSessions
  /\ MarkIncomplete(o)
  /\ UNCHANGED <<mode, coordinator, overflowed, covered, nextPosition,
                 observations, recording, consumed, session>>

OpenAdmitted(o, c) ==
  /\ mode[o] = "capture" => c \in Registered
  /\ Cardinality(SessionsOf(o)) < MaxSessions

(* The spool files of the session cannot be created. *)
OpenFails(o, c) ==
  /\ OpenAdmitted(o, c)
  /\ UNCHANGED coordinatorVars

(* Mutant: the position stays free. *)
MutAdvancePosition(o, c) == UNCHANGED nextPosition

AdvancePosition(o, c) ==
  nextPosition' = [nextPosition EXCEPT ![o][c] = nextPosition[o][c] + 1]

OpenOk(o, s, c) ==
  /\ OpenAdmitted(o, c)
  /\ session' = [session EXCEPT ![s] =
                   Session(o, c, "request", "empty", "empty", nextPosition[o][c])]
  /\ AdvancePosition(o, c)
  /\ UNCHANGED <<mode, coordinator, incomplete, overflowed, covered,
                 observations, recording, consumed>>

(* The session goes on with new contents. *)
SetSession(s, state, request, response) ==
  session' = [session EXCEPT ![s] =
                Session(session[s].op, session[s].class, state, request,
                        response, session[s].position)]

(* overflow_session. *)
OverflowSession(s) ==
  /\ SetSession(s, "overflowed", session[s].request, session[s].response)
  /\ MarkIncomplete(session[s].op)
  /\ overflowed' = [overflowed EXCEPT ![session[s].op] = TRUE]
  /\ UNCHANGED <<mode, coordinator, covered, nextPosition, observations,
                 recording, consumed>>

(* write_observation; Writable is its state check. *)
Writable(s, stream) ==
  \/ stream = "request" /\ session[s].state = "request"
  \/ stream = "response" /\ session[s].state = "capture"

WriteOk(s, stream) ==
  /\ Writable(s, stream)
  /\ \/ /\ stream = "request"
        /\ \E request \in Requests \ {"empty"} :
             SetSession(s, session[s].state, request, session[s].response)
     \/ /\ stream = "response"
        /\ \E response \in Responses \ {"empty"} :
             SetSession(s, session[s].state, session[s].request, response)
  /\ UNCHANGED <<mode, coordinator, incomplete, overflowed, covered,
                 nextPosition, observations, recording, consumed>>

(* A chunk or a total over its limit, a refused reservation or the wrong     *)
(* state overflows the session; a failed append breaks the spooled stream.   *)
WriteFails(s, stream) ==
  \/ OverflowSession(s)
  \/ /\ Writable(s, stream)
     /\ \/ stream = "request"
             /\ SetSession(s, session[s].state, "broken", session[s].response)
        \/ stream = "response"
             /\ SetSession(s, session[s].state, session[s].request, "broken")
     /\ MarkIncomplete(session[s].op)
     /\ UNCHANGED <<mode, coordinator, overflowed, covered, nextPosition,
                    observations, recording, consumed>>

(* dispatch_observation.  The request is validated first; a session whose   *)
(* request is no record, or cannot be read, or has no recorded response in  *)
(* a replay, keeps its state.                                               *)
DispatchFails(s) == UNCHANGED coordinatorVars

DispatchMisplaced(s) ==
  /\ session[s].request = "record"
  /\ session[s].state # "request"
  /\ SetSession(s, "overflowed", session[s].request, session[s].response)
  /\ MarkIncomplete(session[s].op)
  /\ UNCHANGED <<mode, coordinator, overflowed, covered, nextPosition,
                 observations, recording, consumed>>

Dispatchable(s) == session[s].request = "record" /\ session[s].state = "request"

DispatchCapture(s) ==
  /\ Dispatchable(s)
  /\ mode[session[s].op] = "capture"
  /\ SetSession(s, "capture", session[s].request, session[s].response)
  /\ UNCHANGED <<mode, coordinator, incomplete, overflowed, covered,
                 nextPosition, observations, recording, consumed>>

(* The pair a session of a replay stands for. *)
Interaction(s) == <<session[s].class, session[s].position>>

(* take_response hands a recorded response out once. *)
CanTake(s) ==
  /\ mode[session[s].op] = "replay"
  /\ Interaction(s) \in Recorded \ consumed[session[s].op]

Take(s) ==
  consumed' = [consumed EXCEPT ![session[s].op] = @ \cup {Interaction(s)}]

DispatchReplay(s) ==
  /\ Dispatchable(s)
  /\ CanTake(s)
  /\ Take(s)
  /\ \E response \in Outcomes :
       SetSession(s, "replay", session[s].request, response)
  /\ UNCHANGED <<mode, coordinator, incomplete, overflowed, covered,
                 nextPosition, observations, recording>>

(* The response was taken, and there is no room or no file for it. *)
DispatchReplayFails(s) ==
  /\ Dispatchable(s)
  /\ CanTake(s)
  /\ Take(s)
  /\ MarkIncomplete(session[s].op) \/ UNCHANGED incomplete
  /\ UNCHANGED <<mode, coordinator, overflowed, covered, nextPosition,
                 observations, recording, session>>

(* read_observation_response: one chunk of the response, perhaps the last. *)
ReadOk(s) ==
  /\ session[s].state \in {"replay", "drained"}
  /\ \E state \in {session[s].state, "drained"} :
       SetSession(s, state, session[s].request, session[s].response)
  /\ UNCHANGED <<mode, coordinator, incomplete, overflowed, covered,
                 nextPosition, observations, recording, consumed>>

(* Any other state, or a file error. *)
ReadFails(s) == UNCHANGED coordinatorVars

(* finish_observation removes the session, whatever becomes of it. *)
RemoveSession(s) == session' = [session EXCEPT ![s] = NoSession]

(* Mutant: the response of a replay need not be read to its end. *)
MutResponseComplete(s) == session[s].state \in {"capture", "replay", "drained"}

ResponseComplete(s) == session[s].state \in {"capture", "drained"}

(* The checks finish_observation makes before it commits. *)
Finishable(s, outcome, position) ==
  /\ ResponseComplete(s)
  /\ position = session[s].position
  /\ session[s].request = "record"
  /\ session[s].response = outcome

FinishReplay(s, outcome, position) ==
  /\ mode[session[s].op] = "replay"
  /\ Finishable(s, outcome, position)
  /\ RemoveSession(s)
  /\ UNCHANGED <<mode, coordinator, incomplete, overflowed, covered,
                 nextPosition, observations, recording, consumed>>

(* commit_session records the observation in the SDK and then keeps it. *)
Committable(o) ==
  /\ mode[o] = "capture"
  /\ Len(observations[o]) < MaxEvents
  /\ recording[o]

Commit(s) ==
  LET o == session[s].op IN
  /\ Committable(o)
  /\ observations' = [observations EXCEPT ![o] =
       Append(observations[o],
              Observation(session[s].class, session[s].position, TRUE))]
  /\ RemoveSession(s)
  /\ UNCHANGED <<mode, coordinator, incomplete, overflowed, covered,
                 nextPosition, recording, consumed>>

FinishCommit(s, outcome, position) ==
  Finishable(s, outcome, position) /\ Commit(s)

(* The observation is lost and the operation incomplete; the SDK may have    *)
(* deleted the operation's log for want of room.                             *)
Uncommitted(s, logLost) ==
  LET o == session[s].op IN
  /\ RemoveSession(s)
  /\ MarkIncomplete(o)
  /\ recording' = [recording EXCEPT ![o] = recording[o] /\ ~logLost]
  /\ UNCHANGED <<mode, coordinator, overflowed, covered, nextPosition,
                 observations, consumed>>

LogMayOverflow(o) == mode[o] = "capture" /\ Len(observations[o]) < MaxEvents

(* A check fails, or the commit: a limit, a file, or the SDK. *)
FinishFails(s, outcome, position) ==
  \/ Uncommitted(s, FALSE)
  \/ /\ Finishable(s, outcome, position)
     /\ LogMayOverflow(session[s].op)
     /\ Uncommitted(s, TRUE)

(* abandon_observation. *)
AbandonSession(s) ==
  /\ RemoveSession(s)
  /\ MarkIncomplete(session[s].op)
  /\ UNCHANGED <<mode, coordinator, overflowed, covered, nextPosition,
                 observations, recording, consumed>>

(* mark_unowned. *)
UnownedReplay(o) ==
  /\ mode[o] = "replay"
  /\ MarkIncomplete(o)
  /\ UNCHANGED <<mode, coordinator, overflowed, covered, nextPosition,
                 observations, recording, consumed, session>>

(* Empty or oversized evidence, too many observations, no room. *)
UnownedOverflows(o) ==
  /\ mode[o] = "capture"
  /\ overflowed' = [overflowed EXCEPT ![o] = TRUE]
  /\ UNCHANGED <<mode, coordinator, incomplete, covered, nextPosition,
                 observations, recording, consumed, session>>

(* The evidence cannot be stored. *)
UnownedUnstored(o) ==
  /\ mode[o] = "capture"
  /\ Len(observations[o]) < MaxEvents
  /\ UNCHANGED coordinatorVars

(* The SDK has no log of the operation, or deletes it for want of room. *)
UnownedUnrecorded(o) ==
  /\ mode[o] = "capture"
  /\ Len(observations[o]) < MaxEvents
  /\ recording' = [recording EXCEPT ![o] = FALSE]
  /\ UNCHANGED <<mode, coordinator, incomplete, overflowed, covered,
                 nextPosition, observations, consumed, session>>

UnownedOk(o) ==
  /\ mode[o] = "capture"
  /\ Len(observations[o]) < MaxEvents
  /\ recording[o]
  /\ observations' = [observations EXCEPT ![o] =
       Append(observations[o], Observation(AnyClass, 0, FALSE))]
  /\ UNCHANGED <<mode, coordinator, incomplete, overflowed, covered,
                 nextPosition, recording, consumed, session>>

(* bind_native_sentinel_coverage: once, and only with every class registered; *)
(* otherwise the operation is incomplete.                                     *)
Bind(o) ==
  LET bindable == Registered = Classes /\ ~covered[o]
  IN  /\ covered' = [covered EXCEPT ![o] = covered[o] \/ bindable]
      /\ incomplete' = [incomplete EXCEPT ![o] = incomplete[o] \/ ~bindable]
      /\ UNCHANGED <<mode, coordinator, overflowed, nextPosition, observations,
                     recording, consumed, session>>

(* invalidate_ambient_context. *)
InvalidateAmbient(S) ==
  incomplete' = [o \in Operations |-> incomplete[o] \/ (o \in S /\ Live(o))]

(* Mutant: close does not look at the sessions that are still open. *)
MutNoOpenSession(o) == TRUE

NoOpenSession(o) == SessionsOf(o) = {}

AllOwned(o) == \A i \in DOMAIN observations[o] : observations[o][i].owned

(* Mutant: close forgets that an observation failed. *)
MutComplete(o) ==
  /\ mode[o] = "capture"
  /\ ~overflowed[o]
  /\ NoOpenSession(o)
  /\ AllOwned(o)
  /\ Registered = Classes

(* close, apart from the sentinel's coverage. *)
Complete(o) ==
  /\ mode[o] = "capture"
  /\ ~overflowed[o]
  /\ ~incomplete[o]
  /\ NoOpenSession(o)
  /\ AllOwned(o)
  /\ Registered = Classes

Closable(o) == Complete(o) /\ covered[o]

(* finish_replay. *)
Replayable(o) ==
  /\ mode[o] = "replay"
  /\ ~incomplete[o]
  /\ ~overflowed[o]
  /\ NoOpenSession(o)
  /\ consumed[o] = Recorded

(* The coordinator leaves with the call that ends the operation; its         *)
(* sessions go with it.                                                      *)
TakeCoordinator(o) ==
  /\ coordinator' = [coordinator EXCEPT ![o] = "taken"]
  /\ session' = [s \in Sessions |-> IF session[s].op = o THEN NoSession ELSE session[s]]
  /\ UNCHANGED <<mode, incomplete, overflowed, covered, nextPosition,
                 observations, recording, consumed>>
=============================================================================
