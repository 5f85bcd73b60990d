-------------------------- MODULE AutomaticContext --------------------------
(***************************************************************************)
(* The ambient operation context of the Rust SDK (automatic_context.rs),   *)
(* the operation that owns the coordinator (automatic_engine.rs) and the   *)
(* replay operation (automatic_replay.rs).                                 *)
(*                                                                         *)
(* Threads poll futures scoped to an operation; the innermost scope of a   *)
(* thread is its current operation.  A session call locks the shared state *)
(* of its operation twice, once to check the context and once to run, and  *)
(* a third time when it failed; the call that ends the operation, other    *)
(* threads and a thread that lost its context may get in between.          *)
(***************************************************************************)
EXTENDS WorldCoordinator

CONSTANTS
  Threads,     \* threads of the application
  MaxAmbient,  \* MAX_EVENTS, as the limit of ambient sessions
  MaxNesting,  \* MAX_AUTOMATIC_OPERATION_NESTING
  MaxFrames    \* bound on nested polls of one thread

ASSUME ContextAssumption ==
  MaxAmbient \in Nat /\ MaxNesting \in Nat /\ MaxFrames \in Nat

VARIABLES
  invalid,     \* AutomaticOperationState.invalid_context
  registered,  \* ids in ACTIVE_AMBIENT_OPERATIONS
  opened,      \* ambient_session_count
  ending,      \* how far the call that ends each operation has come
  outcome,     \* what became of each operation
  frames,      \* the polls each thread is inside, outermost first
  thread,      \* what each thread is doing
  spent,       \* session ids handed out
  handle,      \* the operation of each unfinished AutomaticObservationSession
  delivered,   \* history: recorded responses a replay read and finished
  tainted      \* history: live operations an effect without a context met

contextVars == <<invalid, registered, opened, ending, outcome>>
threadVars == <<frames, thread>>
historyVars == <<delivered, tainted>>
sessionVars == <<spent, handle>>
vars == <<coordinatorVars, contextVars, threadVars, sessionVars, historyVars>>

Calls == {"request", "response", "dispatch", "read", "finish", "abandon"}

(* Between calls, in a call on a session, or invalidating the operations in  *)
(* pending, which are what is left of those in met.                          *)
ThreadAt(point, s, call, met, pending) ==
  [at |-> point, session |-> s, call |-> call, met |-> met, pending |-> pending]
Running == ThreadAt("running", None, "none", {}, {})
Opening(o) == ThreadAt("opening", None, "open", {o}, {})
Refused == ThreadAt("refused", None, "open", {}, {})
Admitted(s, call) == ThreadAt("admitted", s, call, {}, {})
Rejected(s) == ThreadAt("rejected", s, "none", {}, {})
Failing(s) == ThreadAt("failing", s, "none", {}, {})
LostContext(met, pending) == ThreadAt("lost", None, "none", met, pending)

Init ==
  /\ CoordinatorInit
  /\ invalid = [o \in Operations |-> FALSE]
  /\ registered = {}
  /\ opened = [o \in Operations |-> 0]
  /\ ending = [o \in Operations |-> "no"]
  /\ outcome = [o \in Operations |-> "pending"]
  /\ frames = [t \in Threads |-> <<>>]
  /\ thread = [t \in Threads |-> Running]
  /\ spent = {}
  /\ handle = [s \in Sessions |-> None]
  /\ delivered = [o \in Operations |-> {}]
  /\ tainted = {}

-----------------------------------------------------------------------------
(***************************************************************************)
(* The thread's stack of contexts.  A scope that cannot be entered masks   *)
(* the scopes around it until it is left.                                  *)
(***************************************************************************)
Frame(o, masked) == [op |-> o, masked |-> masked]

(* The visible stack: the frames above the innermost mask. *)
Visible(t) ==
  {i \in DOMAIN frames[t] :
     \A j \in DOMAIN frames[t] : j >= i => ~frames[t][j].masked}

Current(t) ==
  IF Visible(t) = {} THEN None ELSE frames[t][Len(frames[t])].op

Active(o) == Live(o) /\ ~invalid[o]

(* Mutant: an operation whose sessions are all finished is left alone. *)
MutInvalidate(S) ==
  /\ invalid' = [o \in Operations |-> invalid[o] \/ (o \in S /\ SessionsOf(o) # {})]
  /\ InvalidateAmbient({o \in S : SessionsOf(o) # {}})
  /\ UNCHANGED <<mode, coordinator, overflowed, covered, nextPosition,
                 observations, recording, consumed, session>>

(* shared.invalidate, for every operation of a set. *)
Invalidate(S) ==
  /\ invalid' = [o \in Operations |-> invalid[o] \/ o \in S]
  /\ InvalidateAmbient(S)
  /\ UNCHANGED <<mode, coordinator, overflowed, covered, nextPosition,
                 observations, recording, consumed, session>>

CanPush(t, o) ==
  /\ Active(o)
  /\ Cardinality(Visible(t)) < MaxNesting
  /\ \A i \in Visible(t) : frames[t][i].op # o

(* AutomaticPollContext::install. *)
PollEnter(t, o) ==
  /\ thread[t].at = "running"
  /\ coordinator[o] # "absent"
  /\ Len(frames[t]) < MaxFrames
  /\ frames' = [frames EXCEPT ![t] = Append(@, Frame(o, ~CanPush(t, o)))]
  /\ \/ CanPush(t, o) /\ UNCHANGED <<coordinatorVars, invalid>>
     \/ ~CanPush(t, o) /\ Invalidate({o})
  /\ UNCHANGED <<registered, opened, ending, outcome, thread, sessionVars, historyVars>>

(* AutomaticPollContext::drop.  Guards are dropped innermost first, so the  *)
(* stack it finds is the one install left.                                  *)
PollExit(t) ==
  /\ thread[t].at = "running"
  /\ frames[t] # <<>>
  /\ frames' = [frames EXCEPT ![t] = SubSeq(@, 1, Len(@) - 1)]
  /\ UNCHANGED <<coordinatorVars, contextVars, thread, sessionVars, historyVars>>

(* current() without a context: every operation registered now is           *)
(* invalidated, one after the other, and then the effect happens.           *)
CurrentLost(t) ==
  /\ thread[t].at = "running"
  /\ Current(t) = None
  /\ registered # {}
  /\ thread' = [thread EXCEPT ![t] = LostContext(registered, registered)]
  /\ UNCHANGED <<coordinatorVars, contextVars, frames, sessionVars, historyVars>>

InvalidateNext(t) ==
  /\ thread[t].at = "lost"
  /\ \E o \in thread[t].pending :
       LET met  == thread[t].met
           rest == thread[t].pending \ {o}
       IN  /\ Invalidate({o})
           /\ thread' = [thread EXCEPT ![t] =
                           IF rest = {} THEN Running ELSE LostContext(met, rest)]
           /\ tainted' = IF rest = {} THEN tainted \cup {p \in met : Live(p)}
                                      ELSE tainted
  /\ UNCHANGED <<registered, opened, ending, outcome, frames, sessionVars,
                 delivered>>

-----------------------------------------------------------------------------
(***************************************************************************)
(* Sessions.                                                               *)
(***************************************************************************)
(* require_current: the context must be the thread's innermost and active;  *)
(* otherwise it and the innermost one are invalidated, one after the other. *)
ContextOk(t, o) == Current(t) = o /\ Active(o)

(* open_observation of a context that is not the thread's. *)
OpenRejected(t, o) ==
  /\ thread[t].at = "running"
  /\ coordinator[o] # "absent"
  /\ ~ContextOk(t, o)
  /\ Invalidate({o})
  /\ thread' = [thread EXCEPT ![t] = Refused]
  /\ UNCHANGED <<registered, opened, ending, outcome, frames, sessionVars, historyVars>>

OpenBegin(t, o) ==
  /\ thread[t].at = "running"
  /\ ContextOk(t, o)
  /\ thread' = [thread EXCEPT ![t] = Opening(o)]
  /\ UNCHANGED <<coordinatorVars, contextVars, frames, sessionVars, historyVars>>

IsOpening(t, o) == thread[t].at = "opening" /\ thread[t].met = {o}

(* open_ambient_observation: the operation ended or was invalidated since. *)
OpenInvalid(t, o) ==
  /\ IsOpening(t, o)
  /\ ~Active(o)
  /\ thread' = [thread EXCEPT ![t] = Running]
  /\ UNCHANGED <<coordinatorVars, contextVars, frames, sessionVars, historyVars>>

OpenAtQuota(t, o) ==
  /\ IsOpening(t, o)
  /\ Active(o)
  /\ opened[o] >= MaxAmbient
  /\ Invalidate({o})
  /\ thread' = [thread EXCEPT ![t] = Running]
  /\ UNCHANGED <<registered, opened, ending, outcome, frames, sessionVars, historyVars>>

Open(t, o) ==
  /\ IsOpening(t, o)
  /\ Active(o)
  /\ opened[o] < MaxAmbient
  /\ opened' = [opened EXCEPT ![o] = @ + 1]
  /\ \E s \in Sessions \ spent, c \in Classes :
       /\ spent' = spent \cup {s}
       /\ \/ /\ OpenOk(o, s, c)
             /\ handle' = [handle EXCEPT ![s] = o]
          \/ (OpenRefused(o, c) \/ OpenFails(o, c)) /\ UNCHANGED handle
  /\ thread' = [thread EXCEPT ![t] = Running]
  /\ UNCHANGED <<invalid, registered, ending, outcome, frames, delivered, tainted>>

(* A session value exists until its call fails or it finishes; one thread    *)
(* uses it at a time.                                                        *)
Held(s) == handle[s] # None /\ \A t \in Threads : thread[t].session # s

CallAdmitted(t, s) ==
  /\ thread[t].at = "running"
  /\ Held(s)
  /\ ContextOk(t, handle[s])
  /\ \E call \in Calls : thread' = [thread EXCEPT ![t] = Admitted(s, call)]
  /\ UNCHANGED <<coordinatorVars, contextVars, frames, sessionVars, historyVars>>

CallRejected(t, s) ==
  /\ thread[t].at = "running"
  /\ Held(s)
  /\ ~ContextOk(t, handle[s])
  /\ Invalidate({handle[s]})
  /\ thread' = [thread EXCEPT ![t] = Rejected(s)]
  /\ UNCHANGED <<registered, opened, ending, outcome, frames, sessionVars, historyVars>>

(* The second lock of require_current; then the call returns its error. *)
InvalidateCurrent(t) ==
  /\ Invalidate({Current(t)} \ {None})
  /\ \/ /\ thread[t].at = "refused"
        /\ thread' = [thread EXCEPT ![t] = Running]
     \/ /\ thread[t].at = "rejected"
        /\ thread' = [thread EXCEPT ![t] = Failing(thread[t].session)]
  /\ UNCHANGED <<registered, opened, ending, outcome, frames, sessionVars, historyVars>>

(* The session is dropped without finish or abandon. *)
SessionDropped(t, s) ==
  /\ thread[t].at = "running"
  /\ Held(s)
  /\ thread' = [thread EXCEPT ![t] = Failing(s)]
  /\ UNCHANGED <<coordinatorVars, contextVars, frames, sessionVars, historyVars>>

Called(t, call) ==
  /\ thread[t].at = "admitted"
  /\ thread[t].call = call
  /\ Active(handle[thread[t].session])

CallReturns(t) ==
  /\ thread' = [thread EXCEPT ![t] = Running]
  /\ UNCHANGED <<contextVars, frames, sessionVars, historyVars>>

CallErrs(t) ==
  /\ thread' = [thread EXCEPT ![t] = Failing(thread[t].session)]
  /\ UNCHANGED <<contextVars, frames, sessionVars, historyVars>>

(* with_coordinator after the operation ended or was invalidated. *)
CallInvalid(t) ==
  /\ thread[t].at = "admitted"
  /\ ~Active(handle[thread[t].session])
  /\ CallErrs(t)
  /\ UNCHANGED coordinatorVars

Write(t) ==
  \E stream \in {"request", "response"} :
    /\ Called(t, stream)
    /\ \/ WriteOk(thread[t].session, stream) /\ CallReturns(t)
       \/ WriteFails(thread[t].session, stream) /\ CallErrs(t)

Dispatch(t) ==
  LET s == thread[t].session IN
  /\ Called(t, "dispatch")
  /\ \/ (DispatchCapture(s) \/ DispatchReplay(s)) /\ CallReturns(t)
     \/ /\ DispatchFails(s) \/ DispatchMisplaced(s) \/ DispatchReplayFails(s)
        /\ CallErrs(t)

Read(t) ==
  /\ Called(t, "read")
  /\ \/ ReadOk(thread[t].session) /\ CallReturns(t)
     \/ ReadFails(thread[t].session) /\ CallErrs(t)

(* The session value is finished: nothing happens when it is dropped. *)
Finished(s) == handle' = [handle EXCEPT ![s] = None]

(* finish passes the position the session was opened with. *)
Finish(t) ==
  LET s == thread[t].session IN
  /\ Called(t, "finish")
  /\ \E result \in Outcomes :
       \/ /\ \/ /\ FinishCommit(s, result, session[s].position)
                /\ UNCHANGED delivered
             \/ /\ FinishReplay(s, result, session[s].position)
                /\ delivered' = [delivered EXCEPT ![handle[s]] =
                     IF session[s].state = "drained" THEN @ \cup {Interaction(s)} ELSE @]
          /\ Finished(s)
          /\ thread' = [thread EXCEPT ![t] = Running]
          /\ UNCHANGED <<contextVars, frames, spent, tainted>>
       \/ FinishFails(s, result, session[s].position) /\ CallErrs(t)

(* abandon_session. *)
Abandon(t) ==
  LET s == thread[t].session IN
  /\ Called(t, "abandon")
  /\ AbandonSession(s)
  /\ invalid' = [invalid EXCEPT ![handle[s]] = TRUE]
  /\ Finished(s)
  /\ thread' = [thread EXCEPT ![t] = Running]
  /\ UNCHANGED <<registered, opened, ending, outcome, frames, spent, historyVars>>

(* fail_session: a session that is gone already is not an error. *)
FailSession(t) ==
  LET s == thread[t].session IN
  /\ thread[t].at = "failing"
  /\ \/ session[s].op # None /\ AbandonSession(s)
     \/ session[s].op = None /\ UNCHANGED coordinatorVars
  /\ invalid' = [invalid EXCEPT ![handle[s]] = TRUE]
  /\ Finished(s)
  /\ thread' = [thread EXCEPT ![t] = Running]
  /\ UNCHANGED <<registered, opened, ending, outcome, frames, spent, historyVars>>

-----------------------------------------------------------------------------
(***************************************************************************)
(* The owner of the operation.                                             *)
(***************************************************************************)
(* AutomaticManagedEngine::start, AutomaticReplayOperation::new. *)
Start(o) ==
  /\ coordinator[o] = "absent"
  /\ NewCapture(o) \/ NewReplay(o)
  /\ registered' = registered \cup {o}
  /\ UNCHANGED <<invalid, opened, ending, outcome, threadVars, sessionVars, historyVars>>

Owner(o) == coordinator[o] # "absent" /\ outcome[o] = "pending"

(* mark_unowned; when it fails its caller gets the error. *)
MarkUnowned(o) ==
  /\ Owner(o) /\ ending[o] = "no" /\ Active(o)
  /\ \/ UnownedReplay(o) \/ UnownedOverflows(o) \/ UnownedUnstored(o)
     \/ UnownedUnrecorded(o) \/ UnownedOk(o)
  /\ UNCHANGED <<contextVars, threadVars, sessionVars, historyVars>>

(* close_world, or finish of a replay, takes the sentinel's verdict; a       *)
(* capture binds clean coverage, a replay only goes on with it.              *)
EndCoverage(o) ==
  /\ Owner(o)
  /\ ending[o] = "no"
  /\ ending' = [ending EXCEPT ![o] = "covered"]
  /\ \/ Active(o) /\ mode[o] = "capture" /\ Bind(o)
     \/ UNCHANGED coordinatorVars
  /\ UNCHANGED <<invalid, registered, opened, outcome, threadVars, sessionVars, historyVars>>

(* take_for_close and deactivate (succeed, abandon_incomplete, drop) both    *)
(* unregister the operation before they lock its state.                      *)
EndUnregister(o) ==
  /\ Owner(o)
  /\ \/ /\ ending[o] = "covered"
        /\ ending' = [ending EXCEPT ![o] = "unregistered"]
     \/ /\ ending[o] \in {"no", "covered"}
        /\ ending' = [ending EXCEPT ![o] = "deactivating"]
  /\ registered' = registered \ {o}
  /\ UNCHANGED <<coordinatorVars, invalid, opened, outcome, threadVars, sessionVars, historyVars>>

(* What close and finish_replay may answer.  A capture also needs a log that *)
(* takes the fence, and may fail to store its transcript or exceed a limit.  *)
Verdicts(o) ==
  IF ~invalid[o] /\ Replayable(o) THEN {"replayed"}
  ELSE IF ~invalid[o] /\ Closable(o) /\ recording[o] THEN {"captured", "local"}
  ELSE {"local"}

EndTake(o) ==
  /\ Owner(o)
  /\ ending[o] = "unregistered"
  /\ ending' = [ending EXCEPT ![o] = "taken"]
  /\ \E verdict \in Verdicts(o) : outcome' = [outcome EXCEPT ![o] = verdict]
  /\ TakeCoordinator(o)
  /\ invalid' = [invalid EXCEPT ![o] = TRUE]
  /\ UNCHANGED <<registered, opened, threadVars, sessionVars, historyVars>>

(* deactivate drops the coordinator whatever it holds. *)
Deactivate(o) ==
  /\ Owner(o)
  /\ ending[o] = "deactivating"
  /\ ending' = [ending EXCEPT ![o] = "taken"]
  /\ outcome' = [outcome EXCEPT ![o] = "local"]
  /\ TakeCoordinator(o)
  /\ invalid' = [invalid EXCEPT ![o] = TRUE]
  /\ UNCHANGED <<registered, opened, threadVars, sessionVars, historyVars>>

-----------------------------------------------------------------------------
ThreadStep(t) ==
  \/ \E o \in Operations : PollEnter(t, o)
  \/ PollExit(t)
  \/ CurrentLost(t)
  \/ InvalidateNext(t)
  \/ \E o \in Operations :
       \/ OpenRejected(t, o)
       \/ OpenBegin(t, o)
       \/ OpenInvalid(t, o)
       \/ OpenAtQuota(t, o)
       \/ Open(t, o)
  \/ \E s \in Sessions : CallAdmitted(t, s) \/ CallRejected(t, s) \/ SessionDropped(t, s)
  \/ InvalidateCurrent(t)
  \/ CallInvalid(t)
  \/ Write(t)
  \/ Dispatch(t)
  \/ Read(t)
  \/ Finish(t)
  \/ Abandon(t)
  \/ FailSession(t)

OwnerStep(o) ==
  \/ Start(o)
  \/ MarkUnowned(o)
  \/ EndCoverage(o)
  \/ EndUnregister(o)
  \/ EndTake(o)
  \/ Deactivate(o)

Next ==
  \/ \E t \in Threads : ThreadStep(t)
  \/ \E o \in Operations : OwnerStep(o)

Spec == Init /\ [][Next]_vars

-----------------------------------------------------------------------------
(* Every variable stays in its type. *)
TypeOK ==
  /\ mode \in [Operations -> {"capture", "replay"}]
  /\ coordinator \in [Operations -> {"absent", "live", "taken"}]
  /\ incomplete \in [Operations -> BOOLEAN]
  /\ overflowed \in [Operations -> BOOLEAN]
  /\ covered \in [Operations -> BOOLEAN]
  /\ nextPosition \in [Operations -> [Classes -> Nat]]
  /\ observations \in [Operations ->
                         Seq([class : Classes, position : Nat, owned : BOOLEAN])]
  /\ recording \in [Operations -> BOOLEAN]
  /\ consumed \in [Operations -> SUBSET Recorded]
  /\ session \in [Sessions ->
       [op : Operations \cup {None}, class : Classes, state : SessionStates,
        request : Requests, response : Responses, position : Nat]]
  /\ invalid \in [Operations -> BOOLEAN]
  /\ registered \in SUBSET Operations
  /\ opened \in [Operations -> 0 .. MaxAmbient]
  /\ ending \in [Operations -> {"no", "covered", "unregistered", "deactivating", "taken"}]
  /\ outcome \in [Operations -> {"pending", "captured", "replayed", "local"}]
  /\ frames \in [Threads -> Seq([op : Operations, masked : BOOLEAN])]
  /\ thread \in [Threads ->
       [at : {"running", "lost", "opening", "refused", "admitted", "rejected",
              "failing"},
        session : Sessions \cup {None}, call : Calls \cup {"none", "open"},
        met : SUBSET Operations, pending : SUBSET Operations]]
  /\ spent \in SUBSET Sessions
  /\ handle \in [Sessions -> Operations \cup {None}]
  /\ delivered \in [Operations -> SUBSET (Classes \X Nat)]
  /\ tainted \in SUBSET Operations

(* The interactions an operation gave a position to, and those it committed. *)
Assigned(o) ==
  UNION {{c} \X (0 .. (nextPosition[o][c] - 1)) : c \in Classes}

Committed(o) ==
  {<<observations[o][i].class, observations[o][i].position>> :
     i \in {j \in DOMAIN observations[o] : observations[o][j].owned}}

(* A captured operation holds one committed observation for every position  *)
(* its sessions were given, and nothing unowned (close): no interleaving of *)
(* calls, failures and drops loses one.  Nor is one captured that was live  *)
(* when a thread without a context met it (current, take_for_close).        *)
CaptureIsComplete ==
  \A o \in Operations : outcome[o] = "captured" =>
    /\ Committed(o) = Assigned(o)
    /\ Len(observations[o]) = Cardinality(Assigned(o))
    /\ o \notin tainted

(* A replay that finishes has handed out every recorded response, and every *)
(* one was read to its end and finished (finish_replay); no thread without  *)
(* a context met it while it was live (current, take_for_close).            *)
ReplayIsComplete ==
  \A o \in Operations : outcome[o] = "replayed" =>
    delivered[o] = Recorded /\ o \notin tainted

(* A session outlives neither its coordinator nor its finish: what is open   *)
(* belongs to a live operation and holds a position given out there, no two  *)
(* sessions the same.                                                        *)
SessionsLinked ==
  /\ TypeOK
  /\ \A s \in Sessions : session[s].op # None =>
       /\ Live(session[s].op)
       /\ handle[s] = session[s].op
       /\ session[s].position < nextPosition[session[s].op][session[s].class]
       /\ \A r \in Sessions \ {s} :
            session[r].op = session[s].op => Interaction(r) # Interaction(s)

(* The mapping to the abstract specification: a position given out is a      *)
(* number, an owned observation is evidence.                                 *)
Evidence == INSTANCE WorldEvidence WITH
  Interactions <- Classes \X (0 .. MaxAmbient),
  started <- {o \in Operations : coordinator[o] # "absent"},
  numbered <- [o \in Operations |-> Assigned(o)],
  evidence <- [o \in Operations |-> Committed(o)],
  verdict <- outcome

(* The coordinator, its contexts and its owners implement WorldEvidence: an  *)
(* interaction is numbered and committed at most once, only while the        *)
(* operation is undecided; one verdict, and captured only with all of them.  *)
ImplementsEvidence == Evidence!Spec
=============================================================================
