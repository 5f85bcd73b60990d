------------------------------- MODULE Sentinel -------------------------------
(***************************************************************************)
(* The native sentinel (crates/reproit-sdk-sentinel): a tracer process     *)
(* stops every thread of the application at each system call, classifies   *)
(* the call and writes an event to a pipe; a controller, under one mutex,  *)
(* reads the pipe and decides for each operation whether every             *)
(* kernel-visible effect in it was owned by a dispatched observation.      *)
(*                                                                         *)
(* Threads and the tracer run concurrently with the controller: a          *)
(* controller call is several steps (drain the pipe, check the tracer's    *)
(* health, change the tables), and events arrive between any two of them.  *)
(*                                                                         *)
(* Threads are a fixed set, all traced from the start: that a traced       *)
(* thread makes or ends another one, or executes a program, is an event of *)
(* kind Process like any other; that the tracer cannot follow a new thread *)
(* is TrackingLost.                                                        *)
(***************************************************************************)
EXTENDS Integers, Sequences, FiniteSets

CONSTANTS
  Threads,         \* threads of the application
  Operations,      \* operation handles
  Observations,    \* observation handles
  Classes,         \* observation classes in use
  Kinds,           \* kinds of system call the application makes
  MaxOperations,   \* MAX_ACTIVE_OPERATIONS
  MaxObservations, \* MAX_ACTIVE_OBSERVATIONS
  MaxIgnored,      \* MAX_IGNORED_THREADS
  MaxQueued,       \* MAX_QUEUED_EVENTS
  MaxEvents,       \* MAX_TOTAL_EVENTS
  MaxEngines,      \* bound on engine_count
  Nobody           \* the owner of the free mutex, and the absent operation

AllClasses == {"Clock", "Database", "Environment", "Filesystem",
               "OutboundHttp", "Queue", "Randomness"}
AllKinds == {"Filesystem", "Network", "Clock", "Randomness", "Process"}
Calls == {"start", "finish", "remove", "open", "dispatch", "close"}
Points == {"app", "entry", "emitting", "waiting", "draining", "checking",
           "applying"}

ASSUME SentinelAssumption ==
  /\ Classes \subseteq AllClasses
  /\ Kinds \subseteq AllKinds
  /\ MaxOperations \in Nat
  /\ MaxObservations \in Nat
  /\ MaxIgnored \in Nat
  /\ MaxQueued \in Nat
  /\ MaxEvents \in Nat
  /\ MaxEngines \in Nat
  /\ Nobody \notin Threads \cup Operations

VARIABLES
  engineCount,  \* Controller.engine_count
  installed,    \* Controller.runtime is Some
  alive,        \* the tracer process is alive
  overflowed,   \* SharedState.overflowed
  sequence,     \* SharedState.sequence
  queued,       \* SharedState.queued_events
  ignored,      \* threads with an ignore slot
  pipe,         \* events written and not yet read
  active,       \* keys of Controller.active_operations
  begun,        \* operation handles handed out so far
  startedAt,    \* ActiveOperation.start_sequence
  relevant,     \* ActiveOperation.relevant_events
  owned,        \* ActiveOperation.owned_events
  incomplete,   \* ActiveOperation.incomplete
  observation,  \* Controller.active_observations
  mutex,        \* the thread that holds the controller mutex
  thread,       \* what each thread is doing
  clean,        \* operations whose coverage was CleanKernelTrace
  suspect,      \* history: active operations an unowned effect occurred in
  known,        \* history: those of them whose closing began afterwards
  effects,      \* history: effects each operation's observations owned
  counted       \* history: effects when the closing of the operation began

vars == <<engineCount, installed, alive, overflowed, sequence, queued, ignored,
          pipe, active, begun, startedAt, relevant, owned, incomplete,
          observation, mutex, thread, clean, suspect, known, effects, counted>>

tracerVars == <<alive, overflowed, sequence, queued, pipe>>
operationVars == <<active, begun, startedAt, relevant, owned, incomplete>>
engineVars == <<engineCount, installed>>
historyVars == <<suspect, known, effects, counted>>

Absent == [op |-> Nobody, class |-> "Clock", tid |-> Nobody]

(* A thread runs the application, is stopped by the tracer at a system call *)
(* of some kind, or is inside an engine call about an operation or an       *)
(* observation.                                                             *)
ThreadAt(point, kind, call, op, obs) ==
  [at |-> point, kind |-> kind, call |-> call, op |-> op, obs |-> obs]
InApp == ThreadAt("app", "none", "none", Nobody, Nobody)
Stopped(point, kind) == ThreadAt(point, kind, "none", Nobody, Nobody)
Calling(point, call, op, obs) == ThreadAt(point, "none", call, op, obs)

Init ==
  /\ engineCount = 0
  /\ installed = FALSE
  /\ alive = FALSE
  /\ overflowed = FALSE
  /\ sequence = 0
  /\ queued = 0
  /\ ignored = {}
  /\ pipe = <<>>
  /\ active = {}
  /\ begun = {}
  /\ startedAt = [o \in Operations |-> 0]
  /\ relevant = [o \in Operations |-> 0]
  /\ owned = [o \in Operations |-> 0]
  /\ incomplete = [o \in Operations |-> FALSE]
  /\ observation = [b \in Observations |-> Absent]
  /\ mutex = Nobody
  /\ thread = [t \in Threads |-> InApp]
  /\ clean = {}
  /\ suspect = {}
  /\ known = {}
  /\ effects = [o \in Operations |-> 0]
  /\ counted = [o \in Operations |-> 0]

-----------------------------------------------------------------------------
(***************************************************************************)
(* Ownership of an event.                                                  *)
(***************************************************************************)
IsExactlyOwnedBy(kind, class) ==
  kind = class /\ kind \in {"Filesystem", "Clock", "Randomness"}

(* A semantic dependency owns the effects below it. *)
IsOwnedBy(kind, class) ==
  \/ kind # "Process" /\ class \in {"Database", "OutboundHttp", "Queue"}
  \/ IsExactlyOwnedBy(kind, class)

Open(b) == observation[b].op # Nobody

DispatchedOn(b, tid) == Open(b) /\ observation[b].tid = tid

(* The observations that own an event: exact owners before transitive ones. *)
Owners(tid, kind) ==
  LET here  == {b \in Observations : DispatchedOn(b, tid)}
      exact == {b \in here : IsExactlyOwnedBy(kind, observation[b].class)}
  IN  IF exact # {} THEN exact
      ELSE {b \in here : IsOwnedBy(kind, observation[b].class)}

(* The one operation an event belongs to, or Nobody. *)
OwnerOf(tid, kind) ==
  LET owners == Owners(tid, kind)
  IN  IF Cardinality(owners) = 1
        THEN observation[CHOOSE b \in owners : TRUE].op
        ELSE Nobody

-----------------------------------------------------------------------------
(***************************************************************************)
(* The application and the tracer.                                         *)
(***************************************************************************)
(* The history counter saturates just above what the trace can hold. *)
Bump(n) == IF n > MaxEvents THEN n ELSE n + 1

(* What an effect means for the operations that are active when it occurs:   *)
(* without an observation that could own it, it is unowned in all of them;   *)
(* with a single one, it is that operation's.  With several candidates the   *)
(* code decides when it drains the event, and no claim is made here.         *)
EffectOccurs(tid, kind) ==
  LET able == {b \in Observations :
                 DispatchedOn(b, tid) /\ IsOwnedBy(kind, observation[b].class)}
  IN  /\ suspect' = IF able = {} THEN suspect \cup active ELSE suspect
      /\ effects' = [o \in Operations |->
                       IF o \in active /\ \E b \in able : able = {b} /\ observation[b].op = o
                         THEN Bump(effects[o]) ELSE effects[o]]
      /\ UNCHANGED <<known, counted>>

(* The tracer stops the thread at the entry of a system call it traces. *)
SyscallEntry(t, kind) ==
  /\ thread[t].at = "app"
  /\ installed /\ alive
  /\ t \notin ignored
  /\ thread' = [thread EXCEPT ![t] = Stopped("entry", kind)]
  /\ UNCHANGED <<engineVars, tracerVars, ignored, operationVars, observation,
                 mutex, clean, historyVars>>

(* Without a tracer the effect occurs unseen. *)
SyscallUntraced(t, kind) ==
  /\ thread[t].at = "app"
  /\ ~(installed /\ alive)
  /\ active # {}
  /\ EffectOccurs(t, kind)
  /\ UNCHANGED <<engineVars, tracerVars, ignored, operationVars, observation,
                 mutex, thread, clean>>

QueueFull == queued >= MaxQueued

(* Mutant: an event is dropped silently. *)
MutEmitOverflow == overflowed' = overflowed

EmitOverflow == overflowed' = TRUE

(* emit_event, when the queue is full or an event was already lost. *)
EmitDropped(t) ==
  /\ thread[t].at = "entry"
  /\ alive
  /\ overflowed \/ QueueFull
  /\ \A u \in Threads : thread[u].at # "emitting"
  /\ EmitOverflow
  /\ EffectOccurs(t, thread[t].kind)
  /\ thread' = [thread EXCEPT ![t] = InApp]
  /\ UNCHANGED <<engineVars, alive, sequence, queued, pipe, ignored,
                 operationVars, observation, mutex, clean>>

(* emit_event, when the sequence numbers are used up. *)
EmitExhausted(t) ==
  /\ thread[t].at = "entry"
  /\ alive
  /\ ~overflowed /\ ~QueueFull /\ sequence >= MaxEvents
  /\ \A u \in Threads : thread[u].at # "emitting"
  /\ sequence' = sequence + 1
  /\ EmitOverflow
  /\ EffectOccurs(t, thread[t].kind)
  /\ thread' = [thread EXCEPT ![t] = InApp]
  /\ UNCHANGED <<engineVars, alive, queued, pipe, ignored, operationVars,
                 observation, mutex, clean>>

(* emit_event counts the event before it writes it. *)
EmitReserve(t) ==
  /\ thread[t].at = "entry"
  /\ alive
  /\ ~overflowed /\ ~QueueFull /\ sequence < MaxEvents
  /\ \A u \in Threads : thread[u].at # "emitting"
  /\ queued' = queued + 1
  /\ sequence' = sequence + 1
  /\ thread' = [thread EXCEPT ![t] = Stopped("emitting", thread[t].kind)]
  /\ UNCHANGED <<engineVars, alive, overflowed, pipe, ignored, operationVars,
                 observation, mutex, clean, historyVars>>

(* The event is in the pipe; only then does the thread go on. *)
EmitWrite(t) ==
  /\ thread[t].at = "emitting"
  /\ alive
  /\ pipe' = Append(pipe, [tid |-> t, kind |-> thread[t].kind])
  /\ EffectOccurs(t, thread[t].kind)
  /\ thread' = [thread EXCEPT ![t] = InApp]
  /\ UNCHANGED <<engineVars, alive, overflowed, sequence, queued, ignored,
                 operationVars, observation, mutex, clean>>

(* Mutant: the counter keeps an event that was not written. *)
MutUncount == UNCHANGED queued

Uncount == queued' = queued - 1

(* The pipe refuses the write: the event is lost. *)
EmitWriteFailed(t) ==
  /\ thread[t].at = "emitting"
  /\ alive
  /\ Uncount
  /\ EmitOverflow
  /\ EffectOccurs(t, thread[t].kind)
  /\ thread' = [thread EXCEPT ![t] = InApp]
  /\ UNCHANGED <<engineVars, alive, sequence, pipe, ignored, operationVars,
                 observation, mutex, clean>>

(* tracer_child cannot follow a new thread, its table is full, or the kernel does *)
(* not tell trace_syscall_entry which call a thread makes: from then on nothing   *)
(* is trusted, and EmitDropped lets the threads go on.                            *)
TrackingLost ==
  /\ installed /\ alive
  /\ \A t \in Threads : thread[t].at # "emitting"
  /\ overflowed' = TRUE
  /\ UNCHANGED <<engineVars, alive, sequence, queued, pipe, ignored, operationVars,
                 observation, mutex, thread, clean, historyVars>>

(* The tracer dies; the kernel lets the threads it had stopped go on. *)
TracerDies ==
  /\ alive
  /\ alive' = FALSE
  /\ thread' = [t \in Threads |->
                  IF thread[t].at \in {"entry", "emitting"} THEN InApp
                  ELSE thread[t]]
  /\ suspect' = IF \E t \in Threads : thread[t].at \in {"entry", "emitting"}
                  THEN suspect \cup active ELSE suspect
  /\ UNCHANGED <<engineVars, overflowed, sequence, queued, pipe, ignored,
                 operationVars, observation, mutex, clean, known, effects, counted>>

-----------------------------------------------------------------------------
(***************************************************************************)
(* Engine calls.  engine_call_scope hides the calling thread from the       *)
(* tracer; then the call takes the controller mutex and drains the pipe.    *)
(***************************************************************************)
FreeSlot == Cardinality(ignored) < MaxIgnored

(* engine_call_scope: without a free slot the trace is no longer trusted. *)
EngineCallScope(t) ==
  /\ thread[t].at = "app"
  /\ mutex = Nobody
  /\ engineCount > 0
  /\ ignored' = IF installed /\ FreeSlot THEN ignored \cup {t} ELSE ignored
  /\ overflowed' = (overflowed \/ (installed /\ ~FreeSlot))
  /\ thread' = [thread EXCEPT ![t] = Calling("waiting", "none", Nobody, Nobody)]
  /\ UNCHANGED <<engineVars, alive, sequence, queued, pipe, operationVars,
                 observation, mutex, clean, historyVars>>

(* The engine lets a call through: it names a fresh operation to start, a started *)
(* one to close, remove or observe, an observation that is not dispatched yet, or  *)
(* any observation to finish.  The controller may not know the operation or the    *)
(* observation: it had no room for it.  The engine's own tables also refuse to     *)
(* observe an operation that has ended; no property rests on that.                 *)
Admitted(call, o, b) ==
  \/ call = "start" /\ o \in Operations \ begun /\ b = Nobody
  \/ call \in {"finish", "remove"} /\ o \in begun /\ b = Nobody
  \/ call = "open" /\ o \in begun /\ b \in Observations /\ ~Open(b)
  \/ call = "dispatch" /\ o = Nobody /\ b \in Observations
       /\ observation[b].tid = Nobody
  \/ call = "close" /\ o = Nobody /\ b \in Observations

LockController(t) ==
  /\ thread[t].at = "waiting"
  /\ mutex = Nobody
  /\ mutex' = t
  /\ \E call \in Calls, o \in Operations \cup {Nobody},
        b \in Observations \cup {Nobody} :
       /\ Admitted(call, o, b)
       /\ thread' = [thread EXCEPT ![t] = Calling("draining", call, o, b)]
       /\ known' = IF call = "finish" /\ o \in suspect \cap active
                     THEN known \cup {o} ELSE known
       /\ counted' = IF call = "finish" /\ o \in active
                       THEN [counted EXCEPT ![o] = effects[o]] ELSE counted
  /\ UNCHANGED <<engineVars, tracerVars, ignored, operationVars, observation,
                 clean, suspect, effects>>

(* The thread goes on to the next point of its call. *)
GoTo(t, point) ==
  thread' = [thread EXCEPT ![t] =
               Calling(point, thread[t].call, thread[t].op, thread[t].obs)]

(* Mutant: an event nobody owns is counted but taints no operation. *)
MutApplyUnowned == UNCHANGED incomplete

(* mark_all_incomplete. *)
MarkAllIncomplete ==
  incomplete' = [o \in Operations |-> incomplete[o] \/ o \in active]

ApplyUnowned == MarkAllIncomplete

(* apply_event. *)
ApplyEvent(event) ==
  LET owner == OwnerOf(event.tid, event.kind)
      hit   == IF owner = Nobody THEN active ELSE {owner} \cap active
  IN  /\ relevant' = [o \in Operations |->
                        IF o \in hit THEN relevant[o] + 1 ELSE relevant[o]]
      /\ owned' = [o \in Operations |->
                     IF o \in hit /\ owner # Nobody THEN owned[o] + 1 ELSE owned[o]]
      /\ IF owner = Nobody THEN ApplyUnowned ELSE UNCHANGED incomplete

DrainEvent(t) ==
  /\ mutex = t
  /\ thread[t].at = "draining"
  /\ installed
  /\ pipe # <<>>
  /\ ApplyEvent(Head(pipe))
  /\ pipe' = Tail(pipe)
  /\ queued' = queued - 1
  /\ UNCHANGED <<engineVars, alive, overflowed, sequence, ignored, active,
                 begun, startedAt, observation, mutex, thread, clean, historyVars>>

Healthy == installed /\ alive /\ ~overflowed

(* The pipe is empty, or there is no runtime. *)
DrainEmpty(t) ==
  /\ mutex = t
  /\ thread[t].at = "draining"
  /\ installed => pipe = <<>>
  /\ GoTo(t, "checking")
  /\ UNCHANGED <<engineVars, tracerVars, ignored, operationVars, observation,
                 mutex, clean, historyVars>>

DrainHealth(t) ==
  /\ mutex = t
  /\ thread[t].at = "checking"
  /\ IF Healthy THEN UNCHANGED incomplete ELSE MarkAllIncomplete
  /\ GoTo(t, "applying")
  /\ UNCHANGED <<engineVars, tracerVars, ignored, active, begun, startedAt,
                 relevant, owned, observation, mutex, clean, historyVars>>

(* The call unlocks the controller and leaves the ignored scope. *)
Leave(t) ==
  /\ mutex' = Nobody
  /\ ignored' = ignored \ {t}
  /\ thread' = [thread EXCEPT ![t] = InApp]

Applying(t, call) ==
  /\ mutex = t
  /\ thread[t].at = "applying"
  /\ thread[t].call = call

OperationStarted(t) ==
  LET o == thread[t].op IN
  /\ Applying(t, "start")
  /\ begun' = begun \cup {o}
  /\ IF Cardinality(active) >= MaxOperations
       THEN MarkAllIncomplete /\ UNCHANGED <<active, startedAt, relevant, owned>>
       ELSE /\ active' = active \cup {o}
            /\ startedAt' = [startedAt EXCEPT ![o] = IF installed THEN sequence ELSE 0]
            /\ relevant' = [relevant EXCEPT ![o] = 0]
            /\ owned' = [owned EXCEPT ![o] = 0]
            /\ incomplete' = [incomplete EXCEPT ![o] = ~Healthy]
  /\ Leave(t)
  /\ UNCHANGED <<engineVars, tracerVars, observation, clean, historyVars>>

(* The observations of an operation go with it. *)
WithoutObservationsOf(o) ==
  [b \in Observations |->
     IF observation[b].op = o THEN Absent ELSE observation[b]]

(* coverage_result. *)
CoverageClean(o) ==
  /\ ~incomplete[o]
  /\ Healthy
  /\ owned[o] <= relevant[o]
  /\ startedAt[o] <= sequence

(* The entries of the operations in S leave active_operations.  The counts   *)
(* of the operations in kept live on in their evidence.                      *)
RemoveOperations(S, kept) ==
  LET gone == S \ kept
  IN  /\ active' = active \ S
      /\ startedAt' = [o \in Operations |-> IF o \in gone THEN 0 ELSE startedAt[o]]
      /\ relevant' = [o \in Operations |-> IF o \in gone THEN 0 ELSE relevant[o]]
      /\ owned' = [o \in Operations |-> IF o \in gone THEN 0 ELSE owned[o]]
      /\ incomplete' = [o \in Operations |-> o \notin S /\ incomplete[o]]

OperationFinished(t) ==
  LET o == thread[t].op IN
  /\ Applying(t, "finish")
  /\ clean' = IF o \in active /\ CoverageClean(o) THEN clean \cup {o} ELSE clean
  /\ RemoveOperations({o}, clean')
  /\ observation' = WithoutObservationsOf(o)
  /\ Leave(t)
  /\ UNCHANGED <<engineVars, tracerVars, begun, historyVars>>

OperationRemoved(t) ==
  LET o == thread[t].op IN
  /\ Applying(t, "remove")
  /\ RemoveOperations({o}, clean)
  /\ observation' = WithoutObservationsOf(o)
  /\ Leave(t)
  /\ UNCHANGED <<engineVars, tracerVars, begun, clean, historyVars>>

OpenObservations == {b \in Observations : Open(b)}

ObservationOpened(t) ==
  LET b == thread[t].obs IN
  /\ Applying(t, "open")
  /\ IF Cardinality(OpenObservations) >= MaxObservations
       THEN MarkAllIncomplete /\ UNCHANGED observation
       ELSE /\ \E class \in Classes :
                 observation' = [observation EXCEPT ![b] =
                   [op |-> thread[t].op, class |-> class, tid |-> Nobody]]
            /\ UNCHANGED incomplete
  /\ Leave(t)
  /\ UNCHANGED <<engineVars, tracerVars, active, startedAt, relevant, owned,
                 begun, clean, historyVars>>

(* The dispatching thread owns the observation from here on. *)
ObservationDispatched(t) ==
  LET b == thread[t].obs IN
  /\ Applying(t, "dispatch")
  /\ IF Open(b)
       THEN /\ observation' = [observation EXCEPT ![b] =
                 [op |-> observation[b].op, class |-> observation[b].class,
                  tid |-> t]]
            /\ UNCHANGED incomplete
       ELSE MarkAllIncomplete /\ UNCHANGED observation
  /\ Leave(t)
  /\ UNCHANGED <<engineVars, tracerVars, active, startedAt, relevant, owned,
                 begun, clean, historyVars>>

(* An observation the controller does not know taints every operation. *)
ObservationFinished(t) ==
  LET b == thread[t].obs IN
  /\ Applying(t, "close")
  /\ observation' = [observation EXCEPT ![b] = Absent]
  /\ IF Open(b) THEN UNCHANGED incomplete ELSE MarkAllIncomplete
  /\ Leave(t)
  /\ UNCHANGED <<engineVars, tracerVars, active, startedAt, relevant, owned,
                 begun, clean, historyVars>>

-----------------------------------------------------------------------------
(* engine_opened installs a tracer when there is none; that may fail. *)
EngineOpened ==
  /\ mutex = Nobody
  /\ engineCount < MaxEngines
  /\ engineCount' = engineCount + 1
  /\ \/ UNCHANGED <<installed, alive>>
     \/ ~installed /\ installed' = TRUE /\ alive' = TRUE
  /\ UNCHANGED <<overflowed, sequence, queued, pipe, ignored, operationVars,
                 observation, mutex, thread, clean, historyVars>>

EngineClosed ==
  /\ mutex = Nobody
  /\ engineCount > 1
  /\ engineCount' = engineCount - 1
  /\ UNCHANGED <<installed, tracerVars, ignored, operationVars, observation,
                 mutex, thread, clean, historyVars>>

(* The last engine_closed takes every table, the tracer and the memory it    *)
(* shares with the tracer; the kernel lets the stopped threads go on.        *)
LastEngineClosed ==
  /\ mutex = Nobody
  /\ engineCount = 1
  /\ engineCount' = 0
  /\ RemoveOperations(active, clean)
  /\ observation' = [b \in Observations |-> Absent]
  /\ installed' = FALSE
  /\ alive' = FALSE
  /\ overflowed' = FALSE
  /\ sequence' = 0
  /\ queued' = 0
  /\ pipe' = <<>>
  /\ ignored' = {}
  /\ thread' = [t \in Threads |->
                  IF thread[t].at \in {"entry", "emitting"} THEN InApp ELSE thread[t]]
  /\ UNCHANGED <<begun, mutex, clean, historyVars>>

-----------------------------------------------------------------------------
ThreadStep(t) ==
  \/ \E kind \in Kinds : SyscallEntry(t, kind) \/ SyscallUntraced(t, kind)
  \/ EngineCallScope(t)
  \/ LockController(t)
  \/ DrainEvent(t)
  \/ DrainEmpty(t)
  \/ DrainHealth(t)
  \/ OperationStarted(t)
  \/ OperationFinished(t)
  \/ OperationRemoved(t)
  \/ ObservationOpened(t)
  \/ ObservationDispatched(t)
  \/ ObservationFinished(t)

TracerStep ==
  \/ \E t \in Threads :
       \/ EmitDropped(t) \/ EmitExhausted(t) \/ EmitReserve(t)
       \/ EmitWrite(t) \/ EmitWriteFailed(t)
  \/ TrackingLost
  \/ TracerDies

Next ==
  \/ \E t \in Threads : ThreadStep(t)
  \/ TracerStep
  \/ EngineOpened
  \/ EngineClosed
  \/ LastEngineClosed

Spec == Init /\ [][Next]_vars

-----------------------------------------------------------------------------
(* Every variable stays in its type; the queue counter of the shared memory *)
(* never passes its limit and never goes below the events in the pipe.      *)
TypeOK ==
  /\ engineCount \in 0 .. MaxEngines
  /\ installed \in BOOLEAN
  /\ alive \in BOOLEAN
  /\ overflowed \in BOOLEAN
  /\ sequence \in 0 .. (MaxEvents + 1)
  /\ queued \in 0 .. MaxQueued
  /\ ignored \in SUBSET Threads /\ Cardinality(ignored) <= MaxIgnored
  /\ pipe \in Seq([tid : Threads, kind : Kinds])
  /\ active \in SUBSET Operations
  /\ begun \in SUBSET Operations
  /\ startedAt \in [Operations -> 0 .. (MaxEvents + 1)]
  /\ relevant \in [Operations -> Nat]
  /\ owned \in [Operations -> Nat]
  /\ incomplete \in [Operations -> BOOLEAN]
  /\ observation \in [Observations ->
                        [op : Operations \cup {Nobody}, class : AllClasses,
                         tid : Threads \cup {Nobody}]]
  /\ mutex \in Threads \cup {Nobody}
  /\ thread \in [Threads ->
                   [at : Points, kind : Kinds \cup {"none"},
                    call : Calls \cup {"none"}, op : Operations \cup {Nobody},
                    obs : Observations \cup {Nobody}]]
  /\ clean \in SUBSET Operations
  /\ suspect \in SUBSET Operations
  /\ known \in SUBSET Operations
  /\ effects \in [Operations -> Nat]
  /\ counted \in [Operations -> Nat]

(* An operation in which an effect occurred that no dispatched observation   *)
(* could own, seen or not by the tracer, gets no clean coverage when it is   *)
(* closed afterwards (operation_finished, drain, apply_event, is_healthy).   *)
KnownNeverClean == known \cap clean = {}

(* Clean coverage accounts for every effect that only the operation's own    *)
(* observation could own before it was closed: none was lost on the way or   *)
(* attributed elsewhere, and no other relevant event is counted              *)
(* (apply_event, operation_finished).                                        *)
CleanAccountsForEffects ==
  \A o \in clean : relevant[o] = owned[o] /\ owned[o] >= counted[o]

(* What lies between the pipe and the shared counter: the events written and *)
(* unread, and at most the one the tracer is about to write.                 *)
QueueCounterExact ==
  /\ TypeOK
  /\ installed /\ alive =>
       queued = Len(pipe) + Cardinality({t \in Threads : thread[t].at = "emitting"})

(* No operation gets clean coverage when an unowned effect occurred while it *)
(* was active: the events up to end_sequence are all accounted for.          *)
SuspectNeverClean == suspect \cap clean = {}
=============================================================================
