----------------------------- MODULE GoOperations -----------------------------
(***************************************************************************)
(* The Go SDK around the shared engine (sdks/go/reproit):                  *)
(* AutomaticProject, AutomaticOperation, the process-wide registry of      *)
(* active operations and the instrumented runtime functions that consult   *)
(* it (time.Now, crypto/rand.Reader, os.Setenv and its relatives).         *)
(*                                                                         *)
(* Goroutines of the application start, fail, end and close; any of them   *)
(* may call an instrumented function.  project.mu and each operation.mu    *)
(* are modelled as locks with an owner, because Fail and Close keep them   *)
(* across calls.  The registry mutex, the bridge mutex and the adapter     *)
(* mutexes are leaf locks: what they protect is one action here.           *)
(***************************************************************************)
EXTENDS Integers, Sequences, FiniteSets

CONSTANTS
  Goroutines,       \* application goroutines
  MaxStarts,        \* bound: operations started in one behaviour
  MaxActive,        \* automaticMaxActiveOperations
  MaxSinks,         \* the engine's MAX_SINKS
  MaxSinkWaiters,   \* sdkEngineMaxSinkWaiters, capacity of project.sinkWaiters
  GoroutineIds,     \* the runtime's stack header has the shape pinned for its ids
  HostQuiesces,     \* the host closes the project only while no Fail is running
  ProviderUsesHooks,\* the token provider calls an instrumented function
  NoGoroutine       \* the owner of a free mutex

ASSUME GoAssumption ==
  /\ MaxStarts \in Nat
  /\ MaxActive \in Nat
  /\ MaxSinks \in Nat
  /\ MaxSinkWaiters \in Nat
  /\ GoroutineIds \in BOOLEAN
  /\ HostQuiesces \in BOOLEAN
  /\ ProviderUsesHooks \in BOOLEAN
  /\ NoGoroutine \notin Goroutines

Operations == 1 .. MaxStarts
None == 0

VARIABLES
  closed,        \* project.closed, and closedSignal closed with it
  engineOpen,    \* the native engine handle is still open
  projectMu,     \* owner of project.mu
  operationMu,   \* owner of each operation.mu
  started,       \* operations begun so far
  registered,    \* automaticActiveOperations.operations
  stack,         \* automaticActiveOperations.byGoroutine
  finished,      \* operation.finished
  worldComplete, \* operation.worldComplete
  unowned,       \* native side: the World of the operation is incomplete
  observing,     \* native side: goroutines with an open observation
  sinks,         \* native side: operations whose sink is registered
  waiter,        \* the pollSink goroutine of each operation
  fate,          \* history: what became of the capture
  affected,      \* history: operations an ambiguous read or write affected
  noticed,       \* history: operations still active when such a call returned
  pc             \* what each goroutine is doing

vars == <<closed, engineOpen, projectMu, operationMu, started, registered,
          stack, finished, worldComplete, unowned, observing, sinks, waiter,
          fate, affected, noticed, pc>>

registryVars == <<registered, stack>>
nativeVars == <<unowned, observing, sinks>>
historyVars == <<affected, noticed>>

Fates == {"absent", "live", "local", "sent"}
WaiterStates == {"none", "polling", "leaving"}
Points == {"out", "failLock", "token", "failNative", "sinkWait", "closing",
           "mutated", "check", "envCheck", "open", "observe", "read", "mark"}

(* A goroutine inside a call: the operation at hand, the operations left to *)
(* visit, the ones found so far, the ones that were active at the start of  *)
(* the call, and the operation whose Fail called the token provider that    *)
(* made this call, or None.                                                 *)
At(point, op, rest, found, window, inFail) ==
  [at |-> point, op |-> op, rest |-> rest, found |-> found,
   window |-> window, inFail |-> inFail]

Out == At("out", None, {}, {}, {}, None)

(* Where an instrumented call returns to. *)
Returned(g) ==
  IF pc[g].inFail = None THEN Out
  ELSE At("token", pc[g].inFail, {}, {}, {}, None)

Init ==
  /\ closed = FALSE
  /\ engineOpen = TRUE
  /\ projectMu = NoGoroutine
  /\ operationMu = [o \in Operations |-> NoGoroutine]
  /\ started = 0
  /\ registered = {}
  /\ stack = [g \in Goroutines |-> <<>>]
  /\ finished = [o \in Operations |-> FALSE]
  /\ worldComplete = [o \in Operations |-> FALSE]
  /\ unowned = [o \in Operations |-> FALSE]
  /\ observing = [o \in Operations |-> {}]
  /\ sinks = {}
  /\ waiter = [o \in Operations |-> "none"]
  /\ fate = [o \in Operations |-> "absent"]
  /\ affected = {}
  /\ noticed = {}
  /\ pc = [g \in Goroutines |-> Out]

-----------------------------------------------------------------------------
Free(o) == operationMu[o] = NoGoroutine

(* operation.isActive(); every caller takes operation.mu for it. *)
IsActive(o) == ~finished[o] /\ ~worldComplete[o]

Begun == {o \in Operations : fate[o] # "absent"}

(* Operations whose World is open, whatever the registry says. *)
OpenWorlds == {o \in Begun : ~finished[o] /\ ~worldComplete[o]}

(* Mutant: the goroutine's stack keeps the finished operation. *)
MutWithoutOperation(s, o) == s

(* unregisterAutomaticOperation takes the operation out of the stack, from   *)
(* wherever it stands topmost.                                               *)
WithoutOperation(s, o) ==
  LET places == {i \in DOMAIN s : s[i] = o}
      top    == CHOOSE i \in places : \A j \in places : j <= i
  IN  IF places = {} THEN s
      ELSE SubSeq(s, 1, top - 1) \o SubSeq(s, top + 1, Len(s))

(* finishLocked: the flags and the registry.  The context binding is cleared *)
(* and the context callback stopped with it.                                 *)
FinishLocked(o) ==
  /\ finished' = [finished EXCEPT ![o] = TRUE]
  /\ registered' = registered \ {o}
  /\ stack' = [g \in Goroutines |-> WithoutOperation(stack[g], o)]

(* The engine forgets an operation: its capture and its observations go. *)
NativeEnd(o, result) ==
  /\ fate' = [fate EXCEPT ![o] = result]
  /\ observing' = [observing EXCEPT ![o] = {}]

(* abandonLocked, for an operation that is not finished. *)
AbandonLocked(o) ==
  /\ FinishLocked(o)
  /\ NativeEnd(o, "local")

-----------------------------------------------------------------------------
(* Mutant: a closed project still starts operations. *)
MutMayStart == projectMu = NoGoroutine

(* startOperation holds project.mu throughout. *)
MayStart == projectMu = NoGoroutine /\ ~closed

NewOperation == started + 1

(* At the registry's limit the fresh native operation is abandoned.  A       *)
(* runtime that does not tell which goroutine runs keeps every stack empty:  *)
(* the operation is registered and no goroutine owns it.                     *)
StartOperation(g) ==
  /\ pc[g].at = "out"
  /\ MayStart
  /\ started < MaxStarts
  /\ started' = started + 1
  /\ LET o == NewOperation
         room == Cardinality(registered) < MaxActive
     IN  /\ registered' = IF room THEN registered \cup {o} ELSE registered
         /\ stack' = [stack EXCEPT ![g] = IF room /\ GoroutineIds THEN Append(@, o) ELSE @]
         /\ finished' = [finished EXCEPT ![o] = ~room]
         /\ fate' = [fate EXCEPT ![o] = IF room THEN "live" ELSE "local"]
  /\ UNCHANGED <<closed, engineOpen, projectMu, operationMu, worldComplete,
                 nativeVars, waiter, historyVars, pc>>

(* Succeed, Close, Cancel (also run by a cancelled context) and a refused   *)
(* RecordInput: each takes operation.mu, ends the native operation and      *)
(* finishes.  An operation that is already finished is left alone.          *)
EndOperation(g, o) ==
  /\ pc[g].at = "out"
  /\ o \in Begun
  /\ Free(o)
  /\ ~finished[o]
  /\ AbandonLocked(o)
  /\ UNCHANGED <<closed, engineOpen, projectMu, operationMu, started,
                 worldComplete, unowned, sinks, waiter, historyVars, pc>>

-----------------------------------------------------------------------------
(***************************************************************************)
(* Fail holds operation.mu from its first line to its last.                *)
(***************************************************************************)
InFail(g) == pc[g].at \in {"failLock", "token", "failNative", "sinkWait"}
             \/ pc[g].inFail # None

FailBegin(g, o) ==
  /\ pc[g].at = "out"
  /\ o \in Begun
  /\ HostQuiesces => projectMu = NoGoroutine
  /\ pc' = [pc EXCEPT ![g] = At("failLock", o, {}, {}, {}, None)]
  /\ UNCHANGED <<closed, engineOpen, projectMu, operationMu, started,
                 registryVars, finished, worldComplete, nativeVars, waiter,
                 fate, historyVars>>

(* Mutant: a finished operation may fail again. *)
MutMayFail(o) == Free(o)

MayFail(o) == Free(o) /\ ~finished[o]

FailFinished(g) ==
  LET o == pc[g].op IN
  /\ pc[g].at = "failLock"
  /\ Free(o)
  /\ finished[o]
  /\ pc' = [pc EXCEPT ![g] = Out]
  /\ UNCHANGED <<closed, engineOpen, projectMu, operationMu, started,
                 registryVars, finished, worldComplete, nativeVars, waiter,
                 fate, historyVars>>

(* The engine closes a World only when nothing in it is unowned or open. *)
WorldCloses(o) == engineOpen /\ ~unowned[o] /\ observing[o] = {}

FailCloseWorld(g) ==
  LET o == pc[g].op IN
  /\ pc[g].at = "failLock"
  /\ MayFail(o)
  /\ WorldCloses(o)
  /\ worldComplete' = [worldComplete EXCEPT ![o] = TRUE]
  /\ operationMu' = [operationMu EXCEPT ![o] = g]
  /\ pc' = [pc EXCEPT ![g] = At("token", o, {}, {}, {}, None)]
  /\ UNCHANGED <<closed, engineOpen, projectMu, started, registryVars,
                 finished, nativeVars, waiter, fate, historyVars>>

(* closeWorldLocked fails: an unhealthy adapter, an incomplete World or any  *)
(* other native error.  The operation is abandoned and Fail returns.         *)
FailIncomplete(g) ==
  LET o == pc[g].op IN
  /\ pc[g].at = "failLock"
  /\ MayFail(o)
  /\ AbandonLocked(o)
  /\ pc' = [pc EXCEPT ![g] = Out]
  /\ UNCHANGED <<closed, engineOpen, projectMu, operationMu, started,
                 worldComplete, unowned, sinks, waiter, historyVars>>

(* tokenProvider() returns a token ... *)
TokenProvided(g) ==
  /\ pc[g].at = "token"
  /\ pc' = [pc EXCEPT ![g] = At("failNative", pc[g].op, {}, {}, {}, None)]
  /\ UNCHANGED <<closed, engineOpen, projectMu, operationMu, started,
                 registryVars, finished, worldComplete, nativeVars, waiter,
                 fate, historyVars>>

(* ... or an error, or no token: the operation is abandoned. *)
TokenRefused(g) ==
  LET o == pc[g].op IN
  /\ pc[g].at = "token"
  /\ AbandonLocked(o)
  /\ operationMu' = [operationMu EXCEPT ![o] = NoGoroutine]
  /\ pc' = [pc EXCEPT ![g] = Out]
  /\ UNCHANGED <<closed, engineOpen, projectMu, started, worldComplete,
                 unowned, sinks, waiter, historyVars>>

FailAccepted(g) ==
  LET o == pc[g].op IN
  /\ pc[g].at = "failNative"
  /\ engineOpen
  /\ Cardinality(sinks) < MaxSinks
  /\ FinishLocked(o)
  /\ NativeEnd(o, "sent")
  /\ sinks' = sinks \cup {o}
  /\ pc' = [pc EXCEPT ![g] = At("sinkWait", o, {}, {}, {}, None)]
  /\ UNCHANGED <<closed, engineOpen, projectMu, operationMu, started,
                 worldComplete, unowned, waiter, historyVars>>

(* Mutant: this return leaves operation.mu locked. *)
MutFailRejected(g) ==
  LET o == pc[g].op IN
  /\ pc[g].at = "failNative"
  /\ AbandonLocked(o)
  /\ pc' = [pc EXCEPT ![g] = Out]
  /\ UNCHANGED <<closed, engineOpen, projectMu, operationMu, started, worldComplete,
                 unowned, sinks, waiter, historyVars>>

(* failOperation returns an error: at the sink limit, or any other. *)
FailRejected(g) ==
  LET o == pc[g].op IN
  /\ pc[g].at = "failNative"
  /\ AbandonLocked(o)
  /\ operationMu' = [operationMu EXCEPT ![o] = NoGoroutine]
  /\ pc' = [pc EXCEPT ![g] = Out]
  /\ UNCHANGED <<closed, engineOpen, projectMu, started, worldComplete,
                 unowned, sinks, waiter, historyVars>>

Waiters == {o \in Operations : waiter[o] # "none"}

(* startSinkWait takes project.mu while Fail still holds operation.mu.  With *)
(* every waiter slot taken no goroutine polls this sink.                     *)
StartSinkWait(g) ==
  LET o == pc[g].op IN
  /\ pc[g].at = "sinkWait"
  /\ projectMu = NoGoroutine
  /\ waiter' = [waiter EXCEPT ![o] =
                  IF ~closed /\ Cardinality(Waiters) < MaxSinkWaiters
                    THEN "polling" ELSE @]
  /\ operationMu' = [operationMu EXCEPT ![o] = NoGoroutine]
  /\ pc' = [pc EXCEPT ![g] = Out]
  /\ UNCHANGED <<closed, engineOpen, projectMu, started, registryVars,
                 finished, worldComplete, nativeVars, fate, historyVars>>

(***************************************************************************)
(* pollSink.  Asking the engine for an idle sink frees the engine's slot;   *)
(* the waiter slot is freed by the deferred receive, a step later.          *)
(***************************************************************************)
PollIdle(o) ==
  /\ waiter[o] = "polling"
  /\ sinks' = sinks \ {o}
  /\ waiter' = [waiter EXCEPT ![o] = "leaving"]
  /\ UNCHANGED <<closed, engineOpen, projectMu, operationMu, started,
                 registryVars, finished, worldComplete, unowned, observing,
                 fate, historyVars, pc>>

(* The deadline passed, or the project is closed. *)
PollStop(o) ==
  /\ waiter[o] = "polling"
  /\ waiter' = [waiter EXCEPT ![o] = "leaving"]
  /\ UNCHANGED <<closed, engineOpen, projectMu, operationMu, started,
                 registryVars, finished, worldComplete, nativeVars, fate,
                 historyVars, pc>>

PollLeave(o) ==
  /\ waiter[o] = "leaving"
  /\ waiter' = [waiter EXCEPT ![o] = "none"]
  /\ UNCHANGED <<closed, engineOpen, projectMu, operationMu, started,
                 registryVars, finished, worldComplete, nativeVars, fate,
                 historyVars, pc>>

-----------------------------------------------------------------------------
(***************************************************************************)
(* project.Close takes project.mu, then the mutex of each active operation. *)
(***************************************************************************)
CloseBegin(g) ==
  /\ pc[g].at = "out"
  /\ projectMu = NoGoroutine
  /\ ~closed
  /\ HostQuiesces => \A h \in Goroutines : ~InFail(h)
  /\ closed' = TRUE
  /\ projectMu' = g
  /\ registered' = {}
  /\ pc' = [pc EXCEPT ![g] = At("closing", None, registered, {}, {}, None)]
  /\ UNCHANGED <<engineOpen, operationMu, started, stack, finished,
                 worldComplete, nativeVars, waiter, fate, historyVars>>

(* Close finishes an operation without asking the engine: closeEngine ends   *)
(* the native side of all of them.                                           *)
CloseOperation(g, o) ==
  /\ pc[g].at = "closing"
  /\ o \in pc[g].rest
  /\ Free(o)
  /\ FinishLocked(o)
  /\ pc' = [pc EXCEPT ![g] = At("closing", None, pc[g].rest \ {o}, {}, {}, None)]
  /\ UNCHANGED <<closed, engineOpen, projectMu, operationMu, started,
                 worldComplete, nativeVars, waiter, fate, historyVars>>

(* Mutant: project.mu is taken once more to release the adapters. *)
MutCloseEngine(g) ==
  /\ pc[g].at = "closing"
  /\ pc[g].rest = {}
  /\ projectMu = NoGoroutine
  /\ engineOpen' = FALSE
  /\ fate' = [o \in Operations |-> IF fate[o] = "live" THEN "local" ELSE fate[o]]
  /\ observing' = [o \in Operations |-> {}]
  /\ sinks' = {}
  /\ projectMu' = NoGoroutine
  /\ pc' = [pc EXCEPT ![g] = Out]
  /\ UNCHANGED <<closed, operationMu, started, registryVars, finished,
                 worldComplete, unowned, waiter, historyVars>>

CloseEngine(g) ==
  /\ pc[g].at = "closing"
  /\ pc[g].rest = {}
  /\ engineOpen' = FALSE
  /\ fate' = [o \in Operations |-> IF fate[o] = "live" THEN "local" ELSE fate[o]]
  /\ observing' = [o \in Operations |-> {}]
  /\ sinks' = {}
  /\ projectMu' = NoGoroutine
  /\ pc' = [pc EXCEPT ![g] = Out]
  /\ UNCHANGED <<closed, operationMu, started, registryVars, finished,
                 worldComplete, unowned, waiter, historyVars>>

-----------------------------------------------------------------------------
(***************************************************************************)
(* Instrumented functions.                                                 *)
(***************************************************************************)
MayCallHook(g) ==
  \/ pc[g].at = "out"
  \/ ProviderUsesHooks /\ pc[g].at = "token"

(* Mutant: only the caller's own operations are considered. *)
MutCandidates(g) == {o \in registered : \E i \in DOMAIN stack[g] : stack[g][i] = o}

(* snapshotAutomaticOperations, first half: copy the registry. *)
Candidates(g) == registered

(* instrumentedTimeNow and automaticRandomReader.Read. *)
ReadBegin(g) ==
  /\ MayCallHook(g)
  /\ pc' = [pc EXCEPT ![g] =
              At("check", None, Candidates(g), {}, OpenWorlds, pc[g].op)]
  /\ UNCHANGED <<closed, engineOpen, projectMu, operationMu, started,
                 registryVars, finished, worldComplete, nativeVars, waiter,
                 fate, historyVars>>

(* instrumentedSetenv and its relatives change the environment first. *)
EnvironmentMutate(g) ==
  /\ MayCallHook(g)
  /\ affected' = affected \cup OpenWorlds
  /\ pc' = [pc EXCEPT ![g] = At("mutated", None, {}, {}, OpenWorlds, pc[g].op)]
  /\ UNCHANGED <<closed, engineOpen, projectMu, operationMu, started,
                 registryVars, finished, worldComplete, nativeVars, waiter,
                 fate, noticed>>

(* markAutomaticEnvironmentMutation: the snapshot comes after the change. *)
EnvironmentSnapshot(g) ==
  /\ pc[g].at = "mutated"
  /\ pc' = [pc EXCEPT ![g] =
              At("envCheck", None, Candidates(g), {}, pc[g].window, pc[g].inFail)]
  /\ UNCHANGED <<closed, engineOpen, projectMu, operationMu, started,
                 registryVars, finished, worldComplete, nativeVars, waiter,
                 fate, historyVars>>

(* snapshotAutomaticOperations, second half: isActive of one candidate. *)
CheckActive(g, o) ==
  /\ pc[g].at \in {"check", "envCheck"}
  /\ o \in pc[g].rest
  /\ Free(o)
  /\ pc' = [pc EXCEPT ![g] =
              At(pc[g].at, None, pc[g].rest \ {o},
                 IF IsActive(o) THEN pc[g].found \cup {o} ELSE pc[g].found,
                 pc[g].window, pc[g].inFail)]
  /\ UNCHANGED <<closed, engineOpen, projectMu, operationMu, started,
                 registryVars, finished, worldComplete, nativeVars, waiter,
                 fate, historyVars>>

(* The environment changed already: the active operations are marked. *)
EnvironmentChecked(g) ==
  /\ pc[g].at = "envCheck"
  /\ pc[g].rest = {}
  /\ pc' = [pc EXCEPT ![g] =
              At("mark", None, pc[g].found, {}, pc[g].window, pc[g].inFail)]
  /\ UNCHANGED <<closed, engineOpen, projectMu, operationMu, started,
                 registryVars, finished, worldComplete, nativeVars, waiter,
                 fate, historyVars>>

(* The operation on top of the goroutine's stack, or None. *)
Top(g) == IF stack[g] = <<>> THEN None ELSE stack[g][Len(stack[g])]

(* No operation is active, the goroutine has none of its own, its own is no *)
(* longer active, or the read is over the adapter's limit: the value is read *)
(* without an owner.                                                         *)
ReadWithoutOwner(g) ==
  /\ pc[g].at = "check"
  /\ pc[g].rest = {}
  /\ \/ pc[g].found = {}
     \/ Top(g) = None
     \/ Top(g) # None /\ Free(Top(g))
  /\ pc' = [pc EXCEPT ![g] =
              At("read", None, {}, pc[g].found, pc[g].window, pc[g].inFail)]
  /\ UNCHANGED <<closed, engineOpen, projectMu, operationMu, started,
                 registryVars, finished, worldComplete, nativeVars, waiter,
                 fate, historyVars>>

(* currentAutomaticOperation returned an active operation. *)
ReadWithOwner(g) ==
  /\ pc[g].at = "check"
  /\ pc[g].rest = {}
  /\ pc[g].found # {}
  /\ Top(g) # None
  /\ Free(Top(g))
  /\ IsActive(Top(g))
  /\ pc' = [pc EXCEPT ![g] = At("open", Top(g), {}, {}, {}, pc[g].inFail)]
  /\ UNCHANGED <<closed, engineOpen, projectMu, operationMu, started,
                 registryVars, finished, worldComplete, nativeVars, waiter,
                 fate, historyVars>>

(* openObservationSession, writeRequest and dispatch succeed. *)
ObservationOpen(g) ==
  LET o == pc[g].op IN
  /\ pc[g].at = "open"
  /\ Free(o)
  /\ IsActive(o)
  /\ engineOpen
  /\ observing' = [observing EXCEPT ![o] = @ \cup {g}]
  /\ pc' = [pc EXCEPT ![g] = At("observe", o, {}, {}, {}, pc[g].inFail)]
  /\ UNCHANGED <<closed, engineOpen, projectMu, operationMu, started,
                 registryVars, finished, worldComplete, unowned, sinks, waiter,
                 fate, historyVars>>

(* Opening fails in the engine: the operation is abandoned, the value read. *)
ObservationRefused(g) ==
  LET o == pc[g].op IN
  /\ pc[g].at = "open"
  /\ Free(o)
  /\ IsActive(o)
  /\ AbandonLocked(o)
  /\ pc' = [pc EXCEPT ![g] = At("read", None, {}, {o}, {o}, pc[g].inFail)]
  /\ UNCHANGED <<closed, engineOpen, projectMu, operationMu, started,
                 worldComplete, unowned, sinks, waiter, historyVars>>

(* Another goroutine ended the operation since currentAutomaticOperation. *)
ObservationLate(g) ==
  LET o == pc[g].op IN
  /\ pc[g].at = "open"
  /\ Free(o)
  /\ ~IsActive(o)
  /\ pc' = [pc EXCEPT ![g] = At("read", None, {}, {o}, {}, pc[g].inFail)]
  /\ UNCHANGED <<closed, engineOpen, projectMu, operationMu, started,
                 registryVars, finished, worldComplete, nativeVars, waiter,
                 fate, historyVars>>

(* The live value was recorded and the observation finished. *)
ObservationFinish(g) ==
  LET o == pc[g].op IN
  /\ pc[g].at = "observe"
  /\ g \in observing[o]
  /\ observing' = [observing EXCEPT ![o] = @ \ {g}]
  /\ pc' = [pc EXCEPT ![g] = Returned(g)]
  /\ UNCHANGED <<closed, engineOpen, projectMu, operationMu, started,
                 registryVars, finished, worldComplete, unowned, sinks, waiter,
                 fate, historyVars>>

(* Writing or finishing failed: session.abandon leaves the World incomplete *)
(* on the native side, and the operation is marked as well.                 *)
ObservationAbandon(g) ==
  LET o == pc[g].op IN
  /\ pc[g].at = "observe"
  /\ observing' = [observing EXCEPT ![o] = @ \ {g}]
  /\ unowned' = [unowned EXCEPT ![o] = @ \/ g \in observing[o]]
  /\ pc' = [pc EXCEPT ![g] = At("mark", None, {o}, {}, {}, pc[g].inFail)]
  /\ UNCHANGED <<closed, engineOpen, projectMu, operationMu, started,
                 registryVars, finished, worldComplete, sinks, waiter, fate,
                 historyVars>>

(* originalNow() or base.Read(): the value reaches the application. *)
ReadValue(g) ==
  /\ pc[g].at = "read"
  /\ affected' = affected \cup (pc[g].found \cap OpenWorlds)
  /\ pc' = [pc EXCEPT ![g] =
              At("mark", None, pc[g].found, {}, pc[g].window, pc[g].inFail)]
  /\ UNCHANGED <<closed, engineOpen, projectMu, operationMu, started,
                 registryVars, finished, worldComplete, nativeVars, waiter,
                 fate, noticed>>

(* markUnowned of one operation; what it returns is ignored by the hooks. *)
MarkUnowned(g, o) ==
  /\ pc[g].at = "mark"
  /\ o \in pc[g].rest
  /\ Free(o)
  /\ unowned' = [unowned EXCEPT ![o] = @ \/ IsActive(o)]
  /\ pc' = [pc EXCEPT ![g] =
              At("mark", None, pc[g].rest \ {o}, {}, pc[g].window, pc[g].inFail)]
  /\ UNCHANGED <<closed, engineOpen, projectMu, operationMu, started,
                 registryVars, finished, worldComplete, observing, sinks,
                 waiter, fate, historyVars>>

(* The engine refuses the mark: the operation is abandoned. *)
MarkRefused(g, o) ==
  /\ pc[g].at = "mark"
  /\ o \in pc[g].rest
  /\ Free(o)
  /\ IsActive(o)
  /\ AbandonLocked(o)
  /\ pc' = [pc EXCEPT ![g] =
              At("mark", None, pc[g].rest \ {o}, {}, pc[g].window, pc[g].inFail)]
  /\ UNCHANGED <<closed, engineOpen, projectMu, operationMu, started,
                 worldComplete, unowned, sinks, waiter, historyVars>>

HookReturn(g) ==
  /\ pc[g].at = "mark"
  /\ pc[g].rest = {}
  /\ noticed' = noticed \cup (pc[g].window \cap OpenWorlds)
  /\ pc' = [pc EXCEPT ![g] = Returned(g)]
  /\ UNCHANGED <<closed, engineOpen, projectMu, operationMu, started,
                 registryVars, finished, worldComplete, nativeVars, waiter,
                 fate, affected>>

-----------------------------------------------------------------------------
FailStep(g) ==
  \/ FailFinished(g)
  \/ FailCloseWorld(g)
  \/ FailIncomplete(g)
  \/ TokenProvided(g)
  \/ TokenRefused(g)
  \/ FailAccepted(g)
  \/ FailRejected(g)
  \/ StartSinkWait(g)

CloseStep(g) ==
  \/ \E o \in Operations : CloseOperation(g, o)
  \/ CloseEngine(g)

HookStep(g) ==
  \/ EnvironmentSnapshot(g)
  \/ \E o \in Operations : CheckActive(g, o)
  \/ EnvironmentChecked(g)
  \/ ReadWithoutOwner(g)
  \/ ReadWithOwner(g)
  \/ ObservationOpen(g)
  \/ ObservationRefused(g)
  \/ ObservationLate(g)
  \/ ObservationFinish(g)
  \/ ObservationAbandon(g)
  \/ ReadValue(g)
  \/ \E o \in Operations : MarkUnowned(g, o) \/ MarkRefused(g, o)
  \/ HookReturn(g)

PollStep(o) == PollIdle(o) \/ PollStop(o) \/ PollLeave(o)

(* A call the host decides to make. *)
CallStep(g) ==
  \/ StartOperation(g)
  \/ \E o \in Operations : EndOperation(g, o) \/ FailBegin(g, o)
  \/ CloseBegin(g)
  \/ ReadBegin(g)
  \/ EnvironmentMutate(g)

Next ==
  \/ \E g \in Goroutines : CallStep(g) \/ FailStep(g) \/ CloseStep(g) \/ HookStep(g)
  \/ \E o \in Operations : PollStep(o)

(* The Go scheduler runs every runnable goroutine, and a token provider that *)
(* is not blocked returns.  No call is assumed to be made, and a poller need *)
(* not get anywhere: no call waits for one.                                  *)
Fairness ==
  \A g \in Goroutines :
    WF_vars(FailStep(g)) /\ WF_vars(CloseStep(g)) /\ WF_vars(HookStep(g))

Spec == Init /\ [][Next]_vars /\ Fairness

-----------------------------------------------------------------------------
(* Every variable stays in its type. *)
TypeOK ==
  /\ closed \in BOOLEAN
  /\ engineOpen \in BOOLEAN
  /\ projectMu \in Goroutines \cup {NoGoroutine}
  /\ operationMu \in [Operations -> Goroutines \cup {NoGoroutine}]
  /\ started \in 0 .. MaxStarts
  /\ registered \in SUBSET Operations
  /\ stack \in [Goroutines -> Seq(Operations)]
  /\ finished \in [Operations -> BOOLEAN]
  /\ worldComplete \in [Operations -> BOOLEAN]
  /\ unowned \in [Operations -> BOOLEAN]
  /\ observing \in [Operations -> SUBSET Goroutines]
  /\ sinks \in SUBSET Operations
  /\ waiter \in [Operations -> WaiterStates]
  /\ fate \in [Operations -> Fates]
  /\ affected \in SUBSET Operations
  /\ noticed \in SUBSET Operations
  /\ pc \in [Goroutines ->
               [at : Points, op : Operations \cup {None},
                rest : SUBSET Operations, found : SUBSET Operations,
                window : SUBSET Operations, inFail : Operations \cup {None}]]

(* When an unattributed read or an environment change returns, each         *)
(* operation that was active before it and is active after it has been      *)
(* marked: whatever happens later, none of them is sent.                    *)
NoticedStaysLocal == \A o \in noticed : fate[o] # "sent"

(* Once Close has closed the engine, every operation is finished, none is   *)
(* registered or on a goroutine's stack, and no capture is left alive.      *)
ClosedMeansFinished ==
  ~engineOpen =>
    /\ registered = {}
    /\ \A o \in Begun : finished[o] /\ fate[o] \in {"local", "sent"}
    /\ \A g \in Goroutines : stack[g] = <<>>

(* The goroutine stacks hold exactly the unfinished operations, or none at   *)
(* all where goroutines have no ids; the registry holds every unfinished     *)
(* operation, except for the ones a running Close has taken.                 *)
RegistryExact ==
  LET taken == UNION {pc[g].rest : g \in {h \in Goroutines : pc[h].at = "closing"}}
  IN  /\ TypeOK
      /\ \A o \in Begun :
           /\ o \in registered => ~finished[o]
           /\ ~finished[o] => o \in registered \cup taken
           /\ GoroutineIds /\ ~finished[o] <=>
                \E g \in Goroutines : \E i \in DOMAIN stack[g] : stack[g][i] = o

(* Succeed, Fail, Cancel and Close of one operation, from several           *)
(* goroutines in any order, decide its fate once.                           *)
FateDecidedOnce ==
  [][\A o \in Operations : fate[o] \in {"local", "sent"} => fate'[o] = fate[o]]_vars

(* An operation that an ambiguous read or an environment change affected    *)
(* while its World was open is never sent.                                  *)
AmbiguousStaysLocal == \A o \in affected : fate[o] # "sent"

(* A call to project.Close returns. *)
CloseReturns ==
  \A g \in Goroutines : (pc[g].at = "closing") ~> (pc[g].at = "out")

(* A call to operation.Fail returns, and an instrumented function returns   *)
(* to the application, whatever the SDK is doing for other operations.      *)
HostCallsReturn ==
  \A g \in Goroutines :
    /\ InFail(g) ~> ~InFail(g)
    /\ (pc[g].at # "closing" /\ ~InFail(g)) ~> (pc[g].at \in {"out", "token"})
=============================================================================
