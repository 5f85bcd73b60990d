--------------------------- MODULE FailureDelivery ---------------------------
(***************************************************************************)
(* The failure path of the shared native engine                            *)
(* (crates/reproit-sdk-engine: src/lib.rs and src/failure_delivery.rs).    *)
(*                                                                         *)
(* Host threads call the engine through one C ABI.  Every call runs under  *)
(* the registry mutex except OperationFail and SinkWait, which take the    *)
(* mutex, release it and go on.  OperationFail moves an operation out of   *)
(* the registry into a FailureTask, registers a sink for it, unlocks, and  *)
(* offers the task to a bounded channel that one worker thread serves.     *)
(* The worker finalizes the operation and hands the candidate to a managed *)
(* sink.  EngineClose cancels the tasks of its engine at any moment.       *)
(*                                                                         *)
(* One action is one critical section.  Handles are the u64 handles of     *)
(* allocate_handle; a task is named by the handle of the sink it was       *)
(* registered under.                                                       *)
(***************************************************************************)
EXTENDS Integers, Sequences, FiniteSets

CONSTANTS
  Callers,        \* host threads that may be inside OperationFail or SinkWait
  MaxHandle,      \* stands for u64::MAX in allocate_handle
  MaxEngines,     \* MAX_ENGINES
  MaxOperations,  \* MAX_OPERATIONS
  MaxSinks,       \* MAX_SINKS
  MaxFailureTasks \* MAX_FAILURE_TASKS, the capacity of the channel

ASSUME BoundsAssumption ==
  /\ MaxHandle \in Nat \ {0}
  /\ MaxEngines \in Nat
  /\ MaxOperations \in Nat
  /\ MaxSinks \in Nat
  /\ MaxFailureTasks \in Nat \ {0}

None == 0
Handles == 1 .. (MaxHandle - 1)
MaybeHandle == Handles \cup {None}

(* The states of FailureTaskState; "Absent" is a task not yet created. *)
TaskStates == {"Absent", "Pending", "Running", "Ready", "Failed", "Cancelled"}

(* What became of an operation.  "Live" operations still own their capture  *)
(* state; "Local" ones were dropped on this machine (success, abandon, drop *)
(* or a failed finalization); "Sent" ones were handed to a managed sink.    *)
Fates == {"Absent", "Live", "Local", "Sent"}

CallerPcs == {"out", "sending", "waiting", "draining", "removing"}
WorkerPcs == {"recv", "popped", "finalizing", "completing"}

VARIABLES
  nextHandle, \* Registry.next_handle
  engines,    \* keys of Registry.engines
  operations, \* Registry.operations: handle -> engine handle, or None
  sinks,      \* Registry.sinks: handle -> engine handle, or None
  task,       \* FailureTask.state by sink handle
  job,        \* the operation moved into the task
  queue,      \* the sync_channel between callers and the worker
  workerUp,   \* FailureWorker.sender is Some
  worker,     \* program counter of the worker thread and the task it holds
  caller,     \* program counter of each host thread and the task it holds
  fate,       \* history: what became of each operation
  delivered   \* the managed sink of a task has no queued candidate left

vars == <<nextHandle, engines, operations, sinks, task, job, queue, workerUp,
          worker, caller, fate, delivered>>

registryVars == <<nextHandle, engines, operations>>

(* A thread at a point of a call, with the sink handle it works on. *)
At(pc, sink) == [pc |-> pc, sink |-> sink]
Idle == At("out", None)
WorkerAt(pc, sink, ok) == [pc |-> pc, sink |-> sink, ok |-> ok]

Init ==
  /\ nextHandle = 1
  /\ engines = {}
  /\ operations = [h \in Handles |-> None]
  /\ sinks = [h \in Handles |-> None]
  /\ task = [h \in Handles |-> "Absent"]
  /\ job = [h \in Handles |-> None]
  /\ queue = <<>>
  /\ workerUp \in BOOLEAN
  /\ worker = WorkerAt("recv", None, FALSE)
  /\ caller = [c \in Callers |-> Idle]
  /\ fate = [h \in Handles |-> "Absent"]
  /\ delivered = [h \in Handles |-> FALSE]

-----------------------------------------------------------------------------
(* Mutant: the overflow check of the handle counter is off by one. *)
MutCanAllocate == nextHandle <= MaxHandle

(* Handle allocation: the last value of the counter is never handed out. *)
CanAllocate == nextHandle < MaxHandle

AllocateHandle == nextHandle' = nextHandle + 1

Entries(map) == {h \in Handles : map[h] # None}

(***************************************************************************)
(* Calls that hold the registry mutex from beginning to end.               *)
(***************************************************************************)
EngineOpen ==
  /\ Cardinality(engines) < MaxEngines
  /\ CanAllocate
  /\ engines' = engines \cup {nextHandle}
  /\ AllocateHandle
  /\ UNCHANGED <<operations, sinks, task, job, queue, workerUp, worker, caller,
                 fate, delivered>>

OperationBegin(e) ==
  /\ Cardinality(Entries(operations)) < MaxOperations
  /\ e \in engines
  /\ CanAllocate
  /\ operations' = [operations EXCEPT ![nextHandle] = e]
  /\ fate' = [fate EXCEPT ![nextHandle] = "Live"]
  /\ AllocateHandle
  /\ UNCHANGED <<engines, sinks, task, job, queue, workerUp, worker, caller,
                 delivered>>

(* OperationSucceed and OperationAbandon both delete the capture state. *)
OperationEnd(o) ==
  /\ operations[o] # None
  /\ operations' = [operations EXCEPT ![o] = None]
  /\ fate' = [fate EXCEPT ![o] = "Local"]
  /\ UNCHANGED <<nextHandle, engines, sinks, task, job, queue, workerUp, worker,
                 caller, delivered>>

(* Mutant: the state of the cancelled tasks is left alone. *)
MutCancelled(S) == task

(* FailureTask::cancel on every task of S.  The job a Pending task holds is  *)
(* dropped with the old state, and dropping it abandons the operation.       *)
Cancelled(S) == [h \in Handles |-> IF h \in S THEN "Cancelled" ELSE task[h]]

(* Mutant: the job stays in the replaced state. *)
MutJobsDroppedBy(S) == {}

JobsDroppedBy(S) == {job[h] : h \in {s \in S : task[s] = "Pending"}}

RemoveEngineEntries(map, e) ==
  [h \in Handles |-> IF map[h] = e THEN None ELSE map[h]]

EngineClose(e) ==
  /\ e \in engines
  /\ LET ops  == {o \in Handles : operations[o] = e}
         mine == {s \in Handles : sinks[s] = e}
         lost == ops \cup JobsDroppedBy(mine)
     IN  /\ engines' = engines \ {e}
         /\ operations' = RemoveEngineEntries(operations, e)
         /\ sinks' = RemoveEngineEntries(sinks, e)
         /\ task' = Cancelled(mine)
         /\ fate' = [o \in Handles |-> IF o \in lost THEN "Local" ELSE fate[o]]
  /\ UNCHANGED <<nextHandle, job, queue, workerUp, worker, caller, delivered>>

(***************************************************************************)
(* OperationFail.                                                          *)
(***************************************************************************)
(* The operation leaves the registry even when the call is then refused: at *)
(* the sink limit, with an invalid project token, or with no handle left.   *)
FailRefused(o) ==
  /\ operations[o] # None
  /\ operations' = [operations EXCEPT ![o] = None]
  /\ fate' = [fate EXCEPT ![o] = "Local"]
  /\ UNCHANGED <<nextHandle, engines, sinks, task, job, queue, workerUp, worker,
                 caller, delivered>>

AtSinkCapacity == Cardinality(Entries(sinks)) >= MaxSinks

FailPrepare(c, o) ==
  /\ caller[c].pc = "out"
  /\ operations[o] # None
  /\ ~AtSinkCapacity
  /\ CanAllocate
  /\ operations' = [operations EXCEPT ![o] = None]
  /\ sinks' = [sinks EXCEPT ![nextHandle] = operations[o]]
  /\ task' = [task EXCEPT ![nextHandle] = "Pending"]
  /\ job' = [job EXCEPT ![nextHandle] = o]
  /\ caller' = [caller EXCEPT ![c] = At("sending", nextHandle)]
  /\ AllocateHandle
  /\ UNCHANGED <<engines, queue, workerUp, worker, fate, delivered>>

(* worker.try_send(work), without the mutex. *)
FailSend(c) ==
  /\ caller[c].pc = "sending"
  /\ workerUp
  /\ Len(queue) < MaxFailureTasks
  /\ queue' = Append(queue, caller[c].sink)
  /\ caller' = [caller EXCEPT ![c] = Idle]
  /\ UNCHANGED <<nextHandle, engines, operations, sinks, task, job, workerUp,
                 worker, fate, delivered>>

(* reject_failure_enqueue, first half: task.cancel(). *)
FailSendRejected(c) ==
  /\ caller[c].pc = "sending"
  /\ ~workerUp \/ Len(queue) >= MaxFailureTasks
  /\ LET s == caller[c].sink
     IN  /\ task' = Cancelled({s})
         /\ fate' = [o \in Handles |->
                       IF o \in JobsDroppedBy({s}) THEN "Local" ELSE fate[o]]
  /\ caller' = [caller EXCEPT ![c] = At("removing", caller[c].sink)]
  /\ UNCHANGED <<nextHandle, engines, operations, sinks, job, queue, workerUp,
                 worker, delivered>>

(* remove_sink_if_same, shared by the rejected send and by SinkWait. *)
RemoveSink(c) ==
  /\ caller[c].pc = "removing"
  /\ sinks' = [sinks EXCEPT ![caller[c].sink] = None]
  /\ caller' = [caller EXCEPT ![c] = Idle]
  /\ UNCHANGED <<nextHandle, engines, operations, task, job, queue, workerUp,
                 worker, fate, delivered>>

(***************************************************************************)
(* The worker thread.                                                      *)
(***************************************************************************)
WorkerRecv ==
  /\ workerUp
  /\ worker.pc = "recv"
  /\ queue # <<>>
  /\ worker' = WorkerAt("popped", Head(queue), FALSE)
  /\ queue' = Tail(queue)
  /\ UNCHANGED <<nextHandle, engines, operations, sinks, task, job, workerUp,
                 caller, fate, delivered>>

(* FailureTask::take_job: only a Pending task still has a job to give. *)
WorkerTakeJob ==
  /\ worker.pc = "popped"
  /\ task[worker.sink] = "Pending"
  /\ task' = [task EXCEPT ![worker.sink] = "Running"]
  /\ worker' = WorkerAt("finalizing", worker.sink, FALSE)
  /\ UNCHANGED <<nextHandle, engines, operations, sinks, job, queue, workerUp,
                 caller, fate, delivered>>

WorkerSkipJob ==
  /\ worker.pc = "popped"
  /\ task[worker.sink] # "Pending"
  /\ worker' = WorkerAt("recv", None, FALSE)
  /\ UNCHANGED <<nextHandle, engines, operations, sinks, task, job, queue,
                 workerUp, caller, fate, delivered>>

(* operation.fail(..) consumes the operation: it hands a candidate to a     *)
(* managed sink, or returns an error or panics, and drops the operation.    *)
WorkerFinalize(ok) ==
  /\ worker.pc = "finalizing"
  /\ fate' = [fate EXCEPT ![job[worker.sink]] = IF ok THEN "Sent" ELSE "Local"]
  /\ worker' = WorkerAt("completing", worker.sink, ok)
  /\ UNCHANGED <<nextHandle, engines, operations, sinks, task, job, queue,
                 workerUp, caller, delivered>>

(* Mutant: completion overwrites a cancellation. *)
MutCompletedState(old, ok) == IF ok THEN "Ready" ELSE "Failed"

(* FailureTask::complete. *)
CompletedState(old, ok) ==
  IF old = "Cancelled" THEN old ELSE IF ok THEN "Ready" ELSE "Failed"

WorkerComplete ==
  /\ worker.pc = "completing"
  /\ task' = [task EXCEPT ![worker.sink] = CompletedState(@, worker.ok)]
  /\ worker' = WorkerAt("recv", None, FALSE)
  /\ UNCHANGED <<nextHandle, engines, operations, sinks, job, queue, workerUp,
                 caller, fate, delivered>>

(* The managed sink has delivered, or given up on, its queued candidate. *)
SinkDrained(s) ==
  /\ job[s] # None
  /\ fate[job[s]] = "Sent"
  /\ ~delivered[s]
  /\ delivered' = [delivered EXCEPT ![s] = TRUE]
  /\ UNCHANGED <<nextHandle, engines, operations, sinks, task, job, queue,
                 workerUp, worker, caller, fate>>

(***************************************************************************)
(* SinkWait: the task is cloned under the mutex and awaited without it.    *)
(***************************************************************************)
WaitBegin(c, s) ==
  /\ caller[c].pc = "out"
  /\ sinks[s] # None
  /\ caller' = [caller EXCEPT ![c] = At("waiting", s)]
  /\ UNCHANGED <<nextHandle, engines, operations, sinks, task, job, queue,
                 workerUp, worker, fate, delivered>>

(* Mutant: a wait that timed out gives the slot back as if it had settled. *)
MutWaitTarget(state) == IF state = "Ready" THEN "draining" ELSE "removing"

(* Mutant: a waiter does not look for cancellation and waits on. *)
MutWaitForever(state) ==
  IF state = "Ready" THEN "draining"
  ELSE IF state = "Failed" THEN "removing"
  ELSE IF state = "Cancelled" THEN "waiting"
  ELSE "out"

(* FailureTask::wait_until_idle: what the waiter does for a task state. *)
WaitTarget(state) ==
  IF state = "Ready" THEN "draining"
  ELSE IF state \in {"Failed", "Cancelled"} THEN "removing"
  ELSE "out"  \* timed out

WaitObserve(c) ==
  /\ caller[c].pc = "waiting"
  /\ LET target == WaitTarget(task[caller[c].sink])
     IN  caller' = [caller EXCEPT ![c] =
                      IF target = "out" THEN Idle ELSE At(target, caller[c].sink)]
  /\ UNCHANGED <<nextHandle, engines, operations, sinks, task, job, queue,
                 workerUp, worker, fate, delivered>>

(* ReadySink::wait_until_idle returns whether the sink drained in time. *)
WaitDrained(c) ==
  /\ caller[c].pc = "draining"
  /\ caller' = [caller EXCEPT ![c] =
                  IF delivered[caller[c].sink]
                    THEN At("removing", caller[c].sink) ELSE Idle]
  /\ UNCHANGED <<nextHandle, engines, operations, sinks, task, job, queue,
                 workerUp, worker, fate, delivered>>

-----------------------------------------------------------------------------
CallerStep(c) ==
  \/ FailSend(c)
  \/ FailSendRejected(c)
  \/ RemoveSink(c)
  \/ WaitObserve(c)
  \/ WaitDrained(c)

WorkerStep ==
  \/ WorkerRecv
  \/ WorkerTakeJob
  \/ WorkerSkipJob
  \/ \E ok \in BOOLEAN : WorkerFinalize(ok)
  \/ WorkerComplete

Next ==
  \/ EngineOpen
  \/ \E e \in Handles : OperationBegin(e) \/ EngineClose(e)
  \/ \E o \in Handles : OperationEnd(o) \/ FailRefused(o)
  \/ \E c \in Callers, h \in Handles : FailPrepare(c, h) \/ WaitBegin(c, h)
  \/ \E c \in Callers : CallerStep(c)
  \/ WorkerStep
  \/ \E s \in Handles : SinkDrained(s)

(* A thread inside a call runs on, and the worker thread runs on: both are  *)
(* plain OS threads whose every blocking step is bounded by a timeout.  No  *)
(* host is obliged to make a new call.                                      *)
Fairness ==
  /\ \A c \in Callers : WF_vars(CallerStep(c))
  /\ WF_vars(WorkerStep)

Spec == Init /\ [][Next]_vars /\ Fairness

-----------------------------------------------------------------------------
(* Type correctness of the registry, the tasks and the threads. *)
TypeOK ==
  /\ nextHandle \in 1 .. MaxHandle
  /\ engines \in SUBSET Handles
  /\ operations \in [Handles -> MaybeHandle]
  /\ sinks \in [Handles -> MaybeHandle]
  /\ task \in [Handles -> TaskStates]
  /\ job \in [Handles -> MaybeHandle]
  /\ queue \in Seq(MaybeHandle)
  /\ workerUp \in BOOLEAN
  /\ worker \in [pc : WorkerPcs, sink : MaybeHandle, ok : BOOLEAN]
  /\ caller \in [Callers -> [pc : CallerPcs, sink : MaybeHandle]]
  /\ fate \in [Handles -> Fates]
  /\ delivered \in [Handles -> BOOLEAN]

(* The three places that can own the capture state of an operation. *)
InRegistry(o) == operations[o] # None
InTask(o, s) == task[s] = "Pending" /\ job[s] = o
InWorker(o) == worker.pc = "finalizing" /\ job[worker.sink] = o

(* An operation that has not ended is owned by exactly one of the registry, *)
(* one pending task and the worker, and an ended one by none: whatever the  *)
(* order of OperationFail, EngineClose, a refused send and the worker, no   *)
(* operation is finalized twice, and none is lost without being dropped.    *)
SingleOwner ==
  \A o \in Handles :
    /\ fate[o] = "Live" <=>
         InRegistry(o) \/ InWorker(o) \/ \E s \in Handles : InTask(o, s)
    /\ ~(InRegistry(o) /\ InWorker(o))
    /\ \A s \in Handles : InTask(o, s) =>
         /\ ~InRegistry(o)
         /\ ~InWorker(o)
         /\ \A t \in Handles : InTask(o, t) => t = s

(* Nothing in the registry outlives its engine: close_engine leaves no      *)
(* operation and no sink behind, and a call that raced it adds none.        *)
RegistryLinked ==
  \A h \in Handles :
    /\ operations[h] # None => operations[h] \in engines
    /\ sinks[h] # None => sinks[h] \in engines

(* A pending task is registered, so that EngineClose can reach it, and is   *)
(* carried to the worker by exactly one holder: the thread about to send    *)
(* it, the channel, or the worker that just received it.                    *)
Carried(s) ==
  \/ \E c \in Callers : caller[c].pc = "sending" /\ caller[c].sink = s
  \/ \E i \in 1 .. Len(queue) : queue[i] = s
  \/ worker.pc = "popped" /\ worker.sink = s

PendingReachable ==
  \A s \in Handles : task[s] = "Pending" => sinks[s] # None /\ Carried(s)

(* Cancellation is final, also when the worker completes the task later. *)
CancelIsFinal ==
  [][\A s \in Handles : task[s] = "Cancelled" => task'[s] = "Cancelled"]_vars

(* The worker never starts on a failure whose engine has been closed. *)
NoStartAfterClose ==
  [][\A s \in Handles :
       task[s] = "Pending" /\ task'[s] = "Running" => sinks[s] \in engines]_vars

(* While its engine is open, a sink gives its slot back only when its task  *)
(* failed, was cancelled, or its managed sink has drained: a wait that timed *)
(* out leaves the handle valid for the next SinkWait.                       *)
SlotHeldUntilSettled ==
  [][\A s \in Handles :
       sinks[s] # None /\ sinks'[s] = None /\ sinks[s] \in engines' =>
         \/ task[s] \in {"Failed", "Cancelled"}
         \/ task[s] = "Ready" /\ delivered[s]]_vars

(* Every accepted failure is decided: its task leaves Pending and Running. *)
AcceptedFailuresSettle ==
  \A s \in Handles :
    task[s] = "Pending" ~> task[s] \in {"Ready", "Failed", "Cancelled"}

(* Every OperationFail and SinkWait call returns. *)
CallsReturn == \A c \in Callers : caller[c].pc # "out" ~> caller[c].pc = "out"
=============================================================================
