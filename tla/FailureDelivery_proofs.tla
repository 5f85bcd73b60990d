------------------------ MODULE FailureDelivery_proofs ------------------------
(***************************************************************************)
(* Proofs about FailureDelivery for every number of callers and every      *)
(* value of the limits.  SingleOwner, RegistryLinked and PendingReachable  *)
(* are not inductive: they rest on what handles not yet allocated look     *)
(* like (Fresh), on the injectivity of job (JobsDistinct), and on what the *)
(* worker and the callers know about the task they hold (WorkerKnows,      *)
(* CallerKnows).                                                           *)
(***************************************************************************)
EXTENDS FailureDelivery, TLAPS

Fresh ==
  \A h \in Handles : h >= nextHandle =>
    /\ h \notin engines
    /\ operations[h] = None
    /\ sinks[h] = None
    /\ task[h] = "Absent"
    /\ fate[h] = "Absent"

JobsDistinct ==
  /\ \A s \in Handles : sinks[s] # None => task[s] # "Absent"
  /\ \A s \in Handles : task[s] = "Absent" <=> job[s] = None
  /\ \A s \in Handles : job[s] # None =>
       operations[job[s]] = None /\ job[s] < nextHandle
  /\ \A s, t \in Handles : job[s] = job[t] /\ job[s] # None => s = t

WorkerKnows ==
  /\ worker.pc # "recv" => worker.sink # None /\ task[worker.sink] # "Absent"
  /\ worker.pc \in {"finalizing", "completing"} =>
       task[worker.sink] \in {"Running", "Cancelled"}
  /\ \A i \in 1 .. Len(queue) : queue[i] # None /\ task[queue[i]] # "Absent"

CallerKnows ==
  \A c \in Callers :
    /\ caller[c].pc # "out" => caller[c].sink # None /\ task[caller[c].sink] # "Absent"
    /\ caller[c].pc = "draining" => task[caller[c].sink] \in {"Ready", "Cancelled"}
    /\ caller[c].pc = "removing" =>
         \/ task[caller[c].sink] \in {"Failed", "Cancelled"}
         \/ task[caller[c].sink] = "Ready" /\ delivered[caller[c].sink]

IInv ==
  /\ TypeOK
  /\ Fresh
  /\ JobsDistinct
  /\ WorkerKnows
  /\ CallerKnows
  /\ SingleOwner
  /\ RegistryLinked
  /\ PendingReachable

-----------------------------------------------------------------------------
(* Type correctness: every call, the worker and the waiters keep each       *)
(* handle, task state and program counter in its range.                     *)
THEOREM TypeCorrect == Spec => []TypeOK
<1> USE BoundsAssumption DEF TypeOK, Handles, MaybeHandle, None, TaskStates,
        Fates, CallerPcs, WorkerPcs, Idle, At, WorkerAt
<1>1. Init => TypeOK
  BY DEF Init
<1>2. TypeOK /\ [Next]_vars => TypeOK'
  <2> SUFFICES ASSUME TypeOK, [Next]_vars PROVE TypeOK'
    OBVIOUS
  <2>1. CASE EngineOpen
    BY <2>1 DEF EngineOpen, CanAllocate, AllocateHandle
  <2>2. ASSUME NEW e \in Handles, OperationBegin(e) PROVE TypeOK'
    BY <2>2 DEF OperationBegin, CanAllocate, AllocateHandle
  <2>3. ASSUME NEW e \in Handles, EngineClose(e) PROVE TypeOK'
    BY <2>3 DEF EngineClose, RemoveEngineEntries, Cancelled
  <2>4. ASSUME NEW o \in Handles, OperationEnd(o) \/ FailRefused(o) PROVE TypeOK'
    BY <2>4 DEF OperationEnd, FailRefused
  <2>5. ASSUME NEW c \in Callers, NEW o \in Handles, FailPrepare(c, o) PROVE TypeOK'
    BY <2>5 DEF FailPrepare, CanAllocate, AllocateHandle
  <2>6. ASSUME NEW c \in Callers, NEW s \in Handles, WaitBegin(c, s) PROVE TypeOK'
    BY <2>6 DEF WaitBegin
  <2>7. ASSUME NEW c \in Callers, FailSend(c) PROVE TypeOK'
    BY <2>7 DEF FailSend
  <2>8. ASSUME NEW c \in Callers, FailSendRejected(c) PROVE TypeOK'
    BY <2>8 DEF FailSendRejected, Cancelled
  <2>9. ASSUME NEW c \in Callers, RemoveSink(c) PROVE TypeOK'
    BY <2>9 DEF RemoveSink
  <2>10. ASSUME NEW c \in Callers, WaitObserve(c) PROVE TypeOK'
    BY <2>10 DEF WaitObserve, WaitTarget
  <2>11. ASSUME NEW c \in Callers, WaitDrained(c) PROVE TypeOK'
    BY <2>11 DEF WaitDrained
  <2>12. CASE WorkerRecv
    BY <2>12 DEF WorkerRecv
  <2>13. CASE WorkerTakeJob
    BY <2>13 DEF WorkerTakeJob
  <2>18. CASE WorkerSkipJob
    BY <2>18 DEF WorkerSkipJob
  <2>14. ASSUME NEW ok \in BOOLEAN, WorkerFinalize(ok) PROVE TypeOK'
    BY <2>14 DEF WorkerFinalize
  <2>15. CASE WorkerComplete
    BY <2>15 DEF WorkerComplete, CompletedState
  <2>16. ASSUME NEW s \in Handles, SinkDrained(s) PROVE TypeOK'
    BY <2>16 DEF SinkDrained
  <2>17. CASE UNCHANGED vars
    BY <2>17 DEF vars
  <2> QED
    BY <2>1, <2>2, <2>3, <2>4, <2>5, <2>6, <2>7, <2>8, <2>9, <2>10, <2>11, <2>12,
       <2>13, <2>14, <2>15, <2>16, <2>17, <2>18
       DEF Next, CallerStep, WorkerStep
<1> QED
  BY <1>1, <1>2, PTL DEF Spec
-----------------------------------------------------------------------------
(* IInv holds before any engine is open. *)
LEMMA InductiveInit == Init => IInv
  BY BoundsAssumption DEF Init, IInv, TypeOK, Fresh, JobsDistinct, WorkerKnows,
     CallerKnows, SingleOwner, InRegistry, InTask, InWorker, RegistryLinked,
     PendingReachable, Carried, Handles, MaybeHandle, None, TaskStates, Fates,
     CallerPcs, WorkerPcs, Idle, At, WorkerAt

(* Every step of a host thread, the worker or a sink keeps IInv. *)
LEMMA InductiveStep == IInv /\ TypeOK' /\ [Next]_vars => IInv'
<1> USE BoundsAssumption DEF TypeOK, Handles, MaybeHandle, None, TaskStates,
        Fates, CallerPcs, WorkerPcs, Idle, At, WorkerAt
<1> SUFFICES ASSUME IInv, TypeOK', [Next]_vars PROVE IInv'
  OBVIOUS
<1>1. CASE EngineOpen
  <2>1. Fresh'
    BY <1>1 DEF IInv, EngineOpen, CanAllocate, AllocateHandle, Fresh, JobsDistinct, CallerKnows, WorkerKnows
  <2>2. JobsDistinct'
    BY <1>1 DEF IInv, EngineOpen, CanAllocate, AllocateHandle, JobsDistinct, Fresh, CallerKnows, WorkerKnows
  <2>3. WorkerKnows'
    BY <1>1 DEF IInv, EngineOpen, CanAllocate, AllocateHandle, WorkerKnows, Fresh, CallerKnows, JobsDistinct
  <2>4. CallerKnows'
    BY <1>1 DEF IInv, EngineOpen, CanAllocate, AllocateHandle, CallerKnows, Fresh, WorkerKnows, JobsDistinct
  <2>5. SingleOwner'
    BY <1>1 DEF IInv, EngineOpen, CanAllocate, AllocateHandle, SingleOwner, InRegistry, InTask, InWorker, JobsDistinct, Fresh, WorkerKnows, CallerKnows
  <2>6. RegistryLinked'
    BY <1>1 DEF IInv, EngineOpen, CanAllocate, AllocateHandle, RegistryLinked, Fresh, CallerKnows
  <2>7. PendingReachable'
    <3> SUFFICES ASSUME NEW s \in Handles, task'[s] = "Pending"
                 PROVE  sinks'[s] # None /\ Carried(s)'
      BY DEF PendingReachable
    <3>1. task[s] = "Pending" /\ sinks'[s] = sinks[s]
      BY <1>1 DEF IInv, EngineOpen, CanAllocate, AllocateHandle
    <3>2. sinks[s] # None /\ Carried(s)
      BY <3>1 DEF IInv, PendingReachable
    <3> QED BY <1>1, <3>1, <3>2 DEF EngineOpen, CanAllocate, AllocateHandle, Carried
  <2> QED BY <2>1, <2>2, <2>3, <2>4, <2>5, <2>6, <2>7 DEF IInv
<1>2. ASSUME NEW e \in Handles, OperationBegin(e) PROVE IInv'
  <2>1. Fresh'
    BY <1>2 DEF IInv, OperationBegin, CanAllocate, AllocateHandle, Fresh, JobsDistinct, CallerKnows, WorkerKnows
  <2>2. JobsDistinct'
    BY <1>2 DEF IInv, OperationBegin, CanAllocate, AllocateHandle, JobsDistinct, Fresh, CallerKnows, WorkerKnows
  <2>3. WorkerKnows'
    BY <1>2 DEF IInv, OperationBegin, CanAllocate, AllocateHandle, WorkerKnows, Fresh, CallerKnows, JobsDistinct
  <2>4. CallerKnows'
    BY <1>2 DEF IInv, OperationBegin, CanAllocate, AllocateHandle, CallerKnows, Fresh, WorkerKnows, JobsDistinct
  <2>5. SingleOwner'
    BY <1>2 DEF IInv, OperationBegin, CanAllocate, AllocateHandle, SingleOwner, InRegistry, InTask, InWorker, JobsDistinct, Fresh, WorkerKnows, CallerKnows
  <2>6. RegistryLinked'
    BY <1>2 DEF IInv, OperationBegin, CanAllocate, AllocateHandle, RegistryLinked, Fresh, CallerKnows
  <2>7. PendingReachable'
    <3> SUFFICES ASSUME NEW s \in Handles, task'[s] = "Pending"
                 PROVE  sinks'[s] # None /\ Carried(s)'
      BY DEF PendingReachable
    <3>1. task[s] = "Pending" /\ sinks'[s] = sinks[s]
      BY <1>2 DEF IInv, OperationBegin, CanAllocate, AllocateHandle
    <3>2. sinks[s] # None /\ Carried(s)
      BY <3>1 DEF IInv, PendingReachable
    <3> QED BY <1>2, <3>1, <3>2 DEF OperationBegin, CanAllocate, AllocateHandle, Carried
  <2> QED BY <2>1, <2>2, <2>3, <2>4, <2>5, <2>6, <2>7 DEF IInv
<1>3. ASSUME NEW e \in Handles, EngineClose(e) PROVE IInv'
  <2>1. Fresh'
    <3>1. \A s \in Handles : task[s] = "Pending" => job[s] < nextHandle
      BY DEF IInv, JobsDistinct
    <3>2. \A o \in JobsDroppedBy({s \in Handles : sinks[s] = e}) : o < nextHandle
      BY <3>1 DEF JobsDroppedBy
    <3> SUFFICES ASSUME NEW h \in Handles, h >= nextHandle'
                 PROVE  /\ h \notin engines'
                        /\ operations'[h] = None
                        /\ sinks'[h] = None
                        /\ task'[h] = "Absent"
                        /\ fate'[h] = "Absent"
      BY DEF Fresh
    <3>3. /\ h \notin engines
          /\ operations[h] = None
          /\ sinks[h] = None
          /\ task[h] = "Absent"
          /\ fate[h] = "Absent"
      BY <1>3 DEF IInv, EngineClose, Fresh
    <3>4. h \notin {o \in Handles : operations[o] = e}
      BY <3>3
    <3>5. h \notin JobsDroppedBy({s \in Handles : sinks[s] = e})
      <4>1. nextHandle' = nextHandle
        BY <1>3 DEF EngineClose
      <4>2. ~(h < nextHandle)
        BY <4>1 DEF IInv
      <4> QED BY <3>2, <4>2
    <3>6. fate'[h] = "Absent"
      BY <1>3, <3>3, <3>4, <3>5 DEF EngineClose
    <3> QED
      BY <1>3, <3>3, <3>6 DEF EngineClose, RemoveEngineEntries, Cancelled
  <2>2. JobsDistinct'
    BY <1>3 DEF IInv, EngineClose, RemoveEngineEntries, Cancelled, JobsDroppedBy, JobsDistinct, Fresh, CallerKnows, WorkerKnows
  <2>3. WorkerKnows'
    BY <1>3 DEF IInv, EngineClose, RemoveEngineEntries, Cancelled, JobsDroppedBy, WorkerKnows, Fresh, CallerKnows, JobsDistinct
  <2>4. CallerKnows'
    BY <1>3 DEF IInv, EngineClose, RemoveEngineEntries, Cancelled, JobsDroppedBy, CallerKnows, Fresh, WorkerKnows, JobsDistinct
  <2>5. SingleOwner'
    BY <1>3 DEF IInv, EngineClose, RemoveEngineEntries, Cancelled, JobsDroppedBy, SingleOwner, InRegistry, InTask, InWorker, JobsDistinct, Fresh, WorkerKnows, CallerKnows
  <2>6. RegistryLinked'
    BY <1>3 DEF IInv, EngineClose, RemoveEngineEntries, Cancelled, JobsDroppedBy, RegistryLinked, Fresh, CallerKnows
  <2>7. PendingReachable'
    <3> SUFFICES ASSUME NEW s \in Handles, task'[s] = "Pending"
                 PROVE  sinks'[s] # None /\ Carried(s)'
      BY DEF PendingReachable
    <3>1. task[s] = "Pending" /\ sinks'[s] = sinks[s]
      BY <1>3 DEF IInv, EngineClose, RemoveEngineEntries, Cancelled, JobsDroppedBy
    <3>2. sinks[s] # None /\ Carried(s)
      BY <3>1 DEF IInv, PendingReachable
    <3> QED BY <1>3, <3>1, <3>2 DEF EngineClose, RemoveEngineEntries, Cancelled, JobsDroppedBy, Carried
  <2> QED BY <2>1, <2>2, <2>3, <2>4, <2>5, <2>6, <2>7 DEF IInv
<1>4. ASSUME NEW o \in Handles, OperationEnd(o) PROVE IInv'
  <2>1. Fresh'
    BY <1>4 DEF IInv, OperationEnd, Fresh, JobsDistinct, CallerKnows, WorkerKnows
  <2>2. JobsDistinct'
    BY <1>4 DEF IInv, OperationEnd, JobsDistinct, Fresh, CallerKnows, WorkerKnows
  <2>3. WorkerKnows'
    BY <1>4 DEF IInv, OperationEnd, WorkerKnows, Fresh, CallerKnows, JobsDistinct
  <2>4. CallerKnows'
    BY <1>4 DEF IInv, OperationEnd, CallerKnows, Fresh, WorkerKnows, JobsDistinct
  <2>5. SingleOwner'
    BY <1>4 DEF IInv, OperationEnd, SingleOwner, InRegistry, InTask, InWorker, JobsDistinct, Fresh, WorkerKnows, CallerKnows
  <2>6. RegistryLinked'
    BY <1>4 DEF IInv, OperationEnd, RegistryLinked, Fresh, CallerKnows
  <2>7. PendingReachable'
    <3> SUFFICES ASSUME NEW s \in Handles, task'[s] = "Pending"
                 PROVE  sinks'[s] # None /\ Carried(s)'
      BY DEF PendingReachable
    <3>1. task[s] = "Pending" /\ sinks'[s] = sinks[s]
      BY <1>4 DEF IInv, OperationEnd
    <3>2. sinks[s] # None /\ Carried(s)
      BY <3>1 DEF IInv, PendingReachable
    <3> QED BY <1>4, <3>1, <3>2 DEF OperationEnd, Carried
  <2> QED BY <2>1, <2>2, <2>3, <2>4, <2>5, <2>6, <2>7 DEF IInv
<1>5. ASSUME NEW o \in Handles, FailRefused(o) PROVE IInv'
  <2>1. Fresh'
    BY <1>5 DEF IInv, FailRefused, Fresh, JobsDistinct, CallerKnows, WorkerKnows
  <2>2. JobsDistinct'
    BY <1>5 DEF IInv, FailRefused, JobsDistinct, Fresh, CallerKnows, WorkerKnows
  <2>3. WorkerKnows'
    BY <1>5 DEF IInv, FailRefused, WorkerKnows, Fresh, CallerKnows, JobsDistinct
  <2>4. CallerKnows'
    BY <1>5 DEF IInv, FailRefused, CallerKnows, Fresh, WorkerKnows, JobsDistinct
  <2>5. SingleOwner'
    BY <1>5 DEF IInv, FailRefused, SingleOwner, InRegistry, InTask, InWorker, JobsDistinct, Fresh, WorkerKnows, CallerKnows
  <2>6. RegistryLinked'
    BY <1>5 DEF IInv, FailRefused, RegistryLinked, Fresh, CallerKnows
  <2>7. PendingReachable'
    <3> SUFFICES ASSUME NEW s \in Handles, task'[s] = "Pending"
                 PROVE  sinks'[s] # None /\ Carried(s)'
      BY DEF PendingReachable
    <3>1. task[s] = "Pending" /\ sinks'[s] = sinks[s]
      BY <1>5 DEF IInv, FailRefused
    <3>2. sinks[s] # None /\ Carried(s)
      BY <3>1 DEF IInv, PendingReachable
    <3> QED BY <1>5, <3>1, <3>2 DEF FailRefused, Carried
  <2> QED BY <2>1, <2>2, <2>3, <2>4, <2>5, <2>6, <2>7 DEF IInv
<1>6. ASSUME NEW c \in Callers, NEW o \in Handles, FailPrepare(c, o) PROVE IInv'
  <2>1. Fresh'
    BY <1>6 DEF IInv, FailPrepare, CanAllocate, AllocateHandle, Fresh, JobsDistinct, CallerKnows, WorkerKnows
  <2>2. JobsDistinct'
    BY <1>6 DEF IInv, FailPrepare, CanAllocate, AllocateHandle, JobsDistinct, Fresh, CallerKnows, WorkerKnows
  <2>3. WorkerKnows'
    BY <1>6 DEF IInv, FailPrepare, CanAllocate, AllocateHandle, WorkerKnows, Fresh, CallerKnows, JobsDistinct
  <2>4. CallerKnows'
    BY <1>6 DEF IInv, FailPrepare, CanAllocate, AllocateHandle, CallerKnows, Fresh, WorkerKnows, JobsDistinct
  <2>5. SingleOwner'
    BY <1>6 DEF IInv, FailPrepare, CanAllocate, AllocateHandle, SingleOwner, InRegistry, InTask, InWorker, JobsDistinct, Fresh, WorkerKnows, CallerKnows
  <2>6. RegistryLinked'
    BY <1>6 DEF IInv, FailPrepare, CanAllocate, AllocateHandle, RegistryLinked, Fresh, CallerKnows
  <2>7. PendingReachable'
    <3> SUFFICES ASSUME NEW s \in Handles, task'[s] = "Pending"
                 PROVE  sinks'[s] # None /\ Carried(s)'
      BY DEF PendingReachable
    <3>1. CASE s = nextHandle
      BY <1>6, <3>1 DEF IInv, FailPrepare, CanAllocate, AllocateHandle, Carried, RegistryLinked
    <3>2. CASE s # nextHandle
      <4>1. task[s] = "Pending" /\ sinks'[s] = sinks[s]
        BY <1>6, <3>2 DEF IInv, FailPrepare, CanAllocate, AllocateHandle
      <4>2. sinks[s] # None /\ Carried(s)
        BY <4>1 DEF IInv, PendingReachable
      <4> QED BY <1>6, <3>2, <4>1, <4>2 DEF FailPrepare, CanAllocate, AllocateHandle, Carried
    <3> QED BY <3>1, <3>2
  <2> QED BY <2>1, <2>2, <2>3, <2>4, <2>5, <2>6, <2>7 DEF IInv
<1>7. ASSUME NEW c \in Callers, NEW h \in Handles, WaitBegin(c, h) PROVE IInv'
  <2>1. Fresh'
    BY <1>7 DEF IInv, WaitBegin, Fresh, JobsDistinct, CallerKnows, WorkerKnows
  <2>2. JobsDistinct'
    BY <1>7 DEF IInv, WaitBegin, JobsDistinct, Fresh, CallerKnows, WorkerKnows
  <2>3. WorkerKnows'
    BY <1>7 DEF IInv, WaitBegin, WorkerKnows, Fresh, CallerKnows, JobsDistinct
  <2>4. CallerKnows'
    BY <1>7 DEF IInv, WaitBegin, CallerKnows, Fresh, WorkerKnows, JobsDistinct
  <2>5. SingleOwner'
    BY <1>7 DEF IInv, WaitBegin, SingleOwner, InRegistry, InTask, InWorker, JobsDistinct, Fresh, WorkerKnows, CallerKnows
  <2>6. RegistryLinked'
    BY <1>7 DEF IInv, WaitBegin, RegistryLinked, Fresh, CallerKnows
  <2>7. PendingReachable'
    <3> SUFFICES ASSUME NEW s \in Handles, task'[s] = "Pending"
                 PROVE  sinks'[s] # None /\ Carried(s)'
      BY DEF PendingReachable
    <3>1. task[s] = "Pending" /\ sinks'[s] = sinks[s]
      BY <1>7 DEF IInv, WaitBegin, CallerKnows
    <3>2. sinks[s] # None /\ Carried(s)
      BY <3>1 DEF IInv, PendingReachable
    <3> QED BY <1>7, <3>1, <3>2 DEF WaitBegin, Carried
  <2> QED BY <2>1, <2>2, <2>3, <2>4, <2>5, <2>6, <2>7 DEF IInv
<1>8. ASSUME NEW c \in Callers, FailSend(c) PROVE IInv'
  <2>1. Fresh'
    BY <1>8 DEF IInv, FailSend, Fresh, JobsDistinct, CallerKnows, WorkerKnows
  <2>2. JobsDistinct'
    BY <1>8 DEF IInv, FailSend, JobsDistinct, Fresh, CallerKnows, WorkerKnows
  <2>3. WorkerKnows'
    BY <1>8 DEF IInv, FailSend, WorkerKnows, Fresh, CallerKnows, JobsDistinct
  <2>4. CallerKnows'
    BY <1>8 DEF IInv, FailSend, CallerKnows, Fresh, WorkerKnows, JobsDistinct
  <2>5. SingleOwner'
    BY <1>8 DEF IInv, FailSend, SingleOwner, InRegistry, InTask, InWorker, JobsDistinct, Fresh, WorkerKnows, CallerKnows
  <2>6. RegistryLinked'
    BY <1>8 DEF IInv, FailSend, RegistryLinked, Fresh, CallerKnows
  <2>7. PendingReachable'
    <3> SUFFICES ASSUME NEW s \in Handles, task'[s] = "Pending"
                 PROVE  sinks'[s] # None /\ Carried(s)'
      BY DEF PendingReachable
    <3>1. task[s] = "Pending" /\ sinks'[s] = sinks[s]
      BY <1>8 DEF IInv, FailSend
    <3>2. sinks[s] # None /\ Carried(s)
      BY <3>1 DEF IInv, PendingReachable
    <3> QED BY <1>8, <3>1, <3>2 DEF FailSend, Carried
  <2> QED BY <2>1, <2>2, <2>3, <2>4, <2>5, <2>6, <2>7 DEF IInv
<1>9. ASSUME NEW c \in Callers, FailSendRejected(c) PROVE IInv'
  <2>1. Fresh'
    <3>1. caller[c].sink \in Handles /\ task[caller[c].sink] # "Absent"
      BY <1>9 DEF IInv, FailSendRejected, CallerKnows
    <3>2. job[caller[c].sink] < nextHandle /\ caller[c].sink < nextHandle
      BY <3>1 DEF IInv, JobsDistinct, Fresh
    <3> QED BY <1>9, <3>1, <3>2 DEF IInv, FailSendRejected, Cancelled, JobsDroppedBy, Fresh
  <2>2. JobsDistinct'
    <3>1. caller[c].sink \in Handles /\ task[caller[c].sink] # "Absent"
      BY <1>9 DEF IInv, FailSendRejected, CallerKnows
    <3> QED BY <1>9, <3>1 DEF IInv, FailSendRejected, Cancelled, JobsDistinct
  <2>3. WorkerKnows'
    BY <1>9 DEF IInv, FailSendRejected, Cancelled, JobsDroppedBy, WorkerKnows, Fresh, CallerKnows, JobsDistinct
  <2>4. CallerKnows'
    BY <1>9 DEF IInv, FailSendRejected, Cancelled, JobsDroppedBy, CallerKnows, Fresh, WorkerKnows, JobsDistinct
  <2>5. SingleOwner'
    BY <1>9 DEF IInv, FailSendRejected, Cancelled, JobsDroppedBy, SingleOwner, InRegistry, InTask, InWorker, JobsDistinct, Fresh, WorkerKnows, CallerKnows
  <2>6. RegistryLinked'
    BY <1>9 DEF IInv, FailSendRejected, Cancelled, JobsDroppedBy, RegistryLinked, Fresh, CallerKnows
  <2>7. PendingReachable'
    <3> SUFFICES ASSUME NEW s \in Handles, task'[s] = "Pending"
                 PROVE  sinks'[s] # None /\ Carried(s)'
      BY DEF PendingReachable
    <3>1. task[s] = "Pending" /\ sinks'[s] = sinks[s]
      BY <1>9 DEF IInv, FailSendRejected, Cancelled, JobsDroppedBy, CallerKnows
    <3>2. sinks[s] # None /\ Carried(s)
      BY <3>1 DEF IInv, PendingReachable
    <3> QED BY <1>9, <3>1, <3>2 DEF FailSendRejected, Cancelled, JobsDroppedBy, Carried
  <2> QED BY <2>1, <2>2, <2>3, <2>4, <2>5, <2>6, <2>7 DEF IInv
<1>10. ASSUME NEW c \in Callers, RemoveSink(c) PROVE IInv'
  <2>1. Fresh'
    BY <1>10 DEF IInv, RemoveSink, Fresh, JobsDistinct, CallerKnows, WorkerKnows
  <2>2. JobsDistinct'
    BY <1>10 DEF IInv, RemoveSink, JobsDistinct, Fresh, CallerKnows, WorkerKnows
  <2>3. WorkerKnows'
    BY <1>10 DEF IInv, RemoveSink, WorkerKnows, Fresh, CallerKnows, JobsDistinct
  <2>4. CallerKnows'
    BY <1>10 DEF IInv, RemoveSink, CallerKnows, Fresh, WorkerKnows, JobsDistinct
  <2>5. SingleOwner'
    BY <1>10 DEF IInv, RemoveSink, SingleOwner, InRegistry, InTask, InWorker, JobsDistinct, Fresh, WorkerKnows, CallerKnows
  <2>6. RegistryLinked'
    BY <1>10 DEF IInv, RemoveSink, RegistryLinked, Fresh, CallerKnows
  <2>7. PendingReachable'
    <3> SUFFICES ASSUME NEW s \in Handles, task'[s] = "Pending"
                 PROVE  sinks'[s] # None /\ Carried(s)'
      BY DEF PendingReachable
    <3>1. task[s] = "Pending" /\ sinks'[s] = sinks[s]
      BY <1>10 DEF IInv, RemoveSink, CallerKnows
    <3>2. sinks[s] # None /\ Carried(s)
      BY <3>1 DEF IInv, PendingReachable
    <3> QED BY <1>10, <3>1, <3>2 DEF RemoveSink, Carried
  <2> QED BY <2>1, <2>2, <2>3, <2>4, <2>5, <2>6, <2>7 DEF IInv
<1>11. ASSUME NEW c \in Callers, WaitObserve(c) PROVE IInv'
  <2>1. Fresh'
    BY <1>11 DEF IInv, WaitObserve, WaitTarget, Fresh, JobsDistinct, CallerKnows, WorkerKnows
  <2>2. JobsDistinct'
    BY <1>11 DEF IInv, WaitObserve, WaitTarget, JobsDistinct, Fresh, CallerKnows, WorkerKnows
  <2>3. WorkerKnows'
    BY <1>11 DEF IInv, WaitObserve, WaitTarget, WorkerKnows, Fresh, CallerKnows, JobsDistinct
  <2>4. CallerKnows'
    BY <1>11 DEF IInv, WaitObserve, WaitTarget, CallerKnows, Fresh, WorkerKnows, JobsDistinct
  <2>5. SingleOwner'
    BY <1>11 DEF IInv, WaitObserve, WaitTarget, SingleOwner, InRegistry, InTask, InWorker, JobsDistinct, Fresh, WorkerKnows, CallerKnows
  <2>6. RegistryLinked'
    BY <1>11 DEF IInv, WaitObserve, WaitTarget, RegistryLinked, Fresh, CallerKnows
  <2>7. PendingReachable'
    <3> SUFFICES ASSUME NEW s \in Handles, task'[s] = "Pending"
                 PROVE  sinks'[s] # None /\ Carried(s)'
      BY DEF PendingReachable
    <3>1. task[s] = "Pending" /\ sinks'[s] = sinks[s]
      BY <1>11 DEF IInv, WaitObserve, WaitTarget, CallerKnows
    <3>2. sinks[s] # None /\ Carried(s)
      BY <3>1 DEF IInv, PendingReachable
    <3> QED BY <1>11, <3>1, <3>2 DEF WaitObserve, WaitTarget, Carried
  <2> QED BY <2>1, <2>2, <2>3, <2>4, <2>5, <2>6, <2>7 DEF IInv
<1>12. ASSUME NEW c \in Callers, WaitDrained(c) PROVE IInv'
  <2>1. Fresh'
    BY <1>12 DEF IInv, WaitDrained, Fresh, JobsDistinct, CallerKnows, WorkerKnows
  <2>2. JobsDistinct'
    BY <1>12 DEF IInv, WaitDrained, JobsDistinct, Fresh, CallerKnows, WorkerKnows
  <2>3. WorkerKnows'
    BY <1>12 DEF IInv, WaitDrained, WorkerKnows, Fresh, CallerKnows, JobsDistinct
  <2>4. CallerKnows'
    BY <1>12 DEF IInv, WaitDrained, CallerKnows, Fresh, WorkerKnows, JobsDistinct
  <2>5. SingleOwner'
    BY <1>12 DEF IInv, WaitDrained, SingleOwner, InRegistry, InTask, InWorker, JobsDistinct, Fresh, WorkerKnows, CallerKnows
  <2>6. RegistryLinked'
    BY <1>12 DEF IInv, WaitDrained, RegistryLinked, Fresh, CallerKnows
  <2>7. PendingReachable'
    <3> SUFFICES ASSUME NEW s \in Handles, task'[s] = "Pending"
                 PROVE  sinks'[s] # None /\ Carried(s)'
      BY DEF PendingReachable
    <3>1. task[s] = "Pending" /\ sinks'[s] = sinks[s]
      BY <1>12 DEF IInv, WaitDrained, CallerKnows
    <3>2. sinks[s] # None /\ Carried(s)
      BY <3>1 DEF IInv, PendingReachable
    <3> QED BY <1>12, <3>1, <3>2 DEF WaitDrained, Carried
  <2> QED BY <2>1, <2>2, <2>3, <2>4, <2>5, <2>6, <2>7 DEF IInv
<1>13. CASE WorkerRecv
  <2>1. Fresh'
    BY <1>13 DEF IInv, WorkerRecv, Fresh, JobsDistinct, CallerKnows, WorkerKnows
  <2>2. JobsDistinct'
    BY <1>13 DEF IInv, WorkerRecv, JobsDistinct, Fresh, CallerKnows, WorkerKnows
  <2>3. WorkerKnows'
    <3>1. /\ Head(queue) = queue[1]
          /\ Len(queue') = Len(queue) - 1
          /\ Len(queue) >= 1
          /\ \A i \in 1 .. Len(queue') : queue'[i] = queue[i + 1]
      BY <1>13 DEF WorkerRecv
    <3>2. Head(queue) # None /\ task[Head(queue)] # "Absent"
      BY <3>1 DEF IInv, WorkerKnows
    <3>3. \A i \in 1 .. Len(queue') : queue'[i] # None /\ task[queue'[i]] # "Absent"
      BY <3>1 DEF IInv, WorkerKnows
    <3> QED BY <1>13, <3>2, <3>3 DEF WorkerRecv, WorkerKnows
  <2>4. CallerKnows'
    BY <1>13 DEF IInv, WorkerRecv, CallerKnows, Fresh, WorkerKnows, JobsDistinct
  <2>5. SingleOwner'
    BY <1>13 DEF IInv, WorkerRecv, SingleOwner, InRegistry, InTask, InWorker, JobsDistinct, Fresh, WorkerKnows, CallerKnows
  <2>6. RegistryLinked'
    BY <1>13 DEF IInv, WorkerRecv, RegistryLinked, Fresh, CallerKnows
  <2>7. PendingReachable'
    <3> SUFFICES ASSUME NEW s \in Handles, task'[s] = "Pending"
                 PROVE  sinks'[s] # None /\ Carried(s)'
      BY DEF PendingReachable
    <3>1. sinks[s] # None /\ Carried(s)
      BY <1>13 DEF IInv, PendingReachable, WorkerRecv
    <3>2. CASE \E i \in 1 .. Len(queue) : queue[i] = s
      <4>1. PICK i \in 1 .. Len(queue) : queue[i] = s
        BY <3>2
      <4>2. CASE i = 1
        BY <1>13, <3>1, <4>1, <4>2 DEF WorkerRecv, Carried
      <4>3. CASE i > 1
        <5>1. i - 1 \in 1 .. Len(queue') /\ queue'[i - 1] = s
          BY <1>13, <4>1, <4>3 DEF WorkerRecv
        <5> QED BY <1>13, <3>1, <5>1 DEF WorkerRecv, Carried
      <4> QED BY <4>1, <4>2, <4>3
    <3>3. CASE ~\E i \in 1 .. Len(queue) : queue[i] = s
      BY <1>13, <3>1, <3>3 DEF WorkerRecv, Carried
    <3> QED BY <3>2, <3>3
  <2> QED BY <2>1, <2>2, <2>3, <2>4, <2>5, <2>6, <2>7 DEF IInv
<1>14. CASE WorkerTakeJob
  <2>1. Fresh'
    BY <1>14 DEF IInv, WorkerTakeJob, Fresh, JobsDistinct, CallerKnows, WorkerKnows
  <2>2. JobsDistinct'
    BY <1>14 DEF IInv, WorkerTakeJob, JobsDistinct, Fresh, CallerKnows, WorkerKnows
  <2>3. WorkerKnows'
    BY <1>14 DEF IInv, WorkerTakeJob, WorkerKnows, Fresh, CallerKnows, JobsDistinct
  <2>4. CallerKnows'
    BY <1>14 DEF IInv, WorkerTakeJob, CallerKnows, Fresh, WorkerKnows, JobsDistinct
  <2>5. SingleOwner'
    BY <1>14 DEF IInv, WorkerTakeJob, SingleOwner, InRegistry, InTask, InWorker, JobsDistinct, Fresh, WorkerKnows, CallerKnows
  <2>6. RegistryLinked'
    BY <1>14 DEF IInv, WorkerTakeJob, RegistryLinked, Fresh, CallerKnows
  <2>7. PendingReachable'
    <3> SUFFICES ASSUME NEW s \in Handles, task'[s] = "Pending"
                 PROVE  sinks'[s] # None /\ Carried(s)'
      BY DEF PendingReachable
    <3>1. task[s] = "Pending" /\ sinks'[s] = sinks[s]
      BY <1>14 DEF IInv, WorkerTakeJob, WorkerKnows
    <3>2. sinks[s] # None /\ Carried(s)
      BY <3>1 DEF IInv, PendingReachable
    <3> QED BY <1>14, <3>1, <3>2 DEF WorkerTakeJob, Carried
  <2> QED BY <2>1, <2>2, <2>3, <2>4, <2>5, <2>6, <2>7 DEF IInv
<1>15. CASE WorkerSkipJob
  <2>1. Fresh'
    BY <1>15 DEF IInv, WorkerSkipJob, Fresh, JobsDistinct, CallerKnows, WorkerKnows
  <2>2. JobsDistinct'
    BY <1>15 DEF IInv, WorkerSkipJob, JobsDistinct, Fresh, CallerKnows, WorkerKnows
  <2>3. WorkerKnows'
    BY <1>15 DEF IInv, WorkerSkipJob, WorkerKnows, Fresh, CallerKnows, JobsDistinct
  <2>4. CallerKnows'
    BY <1>15 DEF IInv, WorkerSkipJob, CallerKnows, Fresh, WorkerKnows, JobsDistinct
  <2>5. SingleOwner'
    BY <1>15 DEF IInv, WorkerSkipJob, SingleOwner, InRegistry, InTask, InWorker, JobsDistinct, Fresh, WorkerKnows, CallerKnows
  <2>6. RegistryLinked'
    BY <1>15 DEF IInv, WorkerSkipJob, RegistryLinked, Fresh, CallerKnows
  <2>7. PendingReachable'
    <3> SUFFICES ASSUME NEW s \in Handles, task'[s] = "Pending"
                 PROVE  sinks'[s] # None /\ Carried(s)'
      BY DEF PendingReachable
    <3>1. task[s] = "Pending" /\ sinks'[s] = sinks[s]
      BY <1>15 DEF IInv, WorkerSkipJob, WorkerKnows
    <3>2. sinks[s] # None /\ Carried(s)
      BY <3>1 DEF IInv, PendingReachable
    <3> QED BY <1>15, <3>1, <3>2 DEF WorkerSkipJob, Carried
  <2> QED BY <2>1, <2>2, <2>3, <2>4, <2>5, <2>6, <2>7 DEF IInv
<1>16. ASSUME NEW ok \in BOOLEAN, WorkerFinalize(ok) PROVE IInv'
  <2>1. Fresh'
    BY <1>16 DEF IInv, WorkerFinalize, Fresh, JobsDistinct, CallerKnows, WorkerKnows
  <2>2. JobsDistinct'
    BY <1>16 DEF IInv, WorkerFinalize, JobsDistinct, Fresh, CallerKnows, WorkerKnows
  <2>3. WorkerKnows'
    BY <1>16 DEF IInv, WorkerFinalize, WorkerKnows, Fresh, CallerKnows, JobsDistinct
  <2>4. CallerKnows'
    BY <1>16 DEF IInv, WorkerFinalize, CallerKnows, Fresh, WorkerKnows, JobsDistinct
  <2>5. SingleOwner'
    BY <1>16 DEF IInv, WorkerFinalize, SingleOwner, InRegistry, InTask, InWorker, JobsDistinct, Fresh, WorkerKnows, CallerKnows
  <2>6. RegistryLinked'
    BY <1>16 DEF IInv, WorkerFinalize, RegistryLinked, Fresh, CallerKnows
  <2>7. PendingReachable'
    <3> SUFFICES ASSUME NEW s \in Handles, task'[s] = "Pending"
                 PROVE  sinks'[s] # None /\ Carried(s)'
      BY DEF PendingReachable
    <3>1. task[s] = "Pending" /\ sinks'[s] = sinks[s]
      BY <1>16 DEF IInv, WorkerFinalize, WorkerKnows
    <3>2. sinks[s] # None /\ Carried(s)
      BY <3>1 DEF IInv, PendingReachable
    <3> QED BY <1>16, <3>1, <3>2 DEF WorkerFinalize, Carried
  <2> QED BY <2>1, <2>2, <2>3, <2>4, <2>5, <2>6, <2>7 DEF IInv
<1>17. CASE WorkerComplete
  <2>1. Fresh'
    BY <1>17 DEF IInv, WorkerComplete, CompletedState, Fresh, JobsDistinct, CallerKnows, WorkerKnows
  <2>2. JobsDistinct'
    BY <1>17 DEF IInv, WorkerComplete, CompletedState, JobsDistinct, Fresh, CallerKnows, WorkerKnows
  <2>3. WorkerKnows'
    BY <1>17 DEF IInv, WorkerComplete, CompletedState, WorkerKnows, Fresh, CallerKnows, JobsDistinct
  <2>4. CallerKnows'
    BY <1>17 DEF IInv, WorkerComplete, CompletedState, CallerKnows, Fresh, WorkerKnows, JobsDistinct
  <2>5. SingleOwner'
    BY <1>17 DEF IInv, WorkerComplete, CompletedState, SingleOwner, InRegistry, InTask, InWorker, JobsDistinct, Fresh, WorkerKnows, CallerKnows
  <2>6. RegistryLinked'
    BY <1>17 DEF IInv, WorkerComplete, CompletedState, RegistryLinked, Fresh, CallerKnows
  <2>7. PendingReachable'
    <3> SUFFICES ASSUME NEW s \in Handles, task'[s] = "Pending"
                 PROVE  sinks'[s] # None /\ Carried(s)'
      BY DEF PendingReachable
    <3>1. task[s] = "Pending" /\ sinks'[s] = sinks[s]
      BY <1>17 DEF IInv, WorkerComplete, CompletedState, WorkerKnows
    <3>2. sinks[s] # None /\ Carried(s)
      BY <3>1 DEF IInv, PendingReachable
    <3> QED BY <1>17, <3>1, <3>2 DEF WorkerComplete, CompletedState, Carried
  <2> QED BY <2>1, <2>2, <2>3, <2>4, <2>5, <2>6, <2>7 DEF IInv
<1>18. ASSUME NEW h \in Handles, SinkDrained(h) PROVE IInv'
  <2>1. Fresh'
    BY <1>18 DEF IInv, SinkDrained, Fresh, JobsDistinct, CallerKnows, WorkerKnows
  <2>2. JobsDistinct'
    BY <1>18 DEF IInv, SinkDrained, JobsDistinct, Fresh, CallerKnows, WorkerKnows
  <2>3. WorkerKnows'
    BY <1>18 DEF IInv, SinkDrained, WorkerKnows, Fresh, CallerKnows, JobsDistinct
  <2>4. CallerKnows'
    BY <1>18 DEF IInv, SinkDrained, CallerKnows, Fresh, WorkerKnows, JobsDistinct
  <2>5. SingleOwner'
    BY <1>18 DEF IInv, SinkDrained, SingleOwner, InRegistry, InTask, InWorker, JobsDistinct, Fresh, WorkerKnows, CallerKnows
  <2>6. RegistryLinked'
    BY <1>18 DEF IInv, SinkDrained, RegistryLinked, Fresh, CallerKnows
  <2>7. PendingReachable'
    <3> SUFFICES ASSUME NEW s \in Handles, task'[s] = "Pending"
                 PROVE  sinks'[s] # None /\ Carried(s)'
      BY DEF PendingReachable
    <3>1. task[s] = "Pending" /\ sinks'[s] = sinks[s]
      BY <1>18 DEF IInv, SinkDrained
    <3>2. sinks[s] # None /\ Carried(s)
      BY <3>1 DEF IInv, PendingReachable
    <3> QED BY <1>18, <3>1, <3>2 DEF SinkDrained, Carried
  <2> QED BY <2>1, <2>2, <2>3, <2>4, <2>5, <2>6, <2>7 DEF IInv
<1>19. CASE UNCHANGED vars
  <2>1. Fresh'
    BY <1>19 DEF IInv, vars, Fresh, JobsDistinct, CallerKnows, WorkerKnows
  <2>2. JobsDistinct'
    BY <1>19 DEF IInv, vars, JobsDistinct, Fresh, CallerKnows, WorkerKnows
  <2>3. WorkerKnows'
    BY <1>19 DEF IInv, vars, WorkerKnows, Fresh, CallerKnows, JobsDistinct
  <2>4. CallerKnows'
    BY <1>19 DEF IInv, vars, CallerKnows, Fresh, WorkerKnows, JobsDistinct
  <2>5. SingleOwner'
    BY <1>19 DEF IInv, vars, SingleOwner, InRegistry, InTask, InWorker, JobsDistinct, Fresh, WorkerKnows, CallerKnows
  <2>6. RegistryLinked'
    BY <1>19 DEF IInv, vars, RegistryLinked, Fresh, CallerKnows
  <2>7. PendingReachable'
    <3> SUFFICES ASSUME NEW s \in Handles, task'[s] = "Pending"
                 PROVE  sinks'[s] # None /\ Carried(s)'
      BY DEF PendingReachable
    <3>1. task[s] = "Pending" /\ sinks'[s] = sinks[s]
      BY <1>19 DEF IInv, vars
    <3>2. sinks[s] # None /\ Carried(s)
      BY <3>1 DEF IInv, PendingReachable
    <3> QED BY <1>19, <3>1, <3>2 DEF vars, Carried
  <2> QED BY <2>1, <2>2, <2>3, <2>4, <2>5, <2>6, <2>7 DEF IInv
<1> QED
  BY <1>1, <1>2, <1>3, <1>4, <1>5, <1>6, <1>7, <1>8, <1>9, <1>10, <1>11, <1>12, <1>13, <1>14, <1>15, <1>16, <1>17, <1>18, <1>19
     DEF Next, CallerStep, WorkerStep

(* IInv is an invariant of the specification. *)
LEMMA InvariantHolds == Spec => []IInv
  BY TypeCorrect, InductiveInit, InductiveStep, PTL DEF Spec

(* Ownership is exclusive, nothing outlives its engine and no accepted      *)
(* failure is stranded, whatever the interleaving of OperationFail,         *)
(* EngineClose, SinkWait and the worker, and whatever the limits.           *)
THEOREM SafetyCorrect == Spec => [](SingleOwner /\ RegistryLinked /\ PendingReachable)
<1>1. IInv => SingleOwner /\ RegistryLinked /\ PendingReachable
  BY DEF IInv
<1> QED
  BY <1>1, InvariantHolds, PTL

(* A task that is pending is in the table of sinks and on its way to the    *)
(* worker: with the thread about to send it, in the channel, or just taken  *)
(* from it (FailureWorker::try_send, FailureWork::run).                     *)
THEOREM PendingReachableHolds == Spec => []PendingReachable
<1>1. IInv => PendingReachable
  BY DEF IInv
<1> QED BY <1>1, InvariantHolds, PTL

(* No failure is started by the worker after close_engine removed its       *)
(* engine, for any number of threads and any limits.                        *)
THEOREM NoStartAfterCloseHolds == Spec => NoStartAfterClose
<1>1. IInv /\ [Next]_vars =>
        [\A s \in Handles :
           task[s] = "Pending" /\ task'[s] = "Running" => sinks[s] \in engines]_vars
  BY DEF IInv, PendingReachable, RegistryLinked
<1> QED
  BY <1>1, InvariantHolds, PTL DEF Spec, NoStartAfterClose

(* complete() and every other step leave a cancelled task cancelled. *)
THEOREM CancelIsFinalHolds == Spec => CancelIsFinal
<1>1. ASSUME IInv, [Next]_vars
      PROVE  [\A s \in Handles : task[s] = "Cancelled" => task'[s] = "Cancelled"]_vars
  <2> USE BoundsAssumption DEF TypeOK, Handles, None
  <2> SUFFICES ASSUME NEW s \in Handles, task[s] = "Cancelled", Next
               PROVE  task'[s] = "Cancelled"
    BY <1>1
  <2>1. CASE \E c \in Callers, o \in Handles : FailPrepare(c, o)
    BY <1>1, <2>1 DEF IInv, Fresh, FailPrepare, CanAllocate
  <2>2. CASE \E e \in Handles : EngineClose(e)
    BY <2>2 DEF EngineClose, Cancelled
  <2>3. CASE \E c \in Callers : FailSendRejected(c)
    BY <2>3 DEF FailSendRejected, Cancelled
  <2>4. CASE WorkerTakeJob
    BY <1>1, <2>4 DEF IInv, WorkerTakeJob
  <2>5. CASE WorkerComplete
    BY <1>1, <2>5 DEF IInv, WorkerComplete, CompletedState
  <2> QED
    BY <2>1, <2>2, <2>3, <2>4, <2>5 DEF Next, CallerStep, WorkerStep, EngineOpen,
       OperationBegin, OperationEnd, FailRefused, WaitBegin, FailSend, RemoveSink,
       WaitObserve, WaitDrained, WorkerRecv, WorkerSkipJob, WorkerFinalize, SinkDrained
<1> QED
  BY <1>1, InvariantHolds, PTL DEF Spec, CancelIsFinal

(* A sink slot of an open engine is given back only when its task failed,   *)
(* was cancelled or its managed sink drained.                               *)
THEOREM SlotHeldUntilSettledHolds == Spec => SlotHeldUntilSettled
<1>1. ASSUME IInv, [Next]_vars
      PROVE  [\A s \in Handles :
                sinks[s] # None /\ sinks'[s] = None /\ sinks[s] \in engines' =>
                  \/ task[s] \in {"Failed", "Cancelled"}
                  \/ task[s] = "Ready" /\ delivered[s]]_vars
  <2> USE BoundsAssumption DEF TypeOK, Handles, MaybeHandle, None
  <2> SUFFICES ASSUME NEW s \in Handles, sinks[s] # None, sinks'[s] = None,
                      sinks[s] \in engines', Next
               PROVE  \/ task[s] \in {"Failed", "Cancelled"}
                      \/ task[s] = "Ready" /\ delivered[s]
    BY <1>1
  <2>1. CASE \E c \in Callers : RemoveSink(c)
    BY <1>1, <2>1 DEF IInv, RemoveSink, CallerKnows
  <2>2. CASE \E e \in Handles : EngineClose(e)
    BY <2>2 DEF EngineClose, RemoveEngineEntries
  <2>3. CASE \E c \in Callers, o \in Handles : FailPrepare(c, o)
    BY <1>1, <2>3 DEF IInv, FailPrepare, CanAllocate
  <2> QED
    BY <2>1, <2>2, <2>3 DEF Next, CallerStep, WorkerStep, EngineOpen,
       OperationBegin, OperationEnd, FailRefused, WaitBegin, FailSend,
       FailSendRejected, WaitObserve, WaitDrained, WorkerRecv, WorkerTakeJob,
       WorkerSkipJob, WorkerFinalize, WorkerComplete, SinkDrained
<1> QED
  BY <1>1, InvariantHolds, PTL DEF Spec, SlotHeldUntilSettled
=============================================================================
