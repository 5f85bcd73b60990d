--------------------------- MODULE Sentinel_proofs ---------------------------
(***************************************************************************)
(* Proofs about Sentinel, for any threads, operations, observations and    *)
(* limits.                                                                 *)
(*                                                                         *)
(* KnownNeverClean and CleanAccountsForEffects say nothing of the time     *)
(* between an effect and the verdict.  In that time an operation with an   *)
(* unowned effect is Doomed: it is incomplete already, the trace is not    *)
(* healthy, or the pipe holds an event no observation can own.  The event  *)
(* stays unowned until it is read, because an observation is dispatched    *)
(* on a thread only by that thread, after it has drained its own events.   *)
(* Likewise each effect that was an operation's own is counted, or waits   *)
(* in the pipe, or the operation is Doomed.                                *)
(***************************************************************************)
EXTENDS Sentinel, FiniteSetTheorems, SequenceTheorems, TLAPS

Events == [tid : Threads, kind : Kinds]

ThreadRecords ==
  [at : Points, kind : Kinds \cup {"none"}, call : Calls \cup {"none"},
   op : Operations \cup {Nobody}, obs : Observations \cup {Nobody}]

ObservationRecords ==
  [op : Operations \cup {Nobody}, class : AllClasses, tid : Threads \cup {Nobody}]

(* The points of a call at which the thread holds the controller mutex. *)
InCall == {"draining", "checking", "applying"}

(* Observation b could own event e. *)
AbleTo(b, e) == DispatchedOn(b, e.tid) /\ IsOwnedBy(e.kind, observation[b].class)

Unowned(e) == \A b \in Observations : ~AbleTo(b, e)

(* A single observation could own event e, and it is one of operation o. *)
Sole(e, o) ==
  \E b \in Observations :
    /\ AbleTo(b, e) /\ observation[b].op = o
    /\ \A c \in Observations : AbleTo(c, e) => c = b

UnownedWaits == \E i \in DOMAIN pipe : Unowned(pipe[i])

(* The places of the unread events that are operation o's own. *)
Waiting(o) == {i \in DOMAIN pipe : Sole(pipe[i], o)}

Distrusted(o) == incomplete[o] \/ ~Healthy

Doomed(o) == Distrusted(o) \/ UnownedWaits

(* n effects of operation o are counted or wait in the pipe. *)
Accounted(o, n) == Doomed(o) \/ n <= owned[o] + Cardinality(Waiting(o))

(* Thread t is in the call that finishes operation o. *)
Finishing(t, o) == mutex = t /\ thread[t].call = "finish" /\ thread[t].op = o

GoodThread(t) ==
  /\ thread[t].at \in {"entry", "emitting"} => alive /\ thread[t].kind \in Kinds
  /\ mutex = t <=> thread[t].at \in InCall
  /\ mutex = t =>
       /\ thread[t].call = "start" => thread[t].op \in Operations \ begun
       /\ thread[t].call \in {"finish", "remove"} => thread[t].op \in begun
       /\ thread[t].at # "draining" => \A i \in DOMAIN pipe : pipe[i].tid # t

Emitting == \E t \in Threads : thread[t].at = "emitting"

Tracer ==
  /\ alive => installed
  /\ ~installed => pipe = <<>> /\ queued = 0
  /\ \A t, u \in Threads : thread[t].at = "emitting" /\ thread[u].at = "emitting" => t = u
  /\ Len(pipe) <= queued
  /\ alive => queued = Len(pipe) + (IF Emitting THEN 1 ELSE 0)
  /\ sequence > MaxEvents => overflowed
  /\ IsFiniteSet(ignored)

(* What holds of an operation until its verdict. *)
GoodActive(o) ==
  /\ ~incomplete[o] => installed /\ relevant[o] = owned[o]
  /\ o \in suspect => Doomed(o)
  /\ Accounted(o, effects[o])
  /\ o \in known => \E t \in Threads : Finishing(t, o)
  /\ \A t \in Threads : Finishing(t, o) =>
       IF thread[t].at = "draining"
         THEN (o \in known => Doomed(o)) /\ Accounted(o, counted[o])
         ELSE (o \in known => Distrusted(o)) /\ (Distrusted(o) \/ counted[o] <= owned[o])

GoodOperation(o) ==
  /\ o \in active => o \in begun /\ GoodActive(o)
  /\ o \in suspect \/ o \in known => o \in begun
  /\ o \in clean => /\ o \in begun /\ o \notin active /\ o \notin known
                    /\ relevant[o] = owned[o] /\ counted[o] <= owned[o]
  /\ o \notin begun => effects[o] = 0

IInv ==
  /\ TypeOK
  /\ \A t \in Threads : GoodThread(t)
  /\ Tracer
  /\ \A o \in Operations : GoodOperation(o)

-----------------------------------------------------------------------------
(***************************************************************************)
(* Records and the pipe.                                                   *)
(***************************************************************************)
(* What a thread is doing, as a record. *)
LEMMA ThreadRecord ==
  ASSUME NEW at \in Points, NEW kind \in Kinds \cup {"none"}, NEW call \in Calls \cup {"none"},
         NEW op \in Operations \cup {Nobody}, NEW obs \in Observations \cup {Nobody}
  PROVE  LET r == ThreadAt(at, kind, call, op, obs)
         IN  /\ r \in ThreadRecords
             /\ r.at = at /\ r.kind = kind /\ r.call = call /\ r.op = op /\ r.obs = obs
BY DEF ThreadAt, ThreadRecords

(* A thread that runs the application. *)
LEMMA InAppRecord == InApp \in ThreadRecords /\ InApp.at = "app"
BY DEF InApp, ThreadAt, ThreadRecords, Points

(* A thread the tracer has stopped. *)
LEMMA StoppedRecord ==
  ASSUME NEW at \in Points, NEW kind \in Kinds
  PROVE  /\ Stopped(at, kind) \in ThreadRecords /\ Stopped(at, kind).at = at
         /\ Stopped(at, kind).kind = kind
BY DEF Stopped, ThreadAt, ThreadRecords

(* A thread inside an engine call. *)
LEMMA CallingRecord ==
  ASSUME NEW at \in Points, NEW call \in Calls \cup {"none"},
         NEW op \in Operations \cup {Nobody}, NEW obs \in Observations \cup {Nobody}
  PROVE  /\ Calling(at, call, op, obs) \in ThreadRecords
         /\ Calling(at, call, op, obs).at = at /\ Calling(at, call, op, obs).call = call
         /\ Calling(at, call, op, obs).op = op /\ Calling(at, call, op, obs).obs = obs
BY DEF Calling, ThreadAt, ThreadRecords

(* The unread events that are an operation's own are finitely many. *)
LEMMA WaitingFinite ==
  ASSUME TypeOK
  PROVE  /\ DOMAIN pipe = 1 .. Len(pipe) /\ Len(pipe) \in Nat
         /\ \A o : IsFiniteSet(Waiting(o)) /\ Cardinality(Waiting(o)) \in Nat
<1>1. pipe \in Seq(Events)
  BY DEF TypeOK, Events
<1>2. DOMAIN pipe = 1 .. Len(pipe) /\ Len(pipe) \in Nat
  BY <1>1
<1>3. IsFiniteSet(1 .. Len(pipe))
  BY <1>2, FS_Interval
<1>4. ASSUME NEW o PROVE IsFiniteSet(Waiting(o)) /\ Cardinality(Waiting(o)) \in Nat
  <2>1. Waiting(o) \in SUBSET (1 .. Len(pipe))
    BY <1>2 DEF Waiting
  <2>2. IsFiniteSet(Waiting(o))
    BY <1>3, <2>1, FS_Subset
  <2> QED BY <2>2, FS_CardinalityType
<1> QED BY <1>2, <1>4

(* Reading the first of n places leaves the others, one place earlier. *)
LEMMA ShiftedPlaces ==
  ASSUME NEW n \in Nat, NEW S \in SUBSET (1 .. n), NEW T \in SUBSET (1 .. n - 1),
         \A i \in S : i # 1 => i - 1 \in T
  PROVE  Cardinality(S) <= Cardinality(T) + (IF 1 \in S THEN 1 ELSE 0)
<1>1. IsFiniteSet(S) /\ IsFiniteSet(T) /\ Cardinality(S) \in Nat /\ Cardinality(T) \in Nat
  <2>1. IsFiniteSet(1 .. n) /\ IsFiniteSet(1 .. n - 1)
    BY FS_Interval
  <2>2. IsFiniteSet(S) /\ IsFiniteSet(T)
    BY <2>1, FS_Subset
  <2> QED BY <2>2, FS_CardinalityType
<1> DEFINE R == S \ {1}
           f == [i \in R |-> i - 1]
<1>2. f \in Injection(R, T)
  <2>1. f \in [R -> T]
    OBVIOUS
  <2>2. ASSUME NEW a \in R, NEW b \in R, f[a] = f[b] PROVE a = b
    <3>1. a \in Int /\ b \in Int /\ a - 1 = b - 1
      BY <2>2
    <3> QED BY <3>1
  <2> QED BY <2>1, <2>2 DEF Injection, IsInjective
<1> HIDE DEF f
<1>3. Cardinality(R) <= Cardinality(T)
  BY <1>1, <1>2, FS_Injection
<1>4. Cardinality(R) = IF 1 \in S THEN Cardinality(S) - 1 ELSE Cardinality(S)
  BY <1>1, FS_RemoveElement
<1> HIDE DEF R
<1> QED BY <1>1, <1>3, <1>4

-----------------------------------------------------------------------------
(***************************************************************************)
(* What other threads rely on is kept.                                     *)
(***************************************************************************)
(* A thread that does not move. *)
LEMMA ThreadKept ==
  ASSUME NEW t \in Threads, GoodThread(t), thread'[t] = thread[t],
         thread[t].at \in {"entry", "emitting"} => alive',
         mutex' = t <=> mutex = t,
         mutex = t => begun' = begun,
         mutex = t /\ thread[t].at # "draining" => \A i \in DOMAIN pipe' : pipe'[i].tid # t
  PROVE  GoodThread(t)'
BY DEF GoodThread

(* An operation that neither starts nor ends, and whose finishing call, if    *)
(* any, is as far as it was.                                                  *)
LEMMA OperationKept ==
  ASSUME NEW o \in Operations, GoodOperation(o),
         owned[o] \in Nat, owned'[o] \in Nat, counted[o] \in Nat, owned[o] <= owned'[o],
         o \in active' <=> o \in active, o \in begun' <=> o \in begun,
         o \in clean' <=> o \in clean, o \in known' <=> o \in known,
         counted'[o] = counted[o],
         o \notin active => relevant'[o] = relevant[o] /\ owned'[o] = owned[o],
         o \notin begun => effects'[o] = effects[o],
         o \in suspect' => o \in suspect \/ (o \in active /\ Doomed(o)'),
         o \in active =>
           /\ ~incomplete'[o] => installed' /\ relevant'[o] = owned'[o]
           /\ Distrusted(o) => Distrusted(o)'
           /\ Doomed(o) => Doomed(o)'
           /\ Accounted(o, effects[o]) => Accounted(o, effects[o])'
           /\ Accounted(o, counted[o]) => Accounted(o, counted[o])',
         \A t \in Threads :
           /\ Finishing(t, o)' <=> Finishing(t, o)
           /\ Finishing(t, o) => (thread'[t].at = "draining" <=> thread[t].at = "draining")
  PROVE  GoodOperation(o)'
<1>1. ASSUME o \in active PROVE GoodActive(o)'
  <2>1. GoodActive(o)
    BY <1>1 DEF GoodOperation
  <2>2. o \in suspect' => Doomed(o)'
    BY <1>1, <2>1 DEF GoodActive
  <2>3. o \in known' => \E t \in Threads : Finishing(t, o)'
    BY <2>1 DEF GoodActive
  <2>4. Accounted(o, effects[o])'
    BY <1>1, <2>1 DEF GoodActive
  <2>5. ASSUME NEW t \in Threads, Finishing(t, o)'
        PROVE  IF thread'[t].at = "draining"
                 THEN (o \in known' => Doomed(o)') /\ Accounted(o, counted[o])'
                 ELSE (o \in known' => Distrusted(o)') /\ (Distrusted(o)' \/ counted'[o] <= owned'[o])
    <3>1. Finishing(t, o) /\ (thread'[t].at = "draining" <=> thread[t].at = "draining")
      BY <2>5
    <3>2. CASE thread[t].at = "draining"
      BY <1>1, <2>1, <3>1, <3>2 DEF GoodActive
    <3>3. CASE thread[t].at # "draining"
      BY <1>1, <2>1, <3>1, <3>3 DEF GoodActive
    <3> QED BY <3>2, <3>3
  <2> QED BY <1>1, <2>2, <2>3, <2>4, <2>5 DEF GoodActive
<1> QED BY <1>1 DEF GoodOperation

(* IInv holds before any engine is open. *)
LEMMA InductiveInit == Init => IInv
<1> SUFFICES ASSUME Init PROVE IInv
  OBVIOUS
<1> USE DEF Init
<1>1. TypeOK
  <2>1. thread \in [Threads -> ThreadRecords]
    BY InAppRecord
  <2>2. observation \in [Observations -> ObservationRecords]
    BY DEF Absent, ObservationRecords, AllClasses
  <2>3. Cardinality(ignored) <= MaxIgnored /\ pipe \in Seq(Events)
    BY FS_EmptySet, SentinelAssumption
  <2>4. /\ engineCount \in 0 .. MaxEngines /\ sequence \in 0 .. (MaxEvents + 1)
        /\ queued \in 0 .. MaxQueued
        /\ startedAt \in [Operations -> 0 .. (MaxEvents + 1)]
    BY SentinelAssumption
  <2>5. /\ relevant \in [Operations -> Nat] /\ owned \in [Operations -> Nat]
        /\ effects \in [Operations -> Nat] /\ counted \in [Operations -> Nat]
        /\ incomplete \in [Operations -> BOOLEAN]
    OBVIOUS
  <2> QED BY <2>1, <2>2, <2>3, <2>4, <2>5 DEF TypeOK, ThreadRecords, ObservationRecords, Events
<1>2. \A t \in Threads : GoodThread(t)
  BY InAppRecord, SentinelAssumption DEF GoodThread, InCall
<1>3. Tracer
  <2>1. ~Emitting
    BY InAppRecord DEF Emitting
  <2> QED BY <2>1, InAppRecord, FS_EmptySet, SentinelAssumption DEF Tracer
<1>4. \A o \in Operations : GoodOperation(o)
  BY DEF GoodOperation
<1> QED BY <1>1, <1>2, <1>3, <1>4 DEF IInv

-----------------------------------------------------------------------------
(***************************************************************************)
(* Steps that leave the pipe, the observations and the operations alone.   *)
(***************************************************************************)
(* The health of the trace does not come back while an operation relies on    *)
(* it; an effect that occurs unseen leaves the trace unhealthy.               *)
LEMMA QuietStep ==
  ASSUME IInv, TypeOK', Tracer', \A t \in Threads : GoodThread(t)',
         UNCHANGED <<pipe, observation, operationVars, clean, known, counted, mutex>>,
         installed => installed',
         Healthy' => Healthy \/ \A o \in active : incomplete[o],
         \/ suspect' = suspect /\ effects' = effects
         \/ /\ ~Healthy' /\ suspect' \subseteq suspect \cup active
            /\ \A o \in Operations : o \notin active => effects'[o] = effects[o],
         \A t \in Threads : mutex = t => thread'[t] = thread[t]
  PROVE  IInv'
<1> USE DEF operationVars
<1>1. ASSUME NEW o \in Operations PROVE GoodOperation(o)'
  <2>1. GoodOperation(o) /\ TypeOK
    BY DEF IInv
  <2>2. owned[o] \in Nat /\ counted[o] \in Nat
    BY <2>1 DEF TypeOK
  <2>3. UnownedWaits' <=> UnownedWaits
    BY DEF UnownedWaits, Unowned, AbleTo, DispatchedOn, Open
  <2>4. Waiting(o)' = Waiting(o)
    BY DEF Waiting, Sole, AbleTo, DispatchedOn, Open
  <2>5. o \in active => /\ Distrusted(o) => Distrusted(o)'
                        /\ Doomed(o) => Doomed(o)'
    BY <2>3 DEF Distrusted, Doomed
  <2>6. o \in active => /\ Accounted(o, effects[o]) => Accounted(o, effects[o])'
                        /\ Accounted(o, counted[o]) => Accounted(o, counted[o])'
    BY <2>4, <2>5 DEF Accounted, Doomed, Distrusted
  <2>7. o \in suspect' => o \in suspect \/ (o \in active /\ Doomed(o)')
    BY DEF Doomed, Distrusted
  <2>8. o \in active => (~incomplete'[o] => installed' /\ relevant'[o] = owned'[o])
    BY <2>1 DEF GoodOperation, GoodActive
  <2>9. \A t \in Threads :
           /\ Finishing(t, o)' <=> Finishing(t, o)
           /\ Finishing(t, o) => (thread'[t].at = "draining" <=> thread[t].at = "draining")
    BY DEF Finishing
  <2>10. o \notin begun => effects'[o] = effects[o]
    BY <2>1 DEF GoodOperation
  <2> QED BY <2>1, <2>2, <2>5, <2>6, <2>7, <2>8, <2>9, <2>10, OperationKept
<1> QED BY <1>1 DEF IInv

(* Threads that are in no call change place; the mutex stays where it is. *)
LEMMA ThreadsMove ==
  ASSUME IInv, UNCHANGED <<pipe, begun, mutex>>,
         \A t \in Threads :
           \/ thread'[t] = thread[t] /\ (thread[t].at \in {"entry", "emitting"} => alive')
           \/ /\ thread[t].at \notin InCall /\ thread'[t].at \notin InCall
              /\ thread'[t].at \in {"entry", "emitting"} => alive' /\ thread'[t].kind \in Kinds
  PROVE  \A t \in Threads : GoodThread(t)' /\ (mutex = t => thread'[t] = thread[t])
<1> SUFFICES ASSUME NEW t \in Threads
             PROVE  GoodThread(t)' /\ (mutex = t => thread'[t] = thread[t])
  OBVIOUS
<1>1. GoodThread(t)
  BY DEF IInv
<1>2. CASE thread'[t] = thread[t] /\ (thread[t].at \in {"entry", "emitting"} => alive')
  <2>1. mutex = t /\ thread[t].at # "draining" => \A i \in DOMAIN pipe' : pipe'[i].tid # t
    BY <1>1 DEF GoodThread
  <2> QED BY <1>1, <1>2, <2>1, ThreadKept
<1>3. CASE /\ thread[t].at \notin InCall /\ thread'[t].at \notin InCall
           /\ thread'[t].at \in {"entry", "emitting"} => alive' /\ thread'[t].kind \in Kinds
  BY <1>1, <1>3 DEF GoodThread
<1> QED BY <1>2, <1>3

(* Whatever an effect means, it means it for the active operations. *)
LEMMA EffectFacts ==
  ASSUME TypeOK, NEW t, NEW kind, EffectOccurs(t, kind)
  PROVE  /\ suspect' \in SUBSET Operations /\ suspect' \subseteq suspect \cup active
         /\ effects' \in [Operations -> Nat]
         /\ \A o \in Operations : o \notin active => effects'[o] = effects[o]
         /\ \A o \in Operations : effects'[o] <= effects[o] + 1
         /\ known' = known /\ counted' = counted
<1>1. active \in SUBSET Operations /\ suspect \in SUBSET Operations /\ effects \in [Operations -> Nat]
  BY DEF TypeOK
<1>2. suspect' \in SUBSET Operations /\ suspect' \subseteq suspect \cup active
  BY <1>1 DEF EffectOccurs
<1>3. \A n \in Nat : Bump(n) \in Nat /\ Bump(n) <= n + 1
  BY SentinelAssumption DEF Bump
<1>4. DOMAIN effects' = Operations /\ effects' = [o \in Operations |-> effects'[o]]
  BY DEF EffectOccurs
<1>5. ASSUME NEW o \in Operations
      PROVE  /\ effects'[o] \in Nat /\ effects'[o] <= effects[o] + 1
             /\ o \notin active => effects'[o] = effects[o]
  <2>1. effects[o] \in Nat
    BY <1>1
  <2>2. effects'[o] = Bump(effects[o]) \/ effects'[o] = effects[o]
    BY DEF EffectOccurs
  <2>3. o \notin active => effects'[o] = effects[o]
    BY DEF EffectOccurs
  <2> QED BY <1>3, <2>1, <2>2, <2>3
<1>6. effects' \in [Operations -> Nat]
  BY <1>4, <1>5
<1> QED BY <1>2, <1>5, <1>6 DEF EffectOccurs

(* SyscallEntry keeps IInv. *)
LEMMA SyscallEntryStep ==
  ASSUME IInv, NEW t \in Threads, NEW kind \in Kinds, SyscallEntry(t, kind)
  PROVE  IInv'
<1> USE DEF tracerVars, engineVars, operationVars, historyVars
<1>1. PICK r \in ThreadRecords : r = Stopped("entry", kind) /\ r.at = "entry" /\ r.kind = kind
  BY StoppedRecord DEF Points
<1>2. /\ thread[t].at = "app" /\ alive /\ thread' = [thread EXCEPT ![t] = r]
      /\ UNCHANGED <<engineVars, tracerVars, ignored, operationVars, observation, mutex, clean,
                     historyVars>>
  BY <1>1 DEF SyscallEntry
<1>3. TypeOK /\ Tracer
  BY DEF IInv
<1>4. /\ thread' \in [Threads -> ThreadRecords] /\ thread'[t] = r
      /\ \A u \in Threads : u # t => thread'[u] = thread[u]
  BY <1>1, <1>2, <1>3 DEF TypeOK, ThreadRecords
<1>5. TypeOK'
  BY <1>2, <1>3, <1>4 DEF TypeOK, ThreadRecords
<1>6. \A u \in Threads : thread'[u].at = "emitting" <=> thread[u].at = "emitting"
  BY <1>1, <1>2, <1>4
<1>7. Tracer'
  <2>1. Emitting' <=> Emitting
    BY <1>6 DEF Emitting
  <2> QED BY <1>2, <1>3, <1>6, <2>1 DEF Tracer
<1>8. \A u \in Threads : GoodThread(u)' /\ (mutex = u => thread'[u] = thread[u])
  <2>1. \A u \in Threads :
           \/ thread'[u] = thread[u] /\ (thread[u].at \in {"entry", "emitting"} => alive')
           \/ /\ thread[u].at \notin InCall /\ thread'[u].at \notin InCall
              /\ thread'[u].at \in {"entry", "emitting"} => alive' /\ thread'[u].kind \in Kinds
    BY <1>1, <1>2, <1>4 DEF InCall
  <2>2. UNCHANGED <<pipe, begun, mutex>>
    BY <1>2
  <2> QED BY <2>1, <2>2, ThreadsMove
<1>9. Healthy' <=> Healthy
  BY <1>2 DEF Healthy
<1> HIDE DEF operationVars
<1>10. UNCHANGED <<pipe, observation, operationVars, clean, known, counted, mutex>>
  BY <1>2
<1> QED BY <1>2, <1>5, <1>7, <1>8, <1>9, <1>10, QuietStep

(* SyscallUntraced keeps IInv. *)
LEMMA SyscallUntracedStep ==
  ASSUME IInv, NEW t \in Threads, NEW kind \in Kinds, SyscallUntraced(t, kind)
  PROVE  IInv'
<1> USE DEF tracerVars, engineVars, operationVars
<1>1. /\ ~(installed /\ alive) /\ EffectOccurs(t, kind)
      /\ UNCHANGED <<engineVars, tracerVars, ignored, operationVars, observation, mutex, thread, clean>>
  BY DEF SyscallUntraced
<1>2. TypeOK /\ Tracer
  BY DEF IInv
<1>3. TypeOK'
  BY <1>1, <1>2, EffectFacts DEF TypeOK
<1>4. Tracer'
  BY <1>1, <1>2 DEF Tracer, Emitting
<1>5. \A u \in Threads : GoodThread(u)'
  BY <1>1 DEF IInv, GoodThread
<1>6. ~Healthy'
  BY <1>1 DEF Healthy
<1> HIDE DEF operationVars
<1>7. UNCHANGED <<pipe, observation, operationVars, clean, known, counted, mutex, installed, thread>>
  BY <1>1, <1>2, EffectFacts
<1>8. /\ suspect' \subseteq suspect \cup active
      /\ \A o \in Operations : o \notin active => effects'[o] = effects[o]
  BY <1>1, <1>2, EffectFacts
<1> QED BY <1>3, <1>4, <1>5, <1>6, <1>7, <1>8, QuietStep

(* A stopped thread goes on without its event in the pipe: the overflow flag  *)
(* is set.                                                                    *)
LEMMA EventLost ==
  ASSUME IInv, NEW t \in Threads, thread[t].at \in {"entry", "emitting"}, alive,
         EffectOccurs(t, thread[t].kind), thread' = [thread EXCEPT ![t] = InApp],
         overflowed' = TRUE, sequence' \in 0 .. (MaxEvents + 1),
         queued' \in 0 .. MaxQueued, queued' = Len(pipe),
         \A u \in Threads : u # t => thread[u].at # "emitting",
         UNCHANGED <<engineVars, alive, pipe, ignored, operationVars, observation, mutex, clean>>
  PROVE  IInv'
<1> USE DEF engineVars, operationVars
<1>1. TypeOK /\ Tracer
  BY DEF IInv
<1>2. /\ thread' \in [Threads -> ThreadRecords] /\ thread'[t] = InApp
      /\ \A u \in Threads : u # t => thread'[u] = thread[u]
  BY <1>1, InAppRecord DEF TypeOK, ThreadRecords
<1>3. /\ suspect' \in SUBSET Operations /\ suspect' \subseteq suspect \cup active
      /\ effects' \in [Operations -> Nat]
      /\ \A o \in Operations : o \notin active => effects'[o] = effects[o]
      /\ known' = known /\ counted' = counted
  BY <1>1, EffectFacts
<1>4. TypeOK'
  BY <1>1, <1>2, <1>3 DEF TypeOK, ThreadRecords
<1>5. \A u \in Threads : thread'[u].at # "emitting"
  BY <1>2, InAppRecord
<1>6. Tracer'
  <2>1. ~Emitting'
    BY <1>5 DEF Emitting
  <2>2. Len(pipe) \in Nat /\ installed
    BY <1>1, WaitingFinite DEF Tracer
  <2> QED BY <1>1, <1>5, <2>1, <2>2 DEF Tracer
<1>7. \A u \in Threads : GoodThread(u)' /\ (mutex = u => thread'[u] = thread[u])
  <2>1. \A u \in Threads :
           \/ thread'[u] = thread[u] /\ (thread[u].at \in {"entry", "emitting"} => alive')
           \/ /\ thread[u].at \notin InCall /\ thread'[u].at \notin InCall
              /\ thread'[u].at \in {"entry", "emitting"} => alive' /\ thread'[u].kind \in Kinds
    BY <1>2, InAppRecord DEF InCall
  <2>2. UNCHANGED <<pipe, begun, mutex>>
    OBVIOUS
  <2> QED BY <2>1, <2>2, ThreadsMove
<1>8. ~Healthy'
  BY DEF Healthy
<1> HIDE DEF operationVars
<1>9. UNCHANGED <<pipe, observation, operationVars, clean, known, counted, mutex, installed>>
  BY <1>3
<1> QED BY <1>3, <1>4, <1>6, <1>7, <1>8, <1>9, QuietStep

(* EmitDropped keeps IInv. *)
LEMMA EmitDroppedStep ==
  ASSUME IInv, NEW t \in Threads, EmitDropped(t)
  PROVE  IInv'
<1>1. /\ thread[t].at = "entry" /\ alive /\ EffectOccurs(t, thread[t].kind)
      /\ \A u \in Threads : thread[u].at # "emitting"
      /\ thread' = [thread EXCEPT ![t] = InApp] /\ overflowed' = TRUE
      /\ sequence' = sequence /\ queued' = queued
      /\ UNCHANGED <<engineVars, alive, pipe, ignored, operationVars, observation, mutex, clean>>
  BY DEF EmitDropped, EmitOverflow
<1>2. sequence \in 0 .. (MaxEvents + 1) /\ queued \in 0 .. MaxQueued
  BY DEF IInv, TypeOK
<1>3. queued = Len(pipe)
  <2>1. ~Emitting
    BY <1>1 DEF Emitting
  <2>2. Len(pipe) \in Nat
    BY WaitingFinite DEF IInv
  <2> QED BY <1>1, <2>1, <2>2 DEF IInv, Tracer
<1> QED BY <1>1, <1>2, <1>3, EventLost

(* EmitExhausted keeps IInv. *)
LEMMA EmitExhaustedStep ==
  ASSUME IInv, NEW t \in Threads, EmitExhausted(t)
  PROVE  IInv'
<1>1. /\ thread[t].at = "entry" /\ alive /\ EffectOccurs(t, thread[t].kind)
      /\ \A u \in Threads : thread[u].at # "emitting"
      /\ thread' = [thread EXCEPT ![t] = InApp] /\ overflowed' = TRUE /\ ~overflowed
      /\ sequence' = sequence + 1 /\ queued' = queued
      /\ UNCHANGED <<engineVars, alive, pipe, ignored, operationVars, observation, mutex, clean>>
  BY DEF EmitExhausted, EmitOverflow
<1>2. sequence \in 0 .. (MaxEvents + 1) /\ queued \in 0 .. MaxQueued /\ Tracer
  BY DEF IInv, TypeOK
<1>3. sequence' \in 0 .. (MaxEvents + 1)
  BY <1>1, <1>2, SentinelAssumption DEF Tracer
<1>4. queued = Len(pipe)
  <2>1. ~Emitting
    BY <1>1 DEF Emitting
  <2>2. Len(pipe) \in Nat
    BY WaitingFinite DEF IInv
  <2> QED BY <1>1, <1>2, <2>1, <2>2 DEF Tracer
<1> QED BY <1>1, <1>2, <1>3, <1>4, EventLost

(* EmitWriteFailed keeps IInv. *)
LEMMA EmitWriteFailedStep ==
  ASSUME IInv, NEW t \in Threads, EmitWriteFailed(t)
  PROVE  IInv'
<1>1. /\ thread[t].at = "emitting" /\ alive /\ EffectOccurs(t, thread[t].kind)
      /\ thread' = [thread EXCEPT ![t] = InApp] /\ overflowed' = TRUE
      /\ sequence' = sequence /\ queued' = queued - 1
      /\ UNCHANGED <<engineVars, alive, pipe, ignored, operationVars, observation, mutex, clean>>
  BY DEF EmitWriteFailed, EmitOverflow, Uncount
<1>2. sequence \in 0 .. (MaxEvents + 1) /\ queued \in 0 .. MaxQueued /\ Tracer /\ Len(pipe) \in Nat
  BY WaitingFinite DEF IInv, TypeOK
<1>3. Emitting /\ \A u \in Threads : u # t => thread[u].at # "emitting"
  BY <1>1, <1>2 DEF Tracer, Emitting
<1>4. queued = Len(pipe) + 1
  BY <1>1, <1>2, <1>3 DEF Tracer
<1>5. queued' = Len(pipe) /\ queued' \in 0 .. MaxQueued
  BY <1>1, <1>2, <1>4, SentinelAssumption
<1> QED BY <1>1, <1>2, <1>3, <1>5, EventLost

(* TrackingLost keeps IInv. *)
LEMMA TrackingLostStep ==
  ASSUME IInv, TrackingLost
  PROVE  IInv'
<1> USE DEF engineVars, operationVars, historyVars
<1>1. /\ alive /\ overflowed' = TRUE /\ \A u \in Threads : thread[u].at # "emitting"
      /\ UNCHANGED <<engineVars, alive, sequence, queued, pipe, ignored, operationVars,
                     observation, mutex, thread, clean, historyVars>>
  BY DEF TrackingLost
<1>2. TypeOK /\ Tracer
  BY DEF IInv
<1>3. TypeOK'
  BY <1>1, <1>2 DEF TypeOK
<1>4. Tracer'
  BY <1>1, <1>2 DEF Tracer, Emitting
<1>5. \A u \in Threads : GoodThread(u)'
  BY <1>1 DEF IInv, GoodThread
<1>6. ~Healthy'
  BY <1>1 DEF Healthy
<1> HIDE DEF operationVars
<1>7. UNCHANGED <<pipe, observation, operationVars, clean, known, counted, mutex, installed, thread>>
  BY <1>1
<1>8. /\ suspect' \subseteq suspect \cup active
      /\ \A o \in Operations : o \notin active => effects'[o] = effects[o]
  BY <1>1
<1> QED BY <1>3, <1>4, <1>5, <1>6, <1>7, <1>8, QuietStep

(* EmitReserve keeps IInv. *)
LEMMA EmitReserveStep ==
  ASSUME IInv, NEW t \in Threads, EmitReserve(t)
  PROVE  IInv'
<1> USE DEF engineVars, operationVars, historyVars
<1>1. TypeOK /\ Tracer /\ GoodThread(t) /\ Len(pipe) \in Nat
  BY WaitingFinite DEF IInv
<1>2. PICK kind \in Kinds : kind = thread[t].kind
  BY <1>1 DEF EmitReserve, GoodThread
<1>3. PICK r \in ThreadRecords : r = Stopped("emitting", kind) /\ r.at = "emitting" /\ r.kind = kind
  BY StoppedRecord DEF Points
<1>4. /\ thread[t].at = "entry" /\ alive /\ ~overflowed /\ ~QueueFull /\ sequence < MaxEvents
      /\ \A u \in Threads : thread[u].at # "emitting"
      /\ queued' = queued + 1 /\ sequence' = sequence + 1 /\ thread' = [thread EXCEPT ![t] = r]
      /\ UNCHANGED <<engineVars, alive, overflowed, pipe, ignored, operationVars, observation, mutex,
                     clean, historyVars>>
  BY <1>2, <1>3 DEF EmitReserve
<1>5. /\ thread' \in [Threads -> ThreadRecords] /\ thread'[t] = r
      /\ \A u \in Threads : u # t => thread'[u] = thread[u]
  BY <1>1, <1>4 DEF TypeOK, ThreadRecords
<1>6. queued' \in 0 .. MaxQueued /\ sequence' \in 0 .. (MaxEvents + 1) /\ ~(sequence' > MaxEvents)
  BY <1>1, <1>4, SentinelAssumption DEF TypeOK, QueueFull
<1>7. TypeOK'
  BY <1>1, <1>4, <1>5, <1>6 DEF TypeOK, ThreadRecords
<1>8. Tracer'
  <2>1. ~Emitting /\ Emitting'
    BY <1>3, <1>4, <1>5 DEF Emitting
  <2>2. \A u, v \in Threads : thread'[u].at = "emitting" /\ thread'[v].at = "emitting" => u = v
    BY <1>4, <1>5
  <2>3. queued' = Len(pipe') + 1 /\ Len(pipe') <= queued'
    BY <1>1, <1>4, <2>1 DEF Tracer
  <2> QED BY <1>1, <1>4, <1>6, <2>1, <2>2, <2>3 DEF Tracer
<1>9. \A u \in Threads : GoodThread(u)' /\ (mutex = u => thread'[u] = thread[u])
  <2>1. \A u \in Threads :
           \/ thread'[u] = thread[u] /\ (thread[u].at \in {"entry", "emitting"} => alive')
           \/ /\ thread[u].at \notin InCall /\ thread'[u].at \notin InCall
              /\ thread'[u].at \in {"entry", "emitting"} => alive' /\ thread'[u].kind \in Kinds
    BY <1>3, <1>4, <1>5 DEF InCall
  <2>2. UNCHANGED <<pipe, begun, mutex>>
    BY <1>4
  <2> QED BY <2>1, <2>2, ThreadsMove
<1>10. Healthy' <=> Healthy
  BY <1>4 DEF Healthy
<1> HIDE DEF operationVars
<1>11. UNCHANGED <<pipe, observation, operationVars, clean, known, counted, mutex, suspect, effects,
                   installed>>
  BY <1>4
<1> QED BY <1>7, <1>8, <1>9, <1>10, <1>11, QuietStep

(* TracerDies keeps IInv. *)
LEMMA TracerDiesStep ==
  ASSUME IInv, TracerDies
  PROVE  IInv'
<1> USE DEF engineVars, operationVars
<1>1. /\ alive /\ ~alive' /\ alive' = FALSE
      /\ thread' = [t \in Threads |-> IF thread[t].at \in {"entry", "emitting"} THEN InApp ELSE thread[t]]
      /\ suspect' = suspect \/ suspect' = suspect \cup active
      /\ UNCHANGED <<engineVars, overflowed, sequence, queued, pipe, ignored, operationVars,
                     observation, mutex, clean, known, effects, counted>>
  BY DEF TracerDies
<1>2. TypeOK /\ Tracer
  BY DEF IInv
<1>3. /\ \A t \in Threads :
           thread'[t] = IF thread[t].at \in {"entry", "emitting"} THEN InApp ELSE thread[t]
      /\ thread' \in [Threads -> ThreadRecords]
  BY <1>1, <1>2, InAppRecord DEF TypeOK, ThreadRecords
<1>4. TypeOK'
  BY <1>1, <1>2, <1>3 DEF TypeOK, ThreadRecords
<1>5. Tracer'
  <2>1. \A t \in Threads : thread'[t].at # "emitting"
    BY <1>3, InAppRecord
  <2> QED BY <1>1, <1>2, <2>1 DEF Tracer
<1>6. \A u \in Threads : GoodThread(u)' /\ (mutex = u => thread'[u] = thread[u])
  <2>1. \A u \in Threads :
           \/ thread'[u] = thread[u] /\ (thread[u].at \in {"entry", "emitting"} => alive')
           \/ /\ thread[u].at \notin InCall /\ thread'[u].at \notin InCall
              /\ thread'[u].at \in {"entry", "emitting"} => alive' /\ thread'[u].kind \in Kinds
    BY <1>3, InAppRecord DEF InCall
  <2>2. UNCHANGED <<pipe, begun, mutex>>
    BY <1>1
  <2> QED BY <2>1, <2>2, ThreadsMove
<1>7. ~Healthy'
  BY <1>1 DEF Healthy
<1> HIDE DEF operationVars
<1>8. /\ UNCHANGED <<pipe, observation, operationVars, clean, known, counted, mutex, installed, effects>>
      /\ suspect' \subseteq suspect \cup active
  BY <1>1
<1> QED BY <1>4, <1>5, <1>6, <1>7, <1>8, QuietStep

(* EngineCallScope keeps IInv. *)
LEMMA EngineCallScopeStep ==
  ASSUME IInv, NEW t \in Threads, EngineCallScope(t)
  PROVE  IInv'
<1> USE DEF engineVars, operationVars, historyVars
<1>1. TypeOK /\ Tracer
  BY DEF IInv
<1>2. PICK r \in ThreadRecords : r = Calling("waiting", "none", Nobody, Nobody) /\ r.at = "waiting"
  BY CallingRecord DEF Points
<1>3. /\ thread[t].at = "app" /\ thread' = [thread EXCEPT ![t] = r]
      /\ ignored' = IF installed /\ FreeSlot THEN ignored \cup {t} ELSE ignored
      /\ overflowed' \in BOOLEAN /\ (overflowed => overflowed')
      /\ UNCHANGED <<engineVars, alive, sequence, queued, pipe, operationVars, observation, mutex,
                     clean, historyVars>>
  BY <1>2 DEF EngineCallScope
<1>4. ignored' \in SUBSET Threads /\ IsFiniteSet(ignored') /\ Cardinality(ignored') <= MaxIgnored
  <2>1. IsFiniteSet(ignored) /\ Cardinality(ignored) \in Nat
    BY <1>1, FS_CardinalityType DEF Tracer
  <2>2. /\ IsFiniteSet(ignored \cup {t})
        /\ Cardinality(ignored \cup {t}) = IF t \in ignored THEN Cardinality(ignored)
                                           ELSE Cardinality(ignored) + 1
    BY <2>1, FS_AddElement
  <2> QED BY <1>1, <1>3, <2>1, <2>2, SentinelAssumption DEF TypeOK, FreeSlot
<1>5. /\ thread' \in [Threads -> ThreadRecords] /\ thread'[t] = r
      /\ \A u \in Threads : u # t => thread'[u] = thread[u]
  BY <1>1, <1>3 DEF TypeOK, ThreadRecords
<1>6. TypeOK'
  BY <1>1, <1>3, <1>4, <1>5 DEF TypeOK, ThreadRecords
<1>7. \A u \in Threads : thread'[u].at = "emitting" <=> thread[u].at = "emitting"
  BY <1>2, <1>3, <1>5
<1>8. Tracer'
  <2>1. Emitting' <=> Emitting
    BY <1>7 DEF Emitting
  <2> QED BY <1>1, <1>3, <1>4, <1>7, <2>1 DEF Tracer
<1>9. \A u \in Threads : GoodThread(u)' /\ (mutex = u => thread'[u] = thread[u])
  <2>0. \A u \in Threads : thread[u].at \in {"entry", "emitting"} => alive
    BY DEF IInv, GoodThread
  <2>1. \A u \in Threads :
           \/ thread'[u] = thread[u] /\ (thread[u].at \in {"entry", "emitting"} => alive')
           \/ /\ thread[u].at \notin InCall /\ thread'[u].at \notin InCall
              /\ thread'[u].at \in {"entry", "emitting"} => alive' /\ thread'[u].kind \in Kinds
    BY <1>2, <1>3, <1>5, <2>0 DEF InCall
  <2>2. UNCHANGED <<pipe, begun, mutex>>
    BY <1>3
  <2> QED BY <2>1, <2>2, ThreadsMove
<1>10. Healthy' => Healthy
  BY <1>3 DEF Healthy
<1> HIDE DEF operationVars
<1>11. UNCHANGED <<pipe, observation, operationVars, clean, known, counted, mutex, suspect, effects,
                   installed>>
  BY <1>3
<1> QED BY <1>6, <1>8, <1>9, <1>10, <1>11, QuietStep

(* An engine opens, and may install the tracer, or one of several closes. *)
LEMMA EngineCountStep ==
  ASSUME IInv, EngineOpened \/ EngineClosed
  PROVE  IInv'
<1> USE DEF tracerVars, operationVars, historyVars
<1>1. TypeOK /\ Tracer /\ Len(pipe) \in Nat
  BY WaitingFinite DEF IInv
<1>2. /\ engineCount' \in 0 .. MaxEngines
      /\ UNCHANGED <<overflowed, sequence, queued, pipe, ignored, operationVars, observation, mutex,
                     thread, clean, historyVars>>
  BY <1>1, SentinelAssumption DEF EngineOpened, EngineClosed, TypeOK
<1>3. \/ installed' = installed /\ alive' = alive
      \/ ~installed /\ installed' = TRUE /\ alive' = TRUE
  BY DEF EngineOpened, EngineClosed
<1>4. TypeOK'
  BY <1>1, <1>2, <1>3 DEF TypeOK
<1>5. \A t \in Threads : thread[t].at \in {"entry", "emitting"} => alive
  BY DEF IInv, GoodThread
<1>6. Tracer'
  <2>1. Emitting' <=> Emitting
    BY <1>2 DEF Emitting
  <2>2. CASE installed' = installed /\ alive' = alive
    BY <1>1, <1>2, <2>1, <2>2 DEF Tracer
  <2>3. CASE ~installed /\ installed' = TRUE /\ alive' = TRUE
    <3>1. ~Emitting /\ queued = 0 /\ Len(pipe) = 0
      BY <1>1, <1>5, <2>3 DEF Tracer, Emitting
    <3> QED BY <1>1, <1>2, <2>1, <2>3, <3>1 DEF Tracer
  <2> QED BY <1>3, <2>2, <2>3
<1>7. \A u \in Threads : GoodThread(u)' /\ (mutex = u => thread'[u] = thread[u])
  <2>1. \A u \in Threads :
           thread'[u] = thread[u] /\ (thread[u].at \in {"entry", "emitting"} => alive')
    BY <1>2, <1>3, <1>5
  <2>2. UNCHANGED <<pipe, begun, mutex>>
    BY <1>2
  <2> QED BY <2>1, <2>2, ThreadsMove
<1>8. Healthy' => Healthy \/ \A o \in active : incomplete[o]
  <2>1. ~installed => \A o \in active : incomplete[o]
    BY <1>1 DEF IInv, GoodOperation, GoodActive, TypeOK
  <2> QED BY <1>2, <1>3, <2>1 DEF Healthy
<1> HIDE DEF operationVars
<1>9. UNCHANGED <<pipe, observation, operationVars, clean, known, counted, mutex, suspect, effects>>
  BY <1>2
<1> QED BY <1>3, <1>4, <1>6, <1>7, <1>8, <1>9, QuietStep

-----------------------------------------------------------------------------
(***************************************************************************)
(* Events enter the pipe and leave it.                                     *)
(***************************************************************************)
(* An event written to the pipe waits there, behind the others. *)
LEMMA Written ==
  ASSUME TypeOK, NEW e \in Events, pipe' = Append(pipe, e), observation' = observation
  PROVE  /\ pipe' \in Seq(Events) /\ Len(pipe') = Len(pipe) + 1
         /\ \A i \in DOMAIN pipe' : pipe'[i] = e \/ \E j \in DOMAIN pipe : pipe'[i] = pipe[j]
         /\ UnownedWaits' <=> UnownedWaits \/ Unowned(e)
         /\ \A o : Cardinality(Waiting(o)') =
                     IF Sole(e, o) THEN Cardinality(Waiting(o)) + 1 ELSE Cardinality(Waiting(o))
<1>1. PICK n \in Nat : n = Len(pipe) /\ DOMAIN pipe = 1 .. n
  BY WaitingFinite
<1>2. pipe \in Seq(Events)
  BY DEF TypeOK, Events
<1>3. /\ pipe' \in Seq(Events) /\ Len(pipe') = n + 1 /\ DOMAIN pipe' = 1 .. n + 1
      /\ \A i \in 1 .. n : pipe'[i] = pipe[i]
      /\ pipe'[n + 1] = e
  BY <1>1, <1>2
<1>4. \A x, o : (Unowned(x)' <=> Unowned(x)) /\ (Sole(x, o)' <=> Sole(x, o))
  BY DEF Unowned, Sole, AbleTo, DispatchedOn, Open
<1>5. UnownedWaits' <=> UnownedWaits \/ Unowned(e)
  <2>1. UnownedWaits' <=> \E i \in 1 .. n + 1 : Unowned(pipe'[i])
    BY <1>3, <1>4 DEF UnownedWaits, Unowned
  <2>2. UnownedWaits <=> \E i \in 1 .. n : Unowned(pipe[i])
    BY <1>1 DEF UnownedWaits
  <2>3. \A i \in 1 .. n + 1 : i \in 1 .. n \/ i = n + 1
    OBVIOUS
  <2>4. n + 1 \in 1 .. n + 1 /\ \A i \in 1 .. n : i \in 1 .. n + 1
    OBVIOUS
  <2> QED BY <1>3, <2>1, <2>2, <2>3, <2>4
<1>6. ASSUME NEW o
      PROVE  Cardinality(Waiting(o)') =
                     IF Sole(e, o) THEN Cardinality(Waiting(o)) + 1 ELSE Cardinality(Waiting(o))
  <2>1. Waiting(o)' = {i \in 1 .. n + 1 : Sole(pipe'[i], o)}
    BY <1>3, <1>4 DEF Waiting, Sole
  <2>2. Waiting(o) = {i \in 1 .. n : Sole(pipe[i], o)}
    BY <1>1 DEF Waiting
  <2>3. Waiting(o)' = IF Sole(e, o) THEN Waiting(o) \cup {n + 1} ELSE Waiting(o)
    <3>1. ASSUME NEW i PROVE i \in Waiting(o)' <=> i \in Waiting(o) \/ (i = n + 1 /\ Sole(e, o))
      BY <1>3, <2>1, <2>2
    <3> QED BY <3>1
  <2>4. n + 1 \notin Waiting(o) /\ IsFiniteSet(Waiting(o))
    <3>1. n + 1 \notin 1 .. n
      OBVIOUS
    <3> QED BY <2>2, <3>1, WaitingFinite
  <2> QED BY <2>3, <2>4, FS_AddElement
<1>7. \A i \in DOMAIN pipe' : pipe'[i] = e \/ \E j \in DOMAIN pipe : pipe'[i] = pipe[j]
  BY <1>1, <1>3
<1> QED BY <1>1, <1>3, <1>5, <1>6, <1>7

(* What an effect means is what the observations say of its event. *)
LEMMA EffectOwner ==
  ASSUME TypeOK, NEW t \in Threads, NEW kind, NEW e, e.tid = t, e.kind = kind, EffectOccurs(t, kind)
  PROVE  /\ suspect' = IF Unowned(e) THEN suspect \cup active ELSE suspect
         /\ \A o \in Operations : Sole(e, o) \/ effects'[o] = effects[o]
<1> DEFINE able == {b \in Observations : DispatchedOn(b, t) /\ IsOwnedBy(kind, observation[b].class)}
<1>1. \A b : b \in able <=> b \in Observations /\ AbleTo(b, e)
  BY DEF AbleTo
<1>2. able = {} <=> Unowned(e)
  BY <1>1 DEF Unowned
<1>3. ASSUME NEW o \in Operations, NEW b \in able, able = {b}, observation[b].op = o PROVE Sole(e, o)
  <2>1. \A c \in Observations : AbleTo(c, e) => c = b
    BY <1>1, <1>3
  <2> QED BY <1>1, <1>3, <2>1 DEF Sole
<1>4. suspect' = IF able = {} THEN suspect \cup active ELSE suspect
  BY DEF EffectOccurs
<1>5. \A o \in Operations :
        (\E b \in able : able = {b} /\ observation[b].op = o) \/ effects'[o] = effects[o]
  BY DEF EffectOccurs
<1> HIDE DEF able
<1> QED BY <1>2, <1>3, <1>4, <1>5

(* EmitWrite keeps IInv. *)
LEMMA EmitWriteStep ==
  ASSUME IInv, NEW t \in Threads, EmitWrite(t)
  PROVE  IInv'
<1> USE DEF engineVars, operationVars
<1>1. TypeOK /\ Tracer /\ GoodThread(t) /\ Len(pipe) \in Nat
  BY WaitingFinite DEF IInv
<1>2. PICK e \in Events : e = [tid |-> t, kind |-> thread[t].kind] /\ e.tid = t /\ e.kind = thread[t].kind
  BY <1>1 DEF EmitWrite, GoodThread, Events
<1>3. /\ thread[t].at = "emitting" /\ alive /\ pipe' = Append(pipe, e)
      /\ EffectOccurs(t, thread[t].kind) /\ thread' = [thread EXCEPT ![t] = InApp]
      /\ UNCHANGED <<engineVars, alive, overflowed, sequence, queued, ignored, operationVars,
                     observation, mutex, clean>>
  BY <1>2 DEF EmitWrite
<1>4. /\ thread' \in [Threads -> ThreadRecords] /\ thread'[t] = InApp
      /\ \A u \in Threads : u # t => thread'[u] = thread[u]
  BY <1>1, <1>3, InAppRecord DEF TypeOK, ThreadRecords
<1>5. /\ suspect' \in SUBSET Operations /\ suspect' \subseteq suspect \cup active
      /\ effects' \in [Operations -> Nat]
      /\ \A o \in Operations : o \notin active => effects'[o] = effects[o]
      /\ \A o \in Operations : effects'[o] <= effects[o] + 1
      /\ known' = known /\ counted' = counted
  BY <1>1, <1>3, EffectFacts
<1>6. /\ pipe' \in Seq(Events) /\ Len(pipe') = Len(pipe) + 1
      /\ \A i \in DOMAIN pipe' : pipe'[i] = e \/ \E j \in DOMAIN pipe : pipe'[i] = pipe[j]
      /\ UnownedWaits' <=> UnownedWaits \/ Unowned(e)
      /\ \A o : Cardinality(Waiting(o)') =
                  IF Sole(e, o) THEN Cardinality(Waiting(o)) + 1 ELSE Cardinality(Waiting(o))
  BY <1>1, <1>3, Written
<1>7. TypeOK'
  BY <1>1, <1>3, <1>4, <1>5, <1>6 DEF TypeOK, ThreadRecords, Events
<1>8. Tracer'
  <2>1. Emitting /\ \A u \in Threads : u # t => thread[u].at # "emitting"
    BY <1>1, <1>3 DEF Tracer, Emitting
  <2>2. \A u \in Threads : thread'[u].at # "emitting"
    BY <1>4, <2>1, InAppRecord
  <2>3. ~Emitting'
    BY <2>2 DEF Emitting
  <2>4. queued' = Len(pipe') /\ Len(pipe') <= queued' /\ installed
    BY <1>1, <1>3, <1>6, <2>1 DEF Tracer
  <2> QED BY <1>1, <1>3, <2>2, <2>3, <2>4, <1>6 DEF Tracer
<1>9. mutex # t
  BY <1>1, <1>3 DEF GoodThread, InCall
<1>10. ASSUME NEW u \in Threads PROVE GoodThread(u)'
  <2>1. CASE u = t
    BY <1>3, <1>4, <1>9, <2>1, InAppRecord DEF GoodThread, InCall
  <2>2. CASE u # t
    <3>1. GoodThread(u) /\ thread'[u] = thread[u]
      BY <1>4, <2>2 DEF IInv
    <3>2. mutex = u /\ thread[u].at # "draining" => \A i \in DOMAIN pipe' : pipe'[i].tid # u
      BY <1>2, <1>6, <2>2, <3>1 DEF GoodThread
    <3> QED BY <1>3, <3>1, <3>2, ThreadKept
  <2> QED BY <2>1, <2>2
<1>11. ASSUME NEW o \in Operations PROVE GoodOperation(o)'
  <2>1. GoodOperation(o) /\ owned[o] \in Nat /\ counted[o] \in Nat /\ effects[o] \in Nat
        /\ effects'[o] \in Nat /\ Cardinality(Waiting(o)) \in Nat
    BY <1>1, <1>5, WaitingFinite DEF IInv, TypeOK
  <2>2. /\ suspect' = IF Unowned(e) THEN suspect \cup active ELSE suspect
        /\ Sole(e, o) \/ effects'[o] = effects[o]
    BY <1>1, <1>2, <1>3, EffectOwner
  <2>3. /\ Distrusted(o) => Distrusted(o)'
        /\ Doomed(o) => Doomed(o)'
        /\ Unowned(e) => Doomed(o)'
    BY <1>3, <1>6 DEF Distrusted, Doomed, Healthy
  <2>4. Accounted(o, effects[o]) => Accounted(o, effects[o])'
    <3> SUFFICES ASSUME ~Doomed(o), effects[o] <= owned[o] + Cardinality(Waiting(o))
                 PROVE  effects'[o] <= owned'[o] + Cardinality(Waiting(o)')
      BY <2>3 DEF Accounted
    <3>1. owned'[o] = owned[o]
      BY <1>3
    <3>2. CASE Sole(e, o)
      BY <1>5, <1>6, <2>1, <3>1, <3>2
    <3>3. CASE ~Sole(e, o)
      BY <1>6, <2>1, <2>2, <3>1, <3>3
    <3> QED BY <3>2, <3>3
  <2>5. Accounted(o, counted[o]) => Accounted(o, counted[o])'
    <3> SUFFICES ASSUME ~Doomed(o), counted[o] <= owned[o] + Cardinality(Waiting(o))
                 PROVE  counted'[o] <= owned'[o] + Cardinality(Waiting(o)')
      BY <2>3 DEF Accounted
    <3>1. owned'[o] = owned[o] /\ counted'[o] = counted[o]
      BY <1>3, <1>5
    <3>2. Cardinality(Waiting(o)') = Cardinality(Waiting(o)) + 1
            \/ Cardinality(Waiting(o)') = Cardinality(Waiting(o))
      BY <1>6
    <3> QED BY <2>1, <3>1, <3>2
  <2>6. o \in suspect' => o \in suspect \/ (o \in active /\ Doomed(o)')
    BY <1>5, <2>2, <2>3
  <2>7. o \in active => (~incomplete'[o] => installed' /\ relevant'[o] = owned'[o])
    BY <1>3, <2>1 DEF GoodOperation, GoodActive
  <2>8. \A u \in Threads :
           /\ Finishing(u, o)' <=> Finishing(u, o)
           /\ Finishing(u, o) => (thread'[u].at = "draining" <=> thread[u].at = "draining")
    BY <1>3, <1>4, <1>9 DEF Finishing
  <2>9. o \notin begun => effects'[o] = effects[o]
    BY <1>5, <2>1 DEF GoodOperation
  <2>10. owned'[o] = owned[o] /\ relevant'[o] = relevant[o]
    BY <1>3
  <2> QED BY <1>3, <1>5, <2>1, <2>3, <2>4, <2>5, <2>6, <2>7, <2>8, <2>9, <2>10, OperationKept
<1> QED BY <1>7, <1>8, <1>10, <1>11 DEF IInv

-----------------------------------------------------------------------------
(***************************************************************************)
(* A call takes the mutex and drains the pipe.                             *)
(***************************************************************************)
(* The verdict over an operation is claimed from what has occurred when the   *)
(* call that finishes it takes the mutex.                                     *)
LEMMA LockControllerStep ==
  ASSUME IInv, NEW t \in Threads, LockController(t)
  PROVE  IInv'
<1> USE DEF engineVars, tracerVars, operationVars
<1>1. TypeOK /\ Tracer /\ GoodThread(t)
  BY DEF IInv
<1>2. PICK call \in Calls, op \in Operations \cup {Nobody}, b \in Observations \cup {Nobody} :
        /\ Admitted(call, op, b)
        /\ thread' = [thread EXCEPT ![t] = Calling("draining", call, op, b)]
        /\ known' = IF call = "finish" /\ op \in suspect \cap active THEN known \cup {op} ELSE known
        /\ counted' = IF call = "finish" /\ op \in active
                        THEN [counted EXCEPT ![op] = effects[op]] ELSE counted
  BY DEF LockController
<1>3. PICK r \in ThreadRecords :
        r = Calling("draining", call, op, b) /\ r.at = "draining" /\ r.call = call /\ r.op = op
  BY CallingRecord DEF Points
<1>4. /\ thread[t].at = "waiting" /\ mutex = Nobody /\ mutex' = t
      /\ UNCHANGED <<engineVars, tracerVars, ignored, operationVars, observation, clean, suspect,
                     effects>>
  BY DEF LockController
<1>5. /\ thread' \in [Threads -> ThreadRecords] /\ thread'[t] = r
      /\ \A u \in Threads : u # t => thread'[u] = thread[u]
  BY <1>1, <1>2, <1>3 DEF TypeOK, ThreadRecords
<1>6. /\ known' \in SUBSET Operations /\ counted' \in [Operations -> Nat]
      /\ \A o \in Operations : o \notin active => counted'[o] = counted[o] /\ (o \in known' <=> o \in known)
  BY <1>1, <1>2 DEF TypeOK
<1>7. TypeOK'
  BY <1>1, <1>4, <1>5, <1>6 DEF TypeOK, ThreadRecords
<1>8. Tracer'
  <2>1. \A u \in Threads : thread'[u].at = "emitting" <=> thread[u].at = "emitting"
    BY <1>3, <1>4, <1>5
  <2>2. Emitting' <=> Emitting
    BY <2>1 DEF Emitting
  <2> QED BY <1>1, <1>4, <2>1, <2>2 DEF Tracer
<1>9. ASSUME NEW u \in Threads PROVE GoodThread(u)'
  <2>1. CASE u = t
    <3>1. /\ call = "start" => op \in Operations \ begun
          /\ call \in {"finish", "remove"} => op \in begun
      BY <1>2 DEF Admitted
    <3> QED BY <1>3, <1>4, <1>5, <2>1, <3>1 DEF GoodThread, InCall
  <2>2. CASE u # t
    <3>1. GoodThread(u) /\ thread'[u] = thread[u] /\ mutex # u /\ mutex' # u
      BY <1>4, <1>5, <2>2, SentinelAssumption DEF IInv
    <3>2. thread[u].at \in {"entry", "emitting"} => alive'
      BY <1>4, <3>1 DEF GoodThread
    <3> QED BY <1>4, <3>1, <3>2, ThreadKept
  <2> QED BY <2>1, <2>2
<1>10. ASSUME NEW o \in Operations PROVE GoodOperation(o)'
  <2>1. GoodOperation(o)
    BY DEF IInv
  <2>2. ASSUME o \in active PROVE GoodActive(o)'
    <3>1. GoodActive(o)
      BY <2>1, <2>2 DEF GoodOperation
    <3>2. o \notin known
      BY <1>4, <3>1, SentinelAssumption DEF GoodActive, Finishing
    <3>3. /\ Distrusted(o)' <=> Distrusted(o)
          /\ Doomed(o)' <=> Doomed(o)
      BY <1>4 DEF Distrusted, Doomed, Healthy, UnownedWaits, Unowned, AbleTo, DispatchedOn, Open
    <3>4. Waiting(o)' = Waiting(o)
      BY <1>4 DEF Waiting, Sole, AbleTo, DispatchedOn, Open
    <3>5. ~incomplete'[o] => installed' /\ relevant'[o] = owned'[o]
      BY <1>4, <3>1 DEF GoodActive
    <3>6. o \in suspect' => Doomed(o)'
      BY <1>4, <3>1, <3>3 DEF GoodActive
    <3>7. Accounted(o, effects[o])'
      BY <1>4, <3>1, <3>3, <3>4 DEF GoodActive, Accounted
    <3>8. o \in known' => Finishing(t, o)' /\ Doomed(o)'
      BY <1>2, <1>3, <1>4, <1>5, <3>2, <3>6 DEF Finishing
    <3>9. ASSUME NEW u \in Threads, Finishing(u, o)'
          PROVE  /\ thread'[u].at = "draining"
                 /\ (o \in known' => Doomed(o)') /\ Accounted(o, counted[o])'
      <4>1. u = t /\ call = "finish" /\ op = o /\ thread'[u].at = "draining"
        BY <1>3, <1>4, <1>5, <3>9 DEF Finishing
      <4>2. counted'[o] = effects'[o]
        BY <1>1, <1>2, <1>4, <2>2, <4>1 DEF TypeOK
      <4> QED BY <3>7, <3>8, <4>1, <4>2 DEF Accounted
    <3> QED BY <3>5, <3>6, <3>7, <3>8, <3>9 DEF GoodActive
  <2> QED BY <1>4, <1>6, <2>1, <2>2 DEF GoodOperation
<1> QED BY <1>7, <1>8, <1>9, <1>10 DEF IInv

(* apply_event agrees with the observations that are able to own the event. *)
LEMMA OwnerFound ==
  ASSUME TypeOK, NEW e
  PROVE  /\ Unowned(e) => OwnerOf(e.tid, e.kind) = Nobody
         /\ \A o \in Operations : Sole(e, o) => OwnerOf(e.tid, e.kind) = o
<1> DEFINE S == Owners(e.tid, e.kind)
           exact == {b \in Observations :
                       AbleTo(b, e) /\ IsExactlyOwnedBy(e.kind, observation[b].class)}
<1>1. S = IF exact # {} THEN exact ELSE {b \in Observations : AbleTo(b, e)}
  <2>1. exact = {b \in {c \in Observations : DispatchedOn(c, e.tid)} :
                   IsExactlyOwnedBy(e.kind, observation[b].class)}
    BY DEF AbleTo, IsOwnedBy
  <2>2. {b \in Observations : AbleTo(b, e)} =
          {b \in {c \in Observations : DispatchedOn(c, e.tid)} :
                   IsOwnedBy(e.kind, observation[b].class)}
    BY DEF AbleTo
  <2> QED BY <2>1, <2>2 DEF Owners
<1>2. OwnerOf(e.tid, e.kind) = IF Cardinality(S) = 1 THEN observation[CHOOSE b \in S : TRUE].op ELSE Nobody
  BY DEF OwnerOf
<1> HIDE DEF S
<1>3. ASSUME Unowned(e) PROVE OwnerOf(e.tid, e.kind) = Nobody
  <2>1. S = {}
    BY <1>1, <1>3 DEF Unowned
  <2> QED BY <1>2, <2>1, FS_EmptySet
<1>4. ASSUME NEW o \in Operations, Sole(e, o) PROVE OwnerOf(e.tid, e.kind) = o
  <2>1. PICK b \in Observations :
          /\ AbleTo(b, e) /\ observation[b].op = o
          /\ \A c \in Observations : AbleTo(c, e) => c = b
    BY <1>4 DEF Sole
  <2>2. S = {b}
    BY <1>1, <2>1
  <2>3. (CHOOSE c \in S : TRUE) = b
    BY <2>2
  <2>4. Cardinality(S) = 1
    BY <2>2, FS_Singleton
  <2> QED BY <1>2, <2>1, <2>3, <2>4
<1> QED BY <1>3, <1>4

(* Reading the first event loses sight of that event only. *)
LEMMA EventRead ==
  ASSUME TypeOK, pipe # <<>>, pipe' = Tail(pipe), observation' = observation
  PROVE  /\ pipe' \in Seq(Events) /\ Len(pipe') = Len(pipe) - 1
         /\ \A i \in DOMAIN pipe' : \E j \in DOMAIN pipe : pipe'[i] = pipe[j]
         /\ UnownedWaits => UnownedWaits' \/ Unowned(Head(pipe))
         /\ \A o : Cardinality(Waiting(o)') \in Nat
         /\ \A o : Cardinality(Waiting(o)) <=
                     Cardinality(Waiting(o)') + (IF Sole(Head(pipe), o) THEN 1 ELSE 0)
<1>1. PICK n \in Nat : n = Len(pipe) /\ DOMAIN pipe = 1 .. n
  BY WaitingFinite
<1>2. pipe \in Seq(Events)
  BY DEF TypeOK, Events
<1>3. n # 0
  BY <1>1, <1>2, EmptySeq
<1>4. /\ pipe' \in Seq(Events) /\ Len(pipe') = n - 1 /\ DOMAIN pipe' = 1 .. n - 1
      /\ \A i \in 1 .. n - 1 : pipe'[i] = pipe[i + 1]
      /\ Head(pipe) = pipe[1]
  BY <1>1, <1>2, <1>3
<1>5. \A x, o : (Unowned(x)' <=> Unowned(x)) /\ (Sole(x, o)' <=> Sole(x, o))
  BY DEF Unowned, Sole, AbleTo, DispatchedOn, Open
<1>6. \A i \in 1 .. n - 1 : i + 1 \in 1 .. n
  BY <1>3
<1>7. \A i \in 1 .. n : i # 1 => i - 1 \in 1 .. n - 1 /\ pipe'[i - 1] = pipe[i]
  BY <1>3, <1>4
<1>8. UnownedWaits => UnownedWaits' \/ Unowned(Head(pipe))
  <2> SUFFICES ASSUME NEW i \in 1 .. n, Unowned(pipe[i]), i # 1
               PROVE  UnownedWaits'
    BY <1>1, <1>4 DEF UnownedWaits
  <2>1. i - 1 \in DOMAIN pipe' /\ Unowned(pipe'[i - 1])
    BY <1>4, <1>7
  <2>2. \A j \in DOMAIN pipe' : Unowned(pipe'[j]) => UnownedWaits'
    BY <1>5 DEF UnownedWaits, Unowned, AbleTo, DispatchedOn, Open
  <2> QED BY <2>1, <2>2
<1>9. ASSUME NEW o
      PROVE  /\ Cardinality(Waiting(o)') \in Nat
             /\ Cardinality(Waiting(o)) <=
                     Cardinality(Waiting(o)') + (IF Sole(Head(pipe), o) THEN 1 ELSE 0)
  <2> DEFINE S == {i \in 1 .. n : Sole(pipe[i], o)}
             T == {i \in 1 .. n - 1 : Sole(pipe'[i], o)}
  <2>1. Waiting(o) = S
    BY <1>1 DEF Waiting
  <2>2. Waiting(o)' = T
    BY <1>4, <1>5 DEF Waiting, Sole
  <2>3. \A i \in S : i # 1 => i - 1 \in T
    BY <1>7
  <2>4. 1 \in S <=> Sole(Head(pipe), o)
    BY <1>3, <1>4
  <2>5. S \in SUBSET (1 .. n) /\ T \in SUBSET (1 .. n - 1)
    OBVIOUS
  <2>6. Cardinality(T) \in Nat
    <3>1. IsFiniteSet(1 .. n - 1)
      BY FS_Interval
    <3>2. IsFiniteSet(T)
      BY <2>5, <3>1, FS_Subset
    <3> QED BY <3>2, FS_CardinalityType
  <2> HIDE DEF S, T
  <2>7. Cardinality(S) <= Cardinality(T) + (IF 1 \in S THEN 1 ELSE 0)
    BY <2>3, <2>5, ShiftedPlaces
  <2> QED BY <2>1, <2>2, <2>4, <2>6, <2>7
<1> QED BY <1>1, <1>4, <1>6, <1>8, <1>9

(* mark_all_incomplete. *)
LEMMA MarkedIncomplete ==
  ASSUME TypeOK, MarkAllIncomplete
  PROVE  /\ incomplete' \in [Operations -> BOOLEAN]
         /\ \A o \in active : incomplete'[o]
         /\ \A o \in Operations : incomplete[o] => incomplete'[o]
BY DEF TypeOK, MarkAllIncomplete

(* An event nobody owns taints the operations that waited for it; one that    *)
(* an operation owns is counted there.                                        *)
LEMMA DrainEventStep ==
  ASSUME IInv, NEW t \in Threads, DrainEvent(t)
  PROVE  IInv'
<1> USE DEF engineVars, historyVars
<1>1. TypeOK /\ Tracer /\ Len(pipe) \in Nat
  BY WaitingFinite DEF IInv
<1> DEFINE e == Head(pipe)
           owner == OwnerOf(e.tid, e.kind)
           hit == IF owner = Nobody THEN active ELSE {owner} \cap active
<1>2. /\ mutex = t /\ thread[t].at = "draining" /\ installed /\ pipe # <<>>
      /\ pipe' = Tail(pipe) /\ queued' = queued - 1
      /\ UNCHANGED <<engineVars, alive, overflowed, sequence, ignored, active, begun, startedAt,
                     observation, mutex, thread, clean, historyVars>>
  BY DEF DrainEvent
<1>3. /\ relevant' = [o \in Operations |-> IF o \in hit THEN relevant[o] + 1 ELSE relevant[o]]
      /\ owned' = [o \in Operations |->
                     IF o \in hit /\ owner # Nobody THEN owned[o] + 1 ELSE owned[o]]
      /\ IF owner = Nobody THEN MarkAllIncomplete ELSE UNCHANGED incomplete
  BY DEF DrainEvent, ApplyEvent, ApplyUnowned
<1>4. /\ pipe' \in Seq(Events) /\ Len(pipe') = Len(pipe) - 1
      /\ \A i \in DOMAIN pipe' : \E j \in DOMAIN pipe : pipe'[i] = pipe[j]
      /\ UnownedWaits => UnownedWaits' \/ Unowned(e)
      /\ \A o : Cardinality(Waiting(o)') \in Nat
      /\ \A o : Cardinality(Waiting(o)) <= Cardinality(Waiting(o)') + (IF Sole(e, o) THEN 1 ELSE 0)
  BY <1>1, <1>2, EventRead
<1>5. /\ Unowned(e) => owner = Nobody
      /\ \A o \in Operations : Sole(e, o) => owner = o
  BY <1>1, OwnerFound
<1>6. Len(pipe') \in Nat
  BY <1>4
<1> HIDE DEF e, owner
<1>7. /\ relevant' \in [Operations -> Nat] /\ owned' \in [Operations -> Nat]
      /\ incomplete' \in [Operations -> BOOLEAN]
  <2>1. relevant \in [Operations -> Nat] /\ owned \in [Operations -> Nat]
        /\ incomplete \in [Operations -> BOOLEAN]
    BY <1>1 DEF TypeOK
  <2>2. incomplete' \in [Operations -> BOOLEAN]
    BY <1>1, <1>3, <2>1, MarkedIncomplete
  <2> QED BY <1>3, <2>1, <2>2
<1>8. queued' \in 0 .. MaxQueued /\ Len(pipe') <= queued'
  <2>1. queued \in 0 .. MaxQueued /\ Len(pipe) <= queued /\ MaxQueued \in Nat
    BY <1>1, SentinelAssumption DEF TypeOK, Tracer
  <2>2. \A n, q \in Nat : n <= q /\ q <= MaxQueued /\ n - 1 \in Nat
                           => q - 1 \in 0 .. MaxQueued /\ n - 1 <= q - 1
    BY <2>1
  <2>3. queued \in Nat /\ queued <= MaxQueued
    BY <2>1
  <2> QED BY <1>1, <1>2, <1>4, <1>6, <2>1, <2>2, <2>3
<1>9. TypeOK'
  BY <1>1, <1>2, <1>4, <1>7, <1>8 DEF TypeOK, Events
<1>10. Tracer'
  <2>1. Emitting' <=> Emitting
    BY <1>2 DEF Emitting
  <2>2. alive => queued' = Len(pipe') + (IF Emitting THEN 1 ELSE 0)
    <3>1. alive => queued = Len(pipe) + (IF Emitting THEN 1 ELSE 0)
      BY <1>1 DEF Tracer
    <3>2. \A n \in Nat : (n + 1) - 1 = (n - 1) + 1 /\ (n + 0) - 1 = (n - 1) + 0
      OBVIOUS
    <3>3. CASE Emitting
      BY <1>1, <1>2, <1>4, <3>1, <3>2, <3>3
    <3>4. CASE ~Emitting
      BY <1>1, <1>2, <1>4, <3>1, <3>2, <3>4
    <3> QED BY <3>3, <3>4
  <2> QED BY <1>1, <1>2, <1>8, <2>1, <2>2 DEF Tracer
<1>11. ASSUME NEW u \in Threads PROVE GoodThread(u)'
  <2>1. GoodThread(u)
    BY DEF IInv
  <2>2. mutex = u /\ thread[u].at # "draining" => \A i \in DOMAIN pipe' : pipe'[i].tid # u
    BY <1>4, <2>1 DEF GoodThread
  <2>3. thread[u].at \in {"entry", "emitting"} => alive'
    BY <1>2, <2>1 DEF GoodThread
  <2> QED BY <1>2, <2>1, <2>2, <2>3, ThreadKept
<1>12. ASSUME NEW o \in Operations PROVE GoodOperation(o)'
  <2>1. GoodOperation(o) /\ owned[o] \in Nat /\ counted[o] \in Nat /\ effects[o] \in Nat
        /\ relevant[o] \in Nat /\ Cardinality(Waiting(o)) \in Nat /\ incomplete[o] \in BOOLEAN
    BY <1>1, WaitingFinite DEF IInv, TypeOK
  <2>2. Healthy' <=> Healthy
    BY <1>2 DEF Healthy
  <2>3. CASE o \notin active
    <3>1. owned'[o] = owned[o] /\ relevant'[o] = relevant[o]
      BY <1>3, <2>3
    <3>2. \A u \in Threads :
             /\ Finishing(u, o)' <=> Finishing(u, o)
             /\ Finishing(u, o) => (thread'[u].at = "draining" <=> thread[u].at = "draining")
      BY <1>2 DEF Finishing
    <3> QED BY <1>2, <2>1, <2>3, <3>1, <3>2, OperationKept
  <2>4. CASE o \in active
    <3>1. GoodActive(o)
      BY <2>1, <2>4 DEF GoodOperation
    <3>2. /\ owner = Nobody => incomplete'[o] /\ owned'[o] = owned[o]
          /\ owner # Nobody => incomplete'[o] = incomplete[o]
          /\ owner # Nobody /\ owner # o => owned'[o] = owned[o] /\ relevant'[o] = relevant[o]
          /\ owner # Nobody /\ owner = o => owned'[o] = owned[o] + 1 /\ relevant'[o] = relevant[o] + 1
      BY <1>1, <1>3, <2>4 DEF MarkAllIncomplete, TypeOK
    <3>3. owned'[o] \in Nat /\ owned[o] <= owned'[o]
      <4>1. owned'[o] = owned[o] \/ owned'[o] = owned[o] + 1
        BY <3>2
      <4> QED BY <2>1, <4>1
    <3>4. Distrusted(o) => Distrusted(o)'
      BY <2>2, <3>2 DEF Distrusted
    <3>5. owner = Nobody => Doomed(o)'
      BY <3>2 DEF Distrusted, Doomed
    <3>6. Doomed(o) => Doomed(o)'
      BY <1>4, <1>5, <3>4, <3>5 DEF Doomed
    <3>7. ASSUME NEW n \in Nat, Accounted(o, n)
          PROVE  Doomed(o)' \/ n <= owned'[o] + Cardinality(Waiting(o)')
      <4> SUFFICES ASSUME ~Doomed(o), owner # Nobody, n <= owned[o] + Cardinality(Waiting(o))
                   PROVE  n <= owned'[o] + Cardinality(Waiting(o)')
        BY <3>5, <3>6, <3>7 DEF Accounted
      <4>1. CASE owner = o
        <5>1. Cardinality(Waiting(o)) <= Cardinality(Waiting(o)') + 1
          BY <1>4, <2>1
        <5>2. owned'[o] = owned[o] + 1
          BY <3>2, <4>1
        <5> QED BY <1>4, <2>1, <5>1, <5>2
      <4>2. CASE owner # o
        <5>1. Cardinality(Waiting(o)) <= Cardinality(Waiting(o)') + 0
          BY <1>4, <1>5, <4>2
        <5>2. owned'[o] = owned[o]
          BY <3>2, <4>2
        <5> QED BY <1>4, <2>1, <5>1, <5>2
      <4> QED BY <4>1, <4>2
    <3>8. /\ Accounted(o, effects[o]) => Accounted(o, effects[o])'
          /\ Accounted(o, counted[o]) => Accounted(o, counted[o])'
      BY <1>2, <2>1, <3>7 DEF Accounted
    <3>9. ~incomplete'[o] => installed' /\ relevant'[o] = owned'[o]
      <4> SUFFICES ASSUME ~incomplete'[o] PROVE relevant'[o] = owned'[o]
        BY <1>2
      <4>1. owner # Nobody /\ relevant[o] = owned[o]
        BY <3>1, <3>2 DEF GoodActive
      <4> QED BY <3>2, <4>1
    <3>10. \A u \in Threads :
             /\ Finishing(u, o)' <=> Finishing(u, o)
             /\ Finishing(u, o) => (thread'[u].at = "draining" <=> thread[u].at = "draining")
      BY <1>2 DEF Finishing
    <3> QED BY <1>2, <2>1, <2>4, <3>3, <3>4, <3>6, <3>8, <3>9, <3>10, OperationKept
  <2> QED BY <2>3, <2>4
<1> QED BY <1>9, <1>10, <1>11, <1>12 DEF IInv

(* A call goes on: the other threads and what the call is about stay. *)
LEMMA CallGoesOn ==
  ASSUME TypeOK, NEW t \in Threads, NEW point \in InCall, GoTo(t, point)
  PROVE  /\ thread' \in [Threads -> ThreadRecords]
         /\ thread'[t].at = point /\ thread'[t].call = thread[t].call
         /\ thread'[t].op = thread[t].op
         /\ \A u \in Threads : u # t => thread'[u] = thread[u]
<1>1. /\ thread \in [Threads -> ThreadRecords]
      /\ thread[t].call \in Calls \cup {"none"} /\ thread[t].op \in Operations \cup {Nobody}
      /\ thread[t].obs \in Observations \cup {Nobody}
  BY DEF TypeOK, ThreadRecords
<1>2. PICK r \in ThreadRecords :
        /\ r = Calling(point, thread[t].call, thread[t].op, thread[t].obs)
        /\ r.at = point /\ r.call = thread[t].call /\ r.op = thread[t].op
  <2>1. point \in Points
    BY DEF InCall, Points
  <2> QED BY <1>1, <2>1, CallingRecord
<1>3. thread' = [thread EXCEPT ![t] = r]
  BY <1>2 DEF GoTo
<1> QED BY <1>1, <1>2, <1>3

(* With the pipe empty nothing is left to wait for: an operation is doomed    *)
(* only if it is distrusted already.                                          *)
LEMMA DrainEmptyStep ==
  ASSUME IInv, NEW t \in Threads, DrainEmpty(t)
  PROVE  IInv'
<1> USE DEF engineVars, tracerVars, operationVars, historyVars
<1>1. TypeOK /\ Tracer /\ GoodThread(t)
  BY DEF IInv
<1>2. /\ mutex = t /\ thread[t].at = "draining" /\ GoTo(t, "checking") /\ (installed => pipe = <<>>)
      /\ UNCHANGED <<engineVars, tracerVars, ignored, operationVars, observation, mutex, clean,
                     historyVars>>
  BY DEF DrainEmpty
<1>3. /\ thread' \in [Threads -> ThreadRecords] /\ thread'[t].at = "checking"
      /\ thread'[t].call = thread[t].call /\ thread'[t].op = thread[t].op
      /\ \A u \in Threads : u # t => thread'[u] = thread[u]
  BY <1>1, <1>2, CallGoesOn DEF InCall
<1>4. pipe = <<>> /\ DOMAIN pipe = {}
  BY <1>1, <1>2 DEF Tracer
<1>5. TypeOK'
  BY <1>1, <1>2, <1>3 DEF TypeOK, ThreadRecords
<1>6. Tracer'
  <2>1. \A u \in Threads : thread'[u].at = "emitting" <=> thread[u].at = "emitting"
    BY <1>2, <1>3
  <2>2. Emitting' <=> Emitting
    BY <2>1 DEF Emitting
  <2> QED BY <1>1, <1>2, <2>1, <2>2 DEF Tracer
<1>7. ASSUME NEW u \in Threads PROVE GoodThread(u)'
  <2>1. CASE u = t
    BY <1>1, <1>2, <1>3, <1>4, <2>1 DEF GoodThread, InCall
  <2>2. CASE u # t
    <3>1. GoodThread(u) /\ thread'[u] = thread[u]
      BY <1>3, <2>2 DEF IInv
    <3>2. thread[u].at \in {"entry", "emitting"} => alive'
      BY <1>2, <3>1 DEF GoodThread
    <3>3. mutex # u /\ mutex' # u
      BY <1>2, <2>2
    <3> QED BY <3>1, <3>2, <3>3, ThreadKept
  <2> QED BY <2>1, <2>2
<1>8. ASSUME NEW o \in Operations PROVE GoodOperation(o)'
  <2>1. GoodOperation(o) /\ owned[o] \in Nat /\ counted[o] \in Nat
    BY <1>1 DEF IInv, TypeOK
  <2>2. ASSUME o \in active PROVE GoodActive(o)'
    <3>1. GoodActive(o)
      BY <2>1, <2>2 DEF GoodOperation
    <3>2. /\ Distrusted(o)' <=> Distrusted(o)
          /\ Doomed(o)' <=> Doomed(o)
          /\ Doomed(o) <=> Distrusted(o)
      BY <1>2, <1>4 DEF Distrusted, Doomed, Healthy, UnownedWaits, Unowned, AbleTo, DispatchedOn, Open
    <3>3. Waiting(o)' = Waiting(o) /\ Waiting(o) = {}
      BY <1>2, <1>4 DEF Waiting, Sole, AbleTo, DispatchedOn, Open
    <3>4. ~incomplete'[o] => installed' /\ relevant'[o] = owned'[o]
      BY <1>2, <3>1 DEF GoodActive
    <3>5. o \in suspect' => Doomed(o)'
      BY <1>2, <3>1, <3>2 DEF GoodActive
    <3>6. Accounted(o, effects[o])'
      BY <1>2, <3>1, <3>2, <3>3 DEF GoodActive, Accounted
    <3>7. \A u \in Threads : (Finishing(u, o)' <=> Finishing(u, o)) /\ (Finishing(u, o) => u = t)
      BY <1>2, <1>3 DEF Finishing
    <3>8. o \in known' => \E u \in Threads : Finishing(u, o)'
      BY <1>2, <3>1, <3>7 DEF GoodActive
    <3>9. ASSUME NEW u \in Threads, Finishing(u, o)'
          PROVE  /\ thread'[u].at # "draining" /\ (o \in known' => Distrusted(o)')
                 /\ Distrusted(o)' \/ counted'[o] <= owned'[o]
      <4>1. u = t /\ thread[u].at = "draining" /\ thread'[u].at # "draining" /\ Finishing(u, o)
        BY <1>2, <1>3, <3>7, <3>9
      <4>2. (o \in known => Doomed(o)) /\ Accounted(o, counted[o])
        BY <3>1, <4>1 DEF GoodActive
      <4>3. Cardinality(Waiting(o)) = 0
        BY <3>3, FS_EmptySet
      <4>4. Distrusted(o) \/ counted[o] <= owned[o]
        BY <2>1, <3>2, <4>2, <4>3 DEF Accounted
      <4> QED BY <1>2, <3>2, <4>1, <4>2, <4>4
    <3> QED BY <3>4, <3>5, <3>6, <3>8, <3>9 DEF GoodActive
  <2> QED BY <1>2, <2>1, <2>2 DEF GoodOperation
<1> QED BY <1>5, <1>6, <1>7, <1>8 DEF IInv

(* DrainHealth keeps IInv. *)
LEMMA DrainHealthStep ==
  ASSUME IInv, NEW t \in Threads, DrainHealth(t)
  PROVE  IInv'
<1> USE DEF engineVars, tracerVars, historyVars
<1>1. TypeOK /\ Tracer /\ GoodThread(t)
  BY DEF IInv
<1>2. /\ mutex = t /\ thread[t].at = "checking" /\ GoTo(t, "applying")
      /\ IF Healthy THEN UNCHANGED incomplete ELSE MarkAllIncomplete
      /\ UNCHANGED <<engineVars, tracerVars, ignored, active, begun, startedAt, relevant, owned,
                     observation, mutex, clean, historyVars>>
  BY DEF DrainHealth
<1>3. /\ thread' \in [Threads -> ThreadRecords] /\ thread'[t].at = "applying"
      /\ thread'[t].call = thread[t].call /\ thread'[t].op = thread[t].op
      /\ \A u \in Threads : u # t => thread'[u] = thread[u]
  BY <1>1, <1>2, CallGoesOn DEF InCall
<1>4. /\ incomplete' \in [Operations -> BOOLEAN]
      /\ \A o \in Operations : incomplete[o] => incomplete'[o]
  <2>1. CASE Healthy
    BY <1>1, <1>2, <2>1 DEF TypeOK
  <2>2. CASE ~Healthy
    BY <1>1, <1>2, <2>2, MarkedIncomplete
  <2> QED BY <2>1, <2>2
<1>5. TypeOK'
  BY <1>1, <1>2, <1>3, <1>4 DEF TypeOK, ThreadRecords
<1>6. Tracer'
  <2>1. \A u \in Threads : thread'[u].at = "emitting" <=> thread[u].at = "emitting"
    BY <1>2, <1>3
  <2>2. Emitting' <=> Emitting
    BY <2>1 DEF Emitting
  <2> QED BY <1>1, <1>2, <2>1, <2>2 DEF Tracer
<1>7. ASSUME NEW u \in Threads PROVE GoodThread(u)'
  <2>1. CASE u = t
    BY <1>1, <1>2, <1>3, <2>1 DEF GoodThread, InCall
  <2>2. CASE u # t
    <3>1. GoodThread(u) /\ thread'[u] = thread[u]
      BY <1>3, <2>2 DEF IInv
    <3>2. thread[u].at \in {"entry", "emitting"} => alive'
      BY <1>2, <3>1 DEF GoodThread
    <3>3. mutex # u /\ mutex' # u
      BY <1>2, <2>2
    <3> QED BY <3>1, <3>2, <3>3, ThreadKept
  <2> QED BY <2>1, <2>2
<1>8. ASSUME NEW o \in Operations PROVE GoodOperation(o)'
  <2>1. GoodOperation(o) /\ owned[o] \in Nat /\ counted[o] \in Nat
    BY <1>1 DEF IInv, TypeOK
  <2>2. /\ Distrusted(o) => Distrusted(o)'
        /\ Doomed(o) => Doomed(o)'
    BY <1>2, <1>4 DEF Distrusted, Doomed, Healthy, UnownedWaits, Unowned, AbleTo, DispatchedOn, Open
  <2>3. Waiting(o)' = Waiting(o)
    BY <1>2 DEF Waiting, Sole, AbleTo, DispatchedOn, Open
  <2>4. /\ Accounted(o, effects[o]) => Accounted(o, effects[o])'
        /\ Accounted(o, counted[o]) => Accounted(o, counted[o])'
    BY <1>2, <2>2, <2>3 DEF Accounted
  <2>5. o \in active => (~incomplete'[o] => installed' /\ relevant'[o] = owned'[o])
    BY <1>2, <1>4, <2>1 DEF GoodOperation, GoodActive
  <2>6. \A u \in Threads :
           /\ Finishing(u, o)' <=> Finishing(u, o)
           /\ Finishing(u, o) => (thread'[u].at = "draining" <=> thread[u].at = "draining")
    BY <1>2, <1>3 DEF Finishing
  <2> QED BY <1>2, <2>1, <2>2, <2>4, <2>5, <2>6, OperationKept
<1> QED BY <1>5, <1>6, <1>7, <1>8 DEF IInv

-----------------------------------------------------------------------------
(***************************************************************************)
(* A call does what it is for and leaves.                                  *)
(***************************************************************************)
(* The call that leaves was the only one; the other threads are where they    *)
(* were.                                                                      *)
LEMMA CallLeaves ==
  ASSUME IInv, NEW t \in Threads, mutex = t, Leave(t), UNCHANGED <<engineVars, tracerVars>>
  PROVE  /\ mutex' = Nobody /\ thread' \in [Threads -> ThreadRecords]
         /\ ignored' \in SUBSET Threads /\ Cardinality(ignored') <= MaxIgnored
         /\ Tracer' /\ \A u \in Threads : GoodThread(u)'
         /\ (Healthy' <=> Healthy) /\ installed' = installed
<1> USE DEF engineVars, tracerVars
<1>1. TypeOK /\ Tracer /\ GoodThread(t) /\ thread[t].at # "emitting"
  BY DEF IInv, GoodThread, InCall
<1>2. mutex' = Nobody /\ ignored' = ignored \ {t} /\ thread' = [thread EXCEPT ![t] = InApp]
  BY DEF Leave
<1>3. /\ thread' \in [Threads -> ThreadRecords] /\ thread'[t] = InApp
      /\ \A u \in Threads : u # t => thread'[u] = thread[u]
  BY <1>1, <1>2, InAppRecord DEF TypeOK, ThreadRecords
<1>4. ignored' \in SUBSET Threads /\ IsFiniteSet(ignored') /\ Cardinality(ignored') <= MaxIgnored
  <2>1. /\ IsFiniteSet(ignored) /\ ignored \in SUBSET Threads /\ Cardinality(ignored) <= MaxIgnored
        /\ MaxIgnored \in Nat
    BY <1>1, SentinelAssumption DEF Tracer, TypeOK
  <2>2. IsFiniteSet(ignored') /\ Cardinality(ignored') <= Cardinality(ignored)
    BY <1>2, <2>1, FS_Subset
  <2>3. Cardinality(ignored') \in Nat /\ Cardinality(ignored) \in Nat
    BY <2>1, <2>2, FS_CardinalityType
  <2> QED BY <1>2, <2>1, <2>2, <2>3
<1>5. Tracer'
  <2>1. \A u \in Threads : thread'[u].at = "emitting" <=> thread[u].at = "emitting"
    BY <1>1, <1>3, InAppRecord
  <2>2. Emitting' <=> Emitting
    BY <2>1 DEF Emitting
  <2> QED BY <1>1, <1>4, <2>1, <2>2 DEF Tracer
<1>6. ASSUME NEW u \in Threads PROVE GoodThread(u)'
  <2>1. CASE u = t
    BY <1>2, <1>3, <2>1, InAppRecord, SentinelAssumption DEF GoodThread, InCall
  <2>2. CASE u # t
    <3>1. GoodThread(u) /\ thread'[u] = thread[u] /\ mutex # u /\ mutex' # u
      BY <1>2, <1>3, <2>2, SentinelAssumption DEF IInv
    <3>2. thread[u].at \in {"entry", "emitting"} => alive'
      BY <3>1 DEF GoodThread
    <3> QED BY <3>1, <3>2, ThreadKept
  <2> QED BY <2>1, <2>2
<1> QED BY <1>2, <1>3, <1>4, <1>5, <1>6 DEF Healthy

(* An operation that the leaving call does not finish. *)
LEMMA OtherOperation ==
  ASSUME IInv, NEW t \in Threads, mutex = t, mutex' = Nobody, NEW o \in Operations,
         ~Finishing(t, o), owned'[o] = owned[o], relevant'[o] = relevant[o],
         o \in begun' <=> o \in begun, o \in clean' <=> o \in clean, UNCHANGED historyVars,
         o \in active' => o \in active,
         o \in active' =>
           /\ installed' = installed /\ (Healthy' <=> Healthy)
           /\ incomplete[o] => incomplete'[o]
           /\ UnownedWaits => UnownedWaits'
           /\ UnownedWaits' \/ Cardinality(Waiting(o)) <= Cardinality(Waiting(o)')
           /\ Cardinality(Waiting(o)') \in Nat
  PROVE  GoodOperation(o)'
<1> USE DEF historyVars
<1>1. TypeOK /\ GoodOperation(o)
  BY DEF IInv
<1>2. owned[o] \in Nat /\ effects[o] \in Nat /\ Cardinality(Waiting(o)) \in Nat
  BY <1>1, WaitingFinite DEF TypeOK
<1>3. ASSUME o \in active' PROVE GoodActive(o)'
  <2>1. GoodActive(o)
    BY <1>1, <1>3 DEF GoodOperation
  <2>2. Doomed(o) => Doomed(o)'
    BY <1>3 DEF Doomed, Distrusted
  <2>3. \A u \in Threads : ~Finishing(u, o) /\ ~Finishing(u, o)'
    BY SentinelAssumption DEF Finishing
  <2>4. o \notin known'
    BY <2>1, <2>3 DEF GoodActive
  <2>5. Accounted(o, effects[o])'
    <3> SUFFICES ASSUME ~Doomed(o)' PROVE effects'[o] <= owned'[o] + Cardinality(Waiting(o)')
      BY DEF Accounted
    <3>1. effects[o] <= owned[o] + Cardinality(Waiting(o))
      BY <2>1, <2>2 DEF GoodActive, Accounted
    <3>2. Cardinality(Waiting(o)) <= Cardinality(Waiting(o)')
      BY <1>3 DEF Doomed
    <3> QED BY <1>2, <1>3, <3>1, <3>2
  <2>6. ~incomplete'[o] => installed' /\ relevant'[o] = owned'[o]
    BY <1>3, <2>1 DEF GoodActive
  <2>7. o \in suspect' => Doomed(o)'
    BY <2>1, <2>2 DEF GoodActive
  <2> QED BY <2>3, <2>4, <2>5, <2>6, <2>7 DEF GoodActive
<1> QED BY <1>1, <1>3 DEF GoodOperation

(* An operation that is removed without a verdict. *)
LEMMA OperationGone ==
  ASSUME IInv, NEW o \in Operations, o \notin active', begun' = begun, clean' = clean,
         UNCHANGED historyVars,
         o \in clean => relevant'[o] = relevant[o] /\ owned'[o] = owned[o]
  PROVE  GoodOperation(o)'
<1>1. GoodOperation(o)
  BY DEF IInv
<1> QED BY <1>1 DEF GoodOperation, historyVars

(* When no observation becomes able to own an unread event, an event that     *)
(* was unowned stays so, and one that was an operation's own stays its own    *)
(* or is unowned.                                                             *)
LEMMA FewerOwners ==
  ASSUME TypeOK, pipe' = pipe,
         \A i \in DOMAIN pipe, b \in Observations :
           AbleTo(b, pipe[i])' => AbleTo(b, pipe[i]) /\ observation'[b].op = observation[b].op
  PROVE  /\ UnownedWaits => UnownedWaits'
         /\ \A o : /\ UnownedWaits' \/ Cardinality(Waiting(o)) <= Cardinality(Waiting(o)')
                   /\ Cardinality(Waiting(o)') \in Nat
<1>1. \A i \in DOMAIN pipe : Unowned(pipe[i]) => Unowned(pipe[i])'
  BY DEF Unowned
<1>2. UnownedWaits' <=> \E i \in DOMAIN pipe : Unowned(pipe[i])'
  BY DEF UnownedWaits
<1>3. UnownedWaits => UnownedWaits'
  BY <1>1, <1>2 DEF UnownedWaits
<1>4. ASSUME NEW o
      PROVE  /\ UnownedWaits' \/ Cardinality(Waiting(o)) <= Cardinality(Waiting(o)')
             /\ Cardinality(Waiting(o)') \in Nat
  <2>1. Waiting(o)' = {i \in DOMAIN pipe : Sole(pipe[i], o)'}
    BY DEF Waiting
  <2>2. IsFiniteSet(Waiting(o)') /\ Cardinality(Waiting(o)') \in Nat
    <3>1. IsFiniteSet(1 .. Len(pipe)) /\ DOMAIN pipe = 1 .. Len(pipe)
      <4>1. DOMAIN pipe = 1 .. Len(pipe) /\ Len(pipe) \in Nat
        BY WaitingFinite
      <4> QED BY <4>1, FS_Interval
    <3>2. Waiting(o)' \in SUBSET (1 .. Len(pipe))
      BY <2>1, <3>1
    <3>3. IsFiniteSet(Waiting(o)')
      BY <3>1, <3>2, FS_Subset
    <3> QED BY <3>3, FS_CardinalityType
  <2>3. ASSUME ~UnownedWaits' PROVE Cardinality(Waiting(o)) <= Cardinality(Waiting(o)')
    <3>1. ASSUME NEW i \in DOMAIN pipe, Sole(pipe[i], o) PROVE Sole(pipe[i], o)'
      <4>1. PICK b \in Observations :
              /\ AbleTo(b, pipe[i]) /\ observation[b].op = o
              /\ \A c \in Observations : AbleTo(c, pipe[i]) => c = b
        BY <3>1 DEF Sole
      <4>2. ~Unowned(pipe[i])'
        BY <1>2, <2>3, <3>1
      <4>3. \A c \in Observations : AbleTo(c, pipe[i])' => c = b /\ observation'[c].op = o
        BY <3>1, <4>1
      <4>4. AbleTo(b, pipe[i])' /\ observation'[b].op = o
        BY <4>2, <4>3 DEF Unowned
      <4> QED BY <4>3, <4>4 DEF Sole
    <3>2. Waiting(o) \subseteq Waiting(o)'
      BY <2>1, <3>1 DEF Waiting
    <3> QED BY <2>2, <3>2, FS_Subset
  <2> QED BY <2>2, <2>3
<1> QED BY <1>3, <1>4

(* Observations that stay or go. *)
LEMMA ObservationsGo ==
  ASSUME TypeOK, pipe' = pipe,
         \A b \in Observations : observation'[b] = observation[b] \/ observation'[b] = Absent
  PROVE  /\ UnownedWaits => UnownedWaits'
         /\ \A o : /\ UnownedWaits' \/ Cardinality(Waiting(o)) <= Cardinality(Waiting(o)')
                   /\ Cardinality(Waiting(o)') \in Nat
<1>1. Absent.op = Nobody
  BY DEF Absent
<1>2. ASSUME NEW i \in DOMAIN pipe, NEW b \in Observations, AbleTo(b, pipe[i])'
      PROVE  AbleTo(b, pipe[i]) /\ observation'[b].op = observation[b].op
  <2>1. observation'[b].op # Nobody
    BY <1>2 DEF AbleTo, DispatchedOn, Open
  <2>2. observation'[b] = observation[b]
    BY <1>1, <2>1
  <2> QED BY <1>2, <2>2 DEF AbleTo, DispatchedOn, Open
<1> QED BY <1>2, FewerOwners

(* What removing operations leaves. *)
LEMMA Removed ==
  ASSUME TypeOK, NEW S, NEW kept, RemoveOperations(S, kept)
  PROVE  /\ active' \in SUBSET Operations
         /\ startedAt' \in [Operations -> 0 .. (MaxEvents + 1)]
         /\ relevant' \in [Operations -> Nat] /\ owned' \in [Operations -> Nat]
         /\ incomplete' \in [Operations -> BOOLEAN]
         /\ \A o : o \in active' <=> o \in active /\ o \notin S
         /\ \A o \in Operations : o \notin S \/ o \in kept
                                    => relevant'[o] = relevant[o] /\ owned'[o] = owned[o]
         /\ \A o \in Operations : o \notin S => (incomplete[o] => incomplete'[o])
<1>1. /\ active' = active \ S
      /\ startedAt' = [o \in Operations |-> IF o \in S \ kept THEN 0 ELSE startedAt[o]]
      /\ relevant' = [o \in Operations |-> IF o \in S \ kept THEN 0 ELSE relevant[o]]
      /\ owned' = [o \in Operations |-> IF o \in S \ kept THEN 0 ELSE owned[o]]
      /\ incomplete' = [o \in Operations |-> o \notin S /\ incomplete[o]]
  BY DEF RemoveOperations
<1>2. 0 \in 0 .. (MaxEvents + 1)
  BY SentinelAssumption
<1>3. /\ active \in SUBSET Operations /\ startedAt \in [Operations -> 0 .. (MaxEvents + 1)]
      /\ relevant \in [Operations -> Nat] /\ owned \in [Operations -> Nat]
  BY DEF TypeOK
<1>4. startedAt' \in [Operations -> 0 .. (MaxEvents + 1)]
  BY <1>1, <1>2, <1>3
<1>5. relevant' \in [Operations -> Nat] /\ owned' \in [Operations -> Nat]
  BY <1>1, <1>3
<1>6. incomplete' \in [Operations -> BOOLEAN]
  BY <1>1
<1> QED BY <1>1, <1>3, <1>4, <1>5, <1>6

(* The observations of an operation go with it. *)
LEMMA WithoutObservations ==
  ASSUME TypeOK, NEW o, observation' = WithoutObservationsOf(o)
  PROVE  /\ observation' \in [Observations -> ObservationRecords]
         /\ \A b \in Observations : observation'[b] = observation[b] \/ observation'[b] = Absent
<1>1. Absent \in ObservationRecords
  BY DEF Absent, ObservationRecords, AllClasses
<1>2. observation \in [Observations -> ObservationRecords]
  BY DEF TypeOK, ObservationRecords
<1> QED BY <1>1, <1>2 DEF WithoutObservationsOf

(* The verdict: clean only if nothing is owed.  At this point of the call     *)
(* the pipe held no more of the events the verdict is about.                  *)
LEMMA OperationFinishedStep ==
  ASSUME IInv, NEW t \in Threads, OperationFinished(t)
  PROVE  IInv'
<1>1. TypeOK /\ GoodThread(t)
  BY DEF IInv
<1>2. PICK o \in begun : o = thread[t].op
  BY <1>1 DEF OperationFinished, Applying, GoodThread
<1>3. /\ mutex = t /\ thread[t].at = "applying" /\ thread[t].call = "finish"
      /\ clean' = IF o \in active /\ CoverageClean(o) THEN clean \cup {o} ELSE clean
      /\ RemoveOperations({o}, clean')
      /\ observation' = WithoutObservationsOf(o) /\ Leave(t)
      /\ UNCHANGED <<engineVars, tracerVars, begun, historyVars>>
  BY <1>2 DEF OperationFinished, Applying
<1>4. /\ mutex' = Nobody /\ thread' \in [Threads -> ThreadRecords]
      /\ ignored' \in SUBSET Threads /\ Cardinality(ignored') <= MaxIgnored
      /\ Tracer' /\ \A u \in Threads : GoodThread(u)'
      /\ (Healthy' <=> Healthy) /\ installed' = installed
  BY <1>3, CallLeaves
<1>5. /\ active' \in SUBSET Operations
      /\ startedAt' \in [Operations -> 0 .. (MaxEvents + 1)]
      /\ relevant' \in [Operations -> Nat] /\ owned' \in [Operations -> Nat]
      /\ incomplete' \in [Operations -> BOOLEAN]
      /\ \A x : x \in active' <=> x \in active /\ x \notin {o}
      /\ \A x \in Operations : x \notin {o} \/ x \in clean'
                                 => relevant'[x] = relevant[x] /\ owned'[x] = owned[x]
      /\ \A x \in Operations : x \notin {o} => (incomplete[x] => incomplete'[x])
  BY <1>1, <1>3, Removed
<1>6. /\ observation' \in [Observations -> ObservationRecords]
      /\ \A b \in Observations : observation'[b] = observation[b] \/ observation'[b] = Absent
  BY <1>1, <1>3, WithoutObservations
<1>7. begun \in SUBSET Operations /\ clean' \in SUBSET Operations
  BY <1>1, <1>3 DEF TypeOK
<1>8. TypeOK'
  BY <1>1, <1>3, <1>4, <1>5, <1>6, <1>7
     DEF TypeOK, ThreadRecords, ObservationRecords, engineVars, tracerVars, historyVars
<1>9. pipe' = pipe
  BY <1>3 DEF tracerVars
<1>10. /\ UnownedWaits => UnownedWaits'
       /\ \A x : /\ UnownedWaits' \/ Cardinality(Waiting(x)) <= Cardinality(Waiting(x)')
                 /\ Cardinality(Waiting(x)') \in Nat
  BY <1>1, <1>6, <1>9, ObservationsGo
<1>11. ASSUME NEW x \in Operations PROVE GoodOperation(x)'
  <2>1. CASE x # o
    <3>1. ~Finishing(t, x)
      BY <1>2, <2>1 DEF Finishing
    <3>2. /\ owned'[x] = owned[x] /\ relevant'[x] = relevant[x]
          /\ x \in active' => x \in active /\ (incomplete[x] => incomplete'[x])
      BY <1>5, <2>1
    <3>3. x \in clean' <=> x \in clean
      BY <1>3, <2>1
    <3>4. begun' = begun /\ UNCHANGED historyVars
      BY <1>3
    <3> QED BY <1>3, <1>4, <1>10, <3>1, <3>2, <3>3, <3>4, OtherOperation
  <2>2. CASE x = o /\ o \in active /\ CoverageClean(o)
    <3>1. GoodOperation(o) /\ GoodActive(o) /\ Finishing(t, o)
      BY <1>2, <1>3, <2>2 DEF IInv, GoodOperation, Finishing
    <3>2. ~incomplete[o] /\ Healthy
      BY <2>2 DEF CoverageClean
    <3>3. relevant[o] = owned[o] /\ o \notin known /\ counted[o] <= owned[o]
      BY <1>3, <3>1, <3>2 DEF GoodActive, Distrusted
    <3>4. relevant'[o] = relevant[o] /\ owned'[o] = owned[o] /\ o \notin active'
      BY <1>3, <1>5, <2>2
    <3>5. begun' = begun /\ known' = known /\ counted' = counted
      BY <1>3 DEF historyVars
    <3> QED BY <1>2, <2>2, <3>3, <3>4, <3>5 DEF GoodOperation
  <2>3. CASE x = o /\ ~(o \in active /\ CoverageClean(o))
    <3>1. x \notin active' /\ clean' = clean
      BY <1>3, <1>5, <2>3
    <3>2. x \in clean => relevant'[x] = relevant[x] /\ owned'[x] = owned[x]
      BY <1>5, <3>1
    <3> QED BY <1>3, <3>1, <3>2, OperationGone
  <2> QED BY <2>1, <2>2, <2>3
<1> QED BY <1>4, <1>8, <1>11 DEF IInv

(* OperationRemoved keeps IInv. *)
LEMMA OperationRemovedStep ==
  ASSUME IInv, NEW t \in Threads, OperationRemoved(t)
  PROVE  IInv'
<1>1. TypeOK /\ GoodThread(t)
  BY DEF IInv
<1>2. PICK o \in begun : o = thread[t].op
  BY <1>1 DEF OperationRemoved, Applying, GoodThread
<1>3. /\ mutex = t /\ RemoveOperations({o}, clean)
      /\ observation' = WithoutObservationsOf(o) /\ Leave(t)
      /\ UNCHANGED <<engineVars, tracerVars, begun, clean, historyVars>>
  BY <1>2 DEF OperationRemoved, Applying
<1>4. /\ mutex' = Nobody /\ thread' \in [Threads -> ThreadRecords]
      /\ ignored' \in SUBSET Threads /\ Cardinality(ignored') <= MaxIgnored
      /\ Tracer' /\ \A u \in Threads : GoodThread(u)'
      /\ (Healthy' <=> Healthy) /\ installed' = installed
  BY <1>3, CallLeaves
<1>5. /\ active' \in SUBSET Operations
      /\ startedAt' \in [Operations -> 0 .. (MaxEvents + 1)]
      /\ relevant' \in [Operations -> Nat] /\ owned' \in [Operations -> Nat]
      /\ incomplete' \in [Operations -> BOOLEAN]
      /\ \A x : x \in active' <=> x \in active /\ x \notin {o}
      /\ \A x \in Operations : x \notin {o} \/ x \in clean
                                 => relevant'[x] = relevant[x] /\ owned'[x] = owned[x]
      /\ \A x \in Operations : x \notin {o} => (incomplete[x] => incomplete'[x])
  BY <1>1, <1>3, Removed
<1>6. /\ observation' \in [Observations -> ObservationRecords]
      /\ \A b \in Observations : observation'[b] = observation[b] \/ observation'[b] = Absent
  BY <1>1, <1>3, WithoutObservations
<1>7. TypeOK'
  BY <1>1, <1>3, <1>4, <1>5, <1>6
     DEF TypeOK, ThreadRecords, ObservationRecords, engineVars, tracerVars, historyVars
<1>8. pipe' = pipe
  BY <1>3 DEF tracerVars
<1>9. /\ UnownedWaits => UnownedWaits'
      /\ \A x : /\ UnownedWaits' \/ Cardinality(Waiting(x)) <= Cardinality(Waiting(x)')
                /\ Cardinality(Waiting(x)') \in Nat
  BY <1>1, <1>6, <1>8, ObservationsGo
<1>10. ASSUME NEW x \in Operations PROVE GoodOperation(x)'
  <2>1. CASE x # o
    <3>1. ~Finishing(t, x)
      BY <1>2, <2>1 DEF Finishing
    <3>2. /\ owned'[x] = owned[x] /\ relevant'[x] = relevant[x]
          /\ x \in active' => x \in active /\ (incomplete[x] => incomplete'[x])
      BY <1>5, <2>1
    <3> QED BY <1>3, <1>4, <1>9, <3>1, <3>2, OtherOperation
  <2>2. CASE x = o
    <3>1. x \notin active' /\ (x \in clean => relevant'[x] = relevant[x] /\ owned'[x] = owned[x])
      BY <1>5, <2>2
    <3> QED BY <1>3, <3>1, OperationGone
  <2> QED BY <2>1, <2>2
<1> QED BY <1>4, <1>7, <1>10 DEF IInv

(* A call about an observation: no observation becomes able to own an unread  *)
(* event.                                                                     *)
LEMMA ObservationCall ==
  ASSUME IInv, NEW t \in Threads, mutex = t, thread[t].call # "finish", Leave(t),
         UNCHANGED <<engineVars, tracerVars, active, startedAt, relevant, owned, begun, clean,
                     historyVars>>,
         UNCHANGED incomplete \/ MarkAllIncomplete,
         observation' \in [Observations -> ObservationRecords],
         \A i \in DOMAIN pipe, b \in Observations :
           AbleTo(b, pipe[i])' => AbleTo(b, pipe[i]) /\ observation'[b].op = observation[b].op
  PROVE  IInv'
<1>1. TypeOK
  BY DEF IInv
<1>2. /\ mutex' = Nobody /\ thread' \in [Threads -> ThreadRecords]
      /\ ignored' \in SUBSET Threads /\ Cardinality(ignored') <= MaxIgnored
      /\ Tracer' /\ \A u \in Threads : GoodThread(u)'
      /\ (Healthy' <=> Healthy) /\ installed' = installed
  BY CallLeaves
<1>3. /\ incomplete' \in [Operations -> BOOLEAN]
      /\ \A o \in Operations : incomplete[o] => incomplete'[o]
  <2>1. CASE UNCHANGED incomplete
    BY <1>1, <2>1 DEF TypeOK
  <2>2. CASE MarkAllIncomplete
    BY <1>1, <2>2, MarkedIncomplete
  <2> QED BY <2>1, <2>2
<1>4. TypeOK'
  BY <1>1, <1>2, <1>3 DEF TypeOK, ThreadRecords, ObservationRecords, engineVars, tracerVars, historyVars
<1>5. /\ UnownedWaits => UnownedWaits'
      /\ \A x : /\ UnownedWaits' \/ Cardinality(Waiting(x)) <= Cardinality(Waiting(x)')
                /\ Cardinality(Waiting(x)') \in Nat
  <2>1. pipe' = pipe
    BY DEF tracerVars
  <2> QED BY <1>1, <2>1, FewerOwners
<1>6. ASSUME NEW o \in Operations PROVE GoodOperation(o)'
  <2>1. ~Finishing(t, o)
    BY DEF Finishing
  <2>2. /\ owned'[o] = owned[o] /\ relevant'[o] = relevant[o]
        /\ o \in active' => o \in active /\ (incomplete[o] => incomplete'[o])
    BY <1>3
  <2> QED BY <1>2, <1>5, <2>1, <2>2, OtherOperation
<1> QED BY <1>2, <1>4, <1>6 DEF IInv

(* A new observation is dispatched on no thread yet. *)
LEMMA ObservationOpenedStep ==
  ASSUME IInv, NEW t \in Threads, ObservationOpened(t)
  PROVE  IInv'
<1> USE DEF Applying
<1>1. TypeOK
  BY DEF IInv
<1>2. observation \in [Observations -> ObservationRecords] /\ thread[t].op \in Operations \cup {Nobody}
  BY <1>1 DEF TypeOK, ObservationRecords
<1>3. /\ mutex = t /\ thread[t].call # "finish" /\ Leave(t)
      /\ UNCHANGED <<engineVars, tracerVars, active, startedAt, relevant, owned, begun, clean,
                     historyVars>>
      /\ UNCHANGED incomplete \/ MarkAllIncomplete
  BY DEF ObservationOpened
<1>4. CASE observation' = observation
  <2>1. \A i \in DOMAIN pipe, b \in Observations :
           AbleTo(b, pipe[i])' => AbleTo(b, pipe[i]) /\ observation'[b].op = observation[b].op
    <3>1. pipe' = pipe
      BY <1>3 DEF tracerVars
    <3> QED BY <1>4, <3>1 DEF AbleTo, DispatchedOn, Open
  <2> QED BY <1>2, <1>3, <1>4, <2>1, ObservationCall
<1>5. CASE observation' # observation
  <2>1. PICK class \in Classes :
          observation' = [observation EXCEPT ![thread[t].obs] =
                            [op |-> thread[t].op, class |-> class, tid |-> Nobody]]
    BY <1>5 DEF ObservationOpened
  <2>2. PICK r \in ObservationRecords :
          r = [op |-> thread[t].op, class |-> class, tid |-> Nobody] /\ r.tid = Nobody
    <3>1. class \in AllClasses
      BY SentinelAssumption
    <3>2. [op |-> thread[t].op, class |-> class, tid |-> Nobody] \in ObservationRecords
      BY <1>2, <3>1 DEF ObservationRecords
    <3> QED BY <3>2
  <2>3. /\ observation' \in [Observations -> ObservationRecords]
        /\ \A b \in Observations : observation'[b] = observation[b] \/ observation'[b] = r
    BY <1>2, <2>1, <2>2
  <2>4. ASSUME NEW i \in DOMAIN pipe, NEW b \in Observations, AbleTo(b, pipe[i])'
        PROVE  AbleTo(b, pipe[i]) /\ observation'[b].op = observation[b].op
    <3>1. pipe[i].tid # Nobody /\ pipe' = pipe
      <4>1. pipe \in Seq(Events)
        BY <1>1 DEF TypeOK, Events
      <4>2. pipe[i] \in Events
        BY <4>1
      <4> QED BY <1>3, <4>2, SentinelAssumption DEF Events, tracerVars
    <3>2. observation'[b].tid = pipe[i].tid
      BY <2>4, <3>1 DEF AbleTo, DispatchedOn
    <3>3. observation'[b] = observation[b]
      BY <2>2, <2>3, <3>1, <3>2
    <3> QED BY <2>4, <3>1, <3>3 DEF AbleTo, DispatchedOn, Open
  <2> QED BY <1>3, <2>3, <2>4, ObservationCall
<1> QED BY <1>4, <1>5

(* The dispatching thread has drained its own events. *)
LEMMA ObservationDispatchedStep ==
  ASSUME IInv, NEW t \in Threads, ObservationDispatched(t)
  PROVE  IInv'
<1> USE DEF Applying
<1>1. TypeOK /\ GoodThread(t)
  BY DEF IInv
<1>2. observation \in [Observations -> ObservationRecords]
  BY <1>1 DEF TypeOK, ObservationRecords
<1>3. /\ mutex = t /\ thread[t].at = "applying" /\ thread[t].call # "finish" /\ Leave(t)
      /\ UNCHANGED <<engineVars, tracerVars, active, startedAt, relevant, owned, begun, clean,
                     historyVars>>
      /\ UNCHANGED incomplete \/ MarkAllIncomplete
  BY DEF ObservationDispatched
<1> DEFINE b0 == thread[t].obs
           r == [op |-> observation[b0].op, class |-> observation[b0].class, tid |-> t]
<1>4. observation' = observation \/ observation' = [observation EXCEPT ![b0] = r]
  BY DEF ObservationDispatched
<1>5. r.tid = t /\ (b0 \in Observations => r \in ObservationRecords)
  BY <1>2 DEF ObservationRecords
<1> HIDE DEF b0, r
<1>6. /\ observation' \in [Observations -> ObservationRecords]
      /\ \A b \in Observations : observation'[b] = observation[b] \/ observation'[b] = r
  <2>1. CASE observation' = observation
    BY <1>2, <2>1
  <2>2. CASE observation' = [observation EXCEPT ![b0] = r] /\ b0 \in Observations
    BY <1>2, <1>5, <2>2
  <2>3. CASE observation' = [observation EXCEPT ![b0] = r] /\ b0 \notin Observations
    BY <1>2, <2>3
  <2> QED BY <1>4, <2>1, <2>2, <2>3
<1>7. ASSUME NEW i \in DOMAIN pipe, NEW b \in Observations, AbleTo(b, pipe[i])'
      PROVE  AbleTo(b, pipe[i]) /\ observation'[b].op = observation[b].op
  <2>1. pipe[i].tid # t /\ pipe' = pipe
    BY <1>1, <1>3, <1>7 DEF GoodThread, tracerVars
  <2>2. observation'[b].tid = pipe[i].tid
    BY <1>7, <2>1 DEF AbleTo, DispatchedOn
  <2>3. observation'[b] = observation[b]
    BY <1>5, <1>6, <2>1, <2>2
  <2> QED BY <1>7, <2>1, <2>3 DEF AbleTo, DispatchedOn, Open
<1> QED BY <1>3, <1>6, <1>7, ObservationCall

(* ObservationFinished keeps IInv. *)
LEMMA ObservationFinishedStep ==
  ASSUME IInv, NEW t \in Threads, ObservationFinished(t)
  PROVE  IInv'
<1> USE DEF Applying
<1>1. TypeOK
  BY DEF IInv
<1>2. observation \in [Observations -> ObservationRecords] /\ Absent \in ObservationRecords
      /\ Absent.op = Nobody
  BY <1>1 DEF TypeOK, ObservationRecords, Absent, AllClasses
<1>3. /\ mutex = t /\ thread[t].call # "finish" /\ Leave(t)
      /\ UNCHANGED <<engineVars, tracerVars, active, startedAt, relevant, owned, begun, clean,
                     historyVars>>
      /\ UNCHANGED incomplete \/ MarkAllIncomplete
      /\ observation' = [observation EXCEPT ![thread[t].obs] = Absent]
  BY DEF ObservationFinished
<1>4. /\ observation' \in [Observations -> ObservationRecords]
      /\ \A b \in Observations : observation'[b] = observation[b] \/ observation'[b] = Absent
  BY <1>2, <1>3
<1>5. ASSUME NEW i \in DOMAIN pipe, NEW b \in Observations, AbleTo(b, pipe[i])'
      PROVE  AbleTo(b, pipe[i]) /\ observation'[b].op = observation[b].op
  <2>1. observation'[b].op # Nobody /\ pipe' = pipe
    BY <1>3, <1>5 DEF AbleTo, DispatchedOn, Open, tracerVars
  <2>2. observation'[b] = observation[b]
    BY <1>2, <1>4, <2>1
  <2> QED BY <1>5, <2>1, <2>2 DEF AbleTo, DispatchedOn, Open
<1> QED BY <1>3, <1>4, <1>5, ObservationCall

(* A new operation owes nothing, and trusts the trace only if it is healthy. *)
LEMMA OperationStartedStep ==
  ASSUME IInv, NEW t \in Threads, OperationStarted(t)
  PROVE  IInv'
<1> USE DEF Applying
<1>1. TypeOK /\ GoodThread(t)
  BY DEF IInv
<1>2. PICK o \in Operations : o = thread[t].op /\ o \notin begun
  BY <1>1 DEF OperationStarted, GoodThread
<1>3. /\ mutex = t /\ thread[t].call # "finish" /\ begun' = begun \cup {o} /\ Leave(t)
      /\ UNCHANGED <<engineVars, tracerVars, observation, clean, historyVars>>
  BY <1>2 DEF OperationStarted
<1>4. \/ MarkAllIncomplete /\ UNCHANGED <<active, startedAt, relevant, owned>>
      \/ /\ active' = active \cup {o}
         /\ startedAt' = [startedAt EXCEPT ![o] = IF installed THEN sequence ELSE 0]
         /\ relevant' = [relevant EXCEPT ![o] = 0]
         /\ owned' = [owned EXCEPT ![o] = 0]
         /\ incomplete' = [incomplete EXCEPT ![o] = ~Healthy]
  BY <1>2 DEF OperationStarted
<1>5. /\ mutex' = Nobody /\ thread' \in [Threads -> ThreadRecords]
      /\ ignored' \in SUBSET Threads /\ Cardinality(ignored') <= MaxIgnored
      /\ Tracer' /\ \A u \in Threads : GoodThread(u)'
      /\ (Healthy' <=> Healthy) /\ installed' = installed
  BY <1>3, CallLeaves
<1>6. /\ active' \in SUBSET Operations
      /\ startedAt' \in [Operations -> 0 .. (MaxEvents + 1)]
      /\ relevant' \in [Operations -> Nat] /\ owned' \in [Operations -> Nat]
      /\ incomplete' \in [Operations -> BOOLEAN]
      /\ \A x \in Operations : x # o =>
           /\ x \in active' <=> x \in active
           /\ relevant'[x] = relevant[x] /\ owned'[x] = owned[x]
           /\ incomplete[x] => incomplete'[x]
  <2>1. /\ active \in SUBSET Operations /\ sequence \in 0 .. (MaxEvents + 1)
        /\ startedAt \in [Operations -> 0 .. (MaxEvents + 1)]
        /\ relevant \in [Operations -> Nat] /\ owned \in [Operations -> Nat]
        /\ incomplete \in [Operations -> BOOLEAN] /\ 0 \in 0 .. (MaxEvents + 1)
    BY <1>1, SentinelAssumption DEF TypeOK
  <2>2. CASE MarkAllIncomplete /\ UNCHANGED <<active, startedAt, relevant, owned>>
    BY <1>1, <2>1, <2>2, MarkedIncomplete
  <2>3. CASE /\ active' = active \cup {o}
             /\ startedAt' = [startedAt EXCEPT ![o] = IF installed THEN sequence ELSE 0]
             /\ relevant' = [relevant EXCEPT ![o] = 0]
             /\ owned' = [owned EXCEPT ![o] = 0]
             /\ incomplete' = [incomplete EXCEPT ![o] = ~Healthy]
    <3>1. startedAt' \in [Operations -> 0 .. (MaxEvents + 1)]
      BY <2>1, <2>3
    <3>2. relevant' \in [Operations -> Nat] /\ owned' \in [Operations -> Nat]
      BY <2>1, <2>3
    <3>3. incomplete' \in [Operations -> BOOLEAN]
      BY <2>1, <2>3
    <3> QED BY <2>1, <2>3, <3>1, <3>2, <3>3
  <2> QED BY <1>4, <2>2, <2>3
<1>7. TypeOK'
  <2>1. begun' \in SUBSET Operations
    BY <1>1, <1>3 DEF TypeOK
  <2> QED BY <1>1, <1>3, <1>5, <1>6, <2>1
          DEF TypeOK, ThreadRecords, engineVars, tracerVars, historyVars
<1>8. /\ UnownedWaits => UnownedWaits'
      /\ \A x : /\ UnownedWaits' \/ Cardinality(Waiting(x)) <= Cardinality(Waiting(x)')
                /\ Cardinality(Waiting(x)') \in Nat
  <2>1. pipe' = pipe /\ observation' = observation
    BY <1>3 DEF tracerVars
  <2> QED BY <1>1, <2>1, ObservationsGo
<1>9. ASSUME NEW x \in Operations PROVE GoodOperation(x)'
  <2>1. CASE x # o
    <3>1. ~Finishing(t, x)
      BY <1>3 DEF Finishing
    <3>2. (x \in begun' <=> x \in begun) /\ (x \in active' => x \in active)
      BY <1>3, <1>6, <2>1
    <3>3. /\ owned'[x] = owned[x] /\ relevant'[x] = relevant[x]
          /\ x \in active' => (incomplete[x] => incomplete'[x])
      BY <1>6, <2>1
    <3> QED BY <1>3, <1>5, <1>8, <3>1, <3>2, <3>3, OtherOperation
  <2>2. CASE x = o
    <3>1. /\ o \notin active /\ o \notin suspect /\ o \notin known /\ o \notin clean
          /\ effects[o] = 0
      BY <1>2 DEF IInv, GoodOperation
    <3>2. /\ o \in begun' /\ o \notin suspect' /\ o \notin known' /\ o \notin clean'
          /\ effects'[o] = 0
      BY <1>3, <3>1 DEF historyVars
    <3>3. ASSUME o \in active' PROVE GoodActive(o)'
      <4>1. relevant'[o] = 0 /\ owned'[o] = 0 /\ incomplete'[o] = ~Healthy
        BY <1>1, <1>4, <3>1, <3>3 DEF TypeOK
      <4>2. ~incomplete'[o] => installed'
        BY <1>5, <4>1 DEF Healthy
      <4>3. Accounted(o, effects[o])'
        BY <1>8, <3>2, <4>1 DEF Accounted
      <4>4. \A u \in Threads : ~Finishing(u, o)'
        BY <1>5, SentinelAssumption DEF Finishing
      <4> QED BY <3>2, <4>1, <4>2, <4>3, <4>4 DEF GoodActive
    <3> QED BY <2>2, <3>2, <3>3 DEF GoodOperation
  <2> QED BY <2>1, <2>2
<1> QED BY <1>5, <1>7, <1>9 DEF IInv

(* LastEngineClosed keeps IInv. *)
LEMMA LastEngineClosedStep ==
  ASSUME IInv, LastEngineClosed
  PROVE  IInv'
<1>1. TypeOK
  BY DEF IInv
<1>2. /\ mutex = Nobody /\ engineCount' = 0 /\ RemoveOperations(active, clean)
      /\ observation' = [b \in Observations |-> Absent]
      /\ installed' = FALSE /\ alive' = FALSE /\ overflowed' = FALSE /\ sequence' = 0
      /\ queued' = 0 /\ pipe' = <<>> /\ ignored' = {}
      /\ thread' = [t \in Threads |->
                      IF thread[t].at \in {"entry", "emitting"} THEN InApp ELSE thread[t]]
      /\ UNCHANGED <<begun, mutex, clean, historyVars>>
  BY DEF LastEngineClosed
<1>3. /\ active' \in SUBSET Operations
      /\ startedAt' \in [Operations -> 0 .. (MaxEvents + 1)]
      /\ relevant' \in [Operations -> Nat] /\ owned' \in [Operations -> Nat]
      /\ incomplete' \in [Operations -> BOOLEAN]
      /\ \A x : x \in active' <=> x \in active /\ x \notin active
      /\ \A x \in Operations : x \notin active \/ x \in clean
                                 => relevant'[x] = relevant[x] /\ owned'[x] = owned[x]
  BY <1>1, <1>2, Removed
<1>4. thread' \in [Threads -> ThreadRecords]
  BY <1>1, <1>2, InAppRecord DEF TypeOK, ThreadRecords
<1>5. observation' \in [Observations -> ObservationRecords]
  BY <1>2 DEF Absent, ObservationRecords, AllClasses
<1>6. Cardinality(ignored') = 0 /\ IsFiniteSet(ignored')
  BY <1>2, FS_EmptySet
<1>7. TypeOK'
  <2>1. /\ engineCount' \in 0 .. MaxEngines /\ sequence' \in 0 .. (MaxEvents + 1)
        /\ queued' \in 0 .. MaxQueued /\ Cardinality(ignored') <= MaxIgnored
        /\ ignored' \in SUBSET Threads
    BY <1>2, <1>6, SentinelAssumption
  <2>2. pipe' \in Seq(Events)
    BY <1>2
  <2>3. /\ installed' \in BOOLEAN /\ alive' \in BOOLEAN /\ overflowed' \in BOOLEAN
    BY <1>2
  <2> QED BY <1>1, <1>2, <1>3, <1>4, <1>5, <2>1, <2>2, <2>3
          DEF TypeOK, ThreadRecords, ObservationRecords, Events, historyVars
<1>8. \A t \in Threads : thread'[t].at \notin {"entry", "emitting"} /\ thread'[t].at \notin InCall
  <2>1. \A t \in Threads : thread[t].at \notin InCall
    BY <1>2, SentinelAssumption DEF IInv, GoodThread
  <2> QED BY <1>2, <2>1, InAppRecord DEF InCall
<1>9. \A t \in Threads : GoodThread(t)'
  BY <1>2, <1>8, SentinelAssumption DEF GoodThread
<1>10. Tracer'
  <2>1. Len(pipe') = 0 /\ ~(sequence' > MaxEvents)
    BY <1>2, SentinelAssumption
  <2> QED BY <1>2, <1>6, <1>8, <2>1 DEF Tracer
<1>11. \A o \in Operations : GoodOperation(o)'
  BY <1>2, <1>3, OperationGone
<1> QED BY <1>7, <1>9, <1>10, <1>11 DEF IInv

(* A step that changes nothing. *)
LEMMA StutterKept ==
  ASSUME IInv, UNCHANGED vars
  PROVE  IInv'
<1>1. /\ TypeOK' /\ Tracer' /\ \A t \in Threads : GoodThread(t)'
  BY DEF IInv, vars, TypeOK, Tracer, Emitting, GoodThread
<1>2. UNCHANGED <<pipe, observation, operationVars, clean, known, counted, mutex, installed, suspect,
                  effects, thread>> /\ (Healthy' => Healthy)
  BY DEF vars, operationVars, Healthy
<1> QED BY <1>1, <1>2, QuietStep

-----------------------------------------------------------------------------
(***************************************************************************)
(* The theorems.                                                           *)
(***************************************************************************)
LEMMA InductiveStep == IInv /\ [Next]_vars => IInv'
<1> SUFFICES ASSUME IInv, [Next]_vars PROVE IInv'
  OBVIOUS
<1>1. ASSUME NEW t \in Threads, ThreadStep(t) PROVE IInv'
  BY <1>1, SyscallEntryStep, SyscallUntracedStep, EngineCallScopeStep, LockControllerStep,
     DrainEventStep, DrainEmptyStep, DrainHealthStep, OperationStartedStep, OperationFinishedStep,
     OperationRemovedStep, ObservationOpenedStep, ObservationDispatchedStep, ObservationFinishedStep
     DEF ThreadStep
<1>2. ASSUME TracerStep PROVE IInv'
  BY <1>2, EmitDroppedStep, EmitExhaustedStep, EmitReserveStep, EmitWriteStep, EmitWriteFailedStep,
     TrackingLostStep, TracerDiesStep DEF TracerStep
<1> QED BY <1>1, <1>2, EngineCountStep, LastEngineClosedStep, StutterKept DEF Next

(* IInv is an invariant of the specification. *)
LEMMA Invariant == Spec => []IInv
BY InductiveInit, InductiveStep, PTL DEF Spec

(* The shared queue counter is exact while the tracer lives: the events in    *)
(* the pipe and at most the one it has reserved and not yet written, and      *)
(* every variable keeps its type, the counter its limit (emit_event, drain).  *)
THEOREM QueueCounterExactHolds == Spec => []QueueCounterExact
<1>1. IInv => QueueCounterExact
  <2> SUFFICES ASSUME IInv PROVE QueueCounterExact
    OBVIOUS
  <2> DEFINE S == {t \in Threads : thread[t].at = "emitting"}
  <2>1. TypeOK /\ Tracer
    BY DEF IInv
  <2>2. Cardinality(S) = IF Emitting THEN 1 ELSE 0
    <3>1. CASE Emitting
      <4>1. PICK t \in Threads : thread[t].at = "emitting"
        BY <3>1 DEF Emitting
      <4>2. S = {t}
        BY <2>1, <4>1 DEF Tracer
      <4> QED BY <3>1, <4>2, FS_Singleton
    <3>2. CASE ~Emitting
      <4>1. S = {}
        BY <3>2 DEF Emitting
      <4> QED BY <3>2, <4>1, FS_EmptySet
    <3> QED BY <3>1, <3>2
  <2> QED BY <2>1, <2>2 DEF QueueCounterExact, Tracer
<1> QED BY <1>1, Invariant, PTL

(* An operation with an effect that no dispatched observation could own gets  *)
(* no clean coverage when it is closed afterwards, whatever the tracer and    *)
(* the other threads do meanwhile (operation_finished, drain, apply_event).   *)
THEOREM KnownNeverCleanHolds == Spec => []KnownNeverClean
<1>1. IInv => KnownNeverClean
  BY DEF IInv, TypeOK, GoodOperation, KnownNeverClean
<1> QED BY <1>1, Invariant, PTL

(* Clean coverage accounts for every effect that only the operation's own     *)
(* observation could own before its closing began, and for nothing else       *)
(* (apply_event, operation_finished).                                         *)
THEOREM CleanAccountsForEffectsHolds == Spec => []CleanAccountsForEffects
<1>1. IInv => CleanAccountsForEffects
  <2> SUFFICES ASSUME IInv, NEW o \in clean PROVE relevant[o] = owned[o] /\ owned[o] >= counted[o]
    BY DEF CleanAccountsForEffects
  <2>1. o \in Operations /\ owned[o] \in Nat /\ counted[o] \in Nat
    BY DEF IInv, TypeOK
  <2>2. relevant[o] = owned[o] /\ counted[o] <= owned[o]
    BY <2>1 DEF IInv, GoodOperation
  <2> QED BY <2>1, <2>2
<1> QED BY <1>1, Invariant, PTL
=============================================================================
