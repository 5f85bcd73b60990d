------------------------- MODULE CandidatePipeline -------------------------
(***************************************************************************)
(* From an operation's records to a delivered candidate: Sdk (lib.rs), the *)
(* process-wide ProcessResources (resources.rs), ManagedRustLocalRecorder  *)
(* and ManagedRustCandidateSink with its worker (managed_sink.rs), all of  *)
(* src/crates/reproit-sdk-rust/src.                                        *)
(*                                                                         *)
(* An operation in Recorded has an Sdk of its own with a local recorder,   *)
(* whose candidate is finalised into a sink of its own                     *)
(* (OfficialManagedRustOperation).  The others share one Sdk over one      *)
(* shared sink.  Every mutex acquisition of fail, try_send and the worker  *)
(* is a step: the Sdk's mutex is held from FailTake to the end of the     *)
(* call, the mutex of ProcessResources is taken and released by each step. *)
(*                                                                         *)
(* Bytes are small numbers, a capture id is its operation, and the recall  *)
(* counters are left out.  So is the account of bytes that subject packages *)
(* and captures reserve (LogicalByteReservation of resources.rs): it is a  *)
(* counter of its own that no call of this module reads or changes.        *)
(***************************************************************************)
EXTENDS StormGate, Sequences, FiniteSetsExt

CONSTANTS
  Operations,
  Recorded,            \* the operations with a local recorder
  Callers,             \* host threads that call fail
  Shared,              \* the sink of the other operations
  None,
  Sizes,               \* record_size of one record
  CandidateSizes,      \* canonical_bytes of one candidate
  MaxEvents,           \* MAX_EVENTS
  MaxOperationBytes,   \* MAX_OPERATION_BYTES
  MaxGlobalBytes,      \* MAX_GLOBAL_BYTES
  MaxActive,           \* MAX_ACTIVE_OPERATIONS
  MaxQueued,           \* MAX_QUEUED_CANDIDATES
  Lifetime             \* CANDIDATE_DELIVERY_LIFETIME

(* There are finitely many ids, and one record always fits: event_record     *)
(* bounds its payload by MAX_EVENT_BYTES.                                    *)
ASSUME PipelineAssumption ==
  /\ Recorded \subseteq Operations /\ IsFiniteSet(Operations)
  /\ Shared \notin Operations /\ None \notin Operations \cup Callers
  /\ Sizes \subseteq Nat \ {0} /\ CandidateSizes \subseteq Nat \ {0}
  /\ {MaxEvents, MaxOperationBytes, MaxGlobalBytes, MaxActive, MaxQueued, Lifetime}
       \subseteq Nat
  /\ MaxEvents > 0 /\ \A size \in Sizes : size <= MaxOperationBytes

VARIABLES
  records,       \* Sdk: number of records of an operation, 0 when it has none
  opBytes,       \* Sdk: ActiveOperation.bytes
  worldBound,    \* Sdk: ActiveOperation.world_bound
  active,        \* resources: bytes of each active operation, 0 when absent
  activeBytes,
  candidate,     \* resources: the entry of a capture
  candidateBytes,
  slot,          \* LocalRecorderState: bytes of the candidate, 0 when none
  sharedMu,      \* who holds the state mutex of the shared Sdk
  queue,         \* the channel of each sink
  counted,       \* QueueState.candidates
  queuedBytes,   \* QueueState.bytes
  worker,        \* the worker of each sink
  call,          \* the fail call of each host thread
  reported,      \* what fail last returned for an operation
  delivered      \* operations whose candidate the service has accepted

sdkVars      == <<records, opBytes, worldBound>>
activeVars   == <<active, activeBytes>>
captureVars  == <<candidate, candidateBytes>>
sinkVars     == <<queue, counted, queuedBytes>>
vars == <<stormVars, sdkVars, activeVars, captureVars, slot, sharedMu, sinkVars,
          worker, call, reported, delivered>>

Sinks == Recorded \cup {Shared}
SinkOf(o) == IF o \in Recorded THEN o ELSE Shared

Answers == {"none", "accepted", "suppressed", "quota", "incomplete"}
CallPoints == {"idle", "recorded", "storm", "reserve", "record",
               "finalize", "claim", "count", "send", "refuse", "check", "keep", "drop"}
WorkerPoints == {"absent", "idle", "delivering", "releasing", "counting"}

NoCapture == [bytes |-> 0, state |-> "none"]
NoCall    == [at |-> "idle", op |-> None, seq |-> 0, bytes |-> 0, sent |-> FALSE]
Calling(at, o, seq, bytes, sent) ==
  [at |-> at, op |-> o, seq |-> seq, bytes |-> bytes, sent |-> sent]
WorkerAt(at, o, bytes) == [at |-> at, op |-> o, bytes |-> bytes]

Init ==
  /\ StormInit
  /\ records = [o \in Operations |-> 0]
  /\ opBytes = [o \in Operations |-> 0]
  /\ worldBound = [o \in Operations |-> FALSE]
  /\ active = [o \in Operations |-> 0]
  /\ activeBytes = 0
  /\ candidate = [o \in Operations |-> NoCapture]
  /\ candidateBytes = 0
  /\ slot = [o \in Operations |-> 0]
  /\ sharedMu = None
  /\ queue = [s \in Sinks |-> <<>>]
  /\ counted = [s \in Sinks |-> 0]
  /\ queuedBytes = [s \in Sinks |-> 0]
  /\ worker = [s \in Sinks |-> WorkerAt(IF s = Shared THEN "idle" ELSE "absent", None, 0)]
  /\ call = [c \in Callers |-> NoCall]
  /\ reported = [o \in Operations |-> "none"]
  /\ delivered = {}

-----------------------------------------------------------------------------
(***************************************************************************)
(* Sdk: recording.                                                         *)
(***************************************************************************)
Idle(c) == call[c].at = "idle"

(* The state mutex of the operation's Sdk is free; a recorded operation is   *)
(* moved into its fail call, so nothing else runs on it then.               *)
Unlocked(o) ==
  IF o \in Recorded THEN \A c \in Callers : call[c].op # o ELSE sharedMu = None

(* bytes_with *)
Fits(bytes) == activeBytes + candidateBytes + bytes <= MaxGlobalBytes

ActiveOperations == {o \in Operations : active[o] > 0}
Captures == {o \in Operations : candidate[o].state # "none"}

(* Ids are random: the model uses a name again only when nothing of the      *)
(* operation that had it is left but a worker's last step.                   *)
Fresh(o) ==
  /\ records[o] = 0 /\ candidate[o] = NoCapture
  /\ \A c \in Callers : call[c].op # o
  /\ o \in Recorded => worker[o].at \in {"absent", "idle"}

(* begin_inner with reserve_operation; begin_automatic binds the World later *)
Begin(o) ==
  /\ Fresh(o)
  /\ Unlocked(o)
  /\ Cardinality(ActiveOperations) < MaxActive
  /\ \E size \in Sizes, automatic \in BOOLEAN :
       /\ Fits(size)
       /\ records' = [records EXCEPT ![o] = 1]
       /\ opBytes' = [opBytes EXCEPT ![o] = size]
       /\ active' = [active EXCEPT ![o] = size]
       /\ activeBytes' = activeBytes + size
       /\ worldBound' = [worldBound EXCEPT ![o] = ~automatic]
  /\ worker' = IF o \in Recorded
                 THEN [worker EXCEPT ![o] = WorkerAt("absent", None, 0)]
                 ELSE worker
  /\ reported' = [reported EXCEPT ![o] = "none"]
  /\ delivered' = delivered \ {o}
  /\ UNCHANGED <<stormVars, captureVars, slot, sharedMu, sinkVars, call>>

BindAutomaticWorld(o) ==
  /\ Unlocked(o)
  /\ records[o] > 0 /\ ~worldBound[o]
  /\ worldBound' = [worldBound EXCEPT ![o] = TRUE]
  /\ UNCHANGED <<stormVars, records, opBytes, activeVars, captureVars, slot,
                 sharedMu, sinkVars, worker, call, reported, delivered>>

WithinOperationBounds(o, size) ==
  records[o] < MaxEvents /\ opBytes[o] + size <= MaxOperationBytes

(* append with grow_operation *)
Append1(o) ==
  /\ Unlocked(o)
  /\ records[o] > 0
  /\ \E size \in Sizes :
       /\ WithinOperationBounds(o, size) /\ Fits(size) /\ active[o] > 0
       /\ records' = [records EXCEPT ![o] = @ + 1]
       /\ opBytes' = [opBytes EXCEPT ![o] = @ + size]
       /\ active' = [active EXCEPT ![o] = @ + size]
       /\ activeBytes' = activeBytes + size
  /\ UNCHANGED <<stormVars, worldBound, captureVars, slot, sharedMu,
                 sinkVars, worker, call, reported, delivered>>

(* Mutant: the operation goes and its bytes stay. *)
MutReleaseOperation(o) == UNCHANGED activeVars

ReleaseOperation(o) ==
  /\ active' = [active EXCEPT ![o] = 0]
  /\ activeBytes' = activeBytes - active[o]

ForgetRecords(o) ==
  /\ records' = [records EXCEPT ![o] = 0]
  /\ opBytes' = [opBytes EXCEPT ![o] = 0]
  /\ worldBound' = [worldBound EXCEPT ![o] = FALSE]

(* succeed, cancel, abandon_incomplete, and append at a limit: State::delete *)
Delete(o) ==
  /\ Unlocked(o)
  /\ records[o] > 0
  /\ ForgetRecords(o)
  /\ ReleaseOperation(o)
  /\ UNCHANGED <<stormVars, captureVars, slot, sharedMu, sinkVars, worker, call,
                 reported, delivered>>

-----------------------------------------------------------------------------
(***************************************************************************)
(* Sdk::fail.                                                              *)
(***************************************************************************)
(* failure_record: the record gets the next sequence number. *)
FailRecord(c, o) ==
  /\ Idle(c)
  /\ Unlocked(o)
  /\ records[o] > 0 /\ worldBound[o]
  /\ call' = [call EXCEPT ![c] = Calling("recorded", o, records[o], 0, FALSE)]
  /\ UNCHANGED <<stormVars, sdkVars, activeVars, captureVars, slot, sharedMu,
                 sinkVars, worker, reported, delivered>>

(* The call is over; an answer of fail is remembered. *)
Return(c, answer) ==
  /\ call' = [call EXCEPT ![c] = NoCall]
  /\ reported' = [reported EXCEPT ![call[c].op] = answer]
  /\ sharedMu' = IF sharedMu = c THEN None ELSE sharedMu

At(c, point) == call[c].at = point

GoTo(c, point) ==
  call' = [call EXCEPT ![c] = Calling(point, call[c].op, call[c].seq, call[c].bytes,
                                      call[c].sent)]

(* The mutex is free for the second critical section of this very call. *)
Lockable(c) == call[c].op \in Recorded \/ sharedMu = None

(* Between the two critical sections another call removed the operation. *)
FailGone(c) ==
  /\ At(c, "recorded") /\ Lockable(c)
  /\ records[call[c].op] = 0
  /\ Return(c, "incomplete")
  /\ UNCHANGED <<stormVars, sdkVars, activeVars, captureVars, slot, sinkVars,
                 worker, delivered>>

(* The failure and the terminal record fit. *)
RoomToFail(o, failure, terminal) ==
  /\ WithinOperationBounds(o, failure)
  /\ opBytes[o] + failure + terminal <= MaxOperationBytes

FailTake(c) ==
  LET o == call[c].op IN
  /\ At(c, "recorded") /\ Lockable(c)
  /\ records[o] > 0
  /\ \E failure \in Sizes, terminal \in Sizes : RoomToFail(o, failure, terminal)
  /\ call[c].seq = records[o]
  /\ ForgetRecords(o)
  /\ ReleaseOperation(o)
  /\ sharedMu' = IF o \in Recorded THEN sharedMu ELSE c
  /\ GoTo(c, "storm")
  /\ UNCHANGED <<stormVars, captureVars, slot, sinkVars, worker, reported, delivered>>

(* A limit is met, or validate or failure_storm_identity refuses the         *)
(* candidate, as they do when a record came in between the two critical      *)
(* sections: sequence numbers must be consecutive.  The operation is gone    *)
(* all the same.                                                             *)
FailInvalid(c) ==
  LET o == call[c].op IN
  /\ At(c, "recorded") /\ Lockable(c)
  /\ records[o] > 0
  /\ ForgetRecords(o)
  /\ ReleaseOperation(o)
  /\ \E failure \in Sizes, terminal \in Sizes :
       \/ ~RoomToFail(o, failure, terminal) /\ Return(c, "quota")
       \/ RoomToFail(o, failure, terminal) /\ Return(c, "incomplete")
  /\ UNCHANGED <<stormVars, captureVars, slot, sinkVars, worker, delivered>>

FailAdmitted(c) ==
  /\ At(c, "storm")
  /\ \E i \in Identities : Admitted(i)
  /\ GoTo(c, "reserve")
  /\ UNCHANGED <<sdkVars, activeVars, captureVars, slot, sharedMu, sinkVars,
                 worker, reported, delivered>>

(* A suppressed failure is no error, but there is nothing to finalise. *)
FailSuppressed(c) ==
  /\ At(c, "storm")
  /\ \E i \in Identities : SuppressedExact(i) \/ SuppressedHighCardinality(i)
  /\ Return(c, "suppressed")
  /\ UNCHANGED <<sdkVars, activeVars, captureVars, slot, sinkVars, worker, delivered>>

SetCapture(o, bytes, state) ==
  /\ candidate' = [candidate EXCEPT ![o] = [bytes |-> bytes, state |-> state]]
  /\ candidateBytes' = candidateBytes - candidate[o].bytes + bytes

HasRoom(bytes) == Cardinality(Captures) < MaxQueued /\ Fits(bytes)

(* reserve_candidate_handoff *)
FailReserve(c) ==
  LET o == call[c].op IN
  /\ At(c, "reserve")
  /\ \E bytes \in CandidateSizes :
       /\ bytes <= MaxOperationBytes
       /\ candidate[o] = NoCapture /\ HasRoom(bytes)
       /\ SetCapture(o, bytes, "Handoff")
       /\ call' = [call EXCEPT ![c] =
            Calling(IF o \in Recorded THEN "record" ELSE "claim", o, 0, bytes, FALSE)]
  /\ UNCHANGED <<stormVars, sdkVars, activeVars, slot, sharedMu, sinkVars, worker,
                 reported, delivered>>

(* There is no room, or the admitted candidate cannot be encoded. *)
FailQueueFull(c) ==
  LET o == call[c].op IN
  /\ At(c, "reserve")
  /\ \/ /\ \E bytes \in CandidateSizes :
             bytes > MaxOperationBytes \/ candidate[o] # NoCapture \/ ~HasRoom(bytes)
        /\ Return(c, "quota")
     \/ Return(c, "incomplete")
  /\ UNCHANGED <<stormVars, sdkVars, activeVars, captureVars, slot, sinkVars, worker,
                 delivered>>

(* Mutant: an entry that nobody has claimed counts as kept. *)
MutCandidateIsRetained(o) == candidate[o].state # "none"

CandidateIsRetained(o) == candidate[o].state = "Retained"

(* After try_send *)
FailCheck(c) ==
  /\ At(c, "check")
  /\ GoTo(c, IF CandidateIsRetained(call[c].op) THEN "keep" ELSE "drop")
  /\ UNCHANGED <<stormVars, sdkVars, activeVars, captureVars, slot, sharedMu, sinkVars,
                 worker, reported, delivered>>

(* The sink keeps the candidate. *)
FailKeep(c) ==
  /\ At(c, "keep")
  /\ call[c].op \notin Recorded
  /\ Return(c, IF call[c].sent THEN "accepted" ELSE "quota")
  /\ UNCHANGED <<stormVars, sdkVars, activeVars, captureVars, slot, sinkVars, worker,
                 delivered>>

(* Mutant: the entry stays. *)
MutReleaseCandidate(o) == UNCHANGED captureVars

ReleaseCandidate(o) == SetCapture(o, 0, "none")

(* fail releases what the sink has not kept, and reports a limit. *)
FailDrop(c) ==
  /\ At(c, "drop")
  /\ ReleaseCandidate(call[c].op)
  /\ Return(c, "quota")
  /\ UNCHANGED <<stormVars, sdkVars, activeVars, slot, sinkVars, worker, delivered>>

-----------------------------------------------------------------------------
(***************************************************************************)
(* The local recorder and the finalisation of its candidate.               *)
(***************************************************************************)
(* ManagedRustLocalRecorder::try_send; the recorder serves one operation. *)
RecorderStore(c) ==
  LET o == call[c].op IN
  /\ At(c, "record")
  /\ SetCapture(o, call[c].bytes, "Retained")
  /\ slot' = [slot EXCEPT ![o] = call[c].bytes]
  /\ call' = [call EXCEPT ![c] = Calling("check", o, 0, call[c].bytes, TRUE)]
  /\ UNCHANGED <<stormVars, sdkVars, activeVars, sharedMu, sinkVars, worker, reported,
                 delivered>>

(* take_failed_candidate, after fail has returned *)
TakeFailed(c) ==
  LET o == call[c].op IN
  /\ At(c, "keep")
  /\ o \in Recorded
  /\ slot' = [slot EXCEPT ![o] = 0]
  /\ ReleaseCandidate(o)
  /\ GoTo(c, "finalize")
  /\ UNCHANGED <<stormVars, sdkVars, activeVars, sharedMu, sinkVars, worker, reported,
                 delivered>>

(* finalize_official: the closure does not match, the token provider or the  *)
(* registration fails, or the worker does not start.                         *)
FinalizeFails(c) ==
  /\ At(c, "finalize")
  /\ Return(c, "incomplete")
  /\ UNCHANGED <<stormVars, sdkVars, activeVars, captureVars, slot, sinkVars, worker,
                 delivered>>

(* The workload is registered, the sink's worker runs; the deployment is now *)
(* signed, so the candidate may have another size.                           *)
Finalize(c) ==
  LET o == call[c].op IN
  /\ At(c, "finalize")
  /\ worker' = [worker EXCEPT ![o] = WorkerAt("idle", None, 0)]
  /\ \E bytes \in CandidateSizes :
       call' = [call EXCEPT ![c] = Calling("claim", o, 0, bytes, FALSE)]
  /\ UNCHANGED <<stormVars, sdkVars, activeVars, captureVars, slot, sharedMu, sinkVars,
                 reported, delivered>>

-----------------------------------------------------------------------------
(***************************************************************************)
(* ManagedRustCandidateSink::try_send.                                     *)
(***************************************************************************)
(* try_send returns false: fail goes on to its check, a finalisation ends. *)
SinkAnswersNo(c) ==
  \/ /\ call[c].op \notin Recorded
     /\ GoTo(c, "check")
     /\ UNCHANGED <<reported, sharedMu>>
  \/ /\ call[c].op \in Recorded
     /\ Return(c, "incomplete")

(* claim_candidate *)
Claimable(o, bytes) ==
  \/ candidate[o] = [bytes |-> bytes, state |-> "Handoff"]
  \/ candidate[o] = NoCapture /\ HasRoom(bytes)

SinkClaim(c) ==
  LET o == call[c].op IN
  /\ At(c, "claim")
  /\ Claimable(o, call[c].bytes)
  /\ SetCapture(o, call[c].bytes, "Retained")
  /\ GoTo(c, "count")
  /\ UNCHANGED <<stormVars, sdkVars, activeVars, slot, sharedMu, sinkVars, worker,
                 reported, delivered>>

(* The candidate is not authorised, or there is no room to claim it. *)
SinkUnclaimed(c) ==
  /\ At(c, "claim")
  /\ SinkAnswersNo(c)
  /\ UNCHANGED <<stormVars, sdkVars, activeVars, captureVars, slot, sinkVars, worker,
                 delivered>>

SinkFull(s, bytes) == counted[s] >= MaxQueued \/ queuedBytes[s] + bytes > MaxGlobalBytes

SinkCount(c) ==
  LET o == call[c].op
      s == SinkOf(o)
  IN
  /\ At(c, "count")
  /\ ~SinkFull(s, call[c].bytes)
  /\ counted' = [counted EXCEPT ![s] = @ + 1]
  /\ queuedBytes' = [queuedBytes EXCEPT ![s] = @ + call[c].bytes]
  /\ GoTo(c, "send")
  /\ UNCHANGED <<stormVars, sdkVars, activeVars, captureVars, slot, sharedMu, queue,
                 worker, reported, delivered>>

(* The sink counts a candidate whose memory is already released. *)
SinkUncounted(c) ==
  /\ At(c, "count")
  /\ SinkFull(SinkOf(call[c].op), call[c].bytes)
  /\ GoTo(c, "refuse")
  /\ UNCHANGED <<stormVars, sdkVars, activeVars, captureVars, slot, sharedMu, sinkVars,
                 worker, reported, delivered>>

SinkRefuse(c) ==
  /\ At(c, "refuse")
  /\ ReleaseCandidate(call[c].op)
  /\ SinkAnswersNo(c)
  /\ UNCHANGED <<stormVars, sdkVars, activeVars, slot, sinkVars, worker, delivered>>

(* The channel is bounded like the counters.  It is not full, for it holds no *)
(* more than is counted (AccountsAgree), and not disconnected, for the worker *)
(* runs until the sink is dropped: the answer of queue.try_send that would    *)
(* undo the count and the claim is never given.                              *)
ChannelHasRoom(s) == Len(queue[s]) < MaxQueued

SinkSend(c) ==
  LET o == call[c].op
      s == SinkOf(o)
  IN
  /\ At(c, "send")
  /\ ChannelHasRoom(s)
  /\ queue' = [queue EXCEPT ![s] =
                 Append(@, [op |-> o, bytes |-> call[c].bytes, at |-> now])]
  /\ \/ /\ o \notin Recorded
        /\ call' = [call EXCEPT ![c] = Calling("check", o, 0, call[c].bytes, TRUE)]
        /\ UNCHANGED <<reported, sharedMu>>
     \/ /\ o \in Recorded
        /\ Return(c, "accepted")
  /\ UNCHANGED <<stormVars, sdkVars, activeVars, captureVars, slot, counted,
                 queuedBytes, worker, delivered>>

-----------------------------------------------------------------------------
(***************************************************************************)
(* The worker of a sink.                                                   *)
(***************************************************************************)
DeliveryExpired(at) == now - at >= Lifetime

WorkerRecv(s) ==
  LET queued == Head(queue[s]) IN
  /\ worker[s].at = "idle"
  /\ queue[s] # <<>>
  /\ queue' = [queue EXCEPT ![s] = Tail(@)]
  /\ worker' = [worker EXCEPT ![s] =
       WorkerAt(IF DeliveryExpired(queued.at) THEN "releasing" ELSE "delivering",
                queued.op, queued.bytes)]
  /\ UNCHANGED <<stormVars, sdkVars, activeVars, captureVars, slot, sharedMu, counted,
                 queuedBytes, call, reported, delivered>>

(* deliver_candidate: accepted, or refused, expired, failed or panicked. *)
WorkerDeliver(s) ==
  /\ worker[s].at = "delivering"
  /\ delivered' \in {delivered, delivered \cup {worker[s].op}}
  /\ worker' = [worker EXCEPT ![s] = WorkerAt("releasing", @.op, @.bytes)]
  /\ UNCHANGED <<stormVars, sdkVars, activeVars, captureVars, slot, sharedMu, sinkVars,
                 call, reported>>

(* finish_queued: release_candidate, then the queue's own counters. *)
WorkerRelease(s) ==
  /\ worker[s].at = "releasing"
  /\ ReleaseCandidate(worker[s].op)
  /\ worker' = [worker EXCEPT ![s] = WorkerAt("counting", @.op, @.bytes)]
  /\ UNCHANGED <<stormVars, sdkVars, activeVars, slot, sharedMu, sinkVars, call,
                 reported, delivered>>

Finished(n) == n - 1

WorkerFinish(s) ==
  /\ worker[s].at = "counting"
  /\ counted' = [counted EXCEPT ![s] = Finished(@)]
  /\ queuedBytes' = [queuedBytes EXCEPT ![s] = @ - worker[s].bytes]
  /\ worker' = [worker EXCEPT ![s] = WorkerAt("idle", None, 0)]
  /\ UNCHANGED <<stormVars, sdkVars, activeVars, captureVars, slot, sharedMu, queue,
                 call, reported, delivered>>

-----------------------------------------------------------------------------
PassTime ==
  /\ Tick
  /\ UNCHANGED <<sdkVars, activeVars, captureVars, slot, sharedMu, sinkVars, worker,
                 call, reported, delivered>>

CallStep(c) ==
  \/ FailGone(c) \/ FailTake(c) \/ FailInvalid(c)
  \/ FailAdmitted(c) \/ FailSuppressed(c) \/ FailReserve(c) \/ FailQueueFull(c)
  \/ FailCheck(c) \/ FailKeep(c) \/ FailDrop(c)
  \/ RecorderStore(c) \/ TakeFailed(c) \/ FinalizeFails(c) \/ Finalize(c)
  \/ SinkClaim(c) \/ SinkUnclaimed(c) \/ SinkCount(c) \/ SinkUncounted(c)
  \/ SinkRefuse(c) \/ SinkSend(c)

WorkerStep(s) ==
  WorkerRecv(s) \/ WorkerDeliver(s) \/ WorkerRelease(s) \/ WorkerFinish(s)

Next ==
  \/ \E o \in Operations : Begin(o) \/ BindAutomaticWorld(o) \/ Append1(o) \/ Delete(o)
  \/ \E c \in Callers, o \in Operations : FailRecord(c, o)
  \/ \E c \in Callers : CallStep(c)
  \/ \E s \in Sinks : WorkerStep(s)
  \/ PassTime

(* A call that has begun goes on, and so does a worker: their waits are for  *)
(* mutexes that are held for a bounded time, and delivery has a deadline.    *)
Fairness ==
  /\ \A c \in Callers : WF_vars(CallStep(c))
  /\ \A s \in Sinks : WF_vars(WorkerStep(s))

Spec == Init /\ [][Next]_vars /\ Fairness

-----------------------------------------------------------------------------
(***************************************************************************)
(* Properties.                                                             *)
(***************************************************************************)
(* The Sdks, the process resources, the sinks and the calls stay in their    *)
(* types.                                                                    *)
TypeOK ==
  /\ StormTypeOK
  /\ records \in [Operations -> 0 .. MaxEvents]
  /\ opBytes \in [Operations -> 0 .. MaxOperationBytes]
  /\ worldBound \in [Operations -> BOOLEAN]
  /\ active \in [Operations -> 0 .. MaxOperationBytes]
  /\ activeBytes \in 0 .. MaxGlobalBytes
  /\ candidate \in [Operations ->
       [bytes : 0 .. MaxGlobalBytes, state : {"none", "Handoff", "Retained"}]]
  /\ candidateBytes \in 0 .. MaxGlobalBytes
  /\ slot \in [Operations -> 0 .. MaxOperationBytes]
  /\ sharedMu \in Callers \cup {None}
  /\ DOMAIN queue = Sinks
  /\ \A s \in Sinks :
       queue[s] \in Seq([op : Operations, bytes : CandidateSizes, at : 0 .. MaxTime])
  /\ counted \in [Sinks -> 0 .. MaxQueued]
  /\ queuedBytes \in [Sinks -> 0 .. MaxGlobalBytes]
  /\ worker \in [Sinks -> [at : WorkerPoints, op : Operations \cup {None},
                            bytes : CandidateSizes \cup {0}]]
  /\ call \in [Callers -> [at : CallPoints, op : Operations \cup {None},
                            seq : 0 .. MaxEvents, bytes : CandidateSizes \cup {0},
                            sent : BOOLEAN]]
  /\ reported \in [Operations -> Answers]
  /\ delivered \in SUBSET Operations

Total(f) == MapThenSumSet(LAMBDA o : f[o], Operations)

(* The candidates on their way through a sink. *)
InSink(s) ==
  LET sending == {c \in Callers : call[c].at = "send" /\ SinkOf(call[c].op) = s}
      working == IF worker[s].at \in {"absent", "idle"} THEN 0 ELSE 1
  IN  Len(queue[s]) + working + Cardinality(sending)

(* The process accounts for exactly the operations the Sdks record and for   *)
(* exactly the candidates it has entries for, and stays within the limits,   *)
(* whichever threads record, fail and deliver at the same time               *)
(* (ProcessResources).  A sink counts exactly the candidates on their way    *)
(* through it, so its channel is never full and an idle sink is a drained    *)
(* one (try_send, finish_queued, wait_until_idle).                           *)
AccountsAgree ==
  /\ TypeOK
  /\ active = opBytes
  /\ activeBytes = Total(active)
  /\ candidateBytes = Total([o \in Operations |-> candidate[o].bytes])
  /\ activeBytes + candidateBytes <= MaxGlobalBytes
  /\ Cardinality(Captures) <= MaxQueued
  /\ \A s \in Sinks : counted[s] = InSink(s)
  /\ \A c \in Callers : call[c].at = "send" => ChannelHasRoom(SinkOf(call[c].op))

Queued(o) == \E k \in 1 .. Len(queue[SinkOf(o)]) : queue[SinkOf(o)][k].op = o

Working(o) == worker[SinkOf(o)].op = o /\ worker[SinkOf(o)].at \in {"delivering", "releasing"}

(* A call that answers for the entry itself, since no sink has it. *)
InHand(o) ==
  \E c \in Callers :
    /\ call[c].op = o
    /\ \/ call[c].at \in {"record", "claim", "count", "send", "refuse"}
       \/ call[c].at \in {"check", "drop"} /\ ~call[c].sent

(* No entry leaks and none is missing: an entry of the candidate table has a *)
(* holder, and what a recorder, a queue or a worker holds has its entry      *)
(* (reserve_candidate_handoff, claim_candidate, release_candidate).  What is *)
(* kept or was delivered was not reported as suppressed (fail).              *)
CandidatesHeld ==
  \A o \in Operations :
    LET kept == slot[o] > 0 \/ Queued(o) \/ Working(o) IN
    /\ candidate[o].state # "none" => InHand(o) \/ kept
    /\ kept => candidate[o].state = "Retained"
    /\ kept \/ o \in delivered => reported[o] # "suppressed"

(* Every candidate leaves the process: its entry is released in the end,     *)
(* delivered or not (finish_queued, fail, take_failed_candidate).            *)
CandidatesReleased ==
  \A o \in Operations : candidate[o].state # "none" ~> candidate[o].state = "none"
=============================================================================
