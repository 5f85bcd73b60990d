# A verification of the Repro It SDK

The Repro It SDK records what a program did with its environment while it handled
one operation (a request, a job) and, when that operation fails, sends an encrypted
candidate from which the failure can be replayed. `README.md` of the repository
states the promise the five language SDKs share: no successful or incomplete
operation is sent, and a capture error or a Cloud outage does not change the
application's result. This directory holds TLA+ models of the parts of the code
that carry the promise, the TLC configurations that check them on small instances,
and TLAPS proofs about each of them. Paths below are relative to `src/`.

`PROJECT.json` is the index: every definition that models code is mapped to its
lines, every property has a mutant of the code that breaks it, and every known
hazard names the properties that watch it.

## 1. The system

### Parts, their state and operations

| Part | Where | State | Operations | Interacts by |
|---|---|---|---|---|
| Native engine: registry and failure path | `crates/reproit-sdk-engine/src/{lib,failure_delivery}.rs` | one mutex over engines, operations, observations and sinks by u64 handle; one `FailureTask` per failure; a bounded channel | EngineOpen/Close, OperationBegin/Succeed/Abandon/Fail, SinkWait; the worker thread | C ABI calls of host threads; the worker finalizes into a managed sink |
| Engine observations, semantic dependencies | `observation.rs`, `semantic_dependency.rs` and the dispatch of `lib.rs` | table of observation handles, each with its operation and, for some classes, the records of one dependency call | observation open, write, dispatch, read, finish, abandon; dependency open, finish | one call goes through the table, the operation's coordinator and the sentinel, under the registry's mutex |
| World coordinator | `crates/reproit-sdk-rust/src/automatic_world*.rs` | sessions, positions, observations, flags (incomplete, overflowed) | open, write, dispatch, read, finish, abandon, mark unowned, close | called under the operation's mutex |
| Ambient context, owner, replay | `automatic_context.rs`, `automatic_engine.rs`, `automatic_replay.rs` | per operation: coordinator, invalid flag, ambient session count; process-wide set of active operations; per thread: stack of scopes | scope entry/exit, session calls, invalidation of all active operations, end of an operation | two or three lock acquisitions per call |
| Native sentinel | `crates/reproit-sdk-sentinel/src` | active operations and observations, sequence and queue counters shared with a tracer process, a pipe | operation started/finished/removed, observation opened/dispatched/finished, engine opened/closed | ptrace stops, shared memory, pipe |
| Operation recorder and process resources | `lib.rs`, `resources.rs` of reproit-sdk-rust | records and bytes of operations; process-wide byte accounts, candidate entries, storm gate | begin, append, bind World, fail, delete | `ProcessResources` mutex shared by all SDKs of the process |
| Managed sink and local recorder | `managed_sink.rs`, `official_operation.rs` | claimed entries, queue counters, channel, worker; the recorder's one slot | try_send, finalize, worker delivery | channel; service |
| Workload identity | `managed_identity.rs`, registration in `managed_sink.rs` | private directory with key, deployment time and receipt | load or create each file, register, persist receipt | processes share the directory without a lock |
| Candidate preparation, upload, transport | `managed.rs`, `managed_transport.rs` | spool of frozen objects, their ciphertexts, the grants' keys; one upload with its pages and up to eight threads | freeze, prepare, grant, seal, renew; start, missing page, upload object, commit, cancel | HTTPS exchanges, each with a timeout; temporary files |
| Subject packaging | `subject.rs` and the hosts' managed subject files | a private copy of the program and its loaded modules | package | files that may change meanwhile |
| Go host | `sdks/go/reproit` | project, operations, registry of active operations by goroutine, sink waiters | Start, Succeed, Fail, Cancel, Close; hooks for clock, randomness, environment, HTTP | engine calls; mutexes per project and operation |
| Python, Node and .NET hosts | `sdks/{python,node,dotnet}` | as the Go host, with patched adapters | as the Go host | engine calls |
| Fuzz contexts, processor capture, JSON forms, package loaders, platform queries, tools | see `PROJECT.json` | none that outlives a call | pure or I/O | - |

### Why it is hard

*Concurrency.* Host threads, the failure worker, sink workers, pollers, a tracer
process and other processes all meet; most calls take a lock, release it and go on
with what they read. *Ordering.* Evidence arrives before, while and after an
operation ends. *Failure.* Any spool file, reservation, send, registration or
directory flush may fail between two steps. *Limits.* Handles, operations, sinks,
channel slots, events, bytes and sequence numbers are all bounded, and the bounds
are reached in the middle of a call. *Crashes.* The identity directory must survive
the death of a process and a power loss at every step.

What makes each part correct: an operation has one owner and one fate; a captured
World contains every interaction; coverage is clean only without unowned effects;
accounts and counters match what is held; every accepted failure is settled and
every call returns; a deployment registers one identity and its receipt is true;
what the service commits is what ran, and a delivery reported as accepted is
durable; a call that fails half way leaves the tables it went through in agreement.

## 2. Modules

One action is one critical section (or one atomic system call). Bytes, digests and
payloads are model values or small numbers; refused reservations, file errors and
service answers are nondeterministic wherever the code meets them.

| Module | Models | Notes |
|---|---|---|
| `FailureDelivery` | engine lifecycle, OperationFail, SinkWait, the worker | `registry`, tasks, channel, one program counter per host thread and for the worker; handles are `allocate_handle`'s numbers, so exhaustion is modelled |
| `GoOperations` | `AutomaticProject`, `AutomaticOperation`, goroutine registry, the clock/random/environment hooks, `pollSink` | `project.mu` and `operation.mu` are locks with an owner because they are held across calls; `GoroutineIds` says whether a goroutine's id can be read; `HostQuiesces` and `ProviderUsesHooks` state what the host does |
| `Sentinel` | controller, tracer, shared counters, pipe, ignore slots | a controller call is lock, drain event by event, health check, table change; the tracer runs in between |
| `WorldCoordinator` | the coordinator's calls as operators on its state | no `Next` of its own: callers drive it |
| `AutomaticContext` | EXTENDS `WorldCoordinator`: threads, scopes, session calls, lost contexts, the ending call, replay | composition of context and coordinator; `require_current`, `take_for_close` and `deactivate` are two critical sections each |
| `EngineObservations` | EXTENDS `WorldCoordinator`: the engine's observation table, semantic dependencies, the operations' calls, and the sentinel's tables as far as these calls change them | composition of engine, coordinator and sentinel; one engine call is one step, because the registry's mutex is held throughout, with one disjunct for each way it can end |
| `WorldEvidence` | the abstract promise: interactions are numbered, committed, and the operation is decided once | `AutomaticContext` implements it (`ImplementsEvidence`) |
| `StormGate` | `FailureStormGate`: suppression and token bucket | used by `CandidatePipeline` |
| `CandidatePipeline` | EXTENDS `StormGate`: `Sdk`, `ProcessResources`, local recorder, managed sink and worker | operations in `Recorded` have their own Sdk, recorder and sink (`OfficialManagedRustOperation`), the others share one |
| `ManagedIdentity` | directory, key, deployment, receipt, registration, process death, power loss | the directory is a log of entries with a flushed prefix |
| `SubjectFiles` | how files are copied while they may be rewritten or replaced: `capture_file` for the program's modules, `freeze` for the operation's artifacts | a path is a sequence of files, a read happens in two halves, so a copy is a pair of versions |
| `CandidateDelivery` | EXTENDS `SubjectFiles`: preparation, grant, sealing, renewal, upload, commit and cancel under one deadline, the service's answers and the loss of them | one program counter for the delivery and one for each upload thread; a thread that cannot be started unwinds the delivery; a local limit or storage failure ends it; requests that were given up may arrive later (`late`) |
| `DurableDelivery` | the abstract promise: accepted only if committed, decided once, a committed candidate stays committed | `CandidateDelivery` implements it (`ImplementsDurable`) |
| `FailureDelivery_proofs`, `GoOperations_proofs`, `Sentinel_proofs`, `AutomaticContext_proofs`, `EngineObservations_proofs`, `CandidatePipeline_proofs`, `ManagedIdentity_proofs`, `CandidateDelivery_proofs` | theorems about the module each is named for, with the inductive invariant and its lemmas | section 5; only these hold theorems |
| `MC...` | symmetry sets and constant definitions for TLC | |

The abstraction of each module is stated at its head. Definitions named `Mut...`
are single-fault variants of the definition that follows them; they are not
referenced by any specification and exist to show that a property can fail.

## 3. Runs

### What holds

| Run | Instance | Shows |
|---|---|---|
| `failure_delivery` | 2 callers, 5 handles, 2 engines, 2 operations, 2 sinks, channel of 1 | each operation has exactly one owner (`SingleOwner`); a pending task is registered and on its way to the worker (`PendingReachable`); cancel is final; no start after close; a slot is kept until its task settles; every accepted failure settles and every call returns |
| `go_operations` | 2 goroutines, 2 operations, 1 sink, 1 waiter | registry and goroutine stacks agree (`RegistryExact`), a fate is decided once, a closed project has nothing open, and an operation that was still active when an unattributed read returned is never sent |
| `go_operations_live` | 2 operations, a registry of 1, no room for a poller | Close returns (`CloseReturns`), Fail and hooks return (`HostCallsReturn`), if the host closes only between failures and its token provider calls no hook |
| `sentinel` | 2 threads, 1 operation, 2 observations, an exact and a transitive class, queue and sequence of 1 | an operation whose closing begins after an unowned effect never gets clean coverage, whether the event was applied, dropped, failed to be written or never traced (`KnownNeverClean`); clean coverage accounts for the effects the operation alone could own; `queued_events` equals what is in the pipe and in flight |
| `automatic_world` | 1 operation, 2 sessions, 2 threads, capture and replay | a captured World has every numbered interaction as owned evidence; a finished replay delivered each recorded response; neither happens to an operation that was live when a thread without a context met it; sessions belong to their operation; refinement of `WorldEvidence` |
| `candidate_pipeline` | 2 operations (one managed), 2 callers, queue of 1, 4 bytes, 3 failure identities and a gate with room for 2 | the process accounts of operations and candidates equal the sums of what they account for and stay within limits; sink counters are exact (all in `AccountsAgree`); a candidate entry exists exactly while someone holds the candidate; no failure is sent twice within its suppression, because the token bucket keeps the gate from pushing out an identity (`SuppressionHolds`); every candidate is released |
| `managed_identity` | 3 processes, 3 keys, 2 times, 2 power losses | between power losses one identity is registered; a receipt names the key and time in the directory and something the service accepted; no start ever meets a receipt that is not its own; a durable identity never changes |
| `candidate_delivery` | 2 modules, 2 artifacts, 2 records; pages of 3, batches of 2, 2 attempts; 2 faults or file changes in all; 2 calls of upload | what the service commits is whole, encrypted from the bytes its descriptors name, as captured but for adopted artifacts, and sealed under the key of its grant (`CommittedIsIntact`); no thread uploads while the delivery commits, cancels or has ended (`UploadsJoined`); a failed delivery asked for the cancellation of an upload it knows (`AbandonedIsCancelled`); a delivery that nothing disturbs is accepted, whatever the pages and attempts (`FailureHasCause`); refinement of `DurableDelivery`; every delivery ends, even if its deadline never passes (`DeliveryEnds`) |
| `engine_observations` | 2 operations, 2 handles, a plain and a semantic class, room for 1 session and 1 observation of an operation and for 1 watched observation | the engine's table, the coordinators and the sentinel agree after every call, however it failed (`TablesAgree`); a World is bound only if every observation begun for it was finished with success, and holds exactly one for each (`CapturedIsAnswered`) |

The type invariant of a module is a property of its own in `failure_delivery`,
`managed_identity` and `candidate_delivery` and the first conjunct of
`RegistryExact`, `QueueCounterExact`, `SessionsLinked`, `AccountsAgree` and
`TablesAgree` in the others.

### Where code and documentation disagree

Each of these runs checks one property that a document, comment or message of the
repository states, and TLC finds a behaviour of the code that breaks it.

| Run | Property | Disagreement |
|---|---|---|
| `go_close_during_fail` | `CloseReturns` | `Fail` locks `project.mu` while holding `operation.mu`; `Close` locks them in the other order. A Close that takes the operation before Fail unregisters it blocks both |
| `go_ambiguous_read` | `AmbiguousStaysLocal` | an operation that fails between an unattributed read and its mark is sent, although `docs/go.md` says every affected operation stays local |
| `sentinel_drain` | `SuspectNeverClean` | an event written after the drain of `operation_finished` saw an empty pipe and before coverage is decided is lost to the operation, although `docs/go.md` says an unowned effect keeps it local |

Four more things the models show, for which no document states the contrary
plainly enough to make a run of it:

* `mark_unowned` and the opening of a session return a storage error before they
  mark the operation (`automatic_world.rs:628`). The language hosts abandon the
  operation then; a caller of the Rust API that goes on can still capture it. In
  `AutomaticContext` these are `UnownedUnstored` and `OpenFails`, and
  `CaptureIsComplete` speaks of the interactions that got a position.
* `fail` asks whether the sink retained the candidate after the worker may have
  delivered and released it (`lib.rs:440` of reproit-sdk-rust), and then reports the
  capture limit for a delivered failure. `CandidatesHeld` therefore claims nothing
  of failures reported as over a limit.
* The worker takes the digest of a frozen artifact when it prepares the candidate
  (`reference_artifact`, `managed.rs:1485`), not when it froze it. The digest of a
  World artifact is compared with the World; nothing fixes another's. A frozen
  transcript that was changed while the candidate was queued into another valid one
  is sealed and committed under its new digest. In `CandidateDelivery` this is
  `Adopt`, and `CommittedIsIntact` promises only that no World artifact is adopted
  and that from then on the descriptor and the bytes agree.
* `scope.spawn` panics when the system cannot start a thread (`managed.rs:511`). The
  scope joins the threads it has, the sink's worker catches the panic, and the upload
  is not cancelled: it stays open at the service. These are `SpawnPanics` and
  `Unwind`, and `AbandonedIsCancelled` excepts a delivery that panicked.

### Bounds and why they are enough

Every race named in the hazards is between two actors and one object, so two
threads with one or two objects reach it; a third process in `managed_identity`
lets one write while a second reads and a third dies. Limits are set at or just
below what the instance can demand, so each limit is met and each refused path is
taken: a channel smaller than the sink table, a queue of one, a byte budget that
two operations and their candidates exceed, a sequence counter of one. The
exception is the sentinel's table of operations, which its instance does not fill;
that a full one costs no property is what the proofs of section 5 add. The registry
of the Go host is full in `go_operations_live`, its table of sink waiters in both Go
runs. Time in `CandidatePipeline` is bounded by `MaxTime`, which is a suppression and a
delivery lifetime one after the other. `StormAssumption` is the relation between the gate's
constants (256 * 1000 > 4000 + 2 * 60000) under which eviction never hits an
identity still suppressed; TLC evaluates it for the instance and the comment gives
the code's numbers. In the instance a token costs 2, the bucket holds 2 and gains 1
in a tick, and the gate has room for 2 of 3 identities (2 * 2 > 2 + 1 * 1). `admit`
drops the entries whose suppression has passed before it looks for room, so with this
relation it never has to push one out, and that is what `SuppressionHolds` relies on.
The room is tight: a bucket that counts elapsed time twice (`MutRefilled`) fills the
gate with suppressed identities and pushes one of them out.

Some cases are met by the proofs only, because an instance with them is too large:
attribution of an event among several operations (`sentinel` has one operation and
one event), positions of two sessions open in one operation (`automatic_world` has
`MaxSessions` = 1, so the last conjunct of `SessionsLinked` is vacuous there), a
bound World with two observations (`engine_observations`), and builds whose
goroutines have no readable id (`GoroutineIds` = FALSE, where an operation is
registered but on no stack).

`CandidateDelivery` bounds faults and changes of files together (`MaxFaults`): two
reach every pair, such as a lost answer to a commit and a late cancel. The clock
that stamps writes ticks only once a file has changed, and files already captured
do not change any more: neither could be told apart by what follows. Objects are
uploaded in a fixed order (`FirstOf`), as the service lists digests in order; which
of them fail is free. Six objects with pages of three make the empty last page that
the page bound has to leave room for. In `EngineObservations` the limit on watched
observations is below that of the table, so that the full watch table is met; names
of ended operations are used again, and handles, as in the code, are not.

Symmetry is used only in runs without liveness properties, over sets whose members
the specification never distinguishes. Deadlock is checked in `candidate_pipeline`
and `managed_identity`; elsewhere a bound on starts or handles lets the system stop.

### Fairness

Fairness is weak and only on steps of a call that has begun or of a worker thread;
no call is assumed to be made. `FailureDelivery`: a host thread inside
OperationFail or SinkWait and the worker are scheduled, and a wait has a timeout.
`GoOperations`: the Go scheduler runs every runnable goroutine inside a call, and the
token provider returns unless it is blocked in the SDK; nothing is assumed of the
pollers, for which no call waits. `CandidatePipeline`: calls and sink workers are scheduled, and a delivery
ends because each exchange has a deadline. `CandidateDelivery`: the worker and the
upload threads are scheduled and an exchange ends because it has a timeout; nothing
is assumed of the service, of the files or of the passing of the deadline. The
other modules state no liveness.

### Assumptions to know

* `ManagedIdentity` assumes that a power loss keeps a prefix of the directory's
  changes, as journalling file systems do. POSIX would allow any subset of the
  changes that were not flushed, and then a receipt could survive its key.
  The code flushes the directory of the identity only, not the parents it may just
  have created (`managed_identity.rs:83`, `250`), so the assumption is also what keeps
  their entries once something inside is flushed.
  `SyncsDirectory = FALSE` is the Windows build, where directories are not flushed.
* `OneIdentity` is stated between power losses: a process that reads another's
  entry does not flush it, so a power loss may take an identity that was already
  registered and the next start registers another.
* `Sentinel` decides ownership when an event is drained, as the code does;
  `CleanAccountsForEffects` claims only effects that one observation alone could own.
* The service is external. `CandidateDelivery` assumes of it what the client relies
  on: it commits only when every object it was told of is stored, a committed upload
  stays committed, a start of an upload that exists answers with its state, and
  objects sent to an upload that is not open are not stored.
* `CommittedIsIntact` excepts a module that was written again in the same tick of
  the file clock in which it was opened: `same_file_version` compares times and
  cannot see it. Nor does it speak of an artifact that had one content, another and
  the first again between the two reads of `capture_artifact`, which compare equal: a
  version in `SubjectFiles` never recurs. How files are looked at is that of the
  Linux build (`FileSource::metadata`). The property is about the bytes a path had at
  one moment, not about the bytes that were mapped: between `/proc/self/maps` and the
  opening of a module the file may be replaced (`subject.rs:349`).
* `EngineObservations` starts captures only, as the C ABI does, and has no lost
  contexts: the ambient scopes belong to the Rust API. A session that overflowed in
  a call that failed is recorded as incomplete only; `close` refuses either way. The
  sentinel may withhold coverage at any time; when it does is `Sentinel`'s subject.
* `CoverageUnbound` of `EngineObservations` is the early return of `close_world` when
  the coverage cannot be bound. The engine's own evidence and registrations always
  can be; the model does not rely on it.
* `Sentinel` has a fixed set of threads. Creating, ending or replacing one is an event
  of kind Process; a thread the tracer cannot follow and a stop whose call it cannot
  read make the trace unhealthy (`TrackingLost`).
* `CandidatePipeline` has the accounts of operations and candidates. The third account
  of `ProcessResources`, the capture bytes that subject packages, Worlds and captures
  reserve (`LogicalByteReservation`, `resources.rs:62`, `101`), is not modelled: no call
  of the pipeline reads or changes it, and its refusals are failures of storage and
  limits (`OpenFails`, `CaptureFails`, `FailsLocally`) where they are met.
* `HostQuiesces` and `ProviderUsesHooks` restrict what the Go host does in the
  liveness run. Without the first, Close and Fail can block each other (the finding
  above). With a provider that calls an instrumented function, Fail can wait for
  the mutex it holds.

## 4. Hazards

`PROJECT.json` lists what is hard to test, at the line where it bites, with the
properties that watch it. Hazards without a property carry the reason: the
component is not modelled, or the code makes no claim that could be checked.

## 5. Proofs

Every theorem holds for every value of the constants that satisfies the
assumptions its module declares, which TLC also evaluates on each run. They say
that limits are naturals (some at least one), that subsets are subsets and that
the value standing for nothing is not one of the things. Five say more:
`CoordinatorAssumption` that the observation classes are finitely many and at least
one (they are an enum of the code), `DeliveryAssumption` that the files and records
of one candidate are finite, `EngineAssumption` that handles are the numbers up
to a bound and that every class is registered, as the C ABI does,
`PipelineAssumption` that operations are finitely many (a sum over them is taken)
and that one record fits in an operation, as the payload bound of `event_record`
sees to, and `StormAssumption` the relation between the gate's constants given in
section 3.

No property below is inductive as it stands. Each module of proofs has an `IInv`
that is, and the same plan: `InductiveInit`, one lemma for each action (or for each
kind of action, where several disturb the same parts), `InductiveStep`, `Invariant`
(`Spec => []IInv`), and then the theorems. What `IInv` adds is what the code's
comments leave unsaid: what an actor between two critical sections still relies on.

`FailureDelivery_proofs`:

| Theorem | States |
|---|---|
| `TypeCorrect` | `TypeOK` is an invariant |
| `SafetyCorrect` | `SingleOwner`, `RegistryLinked` (no operation or sink outlives its engine) and `PendingReachable` are invariants |
| `PendingReachableHolds` | a pending task is registered and on its way to the worker |
| `NoStartAfterCloseHolds` | the worker never starts a task whose engine was closed |
| `CancelIsFinalHolds` | a cancelled task stays cancelled |
| `SlotHeldUntilSettledHolds` | an open engine's sink slot is given back only for a settled task |

Moving an operation into a task needs to know that the new handle names nothing yet
(`Fresh`) and that no other task holds the operation (`JobsDistinct`, the injectivity
of `job`). Completing a task and removing a sink happen in a later critical section
than the one that looked at the task, so they need what the thread still knows about
it (`WorkerKnows`: a task being finalized is running or was cancelled; `CallerKnows`:
a thread about to remove a sink holds a task that failed, was cancelled or has
drained). The action properties follow from `IInv` and the guards: a task goes from
Pending to Running only if it is registered, and a registered sink's engine is open.

`GoOperations_proofs`:

| Theorem | States |
|---|---|
| `RegistryExactHolds` | stacks hold exactly the unfinished operations, where goroutines have ids, and so does the registry but for what a running Close took from it |
| `ClosedMeansFinishedHolds` | once Close has closed the engine nothing is unfinished, registered or alive |
| `NoticedStaysLocalHolds` | if the host closes only between failures (`HostQuiesces`), an operation active before and after an unattributed read is never sent |
| `FateDecidedOnceHolds` | Succeed, Fail, Cancel and Close decide a fate once |

`GoodPc` says what a goroutine in the middle of a call relies on: a Fail past its
first line owns the operation's mutex, so nobody else finishes it; a running Close
owns `project.mu`; and a hook that has taken its list of operations still has to
visit every open World in it, unless that World is marked already or a Close has
taken it. The last part is where `HostQuiesces` is needed: without it a Close may
take an operation that a Fail is about to send. It is a hypothesis of that theorem
only, and of what the host does, not of the SDK.

`Sentinel_proofs`:

| Theorem | States |
|---|---|
| `QueueCounterExactHolds` | `queued_events` is what is in the pipe and in flight, and never above its limit |
| `KnownNeverCleanHolds` | an operation whose closing begins after an unowned effect never gets clean coverage |
| `CleanAccountsForEffectsHolds` | clean coverage accounts for every effect only the operation's own observation could own, and for nothing else |

The properties compare an effect with a verdict much later. In between the operation
is `Doomed`: it is incomplete already, the trace is not healthy, or the pipe (or the
tracer's hand) holds an event nothing can own. `UnownedWaits` is the step that makes
it inductive: such an event stays unowned until it is read, because an observation is
dispatched on a thread only by that thread, after it drained its own events.
`Accounted` is the mirror image: each effect that was the operation's own is counted,
or waits in the pipe, or the operation is doomed.

`AutomaticContext_proofs`, about `AutomaticContext` and the coordinators it drives:

| Theorem | States |
|---|---|
| `CaptureIsCompleteHolds` | a captured World holds one owned observation for every position given out, and no lost context met it |
| `ReplayIsCompleteHolds` | a finished replay delivered every recorded response |
| `SessionsLinkedHolds` | an open session belongs to a live operation and holds a position given out that no other session has |
| `ImplementsEvidenceHolds` | the refinement of `WorldEvidence` |

A call checks its context in one critical section and runs in another. `GoodThread`
and `OneUser` say what survives in between: the session value still exists and no
other thread uses it. `GoodSession` ties an open session to its value and its
operation, or says that the call that will fail the operation is under way
(`FailureUnderWay`); `Apart` keeps the positions of open sessions distinct.
`GoodOperation` carries the result: while an operation is live and not incomplete,
each position is evidence or held by an open session, and in a replay each response
taken is delivered or held by one. When the operation is taken with no open session,
the properties are what is left; that as many observations as positions are there
follows from a bijection. The refinement maps a position to a number and an owned
observation to evidence; `Bounded` gives the finite set of interactions, because no
class gets more positions than the ambient sessions and the internal observation.

`EngineObservations_proofs`:

| Theorem | States |
|---|---|
| `TablesAgreeHolds` | the engine's table, the coordinators' sessions and the sentinel's observations agree after every call, however it failed |
| `CapturedIsAnsweredHolds` | a bound World holds one owned observation for each observation begun, each finished with success |

A handle is used once (`UnusedAt`) and belongs to one operation wherever it is known
(`OwnedAt`); while an operation can still close, each of its observations is open or
finished (`KeptAt`), and its evidence has one owned observation for each finished
one (`Accounted`); coordinator, registry entry and bound World go together
(`Staged`).

`CandidatePipeline_proofs`, about `CandidatePipeline` and the gate of `StormGate`:

| Theorem | States |
|---|---|
| `SuppressionHoldsHolds` | an identity is not admitted twice within the suppression time, although the gate forgets when it is full |
| `CandidatesHeldHolds` | an entry of the candidate table has a holder, and whatever is kept has its entry |
| `AccountsAgreeHolds` | the counters of the process are the sums of what they account for and within their limits; each sink counts what it holds |

A full gate evicts the identity seen longest ago, which is then a suppressed one.
`Budget` says why that never happens: what admissions since any moment have cost was in
the bucket then or has flowed in since. With `StormAssumption` fewer identities than
the gate has room for can be admitted within one suppression, so it still knows them
all (`Remembers`).

Between two critical sections of `fail`, of a sink's `try_send` and of a worker, an
operation is nobody's but one call's or one keeper's. `GoodCall` says what a call at
each of its points relies on about the entry, `GoodOperation` that a candidate has
one keeper (the recorder's slot, a place in a queue, a worker) and that a call that
has handed it over does not release it. Nothing in the code states this: a lookup by
id tolerates that an entry is gone, and no comment says when it may be.

For the accounts, `Total` is a fold over the operations. How a sum changes when one
summand does is proved by induction on subsets of `Operations`: the library's
theorem of minimal elements for a well-founded relation takes no operator, so the
smallest set that breaks a rule can be taken (`SetInduction`). A step is then one of
few kinds (`RecordingKinds`, `CaptureKinds`, `SinkKinds`), and each part of `AInv`
follows from the kinds: active bytes (`ActiveAgree`), entries and their bytes
(`EntriesAgree`), what a recorder or sink stores (`StoredAgree`, `AbsentAgree`), a
sink's count and bytes (`SinksAgree`, whose bytes are the sum of a weight on its
positions that is not a state variable, hence the witness of `GoodBytes`), and the
limits (`BoundsAgree`).

`ManagedIdentity_proofs`:

| Theorem | States |
|---|---|
| `TypeCorrect` | `TypeOK` is an invariant |
| `OneIdentityHolds` | between two power losses one key and one time are registered |
| `ReceiptTruthfulHolds` | a receipt is for the key and time beside it, and was accepted |
| `NotLockedOutHolds` | no process meets a receipt that is not its own |
| `DurableIdentityKeptHolds` | once a receipt is flushed, whatever is registered is what it says |

`Learnt` is what each process has read from the directory and still relies on;
`LogOrder` says that the receipt is the last of the three entries, so no prefix of the
log, which is what a power loss leaves, has it alone; `RegisteredNow` says that what
was registered since the last power loss is what the directory says now. They hold
with and without flushed directories (`SyncsDirectory`).

`CandidateDelivery_proofs`, about `CandidateDelivery` and the copies of
`SubjectFiles`:

| Theorem | States |
|---|---|
| `TypeCorrect` | `TypeOK`, also that batch size and attempts stay within their limits |
| `CommittedIsIntactHolds` | what is committed is whole, encrypted from the bytes the descriptors name, as captured but for adopted artifacts outside the World, and sealed under the granted key |
| `UploadsJoinedHolds` | no upload thread is at work when the delivery commits, cancels or has ended |
| `AbandonedIsCancelledHolds` | a delivery that fails in time asked for the cancellation of an upload it knows |
| `FailureHasCauseHolds` | a delivery that nothing disturbs and that has time is accepted when it ends |
| `DeliveryImplementsDurable` | the refinement of `DurableDelivery` |

`FilesInv` is about copies in progress: a write between the two looks at a module's
metadata leaves a later time (`ModuleRead`); an artifact's versions only grow, so two
equal reads leave no room for a change between the halves of the first
(`ArtifactRead`). The rest is about the delivery: what was sealed before the first
request left (`Sealed`), which answers it has (`Told`), and that only a batch has
threads (`Busy`). `FailureHasCause` needs an invariant of its own, `Honest`, about a
delivery without a fault and with time left: each object that is not stored is in the
batch, still to do, on the page, or on a page to come (`Listed`), and a thread of the
batch has its first attempt before it or has stored its object (`Progressing`). Every
page but the last is full, so the pages taken hold at least `pages * PageSize`
objects; there are not that many when the bound on pages is met, whatever the number
of objects and the page size (`FullPagesFit`).

Only model-checked:

* every liveness property (`AcceptedFailuresSettle`, `CallsReturn`, `CloseReturns`,
  `HostCallsReturn`, `CandidatesReleased`, `DeliveryEnds`): the prover
  has no rules for ENABLED, so none for fairness;
* the runs that expect a violation, which are behaviours and not invariants.

## 6. Not modelled

* Data: the record and JSON forms, the validation of transcripts and manifests,
  whose inputs nothing changes meanwhile, processor capture, and the fuzz contexts.
* I/O without state of its own: DNS, TLS and HTTP framing, package loaders, platform
  queries; the account of reserved capture bytes (section 3).
* Start-up validation (`managed_deployment.rs`) and build tools.
* Code that the coordinator's and the pipeline's callers share but that adds no
  state of its own: the request/response adapter and the Axum layer.
* The Python, Node and .NET hosts, and the Go HTTP adapter: their side of the engine
  calls. What the engine guarantees whatever a host does is in `FailureDelivery` and
  `EngineObservations`.

## 7. Plan

Order: what decides whether an operation is sent comes first, then what delivers
it, then the hosts.

1. Done: `FailureDelivery` and its proofs, `GoOperations`, `Sentinel`,
   `WorldCoordinator`/`AutomaticContext`/`WorldEvidence`, `EngineObservations`,
   `StormGate`/`CandidatePipeline`, `ManagedIdentity`, `SubjectFiles`/
   `CandidateDelivery`/`DurableDelivery`.
2. Done: proofs about all of them. Every safety invariant and action property that a
   run checks and finds true is a theorem, and so are both refinements.
3. `HostProject`: the project and operation lifecycle of the Python, Node and .NET
   hosts with their sink waiters and adapter leases, as one module parameterised by
   what differs.

## 8. Reproducing

    tlc -workers 2 -config MCFailureDelivery.cfg MCFailureDelivery
    tlapm FailureDelivery_proofs.tla

and likewise for each run of `PROJECT.json` and each `..._proofs` module. Every
passing run takes three minutes or less on two workers; the proofs take between
one and ten minutes a module.
