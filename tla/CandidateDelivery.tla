--------------------------- MODULE CandidateDelivery ---------------------------
(***************************************************************************)
(* Delivery of one managed candidate: preparation, encryption grant,       *)
(* sealing, renewal of the grant and upload (managed.rs), driven by the    *)
(* sink's worker under one deadline (deliver_candidate of managed_sink.rs) *)
(* or, without a deadline and more than once, by a host that calls upload. *)
(*                                                                         *)
(* The service is external and is modelled from how the client uses it.    *)
(* Every request is an HTTPS exchange of its own (managed_transport.rs):   *)
(* it may be answered; it, or its answer, may be lost; it may reach the    *)
(* service after the client has given up; and the service may refuse it.   *)
(* The client sees the same error in the last four cases, except that only *)
(* a refusal can be final.  The files of the spools may be changed or      *)
(* removed at any time, and the key service may change its key.            *)
(*                                                                         *)
(* Once a candidate is prepared its descriptors hold the digest of every   *)
(* object, and each later read is compared with them.  Before that only    *)
(* the subject manifest and the World name digests: for any other artifact *)
(* the worker takes the digest the frozen file then has, and so may adopt  *)
(* a file that was changed after freeze.                                   *)
(***************************************************************************)
EXTENDS SubjectFiles, FiniteSetsExt

CONSTANTS
  Records,        \* the objects made in memory: candidate, trigger, manifests
  Keys,           \* the keys of the key service
  NoKey,
  PageSize,       \* missing objects per page, 100 in the code
  BatchSize,      \* concurrent object uploads, 8 in the code
  AttemptCap,     \* largest object_attempts the client accepts, 5 in the code
  AttemptLimits,  \* object_attempts the service may answer
  MaxFaults,      \* bound: lost, late or refused requests and changed files, in all
  MaxUploads      \* bound: calls of upload by a host

ASSUME DeliveryAssumption ==
  /\ IsFiniteSet(Files) /\ IsFiniteSet(Records)
  /\ Records \cap Files = {}
  /\ NoKey \notin Keys /\ Keys # {}
  /\ PageSize \in Nat \ {0} /\ BatchSize \in Nat \ {0}
  /\ AttemptCap \in Nat \ {0}
  /\ AttemptLimits \subseteq Nat
  /\ MaxFaults \in Nat
  /\ MaxUploads \in Nat \ {0}

Objects == Files \cup Records

(* Mutant: no page is left for the answer after a full last page. *)
MutMaxPages == (Cardinality(Objects) + PageSize - 1) \div PageSize

(* The loop over pages of upload_missing: one page more than the objects fill. *)
MaxPages == ((Cardinality(Objects) + PageSize - 1) \div PageSize) + 1

VARIABLES
  timed,       \* delivered by the sink's worker, under the deadline
  expired,     \* the deadline has passed
  phase,       \* how far the delivery is
  result,      \* which counter record_result adds to, "none" before
  spool,       \* objects whose spool file has the bytes their descriptor names;
               \* before there is a descriptor, the bytes that were captured
  adopted,     \* artifacts whose descriptor names other bytes than were captured
  ciphers,     \* objects whose ciphertext file still has the sealed bytes
  sealed,      \* objects whose ciphertext was made from the bytes described
  grantKey,    \* the key of the grant in the upload request
  sealKey,     \* the key the objects are encrypted under
  upload,      \* the client's view of the upload
  threads,     \* object -> state and tries of its upload thread
  uploads,     \* how often upload was called
  service,     \* the service: state of the upload, stored objects, its key
  late,        \* requests the client gave up on that may still arrive
  faults       \* how many faults there were

requestVars == <<service, late, faults>>
localVars == <<spool, adopted, ciphers, sealed, grantKey, sealKey>>
uploadVars == <<upload, threads, uploads>>
deliveryVars == <<timed, expired, phase, result, localVars, uploadVars, requestVars>>
vars == <<fileVars, deliveryVars>>

NoThread == [state |-> "none", tries |-> 0]

NoUpload == [known |-> FALSE, page |-> {}, todo |-> {}, batch |-> {}, more |-> FALSE,
             seen |-> {}, pages |-> 0, limit |-> 0, answer |-> "none", cancelled |-> FALSE]

Init ==
  /\ FilesInit
  /\ timed \in BOOLEAN
  /\ expired = FALSE
  /\ phase = "queued"
  /\ result = "none"
  /\ spool = Objects
  /\ adopted = {}
  /\ ciphers = Objects
  /\ sealed = {}
  /\ grantKey = NoKey
  /\ sealKey = NoKey
  /\ upload = NoUpload
  /\ threads = [o \in Objects |-> NoThread]
  /\ uploads = 0
  /\ \E k \in Keys : service = [state |-> "none", stored |-> {}, key |-> k]
  /\ late = {}
  /\ faults = 0

-----------------------------------------------------------------------------
(* Time, and one HTTPS exchange.                                           *)

(* ManagedDeliveryDeadline::check and ::timeout. *)
OutOfTime == timed /\ expired

Expire ==
  /\ stage = "frozen" /\ phase # "done"
  /\ timed /\ ~expired
  /\ expired' = TRUE
  /\ UNCHANGED <<fileVars, timed, phase, result, localVars, uploadVars, requestVars>>

(* The changes of the files while they were copied count as well. *)
Fault == faults + changes < MaxFaults /\ faults' = faults + 1

(* What the service does with a request: an upload commits only when every *)
(* declared object is stored, and a committed upload stays committed.       *)
Process(s, request) ==
  CASE request = <<"start">> /\ s.state = "none" -> [s EXCEPT !.state = "open"]
    [] request[1] = "put" /\ s.state = "open" -> [s EXCEPT !.stored = @ \cup {request[2]}]
    [] request = <<"commit">> /\ s.state = "open" /\ s.stored = Objects
         -> [s EXCEPT !.state = "committed"]
    [] request = <<"cancel">> /\ s.state = "open" -> [s EXCEPT !.state = "cancelled"]
    [] OTHER -> s

Answered(request) ==
  /\ service' = Process(service, request)
  /\ UNCHANGED <<late, faults>>

(* The request, its answer, or neither is lost; it may be processed later. *)
Unanswered(request) ==
  /\ Fault
  /\ \/ service' = Process(service, request) /\ UNCHANGED late
     \/ UNCHANGED <<service, late>>
     \/ UNCHANGED service /\ late' = late \cup {request}

Refused == Fault /\ UNCHANGED <<service, late>>

LateArrives(request) ==
  /\ request \in late
  /\ service' = Process(service, request)
  /\ late' = late \ {request}
  /\ UNCHANGED <<fileVars, timed, expired, phase, result, localVars, uploadVars, faults>>

-----------------------------------------------------------------------------
(* How a delivery ends.  record_result counts it by its error: incomplete, *)
(* retryable (counted as expired) or final (counted as rejected).          *)

Errors == {"expired", "rejected"}

Finish(r) == phase' = "done" /\ result' = r

(* Mutant: the upload is not cancelled. *)
MutAbort(r) == Finish(r)

(* An error after the upload is known: the client will cancel it. *)
Abort(r) == phase' = "aborting" /\ result' = r

Continue(p) == phase' = p /\ UNCHANGED result

RunOut(p) ==
  /\ stage = "frozen" /\ phase = p
  /\ OutOfTime
  /\ Finish("expired")
  /\ UNCHANGED <<fileVars, timed, expired, localVars, uploadVars, requestVars>>

InTime(p) == stage = "frozen" /\ phase = p /\ ~OutOfTime

-----------------------------------------------------------------------------
(* Preparation, grant, sealing and renewal.                                *)

LocalErrors == Errors \cup {"incomplete"}

(* verify_local_closure hashes every object and compares it with its descriptor. *)
LocalClosureIntact == spool = Objects

Incomplete ==
  /\ ~LocalClosureIntact
  /\ Finish("incomplete")
  /\ UNCHANGED <<localVars, requestVars>>

(* A limit or a validation of the SDK is not met, or local storage fails. *)
FailsLocally ==
  /\ Refused
  /\ \E e \in LocalErrors : Finish(e)
  /\ UNCHANGED localVars

(* Mutant: the digest of a World artifact is not compared with the World. *)
MutReplaceable == Artifacts

(* push_capture_artifacts compares the digest of a World artifact with the World; *)
(* nothing fixes the digest of another artifact before it is prepared.            *)
Replaceable == Artifacts \ WorldArtifacts

(* reference_artifact: the worker describes the frozen files as it finds them.  A  *)
(* host's call has no frozen files: it describes what it copies.                   *)
Adopt ==
  /\ timed
  /\ Objects \ spool \subseteq Replaceable
  /\ adopted' = Objects \ spool
  /\ spool' = Objects
  /\ Continue("prepared")
  /\ UNCHANGED <<ciphers, sealed, grantKey, sealKey, requestVars>>

(* A changed transcript is adopted if it is valid and agrees with the objects it   *)
(* names, which validate_dependency_closure finds or not.                          *)
Prepare ==
  /\ InTime("queued")
  /\ \/ LocalClosureIntact /\ Continue("prepared") /\ UNCHANGED <<localVars, requestVars>>
     \/ ~LocalClosureIntact /\ Adopt
     \/ Incomplete
     \/ FailsLocally
  /\ UNCHANGED <<fileVars, timed, expired, uploadVars>>

RequestGrant ==
  /\ InTime("prepared")
  /\ \/ /\ LocalClosureIntact
        /\ grantKey' = service.key
        /\ Continue("granted")
        /\ UNCHANGED <<spool, adopted, ciphers, sealed, sealKey, requestVars>>
     \/ /\ LocalClosureIntact
        /\ Refused
        /\ \E e \in Errors : Finish(e)
        /\ UNCHANGED localVars
     \/ Incomplete
  /\ UNCHANGED <<fileVars, timed, expired, uploadVars>>

(* seal: the grant is verified, the closure hashed once more, and only then is *)
(* every object read again and encrypted.                                      *)
SealVerify ==
  /\ InTime("granted")
  /\ \/ LocalClosureIntact /\ Continue("sealing") /\ UNCHANGED <<localVars, requestVars>>
     \/ Refused /\ Finish("rejected") /\ UNCHANGED localVars
     \/ Incomplete
  /\ UNCHANGED <<fileVars, timed, expired, uploadVars>>

(* Mutant: what was read to be encrypted is not compared with its descriptor. *)
MutEncryptedAsDescribed == TRUE

(* encrypt_object hashes the bytes it encrypts and compares the digest. *)
EncryptedAsDescribed == spool = Objects

Seal ==
  /\ phase = "sealing"
  /\ \/ /\ EncryptedAsDescribed
        /\ sealed' = spool
        /\ sealKey' = grantKey
        /\ Continue("sealed")
        /\ UNCHANGED <<spool, adopted, ciphers, grantKey, requestVars>>
     \/ ~EncryptedAsDescribed /\ Finish("incomplete") /\ UNCHANGED <<localVars, requestVars>>
     \/ FailsLocally
  /\ UNCHANGED <<fileVars, timed, expired, uploadVars>>

(* request_capture_grant_renewal and apply_renewed_capture_grant. *)
RenewalMatches == service.key = sealKey

Renew ==
  /\ InTime("sealed")
  /\ \/ /\ RenewalMatches
        /\ grantKey' = service.key
        /\ Continue("ready")
        /\ UNCHANGED <<spool, adopted, ciphers, sealed, sealKey, requestVars>>
     \/ ~RenewalMatches /\ Finish("rejected") /\ UNCHANGED <<localVars, requestVars>>
     \/ /\ Refused
        /\ \E e \in Errors : Finish(e)
        /\ UNCHANGED localVars
  /\ UNCHANGED <<fileVars, timed, expired, uploadVars>>

-----------------------------------------------------------------------------
(* Starting the upload and walking the pages of missing objects.           *)

(* Digests are random, so a fixed choice of n elements stands for every order. *)
FirstOf(S, n) ==
  IF Cardinality(S) <= n THEN S ELSE CHOOSE T \in kSubset(n, S) : TRUE

(* The service lists what is missing and was not listed before; after a full *)
(* page it may answer a cursor although nothing is left.                     *)
Pages(s, seen) ==
  LET rest == Objects \ (s.stored \cup seen)
      page == FirstOf(rest, PageSize)
      mores == {m \in BOOLEAN : /\ page # rest => m
                                /\ m => page # rest \/ Cardinality(page) = PageSize}
  IN  {[page |-> page, more |-> m] : m \in mores}

(* The client accepts an attempt limit from 1 to 5 only, when it uses it. *)
ValidLimit(n) == n \in 1..AttemptCap

Start ==
  /\ InTime("ready")
  /\ uploads' = uploads + 1
  /\ UNCHANGED threads
  /\ \/ \E n \in AttemptLimits :
          /\ IF ValidLimit(n) THEN Answered(<<"start">>)
             ELSE Fault /\ service' = Process(service, <<"start">>) /\ UNCHANGED late
          /\ service'.state = "open"
          /\ \E p \in Pages(service', {}) :
               upload' = [NoUpload EXCEPT !.known = TRUE, !.page = p.page,
                                          !.more = p.more, !.limit = n]
          /\ Continue("page")
     \/ /\ Answered(<<"start">>)
        /\ upload' = NoUpload
        /\ \/ service'.state = "committed" /\ Continue("recommit")
           \/ service'.state = "cancelled" /\ Finish("expired")
     \/ /\ Unanswered(<<"start">>)
        /\ upload' = NoUpload
        /\ \E e \in Errors : Finish(e)
  /\ UNCHANGED <<fileVars, timed, expired, localVars>>

(* The upload was committed before: its commit is asked for again and believed. *)
Recommit ==
  /\ InTime("recommit")
  /\ \/ Answered(<<"commit">>) /\ Finish("accepted")
     \/ Unanswered(<<"commit">>) /\ \E e \in Errors : Finish(e)
  /\ UNCHANGED <<fileVars, timed, expired, localVars, uploadVars>>

(* The head of the loop of upload_missing: the deadline, then a page that is *)
(* too long, repeats an object or names an unknown one is an error.          *)
PageValid == upload.page \cap upload.seen = {}

TakePage ==
  /\ stage = "frozen" /\ phase = "page"
  /\ IF OutOfTime \/ upload.pages = MaxPages \/ ~PageValid
     THEN Abort("expired") /\ UNCHANGED upload
     ELSE /\ upload' = [upload EXCEPT !.todo = upload.page, !.page = {},
                                      !.seen = @ \cup upload.page, !.pages = @ + 1]
          /\ Continue("batch")
  /\ UNCHANGED <<fileVars, timed, expired, localVars, threads, uploads, requestVars>>

(* The next page, or the end of the list when there is no cursor.  The service *)
(* may by mistake list an object again.                                        *)
NextPage ==
  /\ phase = "batch"
  /\ upload.batch = {} /\ upload.todo = {}
  /\ \/ ~upload.more /\ Continue("committing") /\ UNCHANGED <<upload, requestVars>>
     \/ upload.more /\ OutOfTime /\ Abort("expired") /\ UNCHANGED <<upload, requestVars>>
     \/ /\ upload.more /\ ~OutOfTime
        /\ \E p \in Pages(service, upload.seen) :
             upload' = [upload EXCEPT !.page = p.page, !.more = p.more]
        /\ Continue("page")
        /\ UNCHANGED requestVars
     \/ /\ upload.more /\ ~OutOfTime
        /\ Refused
        /\ \/ upload' = [upload EXCEPT !.page = upload.seen] /\ Continue("page")
           \/ UNCHANGED upload /\ \E e \in Errors : Abort(e)
  /\ UNCHANGED <<fileVars, timed, expired, localVars, threads, uploads>>

-----------------------------------------------------------------------------
(* One batch of concurrent object uploads.                                 *)

SpawnBatch ==
  /\ phase = "batch"
  /\ upload.batch = {} /\ upload.todo # {}
  /\ LET batch == FirstOf(upload.todo, BatchSize)
     IN  /\ upload' = [upload EXCEPT !.batch = batch, !.todo = @ \ batch]
         /\ threads' = [o \in Objects |->
                          IF o \in batch THEN [NoThread EXCEPT !.state = "spawned"]
                          ELSE threads[o]]
  /\ UNCHANGED <<fileVars, timed, expired, phase, result, localVars, uploads, requestVars>>

(* scope.spawn panics when the system has no thread to give.  The scope joins the   *)
(* threads it has, then the panic ends the delivery: the worker catches it, counts   *)
(* it as expired and asks for no cancel; a host's call of upload does not return.    *)
SpawnPanics ==
  /\ phase = "batch"
  /\ upload.batch = {} /\ upload.todo # {}
  /\ Fault
  /\ \E n \in 0..(Cardinality(FirstOf(upload.todo, BatchSize)) - 1) :
       LET batch == FirstOf(upload.todo, n)
       IN  /\ upload' = [upload EXCEPT !.batch = batch]
           /\ threads' = [o \in Objects |->
                            IF o \in batch THEN [NoThread EXCEPT !.state = "spawned"]
                            ELSE threads[o]]
  /\ Continue("unwinding")
  /\ UNCHANGED <<fileVars, timed, expired, localVars, uploads, service, late>>

SetThread(o, state) == threads' = [threads EXCEPT ![o].state = state]

(* upload_missing_object: the ciphertext is read and compared with its digest. *)
ThreadRead(o) ==
  /\ threads[o].state = "spawned"
  /\ \/ o \in ciphers /\ ValidLimit(upload.limit) /\ SetThread(o, "trying")
     \/ o \in ciphers /\ ~ValidLimit(upload.limit) /\ SetThread(o, "expired")
     \/ o \notin ciphers /\ \E e \in Errors : SetThread(o, e)
  /\ UNCHANGED <<fileVars, timed, expired, phase, result, localVars, upload, uploads, requestVars>>

(* Mutant: one attempt more than the service allows. *)
MutAttemptsLeft(o) == threads[o].tries <= upload.limit

(* The head of the retry loop: attempts, then time. *)
AttemptsLeft(o) == threads[o].tries < upload.limit

(* Mutant: attempts are not counted. *)
MutTried(n) == n

Tried(n) == n + 1

ThreadSend(o) ==
  /\ threads[o].state = "trying"
  /\ IF AttemptsLeft(o) /\ ~OutOfTime
     THEN threads' = [threads EXCEPT ![o] = [state |-> "sending", tries |-> Tried(@.tries)]]
     ELSE SetThread(o, "expired")
  /\ UNCHANGED <<fileVars, timed, expired, phase, result, localVars, upload, uploads, requestVars>>

(* An upload that is not open takes no object.  Only a retryable error is tried *)
(* again.                                                                       *)
ThreadReturn(o) ==
  /\ threads[o].state = "sending"
  /\ \/ service.state = "open" /\ Answered(<<"put", o>>) /\ SetThread(o, "ok")
     \/ service.state # "open" /\ UNCHANGED requestVars
        /\ \E e \in {"trying", "rejected"} : SetThread(o, e)
     \/ Unanswered(<<"put", o>>) /\ SetThread(o, "trying")
     \/ Refused /\ SetThread(o, "rejected")
  /\ UNCHANGED <<fileVars, timed, expired, phase, result, localVars, upload, uploads>>

(* Mutant: the batch ends with the first error. *)
MutBatchEnded == \/ \A o \in upload.batch : threads[o].state \in {"ok"} \cup Errors
                 \/ \E o \in upload.batch : threads[o].state \in Errors

(* thread::scope joins every thread of the batch, also when one has failed. *)
BatchEnded == \A o \in upload.batch : threads[o].state \in {"ok"} \cup Errors

JoinBatch ==
  /\ phase = "batch" /\ upload.batch # {}
  /\ BatchEnded
  /\ \/ /\ \A o \in upload.batch : threads[o].state = "ok"
        /\ upload' = [upload EXCEPT !.batch = {}]
        /\ threads' = [o \in Objects |-> NoThread]
        /\ UNCHANGED <<phase, result>>
     \/ /\ \E o \in upload.batch : threads[o].state \in Errors /\ Abort(threads[o].state)
        /\ UNCHANGED <<upload, threads>>
  /\ UNCHANGED <<fileVars, timed, expired, localVars, uploads, requestVars>>

Unwind ==
  /\ phase = "unwinding"
  /\ BatchEnded
  /\ Finish("panicked")
  /\ UNCHANGED <<fileVars, timed, expired, localVars, uploadVars, requestVars>>

-----------------------------------------------------------------------------
(* Commit, check of the answer, cancel.                                    *)

(* The service answers a commit it cannot make with an error, or, while it is *)
(* still verifying, with a state that is not cloud-protected.                 *)
Commit ==
  /\ InTime("committing")
  /\ \/ /\ Answered(<<"commit">>)
        /\ service'.state = "committed"
        /\ upload' = [upload EXCEPT !.answer = "protected"]
        /\ Continue("committed")
     \/ /\ Refused
        /\ upload' = [upload EXCEPT !.answer = "pending"]
        /\ Continue("committed")
     \/ /\ \/ Unanswered(<<"commit">>)
           \/ Answered(<<"commit">>) /\ service'.state # "committed"
        /\ UNCHANGED upload
        /\ \E e \in Errors : Abort(e)
  /\ UNCHANGED <<fileVars, timed, expired, localVars, threads, uploads>>

(* Mutant: an answer that the commit is still pending is taken for a commit. *)
MutCommitMatches == upload.answer \in {"protected", "pending"}

(* capture id, identity digest, key reference, encrypted digest, durability. *)
CommitMatches == upload.answer = "protected"

CheckCommit ==
  /\ InTime("committed")
  /\ \/ CommitMatches /\ Finish("accepted")
     \/ ~CommitMatches /\ Finish("expired")
  /\ UNCHANGED <<fileVars, timed, expired, localVars, uploadVars, requestVars>>

(* The answer to a cancel is ignored, and so is its absence. *)
Cancel ==
  /\ phase = "aborting"
  /\ \/ OutOfTime /\ UNCHANGED <<upload, requestVars>>
     \/ /\ ~OutOfTime
        /\ Answered(<<"cancel">>) \/ Unanswered(<<"cancel">>)
        /\ upload' = [upload EXCEPT !.cancelled = TRUE]
  /\ phase' = "done"
  /\ UNCHANGED <<fileVars, timed, expired, result, localVars, threads, uploads>>

(* A host may call upload again on the same sealed candidate. *)
Retry ==
  /\ phase = "done" /\ result # "accepted"
  /\ ~timed /\ uploads \in 1..(MaxUploads - 1)
  /\ phase' = "ready" /\ result' = "none"
  /\ upload' = NoUpload
  /\ threads' = [o \in Objects |-> NoThread]
  /\ UNCHANGED <<fileVars, timed, expired, localVars, uploads, requestVars>>

-----------------------------------------------------------------------------
(* The environment of a delivery.                                          *)

ChangeSpool(o) ==
  /\ stage = "frozen" /\ phase \in {"queued", "prepared", "granted", "sealing"}
  /\ o \in spool \cap Files
  /\ Fault
  /\ spool' = spool \ {o}
  /\ UNCHANGED <<fileVars, timed, expired, phase, result, adopted, ciphers, sealed,
                 grantKey, sealKey,
                 uploadVars, service, late>>

ChangeCipher(o) ==
  /\ phase \in {"sealed", "ready", "page", "batch"}
  /\ o \in ciphers
  /\ Fault
  /\ ciphers' = ciphers \ {o}
  /\ UNCHANGED <<fileVars, timed, expired, phase, result, spool, adopted, sealed,
                 grantKey, sealKey,
                 uploadVars, service, late>>

ChangeKey(k) ==
  /\ phase \in {"granted", "sealing", "sealed"}
  /\ k # service.key
  /\ Fault
  /\ service' = [service EXCEPT !.key = k]
  /\ UNCHANGED <<fileVars, timed, expired, phase, result, localVars, uploadVars, late>>

-----------------------------------------------------------------------------
Deliver ==
  \/ \E p \in {"queued", "prepared", "granted", "sealed", "ready", "recommit",
               "committing", "committed"} : RunOut(p)
  \/ Prepare \/ RequestGrant \/ SealVerify \/ Seal \/ Renew
  \/ Start \/ Recommit \/ TakePage \/ NextPage \/ SpawnBatch \/ JoinBatch
  \/ SpawnPanics \/ Unwind
  \/ Commit \/ CheckCommit \/ Cancel

Thread(o) == ThreadRead(o) \/ ThreadSend(o) \/ ThreadReturn(o)

Environment ==
  \/ Expire
  \/ \E request \in late : LateArrives(request)
  \/ \E o \in Objects : ChangeSpool(o) \/ ChangeCipher(o)
  \/ \E k \in Keys : ChangeKey(k)

Next ==
  \/ (FilesStep \/ FilesChange) /\ UNCHANGED deliveryVars
  \/ Deliver
  \/ \E o \in Objects : Thread(o)
  \/ Retry
  \/ Environment

(* The worker runs and every exchange ends: each has a timeout.  Nothing is  *)
(* assumed of the service, of the files or of the passing of the deadline.   *)
Fairness == WF_vars(Deliver) /\ \A o \in Objects : WF_vars(Thread(o))

Spec == Init /\ [][Next]_vars /\ Fairness

-----------------------------------------------------------------------------
TypeOK ==
  /\ FilesTypeOK
  /\ timed \in BOOLEAN /\ expired \in BOOLEAN
  /\ phase \in {"queued", "prepared", "granted", "sealing", "sealed", "ready", "recommit",
                "page", "batch", "unwinding", "committing", "committed", "aborting", "done"}
  /\ result \in {"none", "accepted", "panicked"} \cup LocalErrors
  /\ spool \subseteq Objects /\ adopted \subseteq Artifacts /\ ciphers \subseteq Objects /\ sealed \subseteq Objects
  /\ grantKey \in Keys \cup {NoKey} /\ sealKey \in Keys \cup {NoKey}
  /\ upload.page \subseteq Objects /\ upload.todo \subseteq Objects
  /\ upload.batch \subseteq upload.seen /\ Cardinality(upload.batch) <= BatchSize
  /\ upload.pages \in 0..MaxPages
  /\ \A o \in Objects :
       /\ threads[o].state \in {"none", "spawned", "trying", "sending", "ok"} \cup Errors
       /\ threads[o].tries \in 0..AttemptCap
  /\ uploads \in 0..MaxUploads
  /\ service.state \in {"none", "open", "committed", "cancelled"}
  /\ service.stored \subseteq Objects /\ service.key \in Keys
  /\ faults \in 0..MaxFaults

(* What the service has committed is what was captured: every object was        *)
(* encrypted under the key of the grant from the bytes its descriptor names; the *)
(* captured bytes are bytes the file had at one moment, although files change    *)
(* while capture_file, freeze, seal and upload read them; and the descriptor     *)
(* names the captured bytes, except that of an artifact the World does not name,  *)
(* which the worker may adopt from its changed frozen file.  The World artifacts  *)
(* are those of the World.  Two things are excepted.  A module whose last write   *)
(* was in the tick in which it was opened: same_file_version cannot see a second  *)
(* write in that tick.  And an artifact that had one content, another and the     *)
(* first again between the two reads of capture_artifact: see SameDigest.         *)
CommittedIsIntact ==
  service.state = "committed" =>
    /\ sealed = Objects
    /\ grantKey = sealKey
    /\ \A f \in Files \ racy : Whole(captured[f])
    /\ \A f \in WorldArtifacts : captured[f] = <<0, 0>>
    /\ adopted \cap WorldArtifacts = {}

(* When a delivery commits, cancels or ends, none of its threads is still       *)
(* uploading: thread::scope has joined them all, also after an error.            *)
UploadsJoined ==
  phase \in {"committing", "committed", "aborting", "done"} =>
    \A o \in Objects : threads[o].state \notin {"spawned", "trying", "sending"}

(* A delivery that fails with time left leaves no upload open that it knows of  *)
(* without having asked for its cancellation, unless the service itself answered *)
(* the commit or the panic of scope.spawn ended it.                              *)
AbandonedIsCancelled ==
  (phase = "done" /\ result \notin {"accepted", "panicked"} /\ upload.known /\ ~OutOfTime
    /\ upload.answer = "none")
  => upload.cancelled

(* Every failure has a cause outside the upload: while no request, answer, file, *)
(* key, thread or local limit failed it and time was left, a delivery that ends  *)
(* is accepted.  The bounds on pages, batches and attempts never stop an honest  *)
(* upload.                                                                       *)
FailureHasCause ==
  (phase = "done" /\ faults = 0 /\ ~OutOfTime) => result = "accepted"

(* The delivery implements DurableDelivery: it reports acceptance only for a    *)
(* candidate the service has committed, and decides its outcome once.           *)
Durable == INSTANCE DurableDelivery WITH
  committed <- service.state = "committed",
  outcome <- IF phase # "done" THEN "none"
             ELSE IF result = "accepted" THEN "accepted" ELSE "failed"

ImplementsDurable == Durable!Spec

(* A delivery that has begun ends, whatever the service does and even if the    *)
(* deadline never passes: pages and attempts are bounded.                       *)
DeliveryEnds == stage = "frozen" ~> phase = "done"
=============================================================================
