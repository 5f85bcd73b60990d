----------------------- MODULE CandidateDelivery_proofs -----------------------
(***************************************************************************)
(* Proofs about CandidateDelivery and the copies of SubjectFiles, for any  *)
(* files, objects, keys, page and batch sizes, attempt limits and bounds.  *)
(*                                                                         *)
(* FilesInv is about the copies.  A module is copied whole because a write *)
(* between two looks at its metadata leaves a later time (ModuleRead); an  *)
(* artifact because versions only grow, so two equal reads in a row leave  *)
(* no room for a change between the halves of the first (ArtifactRead).    *)
(* The rest of IInv is about the delivery: what was sealed before the      *)
(* first request left (Sealed), which answers it has (Told), and that      *)
(* only a batch has threads (Busy).  Honest is about a delivery that       *)
(* nothing disturbs: what is missing is on the page, in the batch or on    *)
(* pages to come, and every page but the last is full (Listed), so that    *)
(* the objects are stored before the bound on pages is met.                *)
(***************************************************************************)
EXTENDS CandidateDelivery, FiniteSetTheorems, TLAPS

Versions == [version : Nat, mtime : Nat]

Captures == [file : Files, step : {"idle", "opened", "stat", "copy", "verify"}, fd : Nat,
             before : Nat \X Nat, first : Seq(Nat), read : Seq(Nat)]

FilesShape ==
  /\ names \in [Files -> Seq(Versions)]
  /\ clock \in 1 .. MaxClock
  /\ changes \in 0 .. MaxChanges
  /\ stage \in Copying \cup {"frozen", "failed"}
  /\ cap \in Captures
  /\ captured \in [Files -> Seq(Nat)]
  /\ racy \subseteq Files

(* Later files and later writes of a path have later versions. *)
VersionsGrow ==
  \A f \in Files :
    /\ Len(names[f]) >= 1
    /\ \A k \in 1 .. Len(names[f]) :
         /\ names[f][k].version <= changes
         /\ names[f][k].mtime <= clock
         /\ \A j \in k .. Len(names[f]) : names[f][k].version <= names[f][j].version

CaptureOpen ==
  /\ cap.fd \in 1 .. Len(names[cap.file])
  /\ cap.file = Executable => cap.fd = 1
  /\ Len(cap.read) <= 2
  /\ cap.step \in {"idle", "opened", "stat"} => Len(cap.read) = 0
  /\ cap.step \in {"opened", "stat"} => cap.file \in Modules
  /\ cap.step = "verify" => cap.file \in Artifacts
  /\ cap.step # "idle" =>
       /\ captured[cap.file] = <<>>
       /\ \/ stage = "modules" /\ cap.file \in Modules
          \/ stage = "artifacts" /\ cap.file \in Artifacts

(* As long as the opened file has the time it had when its metadata was first *)
(* read, what was read of it is its only version since then.                  *)
ModuleRead ==
  cap.file \in Modules =>
    /\ cap.step = "copy" => cap.before[1] = cap.fd
    /\ cap.step \in {"stat", "copy"} /\ cap.file \notin racy =>
         /\ cap.before[2] < clock
         /\ OpenedFile.mtime = cap.before[2] =>
              \A i \in 1 .. Len(cap.read) : cap.read[i] = OpenedFile.version

(* What was read first is no newer than what is read later. *)
ArtifactRead ==
  cap.file \in Artifacts =>
    /\ cap.step = "copy" =>
         /\ \A i \in 1 .. Len(cap.read) : cap.read[i] <= OpenedFile.version
         /\ \A i, j \in 1 .. Len(cap.read) : i <= j => cap.read[i] <= cap.read[j]
    /\ cap.step = "verify" =>
         /\ Len(cap.first) = 2
         /\ cap.first[1] <= cap.first[2]
         /\ cap.first[2] <= OpenedFile.version
         /\ \A i \in 1 .. Len(cap.read) : cap.first[2] <= cap.read[i]

CopiesWhole ==
  /\ \A f \in Files : captured[f] # <<>> => Len(captured[f]) = 2
  /\ \A f \in Files \ racy : captured[f] # <<>> => Whole(captured[f])
  /\ stage \in {"closure", "artifacts", "frozen"} => \A f \in Modules : captured[f] # <<>>
  /\ stage = "frozen" => \A f \in Artifacts : captured[f] # <<>>
  /\ stage = "frozen" => \A f \in WorldArtifacts : captured[f] = <<0, 0>>

FilesInv ==
  /\ FilesShape
  /\ VersionsGrow
  /\ CaptureOpen
  /\ ModuleRead
  /\ ArtifactRead
  /\ CopiesWhole

-----------------------------------------------------------------------------
Preparing == {"queued", "prepared", "granted", "sealing", "sealed"}
Uploading == {"ready", "recommit", "page", "batch", "committing", "committed", "aborting",
              "unwinding"}

Requests == {<<"start">>, <<"commit">>, <<"cancel">>} \cup {<<"put", o>> : o \in Objects}

UploadRecords ==
  [known : BOOLEAN, page : SUBSET Objects, todo : SUBSET Objects, batch : SUBSET Objects,
   more : BOOLEAN, seen : SUBSET Objects, pages : 0 .. MaxPages, limit : Nat,
   answer : {"none", "protected", "pending"}, cancelled : BOOLEAN]

ThreadStates == {"none", "spawned", "trying", "sending", "ok"} \cup Errors

Services == [state : {"none", "open", "committed", "cancelled"}, stored : SUBSET Objects,
             key : Keys]

Shape ==
  /\ timed \in BOOLEAN /\ expired \in BOOLEAN
  /\ phase \in Preparing \cup Uploading \cup {"done"}
  /\ result \in {"none", "accepted", "panicked"} \cup LocalErrors
  /\ adopted \subseteq Artifacts \ WorldArtifacts
  /\ spool \subseteq Objects /\ ciphers \subseteq Objects /\ sealed \subseteq Objects
  /\ grantKey \in Keys \cup {NoKey} /\ sealKey \in Keys \cup {NoKey}
  /\ upload \in UploadRecords
  /\ upload.todo \subseteq upload.seen /\ upload.batch \subseteq upload.seen
  /\ Cardinality(upload.batch) <= BatchSize
  /\ threads \in [Objects -> [state : ThreadStates, tries : 0 .. AttemptCap]]
  /\ uploads \in 0 .. MaxUploads
  /\ service \in Services
  /\ late \subseteq Requests
  /\ faults \in 0 .. MaxFaults

(* No request for the upload leaves before every object is encrypted under the *)
(* key of the grant.                                                           *)
Sealed ==
  /\ phase # "queued" => stage = "frozen"
  /\ phase \in Preparing => uploads = 0
  /\ phase = "ready" => uploads < MaxUploads
  /\ phase \in Uploading \ {"ready"} => uploads > 0
  /\ phase = "sealed" => sealed = Objects
  /\ service.state # "none" \/ late # {} => uploads > 0
  /\ phase \in Uploading \/ uploads > 0 => sealed = Objects /\ grantKey = sealKey /\ stage = "frozen"

(* What the client was told. *)
Told ==
  /\ phase \in Preparing \cup {"ready", "recommit"} => ~upload.known
  /\ phase = "recommit" => service.state = "committed"
  /\ phase = "committed" => upload.answer # "none"
  /\ upload.answer = "protected" => service.state = "committed"
  /\ phase = "aborting" => result \in Errors

(* Only threads of the current batch are at work, within a valid limit. *)
Busy ==
  \A o \in Objects :
    /\ threads[o].state \in {"spawned", "trying", "sending"} =>
         phase \in {"batch", "unwinding"} /\ o \in upload.batch
    /\ threads[o].state \in {"trying", "sending"} => ValidLimit(upload.limit)

IInv ==
  /\ FilesInv
  /\ Shape
  /\ Sealed
  /\ Told
  /\ Busy
  /\ AbandonedIsCancelled

-----------------------------------------------------------------------------
(***************************************************************************)
(* The copies.                                                             *)
(***************************************************************************)
LEMMA FilesInvInit == FilesInit => FilesInv
<1> SUFFICES ASSUME FilesInit PROVE FilesInv
  OBVIOUS
<1>1. [version |-> 0, mtime |-> 0] \in Versions
  BY DEF Versions
<1>2. Executable \in Files
  BY FilesAssumption DEF Files
<1>3. /\ names \in [Files -> Seq(Versions)]
      /\ \A f \in Files : /\ Len(names[f]) = 1
                          /\ names[f][1].version = 0
                          /\ names[f][1].mtime = 0
      /\ captured \in [Files -> Seq(Nat)]
      /\ \A f \in Files : captured[f] = <<>>
  BY <1>1 DEF FilesInit
<1>4. FilesShape
  BY <1>2, <1>3, FilesAssumption DEF FilesShape, FilesInit, Idle, Captures, Copying
<1>5. VersionsGrow
  BY <1>3 DEF VersionsGrow, FilesInit
<1>6. CaptureOpen /\ ModuleRead /\ ArtifactRead
  BY <1>2, <1>3 DEF CaptureOpen, ModuleRead, ArtifactRead, FilesInit, Idle
<1>7. CopiesWhole
  BY <1>3 DEF CopiesWhole, FilesInit
<1> QED BY <1>4, <1>5, <1>6, <1>7 DEF FilesInv

(* Every file a path has had carries a version and a time. *)
LEMMA EntryTypes ==
  ASSUME FilesShape, NEW f \in Files
  PROVE  /\ names[f] \in Seq(Versions)
         /\ Len(names[f]) \in Nat
         /\ \A k \in 1 .. Len(names[f]) :
              /\ names[f][k] \in Versions
              /\ names[f][k].version \in Nat
              /\ names[f][k].mtime \in Nat
<1>1. names[f] \in Seq(Versions) /\ Len(names[f]) \in Nat
  BY DEF FilesShape
<1>2. \A k \in 1 .. Len(names[f]) : names[f][k] \in Versions
  BY <1>1
<1>3. \A v \in Versions : v.version \in Nat /\ v.mtime \in Nat
  BY DEF Versions
<1> QED BY <1>1, <1>2, <1>3

(* The opened file is one the path has had. *)
LEMMA OpenedTypes ==
  ASSUME FilesInv
  PROVE  /\ OpenedFile \in Versions
         /\ OpenedFile.version \in Nat /\ OpenedFile.mtime \in Nat
         /\ OpenedFile.version <= changes /\ OpenedFile.mtime <= clock
<1>1. cap.file \in Files /\ cap.fd \in 1 .. Len(names[cap.file])
  BY DEF FilesInv, FilesShape, Captures, CaptureOpen
<1> QED BY <1>1, EntryTypes DEF FilesInv, VersionsGrow, OpenedFile

(* A read is at most two halves, each of some version. *)
LEMMA ReadTypes ==
  ASSUME FilesInv
  PROVE  /\ cap.read \in Seq(Nat) /\ Len(cap.read) \in 0 .. 2
         /\ \A i \in 1 .. Len(cap.read) : cap.read[i] \in Nat
         /\ cap.first \in Seq(Nat)
         /\ Len(cap.first) = 2 => cap.first[1] \in Nat /\ cap.first[2] \in Nat
<1>1. cap.read \in Seq(Nat) /\ cap.first \in Seq(Nat) /\ Len(cap.read) <= 2
  BY DEF FilesInv, FilesShape, Captures, CaptureOpen
<1>2. \A s \in Seq(Nat) : Len(s) \in Nat /\ \A i \in 1 .. Len(s) : s[i] \in Nat
  OBVIOUS
<1>3. Len(cap.first) = 2 => 1 \in 1 .. Len(cap.first) /\ 2 \in 1 .. Len(cap.first)
  OBVIOUS
<1>4. Len(cap.first) = 2 => cap.first[1] \in Nat /\ cap.first[2] \in Nat
  BY <1>1, <1>2, <1>3
<1>5. Len(cap.read) \in Nat /\ \A i \in 1 .. Len(cap.read) : cap.read[i] \in Nat
  BY <1>1, <1>2
<1>6. \A n \in Nat : n <= 2 => n \in 0 .. 2
  OBVIOUS
<1> QED BY <1>1, <1>4, <1>5, <1>6, Zenon

(* A step that touches neither the files nor the copies. *)
LEMMA FilesInvQuiet == FilesInv /\ UNCHANGED fileVars => FilesInv'
  BY DEF fileVars, FilesInv, FilesShape, VersionsGrow, CaptureOpen, ModuleRead, ArtifactRead,
     CopiesWhole, OpenedFile

(* A change makes a version that is newer than all others of its path, and   *)
(* every file of the path that was not written keeps its version and time.   *)
LEMMA FilesInvChange == FilesInv /\ FilesChange => FilesInv'
<1> SUFFICES ASSUME FilesInv, FilesChange PROVE FilesInv'
  OBVIOUS
<1> USE FilesAssumption DEF Copying, Captures
<1>1. CASE Tick
  <2>1. FilesShape'
    BY <1>1 DEF FilesInv, FilesShape, Tick
  <2>2. VersionsGrow'
    <3>1. UNCHANGED <<names, changes>> /\ clock' = clock + 1 /\ clock \in Nat
      BY <1>1 DEF Tick, FilesInv, FilesShape
    <3> QED BY <3>1, EntryTypes DEF FilesInv, VersionsGrow
  <2>3. CaptureOpen' /\ ArtifactRead' /\ CopiesWhole'
    BY <1>1 DEF FilesInv, CaptureOpen, ArtifactRead, CopiesWhole, OpenedFile, Tick
  <2>4. ModuleRead'
    BY <1>1 DEF FilesInv, FilesShape, ModuleRead, OpenedFile, Tick
  <2> QED BY <2>1, <2>2, <2>3, <2>4 DEF FilesInv
<1>2. ASSUME NEW f \in Files, Rewrite(f) \/ Replace(f) PROVE FilesInv'
  <2>1. Current \in Versions /\ Current.version = changes + 1 /\ Current.mtime = clock
    BY DEF Current, Versions, FilesInv, FilesShape
  <2>2. /\ UNCHANGED <<clock, stage, cap, captured, racy>>
        /\ changes < MaxChanges /\ changes' = changes + 1
        /\ clock \in Nat /\ changes \in Nat
    BY <1>2 DEF Rewrite, Replace, Changing, FilesInv, FilesShape
  <2>3. /\ names' \in [Files -> Seq(Versions)]
        /\ \A g \in Files : Len(names'[g]) >= Len(names[g]) /\ Len(names[g]) >= 1
        /\ \A g \in Files : \A k \in 1 .. Len(names'[g]) :
             \/ k \in 1 .. Len(names[g]) /\ names'[g][k] = names[g][k]
             \/ names'[g][k] = Current /\ g = f /\ k = Len(names'[g])
        /\ names'[Executable][1] = names[Executable][1]
    <3>1. names \in [Files -> Seq(Versions)] /\ Executable \in Files
      BY DEF FilesInv, FilesShape, Files
    <3>2. \A g \in Files : names[g] \in Seq(Versions) /\ Len(names[g]) \in Nat /\ Len(names[g]) >= 1
      BY <3>1 DEF FilesInv, VersionsGrow
    <3>3. CASE Rewrite(f)
      <4>1. f # Executable /\ names' = [names EXCEPT ![f] = [@ EXCEPT ![Len(names[f])] = Current]]
        BY <3>3 DEF Rewrite
      <4>2. names'[f] = [names[f] EXCEPT ![Len(names[f])] = Current]
        BY <3>1, <4>1
      <4>3. names'[f] \in Seq(Versions) /\ Len(names'[f]) = Len(names[f])
        BY <2>1, <3>2, <4>2
      <4>4. \A g \in Files \ {f} : names'[g] = names[g]
        BY <3>1, <4>1
      <4>5. names' \in [Files -> Seq(Versions)]
        BY <3>1, <4>1, <4>2, <4>3
      <4>6. \A k \in 1 .. Len(names[f]) :
              names'[f][k] = IF k = Len(names[f]) THEN Current ELSE names[f][k]
        BY <3>2, <4>2
      <4>7. \A g \in Files : Len(names'[g]) = Len(names[g])
        BY <4>3, <4>4
      <4>8. \A g \in Files : Len(names'[g]) >= Len(names[g]) /\ Len(names[g]) >= 1
        BY <3>2, <4>7
      <4>9. \A g \in Files : \A k \in 1 .. Len(names'[g]) :
              \/ k \in 1 .. Len(names[g]) /\ names'[g][k] = names[g][k]
              \/ names'[g][k] = Current /\ g = f /\ k = Len(names'[g])
        BY <4>4, <4>6, <4>7
      <4>10. names'[Executable][1] = names[Executable][1]
        BY <3>1, <4>1, <4>4
      <4> QED BY <4>5, <4>8, <4>9, <4>10, Zenon
    <3>4. CASE Replace(f)
      <4>1. names' = [names EXCEPT ![f] = Append(names[f], Current)]
        BY <3>4 DEF Replace
      <4>2. names'[f] = Append(names[f], Current)
        BY <3>1, <4>1
      <4>3. /\ names'[f] \in Seq(Versions) /\ Len(names'[f]) = Len(names[f]) + 1
            /\ \A k \in 1 .. Len(names[f]) : names'[f][k] = names[f][k]
            /\ names'[f][Len(names[f]) + 1] = Current
        BY <2>1, <3>2, <4>2
      <4>4. \A g \in Files \ {f} : names'[g] = names[g]
        BY <3>1, <4>1
      <4>5. names' \in [Files -> Seq(Versions)]
        BY <3>1, <4>1, <4>2, <4>3
      <4>6. \A g \in Files : \A k \in 1 .. Len(names'[g]) :
              \/ k \in 1 .. Len(names[g]) /\ names'[g][k] = names[g][k]
              \/ names'[g][k] = Current /\ g = f /\ k = Len(names'[g])
        BY <3>2, <4>3, <4>4
      <4>7. names'[Executable][1] = names[Executable][1]
        BY <3>1, <3>2, <4>3, <4>4
      <4>8. \A g \in Files : Len(names'[g]) >= Len(names[g]) /\ Len(names[g]) >= 1
        <5> SUFFICES ASSUME NEW g \in Files
                     PROVE  Len(names'[g]) >= Len(names[g]) /\ Len(names[g]) >= 1
          OBVIOUS
        <5>1. Len(names[g]) \in Nat /\ Len(names[g]) >= 1
          BY <3>2
        <5>2. Len(names'[g]) = Len(names[g]) \/ Len(names'[g]) = Len(names[g]) + 1
          BY <4>3, <4>4
        <5> QED BY <5>1, <5>2
      <4> QED BY <4>5, <4>6, <4>7, <4>8, Zenon
    <3> QED BY <1>2, <3>3, <3>4
  <2>4. FilesShape'
    BY <2>2, <2>3 DEF FilesInv, FilesShape
  <2>5. VersionsGrow'
    <3> SUFFICES ASSUME NEW g \in Files
                 PROVE  /\ Len(names'[g]) >= 1
                        /\ \A k \in 1 .. Len(names'[g]) :
                             /\ names'[g][k].version <= changes'
                             /\ names'[g][k].mtime <= clock'
                             /\ \A j \in k .. Len(names'[g]) :
                                  names'[g][k].version <= names'[g][j].version
      BY DEF VersionsGrow
    <3>1. names[g] \in Seq(Versions) /\ names'[g] \in Seq(Versions)
      BY <2>3 DEF FilesInv, FilesShape
    <3>2. /\ Len(names[g]) \in Nat /\ Len(names'[g]) \in Nat
          /\ \A k \in 1 .. Len(names[g]) : names[g][k].version \in Nat /\ names[g][k].mtime \in Nat
      BY <3>1, EntryTypes DEF FilesInv
    <3>3. \A k \in 1 .. Len(names[g]) :
            /\ names[g][k].version <= changes
            /\ names[g][k].mtime <= clock
            /\ \A j \in k .. Len(names[g]) : names[g][k].version <= names[g][j].version
      BY DEF FilesInv, VersionsGrow
    <3>4. \A k \in 1 .. Len(names'[g]) :
            \/ k \in 1 .. Len(names[g]) /\ names'[g][k] = names[g][k]
            \/ names'[g][k] = Current /\ k = Len(names'[g])
      BY <2>3
    <3>5. ASSUME NEW k \in 1 .. Len(names'[g])
          PROVE  names'[g][k].version <= changes' /\ names'[g][k].mtime <= clock'
      <4>1. CASE names'[g][k] = Current
        BY <2>1, <2>2, <4>1
      <4>2. CASE k \in 1 .. Len(names[g]) /\ names'[g][k] = names[g][k]
        BY <2>2, <3>2, <3>3, <4>2
      <4> QED BY <3>4, <4>1, <4>2
    <3>6. ASSUME NEW k \in 1 .. Len(names'[g]), NEW j \in k .. Len(names'[g])
          PROVE  names'[g][k].version <= names'[g][j].version
      <4>1. j \in 1 .. Len(names'[g]) /\ k <= j
        BY <3>2
      <4>2. CASE names'[g][k] = Current /\ k = Len(names'[g])
        BY <2>1, <2>2, <3>2, <4>1, <4>2
      <4>3. CASE k \in 1 .. Len(names[g]) /\ names'[g][k] = names[g][k]
        <5>1. CASE names'[g][j] = Current
          BY <2>1, <2>2, <3>2, <3>3, <4>3, <5>1
        <5>2. CASE j \in 1 .. Len(names[g]) /\ names'[g][j] = names[g][j]
          BY <3>2, <3>3, <4>1, <4>3, <5>2
        <5> QED BY <3>4, <4>1, <5>1, <5>2
      <4> QED BY <3>4, <4>2, <4>3
    <3> QED BY <2>3, <3>2, <3>5, <3>6
  <2>6. CaptureOpen'
    BY <2>2, <2>3, <2>4 DEF FilesInv, FilesShape, CaptureOpen
  <2>7. \/ OpenedFile' = OpenedFile
        \/ OpenedFile' = Current /\ cap.file # Executable
    BY <2>2, <2>3, <2>6 DEF FilesInv, FilesShape, CaptureOpen, OpenedFile
  <2>8. OpenedFile.version \in Nat /\ OpenedFile.version <= changes
    BY OpenedTypes
  <2>9. ModuleRead'
    BY <2>1, <2>2, <2>7 DEF FilesInv, FilesShape, ModuleRead
  <2>10. ArtifactRead'
    <3>1. \A i \in 1 .. Len(cap.read) : cap.read[i] \in Nat
      BY ReadTypes
    <3>2. Len(cap.first) = 2 => cap.first[2] \in Nat
      BY ReadTypes
    <3>3. OpenedFile'.version \in Nat /\ OpenedFile.version <= OpenedFile'.version
      BY <2>1, <2>2, <2>7, <2>8
    <3>4. cap' = cap /\ ArtifactRead
      BY <2>2 DEF FilesInv
    <3> QED BY <2>8, <3>1, <3>2, <3>3, <3>4 DEF ArtifactRead
  <2>11. CopiesWhole'
    BY <2>2 DEF FilesInv, CopiesWhole
  <2> QED BY <2>4, <2>5, <2>6, <2>9, <2>10, <2>11 DEF FilesInv
<1> QED BY <1>1, <1>2 DEF FilesChange

(* Every step of capture_file and of freeze keeps the copies whole.          *)
LEMMA FilesInvStep == FilesInv /\ FilesStep => FilesInv'
<1> SUFFICES ASSUME FilesInv, FilesStep PROVE FilesInv'
  OBVIOUS
<1> USE FilesAssumption DEF Copying, Files, Captures
<1>0. /\ FilesShape /\ VersionsGrow /\ CaptureOpen /\ ModuleRead /\ ArtifactRead /\ CopiesWhole
      /\ Executable \in Files
      /\ \A f \in Files : Len(names[f]) \in Nat /\ Len(names[f]) >= 1
  BY EntryTypes DEF FilesInv, VersionsGrow
<1>1. ASSUME GiveUp PROVE FilesInv'
  <2>1. /\ UNCHANGED <<names, clock, changes, captured, racy>>
        /\ stage' = "failed" /\ cap' = Idle
    BY <1>1 DEF GiveUp
  <2>2. /\ cap'.file = Executable /\ cap'.step = "idle" /\ cap'.fd = 1 /\ Len(cap'.read) = 0
        /\ cap' \in Captures
    BY <1>0, <2>1 DEF Idle
  <2>3. FilesShape' /\ VersionsGrow'
    BY <1>0, <2>1, <2>2 DEF FilesShape, VersionsGrow
  <2>4. CaptureOpen' /\ ModuleRead' /\ ArtifactRead'
    BY <1>0, <2>1, <2>2 DEF CaptureOpen, ModuleRead, ArtifactRead
  <2>5. CopiesWhole'
    BY <1>0, <2>1 DEF CopiesWhole
  <2> QED BY <2>3, <2>4, <2>5 DEF FilesInv
<1>2. ASSUME UNCHANGED <<names, clock, changes, cap, captured, racy>>,
             \/ stage = "maps" /\ stage' = "modules"
             \/ stage = "modules" /\ stage' = "closure" /\ \A f \in Modules : captured[f] # <<>>
             \/ stage = "closure" /\ stage' = "artifacts"
             \/ /\ stage = "artifacts" /\ stage' = "frozen"
                /\ \A f \in Artifacts : captured[f] # <<>>
                /\ \A f \in WorldArtifacts : captured[f] = <<0, 0>>
      PROVE  FilesInv'
  <2>1. FilesShape' /\ VersionsGrow' /\ ModuleRead' /\ ArtifactRead'
    BY <1>0, <1>2 DEF FilesShape, VersionsGrow, ModuleRead, ArtifactRead, OpenedFile
  <2>2. cap.step = "idle"
    BY <1>0, <1>2 DEF CaptureOpen
  <2>3. CaptureOpen'
    BY <1>0, <1>2, <2>2 DEF CaptureOpen
  <2>4. CopiesWhole'
    BY <1>0, <1>2 DEF CopiesWhole
  <2> QED BY <2>1, <2>3, <2>4 DEF FilesInv
<1>3. ASSUME NEW f \in Files, Open(f) PROVE FilesInv'
  <2>1. /\ UNCHANGED <<names, clock, changes, stage, captured, racy>>
        /\ cap'.file = f /\ cap'.step = IF f \in Modules THEN "opened" ELSE "copy"
        /\ cap'.fd = IF f = Executable THEN 1 ELSE Len(names[f])
        /\ cap'.read = <<>>
        /\ cap' \in Captures
    <3>1. cap' = [file |-> f, step |-> IF f \in Modules THEN "opened" ELSE "copy",
                  fd |-> IF f = Executable THEN 1 ELSE Len(names[f]),
                  before |-> <<1, 0>>, first |-> <<>>, read |-> <<>>]
      BY <1>3 DEF Open, Idle
    <3>2. UNCHANGED <<names, clock, changes, stage, captured, racy>>
      BY <1>3 DEF Open
    <3> QED BY <1>0, <3>1, <3>2
  <2>2. /\ captured[f] = <<>>
        /\ \/ stage = "modules" /\ f \in Modules
           \/ stage = "artifacts" /\ f \in Artifacts
    BY <1>3 DEF Open, Due
  <2>3. FilesShape' /\ VersionsGrow' /\ CopiesWhole'
    BY <1>0, <2>1 DEF FilesShape, VersionsGrow, CopiesWhole
  <2>4. CaptureOpen'
    BY <1>0, <2>1, <2>2 DEF CaptureOpen
  <2>5. ModuleRead' /\ ArtifactRead'
    BY <2>1, <2>2 DEF ModuleRead, ArtifactRead
  <2> QED BY <2>3, <2>4, <2>5 DEF FilesInv
<1>4. CASE StatBefore
  <2>1. /\ UNCHANGED <<names, clock, changes, stage, captured>>
        /\ cap.step = "opened"
        /\ cap' = [cap EXCEPT !.step = "stat", !.before = Stat(cap.file, cap.fd)]
        /\ racy' = IF Stat(cap.file, cap.fd)[2] = clock THEN racy \cup {cap.file} ELSE racy
    BY <1>4 DEF StatBefore
  <2>2. /\ cap.file \in Files /\ cap.file \in Modules /\ cap.fd \in 1 .. Len(names[cap.file])
        /\ captured[cap.file] = <<>> /\ Len(cap.read) = 0
    BY <1>0, <2>1 DEF FilesShape, CaptureOpen
  <2>3. Stat(cap.file, cap.fd) \in Nat \X Nat /\ Stat(cap.file, cap.fd)[2] <= clock
    <3>1. PICK k \in 1 .. Len(names[cap.file]) :
            Stat(cap.file, cap.fd) = <<k, names[cap.file][k].mtime>>
      BY <1>0, <2>2 DEF Stat
    <3>2. names[cap.file][k].mtime \in Nat /\ names[cap.file][k].mtime <= clock
      BY <1>0, <2>2, EntryTypes DEF VersionsGrow
    <3> QED BY <1>0, <2>2, <3>1, <3>2
  <2>4. /\ cap'.file = cap.file /\ cap'.step = "stat" /\ cap'.fd = cap.fd /\ cap'.read = cap.read
        /\ cap'.before = Stat(cap.file, cap.fd)
        /\ FilesShape'
    BY <1>0, <2>1, <2>2, <2>3 DEF FilesShape
  <2>5. CaptureOpen'
    BY <1>0, <2>1, <2>2, <2>4 DEF CaptureOpen
  <2>6. ModuleRead'
    <3>1. cap.file \notin racy' => Stat(cap.file, cap.fd)[2] < clock
      BY <1>0, <2>1, <2>3 DEF FilesShape
    <3> QED BY <2>1, <2>2, <2>4, <3>1 DEF ModuleRead
  <2>7. ArtifactRead' /\ VersionsGrow'
    BY <1>0, <2>1, <2>2, <2>4 DEF ArtifactRead, VersionsGrow
  <2>8. CopiesWhole'
    BY <1>0, <2>1, <2>2 DEF CopiesWhole
  <2> QED BY <2>4, <2>5, <2>6, <2>7, <2>8 DEF FilesInv
<1>5. CASE CheckOpened
  <2>1. CASE GiveUp
    BY <1>1, <2>1
  <2>2. CASE ~GiveUp
    <3>1. /\ UNCHANGED <<names, clock, changes, stage, captured, racy>>
          /\ cap.step = "stat"
          /\ cap' = [cap EXCEPT !.step = "copy"]
          /\ cap.before = <<cap.fd, OpenedFile.mtime>>
      BY <1>5, <2>2 DEF CheckOpened, SameFileVersion
    <3>2. /\ cap'.file = cap.file /\ cap'.step = "copy" /\ cap'.fd = cap.fd
          /\ cap'.read = cap.read /\ cap'.before = cap.before
          /\ FilesShape'
      BY <1>0, <3>1 DEF FilesShape
    <3>3. CaptureOpen' /\ cap.file \in Modules /\ Len(cap.read) = 0
      BY <1>0, <3>1, <3>2 DEF CaptureOpen
    <3>4. ModuleRead' /\ ArtifactRead'
      BY <1>0, <3>1, <3>2, <3>3 DEF ModuleRead, ArtifactRead, OpenedFile
    <3>5. VersionsGrow' /\ CopiesWhole'
      BY <1>0, <3>1 DEF VersionsGrow, CopiesWhole
    <3> QED BY <3>2, <3>3, <3>4, <3>5 DEF FilesInv
  <2> QED BY <2>1, <2>2
<1>6. CASE Read
  <2> DEFINE v == OpenedFile.version
  <2>1. /\ UNCHANGED <<names, clock, changes, stage, captured, racy>>
        /\ cap.step \in {"copy", "verify"} /\ Len(cap.read) < 2
        /\ cap' = [cap EXCEPT !.read = Append(cap.read, v)]
    BY <1>6 DEF Read
  <2>2. v \in Nat /\ cap.read \in Seq(Nat) /\ Len(cap.read) \in Nat
    BY OpenedTypes, ReadTypes
  <2>3. /\ Append(cap.read, v) \in Seq(Nat) /\ Len(Append(cap.read, v)) = Len(cap.read) + 1
        /\ \A i \in 1 .. Len(cap.read) : Append(cap.read, v)[i] = cap.read[i]
        /\ Append(cap.read, v)[Len(cap.read) + 1] = v
    BY <2>2
  <2>4. /\ cap'.file = cap.file /\ cap'.step = cap.step /\ cap'.fd = cap.fd
        /\ cap'.before = cap.before /\ cap'.first = cap.first
        /\ cap'.read = Append(cap.read, v)
        /\ FilesShape'
    BY <1>0, <2>1, <2>3 DEF FilesShape
  <2>5. OpenedFile' = OpenedFile
    BY <2>1, <2>4 DEF OpenedFile
  <2>6. CaptureOpen'
    BY <1>0, <2>1, <2>2, <2>3, <2>4 DEF CaptureOpen
  <2>7. /\ Len(cap'.read) = Len(cap.read) + 1
        /\ \A i \in 1 .. Len(cap'.read) : \/ i \in 1 .. Len(cap.read) /\ cap'.read[i] = cap.read[i]
                                          \/ i = Len(cap.read) + 1 /\ cap'.read[i] = v
    BY <2>2, <2>3, <2>4
  <2>8. ModuleRead'
    BY <1>0, <2>1, <2>4, <2>5, <2>7 DEF ModuleRead
  <2>9. ArtifactRead'
    <3>1. CASE cap.file \in Artifacts /\ cap.step = "copy"
      <4>1. /\ \A i \in 1 .. Len(cap.read) : cap.read[i] <= v /\ cap.read[i] \in Nat
            /\ \A i, j \in 1 .. Len(cap.read) : i <= j => cap.read[i] <= cap.read[j]
        BY <1>0, <3>1, ReadTypes DEF ArtifactRead
      <4>2. \A i \in 1 .. Len(cap'.read) : cap'.read[i] <= v
        BY <2>2, <2>7, <4>1
      <4>3. ASSUME NEW i \in 1 .. Len(cap'.read), NEW j \in 1 .. Len(cap'.read), i <= j
            PROVE  cap'.read[i] <= cap'.read[j]
        <5>1. CASE j \in 1 .. Len(cap.read) /\ cap'.read[j] = cap.read[j]
          <6>1. i \in 1 .. Len(cap.read) /\ cap'.read[i] = cap.read[i]
            BY <2>2, <2>7, <4>3, <5>1
          <6> QED BY <4>1, <4>3, <5>1, <6>1
        <5>2. CASE cap'.read[j] = v
          BY <4>2, <5>2
        <5> QED BY <2>7, <5>1, <5>2
      <4> QED BY <3>1, <2>4, <2>5, <4>2, <4>3 DEF ArtifactRead
    <3>2. CASE cap.file \in Artifacts /\ cap.step = "verify"
      BY <1>0, <2>2, <2>4, <2>5, <2>7, <3>2 DEF ArtifactRead
    <3> QED BY <2>1, <2>4, <3>1, <3>2 DEF ArtifactRead
  <2>10. VersionsGrow' /\ CopiesWhole'
    BY <1>0, <2>1 DEF VersionsGrow, CopiesWhole
  <2> QED BY <2>4, <2>6, <2>8, <2>9, <2>10 DEF FilesInv
<1>7. ASSUME NEW copy \in Seq(Nat), Capture(copy), Len(copy) = 2, cap.step # "idle",
             cap.file \notin racy => Whole(copy)
      PROVE  FilesInv'
  <2>1. /\ UNCHANGED <<names, clock, changes, stage, racy>>
        /\ captured' = [captured EXCEPT ![cap.file] = copy]
        /\ cap' = Idle
    BY <1>7 DEF Capture
  <2>2. /\ cap'.file = Executable /\ cap'.step = "idle" /\ cap'.fd = 1 /\ Len(cap'.read) = 0
        /\ cap' \in Captures
    BY <1>0, <2>1 DEF Idle
  <2>3. FilesShape' /\ VersionsGrow'
    BY <1>0, <1>7, <2>1, <2>2 DEF FilesShape, VersionsGrow
  <2>4. CaptureOpen' /\ ModuleRead' /\ ArtifactRead'
    BY <1>0, <2>1, <2>2 DEF CaptureOpen, ModuleRead, ArtifactRead
  <2>5. /\ copy # <<>> /\ cap.file \in Files
        /\ captured'[cap.file] = copy
        /\ \A f \in Files \ {cap.file} : captured'[f] = captured[f]
    <3>1. copy # <<>>
      BY <1>7
    <3>2. cap.file \in Files /\ captured \in [Files -> Seq(Nat)]
      BY <1>0 DEF FilesShape
    <3> QED BY <2>1, <3>1, <3>2
  <2>6. stage' # "frozen"
    BY <1>0, <1>7, <2>1 DEF CaptureOpen
  <2>7. CopiesWhole'
    BY <1>0, <1>7, <2>1, <2>5, <2>6 DEF CopiesWhole
  <2> QED BY <2>3, <2>4, <2>7 DEF FilesInv
<1>8. CASE CheckAfter
  <2>1. CASE GiveUp
    BY <1>1, <2>1
  <2>2. CASE ~GiveUp
    <3>1. /\ cap.step = "copy" /\ cap.file \in Modules /\ Len(cap.read) = 2
          /\ cap.before = Stat(cap.file, cap.fd) /\ Capture(cap.read)
      BY <1>8, <2>2 DEF CheckAfter, SameFileVersion
    <3>2. cap.read \in Seq(Nat)
      BY ReadTypes
    <3>3. ASSUME cap.file \notin racy PROVE Whole(cap.read)
      <4>1. cap.before[1] = cap.fd /\ cap.file \in Files
        BY <1>0, <3>1 DEF ModuleRead
      <4>2. Stat(cap.file, cap.fd)[1] = cap.fd => Stat(cap.file, cap.fd)[2] = OpenedFile.mtime
        BY DEF Stat, OpenedFile
      <4>3. OpenedFile.mtime = cap.before[2]
        BY <3>1, <4>1, <4>2
      <4>4. \A i \in 1 .. Len(cap.read) : cap.read[i] = OpenedFile.version
        BY <1>0, <3>1, <3>3, <4>3 DEF ModuleRead
      <4> QED BY <3>1, <4>4 DEF Whole
    <3> QED BY <3>1, <3>2, <3>3, <1>7
  <2> QED BY <2>1, <2>2
<1>9. CASE Reopen
  <2>1. /\ UNCHANGED <<names, clock, changes, stage, captured, racy>>
        /\ cap.step = "copy" /\ cap.file \in Artifacts /\ Len(cap.read) = 2
        /\ cap' = [cap EXCEPT !.step = "verify", !.first = cap.read, !.read = <<>>,
                              !.fd = Len(names[cap.file])]
    BY <1>9 DEF Reopen
  <2>2. cap.file \in Files /\ cap.read \in Seq(Nat) /\ Len(names[cap.file]) \in Nat
    BY <1>0, ReadTypes DEF FilesShape
  <2>3. /\ cap'.file = cap.file /\ cap'.step = "verify" /\ cap'.fd = Len(names[cap.file])
        /\ cap'.first = cap.read /\ cap'.read = <<>>
        /\ FilesShape'
    <3>1. cap \in Captures
      BY <1>0 DEF FilesShape
    <3>2. /\ cap'.file = cap.file /\ cap'.step = "verify" /\ cap'.fd = Len(names[cap.file])
          /\ cap'.first = cap.read /\ cap'.read = <<>>
      BY <2>1, <3>1
    <3>3. cap' = [file |-> cap.file, step |-> "verify", fd |-> Len(names[cap.file]),
                  before |-> cap.before, first |-> cap.read, read |-> <<>>]
      BY <2>1, <3>1
    <3>4. cap' \in Captures
      BY <2>2, <3>1, <3>3
    <3> QED BY <1>0, <2>1, <3>2, <3>4 DEF FilesShape
  <2>4. CaptureOpen'
    BY <1>0, <2>1, <2>2, <2>3 DEF CaptureOpen
  <2>5. OpenedFile.version <= OpenedFile'.version /\ OpenedFile'.version \in Nat
    <3>1. cap.fd \in 1 .. Len(names[cap.file]) /\ OpenedFile' = names[cap.file][Len(names[cap.file])]
      BY <1>0, <2>1, <2>3 DEF CaptureOpen, OpenedFile
    <3> QED BY <1>0, <2>2, <3>1, EntryTypes DEF VersionsGrow, OpenedFile
  <2>6. ArtifactRead'
    <3>1. cap.read[1] \in Nat /\ cap.read[2] \in Nat
      BY <2>1, ReadTypes
    <3>2. cap.read[1] <= cap.read[2] /\ cap.read[2] <= OpenedFile.version
      BY <1>0, <2>1 DEF ArtifactRead
    <3>3. cap.read[2] <= OpenedFile'.version
      BY <2>5, <3>1, <3>2, OpenedTypes
    <3> QED BY <2>1, <2>3, <3>2, <3>3 DEF ArtifactRead
  <2>7. ModuleRead'
    BY <2>1, <2>3 DEF ModuleRead
  <2>8. VersionsGrow' /\ CopiesWhole'
    BY <1>0, <2>1 DEF VersionsGrow, CopiesWhole
  <2> QED BY <2>3, <2>4, <2>6, <2>7, <2>8 DEF FilesInv
<1>10. CASE CompareReads
  <2>1. CASE GiveUp
    BY <1>1, <2>1
  <2>2. CASE ~GiveUp
    <3>1. /\ cap.step = "verify" /\ Len(cap.read) = 2
          /\ cap.first = cap.read /\ Capture(cap.first)
      BY <1>10, <2>2 DEF CompareReads, SameDigest
    <3>2. cap.file \in Artifacts
      BY <1>0, <3>1 DEF CaptureOpen
    <3>3. /\ cap.first \in Seq(Nat) /\ Len(cap.first) = 2
          /\ cap.first[1] \in Nat /\ cap.first[2] \in Nat
      BY <3>1, ReadTypes
    <3>4. cap.first[1] <= cap.first[2] /\ cap.first[2] <= cap.read[1]
      BY <1>0, <3>1, <3>2 DEF ArtifactRead
    <3>5. Whole(cap.first)
      BY <3>1, <3>3, <3>4 DEF Whole
    <3> QED BY <3>1, <3>3, <3>5, <1>7
  <2> QED BY <2>1, <2>2
<1>11. CASE ReadMaps \/ BuildPackage
  BY <1>2, <1>11 DEF ReadMaps, BuildPackage
<1>12. CASE ValidateSources \/ ValidateCopies
  BY <1>1, <1>2, <1>12 DEF ValidateSources, ValidateCopies, ExpectedWorld
<1>13. CASE RefuseMaps \/ CaptureFails
  BY <1>1, <1>13 DEF RefuseMaps, CaptureFails
<1> QED
  BY <1>3, <1>4, <1>5, <1>6, <1>8, <1>9, <1>10, <1>11, <1>12, <1>13 DEF FilesStep

-----------------------------------------------------------------------------
(***************************************************************************)
(* The operators of the delivery.                                          *)
(***************************************************************************)
LEMMA ObjectsFinite == IsFiniteSet(Objects) /\ \A S \in SUBSET Objects : IsFiniteSet(S)
<1>1. IsFiniteSet(Objects)
  BY DeliveryAssumption, FS_Union DEF Objects
<1> QED BY <1>1, FS_Subset

(* A page and a batch are parts of what they are taken from, no larger than  *)
(* their limit, and no smaller unless they are all there is.                 *)
LEMMA FirstOfSmall ==
  ASSUME NEW S \in SUBSET Objects, NEW n \in Nat
  PROVE  /\ FirstOf(S, n) \subseteq S /\ Cardinality(FirstOf(S, n)) <= n
         /\ FirstOf(S, n) # S => Cardinality(FirstOf(S, n)) = n
<1>1. IsFiniteSet(S) /\ Cardinality(S) \in Nat
  BY ObjectsFinite, FS_CardinalityType
<1>2. CASE Cardinality(S) <= n
  BY <1>1, <1>2 DEF FirstOf
<1>3. CASE ~(Cardinality(S) <= n)
  <2>1. PICK f \in Bijection(1 .. Cardinality(S), S) : TRUE
    BY <1>1, FS_CardinalityType DEF ExistsBijection
  <2>2. 1 .. n \subseteq 1 .. Cardinality(S)
    BY <1>1, <1>3
  <2> DEFINE T == {f[i] : i \in 1 .. n}
             g == [i \in 1 .. n |-> f[i]]
  <2>3. T \subseteq S
    BY <2>1, <2>2 DEF Bijection, Injection
  <2>4. g \in Bijection(1 .. n, T)
    <3>1. g \in [1 .. n -> T] /\ \A t \in T : \E i \in 1 .. n : g[i] = t
      OBVIOUS
    <3>2. \A i, j \in 1 .. n : g[i] = g[j] => i = j
      BY <2>1, <2>2 DEF Bijection, Injection, IsInjective
    <3> QED BY <3>1, <3>2 DEF Bijection, Injection, IsInjective, Surjection
  <2>5. IsFiniteSet(1 .. n) /\ Cardinality(1 .. n) = n
    BY FS_Interval
  <2>6. Cardinality(T) = n
    BY <2>4, <2>5, FS_Bijection DEF ExistsBijection
  <2>7. T \in kSubset(n, S)
    BY <2>3, <2>6 DEF kSubset
  <2>8. FirstOf(S, n) = CHOOSE U \in kSubset(n, S) : TRUE
    BY <1>3 DEF FirstOf
  <2>9. FirstOf(S, n) \in kSubset(n, S)
    BY <2>7, <2>8
  <2> QED BY <2>9 DEF kSubset
<1> QED BY <1>2, <1>3

(* The page bound is a number. *)
LEMMA MaxPagesType == MaxPages \in Nat
<1> DEFINE c == Cardinality(Objects)
<1>1. c \in Nat /\ PageSize \in Nat /\ PageSize > 0
  BY ObjectsFinite, FS_CardinalityType, DeliveryAssumption
<1>2. \A n \in Nat, d \in Nat : d > 0 => n \div d \in Nat
  OBVIOUS
<1> HIDE DEF c
<1>3. c + PageSize - 1 \in Nat
  BY <1>1
<1>4. (c + PageSize - 1) \div PageSize \in Nat
  BY <1>1, <1>2, <1>3
<1> QED BY <1>4 DEF MaxPages, c

(* Full pages within the objects are fewer than the bound on pages. *)
LEMMA FullPagesFit ==
  ASSUME NEW seen \in SUBSET Objects, NEW pages \in Nat,
         pages * PageSize <= Cardinality(seen)
  PROVE  pages < MaxPages
<1> DEFINE c == Cardinality(Objects)
           q == (c + PageSize - 1) \div PageSize
<1>1. c \in Nat /\ PageSize \in Nat /\ PageSize > 0
  BY ObjectsFinite, FS_CardinalityType, DeliveryAssumption
<1>2. Cardinality(seen) \in Nat /\ Cardinality(seen) <= c
  BY ObjectsFinite, FS_Subset, FS_CardinalityType
<1> HIDE DEF c
<1>3. c + PageSize - 1 \in Nat
  BY <1>1
<1>4. q \in Nat /\ c + PageSize - 1 < (q + 1) * PageSize
  <2>1. \A n, d \in Nat : d > 0 => n \div d \in Nat /\ n < (n \div d + 1) * d
    OBVIOUS
  <2> QED BY <1>1, <1>3, <2>1
<1> HIDE DEF q
<1>5. (q + 1) * PageSize = q * PageSize + PageSize
  BY <1>1, <1>4
<1>6. q * PageSize \in Int /\ pages * PageSize \in Int
  BY <1>1, <1>4
<1>7. pages * PageSize <= q * PageSize
  BY <1>1, <1>2, <1>3, <1>4, <1>5, <1>6
<1>8. pages <= q
  <2>1. SUFFICES ASSUME pages >= q + 1 PROVE FALSE
    BY <1>4
  <2>2. pages * PageSize >= (q + 1) * PageSize
    <3>1. \A a, b, d \in Nat : a >= b => a * d >= b * d
      OBVIOUS
    <3> QED BY <1>1, <1>4, <2>1, <3>1
  <2> QED BY <1>1, <1>5, <1>6, <1>7, <2>2
<1>9. MaxPages = q + 1
  BY DEF MaxPages, q, c
<1> QED BY <1>4, <1>8, <1>9

(* A page has nothing that was listed or stored; it is full if a page is to  *)
(* follow, and all that is missing otherwise.                                *)
LEMMA PageFacts ==
  ASSUME NEW s, NEW seen, NEW p \in Pages(s, seen)
  PROVE  /\ p.page \cap (s.stored \cup seen) = {}
         /\ p.more => Cardinality(p.page) = PageSize
         /\ ~p.more => Objects \subseteq s.stored \cup seen \cup p.page
<1> DEFINE rest == Objects \ (s.stored \cup seen)
           page == FirstOf(rest, PageSize)
<1>1. rest \in SUBSET Objects /\ PageSize \in Nat
  BY DeliveryAssumption
<1>2. page \subseteq rest
  BY <1>1, FirstOfSmall
<1>3. p.page = page /\ (page # rest => p.more) /\ (p.more => page # rest \/ Cardinality(page) = PageSize)
  BY DEF Pages
<1>4. page # rest => Cardinality(page) = PageSize
  BY <1>1, FirstOfSmall
<1> HIDE DEF page
<1> QED BY <1>2, <1>3, <1>4

(* What the service does with a request: it never loses an upload or a       *)
(* commit, and only a commit commits.                                        *)
LEMMA ProcessFacts ==
  ASSUME NEW s \in Services, NEW request \in Requests
  PROVE  /\ Process(s, request) \in Services
         /\ s.state = "committed" => Process(s, request).state = "committed"
         /\ s.state # "none" => Process(s, request).state # "none"
         /\ Process(s, request).state = "committed" =>
              s.state = "committed" \/ request = <<"commit">>
<1>1. /\ request[1] = "put" => request[2] \in Objects
      /\ <<"start">>[1] = "start" /\ <<"commit">>[1] = "commit" /\ <<"cancel">>[1] = "cancel"
  BY DEF Requests
<1> QED BY <1>1 DEF Process, Services, Requests

(* The service after any exchange. *)
Served(request) ==
  /\ service' \in Services /\ late' \subseteq Requests /\ faults' \in 0 .. MaxFaults
  /\ service.state = "committed" => service'.state = "committed"
  /\ service.state # "none" => service'.state # "none"
  /\ service'.state = "committed" => service.state = "committed" \/ request = <<"commit">>

(* Whatever becomes of a request, the service has served at most it. *)
LEMMA Exchange ==
  ASSUME FilesShape, Shape, NEW request \in Requests,
         Answered(request) \/ Unanswered(request) \/ Refused \/ UNCHANGED requestVars
  PROVE  Served(request)
<1>1. /\ service \in Services /\ late \subseteq Requests /\ faults \in 0 .. MaxFaults
      /\ changes \in Nat
  BY DEF Shape, FilesShape
<1>2. /\ Process(service, request) \in Services
      /\ service.state = "committed" => Process(service, request).state = "committed"
      /\ service.state # "none" => Process(service, request).state # "none"
      /\ Process(service, request).state = "committed" =>
           service.state = "committed" \/ request = <<"commit">>
  BY <1>1, ProcessFacts
<1>3. Fault => faults' \in 0 .. MaxFaults
  BY <1>1, DeliveryAssumption DEF Fault
<1>4. faults' = faults \/ Fault
  BY DEF Answered, Unanswered, Refused, requestVars
<1>5. service' = service \/ service' = Process(service, request)
  BY DEF Answered, Unanswered, Refused, requestVars
<1>6. late' = late \/ late' = late \cup {request}
  BY DEF Answered, Unanswered, Refused, requestVars
<1> QED BY <1>1, <1>2, <1>3, <1>4, <1>5, <1>6 DEF Served

-----------------------------------------------------------------------------
(* An upload and a thread that have not begun. *)
LEMMA Fresh ==
  /\ NoUpload \in UploadRecords
  /\ NoUpload.todo = {} /\ NoUpload.batch = {} /\ NoUpload.seen = {} /\ ~NoUpload.known
  /\ NoThread \in [state : ThreadStates, tries : 0 .. AttemptCap]
  /\ Cardinality({}) = 0 /\ 0 <= BatchSize
<1>1. NoUpload \in UploadRecords
  BY MaxPagesType DEF NoUpload, UploadRecords
<1>2. NoThread \in [state : ThreadStates, tries : 0 .. AttemptCap]
  BY DeliveryAssumption DEF NoThread, ThreadStates
<1> QED BY <1>1, <1>2, FS_EmptySet, DeliveryAssumption DEF NoUpload

(* A page of missing objects is a set of objects, with or without a cursor. *)
LEMMA PagesType ==
  ASSUME NEW s, NEW seen, NEW p \in Pages(s, seen)
  PROVE  p.page \in SUBSET Objects /\ p.more \in BOOLEAN
<1>1. Objects \ (s.stored \cup seen) \in SUBSET Objects
  OBVIOUS
<1>2. FirstOf(Objects \ (s.stored \cup seen), PageSize) \in SUBSET Objects
  BY <1>1, FirstOfSmall, DeliveryAssumption
<1> QED BY <1>2 DEF Pages

(* The delivery starts with no request, no thread and nothing encrypted. *)
LEMMA InductiveInit == Init => IInv
<1> SUFFICES ASSUME Init PROVE IInv
  OBVIOUS
<1> USE DeliveryAssumption DEF Preparing, Uploading, Errors, LocalErrors
<1>1. FilesInv
  BY FilesInvInit DEF Init
<1>3. Shape
  <2>1. service \in Services /\ service.state = "none"
    BY DEF Init, Services
  <2>2. threads \in [Objects -> [state : ThreadStates, tries : 0 .. AttemptCap]]
    BY Fresh DEF Init
  <2>3. upload \in UploadRecords /\ upload.todo = {} /\ upload.batch = {} /\ upload.seen = {}
        /\ Cardinality(upload.batch) <= BatchSize
    BY Fresh DEF Init
  <2>4. uploads \in 0 .. MaxUploads /\ faults \in 0 .. MaxFaults /\ late \subseteq Requests
    BY DEF Init
  <2>5. phase \in Preparing /\ result = "none" /\ timed \in BOOLEAN /\ expired \in BOOLEAN
    BY DEF Init
  <2>6. /\ spool \subseteq Objects /\ ciphers \subseteq Objects /\ sealed \subseteq Objects
        /\ adopted = {}
        /\ grantKey = NoKey /\ sealKey = NoKey
    BY DEF Init
  <2> QED BY <2>1, <2>2, <2>3, <2>4, <2>5, <2>6 DEF Shape
<1>4. Sealed /\ Told /\ Busy /\ AbandonedIsCancelled
  BY DEF Init, Sealed, Told, Busy, AbandonedIsCancelled, NoUpload, NoThread, FilesInit
<1> QED BY <1>1, <1>3, <1>4 DEF IInv

(* Every step of the worker, of its upload threads, of the host, of the      *)
(* service and of the files keeps IInv.                                      *)
LEMMA InductiveStep == IInv /\ [Next]_vars => IInv'
<1> SUFFICES ASSUME IInv, [Next]_vars PROVE IInv'
  OBVIOUS
<1> USE DeliveryAssumption DEF Preparing, Uploading, Errors, LocalErrors, Continue, Finish, Abort,
        InTime, OutOfTime, localVars, uploadVars
<1>0. /\ FilesInv /\ FilesShape /\ Shape /\ Sealed /\ Told /\ Busy /\ AbandonedIsCancelled
      /\ <<"start">> \in Requests /\ <<"commit">> \in Requests /\ <<"cancel">> \in Requests
      /\ \A o \in Objects : <<"put", o>> \in Requests
  BY DEF IInv, FilesInv, Requests
<1>1. ASSUME NEW p \in {"queued", "prepared", "granted", "sealed", "ready", "recommit",
                  "committing", "committed"},
             RunOut(p)
      PROVE  IInv'
  <2>1. UNCHANGED fileVars /\ FilesInv'
    BY <1>0, <1>1, FilesInvQuiet DEF RunOut, fileVars
  <2>2. UNCHANGED stage
    BY <2>1 DEF fileVars
  <2>3. UNCHANGED requestVars /\ UNCHANGED <<service, late, faults>>
    BY <1>1 DEF RunOut, requestVars
  <2>4. Shape'
    BY <1>0, <1>1, <2>3 DEF Shape, requestVars, RunOut
  <2>5. Sealed'
    BY <1>0, <1>1, <2>2, <2>3 DEF Shape, Sealed, requestVars, RunOut
  <2>6. Told'
    BY <1>0, <1>1, <2>3 DEF Shape, Told, requestVars, RunOut
  <2>7. Busy'
    BY <1>0, <1>1 DEF Shape, Busy, RunOut
  <2>8. AbandonedIsCancelled'
    BY <1>0, <1>1 DEF Shape, Told, AbandonedIsCancelled, RunOut
  <2> QED BY <2>1, <2>4, <2>5, <2>6, <2>7, <2>8 DEF IInv
<1>2. CASE Prepare
  <2>1. UNCHANGED fileVars /\ FilesInv'
    BY <1>0, <1>2, FilesInvQuiet DEF Prepare, LocalClosureIntact, Incomplete, Adopt, FailsLocally, fileVars
  <2>2. UNCHANGED stage
    BY <2>1 DEF fileVars
  <2>3. Served(<<"start">>) /\ UNCHANGED <<service, late>>
    BY <1>0, <1>2, Exchange DEF Prepare, LocalClosureIntact, Incomplete, Adopt, FailsLocally, Refused, requestVars
  <2>4. Shape'
    BY <1>0, <1>2, <2>3 DEF Shape, Served, Prepare, Replaceable, LocalClosureIntact, Incomplete, Adopt, FailsLocally, Services
  <2>5. Sealed'
    BY <1>0, <1>2, <2>2, <2>3 DEF Shape, Sealed, Served, Prepare, LocalClosureIntact, Incomplete, Adopt, FailsLocally
  <2>6. Told'
    BY <1>0, <1>2, <2>3 DEF Shape, Told, Served, Prepare, LocalClosureIntact, Incomplete, Adopt, FailsLocally
  <2>7. Busy'
    BY <1>0, <1>2 DEF Shape, Busy, Prepare, LocalClosureIntact, Incomplete, Adopt, FailsLocally
  <2>8. AbandonedIsCancelled'
    BY <1>0, <1>2 DEF Shape, Told, AbandonedIsCancelled, Prepare, LocalClosureIntact, Incomplete, Adopt, FailsLocally
  <2> QED BY <2>1, <2>4, <2>5, <2>6, <2>7, <2>8 DEF IInv
<1>3. CASE RequestGrant
  <2>1. UNCHANGED fileVars /\ FilesInv'
    BY <1>0, <1>3, FilesInvQuiet DEF RequestGrant, LocalClosureIntact, Incomplete, fileVars
  <2>2. UNCHANGED stage
    BY <2>1 DEF fileVars
  <2>3. Served(<<"start">>) /\ UNCHANGED <<service, late>>
    BY <1>0, <1>3, Exchange DEF RequestGrant, LocalClosureIntact, Incomplete, Refused, requestVars
  <2>4. Shape'
    BY <1>0, <1>3, <2>3 DEF Shape, Served, RequestGrant, LocalClosureIntact, Incomplete, Services
  <2>5. Sealed'
    BY <1>0, <1>3, <2>2, <2>3 DEF Shape, Sealed, Served, RequestGrant, LocalClosureIntact, Incomplete
  <2>6. Told'
    BY <1>0, <1>3, <2>3 DEF Shape, Told, Served, RequestGrant, LocalClosureIntact, Incomplete
  <2>7. Busy'
    BY <1>0, <1>3 DEF Shape, Busy, RequestGrant, LocalClosureIntact, Incomplete
  <2>8. AbandonedIsCancelled'
    BY <1>0, <1>3 DEF Shape, Told, AbandonedIsCancelled, RequestGrant, LocalClosureIntact, Incomplete
  <2> QED BY <2>1, <2>4, <2>5, <2>6, <2>7, <2>8 DEF IInv
<1>4. CASE SealVerify
  <2>1. UNCHANGED fileVars /\ FilesInv'
    BY <1>0, <1>4, FilesInvQuiet DEF SealVerify, LocalClosureIntact, Incomplete, fileVars
  <2>2. UNCHANGED stage
    BY <2>1 DEF fileVars
  <2>3. Served(<<"start">>) /\ UNCHANGED <<service, late>>
    BY <1>0, <1>4, Exchange DEF SealVerify, LocalClosureIntact, Incomplete, Refused, requestVars
  <2>4. Shape'
    BY <1>0, <1>4, <2>3 DEF Shape, Served, SealVerify, LocalClosureIntact, Incomplete, Services
  <2>5. Sealed'
    BY <1>0, <1>4, <2>2, <2>3 DEF Shape, Sealed, Served, SealVerify, LocalClosureIntact, Incomplete
  <2>6. Told'
    BY <1>0, <1>4, <2>3 DEF Shape, Told, Served, SealVerify, LocalClosureIntact, Incomplete
  <2>7. Busy'
    BY <1>0, <1>4 DEF Shape, Busy, SealVerify, LocalClosureIntact, Incomplete
  <2>8. AbandonedIsCancelled'
    BY <1>0, <1>4 DEF Shape, Told, AbandonedIsCancelled, SealVerify, LocalClosureIntact, Incomplete
  <2> QED BY <2>1, <2>4, <2>5, <2>6, <2>7, <2>8 DEF IInv
<1>5. CASE Seal
  <2>1. UNCHANGED fileVars /\ FilesInv'
    BY <1>0, <1>5, FilesInvQuiet DEF Seal, EncryptedAsDescribed, FailsLocally, fileVars
  <2>2. UNCHANGED stage
    BY <2>1 DEF fileVars
  <2>3. Served(<<"start">>) /\ UNCHANGED <<service, late>>
    BY <1>0, <1>5, Exchange DEF Seal, EncryptedAsDescribed, FailsLocally, Incomplete, Refused, requestVars
  <2>4. Shape'
    BY <1>0, <1>5, <2>3 DEF Shape, Served, Seal, EncryptedAsDescribed, FailsLocally, Services
  <2>5. Sealed'
    BY <1>0, <1>5, <2>2, <2>3 DEF Shape, Sealed, Served, Seal, EncryptedAsDescribed, FailsLocally
  <2>6. Told'
    BY <1>0, <1>5, <2>3 DEF Shape, Told, Served, Seal, EncryptedAsDescribed, FailsLocally
  <2>7. Busy'
    BY <1>0, <1>5 DEF Shape, Busy, Seal, EncryptedAsDescribed, FailsLocally
  <2>8. AbandonedIsCancelled'
    BY <1>0, <1>5 DEF Shape, Told, AbandonedIsCancelled, Seal, EncryptedAsDescribed, FailsLocally
  <2> QED BY <2>1, <2>4, <2>5, <2>6, <2>7, <2>8 DEF IInv
<1>6. CASE Renew
  <2>1. UNCHANGED fileVars /\ FilesInv'
    BY <1>0, <1>6, FilesInvQuiet DEF Renew, RenewalMatches, fileVars
  <2>2. UNCHANGED stage
    BY <2>1 DEF fileVars
  <2>3. Served(<<"start">>) /\ UNCHANGED <<service, late>>
    BY <1>0, <1>6, Exchange DEF Renew, RenewalMatches, Incomplete, Refused, requestVars
  <2>4. Shape'
    BY <1>0, <1>6, <2>3 DEF Shape, Served, Renew, RenewalMatches, Services
  <2>5. Sealed'
    BY <1>0, <1>6, <2>2, <2>3 DEF Shape, Sealed, Served, Renew, RenewalMatches
  <2>6. Told'
    BY <1>0, <1>6, <2>3 DEF Shape, Told, Served, Renew, RenewalMatches
  <2>7. Busy'
    BY <1>0, <1>6 DEF Shape, Busy, Renew, RenewalMatches
  <2>8. AbandonedIsCancelled'
    BY <1>0, <1>6 DEF Shape, Told, AbandonedIsCancelled, Renew, RenewalMatches
  <2> QED BY <2>1, <2>4, <2>5, <2>6, <2>7, <2>8 DEF IInv
<1>7. CASE Recommit
  <2>1. UNCHANGED fileVars /\ FilesInv'
    BY <1>0, <1>7, FilesInvQuiet DEF Recommit, fileVars
  <2>2. UNCHANGED stage
    BY <2>1 DEF fileVars
  <2>3. Served(<<"commit">>)
    BY <1>0, <1>7, Exchange DEF Recommit
  <2>4. Shape'
    BY <1>0, <1>7, <2>3 DEF Shape, Served, Recommit
  <2>5. Sealed'
    BY <1>0, <1>7, <2>2, <2>3 DEF Shape, Sealed, Served, Recommit
  <2>6. Told'
    BY <1>0, <1>7, <2>3 DEF Shape, Told, Served, Recommit
  <2>7. Busy'
    BY <1>0, <1>7 DEF Shape, Busy, Recommit
  <2>8. AbandonedIsCancelled'
    BY <1>0, <1>7 DEF Shape, Told, AbandonedIsCancelled, Recommit
  <2> QED BY <2>1, <2>4, <2>5, <2>6, <2>7, <2>8 DEF IInv
<1>8. CASE TakePage
  <2>1. UNCHANGED fileVars /\ FilesInv'
    BY <1>0, <1>8, FilesInvQuiet DEF TakePage, fileVars
  <2>2. UNCHANGED stage
    BY <2>1 DEF fileVars
  <2>3. UNCHANGED requestVars /\ UNCHANGED <<service, late, faults>>
    BY <1>8 DEF TakePage, requestVars
  <2>4. Shape'
    <3>1. CASE UNCHANGED upload
      BY <1>0, <1>8, <2>3, <3>1 DEF Shape, TakePage
    <3>2. CASE upload' # upload
      <4>1. upload \in UploadRecords /\ upload.pages # MaxPages
        BY <1>0, <1>8, <3>2 DEF Shape, TakePage
      <4>2. upload.pages + 1 \in 0 .. MaxPages
        BY <4>1, MaxPagesType DEF UploadRecords
      <4>3. upload' = [upload EXCEPT !.todo = upload.page, !.page = {},
                                     !.seen = upload.seen \cup upload.page, !.pages = upload.pages + 1]
        BY <1>8, <3>2 DEF TakePage
      <4>4. /\ upload' \in UploadRecords
            /\ upload'.todo = upload.page /\ upload'.seen = upload.seen \cup upload.page
            /\ upload'.batch = upload.batch
        BY <4>1, <4>2, <4>3 DEF UploadRecords
      <4>5. phase' = "batch" /\ UNCHANGED <<timed, expired, result, spool, adopted, ciphers, sealed,
                                            grantKey, sealKey, threads, uploads>>
        BY <1>8, <3>2 DEF TakePage
      <4> QED BY <1>0, <2>3, <4>4, <4>5 DEF Shape
    <3> QED BY <3>1, <3>2
  <2>5. Sealed'
    BY <1>0, <1>8, <2>2, <2>3 DEF Shape, Sealed, requestVars, TakePage
  <2>6. Told'
    BY <1>0, <1>8, <2>3 DEF Shape, Told, requestVars, TakePage, UploadRecords
  <2>7. Busy'
    BY <1>0, <1>8 DEF Shape, Busy, TakePage, UploadRecords
  <2>8. AbandonedIsCancelled'
    BY <1>0, <1>8 DEF Shape, Told, AbandonedIsCancelled, TakePage, UploadRecords
  <2> QED BY <2>1, <2>4, <2>5, <2>6, <2>7, <2>8 DEF IInv
<1>9. CASE SpawnBatch
  <2>1. UNCHANGED fileVars /\ FilesInv'
    BY <1>0, <1>9, FilesInvQuiet DEF SpawnBatch, fileVars
  <2>2. UNCHANGED stage
    BY <2>1 DEF fileVars
  <2>3. UNCHANGED requestVars /\ UNCHANGED <<service, late, faults>>
    BY <1>9 DEF SpawnBatch, requestVars
  <2>9. PICK batch \in SUBSET Objects :
          /\ batch \subseteq upload.todo /\ Cardinality(batch) <= BatchSize
          /\ upload' = [upload EXCEPT !.batch = batch, !.todo = @ \ batch]
          /\ threads' = [o \in Objects |-> IF o \in batch THEN [NoThread EXCEPT !.state = "spawned"]
                                           ELSE threads[o]]
    <3>1. upload.todo \in SUBSET Objects
      BY <1>0 DEF Shape, UploadRecords
    <3> QED BY <1>9, <3>1, FirstOfSmall DEF SpawnBatch
  <2>4. Shape'
    <3>1. /\ upload \in UploadRecords /\ upload.todo \subseteq upload.seen
          /\ threads \in [Objects -> [state : ThreadStates, tries : 0 .. AttemptCap]]
      BY <1>0 DEF Shape
    <3>2. /\ upload' \in UploadRecords
          /\ upload'.batch = batch /\ upload'.todo = upload.todo \ batch /\ upload'.seen = upload.seen
      BY <2>9, <3>1 DEF UploadRecords
    <3>3. [NoThread EXCEPT !.state = "spawned"] \in [state : ThreadStates, tries : 0 .. AttemptCap]
      BY DEF NoThread, ThreadStates
    <3>4. threads' \in [Objects -> [state : ThreadStates, tries : 0 .. AttemptCap]]
      BY <2>9, <3>1, <3>3
    <3>5. UNCHANGED <<timed, expired, phase, result, spool, adopted, ciphers, sealed, grantKey, sealKey, uploads>>
      BY <1>9 DEF SpawnBatch
    <3> QED BY <1>0, <2>3, <2>9, <3>1, <3>2, <3>4, <3>5 DEF Shape
  <2>5. Sealed'
    BY <1>0, <1>9, <2>2, <2>3, <2>9 DEF Shape, Sealed, requestVars, SpawnBatch
  <2>6. Told'
    BY <1>0, <1>9, <2>3, <2>9 DEF Shape, Told, requestVars, SpawnBatch, UploadRecords
  <2>7. Busy'
    BY <1>0, <1>9, <2>9 DEF Shape, Busy, SpawnBatch, NoThread, UploadRecords, ValidLimit
  <2>8. AbandonedIsCancelled'
    BY <1>0, <1>9, <2>9 DEF Shape, Told, AbandonedIsCancelled, SpawnBatch, UploadRecords
  <2> QED BY <2>1, <2>4, <2>5, <2>6, <2>7, <2>8 DEF IInv
<1>10. CASE JoinBatch
  <2>1. UNCHANGED fileVars /\ FilesInv'
    BY <1>0, <1>10, FilesInvQuiet DEF JoinBatch, BatchEnded, fileVars
  <2>2. UNCHANGED stage
    BY <2>1 DEF fileVars
  <2>3. UNCHANGED requestVars /\ UNCHANGED <<service, late, faults>>
    BY <1>10 DEF JoinBatch, BatchEnded, requestVars
  <2>4. Shape'
    <3>1. CASE UNCHANGED <<upload, threads>>
      BY <1>0, <1>10, <2>3, <3>1 DEF Shape, JoinBatch
    <3>2. CASE upload' = [upload EXCEPT !.batch = {}] /\ threads' = [o \in Objects |-> NoThread]
      <4>1. upload \in UploadRecords /\ upload.todo \subseteq upload.seen
        BY <1>0 DEF Shape
      <4>2. /\ upload' \in UploadRecords
            /\ upload'.batch = {} /\ upload'.todo = upload.todo /\ upload'.seen = upload.seen
        BY <3>2, <4>1 DEF UploadRecords
      <4>3. threads' \in [Objects -> [state : ThreadStates, tries : 0 .. AttemptCap]]
        BY <3>2, Fresh
      <4> QED BY <1>0, <1>10, <2>3, <4>1, <4>2, <4>3, Fresh DEF Shape, JoinBatch
    <3> QED BY <1>10, <3>1, <3>2 DEF JoinBatch
  <2>5. Sealed'
    BY <1>0, <1>10, <2>2, <2>3 DEF Shape, Sealed, requestVars, JoinBatch, BatchEnded
  <2>6. Told'
    BY <1>0, <1>10, <2>3 DEF Shape, Told, requestVars, JoinBatch, BatchEnded, UploadRecords
  <2>7. Busy'
    BY <1>0, <1>10 DEF Shape, Busy, JoinBatch, BatchEnded, NoThread, UploadRecords, ValidLimit
  <2>8. AbandonedIsCancelled'
    BY <1>0, <1>10 DEF Shape, Told, AbandonedIsCancelled, JoinBatch, BatchEnded, UploadRecords
  <2> QED BY <2>1, <2>4, <2>5, <2>6, <2>7, <2>8 DEF IInv
<1>11. ASSUME NEW o \in Objects, ThreadRead(o) PROVE IInv'
  <2>1. UNCHANGED fileVars /\ FilesInv'
    BY <1>0, <1>11, FilesInvQuiet DEF ThreadRead, SetThread, ValidLimit, fileVars
  <2>2. UNCHANGED stage
    BY <2>1 DEF fileVars
  <2>3. UNCHANGED requestVars /\ UNCHANGED <<service, late, faults>>
    BY <1>11 DEF ThreadRead, SetThread, ValidLimit, requestVars
  <2>4. Shape'
    BY <1>0, <1>11, <2>3 DEF Shape, requestVars, ThreadRead, SetThread, ValidLimit, ThreadStates, UploadRecords, Busy
  <2>5. Sealed'
    BY <1>0, <1>11, <2>2, <2>3 DEF Shape, Sealed, requestVars, ThreadRead, SetThread, ValidLimit
  <2>6. Told'
    BY <1>0, <1>11, <2>3 DEF Shape, Told, requestVars, ThreadRead, SetThread, ValidLimit
  <2>7. Busy'
    BY <1>0, <1>11 DEF Shape, Busy, ThreadRead, SetThread, ValidLimit
  <2>8. AbandonedIsCancelled'
    BY <1>0, <1>11 DEF Shape, Told, AbandonedIsCancelled, ThreadRead, SetThread, ValidLimit
  <2> QED BY <2>1, <2>4, <2>5, <2>6, <2>7, <2>8 DEF IInv
<1>12. ASSUME NEW o \in Objects, ThreadSend(o) PROVE IInv'
  <2>1. UNCHANGED fileVars /\ FilesInv'
    BY <1>0, <1>12, FilesInvQuiet DEF ThreadSend, SetThread, ValidLimit, AttemptsLeft, Tried, fileVars
  <2>2. UNCHANGED stage
    BY <2>1 DEF fileVars
  <2>3. UNCHANGED requestVars /\ UNCHANGED <<service, late, faults>>
    BY <1>12 DEF ThreadSend, SetThread, ValidLimit, AttemptsLeft, Tried, requestVars
  <2>4. Shape'
    BY <1>0, <1>12, <2>3 DEF Shape, requestVars, ThreadSend, SetThread, ValidLimit, AttemptsLeft, Tried, ThreadStates, UploadRecords, Busy
  <2>5. Sealed'
    BY <1>0, <1>12, <2>2, <2>3 DEF Shape, Sealed, requestVars, ThreadSend, SetThread, ValidLimit, AttemptsLeft, Tried
  <2>6. Told'
    BY <1>0, <1>12, <2>3 DEF Shape, Told, requestVars, ThreadSend, SetThread, ValidLimit, AttemptsLeft, Tried
  <2>7. Busy'
    BY <1>0, <1>12 DEF Shape, Busy, ThreadSend, SetThread, ValidLimit, AttemptsLeft, Tried
  <2>8. AbandonedIsCancelled'
    BY <1>0, <1>12 DEF Shape, Told, AbandonedIsCancelled, ThreadSend, SetThread, ValidLimit, AttemptsLeft, Tried
  <2> QED BY <2>1, <2>4, <2>5, <2>6, <2>7, <2>8 DEF IInv
<1>13. ASSUME NEW o \in Objects, ThreadReturn(o) PROVE IInv'
  <2>1. UNCHANGED fileVars /\ FilesInv'
    BY <1>0, <1>13, FilesInvQuiet DEF ThreadReturn, SetThread, fileVars
  <2>2. UNCHANGED stage
    BY <2>1 DEF fileVars
  <2>3. Served(<<"put", o>>)
    BY <1>0, <1>13, Exchange DEF ThreadReturn, SetThread
  <2>4. Shape'
    BY <1>0, <1>13, <2>3 DEF Shape, Served, ThreadReturn, SetThread, ThreadStates
  <2>5. Sealed'
    BY <1>0, <1>13, <2>2, <2>3 DEF Shape, Sealed, Served, ThreadReturn, SetThread, Busy
  <2>6. Told'
    BY <1>0, <1>13, <2>3 DEF Shape, Told, Served, ThreadReturn, SetThread
  <2>7. Busy'
    BY <1>0, <1>13 DEF Shape, Busy, ThreadReturn, SetThread
  <2>8. AbandonedIsCancelled'
    BY <1>0, <1>13 DEF Shape, Told, AbandonedIsCancelled, ThreadReturn, SetThread
  <2> QED BY <2>1, <2>4, <2>5, <2>6, <2>7, <2>8 DEF IInv
<1>14. CASE CheckCommit
  <2>1. UNCHANGED fileVars /\ FilesInv'
    BY <1>0, <1>14, FilesInvQuiet DEF CheckCommit, CommitMatches, fileVars
  <2>2. UNCHANGED stage
    BY <2>1 DEF fileVars
  <2>3. UNCHANGED requestVars /\ UNCHANGED <<service, late, faults>>
    BY <1>14 DEF CheckCommit, CommitMatches, requestVars
  <2>4. Shape'
    BY <1>0, <1>14, <2>3 DEF Shape, requestVars, CheckCommit, CommitMatches
  <2>5. Sealed'
    BY <1>0, <1>14, <2>2, <2>3 DEF Shape, Sealed, requestVars, CheckCommit, CommitMatches
  <2>6. Told'
    BY <1>0, <1>14, <2>3 DEF Shape, Told, requestVars, CheckCommit, CommitMatches
  <2>7. Busy'
    BY <1>0, <1>14 DEF Shape, Busy, CheckCommit, CommitMatches
  <2>8. AbandonedIsCancelled'
    BY <1>0, <1>14 DEF Shape, Told, AbandonedIsCancelled, CheckCommit, CommitMatches
  <2> QED BY <2>1, <2>4, <2>5, <2>6, <2>7, <2>8 DEF IInv
<1>15. CASE Cancel
  <2>1. UNCHANGED fileVars /\ FilesInv'
    BY <1>0, <1>15, FilesInvQuiet DEF Cancel, fileVars
  <2>2. UNCHANGED stage
    BY <2>1 DEF fileVars
  <2>3. Served(<<"cancel">>)
    BY <1>0, <1>15, Exchange DEF Cancel
  <2>4. Shape'
    BY <1>0, <1>15, <2>3 DEF Shape, Served, Cancel, UploadRecords
  <2>5. Sealed'
    BY <1>0, <1>15, <2>2, <2>3 DEF Shape, Sealed, Served, Cancel
  <2>6. Told'
    BY <1>0, <1>15, <2>3 DEF Shape, Told, Served, Cancel, UploadRecords
  <2>7. Busy'
    BY <1>0, <1>15 DEF Shape, Busy, Cancel, UploadRecords, ValidLimit
  <2>8. AbandonedIsCancelled'
    BY <1>0, <1>15 DEF Shape, Told, AbandonedIsCancelled, Cancel, UploadRecords
  <2> QED BY <2>1, <2>4, <2>5, <2>6, <2>7, <2>8 DEF IInv
<1>16. CASE Commit
  <2>1. UNCHANGED fileVars /\ FilesInv'
    BY <1>0, <1>16, FilesInvQuiet DEF Commit, fileVars
  <2>2. UNCHANGED stage
    BY <2>1 DEF fileVars
  <2>3. Served(<<"commit">>)
    BY <1>0, <1>16, Exchange DEF Commit
  <2>4. Shape'
    BY <1>0, <1>16, <2>3 DEF Shape, Served, Commit, UploadRecords
  <2>5. Sealed'
    BY <1>0, <1>16, <2>2, <2>3 DEF Shape, Sealed, Served, Commit
  <2>6. Told'
    BY <1>0, <1>16, <2>3 DEF Shape, Told, Served, Commit, UploadRecords, Refused
  <2>7. Busy'
    BY <1>0, <1>16 DEF Shape, Busy, Commit, UploadRecords, ValidLimit
  <2>8. AbandonedIsCancelled'
    BY <1>0, <1>16 DEF Shape, Told, AbandonedIsCancelled, Commit, UploadRecords
  <2> QED BY <2>1, <2>4, <2>5, <2>6, <2>7, <2>8 DEF IInv
<1>17. CASE Retry
  <2>1. UNCHANGED fileVars /\ FilesInv'
    BY <1>0, <1>17, FilesInvQuiet DEF Retry, fileVars
  <2>2. UNCHANGED stage
    BY <2>1 DEF fileVars
  <2>3. UNCHANGED requestVars /\ UNCHANGED <<service, late, faults>>
    BY <1>17 DEF Retry, requestVars
  <2>4. Shape'
    <3>1. /\ upload' \in UploadRecords
          /\ upload'.batch = {} /\ upload'.todo = {} /\ upload'.seen = {}
          /\ threads' \in [Objects -> [state : ThreadStates, tries : 0 .. AttemptCap]]
      BY <1>17, Fresh DEF Retry
    <3> QED BY <1>0, <1>17, <2>3, <3>1, Fresh DEF Shape, Retry
  <2>5. Sealed'
    BY <1>0, <1>17, <2>2, <2>3 DEF Shape, Sealed, requestVars, Retry
  <2>6. Told'
    BY <1>0, <1>17, <2>3 DEF Shape, Told, requestVars, Retry, NoUpload
  <2>7. Busy'
    BY <1>0, <1>17 DEF Shape, Busy, Retry, NoThread
  <2>8. AbandonedIsCancelled'
    BY <1>0, <1>17 DEF Shape, Told, AbandonedIsCancelled, Retry, NoUpload
  <2> QED BY <2>1, <2>4, <2>5, <2>6, <2>7, <2>8 DEF IInv
<1>18. CASE Expire
  <2>1. UNCHANGED fileVars /\ FilesInv'
    BY <1>0, <1>18, FilesInvQuiet DEF Expire, fileVars
  <2>2. UNCHANGED stage
    BY <2>1 DEF fileVars
  <2>3. UNCHANGED requestVars /\ UNCHANGED <<service, late, faults>>
    BY <1>18 DEF Expire, requestVars
  <2>4. Shape'
    BY <1>0, <1>18, <2>3 DEF Shape, requestVars, Expire
  <2>5. Sealed'
    BY <1>0, <1>18, <2>2, <2>3 DEF Shape, Sealed, requestVars, Expire
  <2>6. Told'
    BY <1>0, <1>18, <2>3 DEF Shape, Told, requestVars, Expire
  <2>7. Busy'
    BY <1>0, <1>18 DEF Shape, Busy, Expire
  <2>8. AbandonedIsCancelled'
    BY <1>0, <1>18 DEF Shape, Told, AbandonedIsCancelled, Expire
  <2> QED BY <2>1, <2>4, <2>5, <2>6, <2>7, <2>8 DEF IInv
<1>19. ASSUME NEW o \in Objects, ChangeSpool(o) PROVE IInv'
  <2>1. UNCHANGED fileVars /\ FilesInv'
    BY <1>0, <1>19, FilesInvQuiet DEF ChangeSpool, fileVars
  <2>2. UNCHANGED stage
    BY <2>1 DEF fileVars
  <2>3. Served(<<"start">>) /\ UNCHANGED <<service, late>>
    BY <1>0, <1>19, Exchange DEF ChangeSpool, Incomplete, Refused, requestVars
  <2>4. Shape'
    BY <1>0, <1>19, <2>3 DEF Shape, Served, ChangeSpool
  <2>5. Sealed'
    BY <1>0, <1>19, <2>2, <2>3 DEF Shape, Sealed, Served, ChangeSpool
  <2>6. Told'
    BY <1>0, <1>19, <2>3 DEF Shape, Told, Served, ChangeSpool
  <2>7. Busy'
    BY <1>0, <1>19 DEF Shape, Busy, ChangeSpool
  <2>8. AbandonedIsCancelled'
    BY <1>0, <1>19 DEF Shape, Told, AbandonedIsCancelled, ChangeSpool
  <2> QED BY <2>1, <2>4, <2>5, <2>6, <2>7, <2>8 DEF IInv
<1>20. ASSUME NEW o \in Objects, ChangeCipher(o) PROVE IInv'
  <2>1. UNCHANGED fileVars /\ FilesInv'
    BY <1>0, <1>20, FilesInvQuiet DEF ChangeCipher, fileVars
  <2>2. UNCHANGED stage
    BY <2>1 DEF fileVars
  <2>3. Served(<<"start">>) /\ UNCHANGED <<service, late>>
    BY <1>0, <1>20, Exchange DEF ChangeCipher, Incomplete, Refused, requestVars
  <2>4. Shape'
    BY <1>0, <1>20, <2>3 DEF Shape, Served, ChangeCipher
  <2>5. Sealed'
    BY <1>0, <1>20, <2>2, <2>3 DEF Shape, Sealed, Served, ChangeCipher
  <2>6. Told'
    BY <1>0, <1>20, <2>3 DEF Shape, Told, Served, ChangeCipher
  <2>7. Busy'
    BY <1>0, <1>20 DEF Shape, Busy, ChangeCipher
  <2>8. AbandonedIsCancelled'
    BY <1>0, <1>20 DEF Shape, Told, AbandonedIsCancelled, ChangeCipher
  <2> QED BY <2>1, <2>4, <2>5, <2>6, <2>7, <2>8 DEF IInv
<1>21. ASSUME NEW k \in Keys, ChangeKey(k) PROVE IInv'
  <2>1. UNCHANGED fileVars /\ FilesInv'
    BY <1>0, <1>21, FilesInvQuiet DEF ChangeKey, fileVars
  <2>2. UNCHANGED stage
    BY <2>1 DEF fileVars
  <2>3. /\ service' \in Services /\ late' \subseteq Requests /\ faults' \in 0 .. MaxFaults
        /\ UNCHANGED late /\ service'.state = service.state
    <3>1. service \in Services /\ faults \in 0 .. MaxFaults /\ late \subseteq Requests /\ changes \in Nat
      BY <1>0 DEF Shape, FilesShape
    <3>2. service' = [service EXCEPT !.key = k] /\ late' = late /\ Fault
      BY <1>21 DEF ChangeKey
    <3>3. service' \in Services /\ service'.state = service.state
      BY <3>1, <3>2 DEF Services
    <3>4. faults' \in 0 .. MaxFaults
      BY <3>1, <3>2 DEF Fault
    <3> QED BY <3>1, <3>2, <3>3, <3>4
  <2>4. Shape'
    BY <1>0, <1>21, <2>3 DEF Shape, FilesShape, ChangeKey
  <2>5. Sealed'
    BY <1>0, <1>21, <2>2, <2>3 DEF Shape, Sealed, FilesShape, ChangeKey
  <2>6. Told'
    BY <1>0, <1>21, <2>3 DEF Shape, Told, FilesShape, ChangeKey
  <2>7. Busy'
    BY <1>0, <1>21 DEF Shape, Busy, ChangeKey
  <2>8. AbandonedIsCancelled'
    BY <1>0, <1>21 DEF Shape, Told, AbandonedIsCancelled, ChangeKey
  <2> QED BY <2>1, <2>4, <2>5, <2>6, <2>7, <2>8 DEF IInv
<1>22. ASSUME NEW request \in late, LateArrives(request) PROVE IInv'
  <2>1. UNCHANGED fileVars /\ FilesInv'
    BY <1>0, <1>22, FilesInvQuiet DEF LateArrives, fileVars
  <2>2. UNCHANGED stage
    BY <2>1 DEF fileVars
  <2>3. Served(request) /\ late # {}
    BY <1>0, <1>22, ProcessFacts DEF Shape, Served, LateArrives
  <2>4. Shape'
    BY <1>0, <1>22, <2>3 DEF Shape, Served, LateArrives
  <2>5. Sealed'
    BY <1>0, <1>22, <2>2, <2>3 DEF Shape, Sealed, Served, LateArrives
  <2>6. Told'
    BY <1>0, <1>22, <2>3 DEF Shape, Told, Served, LateArrives
  <2>7. Busy'
    BY <1>0, <1>22 DEF Shape, Busy, LateArrives
  <2>8. AbandonedIsCancelled'
    BY <1>0, <1>22 DEF Shape, Told, AbandonedIsCancelled, LateArrives
  <2> QED BY <2>1, <2>4, <2>5, <2>6, <2>7, <2>8 DEF IInv
<1>23. CASE Start
  <2>1. UNCHANGED fileVars /\ FilesInv'
    BY <1>0, <1>23, FilesInvQuiet DEF Start, fileVars
  <2>2. UNCHANGED stage
    BY <2>1 DEF fileVars
  <2>3. Served(<<"start">>)
    <3>1. CASE Answered(<<"start">>) \/ Unanswered(<<"start">>)
      BY <1>0, <3>1, Exchange
    <3>2. CASE Fault /\ service' = Process(service, <<"start">>) /\ UNCHANGED late
      BY <1>0, <3>2, Exchange DEF Unanswered
    <3> QED BY <1>23, <3>1, <3>2 DEF Start
  <2>4. /\ UNCHANGED <<timed, expired, localVars, threads>>
        /\ phase = "ready" /\ uploads' = uploads + 1
        /\ \/ phase' = "page" /\ result' = result
           \/ phase' = "recommit" /\ result' = result /\ service'.state = "committed" /\ upload' = NoUpload
           \/ phase' = "done" /\ result' \in Errors /\ upload' = NoUpload
    BY <1>23 DEF Start
  <2>5. /\ upload' \in UploadRecords /\ upload'.todo = {} /\ upload'.batch = {} /\ upload'.seen = {}
        /\ upload'.answer = "none"
    <3>1. CASE upload' = NoUpload
      BY <3>1, Fresh DEF NoUpload
    <3>2. CASE upload' # NoUpload
      <4>1. PICK n \in AttemptLimits, p \in Pages(service', {}) :
              upload' = [NoUpload EXCEPT !.known = TRUE, !.page = p.page, !.more = p.more, !.limit = n]
        BY <1>23, <3>2 DEF Start
      <4>2. p.page \in SUBSET Objects /\ p.more \in BOOLEAN /\ n \in Nat
        BY PagesType
      <4> QED BY <4>1, <4>2, Fresh DEF NoUpload, UploadRecords
    <3> QED BY <3>1, <3>2
  <2>6. uploads \in Nat /\ uploads < MaxUploads
    BY <1>0, <2>4 DEF Shape, Sealed
  <2>7. Shape'
    BY <1>0, <2>3, <2>4, <2>5, <2>6, Fresh DEF Shape, Served
  <2>8. Sealed'
    BY <1>0, <2>2, <2>4, <2>6 DEF Shape, Sealed
  <2>9. Told'
    BY <1>0, <2>3, <2>4, <2>5, Fresh DEF Told, Served
  <2>10. Busy'
    BY <1>0, <2>4 DEF Busy
  <2>11. AbandonedIsCancelled'
    BY <2>4, Fresh DEF AbandonedIsCancelled
  <2> QED BY <2>1, <2>7, <2>8, <2>9, <2>10, <2>11 DEF IInv
<1>24. CASE NextPage
  <2>1. UNCHANGED fileVars /\ FilesInv'
    BY <1>0, <1>24, FilesInvQuiet DEF NextPage, fileVars
  <2>2. UNCHANGED stage
    BY <2>1 DEF fileVars
  <2>3. Served(<<"start">>) /\ UNCHANGED <<service, late>>
    BY <1>0, <1>24, Exchange DEF NextPage, Refused, requestVars
  <2>4. /\ UNCHANGED <<timed, expired, localVars, threads, uploads>>
        /\ phase = "batch" /\ upload.batch = {}
        /\ \/ phase' \in {"committing", "page"} /\ result' = result
           \/ phase' = "aborting" /\ result' \in Errors
    BY <1>24 DEF NextPage
  <2>5. /\ upload' \in UploadRecords /\ upload'.todo = upload.todo /\ upload'.batch = upload.batch
        /\ upload'.seen = upload.seen /\ upload'.answer = upload.answer /\ upload'.limit = upload.limit
    <3>1. upload \in UploadRecords
      BY <1>0 DEF Shape
    <3>2. \/ upload' = upload
          \/ \E p \in Pages(service, upload.seen) : upload' = [upload EXCEPT !.page = p.page, !.more = p.more]
          \/ upload' = [upload EXCEPT !.page = upload.seen]
      BY <1>24 DEF NextPage
    <3>3. \A p \in Pages(service, upload.seen) : p.page \in SUBSET Objects /\ p.more \in BOOLEAN
      BY PagesType
    <3> QED BY <3>1, <3>2, <3>3 DEF UploadRecords
  <2>7. Shape'
    BY <1>0, <2>3, <2>4, <2>5 DEF Shape, Served
  <2>8. Sealed'
    BY <1>0, <2>2, <2>3, <2>4 DEF Sealed
  <2>9. Told'
    BY <1>0, <2>3, <2>4, <2>5 DEF Told
  <2>10. Busy'
    BY <1>0, <2>4, <2>5 DEF Busy, ValidLimit
  <2>11. AbandonedIsCancelled'
    BY <2>4 DEF AbandonedIsCancelled
  <2> QED BY <2>1, <2>7, <2>8, <2>9, <2>10, <2>11 DEF IInv
<1>25. CASE (FilesStep \/ FilesChange) /\ UNCHANGED deliveryVars
  <2>1. FilesInv'
    BY <1>0, <1>25, FilesInvStep, FilesInvChange
  <2>2. UNCHANGED <<timed, expired, phase, result, spool, adopted, ciphers, sealed, grantKey, sealKey,
                    upload, threads, uploads, service, late, faults>>
    BY <1>25 DEF deliveryVars, requestVars
  <2>3. stage = "frozen" => stage' = "frozen"
    <3> SUFFICES ASSUME stage = "frozen" PROVE stage' = stage
      OBVIOUS
    <3>1. cap.step = "idle"
      BY <1>0 DEF FilesInv, CaptureOpen
    <3> QED BY <1>25, <3>1 DEF FilesStep, FilesChange, Tick, Rewrite, Replace, Changing, ReadMaps,
            RefuseMaps, Open, StatBefore, CheckOpened, Read, CheckAfter, BuildPackage, Reopen,
            CompareReads, ValidateSources, ValidateCopies, CaptureFails, Copying
  <2>4. Shape' /\ Told' /\ Busy' /\ AbandonedIsCancelled'
    BY <1>0, <2>2 DEF Shape, Told, Busy, AbandonedIsCancelled, ValidLimit
  <2>5. Sealed'
    BY <1>0, <2>2, <2>3 DEF Sealed
  <2> QED BY <2>1, <2>4, <2>5 DEF IInv
<1>26. CASE UNCHANGED vars
  <2>1. UNCHANGED fileVars /\ FilesInv'
    BY <1>0, <1>26, FilesInvQuiet DEF vars
  <2>2. UNCHANGED <<stage, timed, expired, phase, result, spool, adopted, ciphers, sealed, grantKey, sealKey,
                    upload, threads, uploads, service, late, faults>>
    BY <1>26 DEF vars, fileVars, deliveryVars, requestVars
  <2>3. Shape' /\ Told' /\ Busy' /\ AbandonedIsCancelled' /\ Sealed'
    BY <1>0, <2>2 DEF Shape, Told, Busy, AbandonedIsCancelled, Sealed, ValidLimit
  <2> QED BY <2>1, <2>3 DEF IInv
<1>27. CASE SpawnPanics
  <2>1. UNCHANGED fileVars /\ FilesInv'
    BY <1>0, <1>27, FilesInvQuiet DEF SpawnPanics, fileVars
  <2>2. UNCHANGED stage
    BY <2>1 DEF fileVars
  <2>3. Served(<<"start">>) /\ UNCHANGED <<service, late>>
    BY <1>0, <1>27, Exchange DEF SpawnPanics, Refused
  <2>9. PICK batch \in SUBSET Objects :
          /\ batch \subseteq upload.todo /\ Cardinality(batch) <= BatchSize
          /\ upload' = [upload EXCEPT !.batch = batch]
          /\ threads' = [o \in Objects |-> IF o \in batch THEN [NoThread EXCEPT !.state = "spawned"]
                                           ELSE threads[o]]
    <3>1. upload.todo \in SUBSET Objects
      BY <1>0 DEF Shape, UploadRecords
    <3>2. Cardinality(FirstOf(upload.todo, BatchSize)) \in Nat
          /\ Cardinality(FirstOf(upload.todo, BatchSize)) <= BatchSize
      BY <3>1, FirstOfSmall, ObjectsFinite, FS_Subset, FS_CardinalityType
    <3>3. PICK n \in 0 .. (Cardinality(FirstOf(upload.todo, BatchSize)) - 1) :
            /\ upload' = [upload EXCEPT !.batch = FirstOf(upload.todo, n)]
            /\ threads' = [o \in Objects |-> IF o \in FirstOf(upload.todo, n)
                                             THEN [NoThread EXCEPT !.state = "spawned"]
                                             ELSE threads[o]]
      BY <1>27 DEF SpawnPanics
    <3>4. n \in Nat /\ n <= BatchSize
      BY <3>2
    <3>5. FirstOf(upload.todo, n) \subseteq upload.todo /\ Cardinality(FirstOf(upload.todo, n)) <= n
      BY <3>1, <3>4, FirstOfSmall
    <3>6. Cardinality(FirstOf(upload.todo, n)) \in Nat
      BY <3>1, <3>5, ObjectsFinite, FS_Subset, FS_CardinalityType
    <3>7. Cardinality(FirstOf(upload.todo, n)) <= BatchSize
      BY <3>4, <3>5, <3>6
    <3> QED BY <3>1, <3>3, <3>5, <3>7
  <2>4. Shape'
    <3>1. /\ upload \in UploadRecords /\ upload.todo \subseteq upload.seen
          /\ threads \in [Objects -> [state : ThreadStates, tries : 0 .. AttemptCap]]
      BY <1>0 DEF Shape
    <3>2. /\ upload' \in UploadRecords
          /\ upload'.batch = batch /\ upload'.todo = upload.todo /\ upload'.seen = upload.seen
      BY <2>9, <3>1 DEF UploadRecords
    <3>3. [NoThread EXCEPT !.state = "spawned"] \in [state : ThreadStates, tries : 0 .. AttemptCap]
      BY DEF NoThread, ThreadStates
    <3>4. threads' \in [Objects -> [state : ThreadStates, tries : 0 .. AttemptCap]]
      BY <2>9, <3>1, <3>3
    <3>5. /\ UNCHANGED <<timed, expired, result, spool, adopted, ciphers, sealed, grantKey, sealKey,
                         uploads>>
          /\ phase' = "unwinding"
      BY <1>27 DEF SpawnPanics
    <3> QED BY <1>0, <2>3, <2>9, <3>1, <3>2, <3>4, <3>5 DEF Shape, Served
  <2>10. phase = "batch" /\ phase' = "unwinding" /\ UNCHANGED <<timed, expired, result, localVars, uploads>>
    BY <1>27 DEF SpawnPanics
  <2>5. Sealed'
    BY <1>0, <2>2, <2>3, <2>10 DEF Sealed
  <2>6. Told'
    BY <1>0, <2>3, <2>9, <2>10 DEF Shape, Told, UploadRecords
  <2>7. Busy'
    BY <1>0, <2>9, <2>10, <1>27 DEF Shape, Busy, SpawnPanics, NoThread, UploadRecords, ValidLimit
  <2>8. AbandonedIsCancelled'
    BY <2>10 DEF AbandonedIsCancelled
  <2> QED BY <2>1, <2>4, <2>5, <2>6, <2>7, <2>8 DEF IInv
<1>28. CASE Unwind
  <2>1. UNCHANGED fileVars /\ FilesInv'
    BY <1>0, <1>28, FilesInvQuiet DEF Unwind, fileVars
  <2>2. UNCHANGED stage
    BY <2>1 DEF fileVars
  <2>3. UNCHANGED requestVars /\ UNCHANGED <<service, late, faults>>
    BY <1>28 DEF Unwind, requestVars
  <2>4. Shape'
    BY <1>0, <1>28, <2>3 DEF Shape, Unwind
  <2>5. Sealed'
    BY <1>0, <1>28, <2>2, <2>3 DEF Shape, Sealed, Unwind
  <2>6. Told'
    BY <1>0, <1>28, <2>3 DEF Shape, Told, Unwind
  <2>7. Busy'
    BY <1>0, <1>28 DEF Shape, Busy, Unwind, BatchEnded
  <2>8. AbandonedIsCancelled'
    BY <1>28 DEF AbandonedIsCancelled, Unwind
  <2> QED BY <2>1, <2>4, <2>5, <2>6, <2>7, <2>8 DEF IInv
<1> QED
  BY <1>1, <1>2, <1>3, <1>4, <1>5, <1>6, <1>7, <1>8, <1>9, <1>10, <1>11, <1>12, <1>13,
     <1>14, <1>15, <1>16, <1>17, <1>18, <1>19, <1>20, <1>21, <1>22, <1>23, <1>24,
     <1>25, <1>26, <1>27, <1>28
     DEF Next, Deliver, Thread, Environment

(* IInv is an invariant of the specification. *)
LEMMA Invariant == Spec => []IInv
  BY InductiveInit, InductiveStep, PTL DEF Spec

-----------------------------------------------------------------------------
(* Type correctness: also that a batch never has more threads than its limit *)
(* and an object no more attempts than the client accepts                    *)
(* (upload_missing, upload_missing_object).                                  *)
THEOREM TypeCorrect == Spec => []TypeOK
<1>1. IInv => TypeOK
  <2> SUFFICES ASSUME IInv PROVE TypeOK
    OBVIOUS
  <2>1. FilesTypeOK
    <3>1. FilesInv /\ FilesShape /\ VersionsGrow /\ CaptureOpen /\ CopiesWhole
      BY DEF IInv, FilesInv
    <3>2. cap.file \in Files /\ cap.fd \in 1 .. Len(names[cap.file])
      BY <3>1 DEF FilesShape, Captures, CaptureOpen
    <3>3. ASSUME NEW f \in Files
          PROVE  /\ names[f] # <<>> /\ DOMAIN names[f] = 1 .. Len(names[f])
                 /\ \A k \in DOMAIN names[f] : names[f][k] \in [version : Nat, mtime : Nat]
      <4>1. /\ names[f] \in Seq(Versions) /\ Len(names[f]) >= 1
            /\ \A k \in 1 .. Len(names[f]) : names[f][k] \in Versions
        BY <3>1, EntryTypes DEF VersionsGrow
      <4>2. names[f] # <<>> /\ DOMAIN names[f] = 1 .. Len(names[f])
        BY <4>1
      <4> QED BY <4>1, <4>2 DEF Versions
    <3> QED BY <3>1, <3>2, <3>3 DEF FilesTypeOK, FilesShape, Captures, CopiesWhole
  <2>2. Shape
    BY DEF IInv
  <2>3. /\ upload.page \subseteq Objects /\ upload.todo \subseteq Objects
        /\ upload.pages \in 0 .. MaxPages
    BY <2>2 DEF Shape, UploadRecords
  <2>4. \A o \in Objects :
          /\ threads[o].state \in {"none", "spawned", "trying", "sending", "ok"} \cup Errors
          /\ threads[o].tries \in 0 .. AttemptCap
    BY <2>2 DEF Shape, ThreadStates
  <2>5. /\ service.state \in {"none", "open", "committed", "cancelled"}
        /\ service.stored \subseteq Objects /\ service.key \in Keys
    BY <2>2 DEF Shape, Services
  <2> QED BY <2>1, <2>2, <2>3, <2>4, <2>5 DEF TypeOK, Shape, Preparing, Uploading
<1> QED BY <1>1, Invariant, PTL

(* What the service commits was encrypted under the granted key from the     *)
(* bytes its descriptors name; each captured file is a content that file     *)
(* once had, except for the two cases CommittedIsIntact names; and World     *)
(* artifacts are those of the World, never adopted from a changed file,      *)
(* whatever happens to the files, the key or the requests (capture_file,     *)
(* freeze, push_capture_artifacts, encrypt_object,                           *)
(* apply_renewed_capture_grant).                                             *)
THEOREM CommittedIsIntactHolds == Spec => []CommittedIsIntact
<1>1. IInv => CommittedIsIntact
  <2> SUFFICES ASSUME IInv, service.state = "committed" PROVE CommittedIsIntact
    BY DEF CommittedIsIntact
  <2>1. sealed = Objects /\ grantKey = sealKey /\ stage = "frozen"
    BY DEF IInv, Sealed
  <2>2. /\ \A f \in Files \ racy : Whole(captured[f])
        /\ \A f \in WorldArtifacts : captured[f] = <<0, 0>>
    BY <2>1 DEF IInv, FilesInv, CopiesWhole, Files
  <2>3. adopted \cap WorldArtifacts = {}
    BY DEF IInv, Shape
  <2> QED BY <2>1, <2>2, <2>3 DEF CommittedIsIntact
<1> QED BY <1>1, Invariant, PTL

(* No upload thread outlives its batch: none is at work when the delivery    *)
(* commits, cancels or ends (thread::scope in upload_missing).               *)
THEOREM UploadsJoinedHolds == Spec => []UploadsJoined
<1>1. IInv => UploadsJoined
  BY DEF IInv, Busy, UploadsJoined
<1> QED BY <1>1, Invariant, PTL

(* A known upload that fails in time is cancelled (upload, cancel_upload).   *)
THEOREM AbandonedIsCancelledHolds == Spec => []AbandonedIsCancelled
<1>1. IInv => AbandonedIsCancelled
  BY DEF IInv
<1> QED BY <1>1, Invariant, PTL

-----------------------------------------------------------------------------
(***************************************************************************)
(* A delivery that nothing disturbs.                                       *)
(***************************************************************************)
(* No request, answer, file or key went wrong, and time is left. *)
Untroubled == faults = 0 /\ ~OutOfTime

(* What was captured, sealed and granted is still so; no step was an error. *)
Unharmed ==
  /\ spool = Objects /\ ciphers = Objects /\ late = {}
  /\ phase \notin {"recommit", "aborting", "unwinding"}
  /\ phase = "done" => result = "accepted"
  /\ phase \in {"granted", "sealing", "sealed"} => grantKey = service.key
  /\ phase = "sealed" => sealKey = service.key
  /\ phase = "ready" => service.state = "none"
  /\ phase = "committed" => upload.answer = "protected"

(* What was listed is stored or about to be, what is not listed yet is on    *)
(* pages to come, and every page but the last was full.                      *)
Listed ==
  /\ phase \in {"page", "batch", "committing"} => service.state = "open"
  /\ phase \in {"page", "batch"} => ValidLimit(upload.limit)
  /\ phase = "page" =>
       /\ upload.batch = {}
       /\ upload.page \cap upload.seen = {}
       /\ upload.seen \subseteq service.stored
       /\ upload.more => Cardinality(upload.page) = PageSize
       /\ ~upload.more => Objects \subseteq service.stored \cup upload.page
       /\ upload.pages * PageSize <= Cardinality(upload.seen)
  /\ phase = "batch" =>
       /\ upload.seen \subseteq service.stored \cup upload.todo \cup upload.batch
       /\ upload.more => upload.pages * PageSize <= Cardinality(upload.seen)
       /\ ~upload.more => Objects \subseteq service.stored \cup upload.todo \cup upload.batch
  /\ phase = "committing" => service.stored = Objects

(* A thread of the batch has its first try before it or has stored its object. *)
Progressing ==
  phase = "batch" =>
    \A o \in upload.batch :
      /\ threads[o].state \notin Errors
      /\ threads[o].state \in {"spawned", "trying"} => threads[o].tries = 0
      /\ threads[o].state = "ok" => o \in service.stored

Honest == Untroubled => Unharmed /\ Listed /\ Progressing

(* A delivery is troubled for good: faults are only added, time runs out once. *)
LEMMA StaysUntroubled ==
  ASSUME IInv, [Next]_vars, Untroubled'
  PROVE  Untroubled /\ ~Fault
<1> USE DEF Untroubled, OutOfTime
<1>1. faults \in Nat /\ timed \in BOOLEAN /\ expired \in BOOLEAN
  BY DEF IInv, Shape
<1>2. ~Fault
  BY <1>1 DEF Fault
<1> SUFFICES Untroubled
  BY <1>2
<1>3. ~Refused /\ \A request : ~Unanswered(request)
  BY <1>2 DEF Refused, Unanswered
<1>4. \A request : Answered(request) => UNCHANGED faults
  BY DEF Answered
<1>5. requestVars' = requestVars => faults' = faults
  BY DEF requestVars
<1>6. ASSUME NEW p \in {"queued", "prepared", "granted", "sealed", "ready", "recommit",
                        "committing", "committed"}, RunOut(p)
      PROVE  Untroubled
  BY <1>5, <1>6 DEF RunOut
<1>7. CASE Prepare \/ RequestGrant \/ SealVerify \/ Seal \/ Renew
  BY <1>3, <1>5, <1>7 DEF Prepare, RequestGrant, SealVerify, Seal, Renew, Incomplete, Adopt, FailsLocally
<1>8. CASE Start
  BY <1>2, <1>3, <1>4, <1>8 DEF Start
<1>9. CASE Recommit \/ Commit \/ CheckCommit \/ Cancel
  BY <1>3, <1>4, <1>5, <1>9 DEF Recommit, Commit, CheckCommit, Cancel
<1>10. CASE TakePage \/ NextPage \/ SpawnBatch \/ JoinBatch
  <2>1. UNCHANGED <<timed, expired, faults>>
    <3>1. CASE TakePage \/ SpawnBatch \/ JoinBatch
      BY <1>5, <3>1 DEF TakePage, SpawnBatch, JoinBatch
    <3>2. CASE NextPage
      BY <1>3, <1>5, <3>2 DEF NextPage
    <3> QED BY <1>10, <3>1, <3>2
  <2> QED BY <2>1
<1>11. ASSUME NEW o \in Objects, Thread(o) PROVE Untroubled
  BY <1>3, <1>4, <1>5, <1>11 DEF Thread, ThreadRead, ThreadSend, ThreadReturn
<1>12. CASE Retry
  BY <1>5, <1>12 DEF Retry
<1>13. CASE Environment
  BY <1>1, <1>2, <1>5, <1>13 DEF Environment, Expire, LateArrives, ChangeSpool, ChangeCipher, ChangeKey
<1>14. CASE UNCHANGED deliveryVars \/ UNCHANGED vars
  BY <1>5, <1>14 DEF vars, deliveryVars
<1>15. CASE SpawnPanics \/ Unwind
  BY <1>2, <1>5, <1>15 DEF SpawnPanics, Unwind
<1> QED
  BY <1>2, <1>6, <1>7, <1>8, <1>9, <1>10, <1>11, <1>12, <1>13, <1>14, <1>15 DEF Next, Deliver

(* An untroubled delivery begins unharmed. *)
LEMMA HonestInit == Init => Honest
<1> SUFFICES ASSUME Init PROVE Unharmed /\ Listed /\ Progressing
  BY DEF Honest
<1> QED BY DEF Init, Unharmed, Listed, Progressing

(* Every step that leaves a delivery untroubled keeps what was captured and  *)
(* sealed, and moves each missing object nearer to the service.              *)
LEMMA HonestStep == IInv /\ Honest /\ [Next]_vars => Honest'
<1> SUFFICES ASSUME IInv, Honest, [Next]_vars, Untroubled'
             PROVE  Unharmed' /\ Listed' /\ Progressing'
  BY DEF Honest
<1> USE DEF Continue, Finish, Abort, Errors, InTime, localVars, uploadVars
<1>1. /\ Untroubled /\ ~OutOfTime /\ Unharmed /\ Listed /\ Progressing
      /\ ~Fault /\ ~Refused /\ \A request : ~Unanswered(request)
  BY StaysUntroubled DEF Honest, Untroubled, Refused, Unanswered
<1>2. /\ Shape /\ Sealed /\ Told /\ Busy
      /\ upload \in UploadRecords /\ service \in Services
      /\ threads \in [Objects -> [state : ThreadStates, tries : 0 .. AttemptCap]]
  BY DEF IInv, Shape
<1>3. requestVars' = requestVars => UNCHANGED <<service, late, faults>>
  BY DEF requestVars
<1>4. ASSUME NEW p \in {"queued", "prepared", "granted", "sealed", "ready", "recommit",
                        "committing", "committed"}, RunOut(p)
      PROVE  FALSE
  BY <1>1, <1>4 DEF RunOut
<1>5. CASE Prepare \/ RequestGrant \/ SealVerify \/ Seal \/ Renew
  <2>1. /\ UNCHANGED <<service, late, ciphers, spool, upload, threads>>
        /\ phase' \in {"prepared", "granted", "sealing", "sealed", "ready"}
        /\ phase' \in {"granted", "sealing", "sealed"} => grantKey' = service.key
        /\ phase' = "sealed" => sealKey' = service.key
        /\ phase \in Preparing
    BY <1>1, <1>3, <1>5 DEF Prepare, RequestGrant, SealVerify, Seal, Renew, Incomplete,
       FailsLocally, LocalClosureIntact, EncryptedAsDescribed, RenewalMatches, Unharmed, Preparing
  <2>2. service.state = "none"
    BY <1>2, <2>1 DEF Sealed
  <2> QED BY <1>1, <2>1, <2>2 DEF Unharmed, Listed, Progressing
<1>6. CASE Start
  <2>1. service.state = "none" /\ spool = Objects /\ ciphers = Objects /\ late = {}
    BY <1>1, <1>6 DEF Start, Unharmed
  <2>2. Process(service, <<"start">>) = [service EXCEPT !.state = "open"]
    BY <2>1 DEF Process
  <2>3. /\ Process(service, <<"start">>).state = "open"
        /\ Process(service, <<"start">>).stored = service.stored
    BY <1>2, <2>2 DEF Services
  <2>4. PICK n \in AttemptLimits :
          /\ ValidLimit(n) /\ Answered(<<"start">>)
          /\ \E p \in Pages(service', {}) :
               upload' = [NoUpload EXCEPT !.known = TRUE, !.page = p.page,
                                          !.more = p.more, !.limit = n]
          /\ phase' = "page"
    BY <1>1, <1>6, <2>3 DEF Start, Answered
  <2>5. service' = Process(service, <<"start">>) /\ UNCHANGED late
    BY <2>4 DEF Answered
  <2>6. PICK p \in Pages(service', {}) :
          upload' = [NoUpload EXCEPT !.known = TRUE, !.page = p.page,
                                     !.more = p.more, !.limit = n]
    BY <2>4
  <2>7. /\ upload'.page = p.page /\ upload'.more = p.more /\ upload'.limit = n
        /\ upload'.seen = {} /\ upload'.pages = 0 /\ upload'.batch = {}
    BY <2>6 DEF NoUpload
  <2>8. /\ p.more => Cardinality(p.page) = PageSize
        /\ ~p.more => Objects \subseteq service'.stored \cup p.page
    BY PageFacts
  <2>9. upload'.page \cap upload'.seen = {} /\ upload'.seen \subseteq service'.stored
    BY <2>7
  <2>10. Cardinality({}) = 0 /\ 0 * PageSize = 0
    BY FS_EmptySet, DeliveryAssumption
  <2>11. Listed'
    <3>1. ValidLimit(upload.limit)'
      BY <2>4, <2>7 DEF ValidLimit
    <3>2. /\ phase' = "page" /\ service'.state = "open"
          /\ upload'.more => Cardinality(upload'.page) = PageSize
          /\ ~upload'.more => Objects \subseteq service'.stored \cup upload'.page
      BY <2>3, <2>4, <2>5, <2>7, <2>8
    <3>3. upload'.batch = {} /\ upload'.pages * PageSize <= Cardinality(upload'.seen)
      BY <2>7, <2>10
    <3> QED BY <2>9, <3>1, <3>2, <3>3 DEF Listed
  <2>12. UNCHANGED <<spool, ciphers>>
    BY <1>6 DEF Start
  <2> QED BY <2>1, <2>4, <2>5, <2>11, <2>12 DEF Unharmed, Progressing
<1>7. CASE Recommit \/ Cancel
  BY <1>1, <1>7 DEF Recommit, Cancel, Unharmed
<1>8. CASE TakePage
  <2>1. /\ upload.page \subseteq Objects /\ upload.seen \subseteq Objects
        /\ upload.pages \in Nat /\ PageSize \in Nat /\ upload.more \in BOOLEAN
    BY <1>2, DeliveryAssumption, MaxPagesType DEF UploadRecords
  <2>2. /\ service.state = "open" /\ ValidLimit(upload.limit)
        /\ upload.batch = {}
        /\ upload.page \cap upload.seen = {}
        /\ upload.seen \subseteq service.stored
        /\ upload.more => Cardinality(upload.page) = PageSize
        /\ ~upload.more => Objects \subseteq service.stored \cup upload.page
        /\ upload.pages * PageSize <= Cardinality(upload.seen)
    BY <1>1, <1>8 DEF TakePage, Listed
  <2>3. upload.pages # MaxPages
    <3>1. upload.pages < MaxPages
      BY <2>1, <2>2, FullPagesFit
    <3> QED BY <2>1, <3>1, MaxPagesType
  <2>4. /\ upload' = [upload EXCEPT !.todo = upload.page, !.page = {},
                                    !.seen = upload.seen \cup upload.page, !.pages = upload.pages + 1]
        /\ phase' = "batch"
    BY <1>1, <1>8, <2>2, <2>3 DEF TakePage, PageValid
  <2>5. /\ upload'.todo = upload.page /\ upload'.seen = upload.seen \cup upload.page
        /\ upload'.pages = upload.pages + 1 /\ upload'.more = upload.more
        /\ upload'.limit = upload.limit /\ upload'.batch = upload.batch
    BY <1>2, <2>4 DEF UploadRecords
  <2>6. UNCHANGED <<service, late, faults, spool, adopted, ciphers, threads>>
    BY <1>3, <1>8 DEF TakePage
  <2>7. upload.more => (upload.pages + 1) * PageSize <= Cardinality(upload.seen \cup upload.page)
    <3>1. IsFiniteSet(upload.seen) /\ IsFiniteSet(upload.page)
      BY <2>1, ObjectsFinite
    <3>2. Cardinality(upload.seen \cup upload.page) = Cardinality(upload.seen) + Cardinality(upload.page)
      <4>1. Cardinality(upload.seen \cap upload.page) = 0
        BY <2>2, FS_EmptySet
      <4>2. Cardinality(upload.seen \cup upload.page)
              = Cardinality(upload.seen) + Cardinality(upload.page)
                  - Cardinality(upload.seen \cap upload.page)
        BY <3>1, FS_Union
      <4> QED BY <3>1, <4>1, <4>2, FS_CardinalityType
    <3>3. Cardinality(upload.seen) \in Nat
      BY <3>1, FS_CardinalityType
    <3>4. /\ (upload.pages + 1) * PageSize = upload.pages * PageSize + PageSize
          /\ upload.pages * PageSize \in Nat
      BY <2>1
    <3> QED BY <2>1, <2>2, <3>2, <3>3, <3>4
  <2>8. Listed'
    BY <2>2, <2>4, <2>5, <2>6, <2>7 DEF Listed, ValidLimit
  <2>9. Progressing'
    BY <2>2, <2>5 DEF Progressing
  <2> QED BY <1>1, <2>4, <2>6, <2>8, <2>9 DEF Unharmed
<1>9. CASE NextPage
  <2>1. UNCHANGED <<service, late, faults, spool, adopted, ciphers, threads>>
    BY <1>1, <1>3, <1>9 DEF NextPage
  <2>2. /\ phase = "batch" /\ upload.batch = {} /\ upload.todo = {}
        /\ service.state = "open" /\ ValidLimit(upload.limit)
        /\ upload.seen \subseteq service.stored
        /\ upload.more => upload.pages * PageSize <= Cardinality(upload.seen)
        /\ ~upload.more => Objects \subseteq service.stored
    BY <1>1, <1>9 DEF NextPage, Listed
  <2>3. CASE ~upload.more
    <3>1. phase' = "committing" /\ UNCHANGED upload
      BY <1>9, <2>3 DEF NextPage
    <3>2. service.stored = Objects
      BY <1>2, <2>2, <2>3 DEF Services
    <3> QED BY <1>1, <2>1, <2>2, <3>1, <3>2 DEF Unharmed, Listed, Progressing
  <2>4. CASE upload.more
    <3>1. phase' = "page"
      BY <1>1, <1>9, <2>4 DEF NextPage
    <3>2. PICK p \in Pages(service, upload.seen) :
            upload' = [upload EXCEPT !.page = p.page, !.more = p.more]
      BY <1>1, <1>9, <2>4 DEF NextPage
    <3>3. /\ upload'.page = p.page /\ upload'.more = p.more /\ upload'.seen = upload.seen
          /\ upload'.pages = upload.pages /\ upload'.limit = upload.limit
          /\ upload'.batch = upload.batch
      BY <1>2, <3>2 DEF UploadRecords
    <3>4. /\ p.page \cap (service.stored \cup upload.seen) = {}
          /\ p.more => Cardinality(p.page) = PageSize
          /\ ~p.more => Objects \subseteq service.stored \cup upload.seen \cup p.page
      BY PageFacts
    <3>5. Listed'
      BY <2>1, <2>2, <2>4, <3>1, <3>3, <3>4 DEF Listed, ValidLimit
    <3> QED BY <1>1, <2>1, <3>1, <3>5 DEF Unharmed, Progressing
  <2> QED BY <2>3, <2>4
<1>10. CASE SpawnBatch
  <2>1. UNCHANGED <<service, late, faults, spool, adopted, ciphers, phase, result>> /\ phase = "batch"
    BY <1>3, <1>10 DEF SpawnBatch
  <2>2. PICK batch \in SUBSET upload.todo :
          /\ upload' = [upload EXCEPT !.batch = batch, !.todo = @ \ batch]
          /\ threads' = [o \in Objects |-> IF o \in batch THEN [NoThread EXCEPT !.state = "spawned"]
                                           ELSE threads[o]]
    <3>1. upload.todo \in SUBSET Objects
      BY <1>2 DEF UploadRecords
    <3> QED BY <1>10, <3>1, FirstOfSmall, DeliveryAssumption DEF SpawnBatch
  <2>3. upload.batch = {} /\ upload.todo \subseteq Objects
    BY <1>2, <1>10 DEF SpawnBatch, UploadRecords
  <2>4. /\ upload'.batch = batch /\ upload'.todo = upload.todo \ batch /\ upload'.seen = upload.seen
        /\ upload'.more = upload.more /\ upload'.pages = upload.pages /\ upload'.limit = upload.limit
    BY <1>2, <2>2 DEF UploadRecords
  <2>5. Listed'
    BY <1>1, <2>1, <2>2, <2>3, <2>4 DEF Listed, ValidLimit
  <2>6. \A o \in batch : threads'[o].state = "spawned" /\ threads'[o].tries = 0
    BY <2>2, <2>3 DEF NoThread
  <2>7. Progressing'
    BY <2>4, <2>6 DEF Progressing
  <2> QED BY <1>1, <2>1, <2>5, <2>7 DEF Unharmed
<1>11. CASE JoinBatch
  <2>1. /\ \A o \in upload.batch : threads[o].state \notin Errors
        /\ \A o \in upload.batch : threads[o].state = "ok" => o \in service.stored
    BY <1>1, <1>11 DEF JoinBatch, Progressing
  <2>2. /\ \A o \in upload.batch : threads[o].state = "ok"
        /\ upload' = [upload EXCEPT !.batch = {}]
        /\ UNCHANGED <<phase, result, service, late, faults, spool, ciphers>>
    BY <1>3, <1>11, <2>1 DEF JoinBatch
  <2>3. upload.batch \subseteq service.stored
    BY <2>1, <2>2
  <2>4. /\ upload'.batch = {} /\ upload'.todo = upload.todo /\ upload'.seen = upload.seen
        /\ upload'.more = upload.more /\ upload'.pages = upload.pages /\ upload'.limit = upload.limit
    BY <1>2, <2>2 DEF UploadRecords
  <2>5. phase = "batch"
    BY <1>11 DEF JoinBatch
  <2>6. Listed'
    BY <1>1, <2>2, <2>3, <2>4, <2>5 DEF Listed, ValidLimit
  <2>7. Progressing'
    BY <2>4 DEF Progressing
  <2> QED BY <1>1, <2>2, <2>5, <2>6, <2>7 DEF Unharmed
<1>12. ASSUME NEW o \in Objects, Thread(o) PROVE Unharmed' /\ Listed' /\ Progressing'
  <2>1. /\ UNCHANGED <<phase, result, spool, adopted, ciphers, upload, late, grantKey, sealKey>>
        /\ threads[o].state \in {"spawned", "trying", "sending"}
    BY <1>1, <1>3, <1>12 DEF Thread, ThreadRead, ThreadSend, ThreadReturn, Answered
  <2>2. phase = "batch" /\ o \in upload.batch
    BY <1>1, <1>2, <2>1 DEF Busy, Unharmed
  <2>3. /\ service.state = "open" /\ ValidLimit(upload.limit)
        /\ threads[o].state \in {"spawned", "trying"} => threads[o].tries = 0
    BY <1>1, <2>2 DEF Listed, Progressing
  <2>4. /\ threads[o] \in [state : ThreadStates, tries : 0 .. AttemptCap]
        /\ upload.limit \in Nat /\ upload.limit >= 1
    BY <1>2, <2>3 DEF ValidLimit, UploadRecords
  <2>5. /\ \A d \in Objects \ {o} : threads'[d] = threads[d]
        /\ \/ threads'[o].state = "trying" /\ threads'[o].tries = 0 /\ service' = service
           \/ threads'[o].state = "sending" /\ service' = service
           \/ threads'[o].state = "ok" /\ service' = Process(service, <<"put", o>>)
    <3>1. CASE ThreadRead(o)
      BY <1>1, <1>2, <1>3, <2>3, <2>4, <3>1 DEF ThreadRead, SetThread, Unharmed
    <3>2. CASE ThreadSend(o)
      <4>1. AttemptsLeft(o)
        BY <2>3, <2>4, <3>2 DEF ThreadSend, AttemptsLeft
      <4> QED BY <1>1, <1>2, <1>3, <3>2, <4>1 DEF ThreadSend
    <3>3. CASE ThreadReturn(o)
      BY <1>1, <1>2, <2>3, <3>3 DEF ThreadReturn, SetThread, Answered
    <3> QED BY <1>12, <3>1, <3>2, <3>3 DEF Thread
  <2>6. Process(service, <<"put", o>>) = [service EXCEPT !.stored = @ \cup {o}]
    BY <2>3 DEF Process
  <2>7. /\ service'.state = "open" /\ service'.key = service.key
        /\ service.stored \subseteq service'.stored
        /\ threads'[o].state = "ok" => o \in service'.stored
    BY <1>2, <2>3, <2>5, <2>6 DEF Services
  <2>8. Listed'
    BY <1>1, <2>1, <2>2, <2>7 DEF Listed, ValidLimit
  <2>9. Progressing'
    <3>1. upload.batch \subseteq Objects
      BY <1>2 DEF UploadRecords
    <3>2. ASSUME NEW d \in upload.batch
          PROVE  /\ threads'[d].state \notin Errors
                 /\ threads'[d].state \in {"spawned", "trying"} => threads'[d].tries = 0
                 /\ threads'[d].state = "ok" => d \in service'.stored
      <4>1. CASE d = o
        BY <2>5, <2>7, <4>1
      <4>2. CASE d # o
        BY <1>1, <2>2, <2>5, <2>7, <3>1, <4>2 DEF Progressing
      <4> QED BY <4>1, <4>2
    <3> QED BY <2>1, <3>2 DEF Progressing
  <2> QED BY <1>1, <2>1, <2>2, <2>8, <2>9 DEF Unharmed
<1>13. CASE Commit
  <2>1. service.state = "open" /\ service.stored = Objects
    BY <1>1, <1>13 DEF Commit, Listed
  <2>2. Process(service, <<"commit">>) = [service EXCEPT !.state = "committed"]
    BY <2>1 DEF Process
  <2>3. Process(service, <<"commit">>).state = "committed"
    BY <1>2, <2>2 DEF Services
  <2>4. /\ upload' = [upload EXCEPT !.answer = "protected"] /\ phase' = "committed"
        /\ UNCHANGED <<late, spool, ciphers>>
    BY <1>1, <1>13, <2>3 DEF Commit, Answered
  <2>5. upload'.answer = "protected"
    BY <1>2, <2>4 DEF UploadRecords
  <2> QED BY <1>1, <2>4, <2>5 DEF Unharmed, Listed, Progressing
<1>14. CASE CheckCommit
  BY <1>1, <1>3, <1>14 DEF CheckCommit, CommitMatches, Unharmed, Listed, Progressing
<1>15. CASE Retry
  BY <1>1, <1>15 DEF Retry, Unharmed
<1>16. CASE Environment
  <2>1. Expire
    BY <1>1, <1>16 DEF Environment, LateArrives, ChangeSpool, ChangeCipher, ChangeKey, Unharmed
  <2> QED BY <2>1 DEF Expire, Untroubled, OutOfTime
<1>17. CASE UNCHANGED deliveryVars \/ UNCHANGED vars
  <2>1. UNCHANGED <<phase, result, spool, adopted, ciphers, grantKey, sealKey, upload, threads, service, late>>
    BY <1>3, <1>17 DEF vars, deliveryVars
  <2> QED BY <1>1, <2>1 DEF Unharmed, Listed, Progressing, ValidLimit
<1>18. CASE SpawnPanics \/ Unwind
  BY <1>1, <1>18 DEF SpawnPanics, Unwind, Unharmed
<1> QED
  BY <1>4, <1>5, <1>6, <1>7, <1>8, <1>9, <1>10, <1>11, <1>12, <1>13, <1>14, <1>15, <1>16,
     <1>17, <1>18
     DEF Next, Deliver

(* Every failure has a cause outside the client: a delivery that nothing     *)
(* disturbs and that has time is accepted when it ends, however many pages,  *)
(* batches and attempts it takes (deliver_candidate, upload_missing).        *)
THEOREM FailureHasCauseHolds == Spec => []FailureHasCause
<1>1. Spec => []Honest
  BY HonestInit, HonestStep, Invariant, PTL DEF Spec
<1>2. Honest => FailureHasCause
  BY DEF Honest, Untroubled, Unharmed, FailureHasCause
<1> QED BY <1>1, <1>2, PTL

-----------------------------------------------------------------------------
(* What a step does to the commit and to the outcome. *)
Committed == service.state = "committed"

Decides ==
  \/ UNCHANGED <<phase, result>>
  \/ phase # "done" /\ phase' # "done"
  \/ /\ phase # "done" /\ phase' = "done"
     /\ Committed' <=> Committed
     /\ result' = "accepted" => Committed
  \/ /\ phase = "done" /\ phase' # "done" /\ result # "accepted"
     /\ Committed' <=> Committed

(* A committed candidate stays committed and a decision is made once. *)
LEMMA DurableStep == IInv /\ [Next]_vars => (Committed => Committed') /\ Decides
<1> SUFFICES ASSUME IInv, [Next]_vars PROVE (Committed => Committed') /\ Decides
  OBVIOUS
<1> USE DEF Committed, Continue, Finish, Abort, Preparing, Uploading, Errors, InTime
<1>0. /\ FilesShape /\ Shape /\ Told
      /\ <<"start">> \in Requests /\ <<"commit">> \in Requests /\ <<"cancel">> \in Requests
      /\ \A o \in Objects : <<"put", o>> \in Requests
  BY DEF IInv, FilesInv, Requests
<1>1. ASSUME NEW p \in {"queued", "prepared", "granted", "sealed", "ready", "recommit",
                        "committing", "committed"},
             RunOut(p)
      PROVE  (Committed => Committed') /\ Decides
  BY <1>1 DEF RunOut, requestVars, Decides
<1>2. CASE Prepare \/ RequestGrant \/ SealVerify \/ Seal \/ Renew
  BY <1>2 DEF Prepare, RequestGrant, SealVerify, Seal, Renew, Incomplete, Adopt, FailsLocally,
     LocalErrors, Refused, requestVars, Decides
<1>3. CASE Start
  <2>1. Served(<<"start">>)
    <3>1. CASE Answered(<<"start">>) \/ Unanswered(<<"start">>)
      BY <1>0, <3>1, Exchange
    <3>2. CASE Fault /\ service' = Process(service, <<"start">>) /\ UNCHANGED late
      BY <1>0, <3>2, Exchange DEF Unanswered
    <3> QED BY <1>3, <3>1, <3>2 DEF Start
  <2>2. <<"start">> # <<"commit">>
    OBVIOUS
  <2> QED BY <1>3, <2>1, <2>2 DEF Start, Served, Decides
<1>4. CASE Recommit
  <2>1. Served(<<"commit">>)
    BY <1>0, <1>4, Exchange DEF Recommit
  <2>2. Committed
    BY <1>0, <1>4 DEF Told, Recommit
  <2> QED BY <1>4, <2>1, <2>2 DEF Recommit, Served, Decides
<1>5. CASE TakePage \/ NextPage \/ SpawnBatch \/ JoinBatch
  BY <1>5 DEF TakePage, NextPage, SpawnBatch, JoinBatch, Refused, requestVars, Decides
<1>6. ASSUME NEW o \in Objects, Thread(o) PROVE (Committed => Committed') /\ Decides
  <2>1. Served(<<"put", o>>)
    BY <1>0, <1>6, Exchange DEF Thread, ThreadRead, ThreadSend, ThreadReturn
  <2> QED BY <1>6, <2>1 DEF Thread, ThreadRead, ThreadSend, ThreadReturn, Served, Decides
<1>7. CASE Commit
  <2>1. Served(<<"commit">>)
    BY <1>0, <1>7, Exchange DEF Commit
  <2> QED BY <1>7, <2>1 DEF Commit, Served, Decides
<1>8. CASE CheckCommit
  BY <1>0, <1>8 DEF CheckCommit, CommitMatches, Told, requestVars, Decides
<1>9. CASE Cancel
  <2>1. Served(<<"cancel">>)
    BY <1>0, <1>9, Exchange DEF Cancel
  <2>2. <<"cancel">> # <<"commit">>
    OBVIOUS
  <2>3. result' \in Errors
    BY <1>0, <1>9 DEF Cancel, Told
  <2> QED BY <1>9, <2>1, <2>2, <2>3 DEF Cancel, Served, Decides
<1>10. CASE Retry
  BY <1>10 DEF Retry, requestVars, Decides
<1>11. CASE Environment
  <2>1. CASE Expire
    BY <2>1 DEF Expire, requestVars, Decides
  <2>2. ASSUME NEW request \in late, LateArrives(request)
        PROVE  (Committed => Committed') /\ Decides
    <3>1. service \in Services /\ request \in Requests
      BY <1>0 DEF Shape
    <3>2. Committed => Committed'
      BY <2>2, <3>1, ProcessFacts DEF LateArrives
    <3> QED BY <2>2, <3>2 DEF LateArrives, Decides
  <2>3. ASSUME NEW o \in Objects, ChangeSpool(o) \/ ChangeCipher(o)
        PROVE  (Committed => Committed') /\ Decides
    BY <2>3 DEF ChangeSpool, ChangeCipher, Decides
  <2>4. ASSUME NEW k \in Keys, ChangeKey(k) PROVE (Committed => Committed') /\ Decides
    <3>1. service'.state = service.state
      BY <1>0, <2>4 DEF Shape, Services, ChangeKey
    <3> QED BY <2>4, <3>1 DEF ChangeKey, Decides
  <2> QED BY <1>11, <2>1, <2>2, <2>3, <2>4 DEF Environment
<1>12. CASE ((FilesStep \/ FilesChange) /\ UNCHANGED deliveryVars) \/ UNCHANGED vars
  <2>1. UNCHANGED <<phase, result, service>>
    BY <1>12 DEF vars, deliveryVars, requestVars
  <2> QED BY <2>1 DEF Decides
<1>13. CASE SpawnPanics \/ Unwind
  BY <1>13 DEF SpawnPanics, Unwind, requestVars, Decides
<1> QED
  BY <1>1, <1>2, <1>3, <1>4, <1>5, <1>6, <1>7, <1>8, <1>9, <1>10, <1>11, <1>12, <1>13
     DEF Next, Deliver

(* The delivery implements DurableDelivery: acceptance is reported only once *)
(* the service has committed, an outcome is decided once, a commit is never  *)
(* undone, and no step both commits and decides (deliver_candidate, upload). *)
THEOREM DeliveryImplementsDurable == Spec => ImplementsDurable
<1> DEFINE committed == service.state = "committed"
           outcome == IF phase # "done" THEN "none"
                      ELSE IF result = "accepted" THEN "accepted" ELSE "failed"
<1>1. Init => Durable!Init
  BY DEF Init, Durable!Init
<1>2. IInv /\ [Next]_vars => [Durable!Next]_<<committed, outcome>>
  <2> SUFFICES ASSUME IInv, [Next]_vars PROVE [Durable!Next]_<<committed, outcome>>
    OBVIOUS
  <2>1. (Committed => Committed') /\ Decides
    BY DurableStep
  <2>2. outcome' = outcome =>
          UNCHANGED <<committed, outcome>> \/ Durable!Commit
    <3>1. CASE Committed' <=> Committed
      BY <3>1 DEF Committed
    <3>2. CASE ~(Committed' <=> Committed)
      BY <2>1, <3>2 DEF Committed, Durable!Commit
    <3> QED BY <3>1, <3>2
  <2>3. CASE UNCHANGED <<phase, result>> \/ (phase # "done" /\ phase' # "done")
    <3>1. outcome' = outcome
      BY <2>3
    <3> QED BY <2>2, <3>1 DEF Durable!Next
  <2>4. CASE /\ phase # "done" /\ phase' = "done"
             /\ Committed' <=> Committed
             /\ result' = "accepted" => Committed
    <3>1. committed' = committed
      BY <2>4 DEF Committed
    <3> QED BY <2>4, <3>1 DEF Committed, Durable!Next, Durable!Accept, Durable!Fail
  <2>5. CASE /\ phase = "done" /\ phase' # "done" /\ result # "accepted"
             /\ Committed' <=> Committed
    <3>1. committed' = committed
      BY <2>5 DEF Committed
    <3> QED BY <2>5, <3>1 DEF Durable!Next, Durable!Retry
  <2> QED BY <2>1, <2>3, <2>4, <2>5 DEF Decides
<1> QED BY <1>1, <1>2, Invariant, PTL DEF Spec, ImplementsDurable, Durable!Spec
=============================================================================
