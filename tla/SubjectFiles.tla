------------------------------ MODULE SubjectFiles ------------------------------
(***************************************************************************)
(* How files of a running program are copied while the program, its        *)
(* installer or the host may change them.                                  *)
(*                                                                         *)
(* Two procedures of the Rust SDK make such copies.  capture_file          *)
(* (subject.rs) copies the executable and its loaded modules: it compares  *)
(* the metadata of the path with the opened file, copies, and compares the *)
(* metadata again.  freeze (managed.rs) copies the artifacts of an         *)
(* operation: it reads every artifact twice and compares the two digests.  *)
(*                                                                         *)
(* A path denotes a sequence of files, the last one now: a replacement     *)
(* (rename over the path) appends a file, a rewrite changes the last one   *)
(* in place.  Each file has the version of its content and the time of     *)
(* its last write.  A read happens in two halves, so a copy is a pair of   *)
(* versions: it is a content the file once had iff both are the same.      *)
(* A change keeps the length: one that does not is only easier to notice.  *)
(* A changed content is always a new one, so the model leaves out a file   *)
(* that is changed and changed back (see SameDigest).                      *)
(*                                                                         *)
(* FileSource is modelled as it is on Linux; on Windows the code compares  *)
(* the opened file with the path's in another way.                         *)
(***************************************************************************)
EXTENDS Naturals, Sequences, FiniteSets

CONSTANTS
  Modules,        \* the executable and the modules it has loaded
  Executable,     \* read through /proc/self/exe, never through its path
  Artifacts,      \* the files of the operation's dependencies and World
  WorldArtifacts, \* those whose digest the World checkpoint fixes
  MaxChanges,     \* bound: changes of the files while they are copied
  MaxClock        \* bound: ticks of the clock that stamps writes

ASSUME FilesAssumption ==
  /\ Executable \in Modules
  /\ Modules \cap Artifacts = {}
  /\ WorldArtifacts \subseteq Artifacts
  /\ MaxChanges \in Nat
  /\ MaxClock \in Nat \ {0}

Files == Modules \cup Artifacts

VARIABLES
  names,     \* what each path has denoted: a sequence of [version, mtime]
  clock,     \* the current tick
  changes,   \* how many changes there were; the next one makes this version
  stage,     \* one of Copying, then "frozen" or "failed"
  cap,       \* the capture under way
  captured,  \* path -> the copy in the spool, <<>> before it is made
  racy       \* files whose last write was in the tick in which they were opened

fileVars == <<names, clock, changes, stage, cap, captured, racy>>

Copying == {"maps", "modules", "closure", "artifacts"}

(* No capture under way. *)
Idle == [file |-> Executable, step |-> "idle", fd |-> 1, before |-> <<1, 0>>,
         first |-> <<>>, read |-> <<>>]

FilesInit ==
  /\ names = [f \in Files |-> <<[version |-> 0, mtime |-> 0]>>]
  /\ clock = 1
  /\ changes = 0
  /\ stage = "maps"
  /\ cap = Idle
  /\ captured = [f \in Files |-> <<>>]
  /\ racy = {}

-----------------------------------------------------------------------------
(* The environment.  Changes that nothing reads any more are left out.     *)

Changing(f) ==
  /\ stage \in Copying /\ captured[f] = <<>>
  /\ changes < MaxChanges
  /\ changes' = changes + 1
  /\ UNCHANGED <<clock, stage, cap, captured, racy>>

Current == [version |-> changes + 1, mtime |-> clock]

(* A running executable cannot be opened for writing. *)
Rewrite(f) ==
  /\ f # Executable
  /\ Changing(f)
  /\ names' = [names EXCEPT ![f][Len(names[f])] = Current]

Replace(f) ==
  /\ Changing(f)
  /\ names' = [names EXCEPT ![f] = Append(@, Current)]

(* Ticks before the first change make no difference: every file is older. *)
Tick ==
  /\ stage \in Copying
  /\ changes > 0 /\ clock < MaxClock
  /\ clock' = clock + 1
  /\ UNCHANGED <<names, changes, stage, cap, captured, racy>>

-----------------------------------------------------------------------------
(* Packaging the running program: package_native_subject, capture_file.    *)

GiveUp ==
  /\ stage' = "failed"
  /\ cap' = Idle
  /\ UNCHANGED <<names, clock, changes, captured, racy>>

(* loaded_linux_modules: a mapping of a module that is no longer what its path *)
(* denotes is shown as deleted, and the subject is refused.                    *)
Deleted(f) == f # Executable /\ Len(names[f]) > 1

ReadMaps ==
  /\ stage = "maps"
  /\ \A f \in Modules : ~Deleted(f)
  /\ stage' = "modules"
  /\ UNCHANGED <<names, clock, changes, cap, captured, racy>>

RefuseMaps ==
  /\ stage = "maps"
  /\ \E f \in Modules : Deleted(f)
  /\ GiveUp

(* The executable is captured first, then the modules one by one. *)
Due(f) ==
  /\ captured[f] = <<>>
  /\ \/ stage = "modules" /\ f \in Modules
        /\ (f = Executable \/ captured[Executable] # <<>>)
     \/ stage = "artifacts" /\ f \in Artifacts

Open(f) ==
  /\ cap.step = "idle"
  /\ Due(f)
  /\ cap' = [Idle EXCEPT !.file = f,
                         !.step = IF f \in Modules THEN "opened" ELSE "copy",
                         !.fd = IF f = Executable THEN 1 ELSE Len(names[f])]
  /\ UNCHANGED <<names, clock, changes, stage, captured, racy>>

OpenedFile == names[cap.file][cap.fd]

(* FileSource::metadata: of the opened file for the executable, of the path *)
(* for every other module.                                                 *)
Stat(f, fd) == LET k == IF f = Executable THEN fd ELSE Len(names[f])
               IN  <<k, names[f][k].mtime>>

(* same_file_version: device and inode, length and time of the last write. *)
SameFileVersion(before, after) == before = after

StatBefore ==
  /\ cap.step = "opened"
  /\ cap' = [cap EXCEPT !.step = "stat", !.before = Stat(cap.file, cap.fd)]
  /\ racy' = IF Stat(cap.file, cap.fd)[2] = clock THEN racy \cup {cap.file} ELSE racy
  /\ UNCHANGED <<names, clock, changes, stage, captured>>

CheckOpened ==
  /\ cap.step = "stat"
  /\ IF SameFileVersion(cap.before, <<cap.fd, OpenedFile.mtime>>)
     THEN /\ cap' = [cap EXCEPT !.step = "copy"]
          /\ UNCHANGED <<names, clock, changes, stage, captured, racy>>
     ELSE GiveUp

(* One half of a read; the opened file is read, whatever the path denotes. *)
Read ==
  /\ cap.step \in {"copy", "verify"}
  /\ Len(cap.read) < 2
  /\ cap' = [cap EXCEPT !.read = Append(@, OpenedFile.version)]
  /\ UNCHANGED <<names, clock, changes, stage, captured, racy>>

Capture(copy) ==
  /\ captured' = [captured EXCEPT ![cap.file] = copy]
  /\ cap' = Idle
  /\ UNCHANGED <<names, clock, changes, stage, racy>>

CheckAfter ==
  /\ cap.step = "copy" /\ cap.file \in Modules
  /\ Len(cap.read) = 2
  /\ IF SameFileVersion(cap.before, Stat(cap.file, cap.fd))
     THEN Capture(cap.read)
     ELSE GiveUp

(* build_package: the manifest names every captured file by its digest. *)
BuildPackage ==
  /\ stage = "modules"
  /\ \A f \in Modules : captured[f] # <<>>
  /\ stage' = "closure"
  /\ UNCHANGED <<names, clock, changes, cap, captured, racy>>

-----------------------------------------------------------------------------
(* Freezing the closure of an operation: freeze, capture_artifact.         *)

(* validate_static_artifact_set: the World checkpoint fixes the digest of its *)
(* artifacts, here the digest of version 0.                                  *)
ExpectedWorld(copies) == \A f \in WorldArtifacts : copies[f] = <<0, 0>>

(* The first check is of the sources, before any of them is copied. *)
ValidateSources ==
  /\ stage = "closure"
  /\ IF \A f \in WorldArtifacts : names[f][Len(names[f])].version = 0
     THEN /\ stage' = "artifacts"
          /\ UNCHANGED <<names, clock, changes, cap, captured, racy>>
     ELSE GiveUp

(* The second read opens the path again. *)
Reopen ==
  /\ cap.step = "copy" /\ cap.file \in Artifacts
  /\ Len(cap.read) = 2
  /\ cap' = [cap EXCEPT !.step = "verify", !.first = cap.read, !.read = <<>>,
                        !.fd = Len(names[cap.file])]
  /\ UNCHANGED <<names, clock, changes, stage, captured, racy>>

(* Equal digests are taken for the same version, since no content recurs.  If one  *)
(* did, two equal digests could be of copies torn alike around a change that was   *)
(* undone and made again between the two reads; capture_artifact cannot see that.  *)
SameDigest(first, second) == first = second

CompareReads ==
  /\ cap.step = "verify"
  /\ Len(cap.read) = 2
  /\ IF SameDigest(cap.first, cap.read)
     THEN Capture(cap.first)
     ELSE GiveUp

(* The last check is of the copies. *)
ValidateCopies ==
  /\ stage = "artifacts"
  /\ \A f \in Artifacts : captured[f] # <<>>
  /\ IF ExpectedWorld(captured)
     THEN /\ stage' = "frozen"
          /\ UNCHANGED <<names, clock, changes, cap, captured, racy>>
     ELSE GiveUp

(* A file that is missing, unreadable, empty or too large, a reservation that *)
(* is refused, a spool that cannot be written: the capture is given up.       *)
CaptureFails ==
  /\ stage \in Copying
  /\ GiveUp

-----------------------------------------------------------------------------
FilesChange == Tick \/ \E f \in Files : Rewrite(f) \/ Replace(f)

FilesStep ==
  \/ ReadMaps \/ RefuseMaps
  \/ \E f \in Files : Open(f)
  \/ StatBefore \/ CheckOpened \/ Read \/ CheckAfter \/ BuildPackage
  \/ Reopen \/ CompareReads \/ ValidateSources \/ ValidateCopies
  \/ CaptureFails

FilesTypeOK ==
  /\ DOMAIN names = Files
  /\ \A f \in Files : names[f] # <<>>
       /\ \A k \in DOMAIN names[f] : names[f][k] \in [version : Nat, mtime : Nat]
  /\ clock \in 1..MaxClock
  /\ changes \in 0..MaxChanges
  /\ stage \in Copying \cup {"frozen", "failed"}
  /\ cap.file \in Files /\ cap.fd \in DOMAIN names[cap.file]
  /\ cap.step \in {"idle", "opened", "stat", "copy", "verify"}
  /\ \A f \in Files : captured[f] # <<>> => Len(captured[f]) = 2
  /\ racy \subseteq Files

(* A copy is whole when both halves were read from the same version. *)
Whole(copy) == copy[1] = copy[2]
=============================================================================
