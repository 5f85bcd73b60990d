--------------------------- MODULE ManagedIdentity ---------------------------
(***************************************************************************)
(* The persistent identity of a workload (managed_identity.rs and          *)
(* register_managed_workload of managed_sink.rs in reproit-sdk-rust).      *)
(*                                                                         *)
(* Processes of one deployment share a private directory with the workload *)
(* key, the time the deployment was signed and the receipt of its          *)
(* registration.  Nothing locks the directory: each file is written to a   *)
(* temporary name, flushed, hard-linked to its own name, and the directory *)
(* is flushed.  A process may die or meet an I/O error between any two     *)
(* steps, and the machine may lose power.                                  *)
(*                                                                         *)
(* The directory is the sequence of the entries made in it, the first for  *)
(* the directory itself; what is flushed is a prefix, and a power loss     *)
(* keeps at least that prefix, in the order of a journal.  An entry always *)
(* names a complete file, since its data is flushed before the link.       *)
(* The code flushes the directory of the files and none of its parents, so *)
(* that the directory itself is on disk once one of its files is flushed   *)
(* is the journal's doing: an assumption about the file system, which a    *)
(* file system without such an order need not meet.                        *)
(* Temporary files have random names and are never read.                   *)
(***************************************************************************)
EXTENDS Integers, Sequences

CONSTANTS
  Processes,
  Keys,            \* workload keys getrandom may return, each once
  Times,           \* readings of now() while the deployment is signed
  None,
  SyncsDirectory,  \* FALSE on Windows, where sync_directory does nothing
  MaxPowerLosses   \* bound, for TLC

ASSUME IdentityAssumption ==
  /\ SyncsDirectory \in BOOLEAN
  /\ MaxPowerLosses \in Nat
  /\ None \notin Keys \cup Times

VARIABLES
  log,         \* the entries of the directory, oldest first
  synced,      \* how many of them are on disk
  pc,          \* where a process is in register_managed_workload
  key,         \* the key a process uses
  signedAt,    \* the deployment.signed_at it uses
  drawn,       \* keys that were drawn
  powerLosses,
  registered,  \* history: what the service accepted, and between which losses
  mismatched   \* history: a process met a receipt of another deployment

vars == <<log, synced, pc, key, signedAt, drawn, powerLosses, registered, mismatched>>
memory == <<key, signedAt>>
disk == <<log, synced>>
history == <<registered, mismatched>>

Names == {"directory", "key", "deployment", "receipt"}
Points == {"off", "directory", "mkdir", "key", "keyLink", "keySync", "deployment",
           "deploymentLink", "deploymentSync", "receipt", "register", "persist",
           "receiptLink", "receiptSync", "registered"}

(* WorkloadKeyRegistration, as far as processes of one deployment differ. *)
Request(k, t) == [key |-> k, signedAt |-> t]
Accepted(k, t) == [request |-> Request(k, t), after |-> powerLosses]

Init ==
  /\ log = <<>>
  /\ synced = 0
  /\ pc = [p \in Processes |-> "off"]
  /\ key = [p \in Processes |-> None]
  /\ signedAt = [p \in Processes |-> None]
  /\ drawn = {}
  /\ powerLosses = 0
  /\ registered = {}
  /\ mismatched = FALSE

-----------------------------------------------------------------------------
(***************************************************************************)
(* Files.                                                                  *)
(***************************************************************************)
Exists(name) == \E i \in DOMAIN log : log[i].name = name

Content(name) == log[CHOOSE i \in DOMAIN log : log[i].name = name].content

(* Mutant: the temporary file is renamed onto a file that exists. *)
MutLinked(name, content) == Append(log, [name |-> name, content |-> content])

(* hard_link: an entry of that name stays as it is. *)
Linked(name, content) ==
  IF Exists(name) THEN log ELSE Append(log, [name |-> name, content |-> content])

(* sync_directory, of the directory of the files; what came before in the log *)
(* goes with it, its own entry in a parent included (see above).              *)
SyncDirectory == synced' = IF SyncsDirectory THEN Len(log) ELSE synced

GoTo(p, point) == pc' = [pc EXCEPT ![p] = point]

-----------------------------------------------------------------------------
(***************************************************************************)
(* from_state_root.  The directories of the path are one here.             *)
(***************************************************************************)
Start(p) ==
  /\ pc[p] = "off"
  /\ GoTo(p, "directory")
  /\ UNCHANGED <<disk, memory, drawn, powerLosses, history>>

EnsureDirectory(p) ==
  /\ pc[p] = "directory"
  /\ GoTo(p, IF Exists("directory") THEN "key" ELSE "mkdir")
  /\ UNCHANGED <<disk, memory, drawn, powerLosses, history>>

(* create_private_directory fails when another process was faster. *)
CreateDirectory(p) ==
  /\ pc[p] = "mkdir"
  /\ GoTo(p, IF Exists("directory") THEN "off" ELSE "key")
  /\ log' = Linked("directory", None)
  /\ UNCHANGED <<synced, memory, drawn, powerLosses, history>>

-----------------------------------------------------------------------------
(***************************************************************************)
(* load_or_create_key: look, draw a key, link it, flush, and use what the  *)
(* directory has.                                                          *)
(***************************************************************************)
LoadKey(p) ==
  /\ pc[p] = "key"
  /\ Exists("key")
  /\ key' = [key EXCEPT ![p] = Content("key")]
  /\ GoTo(p, "deployment")
  /\ UNCHANGED <<disk, signedAt, drawn, powerLosses, history>>

DrawKey(p) ==
  /\ pc[p] = "key"
  /\ ~Exists("key")
  /\ \E k \in Keys \ drawn :
       /\ key' = [key EXCEPT ![p] = k]
       /\ drawn' = drawn \cup {k}
  /\ GoTo(p, "keyLink")
  /\ UNCHANGED <<disk, signedAt, powerLosses, history>>

(* atomic_create; Created and AlreadyExists both go on to the flush. *)
LinkKey(p) ==
  /\ pc[p] = "keyLink"
  /\ log' = Linked("key", key[p])
  /\ GoTo(p, "keySync")
  /\ UNCHANGED <<synced, memory, drawn, powerLosses, history>>

(* Mutant: after AlreadyExists a process keeps what it proposed. *)
MutAdopted(name, proposed) == proposed

(* Created: what it proposed is in the file; AlreadyExists: it reads the file. *)
Adopted(name, proposed) == Content(name)

SyncKey(p) ==
  /\ pc[p] = "keySync"
  /\ SyncDirectory
  /\ key' = [key EXCEPT ![p] = Adopted("key", key[p])]
  /\ GoTo(p, "deployment")
  /\ UNCHANGED <<log, signedAt, drawn, powerLosses, history>>

-----------------------------------------------------------------------------
(***************************************************************************)
(* load_or_create_deployment_signed_at, in the same way.                   *)
(***************************************************************************)
LoadDeployment(p) ==
  /\ pc[p] = "deployment"
  /\ Exists("deployment")
  /\ signedAt' = [signedAt EXCEPT ![p] = Content("deployment")]
  /\ GoTo(p, "receipt")
  /\ UNCHANGED <<disk, key, drawn, powerLosses, history>>

ProposeDeployment(p) ==
  /\ pc[p] = "deployment"
  /\ ~Exists("deployment")
  /\ \E t \in Times : signedAt' = [signedAt EXCEPT ![p] = t]
  /\ GoTo(p, "deploymentLink")
  /\ UNCHANGED <<disk, key, drawn, powerLosses, history>>

LinkDeployment(p) ==
  /\ pc[p] = "deploymentLink"
  /\ log' = Linked("deployment", signedAt[p])
  /\ GoTo(p, "deploymentSync")
  /\ UNCHANGED <<synced, memory, drawn, powerLosses, history>>

SyncDeployment(p) ==
  /\ pc[p] = "deploymentSync"
  /\ SyncDirectory
  /\ signedAt' = [signedAt EXCEPT ![p] = Adopted("deployment", signedAt[p])]
  /\ GoTo(p, "receipt")
  /\ UNCHANGED <<log, key, drawn, powerLosses, history>>

-----------------------------------------------------------------------------
(***************************************************************************)
(* The registration and its receipt.                                       *)
(***************************************************************************)
Mine(p) == Request(key[p], signedAt[p])

(* A stored receipt is compared; one of another deployment is an error. *)
CompareReceipt(p) ==
  /\ GoTo(p, IF Content("receipt") = Mine(p) THEN "registered" ELSE "off")
  /\ mismatched' = (mismatched \/ Content("receipt") # Mine(p))

(* load_registration_receipt *)
LoadReceipt(p) ==
  /\ pc[p] = "receipt"
  /\ Exists("receipt")
  /\ CompareReceipt(p)
  /\ UNCHANGED <<disk, memory, drawn, powerLosses, registered>>

NoReceipt(p) ==
  /\ pc[p] = "receipt"
  /\ ~Exists("receipt")
  /\ GoTo(p, "register")
  /\ UNCHANGED <<disk, memory, drawn, powerLosses, history>>

(* Mutant: the receipt is stored whatever the service answers. *)
MutAnswers == {"persist", "off"} \X {{}, {"accepted"}}

(* register_workload_key: the service accepts; its answer arrives or is lost. *)
Answers == {<<"persist", {"accepted"}>>, <<"off", {"accepted"}>>, <<"off", {}>>}

Register(p) ==
  /\ pc[p] = "register"
  /\ \E answer \in Answers :
       /\ GoTo(p, answer[1])
       /\ registered' = registered \cup {Accepted(key[p], signedAt[p]) : a \in answer[2]}
  /\ UNCHANGED <<disk, memory, drawn, powerLosses, mismatched>>

(* persist_registration_receipt *)
PersistKnown(p) ==
  /\ pc[p] = "persist"
  /\ Exists("receipt")
  /\ CompareReceipt(p)
  /\ UNCHANGED <<disk, memory, drawn, powerLosses, registered>>

PersistNew(p) ==
  /\ pc[p] = "persist"
  /\ ~Exists("receipt")
  /\ GoTo(p, "receiptLink")
  /\ UNCHANGED <<disk, memory, drawn, powerLosses, history>>

LinkReceipt(p) ==
  /\ pc[p] = "receiptLink"
  /\ log' = Linked("receipt", Mine(p))
  /\ GoTo(p, "receiptSync")
  /\ UNCHANGED <<synced, memory, drawn, powerLosses, history>>

SyncReceipt(p) ==
  /\ pc[p] = "receiptSync"
  /\ SyncDirectory
  /\ CompareReceipt(p)
  /\ UNCHANGED <<log, memory, drawn, powerLosses, registered>>

-----------------------------------------------------------------------------
(* An I/O error, a refused token or the end of the process: what it linked   *)
(* stays, what it had in memory is gone.                                     *)
Stop(p) ==
  /\ pc[p] # "off"
  /\ GoTo(p, "off")
  /\ key' = [key EXCEPT ![p] = None]
  /\ signedAt' = [signedAt EXCEPT ![p] = None]
  /\ UNCHANGED <<disk, drawn, powerLosses, history>>

PowerLoss ==
  /\ powerLosses < MaxPowerLosses
  /\ powerLosses' = powerLosses + 1
  /\ \E n \in synced .. Len(log) :
       /\ log' = SubSeq(log, 1, n)
       /\ synced' = n
  /\ pc' = [p \in Processes |-> "off"]
  /\ key' = [p \in Processes |-> None]
  /\ signedAt' = [p \in Processes |-> None]
  /\ UNCHANGED <<drawn, history>>

ProcessStep(p) ==
  \/ Start(p) \/ EnsureDirectory(p) \/ CreateDirectory(p)
  \/ LoadKey(p) \/ DrawKey(p) \/ LinkKey(p) \/ SyncKey(p)
  \/ LoadDeployment(p) \/ ProposeDeployment(p) \/ LinkDeployment(p) \/ SyncDeployment(p)
  \/ LoadReceipt(p) \/ NoReceipt(p) \/ Register(p)
  \/ PersistKnown(p) \/ PersistNew(p) \/ LinkReceipt(p) \/ SyncReceipt(p)
  \/ Stop(p)

Next == PowerLoss \/ \E p \in Processes : ProcessStep(p)

Spec == Init /\ [][Next]_vars

-----------------------------------------------------------------------------
(***************************************************************************)
(* Properties.                                                             *)
(***************************************************************************)
Requests == [key : Keys, signedAt : Times]

(* The directory has each name once, and the rest stays in its type. *)
TypeOK ==
  /\ log \in Seq([name : Names, content : Keys \cup Times \cup Requests \cup {None}])
  /\ \A i, j \in DOMAIN log : log[i].name = log[j].name => i = j
  /\ synced \in 0 .. Len(log)
  /\ pc \in [Processes -> Points]
  /\ key \in [Processes -> Keys \cup {None}]
  /\ signedAt \in [Processes -> Times \cup {None}]
  /\ drawn \in SUBSET Keys
  /\ powerLosses \in 0 .. MaxPowerLosses
  /\ registered \in SUBSET [request : Requests, after : 0 .. MaxPowerLosses]
  /\ mismatched \in BOOLEAN

(* Processes that start together, die and start again register one and the   *)
(* same deployment under one key, as long as the machine keeps its power     *)
(* (atomic_create, load_or_create_key, load_or_create_deployment_signed_at). *)
OneIdentity ==
  \A r, q \in registered : r.after = q.after => r.request = q.request

(* A receipt names the key and the signing time in the directory, and the    *)
(* service has accepted them, also after a power loss                        *)
(* (register_managed_workload, persist_registration_receipt).                *)
ReceiptTruthful ==
  Exists("receipt") =>
    /\ Exists("key") /\ Exists("deployment")
    /\ Content("receipt") = Request(Content("key"), Content("deployment"))
    /\ \E r \in registered : r.request = Content("receipt")

DurableReceipt == \E i \in 1 .. synced : log[i].name = "receipt"

(* Once the receipt is on disk nothing else is ever registered: not by a     *)
(* process that looked before, nor after a power loss                        *)
(* (load_registration_receipt, sync_directory).                              *)
DurableIdentityKept ==
  [][DurableReceipt =>
       \A r \in registered' \ registered : r.request = Content("receipt")]_vars

(* No process finds a receipt of another deployment.  Nothing removes a      *)
(* receipt, so such a workload could never register again                    *)
(* (receipt_scope_mismatch).                                                 *)
NotLockedOut == ~mismatched
=============================================================================
