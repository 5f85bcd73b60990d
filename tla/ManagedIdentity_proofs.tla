------------------------ MODULE ManagedIdentity_proofs ------------------------
(***************************************************************************)
(* Proofs about ManagedIdentity, for any number of processes, keys, times  *)
(* and power losses, whether or not directories are flushed.               *)
(*                                                                         *)
(* The properties speak of the directory and of the service; what makes    *)
(* them inductive is what each process has learnt from the directory       *)
(* (Learnt), that the receipt is the last of the three entries (LogOrder), *)
(* so that no prefix of the log has it alone, and that whatever was        *)
(* registered since the last power loss is what the directory says now     *)
(* (RegisteredNow).                                                        *)
(***************************************************************************)
EXTENDS ManagedIdentity, SequenceTheorems, TLAPS

HasKey == {"deployment", "deploymentLink", "deploymentSync", "receipt", "register",
           "persist", "receiptLink", "receiptSync", "registered"}
HasTime == {"receipt", "register", "persist", "receiptLink", "receiptSync", "registered"}
HasAnswer == {"persist", "receiptLink", "receiptSync"}

(* What the directory says the workload is. *)
Identity == Request(Content("key"), Content("deployment"))

Signed == Exists("key") /\ Exists("deployment")

ContentTyped ==
  /\ Exists("key") => Content("key") \in Keys
  /\ Exists("deployment") => Content("deployment") \in Times

LogOrder ==
  \A i \in DOMAIN log : log[i].name = "receipt" =>
    \E j, k \in 1 .. (i - 1) : log[j].name = "key" /\ log[k].name = "deployment"

(* What process p can rely on at the point it has reached. *)
Knows(p) ==
  /\ pc[p] = "keyLink" => key[p] \in Keys
  /\ pc[p] = "keySync" => Exists("key")
  /\ pc[p] \in HasKey => Exists("key") /\ key[p] = Content("key")
  /\ pc[p] = "deploymentLink" => signedAt[p] \in Times
  /\ pc[p] = "deploymentSync" => Exists("deployment")
  /\ pc[p] \in HasTime => Exists("deployment") /\ signedAt[p] = Content("deployment")
  /\ pc[p] \in HasAnswer => \E r \in registered : r.request = Identity
  /\ pc[p] = "receiptSync" => Exists("receipt")

Learnt == \A p \in Processes : Knows(p)

RegisteredNow ==
  \A r \in registered :
    /\ r.after <= powerLosses
    /\ r.after = powerLosses => Signed /\ r.request = Identity

IInv ==
  /\ TypeOK
  /\ ContentTyped
  /\ LogOrder
  /\ Learnt
  /\ RegisteredNow
  /\ OneIdentity
  /\ ReceiptTruthful
  /\ NotLockedOut

-----------------------------------------------------------------------------
(***************************************************************************)
(* What an entry of the directory says.                                    *)
(***************************************************************************)
Entries == [name : Names, content : Keys \cup Times \cup Requests \cup {None}]

OneEntryPerName(l) == \A i, j \in DOMAIN l : l[i].name = l[j].name => i = j

(* An entry is found under its name when no other entry has that name. *)
LEMMA FoundByName ==
  ASSUME NEW l, OneEntryPerName(l), NEW i \in DOMAIN l, NEW n, l[i].name = n
  PROVE  l[CHOOSE j \in DOMAIN l : l[j].name = n].content = l[i].content
<1> DEFINE found == CHOOSE j \in DOMAIN l : l[j].name = n
<1>1. found \in DOMAIN l /\ l[found].name = n
  OBVIOUS
<1>2. found = i
  BY <1>1 DEF OneEntryPerName
<1> QED BY <1>2

(* hard_link adds an entry of that name unless there is one, and changes no  *)
(* other name: what existed keeps its content (atomic_create).               *)
LEMMA LinkedLog ==
  ASSUME log \in Seq(Entries), OneEntryPerName(log),
         NEW n \in Names, NEW c \in Keys \cup Times \cup Requests \cup {None},
         log' = Linked(n, c)
  PROVE  /\ log' \in Seq(Entries)
         /\ OneEntryPerName(log')
         /\ Len(log) <= Len(log')
         /\ \A i \in DOMAIN log : i \in DOMAIN log' /\ log'[i] = log[i]
         /\ \A i \in DOMAIN log' : i \in DOMAIN log \/ (log'[i].name = n /\ i = Len(log) + 1)
         /\ Exists(n)'
         /\ ~Exists(n) => Content(n)' = c
         /\ \A m : Exists(m) => Exists(m)' /\ Content(m)' = Content(m)
         /\ \A m : m # n /\ Exists(m)' => Exists(m)
<1>1. CASE Exists(n)
  <2>1. log' = log
    BY <1>1 DEF Linked
  <2>2. \A m : (Exists(m)' <=> Exists(m)) /\ Content(m)' = Content(m)
    BY <2>1 DEF Exists, Content
  <2> QED BY <1>1, <2>1, <2>2
<1>2. CASE ~Exists(n)
  <2> DEFINE e == [name |-> n, content |-> c]
  <2>1. e \in Entries
    BY DEF Entries
  <2>2. log' = Append(log, e)
    BY <1>2 DEF Linked
  <2>3. /\ log' \in Seq(Entries)
        /\ Len(log') = Len(log) + 1
        /\ \A i \in 1 .. Len(log) : log'[i] = log[i]
        /\ log'[Len(log) + 1] = e
    BY <2>1, <2>2
  <2>4. /\ DOMAIN log = 1 .. Len(log)
        /\ DOMAIN log' = 1 .. (Len(log) + 1)
        /\ Len(log) \in Nat
    BY <2>3
  <2>5. OneEntryPerName(log')
    BY <1>2, <2>3, <2>4 DEF OneEntryPerName, Exists
  <2>6. Exists(n)' /\ Content(n)' = c
    <3>1. Len(log) + 1 \in DOMAIN log' /\ log'[Len(log) + 1].name = n
      BY <2>3, <2>4
    <3> QED BY <3>1, <2>3, <2>5, FoundByName DEF Exists, Content
  <2>7. ASSUME NEW m, Exists(m) PROVE Exists(m)' /\ Content(m)' = Content(m)
    <3>1. PICK i \in DOMAIN log : log[i].name = m
      BY <2>7 DEF Exists
    <3>2. i \in DOMAIN log' /\ log'[i] = log[i]
      BY <2>3, <2>4
    <3>3. Content(m) = log[i].content
      BY <3>1, FoundByName DEF Content
    <3>4. Content(m)' = log'[i].content
      BY <3>1, <3>2, <2>5, FoundByName DEF Content
    <3> QED BY <3>1, <3>2, <3>3, <3>4 DEF Exists
  <2>8. ASSUME NEW m, m # n, Exists(m)' PROVE Exists(m)
    <3>1. PICK i \in DOMAIN log' : log'[i].name = m
      BY <2>8 DEF Exists
    <3> QED BY <3>1, <2>3, <2>4, <2>8 DEF Exists
  <2> QED BY <2>3, <2>4, <2>5, <2>6, <2>7, <2>8
<1> QED BY <1>1, <1>2

(* A power loss keeps a prefix of the entries, and each with its content. *)
LEMMA PrefixLog ==
  ASSUME log \in Seq(Entries), OneEntryPerName(log),
         NEW n \in 0 .. Len(log), log' = SubSeq(log, 1, n)
  PROVE  /\ log' \in Seq(Entries)
         /\ OneEntryPerName(log')
         /\ Len(log') = n
         /\ \A i \in DOMAIN log' : i \in DOMAIN log /\ log'[i] = log[i]
         /\ \A m : Exists(m)' => Exists(m) /\ Content(m)' = Content(m)
<1>1. /\ log' \in Seq(Entries)
      /\ Len(log') = n
      /\ \A i \in 1 .. n : log'[i] = log[i]
  BY SubSeqProperties
<1>2. DOMAIN log = 1 .. Len(log) /\ DOMAIN log' = 1 .. n /\ Len(log) \in Nat
  BY <1>1
<1>3. \A i \in DOMAIN log' : i \in DOMAIN log /\ log'[i] = log[i]
  BY <1>1, <1>2
<1>4. OneEntryPerName(log')
  BY <1>3 DEF OneEntryPerName
<1>5. ASSUME NEW m, Exists(m)' PROVE Exists(m) /\ Content(m)' = Content(m)
  <2>1. PICK i \in DOMAIN log' : log'[i].name = m
    BY <1>5 DEF Exists
  <2>2. i \in DOMAIN log /\ log[i].name = m /\ log'[i] = log[i]
    BY <1>3, <2>1
  <2>3. Content(m) = log[i].content
    BY <2>2, FoundByName DEF Content
  <2>4. Content(m)' = log'[i].content
    BY <2>1, <1>4, FoundByName DEF Content
  <2> QED BY <2>2, <2>3, <2>4 DEF Exists
<1> QED BY <1>1, <1>3, <1>4, <1>5

-----------------------------------------------------------------------------
(***************************************************************************)
(* The conjuncts of IInv that are about the directory and the service.     *)
(***************************************************************************)
OnDisk == ContentTyped /\ LogOrder /\ RegisteredNow /\ OneIdentity /\ ReceiptTruthful

(* No entry that exists disappears or changes. *)
Grows == \A m : Exists(m) => Exists(m)' /\ Content(m)' = Content(m)

(* A step that leaves the directory alone leaves what it says. *)
LEMMA SameLog ==
  ASSUME log' = log
  PROVE  /\ Grows
         /\ \A m : Exists(m)' <=> Exists(m)
         /\ OneEntryPerName(log)' <=> OneEntryPerName(log)
  BY DEF Grows, Exists, Content, OneEntryPerName

(* The log is a sequence of entries, with one entry for each name. *)
LEMMA TypeOfLog ==
  ASSUME TypeOK
  PROVE  log \in Seq(Entries) /\ OneEntryPerName(log)
  BY DEF TypeOK, Entries, OneEntryPerName

(* What is on disk stays true while the directory and the service do not change. *)
LEMMA OnDiskQuiet ==
  ASSUME IInv, UNCHANGED <<log, registered, powerLosses>>
  PROVE  OnDisk'
<1>1. \A m : (Exists(m)' <=> Exists(m)) /\ Content(m)' = Content(m)
  BY DEF Exists, Content
<1>2. LogOrder'
  BY DEF IInv, LogOrder
<1> QED
  BY <1>1, <1>2 DEF IInv, OnDisk, ContentTyped, RegisteredNow, OneIdentity, ReceiptTruthful,
     Signed, Identity, Request

(* What is on disk stays true when a process links a file it may link. *)
LEMMA OnDiskLinked ==
  ASSUME IInv, UNCHANGED <<registered, powerLosses>>,
         NEW n \in Names, NEW c \in Keys \cup Times \cup Requests \cup {None},
         log' = Linked(n, c),
         n = "key" => c \in Keys,
         n = "deployment" => c \in Times,
         n = "receipt" =>
           Signed /\ c = Identity /\ \E r \in registered : r.request = Identity
  PROVE  OnDisk' /\ Grows
<1>1. log \in Seq(Entries) /\ OneEntryPerName(log)
  BY TypeOfLog DEF IInv
<1>2. /\ \A i \in DOMAIN log : i \in DOMAIN log' /\ log'[i] = log[i]
      /\ \A i \in DOMAIN log' :
           i \in DOMAIN log \/ (log'[i].name = n /\ i = Len(log) + 1)
      /\ Exists(n)'
      /\ ~Exists(n) => Content(n)' = c
      /\ \A m : Exists(m) => Exists(m)' /\ Content(m)' = Content(m)
      /\ \A m : m # n /\ Exists(m)' => Exists(m)
  BY <1>1, LinkedLog
<1>3. Grows
  BY <1>2 DEF Grows
<1>4. ContentTyped'
  BY <1>2 DEF IInv, ContentTyped
<1>5. LogOrder'
  <2> SUFFICES ASSUME NEW i \in DOMAIN log', log'[i].name = "receipt"
               PROVE  \E j, k \in 1 .. (i - 1) : log'[j].name = "key" /\ log'[k].name = "deployment"
    BY DEF LogOrder
  <2>1. DOMAIN log = 1 .. Len(log) /\ Len(log) \in Nat
    BY <1>1
  <2>2. CASE i \in DOMAIN log
    <3>1. PICK j \in 1 .. (i - 1), k \in 1 .. (i - 1) :
            log[j].name = "key" /\ log[k].name = "deployment"
      BY <1>2, <2>2 DEF IInv, LogOrder
    <3> QED BY <1>2, <2>1, <2>2, <3>1
  <2>3. CASE i \notin DOMAIN log
    <3>1. i = Len(log) + 1 /\ n = "receipt"
      BY <1>2, <2>3
    <3>2. PICK j \in DOMAIN log, k \in DOMAIN log :
            log[j].name = "key" /\ log[k].name = "deployment"
      BY <3>1 DEF Signed, Exists
    <3> QED BY <1>2, <2>1, <3>1, <3>2
  <2> QED BY <2>2, <2>3
<1>6. RegisteredNow'
  BY <1>2 DEF IInv, RegisteredNow, Signed, Identity, Request
<1>7. ReceiptTruthful'
  BY <1>2 DEF IInv, ReceiptTruthful, Signed, Identity, Request
<1>8. OneIdentity'
  BY DEF IInv, OneIdentity
<1> QED BY <1>3, <1>4, <1>5, <1>6, <1>7, <1>8 DEF OnDisk

(* What the other processes know they still know when the directory grows    *)
(* and the service forgets nothing.                                          *)
LEMMA LearntKept ==
  ASSUME IInv, Grows, registered \subseteq registered',
         NEW p \in Processes,
         \A q \in Processes \ {p} :
           pc'[q] = pc[q] /\ key'[q] = key[q] /\ signedAt'[q] = signedAt[q],
         Knows(p)'
  PROVE  Learnt'
<1> SUFFICES ASSUME NEW q \in Processes, q # p PROVE Knows(q)'
  BY DEF Learnt
<1>1. Knows(q) /\ pc'[q] = pc[q] /\ key'[q] = key[q] /\ signedAt'[q] = signedAt[q]
  BY DEF IInv, Learnt
<1>2. pc[q] \in HasAnswer => Identity' = Identity
  BY <1>1 DEF Knows, HasAnswer, HasKey, HasTime, Grows, Identity, Request
<1> QED BY <1>1, <1>2 DEF Knows, Grows

-----------------------------------------------------------------------------
(* The directory is empty, nothing is registered and every process is off. *)
LEMMA InductiveInit == Init => IInv
<1> SUFFICES ASSUME Init PROVE IInv
  OBVIOUS
<1>1. DOMAIN log = {} /\ Len(log) = 0 /\ log \in Seq(Entries)
  BY DEF Init
<1>2. TypeOK
  <2>1. synced \in 0 .. Len(log) /\ powerLosses \in 0 .. MaxPowerLosses
    BY <1>1, IdentityAssumption DEF Init
  <2>2. pc \in [Processes -> Points]
    BY DEF Init, Points
  <2>3. mismatched \in BOOLEAN /\ registered \in SUBSET [request : Requests, after : 0 .. MaxPowerLosses]
    BY DEF Init
  <2> QED BY <1>1, <2>1, <2>2, <2>3 DEF Init, TypeOK, Entries
<1>3. \A m : ~Exists(m)
  BY <1>1 DEF Exists
<1> QED
  BY <1>1, <1>2, <1>3 DEF Init, IInv, ContentTyped, LogOrder, Learnt, Knows, RegisteredNow,
     OneIdentity, ReceiptTruthful, NotLockedOut, HasKey, HasTime, HasAnswer

(* Every step of every process, and a power loss at any moment, keeps IInv. *)
LEMMA InductiveStep == IInv /\ [Next]_vars => IInv'
<1> USE IdentityAssumption DEF GoTo, memory, disk, history, Names, Points
<1> SUFFICES ASSUME IInv, [Next]_vars PROVE IInv'
  OBVIOUS
<1>0. log \in Seq(Entries) /\ OneEntryPerName(log) /\ Len(log) \in Nat /\ TypeOK
  BY TypeOfLog DEF IInv
<1>1. ASSUME NEW p \in Processes, Start(p) PROVE IInv'
  <2>1. UNCHANGED <<log, registered, powerLosses>> /\ Grows
    BY <1>1, SameLog DEF Start
  <2>2. OnDisk' /\ NotLockedOut'
    BY <1>1, <2>1, OnDiskQuiet DEF IInv, Start, NotLockedOut
  <2>3. Knows(p) /\ ContentTyped
    BY DEF IInv, Learnt
  <2>4. TypeOK'
    BY <1>1, <2>3 DEF IInv, TypeOK, ContentTyped, Knows, Start
  <2>5. Knows(p)'
    BY <1>1, <2>1, <2>3 DEF IInv, TypeOK, Knows, HasKey, HasTime, HasAnswer, Grows, Start
  <2>6. Learnt'
    BY <1>1, <2>1, <2>5, LearntKept DEF IInv, TypeOK, Start
  <2> QED BY <2>2, <2>4, <2>6 DEF IInv, OnDisk
<1>2. ASSUME NEW p \in Processes, EnsureDirectory(p) PROVE IInv'
  <2>1. UNCHANGED <<log, registered, powerLosses>> /\ Grows
    BY <1>2, SameLog DEF EnsureDirectory
  <2>2. OnDisk' /\ NotLockedOut'
    BY <1>2, <2>1, OnDiskQuiet DEF IInv, EnsureDirectory, NotLockedOut
  <2>3. Knows(p) /\ ContentTyped
    BY DEF IInv, Learnt
  <2>4. TypeOK'
    BY <1>2, <2>3 DEF IInv, TypeOK, ContentTyped, Knows, EnsureDirectory
  <2>5. Knows(p)'
    BY <1>2, <2>1, <2>3 DEF IInv, TypeOK, Knows, HasKey, HasTime, HasAnswer, Grows, EnsureDirectory
  <2>6. Learnt'
    BY <1>2, <2>1, <2>5, LearntKept DEF IInv, TypeOK, EnsureDirectory
  <2> QED BY <2>2, <2>4, <2>6 DEF IInv, OnDisk
<1>3. ASSUME NEW p \in Processes, LoadKey(p) PROVE IInv'
  <2>1. UNCHANGED <<log, registered, powerLosses>> /\ Grows
    BY <1>3, SameLog DEF LoadKey
  <2>2. OnDisk' /\ NotLockedOut'
    BY <1>3, <2>1, OnDiskQuiet DEF IInv, LoadKey, NotLockedOut
  <2>3. Knows(p) /\ ContentTyped
    BY DEF IInv, Learnt
  <2>4. TypeOK'
    BY <1>3, <2>3 DEF IInv, TypeOK, ContentTyped, Knows, LoadKey
  <2>5. Knows(p)'
    BY <1>3, <2>1, <2>3 DEF IInv, TypeOK, Knows, HasKey, HasTime, HasAnswer, Grows, LoadKey
  <2>6. Learnt'
    BY <1>3, <2>1, <2>5, LearntKept DEF IInv, TypeOK, LoadKey
  <2> QED BY <2>2, <2>4, <2>6 DEF IInv, OnDisk
<1>4. ASSUME NEW p \in Processes, DrawKey(p) PROVE IInv'
  <2>1. UNCHANGED <<log, registered, powerLosses>> /\ Grows
    BY <1>4, SameLog DEF DrawKey
  <2>2. OnDisk' /\ NotLockedOut'
    BY <1>4, <2>1, OnDiskQuiet DEF IInv, DrawKey, NotLockedOut
  <2>3. Knows(p) /\ ContentTyped
    BY DEF IInv, Learnt
  <2>4. TypeOK'
    BY <1>4, <2>3 DEF IInv, TypeOK, ContentTyped, Knows, DrawKey
  <2>5. Knows(p)'
    BY <1>4, <2>1, <2>3 DEF IInv, TypeOK, Knows, HasKey, HasTime, HasAnswer, Grows, DrawKey
  <2>6. Learnt'
    BY <1>4, <2>1, <2>5, LearntKept DEF IInv, TypeOK, DrawKey
  <2> QED BY <2>2, <2>4, <2>6 DEF IInv, OnDisk
<1>5. ASSUME NEW p \in Processes, SyncKey(p) PROVE IInv'
  <2>1. UNCHANGED <<log, registered, powerLosses>> /\ Grows
    BY <1>5, SameLog DEF SyncKey
  <2>2. OnDisk' /\ NotLockedOut'
    BY <1>5, <2>1, OnDiskQuiet DEF IInv, SyncKey, NotLockedOut
  <2>3. Knows(p) /\ ContentTyped
    BY DEF IInv, Learnt
  <2>4. TypeOK'
    BY <1>5, <2>3 DEF IInv, TypeOK, ContentTyped, Knows, SyncKey, SyncDirectory, Adopted
  <2>5. Knows(p)'
    BY <1>5, <2>1, <2>3 DEF IInv, TypeOK, Knows, HasKey, HasTime, HasAnswer, Grows, SyncKey, SyncDirectory, Adopted
  <2>6. Learnt'
    BY <1>5, <2>1, <2>5, LearntKept DEF IInv, TypeOK, SyncKey
  <2> QED BY <2>2, <2>4, <2>6 DEF IInv, OnDisk
<1>6. ASSUME NEW p \in Processes, LoadDeployment(p) PROVE IInv'
  <2>1. UNCHANGED <<log, registered, powerLosses>> /\ Grows
    BY <1>6, SameLog DEF LoadDeployment
  <2>2. OnDisk' /\ NotLockedOut'
    BY <1>6, <2>1, OnDiskQuiet DEF IInv, LoadDeployment, NotLockedOut
  <2>3. Knows(p) /\ ContentTyped
    BY DEF IInv, Learnt
  <2>4. TypeOK'
    BY <1>6, <2>3 DEF IInv, TypeOK, ContentTyped, Knows, LoadDeployment
  <2>5. Knows(p)'
    BY <1>6, <2>1, <2>3 DEF IInv, TypeOK, Knows, HasKey, HasTime, HasAnswer, Grows, LoadDeployment
  <2>6. Learnt'
    BY <1>6, <2>1, <2>5, LearntKept DEF IInv, TypeOK, LoadDeployment
  <2> QED BY <2>2, <2>4, <2>6 DEF IInv, OnDisk
<1>7. ASSUME NEW p \in Processes, ProposeDeployment(p) PROVE IInv'
  <2>1. UNCHANGED <<log, registered, powerLosses>> /\ Grows
    BY <1>7, SameLog DEF ProposeDeployment
  <2>2. OnDisk' /\ NotLockedOut'
    BY <1>7, <2>1, OnDiskQuiet DEF IInv, ProposeDeployment, NotLockedOut
  <2>3. Knows(p) /\ ContentTyped
    BY DEF IInv, Learnt
  <2>4. TypeOK'
    BY <1>7, <2>3 DEF IInv, TypeOK, ContentTyped, Knows, ProposeDeployment
  <2>5. Knows(p)'
    BY <1>7, <2>1, <2>3 DEF IInv, TypeOK, Knows, HasKey, HasTime, HasAnswer, Grows, ProposeDeployment
  <2>6. Learnt'
    BY <1>7, <2>1, <2>5, LearntKept DEF IInv, TypeOK, ProposeDeployment
  <2> QED BY <2>2, <2>4, <2>6 DEF IInv, OnDisk
<1>8. ASSUME NEW p \in Processes, SyncDeployment(p) PROVE IInv'
  <2>1. UNCHANGED <<log, registered, powerLosses>> /\ Grows
    BY <1>8, SameLog DEF SyncDeployment
  <2>2. OnDisk' /\ NotLockedOut'
    BY <1>8, <2>1, OnDiskQuiet DEF IInv, SyncDeployment, NotLockedOut
  <2>3. Knows(p) /\ ContentTyped
    BY DEF IInv, Learnt
  <2>4. TypeOK'
    BY <1>8, <2>3 DEF IInv, TypeOK, ContentTyped, Knows, SyncDeployment, SyncDirectory, Adopted
  <2>5. Knows(p)'
    BY <1>8, <2>1, <2>3 DEF IInv, TypeOK, Knows, HasKey, HasTime, HasAnswer, Grows, SyncDeployment, SyncDirectory, Adopted
  <2>6. Learnt'
    BY <1>8, <2>1, <2>5, LearntKept DEF IInv, TypeOK, SyncDeployment
  <2> QED BY <2>2, <2>4, <2>6 DEF IInv, OnDisk
<1>9. ASSUME NEW p \in Processes, NoReceipt(p) PROVE IInv'
  <2>1. UNCHANGED <<log, registered, powerLosses>> /\ Grows
    BY <1>9, SameLog DEF NoReceipt
  <2>2. OnDisk' /\ NotLockedOut'
    BY <1>9, <2>1, OnDiskQuiet DEF IInv, NoReceipt, NotLockedOut
  <2>3. Knows(p) /\ ContentTyped
    BY DEF IInv, Learnt
  <2>4. TypeOK'
    BY <1>9, <2>3 DEF IInv, TypeOK, ContentTyped, Knows, NoReceipt
  <2>5. Knows(p)'
    BY <1>9, <2>1, <2>3 DEF IInv, TypeOK, Knows, HasKey, HasTime, HasAnswer, Grows, NoReceipt
  <2>6. Learnt'
    BY <1>9, <2>1, <2>5, LearntKept DEF IInv, TypeOK, NoReceipt
  <2> QED BY <2>2, <2>4, <2>6 DEF IInv, OnDisk
<1>10. ASSUME NEW p \in Processes, PersistNew(p) PROVE IInv'
  <2>1. UNCHANGED <<log, registered, powerLosses>> /\ Grows
    BY <1>10, SameLog DEF PersistNew
  <2>2. OnDisk' /\ NotLockedOut'
    BY <1>10, <2>1, OnDiskQuiet DEF IInv, PersistNew, NotLockedOut
  <2>3. Knows(p) /\ ContentTyped
    BY DEF IInv, Learnt
  <2>4. TypeOK'
    BY <1>10, <2>3 DEF IInv, TypeOK, ContentTyped, Knows, PersistNew
  <2>5. Knows(p)'
    BY <1>10, <2>1, <2>3 DEF IInv, TypeOK, Knows, HasKey, HasTime, HasAnswer, Grows, Identity, Request,
       PersistNew
  <2>6. Learnt'
    BY <1>10, <2>1, <2>5, LearntKept DEF IInv, TypeOK, PersistNew
  <2> QED BY <2>2, <2>4, <2>6 DEF IInv, OnDisk
<1>11. ASSUME NEW p \in Processes, Stop(p) PROVE IInv'
  <2>1. UNCHANGED <<log, registered, powerLosses>> /\ Grows
    BY <1>11, SameLog DEF Stop
  <2>2. OnDisk' /\ NotLockedOut'
    BY <1>11, <2>1, OnDiskQuiet DEF IInv, Stop, NotLockedOut
  <2>3. Knows(p) /\ ContentTyped
    BY DEF IInv, Learnt
  <2>4. TypeOK'
    BY <1>11, <2>3 DEF IInv, TypeOK, ContentTyped, Knows, Stop
  <2>5. Knows(p)'
    BY <1>11, <2>1, <2>3 DEF IInv, TypeOK, Knows, HasKey, HasTime, HasAnswer, Grows, Stop
  <2>6. Learnt'
    BY <1>11, <2>1, <2>5, LearntKept DEF IInv, TypeOK, Stop
  <2> QED BY <2>2, <2>4, <2>6 DEF IInv, OnDisk
<1>12. ASSUME NEW p \in Processes, LoadReceipt(p) PROVE IInv'
  <2>1. UNCHANGED <<log, registered, powerLosses>> /\ Grows
    BY <1>12, SameLog DEF LoadReceipt
  <2>2. OnDisk'
    BY <2>1, OnDiskQuiet DEF IInv
  <2>3. Knows(p) /\ ReceiptTruthful
    BY DEF IInv, Learnt
  <2>4. Content("receipt") = Mine(p)
    BY <1>12, <2>3 DEF LoadReceipt, Knows, HasKey, HasTime, ReceiptTruthful, Mine
  <2>5. pc' = [pc EXCEPT ![p] = "registered"] /\ ~mismatched'
    BY <1>12, <2>4 DEF IInv, NotLockedOut, LoadReceipt, CompareReceipt
  <2>9. mismatched' \in BOOLEAN
    BY <1>12, Zenon DEF LoadReceipt, CompareReceipt
  <2>6. TypeOK' /\ NotLockedOut'
    BY <1>12, <2>5, <2>9 DEF IInv, TypeOK, NotLockedOut, LoadReceipt
  <2>7. Knows(p)'
    BY <1>12, <2>1, <2>3, <2>5 DEF IInv, TypeOK, Knows, HasKey, HasTime, HasAnswer, Grows, LoadReceipt
  <2>8. Learnt'
    BY <1>12, <2>1, <2>5, <2>7, LearntKept DEF IInv, TypeOK, LoadReceipt
  <2> QED BY <2>2, <2>6, <2>8 DEF IInv, OnDisk
<1>13. ASSUME NEW p \in Processes, PersistKnown(p) PROVE IInv'
  <2>1. UNCHANGED <<log, registered, powerLosses>> /\ Grows
    BY <1>13, SameLog DEF PersistKnown
  <2>2. OnDisk'
    BY <2>1, OnDiskQuiet DEF IInv
  <2>3. Knows(p) /\ ReceiptTruthful
    BY DEF IInv, Learnt
  <2>4. Content("receipt") = Mine(p)
    BY <1>13, <2>3 DEF PersistKnown, Knows, HasKey, HasTime, ReceiptTruthful, Mine
  <2>5. pc' = [pc EXCEPT ![p] = "registered"] /\ ~mismatched'
    BY <1>13, <2>4 DEF IInv, NotLockedOut, PersistKnown, CompareReceipt
  <2>9. mismatched' \in BOOLEAN
    BY <1>13, Zenon DEF PersistKnown, CompareReceipt
  <2>6. TypeOK' /\ NotLockedOut'
    BY <1>13, <2>5, <2>9 DEF IInv, TypeOK, NotLockedOut, PersistKnown
  <2>7. Knows(p)'
    BY <1>13, <2>1, <2>3, <2>5 DEF IInv, TypeOK, Knows, HasKey, HasTime, HasAnswer, Grows, PersistKnown
  <2>8. Learnt'
    BY <1>13, <2>1, <2>5, <2>7, LearntKept DEF IInv, TypeOK, PersistKnown
  <2> QED BY <2>2, <2>6, <2>8 DEF IInv, OnDisk
<1>14. ASSUME NEW p \in Processes, SyncReceipt(p) PROVE IInv'
  <2>1. UNCHANGED <<log, registered, powerLosses>> /\ Grows
    BY <1>14, SameLog DEF SyncReceipt
  <2>2. OnDisk'
    BY <2>1, OnDiskQuiet DEF IInv
  <2>3. Knows(p) /\ ReceiptTruthful
    BY DEF IInv, Learnt
  <2>4. Content("receipt") = Mine(p)
    BY <1>14, <2>3 DEF SyncReceipt, Knows, HasKey, HasTime, ReceiptTruthful, Mine
  <2>5. pc' = [pc EXCEPT ![p] = "registered"] /\ ~mismatched'
    BY <1>14, <2>4 DEF IInv, NotLockedOut, SyncReceipt, CompareReceipt
  <2>9. mismatched' \in BOOLEAN
    BY <1>14, Zenon DEF SyncReceipt, CompareReceipt
  <2>6. TypeOK' /\ NotLockedOut'
    BY <1>14, <2>5, <2>9 DEF IInv, TypeOK, NotLockedOut, SyncReceipt, SyncDirectory
  <2>7. Knows(p)'
    BY <1>14, <2>1, <2>3, <2>5 DEF IInv, TypeOK, Knows, HasKey, HasTime, HasAnswer, Grows, SyncReceipt
  <2>8. Learnt'
    BY <1>14, <2>1, <2>5, <2>7, LearntKept DEF IInv, TypeOK, SyncReceipt
  <2> QED BY <2>2, <2>6, <2>8 DEF IInv, OnDisk
<1>15. ASSUME NEW p \in Processes, CreateDirectory(p) PROVE IInv'
  <2>1. Knows(p) /\ ContentTyped
    BY DEF IInv, Learnt
  <2>2. log' = Linked("directory", None) /\ UNCHANGED <<registered, powerLosses>>
    BY <1>15 DEF CreateDirectory
  <2>3. None \in Keys \cup Times \cup Requests \cup {None}
    BY <1>15, <2>1 DEF IInv, TypeOK, Knows, HasKey, HasTime, CreateDirectory
  <2>4. pc[p] = "mkdir"
    BY <1>15 DEF CreateDirectory
  <2>5. OnDisk' /\ Grows
    BY <2>2, <2>3, OnDiskLinked
  <2>6. /\ log' \in Seq(Entries) /\ OneEntryPerName(log')
        /\ Len(log) <= Len(log') /\ Len(log') \in Nat
        /\ Exists("directory")'
    BY <1>0, <2>2, <2>3, LinkedLog
  <2>7. TypeOK' /\ NotLockedOut'
    BY <1>15, <2>6 DEF IInv, TypeOK, NotLockedOut, Entries, OneEntryPerName, CreateDirectory
  <2>8. Knows(p)'
    BY <1>15, <2>1, <2>4, <2>5, <2>6 DEF IInv, TypeOK, Knows, HasKey, HasTime, HasAnswer, Grows,
       CreateDirectory, Identity, Request
  <2>9. Learnt'
    BY <1>15, <2>2, <2>5, <2>8, LearntKept DEF IInv, TypeOK, CreateDirectory
  <2> QED BY <2>5, <2>7, <2>9 DEF IInv, OnDisk
<1>16. ASSUME NEW p \in Processes, LinkKey(p) PROVE IInv'
  <2>1. Knows(p) /\ ContentTyped
    BY DEF IInv, Learnt
  <2>2. log' = Linked("key", key[p]) /\ UNCHANGED <<registered, powerLosses>>
    BY <1>16 DEF LinkKey
  <2>3. key[p] \in Keys \cup Times \cup Requests \cup {None}
    BY <1>16, <2>1 DEF IInv, TypeOK, Knows, HasKey, HasTime, LinkKey
  <2>4. key[p] \in Keys
    BY <1>16, <2>1 DEF Knows, LinkKey
  <2>5. OnDisk' /\ Grows
    BY <2>2, <2>3, <2>4, OnDiskLinked
  <2>6. /\ log' \in Seq(Entries) /\ OneEntryPerName(log')
        /\ Len(log) <= Len(log') /\ Len(log') \in Nat
        /\ Exists("key")'
    BY <1>0, <2>2, <2>3, LinkedLog
  <2>7. TypeOK' /\ NotLockedOut'
    BY <1>16, <2>6 DEF IInv, TypeOK, NotLockedOut, Entries, OneEntryPerName, LinkKey
  <2>8. Knows(p)'
    BY <1>16, <2>1, <2>4, <2>5, <2>6 DEF IInv, TypeOK, Knows, HasKey, HasTime, HasAnswer, Grows,
       LinkKey, Identity, Request
  <2>9. Learnt'
    BY <1>16, <2>2, <2>5, <2>8, LearntKept DEF IInv, TypeOK, LinkKey
  <2> QED BY <2>5, <2>7, <2>9 DEF IInv, OnDisk
<1>17. ASSUME NEW p \in Processes, LinkDeployment(p) PROVE IInv'
  <2>1. Knows(p) /\ ContentTyped
    BY DEF IInv, Learnt
  <2>2. log' = Linked("deployment", signedAt[p]) /\ UNCHANGED <<registered, powerLosses>>
    BY <1>17 DEF LinkDeployment
  <2>3. signedAt[p] \in Keys \cup Times \cup Requests \cup {None}
    BY <1>17, <2>1 DEF IInv, TypeOK, Knows, HasKey, HasTime, LinkDeployment
  <2>4. signedAt[p] \in Times
    BY <1>17, <2>1 DEF Knows, LinkDeployment
  <2>5. OnDisk' /\ Grows
    BY <2>2, <2>3, <2>4, OnDiskLinked
  <2>6. /\ log' \in Seq(Entries) /\ OneEntryPerName(log')
        /\ Len(log) <= Len(log') /\ Len(log') \in Nat
        /\ Exists("deployment")'
    BY <1>0, <2>2, <2>3, LinkedLog
  <2>7. TypeOK' /\ NotLockedOut'
    BY <1>17, <2>6 DEF IInv, TypeOK, NotLockedOut, Entries, OneEntryPerName, LinkDeployment
  <2>8. Knows(p)'
    BY <1>17, <2>1, <2>4, <2>5, <2>6 DEF IInv, TypeOK, Knows, HasKey, HasTime, HasAnswer, Grows,
       LinkDeployment, Identity, Request
  <2>9. Learnt'
    BY <1>17, <2>2, <2>5, <2>8, LearntKept DEF IInv, TypeOK, LinkDeployment
  <2> QED BY <2>5, <2>7, <2>9 DEF IInv, OnDisk
<1>18. ASSUME NEW p \in Processes, LinkReceipt(p) PROVE IInv'
  <2>1. Knows(p) /\ ContentTyped
    BY DEF IInv, Learnt
  <2>2. log' = Linked("receipt", Mine(p)) /\ UNCHANGED <<registered, powerLosses>>
    BY <1>18 DEF LinkReceipt
  <2>3. Mine(p) \in Keys \cup Times \cup Requests \cup {None}
    BY <1>18, <2>1 DEF IInv, TypeOK, Knows, HasKey, HasTime, LinkReceipt, Mine, Request, Requests, Identity, Signed, ContentTyped
  <2>4. Signed /\ Mine(p) = Identity /\ \E r \in registered : r.request = Identity
    BY <1>18, <2>1 DEF Knows, HasKey, HasTime, HasAnswer, Signed, Identity, Mine, LinkReceipt
  <2>5. OnDisk' /\ Grows
    BY <2>2, <2>3, <2>4, OnDiskLinked
  <2>6. /\ log' \in Seq(Entries) /\ OneEntryPerName(log')
        /\ Len(log) <= Len(log') /\ Len(log') \in Nat
        /\ Exists("receipt")'
    BY <1>0, <2>2, <2>3, LinkedLog
  <2>7. TypeOK' /\ NotLockedOut'
    BY <1>18, <2>6 DEF IInv, TypeOK, NotLockedOut, Entries, OneEntryPerName, LinkReceipt
  <2>8. Knows(p)'
    BY <1>18, <2>1, <2>4, <2>5, <2>6 DEF IInv, TypeOK, Knows, HasKey, HasTime, HasAnswer, Grows,
       LinkReceipt, Identity, Request
  <2>9. Learnt'
    BY <1>18, <2>2, <2>5, <2>8, LearntKept DEF IInv, TypeOK, LinkReceipt
  <2> QED BY <2>5, <2>7, <2>9 DEF IInv, OnDisk
<1>19. ASSUME NEW p \in Processes, Register(p) PROVE IInv'
  <2>1. UNCHANGED <<log, powerLosses, key, signedAt, mismatched>> /\ Grows /\ registered \subseteq registered'
    BY <1>19, SameLog DEF Register
  <2>2. Knows(p) /\ pc[p] = "register" /\ ContentTyped
    BY <1>19 DEF IInv, Learnt, Register
  <2>3. Signed /\ Request(key[p], signedAt[p]) = Identity /\ Identity \in Requests
    BY <2>2 DEF Knows, HasKey, HasTime, Signed, Identity, Request, Requests, ContentTyped
  <2>4. \A q \in registered' \ registered : q = [request |-> Identity, after |-> powerLosses]
    BY <1>19, <2>3 DEF Register, Accepted
  <2>5. \/ pc' = [pc EXCEPT ![p] = "off"]
        \/ /\ pc' = [pc EXCEPT ![p] = "persist"]
           /\ [request |-> Identity, after |-> powerLosses] \in registered'
    <3>1. PICK answer \in Answers :
            /\ pc' = [pc EXCEPT ![p] = answer[1]]
            /\ registered' = registered \cup {Accepted(key[p], signedAt[p]) : a \in answer[2]}
      BY <1>19 DEF Register
    <3>2. Accepted(key[p], signedAt[p]) = [request |-> Identity, after |-> powerLosses]
      BY <2>3 DEF Accepted
    <3>3. answer[1] = "off" \/ (answer[1] = "persist" /\ answer[2] = {"accepted"})
      BY DEF Answers
    <3> QED BY <3>1, <3>2, <3>3
  <2>6. \A m : (Exists(m)' <=> Exists(m)) /\ Content(m)' = Content(m)
    BY <2>1 DEF Exists, Content
  <2>7. TypeOK' /\ NotLockedOut'
    BY <1>19, <2>1, <2>3, <2>4, <2>5 DEF IInv, TypeOK, NotLockedOut, Register
  <2>8. RegisteredNow'
    BY <2>1, <2>3, <2>4, <2>6, <1>0 DEF IInv, TypeOK, RegisteredNow, Signed, Identity, Request
  <2>9. OneIdentity'
    BY <2>3, <2>4 DEF IInv, RegisteredNow, OneIdentity
  <2>10. ContentTyped' /\ LogOrder' /\ ReceiptTruthful'
    BY <2>1, <2>6 DEF IInv, ContentTyped, LogOrder, ReceiptTruthful, Request
  <2>11. Knows(p)'
    BY <2>1, <2>2, <2>5, <2>6 DEF IInv, TypeOK, Knows, HasKey, HasTime, HasAnswer, Identity, Request
  <2>12. Learnt'
    BY <2>1, <2>5, <2>11, LearntKept DEF IInv, TypeOK
  <2> QED BY <2>7, <2>8, <2>9, <2>10, <2>12 DEF IInv
<1>20. CASE PowerLoss
  <2>1. PICK k \in synced .. Len(log) : log' = SubSeq(log, 1, k) /\ synced' = k
    BY <1>20 DEF PowerLoss
  <2>2. k \in 0 .. Len(log)
    BY <1>0 DEF TypeOK
  <2>3. /\ log' \in Seq(Entries) /\ OneEntryPerName(log') /\ Len(log') = k
        /\ \A i \in DOMAIN log' : i \in DOMAIN log /\ log'[i] = log[i]
        /\ \A m : Exists(m)' => Exists(m) /\ Content(m)' = Content(m)
    BY <1>0, <2>1, <2>2, PrefixLog
  <2>4. TypeOK' /\ NotLockedOut'
    BY <1>20, <2>1, <2>2, <2>3 DEF IInv, TypeOK, NotLockedOut, Entries, OneEntryPerName, PowerLoss
  <2>5. ContentTyped'
    BY <2>3 DEF IInv, ContentTyped
  <2>6. LogOrder'
    <3> SUFFICES ASSUME NEW i \in DOMAIN log', log'[i].name = "receipt"
                 PROVE  \E j, l \in 1 .. (i - 1) : log'[j].name = "key" /\ log'[l].name = "deployment"
      BY DEF LogOrder
    <3>1. PICK j \in 1 .. (i - 1), l \in 1 .. (i - 1) :
            log[j].name = "key" /\ log[l].name = "deployment"
      BY <2>3 DEF IInv, LogOrder
    <3>2. DOMAIN log' = 1 .. k
      BY <2>3
    <3> QED BY <2>3, <3>1, <3>2, <2>2
  <2>7. Learnt'
    BY <1>20 DEF PowerLoss, Learnt, Knows, HasKey, HasTime, HasAnswer
  <2>8. RegisteredNow' /\ OneIdentity'
    BY <1>20, <1>0 DEF IInv, TypeOK, PowerLoss, RegisteredNow, OneIdentity
  <2>9. ReceiptTruthful'
    <3> SUFFICES ASSUME Exists("receipt")' PROVE ReceiptTruthful'
      BY DEF ReceiptTruthful
    <3>1. PICK i \in DOMAIN log' : log'[i].name = "receipt"
      BY DEF Exists
    <3>2. PICK j \in 1 .. (i - 1), l \in 1 .. (i - 1) :
            log'[j].name = "key" /\ log'[l].name = "deployment"
      BY <2>6, <3>1 DEF LogOrder
    <3>3. DOMAIN log' = 1 .. k
      BY <2>3
    <3>4. Exists("key")' /\ Exists("deployment")'
      BY <2>2, <3>1, <3>2, <3>3 DEF Exists
    <3> QED BY <1>20, <2>3, <3>4 DEF IInv, ReceiptTruthful, Request, PowerLoss
  <2> QED BY <2>4, <2>5, <2>6, <2>7, <2>8, <2>9 DEF IInv
<1>21. CASE UNCHANGED vars
  <2>1. UNCHANGED <<log, registered, powerLosses>>
    BY <1>21 DEF vars
  <2>2. OnDisk'
    BY <2>1, OnDiskQuiet
  <2>3. \A m : (Exists(m)' <=> Exists(m)) /\ Content(m)' = Content(m)
    BY <2>1 DEF Exists, Content
  <2>4. Learnt'
    BY <1>21, <2>3 DEF IInv, Learnt, Knows, Identity, Request, vars
  <2>5. TypeOK' /\ NotLockedOut'
    BY <1>21 DEF IInv, TypeOK, NotLockedOut, vars
  <2> QED BY <2>2, <2>4, <2>5 DEF IInv, OnDisk
<1> QED
  BY <1>1, <1>2, <1>3, <1>4, <1>5, <1>6, <1>7, <1>8, <1>9, <1>10, <1>11, <1>12, <1>13, <1>14, <1>15, <1>16, <1>17, <1>18, <1>19, <1>20, <1>21
     DEF Next, ProcessStep

(* IInv is an invariant of the specification. *)
LEMMA Invariant == Spec => []IInv
  BY InductiveInit, InductiveStep, PTL DEF Spec

-----------------------------------------------------------------------------
(* The directory never has two entries of one name, and every process stays  *)
(* within the steps of register_managed_workload.                            *)
THEOREM TypeCorrect == Spec => []TypeOK
<1>1. IInv => TypeOK
  BY DEF IInv
<1> QED BY <1>1, Invariant, PTL

(* Between two power losses, however many processes start, race and die, the *)
(* service is asked to register one key and one signing time                 *)
(* (load_or_create_key, load_or_create_deployment_signed_at).                *)
THEOREM OneIdentityHolds == Spec => []OneIdentity
<1>1. IInv => OneIdentity
  BY DEF IInv
<1> QED BY <1>1, Invariant, PTL

(* A receipt in the directory, before or after any number of power losses,   *)
(* is for the key and the signing time beside it, and the service accepted   *)
(* them (persist_registration_receipt).                                      *)
THEOREM ReceiptTruthfulHolds == Spec => []ReceiptTruthful
<1>1. IInv => ReceiptTruthful
  BY DEF IInv
<1> QED BY <1>1, Invariant, PTL

(* receipt_scope_mismatch never happens to a process that uses its own       *)
(* directory: no race and no power loss leaves a receipt that locks the      *)
(* workload out.                                                             *)
THEOREM NotLockedOutHolds == Spec => []NotLockedOut
<1>1. IInv => NotLockedOut
  BY DEF IInv
<1> QED BY <1>1, Invariant, PTL

(* Once the receipt is flushed, whatever is registered later, by a process   *)
(* that looked before it or after a power loss, is what the receipt says     *)
(* (register_workload_key after load_registration_receipt).                  *)
THEOREM DurableIdentityKeptHolds == Spec => DurableIdentityKept
<1> DEFINE Kept == DurableReceipt =>
             \A r \in registered' \ registered : r.request = Content("receipt")
<1>1. IInv /\ [Next]_vars => [Kept]_vars
  <2> SUFFICES ASSUME IInv, Next, DurableReceipt, NEW r \in registered' \ registered
               PROVE  r.request = Content("receipt")
    OBVIOUS
  <2>1. PICK p \in Processes : Register(p)
    BY DEF Next, ProcessStep, PowerLoss, history, Start, EnsureDirectory, CreateDirectory,
       LoadKey, DrawKey, LinkKey, SyncKey, LoadDeployment, ProposeDeployment,
       LinkDeployment, SyncDeployment, LoadReceipt, NoReceipt, PersistKnown, PersistNew,
       LinkReceipt, SyncReceipt, Stop
  <2>2. r.request = Request(key[p], signedAt[p])
    BY <2>1 DEF Register, Accepted
  <2>3. Request(key[p], signedAt[p]) = Identity
    BY <2>1 DEF IInv, Learnt, Knows, Register, HasKey, HasTime, Identity
  <2>4. Exists("receipt")
    BY DEF IInv, TypeOK, DurableReceipt, Exists
  <2> QED BY <2>2, <2>3, <2>4 DEF IInv, ReceiptTruthful, Identity
<1> QED BY <1>1, Invariant, PTL DEF Spec, DurableIdentityKept
=============================================================================
