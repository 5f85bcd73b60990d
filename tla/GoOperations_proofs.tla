------------------------- MODULE GoOperations_proofs -------------------------
(***************************************************************************)
(* Proofs about GoOperations, for any goroutines, operations and limits.   *)
(*                                                                         *)
(* RegistryExact, ClosedMeansFinished and NoticedStaysLocal are not        *)
(* inductive.  What makes them so is what a goroutine in the middle of a   *)
(* call relies on (GoodPc): a Fail past its first line owns the            *)
(* operation's mutex, so nobody else finishes it; a running Close owns     *)
(* project.mu; and a hook still has to visit every open World it began     *)
(* with, unless it is marked already or a Close has taken it.              *)
(***************************************************************************)
EXTENDS GoOperations, SequenceTheorems, TLAPS

PcRecords ==
  [at : Points, op : Operations \cup {None}, rest : SUBSET Operations,
   found : SUBSET Operations, window : SUBSET Operations, inFail : Operations \cup {None}]

(* A Fail of g holds the operation and has completed its World. *)
Held(g, o) ==
  /\ o \in Operations /\ o \in Begun
  /\ operationMu[o] = g /\ ~finished[o] /\ worldComplete[o]

(* A goroutine at this point of a call is inside a Fail. *)
FailPc(q) == q.at \in {"failLock", "token", "failNative", "sinkWait"} \/ q.inFail # None

(* A hook has noticed, or will visit, every World that stays open. *)
Seen(q) ==
  q.at \in {"check", "envCheck", "read", "mark"} =>
    \A o \in q.window : o \in OpenWorlds => o \in q.rest \cup q.found \/ unowned[o] \/ closed

(* What goroutine g relies on at point q of its call. *)
GoodPc(g, q) ==
  /\ q.rest \subseteq Begun /\ q.found \subseteq Begun /\ q.window \subseteq Begun
  /\ q.at = "out" => q.op = None
  /\ q.at \in {"failLock", "open", "observe"} => q.op \in Begun
  /\ q.at \in {"token", "failNative"} => Held(g, q.op)
  /\ q.at = "sinkWait" => q.op \in Operations /\ operationMu[q.op] = g
  /\ q.inFail # None => Held(g, q.inFail)
  /\ q.at = "closing" => projectMu = g /\ closed /\ engineOpen
  /\ q.at = "read" => q.rest = {}
  /\ q.at = "mark" => q.found = {}
  /\ Seen(q)
  /\ HostQuiesces /\ closed /\ engineOpen => ~FailPc(q)

OnStack(o) == \E g \in Goroutines : \E i \in DOMAIN stack[g] : stack[g][i] = o

(* A running Close has taken the operation from the registry. *)
Taken(o) == \E g \in Goroutines : pc[g].at = "closing" /\ o \in pc[g].rest

GoodOperation(o) ==
  /\ o \in Begun <=> o <= started
  /\ o \in registered => o \in Begun /\ ~finished[o]
  /\ o \in Begun /\ ~finished[o] => fate[o] = "live" /\ (o \in registered \/ Taken(o))
  /\ OnStack(o) <=> GoroutineIds /\ o \in Begun /\ ~finished[o]
  /\ HostQuiesces /\ o \in noticed =>
       /\ o \in Begun /\ fate[o] # "sent"
       /\ finished[o] \/ (~worldComplete[o] /\ (unowned[o] \/ closed))

(* An operation is on a stack once. *)
Distinct(s) == \A i, j \in DOMAIN s : s[i] = s[j] => i = j

Closing ==
  /\ closed => registered = {}
  /\ ~engineOpen => closed
  /\ closed /\ engineOpen => \E g \in Goroutines : pc[g].at = "closing"

IInv ==
  /\ TypeOK
  /\ \A g \in Goroutines : GoodPc(g, pc[g])
  /\ \A o \in Operations : GoodOperation(o)
  /\ \A g \in Goroutines : Distinct(stack[g])
  /\ Closing
  /\ ClosedMeansFinished

-----------------------------------------------------------------------------
(***************************************************************************)
(* The stacks.                                                             *)
(***************************************************************************)
(* Stack w is stack s without operation o. *)
Removed(s, o, w) ==
  /\ w \in Seq(Operations)
  /\ Distinct(w)
  /\ \A p \in Operations : (\E i \in DOMAIN w : w[i] = p) <=>
                             (p # o /\ \E i \in DOMAIN s : s[i] = p)

(* Taking an operation out of a stack on which it stands once leaves the      *)
(* others, each still once.                                                   *)
LEMMA WithoutOperationFacts ==
  ASSUME NEW s \in Seq(Operations), Distinct(s), NEW o \in Operations
  PROVE  Removed(s, o, WithoutOperation(s, o))
<1> DEFINE w == WithoutOperation(s, o)
           places == {i \in DOMAIN s : s[i] = o}
<1>1. DOMAIN s = 1 .. Len(s) /\ Len(s) \in Nat
  OBVIOUS
<1>2. CASE places = {}
  <2>1. w = s
    BY <1>2 DEF WithoutOperation
  <2> QED BY <1>2, <2>1 DEF Removed
<1>3. CASE places # {}
  <2>1. PICK k \in DOMAIN s : s[k] = o
    BY <1>3
  <2>2. places = {k}
    BY <2>1 DEF Distinct
  <2>3. (CHOOSE i \in places : \A j \in places : j <= i) = k
    BY <1>1, <2>1, <2>2
  <2>4. w = SubSeq(s, 1, k - 1) \o SubSeq(s, k + 1, Len(s))
    BY <1>3, <2>3 DEF WithoutOperation
  <2> DEFINE a == SubSeq(s, 1, k - 1)
             b == SubSeq(s, k + 1, Len(s))
  <2>5. /\ a \in Seq(Operations) /\ Len(a) = k - 1
        /\ \A i \in 1 .. k - 1 : a[i] = s[i]
    BY <1>1, <2>1, SubSeqProperties
  <2>6. /\ b \in Seq(Operations) /\ Len(b) = Len(s) - k
        /\ \A i \in 1 .. Len(s) - k : b[i] = s[k + i]
    BY <1>1, <2>1, SubSeqProperties
  <2> HIDE DEF a, b
  <2>7. w = a \o b
    BY <2>4 DEF a, b
  <2> HIDE DEF w
  <2>8. w \in Seq(Operations) /\ Len(w) = Len(s) - 1 /\ DOMAIN w = 1 .. Len(s) - 1
    <3>1. w \in Seq(Operations) /\ Len(w) = Len(a) + Len(b)
      BY <2>5, <2>6, <2>7, ConcatProperties
    <3>2. Len(w) = Len(s) - 1
      BY <1>1, <2>1, <2>5, <2>6, <3>1
    <3> QED BY <3>1, <3>2
  <2>9. \A i \in 1 .. Len(s) - 1 : w[i] = IF i < k THEN s[i] ELSE s[i + 1]
    <3> SUFFICES ASSUME NEW i \in 1 .. Len(s) - 1 PROVE w[i] = IF i < k THEN s[i] ELSE s[i + 1]
      OBVIOUS
    <3>1. CASE i < k
      BY <1>1, <2>1, <2>5, <2>6, <2>7, <3>1
    <3>2. CASE ~(i < k)
      <4>1. w[i] = b[i - (k - 1)] /\ i - (k - 1) \in 1 .. Len(s) - k
        BY <1>1, <2>1, <2>5, <2>6, <2>7, <3>2
      <4> QED BY <1>1, <2>1, <2>6, <3>2, <4>1
    <3> QED BY <3>1, <3>2
  <2>10. Distinct(w)
    BY <1>1, <2>1, <2>8, <2>9 DEF Distinct
  <2>11. ASSUME NEW p \in Operations
         PROVE  (\E i \in DOMAIN w : w[i] = p) <=> (p # o /\ \E i \in DOMAIN s : s[i] = p)
    <3>1. ASSUME NEW i \in DOMAIN w, w[i] = p PROVE p # o /\ \E j \in DOMAIN s : s[j] = p
      <4>1. CASE i < k
        BY <1>1, <2>1, <2>2, <2>8, <2>9, <3>1, <4>1 DEF Distinct
      <4>2. CASE ~(i < k)
        <5>1. i + 1 \in DOMAIN s /\ s[i + 1] = p /\ i + 1 # k
          BY <1>1, <2>1, <2>8, <2>9, <3>1, <4>2
        <5> QED BY <2>1, <5>1 DEF Distinct
      <4> QED BY <4>1, <4>2
    <3>2. ASSUME p # o, NEW j \in DOMAIN s, s[j] = p PROVE \E i \in DOMAIN w : w[i] = p
      <4>1. CASE j < k
        BY <1>1, <2>1, <2>8, <2>9, <3>2, <4>1
      <4>2. CASE j > k
        <5>1. j - 1 \in DOMAIN w /\ w[j - 1] = p
          BY <1>1, <2>1, <2>8, <2>9, <3>2, <4>2
        <5> QED BY <5>1
      <4> QED BY <1>1, <2>1, <3>2, <4>1, <4>2
    <3> QED BY <3>1, <3>2
  <2> QED BY <2>8, <2>10, <2>11 DEF w, Removed
<1> QED BY <1>2, <1>3

(* Stack w is stack s with operation o. *)
Added(s, o, w) ==
  /\ w \in Seq(Operations)
  /\ Distinct(w)
  /\ \A p \in Operations : (\E i \in DOMAIN w : w[i] = p) <=>
                             (p = o \/ \E i \in DOMAIN s : s[i] = p)

(* Pushing an operation that is not on the stack yet. *)
LEMMA AppendFacts ==
  ASSUME NEW s \in Seq(Operations), Distinct(s), NEW o \in Operations,
         \A i \in DOMAIN s : s[i] # o
  PROVE  Added(s, o, Append(s, o))
<1> DEFINE w == Append(s, o)
           n == Len(s)
<1>1. /\ n \in Nat /\ DOMAIN s = 1 .. n /\ w \in Seq(Operations) /\ DOMAIN w = 1 .. n + 1
      /\ \A i \in 1 .. n : w[i] = s[i]
      /\ w[n + 1] = o
  OBVIOUS
<1> HIDE DEF w, n
<1>2. Distinct(w)
  BY <1>1 DEF Distinct
<1>3. ASSUME NEW p \in Operations
      PROVE  (\E i \in DOMAIN w : w[i] = p) <=> (p = o \/ \E i \in DOMAIN s : s[i] = p)
  <2>1. ASSUME NEW i \in DOMAIN w, w[i] = p PROVE p = o \/ \E j \in DOMAIN s : s[j] = p
    BY <1>1, <2>1
  <2>2. CASE p = o
    <3>1. n + 1 \in DOMAIN w /\ w[n + 1] = p
      BY <1>1, <2>2
    <3> QED BY <2>2, <3>1
  <2>3. ASSUME NEW i \in DOMAIN s, s[i] = p PROVE \E j \in DOMAIN w : w[j] = p
    BY <1>1, <2>3
  <2> QED BY <2>1, <2>2, <2>3
<1> QED BY <1>1, <1>2, <1>3 DEF w, Added

-----------------------------------------------------------------------------
(***************************************************************************)
(* The points of a call.                                                   *)
(***************************************************************************)
LEMMA PcRecord ==
  ASSUME NEW at \in Points, NEW op \in Operations \cup {None}, NEW rest \in SUBSET Operations,
         NEW found \in SUBSET Operations, NEW window \in SUBSET Operations,
         NEW inFail \in Operations \cup {None}
  PROVE  LET q == At(at, op, rest, found, window, inFail)
         IN  /\ q \in PcRecords
             /\ q.at = at /\ q.op = op /\ q.rest = rest /\ q.found = found
             /\ q.window = window /\ q.inFail = inFail
BY DEF At, PcRecords

(* The record of a goroutine outside the SDK. *)
LEMMA OutRecord ==
  /\ Out \in PcRecords
  /\ Out.at = "out" /\ Out.op = None /\ Out.rest = {} /\ Out.found = {}
  /\ Out.window = {} /\ Out.inFail = None
BY DEF Out, At, PcRecords, Points

(* Between calls a goroutine relies on nothing. *)
LEMMA GoodOut ==
  ASSUME NEW g \in Goroutines
  PROVE  GoodPc(g, Out)
BY OutRecord DEF GoodPc, Seen, FailPc

(* The absent operation is none of the operations. *)
LEMMA NoneIsNoOperation == None \notin Operations
BY GoAssumption DEF None, Operations

(* A hook returns to the application, or to the Fail whose token provider     *)
(* called it.                                                                 *)
LEMMA GoodReturned ==
  ASSUME TypeOK, NEW g \in Goroutines, GoodPc(g, pc[g])
  PROVE  /\ Returned(g) \in PcRecords /\ GoodPc(g, Returned(g))
         /\ Returned(g).at # "closing" /\ Returned(g).rest = {}
<1>1. CASE pc[g].inFail = None
  BY <1>1, GoodOut, OutRecord DEF Returned
<1>2. CASE pc[g].inFail # None
  <2>1. pc[g].inFail \in Operations /\ Held(g, pc[g].inFail)
    BY <1>2 DEF TypeOK, GoodPc
  <2>2. PICK q : q = At("token", pc[g].inFail, {}, {}, {}, None)
    OBVIOUS
  <2>3. /\ q \in PcRecords /\ q.at = "token" /\ q.op = pc[g].inFail /\ q.rest = {} /\ q.found = {}
        /\ q.window = {} /\ q.inFail = None
    BY <2>1, <2>2, PcRecord DEF Points
  <2>4. HostQuiesces /\ closed /\ engineOpen => FALSE
    BY <1>2 DEF GoodPc, FailPc
  <2>5. GoodPc(g, q)
    BY <2>1, <2>3, <2>4 DEF GoodPc, Seen
  <2> QED BY <1>2, <2>2, <2>3, <2>5 DEF Returned
<1> QED BY <1>1, <1>2

(* What a goroutine relies on at a point stays true while others act. *)
LEMMA GoodPcKept ==
  ASSUME NEW h \in Goroutines, NEW q \in PcRecords, GoodPc(h, q),
         \A o \in Begun : o \in Begun',
         \A o \in Operations : operationMu[o] = h =>
           /\ operationMu'[o] = h
           /\ o \in Begun => /\ finished'[o] = finished[o]
                             /\ worldComplete[o] => worldComplete'[o],
         \A o \in Begun : unowned[o] => unowned'[o],
         \A o \in Begun : o \in OpenWorlds' => o \in OpenWorlds,
         closed => closed',
         q.at = "closing" => projectMu' = h /\ engineOpen',
         HostQuiesces /\ closed' /\ engineOpen' => (closed /\ engineOpen) \/ ~FailPc(q)
  PROVE  GoodPc(h, q)'
<1>1. /\ (q.rest \subseteq Begun)' /\ (q.found \subseteq Begun)' /\ (q.window \subseteq Begun)'
      /\ q.at \in {"failLock", "open", "observe"} => (q.op \in Begun)'
  BY DEF GoodPc
<1>2. \A o : Held(h, o) => Held(h, o)'
  BY DEF Held
<1>3. Seen(q)'
  BY DEF GoodPc, Seen
<1>4. HostQuiesces /\ closed' /\ engineOpen' => ~FailPc(q)
  BY DEF GoodPc
<1>5. q.at = "sinkWait" => q.op \in Operations /\ operationMu'[q.op] = h
  BY DEF GoodPc
<1>6. q.at = "closing" => projectMu' = h /\ closed' /\ engineOpen'
  BY DEF GoodPc
<1> QED BY <1>1, <1>2, <1>3, <1>4, <1>5, <1>6 DEF GoodPc, FailPc

-----------------------------------------------------------------------------
(* IInv holds before any operation is started. *)
LEMMA InductiveInit == Init => IInv
<1> SUFFICES ASSUME Init PROVE IInv
  OBVIOUS
<1> USE DEF Init
<1>1. TypeOK
  <2>1. /\ closed \in BOOLEAN /\ engineOpen \in BOOLEAN
        /\ projectMu \in Goroutines \cup {NoGoroutine}
        /\ operationMu \in [Operations -> Goroutines \cup {NoGoroutine}]
    OBVIOUS
  <2>2. /\ stack \in [Goroutines -> Seq(Operations)]
        /\ finished \in [Operations -> BOOLEAN]
        /\ worldComplete \in [Operations -> BOOLEAN]
        /\ unowned \in [Operations -> BOOLEAN]
        /\ observing \in [Operations -> SUBSET Goroutines]
    OBVIOUS
  <2>3. /\ waiter \in [Operations -> WaiterStates]
        /\ fate \in [Operations -> Fates]
    BY DEF Fates, WaiterStates
  <2>4. pc \in [Goroutines -> PcRecords]
    BY OutRecord
  <2>5. started \in 0 .. MaxStarts
    BY GoAssumption
  <2> QED BY <2>1, <2>2, <2>3, <2>4, <2>5 DEF TypeOK, PcRecords
<1>2. Begun = {}
  BY DEF Begun
<1>3. \A g \in Goroutines : GoodPc(g, pc[g])
  BY GoodOut
<1>4. \A o \in Operations : GoodOperation(o)
  BY <1>2, GoAssumption DEF GoodOperation, OnStack, Operations
<1>5. \A g \in Goroutines : Distinct(stack[g])
  BY DEF Distinct
<1>6. Closing /\ ClosedMeansFinished
  BY DEF Closing, ClosedMeansFinished
<1> QED BY <1>1, <1>3, <1>4, <1>5, <1>6 DEF IInv

-----------------------------------------------------------------------------
(***************************************************************************)
(* Steps of one goroutine.                                                 *)
(***************************************************************************)
(* A step that finishes no operation and moves one goroutine, which is not    *)
(* closing the project.                                                       *)
LEMMA MoveStep ==
  ASSUME IInv, TypeOK', NEW g \in Goroutines, NEW q \in PcRecords,
         pc' = [pc EXCEPT ![g] = q], GoodPc(g, q)',
         pc[g].at # "closing", q.at # "closing",
         UNCHANGED <<closed, engineOpen, projectMu, started, registryVars, finished, fate>>,
         \A o \in Operations : operationMu'[o] = operationMu[o] \/ operationMu[o] \in {g, NoGoroutine},
         \A o \in Operations : worldComplete[o] => worldComplete'[o],
         \A o \in Operations : unowned[o] => unowned'[o],
         HostQuiesces => \A o \in noticed' :
           \/ o \in noticed /\ worldComplete'[o] = worldComplete[o]
           \/ o \in Begun /\ fate[o] # "sent" /\ ~worldComplete'[o] /\ (unowned'[o] \/ closed)
  PROVE  IInv'
<1> USE DEF registryVars
<1>1. TypeOK /\ \A h \in Goroutines : pc'[h] = IF h = g THEN q ELSE pc[h]
  BY DEF IInv, TypeOK
<1>2. Begun' = Begun
  BY DEF Begun
<1>3. \A o \in OpenWorlds' : o \in OpenWorlds
  BY <1>2 DEF OpenWorlds, Begun
<1>4. ASSUME NEW h \in Goroutines PROVE GoodPc(h, pc[h])'
  <2>1. CASE h = g
    BY <1>1, <2>1 DEF GoodPc, Seen, FailPc, Held
  <2>2. CASE h # g
    <3>1. PICK r \in PcRecords : r = pc[h] /\ GoodPc(h, r)
      BY <1>1 DEF IInv, TypeOK, PcRecords
    <3>2. pc'[h] = r
      BY <1>1, <2>2, <3>1
    <3>3. \A o \in Operations : operationMu[o] = h => operationMu'[o] = h
      BY <2>2, GoAssumption
    <3>4. \A o \in Begun : o \in Operations
      BY DEF Begun
    <3>5. r.at = "closing" => projectMu' = h /\ engineOpen'
      BY <3>1 DEF GoodPc
    <3>6. GoodPc(h, r)'
      BY <1>2, <1>3, <3>1, <3>3, <3>4, <3>5, GoodPcKept
    <3> QED BY <3>2, <3>6 DEF GoodPc, Seen, FailPc, Held
  <2> QED BY <2>1, <2>2
<1>5. \A o \in Operations : (OnStack(o)' <=> OnStack(o)) /\ (Taken(o)' <=> Taken(o))
  BY <1>1 DEF OnStack, Taken
<1>6. ASSUME NEW o \in Operations PROVE GoodOperation(o)'
  <2>1. GoodOperation(o)
    BY DEF IInv
  <2>2. HostQuiesces /\ o \in noticed' =>
          /\ o \in Begun /\ fate'[o] # "sent"
          /\ finished'[o] \/ (~worldComplete'[o] /\ (unowned'[o] \/ closed'))
    BY <2>1 DEF GoodOperation
  <2> QED BY <1>2, <1>5, <2>1, <2>2 DEF GoodOperation
<1>7. \A h \in Goroutines : Distinct(stack'[h])
  BY DEF IInv
<1>8. Closing'
  <2>1. closed /\ engineOpen => \E h \in Goroutines : pc'[h].at = "closing"
    BY <1>1 DEF IInv, Closing
  <2> QED BY <2>1 DEF IInv, Closing
<1>9. ClosedMeansFinished'
  BY <1>2 DEF IInv, ClosedMeansFinished
<1> QED BY <1>4, <1>6, <1>7, <1>8, <1>9 DEF IInv, Distinct

(* A step that only moves one goroutine. *)
LEMMA PcStep ==
  ASSUME IInv, NEW g \in Goroutines, NEW q \in PcRecords,
         pc' = [pc EXCEPT ![g] = q], GoodPc(g, q),
         pc[g].at # "closing", q.at # "closing",
         affected' \in SUBSET Operations,
         UNCHANGED <<closed, engineOpen, projectMu, operationMu, started, registryVars, finished,
                     worldComplete, nativeVars, waiter, fate, noticed>>
  PROVE  IInv'
<1> USE DEF registryVars, nativeVars
<1>1. TypeOK
  BY DEF IInv
<1>2. pc' \in [Goroutines -> PcRecords]
  BY <1>1 DEF TypeOK, PcRecords
<1>3. TypeOK'
  BY <1>1, <1>2 DEF TypeOK, PcRecords
<1>4. Begun' = Begun /\ OpenWorlds' = OpenWorlds
  BY DEF Begun, OpenWorlds
<1>5. GoodPc(g, q)'
  BY <1>4, GoodPcKept
<1>6. HostQuiesces => \A o \in noticed' :
           \/ o \in noticed /\ worldComplete'[o] = worldComplete[o]
           \/ o \in Begun /\ fate[o] # "sent" /\ ~worldComplete'[o] /\ (unowned'[o] \/ closed)
  OBVIOUS
<1> HIDE DEF registryVars, nativeVars
<1>7. \A o \in Operations : /\ operationMu'[o] = operationMu[o]
                            /\ worldComplete'[o] = worldComplete[o]
                            /\ unowned'[o] = unowned[o]
  BY DEF nativeVars
<1> QED BY <1>3, <1>5, <1>6, <1>7, MoveStep

(* FailBegin keeps IInv. *)
LEMMA FailBeginStep ==
  ASSUME IInv, NEW g \in Goroutines, NEW o \in Operations, FailBegin(g, o)
  PROVE  IInv'
<1>1. PICK q : q = At("failLock", o, {}, {}, {}, None)
  OBVIOUS
<1>2. /\ q \in PcRecords /\ q.at = "failLock" /\ q.op = o /\ q.rest = {} /\ q.found = {}
      /\ q.window = {} /\ q.inFail = None
  BY <1>1, PcRecord DEF Points
<1>3. /\ pc' = [pc EXCEPT ![g] = q] /\ pc[g].at = "out" /\ o \in Begun
      /\ HostQuiesces => projectMu = NoGoroutine
      /\ affected' = affected
      /\ UNCHANGED <<closed, engineOpen, projectMu, operationMu, started, registryVars, finished,
                     worldComplete, nativeVars, waiter, fate, noticed>>
  BY <1>1 DEF FailBegin, historyVars
<1>4. HostQuiesces => ~(closed /\ engineOpen)
  <2> SUFFICES ASSUME HostQuiesces, closed, engineOpen PROVE FALSE
    OBVIOUS
  <2>1. PICK h \in Goroutines : pc[h].at = "closing"
    BY DEF IInv, Closing
  <2>2. projectMu = h
    BY <2>1 DEF IInv, GoodPc
  <2> QED BY <1>3, <2>2, GoAssumption
<1>5. GoodPc(g, q)
  BY <1>2, <1>3, <1>4 DEF GoodPc, Seen
<1>6. affected \in SUBSET Operations
  BY DEF IInv, TypeOK
<1> QED BY <1>2, <1>3, <1>5, <1>6, PcStep

(* FailFinished keeps IInv. *)
LEMMA FailFinishedStep ==
  ASSUME IInv, NEW g \in Goroutines, FailFinished(g)
  PROVE  IInv'
<1>1. /\ pc' = [pc EXCEPT ![g] = Out] /\ pc[g].at = "failLock"
      /\ affected' = affected
      /\ UNCHANGED <<closed, engineOpen, projectMu, operationMu, started, registryVars, finished,
                     worldComplete, nativeVars, waiter, fate, noticed>>
  BY DEF FailFinished, historyVars
<1>2. affected \in SUBSET Operations
  BY DEF IInv, TypeOK
<1> QED BY <1>1, <1>2, GoodOut, OutRecord, PcStep

(* TokenProvided keeps IInv. *)
LEMMA TokenProvidedStep ==
  ASSUME IInv, NEW g \in Goroutines, TokenProvided(g)
  PROVE  IInv'
<1>1. PICK q : q = At("failNative", pc[g].op, {}, {}, {}, None)
  OBVIOUS
<1>2. /\ pc' = [pc EXCEPT ![g] = q] /\ pc[g].at = "token"
      /\ affected' = affected
      /\ UNCHANGED <<closed, engineOpen, projectMu, operationMu, started, registryVars, finished,
                     worldComplete, nativeVars, waiter, fate, noticed>>
  BY <1>1 DEF TokenProvided, historyVars
<1>3. GoodPc(g, pc[g]) /\ Held(g, pc[g].op) /\ pc[g].op \in Operations
  BY <1>2 DEF IInv, GoodPc, Held
<1>4. /\ q \in PcRecords /\ q.at = "failNative" /\ q.op = pc[g].op /\ q.rest = {} /\ q.found = {}
      /\ q.window = {} /\ q.inFail = None
  BY <1>1, <1>3, PcRecord DEF Points
<1>5. GoodPc(g, q)
  BY <1>2, <1>3, <1>4 DEF GoodPc, Seen, FailPc
<1>6. affected \in SUBSET Operations
  BY DEF IInv, TypeOK
<1> QED BY <1>2, <1>4, <1>5, <1>6, PcStep

-----------------------------------------------------------------------------
(***************************************************************************)
(* Steps of a hook.                                                        *)
(***************************************************************************)
(* A hook begins outside a call, or in the token provider of a Fail. *)
LEMMA HookBegins ==
  ASSUME IInv, NEW g \in Goroutines, MayCallHook(g)
  PROVE  /\ pc[g].at # "closing" /\ pc[g].op \in Operations \cup {None}
         /\ pc[g].op # None => Held(g, pc[g].op) /\ FailPc(pc[g])
<1>1. GoodPc(g, pc[g]) /\ pc[g].at \in {"out", "token"}
  BY DEF IInv, MayCallHook
<1> QED BY <1>1 DEF GoodPc, Held, FailPc

(* The registry has every open World, unless a Close has taken it. *)
LEMMA OpenIsRegistered ==
  ASSUME IInv, NEW o \in OpenWorlds
  PROVE  o \in Operations /\ o \in Begun /\ (o \in registered \/ closed)
<1>1. o \in Operations /\ o \in Begun /\ ~finished[o]
  BY DEF OpenWorlds, Begun
<1>2. o \in registered \/ Taken(o)
  BY <1>1 DEF IInv, GoodOperation
<1>3. Taken(o) => closed
  BY DEF Taken, IInv, GoodPc
<1> QED BY <1>1, <1>2, <1>3

(* A registered operation has been started. *)
LEMMA RegisteredBegun ==
  ASSUME IInv
  PROVE  registered \in SUBSET Operations /\ registered \subseteq Begun
BY DEF IInv, TypeOK, GoodOperation

(* ReadBegin keeps IInv. *)
LEMMA ReadBeginStep ==
  ASSUME IInv, NEW g \in Goroutines, ReadBegin(g)
  PROVE  IInv'
<1>1. PICK q : q = At("check", None, registered, {}, OpenWorlds, pc[g].op)
  OBVIOUS
<1>2. /\ pc' = [pc EXCEPT ![g] = q] /\ MayCallHook(g)
      /\ affected' = affected
      /\ UNCHANGED <<closed, engineOpen, projectMu, operationMu, started, registryVars, finished,
                     worldComplete, nativeVars, waiter, fate, noticed>>
  BY <1>1 DEF ReadBegin, historyVars, Candidates
<1>3. /\ pc[g].at # "closing" /\ pc[g].op \in Operations \cup {None}
      /\ pc[g].op # None => Held(g, pc[g].op) /\ FailPc(pc[g])
  BY <1>2, HookBegins
<1>4. /\ OpenWorlds \in SUBSET Operations /\ OpenWorlds \subseteq Begun
      /\ \A o \in OpenWorlds : o \in registered \/ closed
  BY OpenIsRegistered
<1>5. /\ q \in PcRecords /\ q.at = "check" /\ q.op = None /\ q.rest = registered /\ q.found = {}
      /\ q.window = OpenWorlds /\ q.inFail = pc[g].op
  BY <1>1, <1>3, <1>4, RegisteredBegun, PcRecord DEF Points
<1>6. Seen(q)
  BY <1>4, <1>5 DEF Seen
<1>7. HostQuiesces /\ closed /\ engineOpen => ~FailPc(pc[g])
  BY DEF IInv, GoodPc
<1>8. GoodPc(g, q)
  BY <1>3, <1>4, <1>5, <1>6, <1>7, RegisteredBegun DEF GoodPc, FailPc
<1>9. affected \in SUBSET Operations
  BY DEF IInv, TypeOK
<1> QED BY <1>2, <1>3, <1>5, <1>8, <1>9, PcStep

(* EnvironmentMutate keeps IInv. *)
LEMMA EnvironmentMutateStep ==
  ASSUME IInv, NEW g \in Goroutines, EnvironmentMutate(g)
  PROVE  IInv'
<1>1. PICK q : q = At("mutated", None, {}, {}, OpenWorlds, pc[g].op)
  OBVIOUS
<1>2. /\ pc' = [pc EXCEPT ![g] = q] /\ MayCallHook(g)
      /\ affected' = affected \cup OpenWorlds
      /\ UNCHANGED <<closed, engineOpen, projectMu, operationMu, started, registryVars, finished,
                     worldComplete, nativeVars, waiter, fate, noticed>>
  BY <1>1 DEF EnvironmentMutate
<1>3. /\ pc[g].at # "closing" /\ pc[g].op \in Operations \cup {None}
      /\ pc[g].op # None => Held(g, pc[g].op) /\ FailPc(pc[g])
  BY <1>2, HookBegins
<1>4. OpenWorlds \in SUBSET Operations /\ OpenWorlds \subseteq Begun
  BY OpenIsRegistered
<1>5. /\ q \in PcRecords /\ q.at = "mutated" /\ q.op = None /\ q.rest = {} /\ q.found = {}
      /\ q.window = OpenWorlds /\ q.inFail = pc[g].op
  BY <1>1, <1>3, <1>4, PcRecord DEF Points
<1>6. HostQuiesces /\ closed /\ engineOpen => ~FailPc(pc[g])
  BY DEF IInv, GoodPc
<1>7. GoodPc(g, q)
  BY <1>3, <1>4, <1>5, <1>6 DEF GoodPc, FailPc, Seen
<1>8. affected' \in SUBSET Operations
  BY <1>2, <1>4 DEF IInv, TypeOK
<1> QED BY <1>2, <1>3, <1>5, <1>7, <1>8, PcStep

(* A hook goes on: it keeps its window and its caller. *)
LEMMA HookStepKept ==
  ASSUME IInv, NEW g \in Goroutines,
         NEW at \in {"check", "envCheck", "open", "observe", "read", "mark"},
         NEW op \in Operations \cup {None}, at \in {"open", "observe"} => op \in Begun,
         NEW rest \in SUBSET Begun, NEW found \in SUBSET Begun, NEW window \in SUBSET Begun,
         at = "read" => rest = {}, at = "mark" => found = {},
         \A o \in window : o \in OpenWorlds => o \in rest \cup found \/ unowned[o] \/ closed
  PROVE  LET q == At(at, op, rest, found, window, pc[g].inFail)
         IN  q \in PcRecords /\ q.at # "closing" /\ GoodPc(g, q)
<1>1. /\ GoodPc(g, pc[g]) /\ pc[g].inFail \in Operations \cup {None}
      /\ Begun \in SUBSET Operations /\ at \in Points
  BY DEF IInv, TypeOK, Begun, Points
<1>2. PICK q : q = At(at, op, rest, found, window, pc[g].inFail)
  OBVIOUS
<1>3. /\ q \in PcRecords /\ q.at = at /\ q.op = op /\ q.rest = rest /\ q.found = found
      /\ q.window = window /\ q.inFail = pc[g].inFail
  BY <1>1, <1>2, PcRecord
<1>4. Seen(q)
  BY <1>3 DEF Seen
<1>5. q.inFail # None => Held(g, q.inFail) /\ FailPc(pc[g])
  BY <1>1, <1>3 DEF GoodPc, FailPc
<1>6. HostQuiesces /\ closed /\ engineOpen => ~FailPc(q)
  BY <1>1, <1>3, <1>5 DEF GoodPc, FailPc
<1>7. GoodPc(g, q)
  BY <1>3, <1>4, <1>5, <1>6 DEF GoodPc
<1> QED BY <1>2, <1>3, <1>7

(* EnvironmentSnapshot keeps IInv. *)
LEMMA EnvironmentSnapshotStep ==
  ASSUME IInv, NEW g \in Goroutines, EnvironmentSnapshot(g)
  PROVE  IInv'
<1>1. PICK q : q = At("envCheck", None, registered, {}, pc[g].window, pc[g].inFail)
  OBVIOUS
<1>2. /\ pc' = [pc EXCEPT ![g] = q] /\ pc[g].at = "mutated"
      /\ affected' = affected
      /\ UNCHANGED <<closed, engineOpen, projectMu, operationMu, started, registryVars, finished,
                     worldComplete, nativeVars, waiter, fate, noticed>>
  BY <1>1 DEF EnvironmentSnapshot, historyVars, Candidates
<1>3. pc[g].window \in SUBSET Begun
  BY DEF IInv, GoodPc
<1>4. q \in PcRecords /\ q.at # "closing" /\ GoodPc(g, q)
  BY <1>1, <1>3, RegisteredBegun, OpenIsRegistered, HookStepKept
<1>5. affected \in SUBSET Operations
  BY DEF IInv, TypeOK
<1> QED BY <1>2, <1>4, <1>5, PcStep

(* CheckActive keeps IInv. *)
LEMMA CheckActiveStep ==
  ASSUME IInv, NEW g \in Goroutines, NEW o \in Operations, CheckActive(g, o)
  PROVE  IInv'
<1> DEFINE found == IF IsActive(o) THEN pc[g].found \cup {o} ELSE pc[g].found
<1>1. PICK q : q = At(pc[g].at, None, pc[g].rest \ {o}, found, pc[g].window, pc[g].inFail)
  OBVIOUS
<1>2. /\ pc' = [pc EXCEPT ![g] = q] /\ pc[g].at \in {"check", "envCheck"} /\ o \in pc[g].rest
      /\ affected' = affected
      /\ UNCHANGED <<closed, engineOpen, projectMu, operationMu, started, registryVars, finished,
                     worldComplete, nativeVars, waiter, fate, noticed>>
  BY <1>1 DEF CheckActive, historyVars
<1>3. /\ pc[g].window \in SUBSET Begun /\ pc[g].rest \in SUBSET Begun /\ pc[g].found \in SUBSET Begun
      /\ Seen(pc[g])
  BY DEF IInv, GoodPc
<1>4. \A p \in pc[g].window : p \in OpenWorlds =>
        p \in (pc[g].rest \ {o}) \cup found \/ unowned[p] \/ closed
  <2>1. o \in OpenWorlds => IsActive(o)
    BY DEF OpenWorlds, IsActive
  <2> QED BY <1>2, <1>3, <2>1 DEF Seen
<1>5. found \in SUBSET Begun /\ pc[g].rest \ {o} \in SUBSET Begun
  BY <1>2, <1>3
<1> HIDE DEF found
<1>6. q \in PcRecords /\ q.at # "closing" /\ GoodPc(g, q)
  BY <1>1, <1>2, <1>3, <1>4, <1>5, HookStepKept
<1>7. affected \in SUBSET Operations
  BY DEF IInv, TypeOK
<1> QED BY <1>2, <1>6, <1>7, PcStep

(* EnvironmentChecked keeps IInv. *)
LEMMA EnvironmentCheckedStep ==
  ASSUME IInv, NEW g \in Goroutines, EnvironmentChecked(g)
  PROVE  IInv'
<1>1. PICK q : q = At("mark", None, pc[g].found, {}, pc[g].window, pc[g].inFail)
  OBVIOUS
<1>2. /\ pc' = [pc EXCEPT ![g] = q] /\ pc[g].at = "envCheck" /\ pc[g].rest = {}
      /\ affected' = affected
      /\ UNCHANGED <<closed, engineOpen, projectMu, operationMu, started, registryVars, finished,
                     worldComplete, nativeVars, waiter, fate, noticed>>
  BY <1>1 DEF EnvironmentChecked, historyVars
<1>3. /\ pc[g].window \in SUBSET Begun /\ pc[g].found \in SUBSET Begun /\ Seen(pc[g])
  BY DEF IInv, GoodPc
<1>4. \A p \in pc[g].window : p \in OpenWorlds =>
        p \in pc[g].found \cup {} \/ unowned[p] \/ closed
  BY <1>2, <1>3 DEF Seen
<1>5. q \in PcRecords /\ q.at # "closing" /\ GoodPc(g, q)
  BY <1>1, <1>3, <1>4, HookStepKept
<1>6. affected \in SUBSET Operations
  BY DEF IInv, TypeOK
<1> QED BY <1>2, <1>5, <1>6, PcStep

(* ReadWithoutOwner keeps IInv. *)
LEMMA ReadWithoutOwnerStep ==
  ASSUME IInv, NEW g \in Goroutines, ReadWithoutOwner(g)
  PROVE  IInv'
<1>1. PICK q : q = At("read", None, {}, pc[g].found, pc[g].window, pc[g].inFail)
  OBVIOUS
<1>2. /\ pc' = [pc EXCEPT ![g] = q] /\ pc[g].at = "check" /\ pc[g].rest = {}
      /\ affected' = affected
      /\ UNCHANGED <<closed, engineOpen, projectMu, operationMu, started, registryVars, finished,
                     worldComplete, nativeVars, waiter, fate, noticed>>
  BY <1>1 DEF ReadWithoutOwner, historyVars
<1>3. /\ pc[g].window \in SUBSET Begun /\ pc[g].found \in SUBSET Begun /\ Seen(pc[g])
  BY DEF IInv, GoodPc
<1>4. \A p \in pc[g].window : p \in OpenWorlds =>
        p \in {} \cup pc[g].found \/ unowned[p] \/ closed
  BY <1>2, <1>3 DEF Seen
<1>5. q \in PcRecords /\ q.at # "closing" /\ GoodPc(g, q)
  BY <1>1, <1>3, <1>4, HookStepKept
<1>6. affected \in SUBSET Operations
  BY DEF IInv, TypeOK
<1> QED BY <1>2, <1>5, <1>6, PcStep

(* The operation on top of a stack was begun. *)
LEMMA TopBegun ==
  ASSUME IInv, NEW g \in Goroutines, Top(g) # None
  PROVE  Top(g) \in Operations /\ Top(g) \in Begun
<1>1. stack[g] \in Seq(Operations) /\ stack[g] # <<>>
  BY DEF IInv, TypeOK, Top
<1>2. Len(stack[g]) \in DOMAIN stack[g] /\ stack[g][Len(stack[g])] \in Operations
  BY <1>1
<1>3. Top(g) = stack[g][Len(stack[g])]
  BY <1>1 DEF Top
<1>4. OnStack(Top(g))
  BY <1>2, <1>3 DEF OnStack
<1> QED BY <1>2, <1>3, <1>4 DEF IInv, GoodOperation

(* ReadWithOwner keeps IInv. *)
LEMMA ReadWithOwnerStep ==
  ASSUME IInv, NEW g \in Goroutines, ReadWithOwner(g)
  PROVE  IInv'
<1>1. PICK q : q = At("open", Top(g), {}, {}, {}, pc[g].inFail)
  OBVIOUS
<1>2. /\ pc' = [pc EXCEPT ![g] = q] /\ pc[g].at = "check" /\ Top(g) # None
      /\ affected' = affected
      /\ UNCHANGED <<closed, engineOpen, projectMu, operationMu, started, registryVars, finished,
                     worldComplete, nativeVars, waiter, fate, noticed>>
  BY <1>1 DEF ReadWithOwner, historyVars
<1>3. q \in PcRecords /\ q.at # "closing" /\ GoodPc(g, q)
  BY <1>1, <1>2, TopBegun, HookStepKept
<1>4. affected \in SUBSET Operations
  BY DEF IInv, TypeOK
<1> QED BY <1>2, <1>3, <1>4, PcStep

(* ObservationLate keeps IInv. *)
LEMMA ObservationLateStep ==
  ASSUME IInv, NEW g \in Goroutines, ObservationLate(g)
  PROVE  IInv'
<1>1. PICK q : q = At("read", None, {}, {pc[g].op}, {}, pc[g].inFail)
  OBVIOUS
<1>2. /\ pc' = [pc EXCEPT ![g] = q] /\ pc[g].at = "open"
      /\ affected' = affected
      /\ UNCHANGED <<closed, engineOpen, projectMu, operationMu, started, registryVars, finished,
                     worldComplete, nativeVars, waiter, fate, noticed>>
  BY <1>1 DEF ObservationLate, historyVars
<1>3. pc[g].op \in Begun
  BY <1>2 DEF IInv, GoodPc
<1>4. q \in PcRecords /\ q.at # "closing" /\ GoodPc(g, q)
  BY <1>1, <1>3, HookStepKept
<1>5. affected \in SUBSET Operations
  BY DEF IInv, TypeOK
<1> QED BY <1>2, <1>4, <1>5, PcStep

(* ReadValue keeps IInv. *)
LEMMA ReadValueStep ==
  ASSUME IInv, NEW g \in Goroutines, ReadValue(g)
  PROVE  IInv'
<1>1. PICK q : q = At("mark", None, pc[g].found, {}, pc[g].window, pc[g].inFail)
  OBVIOUS
<1>2. /\ pc' = [pc EXCEPT ![g] = q] /\ pc[g].at = "read"
      /\ affected' = affected \cup (pc[g].found \cap OpenWorlds)
      /\ UNCHANGED <<closed, engineOpen, projectMu, operationMu, started, registryVars, finished,
                     worldComplete, nativeVars, waiter, fate, noticed>>
  BY <1>1 DEF ReadValue
<1>3. /\ pc[g].window \in SUBSET Begun /\ pc[g].found \in SUBSET Begun /\ Seen(pc[g])
      /\ Begun \in SUBSET Operations /\ pc[g].rest = {}
  BY <1>2 DEF IInv, GoodPc, Begun
<1>4. \A p \in pc[g].window : p \in OpenWorlds =>
        p \in pc[g].found \cup {} \/ unowned[p] \/ closed
  BY <1>2, <1>3 DEF Seen
<1>5. q \in PcRecords /\ q.at # "closing" /\ GoodPc(g, q)
  BY <1>1, <1>3, <1>4, HookStepKept
<1>6. affected' \in SUBSET Operations
  BY <1>2, <1>3 DEF IInv, TypeOK
<1> QED BY <1>2, <1>5, <1>6, PcStep

(* A step of a hook that leaves every operation as it is, apart from what the *)
(* engine observes of it.                                                     *)
LEMMA ObservingStep ==
  ASSUME IInv, NEW g \in Goroutines, NEW q \in PcRecords,
         pc' = [pc EXCEPT ![g] = q], pc[g].at # "closing", q.at # "closing", GoodPc(g, q)',
         observing' \in [Operations -> SUBSET Goroutines],
         unowned' \in [Operations -> BOOLEAN],
         \A o \in Operations : unowned[o] => unowned'[o],
         UNCHANGED <<closed, engineOpen, projectMu, operationMu, started, registryVars, finished,
                     worldComplete, sinks, waiter, fate, historyVars>>
  PROVE  IInv'
<1> USE DEF registryVars, historyVars
<1>1. TypeOK
  BY DEF IInv
<1>2. pc' \in [Goroutines -> PcRecords]
  BY <1>1 DEF TypeOK, PcRecords
<1>3. TypeOK'
  BY <1>1, <1>2 DEF TypeOK, PcRecords
<1> HIDE DEF registryVars, historyVars
<1>4. /\ noticed' = noticed /\ \A o \in Operations : operationMu'[o] = operationMu[o]
      /\ \A o \in Operations : worldComplete'[o] = worldComplete[o]
      /\ worldComplete' = worldComplete
  BY DEF historyVars
<1> QED BY <1>3, <1>4, MoveStep

(* ObservationOpen keeps IInv. *)
LEMMA ObservationOpenStep ==
  ASSUME IInv, NEW g \in Goroutines, ObservationOpen(g)
  PROVE  IInv'
<1> DEFINE o == pc[g].op
<1>1. PICK q : q = At("observe", pc[g].op, {}, {}, {}, pc[g].inFail)
  OBVIOUS
<1>2. /\ pc' = [pc EXCEPT ![g] = q] /\ pc[g].at = "open"
      /\ observing' = [observing EXCEPT ![o] = observing[o] \cup {g}]
      /\ UNCHANGED <<closed, engineOpen, projectMu, operationMu, started, registryVars, finished,
                     worldComplete, unowned, sinks, waiter, fate, historyVars>>
  BY <1>1 DEF ObservationOpen
<1>3. TypeOK /\ pc[g].op \in Begun /\ pc[g].op \in Operations
  BY <1>2 DEF IInv, GoodPc, Begun
<1>4. q \in PcRecords /\ q.at # "closing" /\ GoodPc(g, q)
  BY <1>1, <1>3, HookStepKept
<1>5. Begun' = Begun /\ OpenWorlds' = OpenWorlds
  BY <1>2 DEF Begun, OpenWorlds
<1>6. GoodPc(g, q)'
  BY <1>2, <1>4, <1>5, GoodPcKept
<1>7. /\ observing' \in [Operations -> SUBSET Goroutines]
      /\ unowned' \in [Operations -> BOOLEAN] /\ unowned' = unowned
  BY <1>2, <1>3 DEF TypeOK
<1> QED BY <1>2, <1>4, <1>6, <1>7, ObservingStep

(* ObservationFinish keeps IInv. *)
LEMMA ObservationFinishStep ==
  ASSUME IInv, NEW g \in Goroutines, ObservationFinish(g)
  PROVE  IInv'
<1> DEFINE o == pc[g].op
<1>1. PICK q : q = Returned(g)
  OBVIOUS
<1>2. /\ pc' = [pc EXCEPT ![g] = q] /\ pc[g].at = "observe"
      /\ observing' = [observing EXCEPT ![o] = observing[o] \ {g}]
      /\ UNCHANGED <<closed, engineOpen, projectMu, operationMu, started, registryVars, finished,
                     worldComplete, unowned, sinks, waiter, fate, historyVars>>
  BY <1>1 DEF ObservationFinish
<1>3. TypeOK /\ GoodPc(g, pc[g]) /\ o \in Operations
  BY <1>2 DEF IInv, GoodPc, Begun
<1>4. q \in PcRecords /\ q.at # "closing" /\ GoodPc(g, q)
  BY <1>1, <1>3, GoodReturned
<1>5. Begun' = Begun /\ OpenWorlds' = OpenWorlds
  BY <1>2 DEF Begun, OpenWorlds
<1>6. GoodPc(g, q)'
  BY <1>2, <1>4, <1>5, GoodPcKept
<1>7. /\ observing' \in [Operations -> SUBSET Goroutines]
      /\ unowned' \in [Operations -> BOOLEAN] /\ unowned' = unowned
  BY <1>2, <1>3 DEF TypeOK
<1> QED BY <1>2, <1>4, <1>6, <1>7, ObservingStep

(* ObservationAbandon keeps IInv. *)
LEMMA ObservationAbandonStep ==
  ASSUME IInv, NEW g \in Goroutines, ObservationAbandon(g)
  PROVE  IInv'
<1> DEFINE o == pc[g].op
<1>1. PICK q : q = At("mark", None, {pc[g].op}, {}, {}, pc[g].inFail)
  OBVIOUS
<1>2. /\ pc' = [pc EXCEPT ![g] = q] /\ pc[g].at = "observe"
      /\ observing' = [observing EXCEPT ![o] = observing[o] \ {g}]
      /\ unowned' = [unowned EXCEPT ![o] = unowned[o] \/ g \in observing[o]]
      /\ UNCHANGED <<closed, engineOpen, projectMu, operationMu, started, registryVars, finished,
                     worldComplete, sinks, waiter, fate, historyVars>>
  BY <1>1 DEF ObservationAbandon
<1>3. TypeOK /\ pc[g].op \in Begun /\ o \in Operations
  BY <1>2 DEF IInv, GoodPc, Begun
<1>4. q \in PcRecords /\ q.at # "closing" /\ GoodPc(g, q)
  BY <1>1, <1>3, HookStepKept
<1>5. Begun' = Begun /\ OpenWorlds' = OpenWorlds /\ \A p \in Begun : p \in Operations
  BY <1>2 DEF Begun, OpenWorlds
<1>6. /\ unowned' \in [Operations -> BOOLEAN]
      /\ \A p \in Operations : unowned[p] => unowned'[p]
  BY <1>2, <1>3 DEF TypeOK
<1>7. GoodPc(g, q)'
  BY <1>2, <1>4, <1>5, <1>6, GoodPcKept
<1>8. observing' \in [Operations -> SUBSET Goroutines]
  BY <1>2, <1>3 DEF TypeOK
<1> QED BY <1>2, <1>4, <1>6, <1>7, <1>8, ObservingStep

(* MarkUnowned keeps IInv. *)
LEMMA MarkUnownedStep ==
  ASSUME IInv, NEW g \in Goroutines, NEW o \in Operations, MarkUnowned(g, o)
  PROVE  IInv'
<1>1. PICK q : q = At("mark", None, pc[g].rest \ {o}, {}, pc[g].window, pc[g].inFail)
  OBVIOUS
<1>2. /\ pc' = [pc EXCEPT ![g] = q] /\ pc[g].at = "mark" /\ o \in pc[g].rest
      /\ unowned' = [unowned EXCEPT ![o] = unowned[o] \/ IsActive(o)]
      /\ UNCHANGED <<closed, engineOpen, projectMu, operationMu, started, registryVars, finished,
                     worldComplete, observing, sinks, waiter, fate, historyVars>>
  BY <1>1 DEF MarkUnowned
<1>3. /\ TypeOK /\ GoodPc(g, pc[g]) /\ pc[g].inFail \in Operations \cup {None}
      /\ pc[g].window \in SUBSET Operations /\ pc[g].rest \ {o} \in SUBSET Operations
  BY DEF IInv, TypeOK
<1>4. /\ q \in PcRecords /\ q.at = "mark" /\ q.op = None /\ q.rest = pc[g].rest \ {o} /\ q.found = {}
      /\ q.window = pc[g].window /\ q.inFail = pc[g].inFail
  <2>1. PICK rest \in SUBSET Operations, window \in SUBSET Operations,
             inFail \in Operations \cup {None} :
          rest = pc[g].rest \ {o} /\ window = pc[g].window /\ inFail = pc[g].inFail
    BY <1>3
  <2>2. q = At("mark", None, rest, {}, window, inFail)
    BY <1>1, <2>1
  <2>3. /\ q \in PcRecords /\ q.at = "mark" /\ q.op = None /\ q.rest = rest /\ q.found = {}
        /\ q.window = window /\ q.inFail = inFail
    BY <2>2 DEF At, PcRecords, Points
  <2> QED BY <2>1, <2>3
<1>5. Begun' = Begun /\ OpenWorlds' = OpenWorlds /\ Begun \subseteq Operations
  BY <1>2 DEF Begun, OpenWorlds
<1>6. /\ unowned' \in [Operations -> BOOLEAN]
      /\ \A p \in Operations : unowned[p] => unowned'[p]
      /\ IsActive(o) => unowned'[o]
  BY <1>2, <1>3 DEF TypeOK
<1>7. Seen(q)'
  <2> SUFFICES ASSUME NEW p \in q.window, p \in OpenWorlds
               PROVE  p \in q.rest \cup q.found \/ unowned'[p] \/ closed'
    BY <1>5 DEF Seen
  <2>1. p \in pc[g].rest \/ unowned[p] \/ closed
    BY <1>2, <1>3, <1>4 DEF GoodPc, Seen
  <2>2. p = o => unowned'[p]
    BY <1>6 DEF OpenWorlds, IsActive
  <2>3. p \in Operations
    BY <1>3, <1>4
  <2> QED BY <1>2, <1>4, <1>6, <2>1, <2>2, <2>3
<1>8. q.inFail # None => Held(g, q.inFail)'
  BY <1>2, <1>3, <1>4, <1>5 DEF GoodPc, Held
<1>9. HostQuiesces /\ closed' /\ engineOpen' => ~FailPc(q)
  BY <1>2, <1>3, <1>4 DEF GoodPc, FailPc
<1>10. GoodPc(g, q)'
  BY <1>3, <1>4, <1>5, <1>7, <1>8, <1>9 DEF GoodPc, FailPc
<1>11. observing' \in [Operations -> SUBSET Goroutines]
  BY <1>2, <1>3 DEF TypeOK
<1> QED BY <1>2, <1>4, <1>6, <1>10, <1>11, ObservingStep

(* HookReturn keeps IInv. *)
LEMMA HookReturnStep ==
  ASSUME IInv, NEW g \in Goroutines, HookReturn(g)
  PROVE  IInv'
<1> USE DEF registryVars, nativeVars
<1>1. PICK q : q = Returned(g)
  OBVIOUS
<1>2. /\ pc' = [pc EXCEPT ![g] = q] /\ pc[g].at = "mark" /\ pc[g].rest = {}
      /\ noticed' = noticed \cup (pc[g].window \cap OpenWorlds)
      /\ UNCHANGED <<closed, engineOpen, projectMu, operationMu, started, registryVars, finished,
                     worldComplete, nativeVars, waiter, fate, affected>>
  BY <1>1 DEF HookReturn
<1>3. /\ TypeOK /\ GoodPc(g, pc[g])
  BY DEF IInv
<1>4. q \in PcRecords /\ q.at # "closing" /\ GoodPc(g, q)
  BY <1>1, <1>3, GoodReturned
<1>5. Begun' = Begun /\ OpenWorlds' = OpenWorlds
  BY <1>2 DEF Begun, OpenWorlds
<1>6. GoodPc(g, q)'
  BY <1>2, <1>4, <1>5, GoodPcKept
<1>7. pc' \in [Goroutines -> PcRecords] /\ noticed' \in SUBSET Operations
  BY <1>2, <1>3, <1>4 DEF TypeOK, PcRecords
<1>8. TypeOK'
  BY <1>2, <1>3, <1>7 DEF TypeOK, PcRecords
<1>9. ASSUME NEW p \in pc[g].window \cap OpenWorlds
      PROVE  p \in Begun /\ fate[p] # "sent" /\ ~worldComplete[p] /\ (unowned[p] \/ closed)
  <2>1. unowned[p] \/ closed
    BY <1>2, <1>3 DEF GoodPc, Seen
  <2>2. p \in Operations /\ p \in Begun /\ ~finished[p] /\ ~worldComplete[p]
    BY DEF OpenWorlds, Begun
  <2>3. fate[p] = "live"
    BY <2>2 DEF IInv, GoodOperation
  <2> QED BY <2>1, <2>2, <2>3
<1>10. HostQuiesces => \A o \in noticed' :
           \/ o \in noticed /\ worldComplete'[o] = worldComplete[o]
           \/ o \in Begun /\ fate[o] # "sent" /\ ~worldComplete'[o] /\ (unowned'[o] \/ closed)
  BY <1>2, <1>9
<1> HIDE DEF registryVars, nativeVars
<1>11. \A o \in Operations : /\ operationMu'[o] = operationMu[o]
                             /\ worldComplete'[o] = worldComplete[o]
                             /\ unowned'[o] = unowned[o]
  BY <1>2 DEF nativeVars
<1> QED BY <1>2, <1>4, <1>6, <1>8, <1>10, <1>11, MoveStep

-----------------------------------------------------------------------------
(***************************************************************************)
(* Fail takes and releases the operation's mutex.                          *)
(***************************************************************************)
LEMMA FailCloseWorldStep ==
  ASSUME IInv, NEW g \in Goroutines, FailCloseWorld(g)
  PROVE  IInv'
<1> USE DEF registryVars, nativeVars, historyVars
<1>1. PICK o \in Operations : o = pc[g].op /\ o \in Begun
  BY DEF FailCloseWorld, IInv, GoodPc, Begun
<1>2. PICK q : q = At("token", o, {}, {}, {}, None)
  OBVIOUS
<1>3. /\ pc' = [pc EXCEPT ![g] = q] /\ pc[g].at = "failLock"
      /\ operationMu[o] = NoGoroutine /\ ~finished[o] /\ engineOpen /\ ~unowned[o]
      /\ worldComplete' = [worldComplete EXCEPT ![o] = TRUE]
      /\ operationMu' = [operationMu EXCEPT ![o] = g]
      /\ UNCHANGED <<closed, engineOpen, projectMu, started, registryVars, finished, nativeVars,
                     waiter, fate, historyVars>>
  BY <1>1, <1>2 DEF FailCloseWorld, MayFail, Free, WorldCloses
<1>4. /\ q \in PcRecords /\ q.at = "token" /\ q.op = o /\ q.rest = {} /\ q.found = {}
      /\ q.window = {} /\ q.inFail = None
  BY <1>2, PcRecord DEF Points
<1>5. TypeOK /\ GoodPc(g, pc[g]) /\ GoodOperation(o)
  BY DEF IInv
<1>6. /\ pc' \in [Goroutines -> PcRecords]
      /\ worldComplete' \in [Operations -> BOOLEAN]
      /\ operationMu' \in [Operations -> Goroutines \cup {NoGoroutine}]
      /\ operationMu'[o] = g /\ worldComplete'[o]
      /\ \A p \in Operations \ {o} :
           operationMu'[p] = operationMu[p] /\ worldComplete'[p] = worldComplete[p]
  BY <1>3, <1>4, <1>5 DEF TypeOK, PcRecords
<1>7. TypeOK'
  BY <1>3, <1>5, <1>6 DEF TypeOK, PcRecords
<1>8. HostQuiesces => ~closed
  BY <1>3, <1>5 DEF GoodPc, FailPc
<1>9. GoodPc(g, q)'
  <2>1. o \in Begun'
    BY <1>1, <1>3 DEF Begun
  <2> QED BY <1>3, <1>4, <1>6, <1>8, <2>1 DEF GoodPc, Held, Seen
<1>10. HostQuiesces => \A p \in noticed' :
           \/ p \in noticed /\ worldComplete'[p] = worldComplete[p]
           \/ p \in Begun /\ fate[p] # "sent" /\ ~worldComplete'[p] /\ (unowned'[p] \/ closed)
  <2> SUFFICES ASSUME HostQuiesces, NEW p \in noticed PROVE worldComplete'[p] = worldComplete[p]
    BY <1>3
  <2>1. p \in Operations
    BY <1>5 DEF TypeOK
  <2>2. p # o
    BY <1>3, <1>5, <1>8 DEF GoodOperation
  <2> QED BY <1>6, <2>1, <2>2
<1> HIDE DEF registryVars, nativeVars, historyVars
<1>11. \A p \in Operations : /\ operationMu'[p] = operationMu[p] \/ operationMu[p] \in {g, NoGoroutine}
                             /\ worldComplete[p] => worldComplete'[p]
                             /\ unowned'[p] = unowned[p]
  BY <1>3, <1>6 DEF nativeVars
<1> QED BY <1>3, <1>4, <1>7, <1>9, <1>10, <1>11, MoveStep

(* StartSinkWait keeps IInv. *)
LEMMA StartSinkWaitStep ==
  ASSUME IInv, NEW g \in Goroutines, StartSinkWait(g)
  PROVE  IInv'
<1> USE DEF registryVars, nativeVars, historyVars
<1>1. PICK o \in Operations : o = pc[g].op /\ operationMu[o] = g
  BY DEF StartSinkWait, IInv, GoodPc
<1>2. /\ pc' = [pc EXCEPT ![g] = Out] /\ pc[g].at = "sinkWait"
      /\ waiter' = [waiter EXCEPT ![o] =
                  IF ~closed /\ Cardinality(Waiters) < MaxSinkWaiters
                    THEN "polling" ELSE waiter[o]]
      /\ operationMu' = [operationMu EXCEPT ![o] = NoGoroutine]
      /\ UNCHANGED <<closed, engineOpen, projectMu, started, registryVars, finished, worldComplete,
                     nativeVars, fate, historyVars>>
  BY <1>1 DEF StartSinkWait
<1>3. TypeOK
  BY DEF IInv
<1>4. /\ pc' \in [Goroutines -> PcRecords]
      /\ operationMu' \in [Operations -> Goroutines \cup {NoGoroutine}]
      /\ \A p \in Operations \ {o} : operationMu'[p] = operationMu[p]
  BY <1>2, <1>3, OutRecord DEF TypeOK, PcRecords
<1>5. waiter' \in [Operations -> WaiterStates]
  BY <1>2, <1>3 DEF TypeOK, WaiterStates
<1>6. TypeOK'
  BY <1>2, <1>3, <1>4, <1>5 DEF TypeOK, PcRecords
<1>7. GoodPc(g, Out)'
  BY OutRecord DEF GoodPc, Seen, FailPc
<1> HIDE DEF registryVars, nativeVars, historyVars
<1>8. /\ \A p \in Operations : /\ operationMu'[p] = operationMu[p] \/ operationMu[p] \in {g, NoGoroutine}
                               /\ unowned'[p] = unowned[p]
      /\ noticed' = noticed
  BY <1>1, <1>4, <1>2 DEF nativeVars, historyVars
<1> QED BY <1>2, <1>6, <1>7, <1>8, OutRecord, MoveStep

(* A poller changes nothing any invariant is about. *)
LEMMA PollerStep ==
  ASSUME IInv, sinks' \in SUBSET Operations, waiter' \in [Operations -> WaiterStates],
         UNCHANGED <<closed, engineOpen, projectMu, operationMu, started, registryVars, finished,
                     worldComplete, unowned, observing, fate, historyVars, pc>>
  PROVE  IInv'
<1> USE DEF registryVars, historyVars
<1>1. TypeOK'
  BY DEF IInv, TypeOK
<1>2. Begun' = Begun /\ OpenWorlds' = OpenWorlds
  BY DEF Begun, OpenWorlds
<1>3. \A g \in Goroutines : GoodPc(g, pc[g])'
  BY <1>2 DEF IInv, GoodPc, Held, Seen, FailPc
<1>4. \A o \in Operations : GoodOperation(o)'
  BY <1>2 DEF IInv, GoodOperation, OnStack, Taken
<1>5. \A g \in Goroutines : Distinct(stack[g])'
  BY DEF IInv, Distinct
<1>6. Closing' /\ ClosedMeansFinished'
  BY <1>2 DEF IInv, Closing, ClosedMeansFinished
<1> QED BY <1>1, <1>3, <1>4, <1>5, <1>6 DEF IInv

(* PollStep keeps IInv. *)
LEMMA PollStepKept ==
  ASSUME IInv, NEW o \in Operations, PollStep(o)
  PROVE  IInv'
<1>1. TypeOK
  BY DEF IInv
<1>2. sinks' \in SUBSET Operations
  BY <1>1 DEF PollStep, PollIdle, PollStop, PollLeave, TypeOK, nativeVars
<1>3. waiter' \in [Operations -> WaiterStates]
  BY <1>1 DEF PollStep, PollIdle, PollStop, PollLeave, TypeOK, WaiterStates
<1>4. UNCHANGED <<closed, engineOpen, projectMu, operationMu, started, registryVars, finished,
                  worldComplete, unowned, observing, fate, historyVars, pc>>
  BY DEF PollStep, PollIdle, PollStop, PollLeave, nativeVars
<1> QED BY <1>2, <1>3, <1>4, PollerStep

-----------------------------------------------------------------------------
(***************************************************************************)
(* An operation is finished.                                               *)
(***************************************************************************)
(* finishLocked takes the operation off every stack and leaves the others.    *)
LEMMA FinishedStacks ==
  ASSUME IInv, NEW o \in Operations, FinishLocked(o)
  PROVE  /\ stack' \in [Goroutines -> Seq(Operations)]
         /\ \A g \in Goroutines : Distinct(stack'[g])
         /\ \A p \in Operations : OnStack(p)' <=> p # o /\ OnStack(p)
<1>1. ASSUME NEW g \in Goroutines
      PROVE  /\ stack'[g] \in Seq(Operations) /\ Distinct(stack'[g])
             /\ \A p \in Operations : (\E i \in DOMAIN stack'[g] : stack'[g][i] = p) <=>
                                        (p # o /\ \E i \in DOMAIN stack[g] : stack[g][i] = p)
  <2>1. PICK s \in Seq(Operations) : s = stack[g] /\ Distinct(s)
    BY DEF IInv, TypeOK
  <2>2. PICK w : w = WithoutOperation(s, o)
    OBVIOUS
  <2>3. stack'[g] = w
    BY <2>1, <2>2 DEF FinishLocked
  <2>4. Removed(s, o, w)
    BY <2>1, <2>2, WithoutOperationFacts
  <2> QED BY <2>1, <2>3, <2>4 DEF Removed
<1>2. stack' \in [Goroutines -> Seq(Operations)]
  <2>1. stack' = [g \in Goroutines |-> WithoutOperation(stack[g], o)]
    BY DEF FinishLocked
  <2>2. DOMAIN stack' = Goroutines /\ stack' = [g \in Goroutines |-> stack'[g]]
    BY <2>1
  <2> QED BY <1>1, <2>2
<1>3. ASSUME NEW p \in Operations PROVE OnStack(p)' <=> p # o /\ OnStack(p)
  BY <1>1 DEF OnStack
<1> QED BY <1>1, <1>2, <1>3

(* A step that finishes operation o, which no other goroutine holds, and      *)
(* moves one goroutine.                                                       *)
LEMMA FinishStep ==
  ASSUME IInv, NEW g \in Goroutines, NEW o \in Operations, o \in Begun, NEW q \in PcRecords,
         pc' = [pc EXCEPT ![g] = q], GoodPc(g, q)',
         operationMu[o] \in {g, NoGoroutine},
         q.at = "closing" <=> pc[g].at = "closing",
         pc[g].at = "closing" => \A p \in pc[g].rest : p # o => p \in q.rest,
         FinishLocked(o),
         fate' \in [Operations -> Fates], fate'[o] # "absent",
         ~engineOpen => fate'[o] \in {"local", "sent"},
         \A p \in Operations : p # o => fate'[p] = fate[p],
         HostQuiesces /\ o \in noticed => fate'[o] # "sent",
         observing' \in [Operations -> SUBSET Goroutines],
         sinks' \in SUBSET Operations,
         operationMu' \in [Operations -> Goroutines \cup {NoGoroutine}],
         \A p \in Operations : p # o => operationMu'[p] = operationMu[p],
         UNCHANGED <<closed, engineOpen, projectMu, started, worldComplete, unowned, waiter, historyVars>>
  PROVE  IInv'
<1> USE DEF historyVars
<1>1. TypeOK /\ \A h \in Goroutines : pc'[h] = IF h = g THEN q ELSE pc[h]
  BY DEF IInv, TypeOK
<1>2. /\ finished' \in [Operations -> BOOLEAN] /\ finished'[o]
      /\ \A p \in Operations : p # o => finished'[p] = finished[p]
      /\ registered' = registered \ {o}
  BY <1>1 DEF FinishLocked, TypeOK
<1>3. pc' \in [Goroutines -> PcRecords]
  BY <1>1 DEF TypeOK, PcRecords
<1>4. TypeOK'
  <2>1. registered' \in SUBSET Operations
    BY <1>1, <1>2 DEF TypeOK
  <2> QED BY <1>1, <1>2, <1>3, <2>1, FinishedStacks DEF TypeOK, PcRecords
<1>5. Begun' = Begun /\ \A p \in Begun : p \in Operations
  BY <1>1 DEF Begun, TypeOK
<1>6. \A p \in OpenWorlds' : p \in OpenWorlds /\ p # o
  BY <1>2, <1>5 DEF OpenWorlds
<1>7. ASSUME NEW h \in Goroutines PROVE GoodPc(h, pc[h])'
  <2>1. CASE h = g
    BY <1>1, <2>1 DEF GoodPc, Seen, FailPc, Held
  <2>2. CASE h # g
    <3>1. PICK r \in PcRecords : r = pc[h] /\ GoodPc(h, r)
      BY <1>1 DEF IInv, TypeOK, PcRecords
    <3>2. pc'[h] = r
      BY <1>1, <2>2, <3>1
    <3>3. \A p \in Operations : operationMu[p] = h =>
            operationMu'[p] = h /\ finished'[p] = finished[p]
      BY <1>2, <2>2, GoAssumption
    <3>4. r.at = "closing" => projectMu' = h /\ engineOpen'
      BY <3>1 DEF GoodPc
    <3>5. GoodPc(h, r)'
      BY <1>5, <1>6, <3>1, <3>3, <3>4, GoodPcKept
    <3> QED BY <3>2, <3>5 DEF GoodPc, Seen, FailPc, Held
  <2> QED BY <2>1, <2>2
<1>8. ASSUME NEW p \in Operations, p # o, Taken(p) PROVE Taken(p)'
  BY <1>1, <1>8 DEF Taken
<1>9. ASSUME NEW p \in Operations PROVE GoodOperation(p)'
  <2>1. GoodOperation(p) /\ (OnStack(p)' <=> p # o /\ OnStack(p))
    BY FinishedStacks DEF IInv
  <2>2. CASE p = o
    BY <1>2, <1>5, <2>1, <2>2 DEF GoodOperation
  <2>3. CASE p # o
    <3>1. p \in registered' <=> p \in registered
      BY <1>2, <2>3
    <3>2. finished'[p] = finished[p] /\ fate'[p] = fate[p]
      BY <1>2, <2>3
    <3>3. p \in Begun /\ ~finished[p] => fate[p] = "live" /\ (p \in registered' \/ Taken(p)')
      BY <1>8, <2>1, <2>3, <3>1 DEF GoodOperation
    <3>4. HostQuiesces /\ p \in noticed =>
            /\ p \in Begun /\ fate'[p] # "sent"
            /\ finished'[p] \/ (~worldComplete'[p] /\ (unowned'[p] \/ closed'))
      BY <2>1, <3>2 DEF GoodOperation
    <3> QED BY <1>5, <2>1, <2>3, <3>1, <3>2, <3>3, <3>4 DEF GoodOperation
  <2> QED BY <2>2, <2>3
<1>10. Closing'
  <2>1. closed /\ engineOpen => \E h \in Goroutines : pc'[h].at = "closing"
    BY <1>1 DEF IInv, Closing
  <2>2. closed => registered' = {}
    BY <1>2 DEF IInv, Closing
  <2> QED BY <2>1, <2>2 DEF IInv, Closing
<1>11. ClosedMeansFinished'
  <2> SUFFICES ASSUME ~engineOpen PROVE ClosedMeansFinished'
    BY DEF ClosedMeansFinished
  <2>1. /\ registered = {} /\ \A p \in Begun : finished[p] /\ fate[p] \in {"local", "sent"}
        /\ \A h \in Goroutines : stack[h] = <<>>
    BY DEF IInv, ClosedMeansFinished
  <2>2. \A p \in Begun : finished'[p] /\ fate'[p] \in {"local", "sent"}
    BY <1>2, <1>5, <2>1
  <2>3. \A h \in Goroutines : stack'[h] = <<>>
    BY <2>1 DEF FinishLocked, WithoutOperation
  <2> QED BY <1>2, <1>5, <2>1, <2>2, <2>3 DEF ClosedMeansFinished
<1> QED BY <1>4, <1>7, <1>9, <1>10, <1>11, FinishedStacks DEF IInv, Distinct

(* abandonLocked by a goroutine, of an operation that is not finished. *)
LEMMA AbandonStep ==
  ASSUME IInv, NEW g \in Goroutines, NEW o \in Operations, o \in Begun, NEW q \in PcRecords,
         pc' = [pc EXCEPT ![g] = q], GoodPc(g, q)',
         operationMu[o] \in {g, NoGoroutine},
         q.at # "closing", pc[g].at # "closing",
         AbandonLocked(o),
         operationMu' = operationMu \/ operationMu' = [operationMu EXCEPT ![o] = NoGoroutine],
         UNCHANGED <<closed, engineOpen, projectMu, started, worldComplete, unowned, sinks, waiter,
                     historyVars>>
  PROVE  IInv'
<1>1. TypeOK
  BY DEF IInv
<1>2. /\ fate' \in [Operations -> Fates] /\ fate'[o] = "local"
      /\ \A p \in Operations : p # o => fate'[p] = fate[p]
  BY <1>1 DEF AbandonLocked, NativeEnd, TypeOK, Fates
<1>3. observing' \in [Operations -> SUBSET Goroutines] /\ sinks' \in SUBSET Operations
  BY <1>1 DEF AbandonLocked, NativeEnd, TypeOK
<1>4. /\ operationMu' \in [Operations -> Goroutines \cup {NoGoroutine}]
      /\ \A p \in Operations : p # o => operationMu'[p] = operationMu[p]
  BY <1>1 DEF TypeOK
<1>5. FinishLocked(o)
  BY DEF AbandonLocked
<1> QED BY <1>2, <1>3, <1>4, <1>5, FinishStep

(* Finishing an operation nobody holds disturbs no goroutine's call. *)
LEMMA FreeFinishKept ==
  ASSUME IInv, NEW g \in Goroutines, NEW o \in Operations, o \in Begun, Free(o),
         NEW q \in PcRecords, GoodPc(g, q), FinishLocked(o),
         fate'[o] # "absent", \A p \in Operations : p # o => fate'[p] = fate[p],
         UNCHANGED <<closed, engineOpen, projectMu, operationMu, worldComplete, unowned>>
  PROVE  GoodPc(g, q)'
<1>1. TypeOK
  BY DEF IInv
<1>2. /\ finished'[o] /\ \A p \in Operations : p # o => finished'[p] = finished[p]
  BY <1>1 DEF FinishLocked, TypeOK
<1>3. \A p : p \in Begun' <=> p \in Begun
  BY DEF Begun
<1>4. \A p \in Begun : p \in OpenWorlds' => p \in OpenWorlds
  BY <1>2, <1>3 DEF OpenWorlds, Begun
<1>5. \A p \in Operations : operationMu[p] = g => operationMu'[p] = g /\ finished'[p] = finished[p]
  BY <1>2, GoAssumption DEF Free
<1>6. q.at = "closing" => projectMu' = g /\ engineOpen'
  BY DEF GoodPc
<1>7. \A p \in Begun : unowned[p] => unowned'[p]
  OBVIOUS
<1> QED BY <1>3, <1>4, <1>5, <1>6, <1>7, GoodPcKept

(* Abandoning an operation finishes it and keeps it local. *)
LEMMA AbandonedFate ==
  ASSUME IInv, NEW o \in Operations, AbandonLocked(o)
  PROVE  /\ FinishLocked(o)
         /\ fate'[o] = "local" /\ \A p \in Operations : p # o => fate'[p] = fate[p]
<1>1. fate \in [Operations -> Fates]
  BY DEF IInv, TypeOK
<1> QED BY <1>1 DEF AbandonLocked, NativeEnd

(* EndOperation keeps IInv. *)
LEMMA EndOperationStep ==
  ASSUME IInv, NEW g \in Goroutines, NEW o \in Operations, EndOperation(g, o)
  PROVE  IInv'
<1>1. PICK q \in PcRecords : q = pc[g]
  BY DEF IInv, TypeOK, PcRecords
<1>2. /\ pc[g].at = "out" /\ o \in Begun /\ Free(o) /\ AbandonLocked(o)
      /\ operationMu' = operationMu /\ pc' = pc
      /\ UNCHANGED <<closed, engineOpen, projectMu, started, worldComplete, unowned, sinks, waiter,
                     historyVars>>
  BY DEF EndOperation
<1>3. pc' = [pc EXCEPT ![g] = q]
  BY <1>1, <1>2 DEF IInv, TypeOK
<1>4. GoodPc(g, q)
  BY <1>1 DEF IInv
<1>5. GoodPc(g, q)'
  BY <1>2, <1>4, AbandonedFate, FreeFinishKept
<1>6. operationMu[o] \in {g, NoGoroutine} /\ q.at # "closing"
  BY <1>1, <1>2 DEF Free
<1> QED BY <1>1, <1>2, <1>3, <1>5, <1>6, AbandonStep

(* FailIncomplete keeps IInv. *)
LEMMA FailIncompleteStep ==
  ASSUME IInv, NEW g \in Goroutines, FailIncomplete(g)
  PROVE  IInv'
<1>1. PICK o \in Operations : o = pc[g].op /\ o \in Begun
  BY DEF FailIncomplete, IInv, GoodPc, Begun
<1>2. /\ pc[g].at = "failLock" /\ Free(o) /\ AbandonLocked(o)
      /\ operationMu' = operationMu /\ pc' = [pc EXCEPT ![g] = Out]
      /\ UNCHANGED <<closed, engineOpen, projectMu, started, worldComplete, unowned, sinks, waiter,
                     historyVars>>
  BY <1>1 DEF FailIncomplete, MayFail
<1>3. GoodPc(g, Out)'
  BY OutRecord DEF GoodPc, Seen, FailPc
<1>4. operationMu[o] \in {g, NoGoroutine}
  BY <1>2 DEF Free
<1> QED BY <1>1, <1>2, <1>3, <1>4, OutRecord, AbandonStep

(* A Fail that got no token, or that the engine rejects, abandons. *)
LEMMA FailAbandonStep ==
  ASSUME IInv, NEW g \in Goroutines, TokenRefused(g) \/ FailRejected(g)
  PROVE  IInv'
<1>1. PICK o \in Operations : o = pc[g].op /\ Held(g, o)
  BY DEF TokenRefused, FailRejected, IInv, GoodPc, Held
<1>2. /\ pc[g].at # "closing" /\ AbandonLocked(o)
      /\ operationMu' = [operationMu EXCEPT ![o] = NoGoroutine] /\ pc' = [pc EXCEPT ![g] = Out]
      /\ UNCHANGED <<closed, engineOpen, projectMu, started, worldComplete, unowned, sinks, waiter,
                     historyVars>>
  BY <1>1 DEF TokenRefused, FailRejected
<1>3. GoodPc(g, Out)'
  BY OutRecord DEF GoodPc, Seen, FailPc
<1>4. operationMu[o] \in {g, NoGoroutine} /\ o \in Begun
  BY <1>1 DEF Held
<1> QED BY <1>1, <1>2, <1>3, <1>4, OutRecord, AbandonStep

(* FailAccepted keeps IInv. *)
LEMMA FailAcceptedStep ==
  ASSUME IInv, NEW g \in Goroutines, FailAccepted(g)
  PROVE  IInv'
<1>1. PICK o \in Operations : o = pc[g].op /\ Held(g, o)
  BY DEF FailAccepted, IInv, GoodPc, Held
<1>2. PICK q : q = At("sinkWait", o, {}, {}, {}, None)
  OBVIOUS
<1>3. /\ pc[g].at = "failNative" /\ engineOpen /\ FinishLocked(o)
      /\ fate' = [fate EXCEPT ![o] = "sent"] /\ observing' = [observing EXCEPT ![o] = {}]
      /\ sinks' = sinks \cup {o} /\ pc' = [pc EXCEPT ![g] = q] /\ operationMu' = operationMu
      /\ UNCHANGED <<closed, engineOpen, projectMu, started, worldComplete, unowned, waiter,
                     historyVars>>
  BY <1>1, <1>2 DEF FailAccepted, NativeEnd
<1>4. /\ q \in PcRecords /\ q.at = "sinkWait" /\ q.op = o /\ q.rest = {} /\ q.found = {}
      /\ q.window = {} /\ q.inFail = None
  BY <1>2, PcRecord DEF Points
<1>5. TypeOK /\ GoodPc(g, pc[g]) /\ GoodOperation(o)
  BY DEF IInv
<1>6. /\ fate' \in [Operations -> Fates] /\ fate'[o] = "sent"
      /\ \A p \in Operations : p # o => fate'[p] = fate[p]
      /\ observing' \in [Operations -> SUBSET Goroutines]
      /\ sinks' \in SUBSET Operations
  BY <1>3, <1>5 DEF TypeOK, Fates
<1>7. HostQuiesces => ~closed
  BY <1>3, <1>5 DEF GoodPc, FailPc
<1>8. operationMu[o] = g /\ o \in Begun /\ (HostQuiesces => o \notin noticed)
  BY <1>1, <1>5 DEF Held, GoodOperation
<1>9. GoodPc(g, q)'
  BY <1>3, <1>4, <1>7, <1>8 DEF GoodPc, Seen
<1>10. /\ operationMu' \in [Operations -> Goroutines \cup {NoGoroutine}]
       /\ \A p \in Operations : p # o => operationMu'[p] = operationMu[p]
  BY <1>3, <1>5 DEF TypeOK
<1> QED BY <1>3, <1>4, <1>6, <1>8, <1>9, <1>10, FinishStep

(* ObservationRefused keeps IInv. *)
LEMMA ObservationRefusedStep ==
  ASSUME IInv, NEW g \in Goroutines, ObservationRefused(g)
  PROVE  IInv'
<1>1. PICK o \in Operations : o = pc[g].op /\ o \in Begun
  BY DEF ObservationRefused, IInv, GoodPc, Begun
<1>2. PICK q : q = At("read", None, {}, {o}, {o}, pc[g].inFail)
  OBVIOUS
<1>3. /\ pc[g].at = "open" /\ Free(o) /\ AbandonLocked(o)
      /\ operationMu' = operationMu /\ pc' = [pc EXCEPT ![g] = q]
      /\ UNCHANGED <<closed, engineOpen, projectMu, started, worldComplete, unowned, sinks, waiter,
                     historyVars>>
  BY <1>1, <1>2 DEF ObservationRefused
<1>4. q \in PcRecords /\ q.at # "closing" /\ GoodPc(g, q)
  BY <1>1, <1>2, HookStepKept
<1>5. GoodPc(g, q)'
  BY <1>1, <1>3, <1>4, AbandonedFate, FreeFinishKept
<1>6. operationMu[o] \in {g, NoGoroutine}
  BY <1>3 DEF Free
<1> QED BY <1>1, <1>3, <1>4, <1>5, <1>6, AbandonStep

(* MarkRefused keeps IInv. *)
LEMMA MarkRefusedStep ==
  ASSUME IInv, NEW g \in Goroutines, NEW o \in Operations, MarkRefused(g, o)
  PROVE  IInv'
<1>1. PICK rest \in SUBSET Operations, window \in SUBSET Operations,
           inFail \in Operations \cup {None} :
        rest = pc[g].rest \ {o} /\ window = pc[g].window /\ inFail = pc[g].inFail
  BY DEF IInv, TypeOK
<1>2. PICK q : q = At("mark", None, rest, {}, window, inFail)
  OBVIOUS
<1>3. /\ pc[g].at = "mark" /\ o \in pc[g].rest /\ Free(o) /\ AbandonLocked(o)
      /\ operationMu' = operationMu /\ pc' = [pc EXCEPT ![g] = q]
      /\ UNCHANGED <<closed, engineOpen, projectMu, started, worldComplete, unowned, sinks, waiter,
                     historyVars>>
  BY <1>1, <1>2 DEF MarkRefused
<1>4. /\ q \in PcRecords /\ q.at = "mark" /\ q.op = None /\ q.rest = rest /\ q.found = {}
      /\ q.window = window /\ q.inFail = inFail
  BY <1>2 DEF At, PcRecords, Points
<1>5. TypeOK /\ GoodPc(g, pc[g]) /\ o \in Begun /\ FinishLocked(o)
  BY <1>3 DEF IInv, GoodPc, AbandonLocked
<1>6. Begun' = Begun
  BY <1>5, <1>3, AbandonedFate DEF Begun
<1>7. /\ finished'[o] /\ \A p \in Operations : p # o => finished'[p] = finished[p]
  BY <1>5 DEF FinishLocked, TypeOK
<1>8. Seen(q)'
  <2> SUFFICES ASSUME NEW p \in window, p \in OpenWorlds'
               PROVE  p \in q.rest \cup q.found \/ unowned'[p] \/ closed'
    BY <1>4 DEF Seen
  <2>1. p \in OpenWorlds /\ p # o
    BY <1>3, <1>6, <1>7 DEF OpenWorlds, Begun
  <2>2. p \in pc[g].rest \/ unowned[p] \/ closed
    BY <1>1, <1>3, <1>5, <2>1 DEF GoodPc, Seen
  <2> QED BY <1>1, <1>3, <1>4, <2>1, <2>2
<1>9. q.inFail # None => Held(g, q.inFail)'
  <2> SUFFICES ASSUME inFail # None PROVE Held(g, inFail)'
    BY <1>4
  <2>1. Held(g, inFail)
    BY <1>1, <1>5 DEF GoodPc
  <2>2. inFail # o
    BY <1>3, <2>1, GoAssumption DEF Held, Free
  <2> QED BY <1>3, <1>6, <1>7, <2>1, <2>2 DEF Held
<1>10. HostQuiesces /\ closed' /\ engineOpen' => ~FailPc(q)
  BY <1>1, <1>3, <1>4, <1>5 DEF GoodPc, FailPc
<1>11. GoodPc(g, q)'
  <2>1. rest \subseteq Begun /\ window \subseteq Begun
    BY <1>1, <1>5 DEF GoodPc
  <2> QED BY <1>4, <1>6, <1>8, <1>9, <1>10, <2>1 DEF GoodPc, FailPc
<1>12. operationMu[o] \in {g, NoGoroutine}
  BY <1>3 DEF Free
<1> QED BY <1>3, <1>4, <1>5, <1>11, <1>12, AbandonStep

(* CloseOperation keeps IInv. *)
LEMMA CloseOperationStep ==
  ASSUME IInv, NEW g \in Goroutines, NEW o \in Operations, CloseOperation(g, o)
  PROVE  IInv'
<1>1. PICK rest \in SUBSET Operations : rest = pc[g].rest \ {o}
  BY DEF IInv, TypeOK
<1>2. PICK q : q = At("closing", None, rest, {}, {}, None)
  OBVIOUS
<1>3. /\ pc[g].at = "closing" /\ o \in pc[g].rest /\ Free(o) /\ FinishLocked(o)
      /\ operationMu' = operationMu /\ pc' = [pc EXCEPT ![g] = q]
      /\ fate' = fate /\ observing' = observing /\ sinks' = sinks
      /\ UNCHANGED <<closed, engineOpen, projectMu, started, worldComplete, unowned, waiter,
                     historyVars>>
  BY <1>1, <1>2 DEF CloseOperation, nativeVars
<1>4. /\ q \in PcRecords /\ q.at = "closing" /\ q.op = None /\ q.rest = rest /\ q.found = {}
      /\ q.window = {} /\ q.inFail = None
  BY <1>2, PcRecord DEF Points
<1>5. TypeOK /\ GoodPc(g, pc[g]) /\ GoodOperation(o)
  BY DEF IInv
<1>6. o \in Begun /\ rest \subseteq Begun /\ projectMu = g /\ closed /\ engineOpen
  BY <1>1, <1>3, <1>5 DEF GoodPc
<1>7. GoodPc(g, q)
  BY <1>4, <1>6 DEF GoodPc, Seen, FailPc
<1>8. fate'[o] # "absent" /\ (HostQuiesces /\ o \in noticed => fate'[o] # "sent")
  BY <1>3, <1>5, <1>6 DEF GoodOperation, Begun
<1>9. GoodPc(g, q)'
  BY <1>3, <1>4, <1>6, <1>7, <1>8, FreeFinishKept
<1>10. /\ operationMu' \in [Operations -> Goroutines \cup {NoGoroutine}]
       /\ observing' \in [Operations -> SUBSET Goroutines]
       /\ sinks' \in SUBSET Operations /\ fate' \in [Operations -> Fates]
  BY <1>3, <1>5 DEF TypeOK
<1>11. operationMu[o] \in {g, NoGoroutine} /\ \A p \in pc[g].rest : p # o => p \in q.rest
  BY <1>1, <1>3, <1>4 DEF Free
<1> QED BY <1>3, <1>4, <1>6, <1>8, <1>9, <1>10, <1>11, FinishStep

-----------------------------------------------------------------------------
(***************************************************************************)
(* An operation starts, and the project closes.                            *)
(***************************************************************************)
LEMMA StartOperationStep ==
  ASSUME IInv, NEW g \in Goroutines, StartOperation(g)
  PROVE  IInv'
<1> USE DEF nativeVars, historyVars
<1>1. TypeOK
  BY DEF IInv
<1>2. PICK o : o = started + 1
  OBVIOUS
<1>3. o \in Operations /\ started \in Nat /\ o \in Nat /\ ~(o <= started)
  BY <1>1, <1>2, GoAssumption DEF StartOperation, TypeOK, Operations
<1>4. PICK room \in BOOLEAN : room <=> Cardinality(registered) < MaxActive
  OBVIOUS
<1>5. /\ ~closed /\ started' = started + 1
      /\ registered' = IF room THEN registered \cup {o} ELSE registered
      /\ stack' = [stack EXCEPT ![g] = IF room /\ GoroutineIds THEN Append(stack[g], o)
                                         ELSE stack[g]]
      /\ finished' = [finished EXCEPT ![o] = ~room]
      /\ fate' = [fate EXCEPT ![o] = IF room THEN "live" ELSE "local"]
      /\ UNCHANGED <<closed, engineOpen, projectMu, operationMu, worldComplete, nativeVars, waiter,
                     historyVars, pc>>
  BY <1>2, <1>4 DEF StartOperation, MayStart, NewOperation
<1>6. /\ finished' \in [Operations -> BOOLEAN] /\ finished'[o] = ~room
      /\ \A p \in Operations : p # o => finished'[p] = finished[p]
  BY <1>1, <1>3, <1>5 DEF TypeOK
<1>7. /\ fate' \in [Operations -> Fates] /\ fate'[o] = (IF room THEN "live" ELSE "local")
      /\ \A p \in Operations : p # o => fate'[p] = fate[p]
  BY <1>1, <1>3, <1>5 DEF TypeOK, Fates
<1>8. started' \in 0 .. MaxStarts
  BY <1>1, <1>3, <1>5, GoAssumption DEF StartOperation, TypeOK, Operations
<1>9. o \notin Begun /\ ~OnStack(o) /\ o \notin registered
  BY <1>3 DEF IInv, GoodOperation
<1>10. \A p \in Operations : p \in Begun' <=> p = o \/ p \in Begun
  BY <1>3, <1>7 DEF Begun
<1>11. /\ Begun \subseteq Operations /\ \A p \in Begun : p \in Begun'
       /\ \A p \in Begun : p \in OpenWorlds' => p \in OpenWorlds
  <2>1. Begun \subseteq Operations
    BY DEF Begun
  <2>2. \A p \in Begun : p # o
    BY <1>9
  <2> QED BY <1>5, <1>6, <1>10, <2>1, <2>2 DEF OpenWorlds
<1>12. /\ stack' \in [Goroutines -> Seq(Operations)]
       /\ \A h \in Goroutines : Distinct(stack'[h])
       /\ \A p \in Operations : OnStack(p)' <=> OnStack(p) \/ (p = o /\ room /\ GoroutineIds)
  <2>1. PICK s \in Seq(Operations) : s = stack[g] /\ Distinct(s)
    BY <1>1 DEF IInv, TypeOK
  <2>2. \A i \in DOMAIN s : s[i] # o
    BY <1>9, <2>1 DEF OnStack
  <2>3. PICK w : w = Append(s, o)
    OBVIOUS
  <2>4. Added(s, o, w)
    BY <1>3, <2>1, <2>2, <2>3, AppendFacts
  <2>5. CASE room /\ GoroutineIds
    <3>1. stack' = [stack EXCEPT ![g] = w]
      BY <1>5, <2>1, <2>3, <2>5
    <3>2. /\ stack' \in [Goroutines -> Seq(Operations)]
          /\ stack'[g] = w /\ \A h \in Goroutines : h # g => stack'[h] = stack[h]
      BY <1>1, <2>4, <3>1 DEF TypeOK, Added
    <3>3. ASSUME NEW h \in Goroutines PROVE Distinct(stack'[h])
      BY <2>4, <3>2 DEF IInv, Added
    <3>4. ASSUME NEW p \in Operations PROVE OnStack(p)' <=> OnStack(p) \/ p = o
      <4>1. (\E i \in DOMAIN stack'[g] : stack'[g][i] = p) <=>
              (p = o \/ \E i \in DOMAIN stack[g] : stack[g][i] = p)
        BY <2>1, <2>4, <3>2 DEF Added
      <4> QED BY <3>2, <4>1 DEF OnStack
    <3> QED BY <2>5, <3>2, <3>3, <3>4
  <2>6. CASE ~(room /\ GoroutineIds)
    <3>1. stack' = stack
      BY <1>1, <1>5, <2>6 DEF TypeOK
    <3> QED BY <1>1, <2>6, <3>1 DEF TypeOK, OnStack, IInv
  <2> QED BY <2>5, <2>6
<1>13. TypeOK'
  <2>1. registered' \in SUBSET Operations
    BY <1>1, <1>3, <1>5 DEF TypeOK
  <2> QED BY <1>1, <1>5, <1>6, <1>7, <1>8, <1>12, <2>1 DEF TypeOK
<1>14. ASSUME NEW h \in Goroutines PROVE GoodPc(h, pc[h])'
  <2>1. PICK r \in PcRecords : r = pc[h] /\ GoodPc(h, r)
    BY <1>1 DEF IInv, TypeOK, PcRecords
  <2>2. \A p \in Operations : operationMu[p] = h =>
          /\ operationMu'[p] = h
          /\ p \in Begun => finished'[p] = finished[p]
    BY <1>5, <1>6, <1>9
  <2>3. r.at = "closing" => projectMu' = h /\ engineOpen'
    BY <1>5, <2>1 DEF GoodPc
  <2>4. /\ \A p \in Begun : unowned[p] => unowned'[p]
        /\ closed' = closed /\ engineOpen' = engineOpen /\ worldComplete' = worldComplete
    BY <1>5
  <2>5. GoodPc(h, r)'
    BY <1>11, <2>1, <2>2, <2>3, <2>4, GoodPcKept
  <2>6. pc'[h] = r
    BY <1>5, <2>1
  <2> QED BY <2>5, <2>6 DEF GoodPc, Seen, FailPc, Held
<1>15. ASSUME NEW p \in Operations PROVE GoodOperation(p)'
  <2>1. GoodOperation(p) /\ (OnStack(p)' <=> OnStack(p) \/ (p = o /\ room /\ GoroutineIds))
    BY <1>12 DEF IInv
  <2>2. (p \in Begun' <=> p = o \/ p \in Begun) /\ (Taken(p)' <=> Taken(p))
    BY <1>5, <1>10 DEF Taken
  <2>3. p \in registered' <=> p \in registered \/ (p = o /\ room)
    BY <1>5
  <2>4. p \in Begun' <=> p <= started'
    <3>1. p \in Int
      BY DEF Operations
    <3> QED BY <1>2, <1>3, <1>5, <2>1, <2>2, <3>1 DEF GoodOperation
  <2>5. CASE p = o
    <3>1. HostQuiesces => p \notin noticed
      BY <1>9, <2>1, <2>5 DEF GoodOperation
    <3> QED BY <1>5, <1>6, <1>7, <1>9, <2>1, <2>2, <2>3, <2>4, <2>5, <3>1 DEF GoodOperation
  <2>6. CASE p # o
    <3>1. finished'[p] = finished[p] /\ fate'[p] = fate[p]
      BY <1>6, <1>7, <2>6
    <3> QED BY <1>5, <2>1, <2>2, <2>3, <2>4, <2>6, <3>1 DEF GoodOperation
  <2> QED BY <2>5, <2>6
<1>16. Closing' /\ ClosedMeansFinished'
  <2>1. engineOpen
    BY <1>5 DEF IInv, Closing
  <2> QED BY <1>5, <2>1 DEF Closing, ClosedMeansFinished
<1> QED BY <1>12, <1>13, <1>14, <1>15, <1>16 DEF IInv, Distinct

(* CloseBegin keeps IInv. *)
LEMMA CloseBeginStep ==
  ASSUME IInv, NEW g \in Goroutines, CloseBegin(g)
  PROVE  IInv'
<1> USE DEF nativeVars, historyVars
<1>1. TypeOK
  BY DEF IInv
<1>2. PICK q : q = At("closing", None, registered, {}, {}, None)
  OBVIOUS
<1>3. /\ pc[g].at = "out" /\ ~closed /\ closed' /\ projectMu' = g /\ registered' = {}
      /\ HostQuiesces => \A h \in Goroutines : ~InFail(h)
      /\ pc' = [pc EXCEPT ![g] = q] /\ closed' = TRUE
      /\ UNCHANGED <<engineOpen, operationMu, started, stack, finished, worldComplete, nativeVars,
                     waiter, fate, historyVars>>
  BY <1>2 DEF CloseBegin
<1>4. /\ q \in PcRecords /\ q.at = "closing" /\ q.op = None /\ q.rest = registered /\ q.found = {}
      /\ q.window = {} /\ q.inFail = None
  BY <1>2, PcRecord, RegisteredBegun DEF Points
<1>5. pc' \in [Goroutines -> PcRecords] /\ \A h \in Goroutines : pc'[h] = IF h = g THEN q ELSE pc[h]
  BY <1>1, <1>3, <1>4 DEF TypeOK, PcRecords
<1>6. TypeOK'
  BY <1>1, <1>3, <1>5 DEF TypeOK, PcRecords
<1>7. Begun' = Begun /\ OpenWorlds' = OpenWorlds
  BY <1>3 DEF Begun, OpenWorlds
<1>8. engineOpen /\ \A h \in Goroutines : pc[h].at # "closing"
  BY <1>3 DEF IInv, Closing, GoodPc
<1>9. GoodPc(g, q)'
  BY <1>3, <1>4, <1>7, <1>8, RegisteredBegun DEF GoodPc, Seen, FailPc
<1>10. ASSUME NEW h \in Goroutines PROVE GoodPc(h, pc[h])'
  <2>1. CASE h = g
    <3>1. pc'[h] = q
      BY <1>5, <2>1
    <3> QED BY <1>9, <2>1, <3>1 DEF GoodPc, Seen, FailPc, Held
  <2>2. CASE h # g
    <3>1. PICK r \in PcRecords : r = pc[h] /\ GoodPc(h, r)
      BY <1>1 DEF IInv, TypeOK, PcRecords
    <3>2. pc'[h] = r /\ r.at # "closing"
      BY <1>5, <1>8, <2>2, <3>1
    <3>3. HostQuiesces => ~FailPc(r)
      BY <1>3, <3>1 DEF FailPc, InFail
    <3>4. /\ \A p \in Operations : operationMu'[p] = operationMu[p]
          /\ \A p \in Operations : finished'[p] = finished[p]
          /\ \A p \in Begun : unowned'[p] = unowned[p]
          /\ worldComplete' = worldComplete
      BY <1>3
    <3>5. GoodPc(h, r)'
      BY <1>3, <1>7, <3>1, <3>2, <3>3, <3>4, GoodPcKept
    <3> QED BY <3>2, <3>5 DEF GoodPc, Seen, FailPc, Held
  <2> QED BY <2>1, <2>2
<1>11. ASSUME NEW p \in Operations PROVE GoodOperation(p)'
  <2>1. GoodOperation(p) /\ ~Taken(p)
    BY <1>8 DEF IInv, Taken
  <2>2. p \in registered => Taken(p)'
    BY <1>4, <1>5 DEF Taken
  <2>3. OnStack(p)' <=> OnStack(p)
    BY <1>3 DEF OnStack
  <2> QED BY <1>3, <1>7, <2>1, <2>2, <2>3 DEF GoodOperation
<1>12. \A h \in Goroutines : Distinct(stack'[h])
  BY <1>3 DEF IInv
<1>13. Closing' /\ ClosedMeansFinished'
  <2>1. pc'[g].at = "closing"
    BY <1>4, <1>5
  <2> QED BY <1>3, <1>8, <2>1 DEF Closing, ClosedMeansFinished
<1> QED BY <1>6, <1>10, <1>11, <1>12, <1>13 DEF IInv, Distinct

(* CloseEngine keeps IInv. *)
LEMMA CloseEngineStep ==
  ASSUME IInv, NEW g \in Goroutines, CloseEngine(g)
  PROVE  IInv'
<1> USE DEF registryVars, historyVars
<1>1. TypeOK /\ GoodPc(g, pc[g])
  BY DEF IInv
<1>2. /\ pc[g].at = "closing" /\ pc[g].rest = {} /\ ~engineOpen' /\ engineOpen' = FALSE
      /\ fate' = [o \in Operations |-> IF fate[o] = "live" THEN "local" ELSE fate[o]]
      /\ observing' = [o \in Operations |-> {}] /\ sinks' = {} /\ projectMu' = NoGoroutine
      /\ pc' = [pc EXCEPT ![g] = Out]
      /\ UNCHANGED <<closed, operationMu, started, registryVars, finished, worldComplete, unowned,
                     waiter, historyVars>>
  BY DEF CloseEngine
<1>3. /\ fate' \in [Operations -> Fates]
      /\ \A p \in Operations : fate'[p] = IF fate[p] = "live" THEN "local" ELSE fate[p]
  BY <1>1, <1>2 DEF TypeOK, Fates
<1>4. pc' \in [Goroutines -> PcRecords] /\ \A h \in Goroutines : pc'[h] = IF h = g THEN Out ELSE pc[h]
  BY <1>1, <1>2, OutRecord DEF TypeOK, PcRecords
<1>5. TypeOK'
  BY <1>1, <1>2, <1>3, <1>4 DEF TypeOK, PcRecords
<1>6. Begun' = Begun
  BY <1>3 DEF Begun
<1>7. OpenWorlds' = OpenWorlds
  BY <1>2, <1>6 DEF OpenWorlds
<1>8. closed /\ registered = {} /\ \A h \in Goroutines : h # g => pc[h].at # "closing"
  BY <1>1, <1>2 DEF IInv, GoodPc, Closing
<1>9. ASSUME NEW p \in Begun PROVE finished[p]
  <2>1. p \in Operations /\ GoodOperation(p)
    BY DEF IInv, Begun
  <2>2. ~Taken(p)
    BY <1>2, <1>8 DEF Taken
  <2> QED BY <1>8, <2>1, <2>2 DEF GoodOperation
<1>10. ASSUME NEW h \in Goroutines PROVE stack[h] = <<>>
  <2>1. stack[h] \in Seq(Operations)
    BY <1>1 DEF TypeOK
  <2>2. ASSUME stack[h] # <<>> PROVE FALSE
    <3>1. 1 \in DOMAIN stack[h] /\ stack[h][1] \in Operations
      BY <2>1, <2>2
    <3>2. OnStack(stack[h][1])
      BY <3>1 DEF OnStack
    <3> QED BY <1>9, <3>1, <3>2 DEF IInv, GoodOperation
  <2> QED BY <2>2
<1>11. ASSUME NEW h \in Goroutines PROVE GoodPc(h, pc[h])'
  <2>1. CASE h = g
    <3>1. pc'[h] = Out
      BY <1>4, <2>1
    <3> QED BY <3>1, OutRecord DEF GoodPc, Seen, FailPc
  <2>2. CASE h # g
    <3>1. PICK r \in PcRecords : r = pc[h] /\ GoodPc(h, r)
      BY <1>1 DEF IInv, TypeOK, PcRecords
    <3>2. pc'[h] = r /\ r.at # "closing"
      BY <1>4, <1>8, <2>2, <3>1
    <3>3. GoodPc(h, r)'
      BY <1>2, <1>6, <1>7, <3>1, <3>2, GoodPcKept
    <3> QED BY <3>2, <3>3 DEF GoodPc, Seen, FailPc, Held
  <2> QED BY <2>1, <2>2
<1>12. ASSUME NEW p \in Operations PROVE GoodOperation(p)'
  <2>1. GoodOperation(p) /\ (OnStack(p)' <=> OnStack(p))
    BY <1>2 DEF IInv, OnStack
  <2>2. fate[p] # "sent" => fate'[p] # "sent"
    BY <1>3
  <2> QED BY <1>2, <1>6, <1>9, <2>1, <2>2 DEF GoodOperation
<1>13. Closing'
  BY <1>2, <1>8 DEF Closing
<1>14. ClosedMeansFinished'
  <2>1. \A p \in Begun : fate'[p] \in {"local", "sent"}
    BY <1>1, <1>3 DEF Begun, TypeOK, Fates
  <2> QED BY <1>2, <1>6, <1>8, <1>9, <1>10, <2>1 DEF ClosedMeansFinished
<1>15. \A h \in Goroutines : Distinct(stack'[h])
  BY <1>2 DEF IInv
<1> QED BY <1>5, <1>11, <1>12, <1>13, <1>14, <1>15 DEF IInv, Distinct

-----------------------------------------------------------------------------
(* A step that changes nothing. *)
LEMMA StutterKept ==
  ASSUME IInv, UNCHANGED vars
  PROVE  IInv'
<1> USE DEF vars
<1>1. sinks' \in SUBSET Operations /\ waiter' \in [Operations -> WaiterStates]
  BY DEF IInv, TypeOK
<1> QED BY <1>1, PollerStep DEF registryVars, historyVars

(* Every step of a goroutine, a poller or the engine keeps IInv. *)
LEMMA InductiveStep == IInv /\ [Next]_vars => IInv'
<1> SUFFICES ASSUME IInv, [Next]_vars PROVE IInv'
  OBVIOUS
<1>1. CASE UNCHANGED vars
  BY <1>1, StutterKept
<1>2. ASSUME NEW g \in Goroutines, CallStep(g) PROVE IInv'
  BY <1>2, StartOperationStep, EndOperationStep, FailBeginStep, CloseBeginStep, ReadBeginStep,
     EnvironmentMutateStep DEF CallStep
<1>3. ASSUME NEW g \in Goroutines, FailStep(g) PROVE IInv'
  BY <1>3, FailFinishedStep, FailCloseWorldStep, FailIncompleteStep, TokenProvidedStep,
     FailAbandonStep, FailAcceptedStep, StartSinkWaitStep DEF FailStep
<1>4. ASSUME NEW g \in Goroutines, CloseStep(g) PROVE IInv'
  BY <1>4, CloseOperationStep, CloseEngineStep DEF CloseStep
<1>5. ASSUME NEW g \in Goroutines, HookStep(g) PROVE IInv'
  BY <1>5, EnvironmentSnapshotStep, CheckActiveStep, EnvironmentCheckedStep, ReadWithoutOwnerStep,
     ReadWithOwnerStep, ObservationOpenStep, ObservationRefusedStep, ObservationLateStep,
     ObservationFinishStep, ObservationAbandonStep, ReadValueStep, MarkUnownedStep, MarkRefusedStep,
     HookReturnStep DEF HookStep
<1> QED BY <1>1, <1>2, <1>3, <1>4, <1>5, PollStepKept DEF Next

(* IInv is an invariant of the specification. *)
LEMMA Invariant == Spec => []IInv
BY InductiveInit, InductiveStep, PTL DEF Spec

-----------------------------------------------------------------------------
(* However the goroutines interleave, the stacks hold exactly the unfinished  *)
(* operations, and so does the registry but for what a running Close took     *)
(* from it (registerAutomaticOperation, unregisterAutomaticOperation,         *)
(* project.Close).                                                            *)
THEOREM RegistryExactHolds == Spec => []RegistryExact
<1>1. IInv => RegistryExact
  <2> SUFFICES ASSUME IInv PROVE RegistryExact
    OBVIOUS
  <2>1. ASSUME NEW o \in Begun
        PROVE  /\ o \in Operations /\ GoodOperation(o)
               /\ Taken(o) => o \in UNION {pc[g].rest : g \in {h \in Goroutines : pc[h].at = "closing"}}
    BY DEF Begun, IInv, Taken
  <2>2. ASSUME NEW o \in Begun PROVE GoroutineIds /\ ~finished[o] <=> OnStack(o)
    BY <2>1 DEF GoodOperation
  <2>3. ASSUME NEW o \in Begun
        PROVE  /\ o \in registered => ~finished[o]
               /\ ~finished[o] => o \in registered \/ Taken(o)
    BY <2>1 DEF GoodOperation
  <2> QED BY <2>1, <2>2, <2>3 DEF RegistryExact, IInv, OnStack
<1> QED BY <1>1, Invariant, PTL

(* Once project.Close has closed the engine, every operation is finished,     *)
(* none is registered or on a stack, and no capture is left alive.            *)
THEOREM ClosedMeansFinishedHolds == Spec => []ClosedMeansFinished
<1>1. IInv => ClosedMeansFinished
  BY DEF IInv
<1> QED BY <1>1, Invariant, PTL

(* If the host closes the project only while no Fail runs, an operation that  *)
(* was active before and after an unattributed read or an environment change  *)
(* is never sent.                                                             *)
THEOREM NoticedStaysLocalHolds == HostQuiesces => (Spec => []NoticedStaysLocal)
<1> SUFFICES ASSUME HostQuiesces PROVE Spec => []NoticedStaysLocal
  OBVIOUS
<1>1. IInv => NoticedStaysLocal
  BY DEF IInv, TypeOK, GoodOperation, NoticedStaysLocal
<1> QED BY <1>1, Invariant, PTL

(* The step changes no fate, or that of one undecided operation. *)
LEMMA FateStep == IInv /\ [Next]_vars =>
                    (\A o \in Operations : fate[o] \in {"local", "sent"} => fate'[o] = fate[o])
<1> SUFFICES ASSUME IInv, [Next]_vars, NEW o \in Operations, fate[o] \in {"local", "sent"}
             PROVE  fate'[o] = fate[o]
  OBVIOUS
<1>1. TypeOK /\ GoodOperation(o) /\ o \in Begun /\ finished[o]
  BY DEF IInv, GoodOperation, Begun
<1>2. ASSUME NEW p \in Operations, ~finished[p], NEW result,
             fate' = [fate EXCEPT ![p] = result]
      PROVE  fate'[o] = fate[o]
  BY <1>1, <1>2 DEF TypeOK
<1>3. ASSUME NEW g \in Goroutines, CallStep(g) PROVE fate'[o] = fate[o]
  <2>1. CASE StartOperation(g)
    <3>1. started \in Nat /\ o <= started /\ NewOperation # o
      BY <1>1 DEF TypeOK, GoodOperation, NewOperation, Operations
    <3>2. fate'[o] = fate[o]
      BY <1>1, <2>1, <3>1 DEF StartOperation, TypeOK
    <3> QED BY <3>2
  <2>2. ASSUME NEW p \in Operations, EndOperation(g, p) PROVE fate'[o] = fate[o]
    BY <1>2, <2>2 DEF EndOperation, AbandonLocked, NativeEnd
  <2> QED BY <1>3, <2>1, <2>2
        DEF CallStep, FailBegin, CloseBegin, ReadBegin, EnvironmentMutate
<1>4. ASSUME NEW g \in Goroutines, FailStep(g) PROVE fate'[o] = fate[o]
  <2>1. GoodPc(g, pc[g])
    BY DEF IInv
  <2>2. CASE FailIncomplete(g)
    <3>1. pc[g].op \in Operations /\ ~finished[pc[g].op]
      BY <2>1, <2>2 DEF FailIncomplete, MayFail, GoodPc, Begun
    <3> QED BY <1>2, <2>2, <3>1 DEF FailIncomplete, AbandonLocked, NativeEnd
  <2>3. CASE TokenRefused(g) \/ FailRejected(g) \/ FailAccepted(g)
    <3>1. pc[g].op \in Operations /\ ~finished[pc[g].op]
      BY <2>1, <2>3 DEF TokenRefused, FailRejected, FailAccepted, GoodPc, Held
    <3> QED BY <1>2, <2>3, <3>1
          DEF TokenRefused, FailRejected, FailAccepted, AbandonLocked, NativeEnd
  <2> QED BY <1>4, <2>2, <2>3
        DEF FailStep, FailFinished, FailCloseWorld, TokenProvided, StartSinkWait
<1>5. ASSUME NEW g \in Goroutines, CloseStep(g) PROVE fate'[o] = fate[o]
  BY <1>5 DEF CloseStep, CloseOperation, CloseEngine
<1>6. ASSUME NEW g \in Goroutines, HookStep(g) PROVE fate'[o] = fate[o]
  <2>1. GoodPc(g, pc[g])
    BY DEF IInv
  <2>2. CASE ObservationRefused(g)
    <3>1. pc[g].op \in Operations /\ ~finished[pc[g].op]
      BY <2>1, <2>2 DEF ObservationRefused, IsActive, GoodPc, Begun
    <3> QED BY <1>2, <2>2, <3>1 DEF ObservationRefused, AbandonLocked, NativeEnd
  <2>3. ASSUME NEW p \in Operations, MarkRefused(g, p) PROVE fate'[o] = fate[o]
    BY <1>2, <2>3 DEF MarkRefused, IsActive, AbandonLocked, NativeEnd
  <2> QED BY <1>6, <2>2, <2>3
        DEF HookStep, EnvironmentSnapshot, CheckActive, EnvironmentChecked, ReadWithoutOwner,
            ReadWithOwner, ObservationOpen, ObservationLate, ObservationFinish, ObservationAbandon,
            ReadValue, MarkUnowned, HookReturn
<1>7. ASSUME NEW p \in Operations, PollStep(p) PROVE fate'[o] = fate[o]
  BY <1>7 DEF PollStep, PollIdle, PollStop, PollLeave
<1>8. CASE UNCHANGED vars
  BY <1>8 DEF vars
<1> QED BY <1>3, <1>4, <1>5, <1>6, <1>7, <1>8 DEF Next

(* Succeed, Fail, Cancel and Close of one operation, from several goroutines  *)
(* in any order, decide its fate once.                                        *)
THEOREM FateDecidedOnceHolds == Spec => FateDecidedOnce
<1>1. IInv /\ [Next]_vars =>
        [\A o \in Operations : fate[o] \in {"local", "sent"} => fate'[o] = fate[o]]_vars
  BY FateStep
<1> QED BY <1>1, Invariant, PTL DEF Spec, FateDecidedOnce
=============================================================================
