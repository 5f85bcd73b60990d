----------------------- MODULE CandidatePipeline_proofs -----------------------
(***************************************************************************)
(* Proofs about CandidatePipeline and the StormGate it extends: that the   *)
(* gate suppresses (SuppressionHolds), that no candidate entry leaks or is *)
(* missing (CandidatesHeld), and that the accounts are exact and within    *)
(* their limits (AccountsAgree), for any number of operations, threads,    *)
(* sinks and failure identities and any limits that the assumptions allow. *)
(*                                                                         *)
(* The gate.  What the admissions since any time u have cost was in the    *)
(* bucket at u or has flowed in since (Budget).  With the limits of        *)
(* StormAssumption fewer than MaxIdentities identities suppress at a time, *)
(* so the gate never evicts one of them (Remembers).                       *)
(*                                                                         *)
(* The candidates.  At most one call has an operation once fail has taken  *)
(* it, and at each of its points it relies on a fact about the entry       *)
(* (GoodCall).  An entry has one keeper: a slot, a place in a queue, a     *)
(* worker, or the call (GoodOperation).  CallMoves and its corollaries     *)
(* carry IInv over a step of one call with its operation.                  *)
(*                                                                         *)
(* The accounts.  Total is a fold over a set; "Sums over the operations"   *)
(* proves what a change of one summand does to it.  Every sum then follows *)
(* from what kinds of change a step can make (RecordingKinds,              *)
(* CaptureKinds, SinkKinds).                                               *)
(***************************************************************************)
EXTENDS CandidatePipeline, FiniteSetTheorems, SequenceTheorems, TLAPS

(***************************************************************************)
(* The storm gate.                                                         *)
(***************************************************************************)
(* The identities the gate remembers as admitted at u or later. *)
Since(u) == {i \in Identities : admitted[i].at >= u}

(* What admissions since u have cost was in the bucket at u or has flowed in. *)
Budget == \A u \in 0 .. lastRefill :
  Cardinality(Since(u)) * TokenCost + tokens
    <= TokenCapacity + RefillRate * (lastRefill - u)

StormTyped ==
  /\ now \in Nat /\ lastRefill \in Nat /\ lastRefill <= now
  /\ tokens \in 0 .. TokenCapacity
  /\ admitted \in [Identities -> [at : Int, seen : Int]]
  /\ lastAdmission \in [Identities -> Int]
  /\ \A i \in Identities : -1 <= admitted[i].at /\ admitted[i].at <= lastRefill
  /\ IsFiniteSet(Since(0))

(* The last admission of an identity is remembered while it suppresses. *)
Remembers == \A i \in Identities :
  lastAdmission[i] >= 0 /\ now - lastAdmission[i] < Suppression
    => admitted[i].at = lastAdmission[i]

StormInv == StormTyped /\ Budget /\ Remembers

(* Products of naturals. *)
LEMMA Products ==
  /\ \A a, b, c \in Int : (a + b) * c = a * c + b * c
  /\ \A a, b, c \in Int : a * (b + c) = a * b + a * c
  /\ \A a, b \in Int, c \in Nat : a <= b => a * c <= b * c /\ c * a <= c * b
  /\ \A a, b \in Nat : a * b \in Nat
OBVIOUS

(* What is remembered since u is finite, and nothing is since later than the  *)
(* last refill.                                                               *)
LEMMA SinceFinite ==
  ASSUME StormTyped, NEW u \in Nat
  PROVE  /\ IsFiniteSet(Since(u)) /\ Cardinality(Since(u)) \in Nat
         /\ u > lastRefill => Cardinality(Since(u)) = 0
<1>1. Since(u) \subseteq Since(0)
  BY DEF Since, StormTyped
<1>2. IsFiniteSet(Since(u)) /\ Cardinality(Since(u)) \in Nat
  BY <1>1, FS_Subset, FS_CardinalityType DEF StormTyped
<1>3. u > lastRefill => Since(u) = {}
  BY DEF Since, StormTyped
<1> QED BY <1>2, <1>3, FS_EmptySet

(* refill keeps within the budget. *)
LEMMA RefillBudget ==
  ASSUME StormInv, NEW u \in 0 .. now
  PROVE  /\ Refilled \in 0 .. TokenCapacity
         /\ Cardinality(Since(u)) * TokenCost + Refilled <= TokenCapacity + RefillRate * (now - u)
<1> DEFINE n == Cardinality(Since(u))
<1>1. /\ StormTyped /\ n \in Nat /\ u \in Nat /\ (u > lastRefill => n = 0)
      /\ now \in Nat /\ lastRefill \in Nat /\ lastRefill <= now /\ tokens \in Nat
      /\ TokenCapacity \in Nat /\ RefillRate \in Nat /\ TokenCost \in Nat
  BY SinceFinite, StormAssumption DEF StormInv, StormTyped
<1>2. PICK flow \in Nat : flow = (now - lastRefill) * RefillRate
  BY <1>1, Products
<1>3. /\ Refilled \in 0 .. TokenCapacity
      /\ Refilled <= tokens + flow
  BY <1>1, <1>2 DEF Refilled
<1>4. CASE u <= lastRefill
  <2>1. PICK cost \in Nat, early \in Nat : cost = n * TokenCost /\ early = RefillRate * (lastRefill - u)
    BY <1>1, <1>4, Products
  <2>2. cost + tokens <= TokenCapacity + early
    BY <1>1, <1>4, <2>1 DEF StormInv, Budget
  <2>3. RefillRate * (now - u) = early + flow
    <3>1. now - u = (lastRefill - u) + (now - lastRefill)
      BY <1>1
    <3>2. RefillRate * ((lastRefill - u) + (now - lastRefill)) =
            RefillRate * (lastRefill - u) + RefillRate * (now - lastRefill)
      BY <1>1, Products
    <3>3. RefillRate * (now - lastRefill) = flow
      BY <1>1, <1>2
    <3> QED BY <2>1, <3>1, <3>2, <3>3
  <2> QED BY <1>1, <1>3, <2>1, <2>2, <2>3
<1>5. CASE u > lastRefill
  <2>1. RefillRate * (now - u) \in Nat
    BY <1>1, Products
  <2>2. n * TokenCost = 0
    BY <1>1, <1>5
  <2> QED BY <1>1, <1>3, <2>1, <2>2
<1> QED BY <1>1, <1>4, <1>5

(* The gate has room for every identity that still suppresses. *)
LEMMA RetainedFits ==
  ASSUME StormInv
  PROVE  IsFiniteSet(Retained) /\ Cardinality(Retained) < MaxIdentities
<1>1. /\ StormTyped /\ now \in Nat /\ Suppression \in Nat /\ TokenCapacity \in Nat
      /\ RefillRate \in Nat /\ TokenCost \in Nat \ {0} /\ MaxIdentities \in Nat
      /\ \A i \in Identities : admitted[i].at \in Int /\ admitted[i].at <= now
  <2>1. \A i \in Identities : admitted[i].at \in Int /\ admitted[i].at <= now
    BY DEF StormInv, StormTyped
  <2> QED BY <2>1, StormAssumption DEF StormInv, StormTyped
<1>2. PICK room \in Nat, flow \in Nat :
        /\ room = MaxIdentities * TokenCost /\ flow = RefillRate * Suppression
        /\ room > TokenCapacity + flow
  BY <1>1, Products, StormAssumption
<1>3. CASE Suppression = 0
  <2>1. Retained = {}
    BY <1>1, <1>3 DEF Retained, Suppressing
  <2>2. MaxIdentities > 0
    BY <1>1, <1>2
  <2> QED BY <2>1, <2>2, FS_EmptySet
<1>4. CASE Suppression > 0
  <2>1. PICK u \in 0 .. now : /\ now - u <= Suppression
                              /\ \A a \in Int : a >= 0 /\ now - a < Suppression => a >= u
    <3>1. CASE now < Suppression
      BY <1>1, <3>1
    <3>2. CASE now >= Suppression
      <4>1. now - Suppression + 1 \in 0 .. now
        BY <1>1, <1>4, <3>2
      <4> QED BY <1>1, <1>4, <3>2, <4>1
    <3> QED BY <1>1, <3>1, <3>2
  <2>2. Retained \subseteq Since(u)
    BY <1>1, <2>1 DEF Retained, Suppressing, Since
  <2>3. /\ IsFiniteSet(Retained) /\ Cardinality(Retained) \in Nat
        /\ Cardinality(Since(u)) \in Nat /\ Cardinality(Retained) <= Cardinality(Since(u))
    BY <1>1, <2>1, <2>2, SinceFinite, FS_Subset, FS_CardinalityType
  <2>4. PICK cost \in Nat, inflow \in Nat :
          cost = Cardinality(Since(u)) * TokenCost /\ inflow = RefillRate * (now - u)
    BY <1>1, <2>1, <2>3, Products
  <2>5. Refilled \in Nat /\ cost + Refilled <= TokenCapacity + inflow
    BY <1>1, <2>1, <2>4, RefillBudget
  <2>6. inflow <= flow
    BY <1>1, <1>2, <2>1, <2>4, Products
  <2>7. cost < room
    BY <1>1, <1>2, <2>5, <2>6
  <2>8. Cardinality(Since(u)) < MaxIdentities
    <3> SUFFICES ASSUME MaxIdentities <= Cardinality(Since(u)) PROVE FALSE
      BY <1>1, <2>3
    <3>1. MaxIdentities * TokenCost <= Cardinality(Since(u)) * TokenCost
      BY <1>1, <2>3, Products
    <3> QED BY <1>2, <2>4, <2>7, <3>1
  <2> QED BY <1>1, <2>3, <2>8
<1> QED BY <1>1, <1>3, <1>4

(* The gate forgets nothing that suppresses; an admission is one more. *)
LEMMA GateStep ==
  ASSUME StormInv, NEW i \in Identities, UNCHANGED now, lastRefill' = now,
         NEW entry \in [at : Int, seen : Int], admitted' = Remembered({}, i, entry),
         \/ /\ tokens' = Refilled
            /\ UNCHANGED lastAdmission
            /\ entry.at = admitted[i].at \/ (i \notin Retained /\ entry.at = -1)
         \/ /\ Refilled >= TokenCost
            /\ tokens' = Refilled - TokenCost
            /\ entry.at = now
            /\ lastAdmission' = [lastAdmission EXCEPT ![i] = now]
  PROVE  StormInv'
<1>1. /\ StormTyped /\ now \in Nat /\ lastRefill \in Nat /\ lastRefill <= now
      /\ TokenCapacity \in Nat /\ TokenCost \in Nat \ {0} /\ RefillRate \in Nat
      /\ admitted \in [Identities -> [at : Int, seen : Int]]
      /\ lastAdmission \in [Identities -> Int]
      /\ \A j \in Identities : -1 <= admitted[j].at /\ admitted[j].at <= now
  <2>1. \A j \in Identities : -1 <= admitted[j].at /\ admitted[j].at <= now
    BY DEF StormInv, StormTyped
  <2> QED BY <2>1, StormAssumption DEF StormInv, StormTyped
<1>2. Refilled \in 0 .. TokenCapacity
  <2>1. 0 \in 0 .. now
    BY <1>1
  <2> QED BY <2>1, RefillBudget
<1>3. /\ admitted' \in [Identities -> [at : Int, seen : Int]]
      /\ admitted'[i] = entry
      /\ \A j \in Identities : j # i /\ j \in Retained => admitted'[j] = admitted[j]
      /\ \A j \in Identities : j # i => admitted'[j].at = admitted[j].at \/ admitted'[j].at = -1
  BY <1>1 DEF Remembered, Never
<1>4. \A j \in Identities : -1 <= admitted'[j].at /\ admitted'[j].at <= now
  BY <1>1, <1>3
<1>5. ASSUME NEW u \in 0 .. now PROVE Since(u)' \subseteq Since(u) \cup {i}
  BY <1>1, <1>3, <1>5 DEF Since
<1>6. IsFiniteSet(Since(0)')
  <2>1. IsFiniteSet(Since(0) \cup {i})
    BY FS_AddElement DEF StormInv, StormTyped
  <2>2. Since(0)' \subseteq Since(0) \cup {i}
    BY <1>1, <1>5
  <2> QED BY <2>1, <2>2, FS_Subset
<1>7. StormTyped'
  <2>1. tokens' \in 0 .. TokenCapacity
    BY <1>1, <1>2
  <2>2. lastAdmission' \in [Identities -> Int]
    BY <1>1
  <2>3. now' \in Nat /\ lastRefill' \in Nat /\ lastRefill' <= now'
    BY <1>1
  <2> QED BY <1>3, <1>4, <1>6, <2>1, <2>2, <2>3 DEF StormTyped
<1>8. Budget'
  <2> SUFFICES ASSUME NEW u \in 0 .. now
               PROVE  Cardinality(Since(u)') * TokenCost + tokens'
                        <= TokenCapacity + RefillRate * (now - u)
    BY <1>1 DEF Budget
  <2>1. PICK n \in Nat, m \in Nat, flow \in Nat :
          /\ n = Cardinality(Since(u)) /\ m = Cardinality(Since(u)')
          /\ flow = RefillRate * (now - u)
          /\ m <= n + 1
          /\ Since(u)' \subseteq Since(u) => m <= n
    <3>1. IsFiniteSet(Since(u)) /\ Cardinality(Since(u)) \in Nat
      BY <1>1, SinceFinite
    <3>2. IsFiniteSet(Since(u) \cup {i}) /\ Cardinality(Since(u) \cup {i}) <= Cardinality(Since(u)) + 1
          /\ Cardinality(Since(u) \cup {i}) \in Nat
      <4>1. /\ IsFiniteSet(Since(u) \cup {i})
            /\ \/ Cardinality(Since(u) \cup {i}) = Cardinality(Since(u))
               \/ Cardinality(Since(u) \cup {i}) = Cardinality(Since(u)) + 1
        BY <3>1, FS_AddElement
      <4> QED BY <3>1, <4>1
    <3>3. IsFiniteSet(Since(u)') /\ Cardinality(Since(u)') \in Nat
          /\ Cardinality(Since(u)') <= Cardinality(Since(u) \cup {i})
      BY <1>5, <3>2, FS_Subset, FS_CardinalityType
    <3>4. Since(u)' \subseteq Since(u) => Cardinality(Since(u)') <= Cardinality(Since(u))
      BY <3>1, FS_Subset
    <3>5. RefillRate * (now - u) \in Nat
      BY <1>1, Products
    <3> QED BY <3>1, <3>2, <3>3, <3>4, <3>5
  <2>2. PICK cost \in Nat : cost = n * TokenCost /\ cost + Refilled <= TokenCapacity + flow
    BY <1>1, <2>1, RefillBudget, Products
  <2>3. CASE tokens' = Refilled /\ (entry.at = admitted[i].at \/ (i \notin Retained /\ entry.at = -1))
    <3>1. Since(u)' \subseteq Since(u)
      BY <1>1, <1>3, <2>3 DEF Since
    <3>2. m * TokenCost <= cost
      BY <1>1, <2>1, <2>2, <3>1, Products
    <3>3. m * TokenCost \in Nat
      BY <1>1, Products
    <3> QED BY <1>1, <1>2, <2>1, <2>2, <2>3, <3>2, <3>3
  <2>4. CASE Refilled >= TokenCost /\ tokens' = Refilled - TokenCost
    <3>1. (n + 1) * TokenCost = cost + TokenCost
      BY <1>1, <2>2, Products
    <3>2. m * TokenCost <= (n + 1) * TokenCost
      BY <1>1, <2>1, Products
    <3>3. m * TokenCost \in Nat
      BY <1>1, Products
    <3> QED BY <1>1, <1>2, <2>1, <2>2, <2>4, <3>1, <3>2, <3>3
  <2> QED BY <2>3, <2>4
<1>9. Remembers'
  <2> SUFFICES ASSUME NEW j \in Identities, lastAdmission'[j] >= 0,
                      now - lastAdmission'[j] < Suppression
               PROVE  admitted'[j].at = lastAdmission'[j]
    BY DEF Remembers
  <2>1. CASE lastAdmission' = [lastAdmission EXCEPT ![i] = now] /\ entry.at = now /\ j = i
    BY <1>1, <1>3, <2>1
  <2>2. CASE lastAdmission'[j] = lastAdmission[j]
             /\ (j = i => entry.at = admitted[i].at \/ (i \notin Retained /\ entry.at = -1))
    <3>1. admitted[j].at = lastAdmission[j]
      BY <2>2 DEF StormInv, Remembers
    <3>2. j \in Retained
      BY <2>2, <3>1 DEF Retained, Suppressing
    <3> QED BY <1>3, <2>2, <3>1, <3>2
  <2> QED BY <1>1, <2>1, <2>2
<1> QED BY <1>7, <1>8, <1>9 DEF StormInv

(* An entry of the gate, as a record. *)
LEMMA EntryRecord ==
  /\ \A a, b \in Int : Entry(a, b) \in [at : Int, seen : Int] /\ Entry(a, b).at = a
  /\ Never \in [at : Int, seen : Int] /\ Never.at = -1
BY DEF Entry, Never

(* admit, by its three answers; the clock. *)
LEMMA StormStep ==
  ASSUME StormInv,
         \/ \E i \in Identities : Admitted(i) \/ SuppressedExact(i) \/ SuppressedHighCardinality(i)
         \/ Tick
         \/ UNCHANGED stormVars
  PROVE  StormInv'
<1>0. /\ now \in Nat /\ Suppression \in Nat /\ lastRefill \in Nat
      /\ \A j \in Identities : admitted[j].at \in Int /\ lastAdmission[j] \in Int
  BY StormAssumption DEF StormInv, StormTyped
<1>1. ASSUME NEW i \in Identities, SuppressedExact(i) PROVE StormInv'
  <2>1. PICK entry \in [at : Int, seen : Int] :
          entry = Entry(admitted[i].at, now) /\ entry.at = admitted[i].at
    <3>1. admitted[i].at \in Int /\ now \in Int
      BY <1>0
    <3>2. Entry(admitted[i].at, now) \in [at : Int, seen : Int]
          /\ Entry(admitted[i].at, now).at = admitted[i].at
      BY <3>1, EntryRecord
    <3> QED BY <3>2
  <2> QED BY <1>1, <2>1, GateStep DEF SuppressedExact
<1>2. ASSUME NEW i \in Identities, SuppressedHighCardinality(i) PROVE StormInv'
  <2>1. PICK entry \in [at : Int, seen : Int] : entry = Never /\ entry.at = -1
    BY EntryRecord
  <2> QED BY <1>2, <2>1, GateStep DEF SuppressedHighCardinality
<1>3. ASSUME NEW i \in Identities, Admitted(i) PROVE StormInv'
  <2>1. PICK entry \in [at : Int, seen : Int] : entry = Entry(now, now) /\ entry.at = now
    <3>1. now \in Int
      BY <1>0
    <3>2. Entry(now, now) \in [at : Int, seen : Int] /\ Entry(now, now).at = now
      BY <3>1, EntryRecord
    <3> QED BY <3>2
  <2>2. admitted' = Remembered({}, i, entry)
    <3>1. Cardinality(Retained) < MaxIdentities
      BY RetainedFits
    <3>2. ~(Cardinality(Retained) >= MaxIdentities)
      BY <3>1, RetainedFits, FS_CardinalityType, StormAssumption
    <3> QED BY <1>3, <2>1, <3>2 DEF Admitted
  <2> QED BY <1>3, <2>1, <2>2, GateStep DEF Admitted
<1>4. CASE Tick
  <2>1. /\ now' = now + 1
        /\ UNCHANGED <<tokens, lastRefill, admitted, lastAdmission>>
    BY <1>4 DEF Tick
  <2>2. StormTyped' /\ Budget'
    BY <1>0, <2>1 DEF StormInv, StormTyped, Budget, Since
  <2>3. Remembers'
    BY <1>0, <2>1 DEF StormInv, Remembers
  <2> QED BY <2>2, <2>3 DEF StormInv
<1>5. CASE UNCHANGED stormVars
  <2>1. StormTyped' /\ Budget'
    BY <1>5 DEF StormInv, StormTyped, Budget, Since, stormVars
  <2>2. Remembers'
    BY <1>5 DEF StormInv, Remembers, stormVars
  <2> QED BY <2>1, <2>2 DEF StormInv
<1> QED BY <1>1, <1>2, <1>3, <1>4, <1>5

(* The gate starts with a full bucket and no entries. *)
LEMMA StormStart == StormInit => StormInv
<1> SUFFICES ASSUME StormInit PROVE StormInv
  OBVIOUS
<1>1. /\ now = 0 /\ lastRefill = 0 /\ tokens = TokenCapacity
      /\ \A i \in Identities : admitted[i].at = -1 /\ lastAdmission[i] = -1
      /\ admitted \in [Identities -> [at : Int, seen : Int]]
      /\ lastAdmission \in [Identities -> Int]
  BY DEF StormInit, Never
<1>2. Since(0) = {}
  BY <1>1 DEF Since
<1>3. StormTyped
  <2>1. IsFiniteSet(Since(0))
    BY <1>2, FS_EmptySet
  <2> QED BY <1>1, <2>1, StormAssumption DEF StormTyped
<1>4. Budget
  <2> SUFFICES ASSUME NEW u \in 0 .. 0
               PROVE  Cardinality(Since(u)) * TokenCost + tokens <= TokenCapacity + RefillRate * (lastRefill - u)
    BY <1>1 DEF Budget
  <2>1. Cardinality(Since(u)) = 0 /\ u = 0
    BY <1>2, FS_EmptySet
  <2>2. 0 * TokenCost = 0 /\ RefillRate * (0 - 0) = 0
    BY StormAssumption
  <2> QED BY <1>1, <2>1, <2>2, StormAssumption
<1> QED BY <1>1, <1>3, <1>4 DEF StormInv, Remembers

-----------------------------------------------------------------------------
(***************************************************************************)
(* The pipeline.                                                           *)
(***************************************************************************)
CaptureRecords == [bytes : Int, state : {"none", "Handoff", "Retained"}]
CallRecords ==
  [at : CallPoints, op : Operations \cup {None}, seq : Nat, bytes : CandidateSizes \cup {0},
   sent : BOOLEAN]
WorkerRecords ==
  [at : WorkerPoints, op : Operations \cup {None}, bytes : CandidateSizes \cup {0}]
QueueRecords == [op : Operations, bytes : CandidateSizes, at : Nat]

PipelineTyped ==
  /\ records \in [Operations -> Nat]
  /\ candidate \in [Operations -> CaptureRecords]
  /\ slot \in [Operations -> Nat]
  /\ queue \in [Sinks -> Seq(QueueRecords)]
  /\ worker \in [Sinks -> WorkerRecords]
  /\ call \in [Callers -> CallRecords]
  /\ reported \in [Operations -> Answers]
  /\ delivered \in SUBSET Operations

(* A call or a worker that is somewhere has an operation, a sink its own ones. *)
GoodCaller(c) == call[c].at # "idle" => call[c].op \in Operations
GoodSink(s) ==
  /\ \A k \in 1 .. Len(queue[s]) : SinkOf(queue[s][k].op) = s
  /\ worker[s].at \in {"delivering", "releasing"} =>
       worker[s].op \in Operations /\ SinkOf(worker[s].op) = s

Kept(o) == slot[o] > 0 \/ Queued(o) \/ Working(o)
State(o) == candidate[o].state

(* Call c has taken operation o. *)
Past(c, o) == call[c].op = o /\ call[c].at \notin {"idle", "recorded"}

(* What call c with operation o relies on between its critical sections. *)
GoodCall(c, o) ==
  /\ records[o] = 0 /\ reported[o] # "suppressed"
  /\ call[c].at \in {"storm", "reserve"} => State(o) = "none" /\ o \notin delivered
  /\ call[c].at = "record" =>
       o \in Recorded /\ State(o) = "Handoff" /\ call[c].bytes \in CandidateSizes
  /\ call[c].at = "finalize" => o \in Recorded /\ State(o) = "none"
  /\ call[c].at \in {"claim", "count", "send"} => call[c].bytes \in CandidateSizes
  /\ call[c].at = "claim" => State(o) = IF o \in Recorded THEN "none" ELSE "Handoff"
  /\ call[c].at \in {"count", "send", "refuse"} => State(o) = "Retained" /\ ~Kept(o)
  /\ call[c].at \in {"claim", "count", "refuse"} => ~call[c].sent
  /\ call[c].at = "check" /\ ~call[c].sent => o \notin Recorded /\ State(o) # "Retained"
  /\ call[c].at = "check" /\ call[c].sent => (o \in Recorded => slot[o] > 0)
  /\ call[c].at = "keep" => (o \in Recorded => slot[o] > 0)
  /\ call[c].at = "drop" => ~Kept(o)

QueuedOnce(o) == \A j, k \in 1 .. Len(queue[SinkOf(o)]) :
  queue[SinkOf(o)][j].op = o /\ queue[SinkOf(o)][k].op = o => j = k

(* An operation that is recording has none of this; what is kept has one     *)
(* keeper, and its entry; an entry has a holder.                             *)
GoodOperation(o) ==
  /\ records[o] > 0 => State(o) = "none" /\ o \notin delivered /\ reported[o] # "suppressed"
  /\ Kept(o) => State(o) = "Retained"
  /\ Kept(o) \/ o \in delivered => reported[o] # "suppressed"
  /\ State(o) # "none" => InHand(o) \/ Kept(o)
  /\ slot[o] > 0 => ~Queued(o) /\ ~Working(o)
  /\ Queued(o) => ~Working(o)
  /\ QueuedOnce(o)
  /\ \A c \in Callers : Past(c, o) => GoodCall(c, o)
  /\ \A c, d \in Callers : Past(c, o) /\ Past(d, o) => c = d

IInv ==
  /\ StormInv
  /\ PipelineTyped
  /\ \A c \in Callers : GoodCaller(c)
  /\ \A s \in Sinks : GoodSink(s)
  /\ \A o \in Operations : GoodOperation(o)

(* Where a call has an entry in its hand that no sink has. *)
Hand(r) ==
  \/ r.at \in {"record", "claim", "count", "send", "refuse"}
  \/ r.at \in {"check", "drop"} /\ ~r.sent

(* No worker takes up or leaves a candidate. *)
WorkersKept ==
  /\ worker' \in [Sinks -> WorkerRecords]
  /\ \A s \in Sinks : worker'[s] = worker[s] \/
       (worker[s].at \notin {"delivering", "releasing"} /\ worker'[s].at \notin {"delivering", "releasing"})

(* The values of a call and of an entry, as records. *)
LEMMA PipelineRecords ==
  /\ \A at \in CallPoints, o \in Operations, seq \in Nat, bytes \in CandidateSizes \cup {0},
       sent \in BOOLEAN :
       /\ Calling(at, o, seq, bytes, sent) \in CallRecords
       /\ Calling(at, o, seq, bytes, sent).at = at /\ Calling(at, o, seq, bytes, sent).op = o
       /\ Calling(at, o, seq, bytes, sent).seq = seq
       /\ Calling(at, o, seq, bytes, sent).bytes = bytes
       /\ Calling(at, o, seq, bytes, sent).sent = sent
  /\ NoCall \in CallRecords /\ NoCall.at = "idle"
  /\ \A bytes \in Int, state \in {"none", "Handoff", "Retained"} :
       [bytes |-> bytes, state |-> state] \in CaptureRecords
  /\ NoCapture \in CaptureRecords /\ NoCapture.state = "none"
BY DEF Calling, CallRecords, NoCall, CallPoints, CaptureRecords, NoCapture

(* The worker of a sink, as a record. *)
LEMMA WorkerRecord ==
  ASSUME NEW at \in WorkerPoints, NEW o \in Operations \cup {None}, NEW bytes \in CandidateSizes \cup {0}
  PROVE  WorkerAt(at, o, bytes) \in WorkerRecords /\ WorkerAt(at, o, bytes).at = at
         /\ WorkerAt(at, o, bytes).op = o
BY DEF WorkerAt, WorkerRecords

(* The sink of an operation; a recorded operation has its sink to itself. *)
LEMMA SinkOfOperation ==
  ASSUME NEW o \in Operations
  PROVE  /\ SinkOf(o) \in Sinks
         /\ o \in Recorded => \A p \in Operations : SinkOf(p) = o => p = o
BY PipelineAssumption DEF SinkOf, Sinks

(* Who keeps what when the queues and the workers stay. *)
LEMMA KeepersKept ==
  ASSUME UNCHANGED queue, WorkersKept, NEW o \in Operations
  PROVE  /\ Queued(o)' <=> Queued(o)
         /\ Working(o)' <=> Working(o)
         /\ QueuedOnce(o)' <=> QueuedOnce(o)
         /\ slot'[o] = slot[o] => (Kept(o)' <=> Kept(o))
<1>1. SinkOf(o) \in Sinks /\ SinkOf(o)' = SinkOf(o)
  BY SinkOfOperation DEF SinkOf
<1>2. Working(o)' <=> Working(o)
  BY <1>1 DEF Working, WorkersKept
<1>3. Queued(o)' <=> Queued(o)
  BY <1>1 DEF Queued
<1>4. QueuedOnce(o)' <=> QueuedOnce(o)
  BY <1>1 DEF QueuedOnce
<1> QED BY <1>2, <1>3, <1>4 DEF Kept

(* An operation nobody touches. *)
LEMMA OperationKept ==
  ASSUME NEW o \in Operations, GoodOperation(o),
         records'[o] = records[o], candidate'[o] = candidate[o], slot'[o] = slot[o],
         reported'[o] = reported[o], o \in delivered' <=> o \in delivered,
         Queued(o)' <=> Queued(o), Working(o)' <=> Working(o), QueuedOnce(o)',
         \A d \in Callers : call'[d] = call[d] \/ (~Past(d, o) /\ ~Past(d, o)')
  PROVE  GoodOperation(o)'
<1>1. (Kept(o)' <=> Kept(o)) /\ State(o)' = State(o)
  BY DEF Kept, State
<1>2. ASSUME NEW d \in Callers, Past(d, o)' PROVE Past(d, o) /\ call'[d] = call[d]
  BY <1>2 DEF Past
<1>3. ASSUME NEW d \in Callers, Past(d, o)' PROVE GoodCall(d, o)'
  <2>1. GoodCall(d, o) /\ call'[d] = call[d]
    BY <1>2, <1>3 DEF GoodOperation
  <2> QED BY <1>1, <2>1 DEF GoodCall
<1>4. InHand(o) => InHand(o)'
  <2> SUFFICES ASSUME NEW d \in Callers, call[d].op = o,
                      \/ call[d].at \in {"record", "claim", "count", "send", "refuse"}
                      \/ call[d].at \in {"check", "drop"} /\ ~call[d].sent
               PROVE  InHand(o)'
    BY DEF InHand
  <2>1. call'[d] = call[d]
    BY DEF Past
  <2> QED BY <2>1 DEF InHand
<1>5. \A d, e \in Callers : Past(d, o)' /\ Past(e, o)' => d = e
  BY <1>2 DEF GoodOperation
<1>6. GoodOperation(o)
  OBVIOUS
<1> QED BY <1>1, <1>3, <1>4, <1>5, <1>6 DEF GoodOperation

(* A call is the only one that has the operation. *)
LEMMA CallAlone ==
  ASSUME IInv, NEW c \in Callers, call[c].at \notin {"idle", "recorded"}
  PROVE  /\ call[c].op \in Operations
         /\ Past(c, call[c].op) /\ GoodCall(c, call[c].op) /\ GoodOperation(call[c].op)
         /\ \A d \in Callers : d # c => ~Past(d, call[c].op)
<1>1. call[c].op \in Operations /\ Past(c, call[c].op)
  BY DEF IInv, GoodCaller, Past
<1>2. GoodOperation(call[c].op)
  BY <1>1 DEF IInv
<1> QED BY <1>1, <1>2 DEF GoodOperation

(* Call c goes on to r with operation o, which no other call has. *)
MovesOn(c, o, r) ==
  /\ call[c].op = o \/ call[c].at = "idle"
  /\ \A d \in Callers : d # c => ~Past(d, o)
  /\ call' = [call EXCEPT ![c] = r] /\ (r.at # "idle" => r.op = o)
  /\ records' \in [Operations -> Nat] /\ candidate' \in [Operations -> CaptureRecords]
  /\ slot' \in [Operations -> Nat] /\ reported' \in [Operations -> Answers]
  /\ \A p \in Operations : p # o =>
       /\ records'[p] = records[p] /\ candidate'[p] = candidate[p]
       /\ slot'[p] = slot[p] /\ reported'[p] = reported[p]
  /\ UNCHANGED <<queue, delivered>> /\ WorkersKept
  /\ records'[o] > 0 => State(o)' = "none" /\ o \notin delivered /\ reported'[o] # "suppressed"
  /\ Kept(o)' => State(o)' = "Retained"
  /\ Kept(o)' \/ o \in delivered => reported'[o] # "suppressed"
  /\ State(o)' # "none" => Hand(r) \/ Kept(o)'
  /\ slot'[o] > 0 => ~Queued(o) /\ ~Working(o)
  /\ r.at \notin {"idle", "recorded"} => GoodCall(c, o)'

(* A call goes on with its operation, alone. *)
LEMMA CallMoves ==
  ASSUME IInv, StormInv', NEW c \in Callers, NEW o \in Operations,
         NEW r \in CallRecords, MovesOn(c, o, r)
  PROVE  IInv'
<1> USE DEF MovesOn
<1>1. /\ call \in [Callers -> CallRecords] /\ queue \in [Sinks -> Seq(QueueRecords)]
      /\ delivered \in SUBSET Operations
  BY DEF IInv, PipelineTyped
<1>2. call' \in [Callers -> CallRecords] /\ call'[c] = r /\ \A d \in Callers : d # c => call'[d] = call[d]
  BY <1>1
<1>3. PipelineTyped'
  BY <1>1, <1>2 DEF PipelineTyped, WorkersKept
<1>4. ASSUME NEW d \in Callers PROVE GoodCaller(d)'
  BY <1>2 DEF IInv, GoodCaller
<1>5. ASSUME NEW s \in Sinks PROVE GoodSink(s)'
  <2>1. GoodSink(s) /\ queue'[s] = queue[s]
    BY DEF IInv
  <2>2. \/ worker'[s] = worker[s]
        \/ worker'[s].at \notin {"delivering", "releasing"}
    BY DEF WorkersKept
  <2> QED BY <2>1, <2>2 DEF GoodSink, SinkOf
<1>6. ASSUME NEW p \in Operations, p # o PROVE GoodOperation(p)'
  <2>1. \A d \in Callers : call'[d] = call[d] \/ (~Past(d, p) /\ ~Past(d, p)')
    BY <1>2, <1>6 DEF Past
  <2>2. GoodOperation(p) /\ QueuedOnce(p)
    BY DEF IInv, GoodOperation
  <2>3. /\ Queued(p)' <=> Queued(p)
        /\ Working(p)' <=> Working(p)
        /\ QueuedOnce(p)'
    BY <2>2, KeepersKept
  <2> QED BY <1>6, <2>1, <2>2, <2>3, OperationKept
<1>7. GoodOperation(o)'
  <2>1. GoodOperation(o) /\ QueuedOnce(o)
    BY DEF IInv, GoodOperation
  <2>2. /\ Queued(o)' <=> Queued(o)
        /\ Working(o)' <=> Working(o)
        /\ QueuedOnce(o)'
    BY <2>1, KeepersKept
  <2>3. \A d \in Callers : Past(d, o)' => d = c /\ r.at \notin {"idle", "recorded"}
    BY <1>2 DEF Past
  <2>4. \A d \in Callers : Past(d, o)' => GoodCall(d, o)'
    BY <2>3
  <2>5. Hand(r) => InHand(o)'
    BY <1>2 DEF Hand, InHand
  <2> QED BY <2>1, <2>2, <2>3, <2>4, <2>5 DEF GoodOperation
<1> QED BY <1>3, <1>4, <1>5, <1>6, <1>7 DEF IInv

(* The workers stay, and so does the gate. *)
LEMMA OthersKept ==
  ASSUME IInv
  PROVE  /\ UNCHANGED worker => WorkersKept
         /\ UNCHANGED stormVars => StormInv'
<1>1. UNCHANGED worker => WorkersKept
  BY DEF WorkersKept, IInv, PipelineTyped
<1>2. UNCHANGED stormVars => StormInv'
  BY StormStep DEF IInv
<1> QED BY <1>1, <1>2

(* A call goes on and leaves the tables alone. *)
LEMMA PointMoves ==
  ASSUME IInv, StormInv', NEW c \in Callers, NEW o \in Operations, Past(c, o),
         NEW r \in CallRecords, call' = [call EXCEPT ![c] = r], r.op = o,
         UNCHANGED <<records, candidate, slot, queue, reported, delivered>>, WorkersKept,
         State(o) # "none" => Hand(r) \/ Kept(o), GoodCall(c, o)'
  PROVE  IInv'
<1>1. /\ GoodOperation(o) /\ GoodCall(c, o) /\ \A d \in Callers : d # c => ~Past(d, o)
      /\ call[c].op = o
  BY CallAlone DEF Past
<1>2. (Kept(o)' <=> Kept(o)) /\ State(o)' = State(o)
  BY KeepersKept DEF State
<1>3. /\ records' \in [Operations -> Nat] /\ candidate' \in [Operations -> CaptureRecords]
      /\ slot' \in [Operations -> Nat] /\ reported' \in [Operations -> Answers]
      /\ \A p \in Operations : p # o =>
           /\ records'[p] = records[p] /\ candidate'[p] = candidate[p]
           /\ slot'[p] = slot[p] /\ reported'[p] = reported[p]
  BY DEF IInv, PipelineTyped
<1>4. /\ records'[o] > 0 => State(o)' = "none" /\ o \notin delivered /\ reported'[o] # "suppressed"
      /\ Kept(o)' => State(o)' = "Retained"
      /\ Kept(o)' \/ o \in delivered => reported'[o] # "suppressed"
      /\ State(o)' # "none" => Hand(r) \/ Kept(o)'
      /\ slot'[o] > 0 => ~Queued(o) /\ ~Working(o)
  BY <1>1, <1>2 DEF GoodOperation
<1>7. MovesOn(c, o, r)
  BY <1>1, <1>3, <1>4 DEF MovesOn
<1> QED BY <1>7, CallMoves

(* A call returns and leaves the tables alone. *)
LEMMA CallAnswers ==
  ASSUME IInv, StormInv', NEW c \in Callers, NEW o \in Operations, Past(c, o),
         NEW answer \in Answers, Return(c, answer),
         UNCHANGED <<records, candidate, slot, queue, delivered>>, WorkersKept,
         State(o) # "none" => Kept(o),
         answer = "suppressed" => ~Kept(o) /\ o \notin delivered
  PROVE  IInv'
<1>1. /\ GoodOperation(o) /\ GoodCall(c, o) /\ \A d \in Callers : d # c => ~Past(d, o)
      /\ call[c].op = o
  BY CallAlone DEF Past
<1>2. (Kept(o)' <=> Kept(o)) /\ State(o)' = State(o)
  BY KeepersKept DEF State
<1>3. PICK r \in CallRecords : r = NoCall /\ r.at = "idle"
  BY PipelineRecords
<1>4. call' = [call EXCEPT ![c] = r] /\ reported' = [reported EXCEPT ![o] = answer]
  BY <1>1, <1>3 DEF Return
<1>5. /\ records' \in [Operations -> Nat] /\ candidate' \in [Operations -> CaptureRecords]
      /\ slot' \in [Operations -> Nat] /\ reported' \in [Operations -> Answers]
      /\ reported'[o] = answer
      /\ \A p \in Operations : p # o =>
           /\ records'[p] = records[p] /\ candidate'[p] = candidate[p]
           /\ slot'[p] = slot[p] /\ reported'[p] = reported[p]
  BY <1>4 DEF IInv, PipelineTyped
<1>6. /\ records'[o] > 0 => State(o)' = "none" /\ o \notin delivered /\ reported'[o] # "suppressed"
      /\ Kept(o)' => State(o)' = "Retained"
      /\ Kept(o)' \/ o \in delivered => reported'[o] # "suppressed"
      /\ State(o)' # "none" => Hand(r) \/ Kept(o)'
      /\ slot'[o] > 0 => ~Queued(o) /\ ~Working(o)
  <2>1. records'[o] = 0
    BY <1>1 DEF GoodCall
  <2> QED BY <1>1, <1>2, <1>5, <2>1 DEF GoodOperation
<1>7. MovesOn(c, o, r)
  BY <1>1, <1>3, <1>4, <1>5, <1>6 DEF MovesOn
<1> QED BY <1>7, CallMoves

(* A call changes the entry of its operation, which only the recorder's slot  *)
(* keeps, if anything.                                                        *)
ChangesEntry(c, o, r, state) ==
  /\ call' = [call EXCEPT ![c] = r] /\ (r.at # "idle" => r.op = o)
  /\ \E bytes \in Int : SetCapture(o, bytes, state)
  /\ UNCHANGED slot \/ \E n \in Nat : slot' = [slot EXCEPT ![o] = n]
  /\ UNCHANGED reported \/ \E answer \in Answers : reported' = [reported EXCEPT ![o] = answer]
  /\ UNCHANGED <<records, queue, delivered>> /\ WorkersKept
  /\ reported'[o] # "suppressed"
  /\ ~Queued(o) /\ ~Working(o)
  /\ slot'[o] > 0 => state = "Retained"
  /\ state # "none" => Hand(r) \/ slot'[o] > 0
  /\ r.at \notin {"idle", "recorded"} => GoodCall(c, o)'

(* The entry moves on with its call. *)
LEMMA EntryMoves ==
  ASSUME IInv, StormInv', NEW c \in Callers, NEW o \in Operations, Past(c, o),
         NEW r \in CallRecords, NEW state \in {"none", "Handoff", "Retained"},
         ChangesEntry(c, o, r, state)
  PROVE  IInv'
<1>1. /\ GoodOperation(o) /\ GoodCall(c, o) /\ \A d \in Callers : d # c => ~Past(d, o)
      /\ call[c].op = o
  BY CallAlone DEF Past
<1>2. PICK bytes \in Int, entry \in CaptureRecords :
        /\ SetCapture(o, bytes, state)
        /\ entry = [bytes |-> bytes, state |-> state] /\ entry.state = state
  <2>1. PICK bytes \in Int : SetCapture(o, bytes, state)
    BY DEF ChangesEntry
  <2>2. [bytes |-> bytes, state |-> state] \in CaptureRecords
    BY PipelineRecords
  <2> QED BY <2>1, <2>2
<1>3. candidate' = [candidate EXCEPT ![o] = entry]
  BY <1>2 DEF SetCapture
<1>4. /\ records' \in [Operations -> Nat] /\ candidate' \in [Operations -> CaptureRecords]
      /\ slot' \in [Operations -> Nat] /\ reported' \in [Operations -> Answers]
      /\ State(o)' = state
      /\ \A p \in Operations : p # o =>
           /\ records'[p] = records[p] /\ candidate'[p] = candidate[p]
           /\ slot'[p] = slot[p] /\ reported'[p] = reported[p]
  <2>1. records' \in [Operations -> Nat] /\ UNCHANGED records
    BY DEF IInv, PipelineTyped, ChangesEntry
  <2>2. /\ candidate' \in [Operations -> CaptureRecords] /\ State(o)' = state
        /\ \A p \in Operations : p # o => candidate'[p] = candidate[p]
    BY <1>2, <1>3 DEF IInv, PipelineTyped, State
  <2>3. slot' \in [Operations -> Nat] /\ \A p \in Operations : p # o => slot'[p] = slot[p]
    BY DEF IInv, PipelineTyped, ChangesEntry
  <2>4. reported' \in [Operations -> Answers] /\ \A p \in Operations : p # o => reported'[p] = reported[p]
    BY DEF IInv, PipelineTyped, ChangesEntry
  <2> QED BY <2>1, <2>2, <2>3, <2>4
<1>5. Kept(o)' <=> slot'[o] > 0
  BY KeepersKept DEF Kept, ChangesEntry
<1>6. records'[o] = 0
  BY <1>1 DEF GoodCall, ChangesEntry
<1>7. MovesOn(c, o, r)
  <2>1. /\ call' = [call EXCEPT ![c] = r] /\ (r.at # "idle" => r.op = o)
        /\ UNCHANGED <<queue, delivered>> /\ WorkersKept
    BY DEF ChangesEntry
  <2>2. /\ Kept(o)' => State(o)' = "Retained"
        /\ State(o)' # "none" => Hand(r) \/ Kept(o)'
        /\ slot'[o] > 0 => ~Queued(o) /\ ~Working(o)
        /\ r.at \notin {"idle", "recorded"} => GoodCall(c, o)'
        /\ reported'[o] # "suppressed"
    BY <1>4, <1>5 DEF ChangesEntry
  <2> QED BY <1>1, <1>4, <1>6, <2>1, <2>2 DEF MovesOn
<1> QED BY <1>7, CallMoves

(* What a call finds when it is the only one with its operation: an entry     *)
(* that it does not hold is kept.                                             *)
LEMMA OnlyHand ==
  ASSUME IInv, NEW c \in Callers, NEW o \in Operations, Past(c, o), ~Hand(call[c])
  PROVE  State(o) # "none" => Kept(o)
<1>1. GoodOperation(o) /\ \A d \in Callers : d # c => ~Past(d, o)
  BY CallAlone DEF Past
<1>2. ~InHand(o)
  BY <1>1 DEF InHand, Hand, Past
<1> QED BY <1>1, <1>2 DEF GoodOperation

(* The call's record, taken apart. *)
LEMMA CallFields ==
  ASSUME IInv, NEW c \in Callers, call[c].at \notin {"idle", "recorded"}
  PROVE  \E o \in Operations : /\ call[c].op = o /\ Past(c, o) /\ GoodCall(c, o) /\ GoodOperation(o)
                               /\ call[c].seq \in Nat /\ call[c].bytes \in CandidateSizes \cup {0}
                               /\ call[c].sent \in BOOLEAN
<1>1. call[c] \in CallRecords
  BY DEF IInv, PipelineTyped
<1> QED BY <1>1, CallAlone DEF CallRecords
-----------------------------------------------------------------------------
(***************************************************************************)
(* Sdk::fail, after it has taken the operation.                            *)
(***************************************************************************)
(* admit. *)
LEMMA AdmitStep ==
  ASSUME IInv, NEW c \in Callers, FailAdmitted(c) \/ FailSuppressed(c)
  PROVE  IInv'
<1>1. call[c].at = "storm"
  BY DEF FailAdmitted, FailSuppressed, At
<1>2. PICK o \in Operations :
        /\ call[c].op = o /\ Past(c, o) /\ GoodCall(c, o) /\ GoodOperation(o)
        /\ call[c].seq \in Nat /\ call[c].bytes \in CandidateSizes \cup {0} /\ call[c].sent \in BOOLEAN
  BY <1>1, CallFields
<1>3. StormInv' /\ UNCHANGED <<records, candidate, slot, queue, delivered>> /\ WorkersKept
  <2>1. StormInv'
    BY StormStep DEF IInv, FailAdmitted, FailSuppressed
  <2> QED BY <2>1, OthersKept DEF FailAdmitted, FailSuppressed, sdkVars, captureVars, sinkVars
<1>4. State(o) = "none" /\ o \notin delivered /\ ~Kept(o)
  BY <1>1, <1>2 DEF GoodCall, GoodOperation
<1>5. CASE FailAdmitted(c)
  <2>1. PICK r \in CallRecords :
          r = Calling("reserve", o, call[c].seq, call[c].bytes, call[c].sent)
          /\ r.at = "reserve" /\ r.op = o
    <3>1. "reserve" \in CallPoints
      BY DEF CallPoints
    <3> QED BY <1>2, <3>1, PipelineRecords
  <2>2. call' = [call EXCEPT ![c] = r] /\ UNCHANGED reported
    BY <1>2, <1>5, <2>1 DEF FailAdmitted, GoTo
  <2>3. call'[c] = r
    BY <2>2 DEF IInv, PipelineTyped
  <2>4. GoodCall(c, o)'
    BY <1>2, <1>3, <1>4, <2>1, <2>2, <2>3 DEF GoodCall, State
  <2> QED BY <1>2, <1>3, <1>4, <2>1, <2>2, <2>4, PointMoves
<1>6. CASE FailSuppressed(c)
  <2>1. Return(c, "suppressed") /\ "suppressed" \in Answers
    BY <1>6 DEF FailSuppressed, Answers
  <2> QED BY <1>2, <1>3, <1>4, <2>1, CallAnswers
<1> QED BY <1>5, <1>6

(* reserve_candidate_handoff. *)
LEMMA ReserveStep ==
  ASSUME IInv, NEW c \in Callers, FailReserve(c) \/ FailQueueFull(c)
  PROVE  IInv'
<1>1. call[c].at = "reserve"
  BY DEF FailReserve, FailQueueFull, At
<1>2. PICK o \in Operations :
        /\ call[c].op = o /\ Past(c, o) /\ GoodCall(c, o) /\ GoodOperation(o)
  BY <1>1, CallFields
<1>3. StormInv' /\ UNCHANGED <<records, slot, queue, delivered>> /\ WorkersKept
  BY OthersKept DEF FailReserve, FailQueueFull, sdkVars, sinkVars
<1>4. State(o) = "none" /\ ~Kept(o) /\ ~Queued(o) /\ ~Working(o) /\ slot[o] = 0
  <2>1. slot[o] \in Nat
    BY DEF IInv, PipelineTyped
  <2> QED BY <1>1, <1>2, <2>1 DEF GoodCall, GoodOperation, Kept
<1>5. CASE FailReserve(c)
  <2>1. PICK bytes \in CandidateSizes :
          /\ SetCapture(o, bytes, "Handoff")
          /\ call' = [call EXCEPT ![c] =
               Calling(IF o \in Recorded THEN "record" ELSE "claim", o, 0, bytes, FALSE)]
    BY <1>2, <1>5 DEF FailReserve
  <2>2. PICK r \in CallRecords :
          /\ r = Calling(IF o \in Recorded THEN "record" ELSE "claim", o, 0, bytes, FALSE)
          /\ r.at = (IF o \in Recorded THEN "record" ELSE "claim") /\ r.op = o /\ r.bytes = bytes /\ ~r.sent
    <3>1. PICK at \in CallPoints : at = IF o \in Recorded THEN "record" ELSE "claim"
      BY DEF CallPoints
    <3>2. bytes \in CandidateSizes \cup {0} /\ 0 \in Nat /\ FALSE \in BOOLEAN
      OBVIOUS
    <3>3. Calling(at, o, 0, bytes, FALSE) \in CallRecords
          /\ Calling(at, o, 0, bytes, FALSE).at = at /\ Calling(at, o, 0, bytes, FALSE).op = o
          /\ Calling(at, o, 0, bytes, FALSE).bytes = bytes
          /\ ~Calling(at, o, 0, bytes, FALSE).sent
      BY <3>2 DEF Calling, CallRecords
    <3> QED BY <3>1, <3>3
  <2>3. call' = [call EXCEPT ![c] = r] /\ call'[c] = r
    BY <2>1, <2>2 DEF IInv, PipelineTyped
  <2>4. Hand(r)
    BY <2>2 DEF Hand
  <2>5. State(o)' = "Handoff" /\ UNCHANGED reported
    BY <1>5, <2>1 DEF SetCapture, State, IInv, PipelineTyped, FailReserve
  <2>6. GoodCall(c, o)'
    BY <1>2, <1>3, <2>2, <2>3, <2>5 DEF GoodCall
  <2>7. ChangesEntry(c, o, r, "Handoff")
    <3>1. \E b \in Int : SetCapture(o, b, "Handoff")
      BY <2>1, PipelineAssumption
    <3>2. UNCHANGED slot /\ UNCHANGED reported /\ reported[o] # "suppressed" /\ slot'[o] = 0
      BY <1>2, <1>3, <1>4, <2>5 DEF GoodCall
    <3>3. call' = [call EXCEPT ![c] = r] /\ r.op = o
      BY <2>2, <2>3
    <3> QED BY <1>3, <1>4, <2>4, <2>6, <3>1, <3>2, <3>3 DEF ChangesEntry
  <2> QED BY <1>2, <1>3, <2>7, EntryMoves
<1>6. CASE FailQueueFull(c)
  <2>1. UNCHANGED candidate /\ \E answer \in {"quota", "incomplete"} : Return(c, answer)
    BY <1>6 DEF FailQueueFull, captureVars
  <2>2. PICK answer \in {"quota", "incomplete"} : Return(c, answer)
    BY <2>1
  <2>3. answer \in Answers /\ answer # "suppressed"
    BY DEF Answers
  <2> QED BY <1>2, <1>3, <1>4, <2>1, <2>2, <2>3, CallAnswers
<1> QED BY <1>5, <1>6

(* fail looks whether the sink has kept the candidate. *)
LEMMA CheckStep ==
  ASSUME IInv, NEW c \in Callers, FailCheck(c)
  PROVE  IInv'
<1>1. call[c].at = "check"
  BY DEF FailCheck, At
<1>2. PICK o \in Operations :
        /\ call[c].op = o /\ Past(c, o) /\ GoodCall(c, o) /\ GoodOperation(o)
        /\ call[c].seq \in Nat /\ call[c].bytes \in CandidateSizes \cup {0} /\ call[c].sent \in BOOLEAN
  BY <1>1, CallFields
<1>3. /\ StormInv' /\ WorkersKept
      /\ UNCHANGED <<records, candidate, slot, queue, reported, delivered>>
  BY OthersKept DEF FailCheck, sdkVars, captureVars, sinkVars
<1>4. PICK at \in CallPoints : at = IF CandidateIsRetained(o) THEN "keep" ELSE "drop"
  BY DEF CallPoints
<1>5. PICK r \in CallRecords :
        /\ r = Calling(at, o, call[c].seq, call[c].bytes, call[c].sent)
        /\ r.at = at /\ r.op = o /\ r.sent = call[c].sent
  BY <1>2, PipelineRecords
<1>6. call' = [call EXCEPT ![c] = r] /\ call'[c] = r
  BY <1>2, <1>4, <1>5 DEF FailCheck, GoTo, IInv, PipelineTyped
<1>7. State(o)' = State(o) /\ (Kept(o)' <=> Kept(o)) /\ slot'[o] = slot[o]
  BY <1>3, KeepersKept DEF State
<1>8. CandidateIsRetained(o) <=> State(o) = "Retained"
  BY DEF CandidateIsRetained, State
<1>9. State(o) # "none" => Hand(r) \/ Kept(o)
  <2>1. CASE call[c].sent
    <3>1. ~Hand(call[c])
      BY <1>1, <2>1 DEF Hand
    <3> QED BY <1>2, <3>1, OnlyHand
  <2>2. CASE ~call[c].sent
    BY <1>1, <1>2, <1>4, <1>5, <1>8, <2>2 DEF GoodCall, Hand
  <2> QED BY <2>1, <2>2
<1>10. GoodCall(c, o)'
  BY <1>1, <1>2, <1>3, <1>4, <1>5, <1>6, <1>7, <1>8 DEF GoodCall, GoodOperation
<1> QED BY <1>2, <1>3, <1>5, <1>6, <1>9, <1>10, PointMoves

(* fail answers, and releases what nobody keeps. *)
LEMMA AnswerStep ==
  ASSUME IInv, NEW c \in Callers, FailKeep(c) \/ FailDrop(c)
  PROVE  IInv'
<1>1. call[c].at \in {"keep", "drop"} /\ (FailKeep(c) => call[c].at = "keep")
      /\ (FailDrop(c) => call[c].at = "drop")
  BY DEF FailKeep, FailDrop, At
<1>2. PICK o \in Operations :
        call[c].op = o /\ Past(c, o) /\ GoodCall(c, o) /\ GoodOperation(o)
  BY <1>1, CallFields
<1>3. StormInv' /\ WorkersKept /\ UNCHANGED <<records, slot, queue, delivered>>
  BY OthersKept DEF FailKeep, FailDrop, sdkVars, sinkVars
<1>4. CASE FailKeep(c)
  <2>1. PICK answer \in Answers : Return(c, answer) /\ answer # "suppressed"
    BY <1>4 DEF FailKeep, Answers
  <2>2. ~Hand(call[c]) /\ UNCHANGED candidate
    BY <1>1, <1>4 DEF Hand, FailKeep, captureVars
  <2> QED BY <1>2, <1>3, <2>1, <2>2, OnlyHand, CallAnswers
<1>5. CASE FailDrop(c)
  <2>1. PICK r \in CallRecords : r = NoCall /\ r.at = "idle"
    BY PipelineRecords
  <2>2. /\ call' = [call EXCEPT ![c] = r] /\ reported' = [reported EXCEPT ![o] = "quota"]
        /\ SetCapture(o, 0, "none")
    BY <1>2, <1>5, <2>1 DEF FailDrop, Return, ReleaseCandidate
  <2>3. ~Kept(o) /\ slot[o] \in Nat
    BY <1>1, <1>2, <1>5 DEF GoodCall, IInv, PipelineTyped
  <2>4. slot'[o] = 0 /\ ~Queued(o) /\ ~Working(o) /\ UNCHANGED slot
    BY <1>3, <2>3 DEF Kept
  <2>5. /\ \E answer \in Answers : reported' = [reported EXCEPT ![o] = answer]
        /\ reported'[o] # "suppressed"
    BY <2>2 DEF IInv, PipelineTyped, Answers
  <2>6. ChangesEntry(c, o, r, "none")
    <3>1. \E b \in Int : SetCapture(o, b, "none")
      BY <2>2
    <3>2. call' = [call EXCEPT ![c] = r] /\ (r.at # "idle" => r.op = o)
          /\ (r.at \notin {"idle", "recorded"} => GoodCall(c, o)')
      BY <2>1, <2>2
    <3>3. ~(slot'[o] > 0)
      BY <2>4
    <3> QED BY <1>3, <2>4, <2>5, <3>1, <3>2, <3>3 DEF ChangesEntry
  <2> QED BY <1>2, <1>3, <2>6, EntryMoves
<1> QED BY <1>4, <1>5
-----------------------------------------------------------------------------
(***************************************************************************)
(* The local recorder and the finalisation.                                *)
(***************************************************************************)
(* The recorder stores the candidate. *)
LEMMA StoreStep ==
  ASSUME IInv, NEW c \in Callers, RecorderStore(c)
  PROVE  IInv'
<1>1. call[c].at = "record"
  BY DEF RecorderStore, At
<1>2. PICK o \in Operations :
        /\ call[c].op = o /\ Past(c, o) /\ GoodCall(c, o) /\ GoodOperation(o)
        /\ call[c].bytes \in CandidateSizes
  BY <1>1, CallFields DEF GoodCall
<1>3. StormInv' /\ WorkersKept /\ UNCHANGED <<records, queue, reported, delivered>>
  BY OthersKept DEF RecorderStore, sdkVars, sinkVars
<1>4. PICK r \in CallRecords :
        r = Calling("check", o, 0, call[c].bytes, TRUE) /\ r.at = "check" /\ r.op = o /\ r.sent
  <2>1. /\ Calling("check", o, 0, call[c].bytes, TRUE) \in CallRecords
        /\ Calling("check", o, 0, call[c].bytes, TRUE).at = "check"
        /\ Calling("check", o, 0, call[c].bytes, TRUE).op = o
        /\ Calling("check", o, 0, call[c].bytes, TRUE).sent
    BY <1>2 DEF Calling, CallRecords, CallPoints
  <2> QED BY <2>1
<1>5. /\ call' = [call EXCEPT ![c] = r] /\ call'[c] = r
      /\ SetCapture(o, call[c].bytes, "Retained")
      /\ slot' = [slot EXCEPT ![o] = call[c].bytes]
  BY <1>2, <1>4 DEF RecorderStore, IInv, PipelineTyped
<1>6. slot'[o] > 0 /\ call[c].bytes \in Nat
  <2>1. call[c].bytes \in Nat \ {0}
    BY <1>2, PipelineAssumption
  <2>2. slot'[o] = call[c].bytes
    BY <1>5 DEF IInv, PipelineTyped
  <2> QED BY <2>1, <2>2
<1>7. ~Queued(o) /\ ~Working(o)
  BY <1>1, <1>2 DEF GoodCall, GoodOperation, Kept
<1>8. GoodCall(c, o)'
  BY <1>2, <1>3, <1>4, <1>5, <1>6 DEF GoodCall
<1>9. ChangesEntry(c, o, r, "Retained")
  <2>1. \E b \in Int : SetCapture(o, b, "Retained")
    BY <1>5, <1>6
  <2>2. \E n \in Nat : slot' = [slot EXCEPT ![o] = n]
    BY <1>5, <1>6
  <2>3. reported'[o] # "suppressed"
    BY <1>2, <1>3 DEF GoodCall
  <2> QED BY <1>3, <1>4, <1>5, <1>6, <1>7, <1>8, <2>1, <2>2, <2>3 DEF ChangesEntry
<1> QED BY <1>2, <1>3, <1>9, EntryMoves

(* take_failed_candidate. *)
LEMMA TakeStep ==
  ASSUME IInv, NEW c \in Callers, TakeFailed(c)
  PROVE  IInv'
<1>1. call[c].at = "keep" /\ call[c].op \in Recorded
  BY DEF TakeFailed, At
<1>2. PICK o \in Operations :
        /\ call[c].op = o /\ Past(c, o) /\ GoodCall(c, o) /\ GoodOperation(o)
        /\ call[c].seq \in Nat /\ call[c].bytes \in CandidateSizes \cup {0} /\ call[c].sent \in BOOLEAN
  BY <1>1, CallFields
<1>3. StormInv' /\ WorkersKept /\ UNCHANGED <<records, queue, reported, delivered>>
  BY OthersKept DEF TakeFailed, sdkVars, sinkVars
<1>4. PICK r \in CallRecords :
        /\ r = Calling("finalize", o, call[c].seq, call[c].bytes, call[c].sent)
        /\ r.at = "finalize" /\ r.op = o
  <2>1. "finalize" \in CallPoints
    BY DEF CallPoints
  <2> QED BY <1>2, <2>1, PipelineRecords
<1>5. /\ call' = [call EXCEPT ![c] = r] /\ call'[c] = r
      /\ SetCapture(o, 0, "none") /\ slot' = [slot EXCEPT ![o] = 0]
  BY <1>2, <1>4 DEF TakeFailed, GoTo, ReleaseCandidate, IInv, PipelineTyped
<1>6. slot'[o] = 0 /\ ~Queued(o) /\ ~Working(o)
  BY <1>1, <1>2, <1>5 DEF GoodCall, GoodOperation, IInv, PipelineTyped
<1>7. State(o)' = "none"
  BY <1>5 DEF SetCapture, State, IInv, PipelineTyped
<1>8. GoodCall(c, o)'
  BY <1>1, <1>2, <1>3, <1>4, <1>5, <1>7 DEF GoodCall
<1>9. ChangesEntry(c, o, r, "none")
  <2>1. \E b \in Int : SetCapture(o, b, "none")
    BY <1>5
  <2>2. \E n \in Nat : slot' = [slot EXCEPT ![o] = n]
    BY <1>5
  <2>3. reported'[o] # "suppressed"
    BY <1>2, <1>3 DEF GoodCall
  <2>4. ~(slot'[o] > 0) /\ call' = [call EXCEPT ![c] = r] /\ r.op = o
    BY <1>4, <1>5, <1>6
  <2> QED BY <1>3, <1>6, <1>8, <2>1, <2>2, <2>3, <2>4 DEF ChangesEntry
<1> QED BY <1>2, <1>3, <1>9, EntryMoves

(* finalize_official. *)
LEMMA FinalizeStep ==
  ASSUME IInv, NEW c \in Callers, FinalizeFails(c) \/ Finalize(c)
  PROVE  IInv'
<1>1. call[c].at = "finalize"
  BY DEF FinalizeFails, Finalize, At
<1>2. PICK o \in Operations :
        /\ call[c].op = o /\ Past(c, o) /\ GoodCall(c, o) /\ GoodOperation(o)
  BY <1>1, CallFields
<1>3. StormInv' /\ UNCHANGED <<records, candidate, slot, queue, delivered>>
  BY OthersKept DEF FinalizeFails, Finalize, sdkVars, captureVars, sinkVars
<1>4. o \in Recorded /\ State(o) = "none" /\ ~Kept(o)
  BY <1>1, <1>2 DEF GoodCall, GoodOperation
<1>5. CASE FinalizeFails(c)
  <2>1. WorkersKept
    BY <1>5, OthersKept DEF FinalizeFails
  <2>2. Return(c, "incomplete") /\ "incomplete" \in Answers
    BY <1>5 DEF FinalizeFails, Answers
  <2> QED BY <1>2, <1>3, <1>4, <2>1, <2>2, CallAnswers
<1>6. CASE Finalize(c)
  <2>1. PICK bytes \in CandidateSizes : call' = [call EXCEPT ![c] = Calling("claim", o, 0, bytes, FALSE)]
    BY <1>2, <1>6 DEF Finalize
  <2>2. worker' = [worker EXCEPT ![o] = WorkerAt("idle", None, 0)] /\ UNCHANGED reported
    BY <1>2, <1>6 DEF Finalize
  <2>3. SinkOf(o) = o /\ o \in Sinks
    BY <1>4 DEF SinkOf, Sinks
  <2>4. worker[o].at \notin {"delivering", "releasing"}
    <3> SUFFICES ASSUME worker[o].at \in {"delivering", "releasing"} PROVE FALSE
      OBVIOUS
    <3>1. worker[o].op \in Operations /\ SinkOf(worker[o].op) = o
      BY <2>3 DEF IInv, GoodSink
    <3>2. worker[o].op = o
      BY <1>4, <3>1, SinkOfOperation
    <3> QED BY <1>4, <2>3, <3>2 DEF Kept, Working
  <2>5. WorkersKept
    <3>1. /\ WorkerAt("idle", None, 0) \in WorkerRecords
          /\ WorkerAt("idle", None, 0).at = "idle"
      BY WorkerRecord DEF WorkerPoints
    <3> QED BY <2>2, <2>3, <2>4, <3>1 DEF WorkersKept, IInv, PipelineTyped
  <2>6. PICK r \in CallRecords :
          /\ r = Calling("claim", o, 0, bytes, FALSE)
          /\ r.at = "claim" /\ r.op = o /\ r.bytes = bytes /\ ~r.sent
    <3>1. /\ Calling("claim", o, 0, bytes, FALSE) \in CallRecords
          /\ Calling("claim", o, 0, bytes, FALSE).at = "claim"
          /\ Calling("claim", o, 0, bytes, FALSE).op = o
          /\ Calling("claim", o, 0, bytes, FALSE).bytes = bytes
          /\ ~Calling("claim", o, 0, bytes, FALSE).sent
      BY DEF Calling, CallRecords, CallPoints
    <3> QED BY <3>1
  <2>7. call' = [call EXCEPT ![c] = r] /\ call'[c] = r
    BY <2>1, <2>6 DEF IInv, PipelineTyped
  <2>8. State(o)' = "none"
    BY <1>3, <1>4 DEF State
  <2>9. GoodCall(c, o)'
    BY <1>2, <1>3, <1>4, <2>2, <2>6, <2>7, <2>8 DEF GoodCall
  <2> QED BY <1>2, <1>3, <1>4, <2>2, <2>5, <2>6, <2>7, <2>9, PointMoves
<1> QED BY <1>5, <1>6
-----------------------------------------------------------------------------
(***************************************************************************)
(* ManagedRustCandidateSink::try_send.                                     *)
(***************************************************************************)
(* GoTo, as a record. *)
LEMMA Goes ==
  ASSUME IInv, NEW c \in Callers, NEW o \in Operations, call[c].op = o,
         NEW point \in CallPoints, GoTo(c, point)
  PROVE  \E r \in CallRecords :
           /\ call' = [call EXCEPT ![c] = r] /\ call'[c] = r
           /\ r.at = point /\ r.op = o /\ r.bytes = call[c].bytes /\ r.sent = call[c].sent
           /\ r.seq = call[c].seq
<1>1. call \in [Callers -> CallRecords]
  BY DEF IInv, PipelineTyped
<1>2. call[c].seq \in Nat /\ call[c].bytes \in CandidateSizes \cup {0} /\ call[c].sent \in BOOLEAN
  BY <1>1 DEF CallRecords
<1>3. PICK r \in CallRecords :
        /\ r = Calling(point, o, call[c].seq, call[c].bytes, call[c].sent)
        /\ r.at = point /\ r.op = o /\ r.bytes = call[c].bytes /\ r.sent = call[c].sent
        /\ r.seq = call[c].seq
  BY <1>2, PipelineRecords
<1> QED BY <1>1, <1>3 DEF GoTo

(* What try_send does to its operation's entry before it counts it. *)
LEMMA ClaimStep ==
  ASSUME IInv, NEW c \in Callers, SinkClaim(c) \/ SinkUnclaimed(c)
  PROVE  IInv'
<1>1. call[c].at = "claim"
  BY DEF SinkClaim, SinkUnclaimed, At
<1>2. PICK o \in Operations :
        /\ call[c].op = o /\ Past(c, o) /\ GoodCall(c, o) /\ GoodOperation(o)
        /\ call[c].bytes \in CandidateSizes
  BY <1>1, CallFields DEF GoodCall
<1>3. StormInv' /\ WorkersKept /\ UNCHANGED <<records, slot, queue, delivered>>
  BY OthersKept DEF SinkClaim, SinkUnclaimed, sdkVars, sinkVars
<1>4. ~Kept(o) /\ State(o) = (IF o \in Recorded THEN "none" ELSE "Handoff") /\ ~call[c].sent
  BY <1>1, <1>2 DEF GoodCall, GoodOperation
<1>5. CASE SinkClaim(c)
  <2>1. PICK r \in CallRecords :
          /\ call' = [call EXCEPT ![c] = r] /\ call'[c] = r
          /\ r.at = "count" /\ r.op = o /\ r.bytes = call[c].bytes /\ r.sent = call[c].sent
    BY <1>2, <1>5, Goes DEF SinkClaim, CallPoints
  <2>2. SetCapture(o, call[c].bytes, "Retained") /\ UNCHANGED reported
    BY <1>2, <1>5 DEF SinkClaim
  <2>3. ~(slot'[o] > 0) /\ UNCHANGED slot /\ ~Queued(o) /\ ~Working(o)
    BY <1>3, <1>4 DEF Kept
  <2>4. State(o)' = "Retained" /\ ~Kept(o)'
    BY <1>3, <1>4, <2>2, KeepersKept DEF SetCapture, State, IInv, PipelineTyped
  <2>5. GoodCall(c, o)'
    BY <1>2, <1>3, <1>4, <2>1, <2>2, <2>4 DEF GoodCall
  <2>6. ChangesEntry(c, o, r, "Retained")
    <3>1. \E b \in Int : SetCapture(o, b, "Retained")
      <4>1. call[c].bytes \in Nat \ {0}
        BY <1>2, PipelineAssumption
      <4> QED BY <2>2, <4>1
    <3>2. Hand(r) /\ UNCHANGED reported /\ reported'[o] # "suppressed"
      BY <1>2, <2>1, <2>2 DEF GoodCall, Hand
    <3>3. call' = [call EXCEPT ![c] = r] /\ r.op = o
      BY <2>1
    <3> QED BY <1>3, <2>3, <2>5, <3>1, <3>2, <3>3 DEF ChangesEntry
  <2> QED BY <1>2, <1>3, <2>6, EntryMoves
<1>6. CASE SinkUnclaimed(c)
  <2>1. UNCHANGED candidate
    BY <1>6 DEF SinkUnclaimed, captureVars
  <2>2. CASE o \notin Recorded
    <3>1. GoTo(c, "check") /\ UNCHANGED reported
      BY <1>2, <1>6, <2>2 DEF SinkUnclaimed, SinkAnswersNo
    <3>2. PICK r \in CallRecords :
            /\ call' = [call EXCEPT ![c] = r] /\ call'[c] = r
            /\ r.at = "check" /\ r.op = o /\ r.bytes = call[c].bytes /\ r.sent = call[c].sent
      BY <1>2, <3>1, Goes DEF CallPoints
    <3>3. State(o)' = "Handoff" /\ Hand(r)
      BY <1>4, <2>1, <2>2, <3>2 DEF State, Hand
    <3>4. GoodCall(c, o)'
      BY <1>2, <1>3, <1>4, <2>2, <3>1, <3>2, <3>3 DEF GoodCall
    <3> QED BY <1>2, <1>3, <2>1, <3>1, <3>2, <3>3, <3>4, PointMoves
  <2>3. CASE o \in Recorded
    <3>1. Return(c, "incomplete") /\ "incomplete" \in Answers
      BY <1>2, <1>6, <2>3 DEF SinkUnclaimed, SinkAnswersNo, Answers
    <3>2. State(o) = "none"
      BY <1>4, <2>3
    <3> QED BY <1>2, <1>3, <2>1, <3>1, <3>2, CallAnswers
  <2> QED BY <2>2, <2>3
<1> QED BY <1>5, <1>6

(* The sink counts what it has claimed, or has no room for it. *)
LEMMA CountStep ==
  ASSUME IInv, NEW c \in Callers, SinkCount(c) \/ SinkUncounted(c)
  PROVE  IInv'
<1>1. call[c].at = "count"
  BY DEF SinkCount, SinkUncounted, At
<1>2. PICK o \in Operations :
        /\ call[c].op = o /\ Past(c, o) /\ GoodCall(c, o) /\ GoodOperation(o)
        /\ call[c].bytes \in CandidateSizes
  BY <1>1, CallFields DEF GoodCall
<1>3. /\ StormInv' /\ WorkersKept
      /\ UNCHANGED <<records, candidate, slot, queue, reported, delivered>>
  BY OthersKept DEF SinkCount, SinkUncounted, sdkVars, captureVars, sinkVars
<1>4. PICK point \in {"send", "refuse"} : GoTo(c, point)
  BY DEF SinkCount, SinkUncounted
<1>5. PICK r \in CallRecords :
        /\ call' = [call EXCEPT ![c] = r] /\ call'[c] = r
        /\ r.at = point /\ r.op = o /\ r.bytes = call[c].bytes /\ r.sent = call[c].sent
  <2>1. point \in CallPoints
    BY DEF CallPoints
  <2> QED BY <1>2, <1>4, <2>1, Goes
<1>6. Hand(r) /\ State(o)' = State(o) /\ (Kept(o)' <=> Kept(o))
  BY <1>3, <1>5, KeepersKept DEF Hand, State
<1>7. GoodCall(c, o)'
  BY <1>1, <1>2, <1>3, <1>5, <1>6 DEF GoodCall
<1> QED BY <1>2, <1>3, <1>5, <1>6, <1>7, PointMoves

(* Without room the sink gives the entry back. *)
LEMMA RefuseStep ==
  ASSUME IInv, NEW c \in Callers, SinkRefuse(c)
  PROVE  IInv'
<1>1. call[c].at = "refuse"
  BY DEF SinkRefuse, At
<1>2. PICK o \in Operations :
        call[c].op = o /\ Past(c, o) /\ GoodCall(c, o) /\ GoodOperation(o)
  BY <1>1, CallFields
<1>3. StormInv' /\ WorkersKept /\ UNCHANGED <<records, slot, queue, delivered>>
  BY OthersKept DEF SinkRefuse, sdkVars, sinkVars
<1>4. /\ ~(slot'[o] > 0) /\ UNCHANGED slot /\ ~Queued(o) /\ ~Working(o)
      /\ SetCapture(o, 0, "none") /\ ~call[c].sent
  BY <1>1, <1>2, <1>3 DEF SinkRefuse, ReleaseCandidate, GoodCall, Kept
<1>5. State(o)' = "none" /\ \E b \in Int : SetCapture(o, b, "none")
  <2>1. State(o)' = "none"
    BY <1>4 DEF SetCapture, State, IInv, PipelineTyped
  <2> QED BY <1>4, <2>1
<1>6. CASE o \notin Recorded
  <2>1. GoTo(c, "check") /\ UNCHANGED reported
    BY <1>2, <1>6 DEF SinkRefuse, SinkAnswersNo
  <2>2. PICK r \in CallRecords :
          /\ call' = [call EXCEPT ![c] = r] /\ call'[c] = r
          /\ r.at = "check" /\ r.op = o /\ r.bytes = call[c].bytes /\ r.sent = call[c].sent
    BY <1>2, <2>1, Goes DEF CallPoints
  <2>3. GoodCall(c, o)' /\ reported'[o] # "suppressed"
    BY <1>2, <1>3, <1>4, <1>5, <1>6, <2>1, <2>2 DEF GoodCall
  <2>4. ChangesEntry(c, o, r, "none")
    BY <1>3, <1>4, <1>5, <2>1, <2>2, <2>3 DEF ChangesEntry
  <2> QED BY <1>2, <1>3, <2>4, EntryMoves
<1>7. CASE o \in Recorded
  <2>1. PICK r \in CallRecords : r = NoCall /\ r.at = "idle"
    BY PipelineRecords
  <2>2. call' = [call EXCEPT ![c] = r] /\ reported' = [reported EXCEPT ![o] = "incomplete"]
    BY <1>2, <1>7, <2>1 DEF SinkRefuse, SinkAnswersNo, Return
  <2>3. /\ \E answer \in Answers : reported' = [reported EXCEPT ![o] = answer]
        /\ reported'[o] # "suppressed"
    BY <2>2 DEF IInv, PipelineTyped, Answers
  <2>4. ChangesEntry(c, o, r, "none")
    <3>1. call' = [call EXCEPT ![c] = r] /\ (r.at # "idle" => r.op = o)
          /\ (r.at \notin {"idle", "recorded"} => GoodCall(c, o)')
      BY <2>1, <2>2
    <3> QED BY <1>3, <1>4, <1>5, <2>3, <3>1 DEF ChangesEntry
  <2> QED BY <1>2, <1>3, <2>4, EntryMoves
<1> QED BY <1>6, <1>7

(* One more in a queue. *)
LEMMA OneMore ==
  ASSUME NEW S, NEW q \in Seq(S), NEW e \in S
  PROVE  /\ Append(q, e) \in Seq(S) /\ Len(q) \in Nat /\ Len(Append(q, e)) = Len(q) + 1
         /\ Append(q, e)[Len(q) + 1] = e
         /\ \A k \in 1 .. Len(q) : Append(q, e)[k] = q[k]
OBVIOUS

(* The queue takes over what the call had. *)
LEMMA SendStep ==
  ASSUME IInv, NEW c \in Callers, SinkSend(c)
  PROVE  IInv'
<1>1. call[c].at = "send"
  BY DEF SinkSend, At
<1>2. PICK o \in Operations :
        /\ call[c].op = o /\ Past(c, o) /\ GoodCall(c, o) /\ GoodOperation(o)
        /\ call[c].bytes \in CandidateSizes
  BY <1>1, CallFields DEF GoodCall
<1>3. /\ StormInv' /\ UNCHANGED <<records, candidate, slot, worker, delivered>>
  BY OthersKept DEF SinkSend, sdkVars, captureVars
<1>4. /\ State(o) = "Retained" /\ ~Kept(o) /\ records[o] = 0 /\ reported[o] # "suppressed"
      /\ \A d \in Callers : d # c => ~Past(d, o)
  BY <1>1, <1>2, CallAlone DEF GoodCall
<1>5. /\ queue \in [Sinks -> Seq(QueueRecords)] /\ call \in [Callers -> CallRecords]
      /\ reported \in [Operations -> Answers]
  BY DEF IInv, PipelineTyped
<1>6. PICK s \in Sinks : s = SinkOf(o)
  BY SinkOfOperation
<1>7. PICK e \in QueueRecords :
        e.op = o /\ queue' = [queue EXCEPT ![s] = Append(@, e)]
  <2>1. [op |-> o, bytes |-> call[c].bytes, at |-> now] \in QueueRecords
    BY <1>2 DEF QueueRecords, IInv, StormInv, StormTyped
  <2>2. queue' = [queue EXCEPT ![s] = Append(@, [op |-> o, bytes |-> call[c].bytes, at |-> now])]
    BY <1>2, <1>6 DEF SinkSend
  <2> QED BY <2>1, <2>2
<1>8. PICK r \in CallRecords :
        /\ call' = [call EXCEPT ![c] = r]
        /\ \/ /\ o \notin Recorded /\ r.at = "check" /\ r.op = o /\ r.sent
              /\ UNCHANGED reported
           \/ r.at = "idle" /\ reported' = [reported EXCEPT ![o] = "accepted"]
  <2>1. CASE o \notin Recorded
    <3>1. PICK r \in CallRecords :
            r = Calling("check", o, 0, call[c].bytes, TRUE) /\ r.at = "check" /\ r.op = o /\ r.sent
      <4>1. /\ Calling("check", o, 0, call[c].bytes, TRUE) \in CallRecords
            /\ Calling("check", o, 0, call[c].bytes, TRUE).at = "check"
            /\ Calling("check", o, 0, call[c].bytes, TRUE).op = o
            /\ Calling("check", o, 0, call[c].bytes, TRUE).sent
        BY <1>2 DEF Calling, CallRecords, CallPoints
      <4> QED BY <4>1
    <3>2. call' = [call EXCEPT ![c] = r] /\ UNCHANGED reported
      BY <1>2, <2>1, <3>1 DEF SinkSend
    <3> QED BY <2>1, <3>1, <3>2
  <2>2. CASE o \in Recorded
    <3>1. PICK r \in CallRecords : r = NoCall /\ r.at = "idle"
      BY PipelineRecords
    <3>2. call' = [call EXCEPT ![c] = r] /\ reported' = [reported EXCEPT ![o] = "accepted"]
      BY <1>2, <2>2, <3>1 DEF SinkSend, Return
    <3> QED BY <3>1, <3>2
  <2> QED BY <2>1, <2>2
<1>9. /\ queue' \in [Sinks -> Seq(QueueRecords)]
      /\ \A t \in Sinks : t # s => queue'[t] = queue[t]
      /\ Len(queue[s]) \in Nat /\ Len(queue'[s]) = Len(queue[s]) + 1
      /\ queue'[s][Len(queue[s]) + 1] = e
      /\ \A k \in 1 .. Len(queue[s]) : queue'[s][k] = queue[s][k]
  <2>1. queue[s] \in Seq(QueueRecords) /\ queue'[s] = Append(queue[s], e)
        /\ \A t \in Sinks : t # s => queue'[t] = queue[t]
    BY <1>5, <1>7
  <2>2. /\ Append(queue[s], e) \in Seq(QueueRecords) /\ Len(queue[s]) \in Nat
        /\ Len(Append(queue[s], e)) = Len(queue[s]) + 1
        /\ Append(queue[s], e)[Len(queue[s]) + 1] = e
        /\ \A k \in 1 .. Len(queue[s]) : Append(queue[s], e)[k] = queue[s][k]
    BY <2>1, OneMore
  <2>3. queue' \in [Sinks -> Seq(QueueRecords)]
    BY <1>5, <1>7, <2>1, <2>2
  <2> QED BY <2>1, <2>2, <2>3
<1>10. /\ call' \in [Callers -> CallRecords] /\ call'[c] = r
       /\ \A d \in Callers : d # c => call'[d] = call[d]
  BY <1>5, <1>8
<1>11. /\ reported' \in [Operations -> Answers] /\ reported'[o] # "suppressed"
       /\ \A p \in Operations : p # o => reported'[p] = reported[p]
  BY <1>4, <1>5, <1>8 DEF Answers
<1>12. PipelineTyped'
  BY <1>3, <1>9, <1>10, <1>11 DEF PipelineTyped, IInv
<1>13. ASSUME NEW d \in Callers PROVE GoodCaller(d)'
  BY <1>8, <1>10 DEF IInv, GoodCaller
<1>14. ASSUME NEW t \in Sinks PROVE GoodSink(t)'
  <2>1. GoodSink(t) /\ worker'[t] = worker[t]
    BY <1>3 DEF IInv
  <2>2. \A k \in 1 .. Len(queue'[t]) : SinkOf(queue'[t][k].op) = t
    <3>1. CASE t = s
      <4> SUFFICES ASSUME NEW k \in 1 .. Len(queue[s]) + 1 PROVE SinkOf(queue'[s][k].op) = s
        BY <1>9, <3>1
      <4>1. CASE k \in 1 .. Len(queue[s])
        BY <1>9, <2>1, <3>1, <4>1 DEF GoodSink
      <4>2. CASE k = Len(queue[s]) + 1
        BY <1>6, <1>7, <1>9, <4>2
      <4> QED BY <1>9, <4>1, <4>2
    <3>2. CASE t # s
      BY <1>9, <2>1, <3>2 DEF GoodSink
    <3> QED BY <3>1, <3>2
  <2> QED BY <2>1, <2>2 DEF GoodSink, SinkOf
<1>15. ASSUME NEW p \in Operations PROVE Working(p)' <=> Working(p)
  BY <1>3 DEF Working, SinkOf
<1>16. ASSUME NEW p \in Operations, p # o PROVE GoodOperation(p)'
  <2>1. SinkOf(p) \in Sinks /\ SinkOf(p)' = SinkOf(p) /\ GoodOperation(p) /\ QueuedOnce(p)
    BY SinkOfOperation DEF SinkOf, IInv, GoodOperation
  <2>2. \A k \in 1 .. Len(queue'[SinkOf(p)]) : queue'[SinkOf(p)][k].op = p =>
          k \in 1 .. Len(queue[SinkOf(p)]) /\ queue[SinkOf(p)][k].op = p
    BY <1>7, <1>9, <1>16, <2>1
  <2>3. \A k \in 1 .. Len(queue[SinkOf(p)]) :
          k \in 1 .. Len(queue'[SinkOf(p)]) /\ queue'[SinkOf(p)][k] = queue[SinkOf(p)][k]
    BY <1>9, <2>1
  <2>4. Queued(p)' <=> Queued(p)
    BY <2>1, <2>2, <2>3 DEF Queued
  <2>5. QueuedOnce(p)'
    BY <2>1, <2>2 DEF QueuedOnce
  <2>6. \A d \in Callers : call'[d] = call[d] \/ (~Past(d, p) /\ ~Past(d, p)')
    BY <1>2, <1>8, <1>10, <1>16 DEF Past
  <2>7. /\ records'[p] = records[p] /\ candidate'[p] = candidate[p] /\ slot'[p] = slot[p]
        /\ reported'[p] = reported[p] /\ (p \in delivered' <=> p \in delivered)
    BY <1>3, <1>11, <1>16
  <2> QED BY <1>15, <2>1, <2>4, <2>5, <2>6, <2>7, OperationKept
<1>17. GoodOperation(o)'
  <2>1. SinkOf(o)' = s /\ SinkOf(o) = s
    BY <1>6 DEF SinkOf
  <2>2. \A k \in 1 .. Len(queue[s]) : queue[s][k].op # o
    BY <1>4, <2>1 DEF Kept, Queued
  <2>3. \A k \in 1 .. Len(queue'[s]) : queue'[s][k].op = o => k = Len(queue[s]) + 1
    BY <1>9, <2>2
  <2>4. QueuedOnce(o)'
    BY <2>1, <2>3 DEF QueuedOnce
  <2>5. Queued(o)'
    <3>1. Len(queue[s]) + 1 \in 1 .. Len(queue'[s])
      BY <1>9
    <3> QED BY <1>7, <1>9, <2>1, <3>1 DEF Queued
  <2>6. Kept(o)' /\ State(o)' = "Retained" /\ ~Working(o)' /\ ~(slot'[o] > 0)
    BY <1>3, <1>4, <1>15, <2>5 DEF Kept, State
  <2>7. \A d \in Callers : Past(d, o)' => d = c /\ o \notin Recorded /\ r.at = "check" /\ r.sent
    BY <1>4, <1>8, <1>10 DEF Past
  <2>8. \A d \in Callers : Past(d, o)' => GoodCall(d, o)'
    BY <1>3, <1>4, <1>10, <1>11, <2>7 DEF GoodCall
  <2> QED BY <1>3, <1>4, <1>11, <2>4, <2>6, <2>7, <2>8 DEF GoodOperation
<1> QED BY <1>3, <1>12, <1>13, <1>14, <1>16, <1>17 DEF IInv
-----------------------------------------------------------------------------
(***************************************************************************)
(* Sdk: recording, and the two critical sections of fail.                  *)
(***************************************************************************)
(* No call takes an operation, and none that has one moves. *)
Outside ==
  /\ records' \in [Operations -> Nat] /\ \A o \in Operations : records'[o] > 0 => records[o] > 0
  /\ reported' \in [Operations -> Answers]
  /\ \A o \in Operations : reported'[o] = reported[o] \/ reported'[o] # "suppressed"
  /\ call' \in [Callers -> CallRecords]
  /\ \A d \in Callers :
       \/ call'[d] = call[d]
       \/ /\ call[d].at \in {"idle", "recorded"} /\ call'[d].at \in {"idle", "recorded"}
          /\ call'[d].at # "idle" => call'[d].op \in Operations
  /\ UNCHANGED <<candidate, slot, queue, delivered>> /\ WorkersKept

(* Whoever has taken an operation does not notice such a step. *)
LEMMA OutsideKeeps ==
  ASSUME IInv, StormInv', Outside
  PROVE  IInv'
<1>1. PipelineTyped'
  BY DEF IInv, PipelineTyped, Outside, WorkersKept
<1>2. ASSUME NEW d \in Callers PROVE GoodCaller(d)'
  BY DEF IInv, GoodCaller, Outside
<1>3. ASSUME NEW s \in Sinks PROVE GoodSink(s)'
  <2>1. GoodSink(s) /\ queue'[s] = queue[s]
    BY DEF IInv, Outside
  <2>2. \/ worker'[s] = worker[s]
        \/ worker'[s].at \notin {"delivering", "releasing"}
    BY DEF Outside, WorkersKept
  <2> QED BY <2>1, <2>2 DEF GoodSink, SinkOf
<1>4. ASSUME NEW o \in Operations PROVE GoodOperation(o)'
  <2>1. GoodOperation(o) /\ QueuedOnce(o) /\ records[o] \in Nat /\ records'[o] \in Nat
    BY DEF IInv, GoodOperation, PipelineTyped, Outside
  <2>2. /\ Queued(o)' <=> Queued(o)
        /\ Working(o)' <=> Working(o)
        /\ QueuedOnce(o)'
        /\ Kept(o)' <=> Kept(o)
    BY <2>1, KeepersKept DEF Outside
  <2>3. State(o)' = State(o) /\ slot'[o] = slot[o] /\ (o \in delivered' <=> o \in delivered)
        /\ (records'[o] > 0 => records[o] > 0)
        /\ (reported'[o] = reported[o] \/ reported'[o] # "suppressed")
    BY DEF State, Outside
  <2>4. ASSUME NEW d \in Callers, Past(d, o)' PROVE Past(d, o) /\ call'[d] = call[d]
    BY <2>4 DEF Past, Outside
  <2>5. ASSUME NEW d \in Callers, Past(d, o)' PROVE GoodCall(d, o)'
    <3>1. GoodCall(d, o) /\ call'[d] = call[d]
      BY <2>1, <2>4, <2>5 DEF GoodOperation
    <3> QED BY <2>1, <2>2, <2>3, <3>1 DEF GoodCall
  <2>6. InHand(o) => InHand(o)'
    <3> SUFFICES ASSUME NEW d \in Callers, call[d].op = o,
                        \/ call[d].at \in {"record", "claim", "count", "send", "refuse"}
                        \/ call[d].at \in {"check", "drop"} /\ ~call[d].sent
                 PROVE  InHand(o)'
      BY DEF InHand
    <3>1. call'[d] = call[d]
      BY DEF Outside
    <3> QED BY <3>1 DEF InHand
  <2>7. \A d, e \in Callers : Past(d, o)' /\ Past(e, o)' => d = e
    BY <2>1, <2>4 DEF GoodOperation
  <2> QED BY <2>1, <2>2, <2>3, <2>5, <2>6, <2>7 DEF GoodOperation
<1> QED BY <1>1, <1>2, <1>3, <1>4 DEF IInv

(* An operation's records are added to, or forgotten. *)
LEMMA RecordingStep ==
  ASSUME IInv, NEW o \in Operations, BindAutomaticWorld(o) \/ Append1(o) \/ Delete(o)
  PROVE  IInv'
<1>1. /\ StormInv' /\ WorkersKept /\ UNCHANGED <<call, candidate, slot, queue, reported, delivered>>
  BY OthersKept DEF BindAutomaticWorld, Append1, Delete, captureVars, sinkVars
<1>2. records' \in [Operations -> Nat] /\ \A p \in Operations : records'[p] > 0 => records[p] > 0
  <2>1. records \in [Operations -> Nat]
    BY DEF IInv, PipelineTyped
  <2>2. CASE BindAutomaticWorld(o)
    BY <2>1, <2>2 DEF BindAutomaticWorld
  <2>3. CASE Append1(o)
    BY <2>1, <2>3 DEF Append1
  <2>4. CASE Delete(o)
    BY <2>1, <2>4 DEF Delete, ForgetRecords
  <2> QED BY <2>2, <2>3, <2>4
<1>3. Outside
  BY <1>1, <1>2 DEF Outside, IInv, PipelineTyped
<1> QED BY <1>1, <1>3, OutsideKeeps

(* The first critical section of fail. *)
LEMMA RecordStep ==
  ASSUME IInv, NEW c \in Callers, NEW o \in Operations, FailRecord(c, o)
  PROVE  IInv'
<1>1. /\ StormInv' /\ WorkersKept
      /\ UNCHANGED <<records, candidate, slot, queue, reported, delivered>>
  BY OthersKept DEF FailRecord, sdkVars, captureVars, sinkVars
<1>2. PICK r \in CallRecords : r = Calling("recorded", o, records[o], 0, FALSE) /\ r.at = "recorded" /\ r.op = o
  <2>1. records[o] \in Nat
    BY DEF IInv, PipelineTyped
  <2>2. /\ Calling("recorded", o, records[o], 0, FALSE) \in CallRecords
        /\ Calling("recorded", o, records[o], 0, FALSE).at = "recorded"
        /\ Calling("recorded", o, records[o], 0, FALSE).op = o
    BY <2>1 DEF Calling, CallRecords, CallPoints
  <2> QED BY <2>2
<1>3. call' = [call EXCEPT ![c] = r] /\ call[c].at = "idle"
  BY <1>2 DEF FailRecord, Idle
<1>4. /\ call' \in [Callers -> CallRecords] /\ call'[c] = r
      /\ \A d \in Callers : d # c => call'[d] = call[d]
  BY <1>3 DEF IInv, PipelineTyped
<1>5. Outside
  BY <1>1, <1>2, <1>3, <1>4 DEF Outside, IInv, PipelineTyped
<1> QED BY <1>1, <1>5, OutsideKeeps

(* The second one finds the operation gone, or at a limit, or changed. *)
LEMMA NothingTaken ==
  ASSUME IInv, NEW c \in Callers, FailGone(c) \/ FailInvalid(c)
  PROVE  IInv'
<1>1. call[c].at = "recorded" /\ call[c].op \in Operations
  BY DEF FailGone, FailInvalid, At, IInv, GoodCaller
<1>2. PICK o \in Operations : call[c].op = o
  BY <1>1
<1>3. StormInv' /\ WorkersKept /\ UNCHANGED <<candidate, slot, queue, delivered>>
  BY OthersKept DEF FailGone, FailInvalid, captureVars, sinkVars
<1>4. PICK answer \in Answers \ {"suppressed"} : Return(c, answer)
  BY DEF FailGone, FailInvalid, Answers
<1>5. PICK r \in CallRecords : r = NoCall /\ r.at = "idle"
  BY PipelineRecords
<1>6. call' = [call EXCEPT ![c] = r] /\ reported' = [reported EXCEPT ![o] = answer]
  BY <1>2, <1>4, <1>5 DEF Return
<1>7. /\ call' \in [Callers -> CallRecords] /\ call'[c] = r
      /\ \A d \in Callers : d # c => call'[d] = call[d]
  BY <1>6 DEF IInv, PipelineTyped
<1>8. /\ reported' \in [Operations -> Answers]
      /\ \A p \in Operations : reported'[p] = reported[p] \/ reported'[p] # "suppressed"
  BY <1>6 DEF IInv, PipelineTyped
<1>9. records' \in [Operations -> Nat] /\ \A p \in Operations : records'[p] > 0 => records[p] > 0
  <2>1. records \in [Operations -> Nat]
    BY DEF IInv, PipelineTyped
  <2> QED BY <1>2, <2>1 DEF FailGone, FailInvalid, sdkVars, ForgetRecords
<1>10. Outside
  BY <1>1, <1>3, <1>5, <1>7, <1>8, <1>9 DEF Outside
<1> QED BY <1>3, <1>10, OutsideKeeps

(* It takes the operation: nobody else has it then. *)
LEMMA TakenStep ==
  ASSUME IInv, NEW c \in Callers, FailTake(c)
  PROVE  IInv'
<1>1. call[c].at = "recorded" /\ call[c].op \in Operations
  BY DEF FailTake, At, IInv, GoodCaller
<1>2. PICK o \in Operations : call[c].op = o /\ GoodOperation(o)
  BY <1>1 DEF IInv
<1>3. /\ StormInv' /\ WorkersKept /\ UNCHANGED <<candidate, slot, queue, reported, delivered>>
  BY OthersKept DEF FailTake, captureVars, sinkVars
<1>4. records[o] > 0 /\ records' = [records EXCEPT ![o] = 0] /\ GoTo(c, "storm")
  BY <1>2 DEF FailTake, ForgetRecords
<1>5. PICK r \in CallRecords :
        /\ call' = [call EXCEPT ![c] = r] /\ call'[c] = r
        /\ r.at = "storm" /\ r.op = o /\ r.bytes = call[c].bytes /\ r.sent = call[c].sent
  BY <1>2, <1>4, Goes DEF CallPoints
<1>6. /\ State(o) = "none" /\ o \notin delivered /\ reported[o] # "suppressed" /\ ~Kept(o)
      /\ \A d \in Callers : ~Past(d, o)
  BY <1>2, <1>4 DEF GoodOperation, GoodCall
<1>7. State(o)' = "none" /\ ~Kept(o)'
  BY <1>3, <1>6, KeepersKept DEF State
<1>8. /\ records' \in [Operations -> Nat] /\ records'[o] = 0
      /\ \A p \in Operations : p # o => records'[p] = records[p]
  BY <1>4 DEF IInv, PipelineTyped
<1>9. GoodCall(c, o)'
  BY <1>3, <1>5, <1>6, <1>7, <1>8 DEF GoodCall
<1>10. MovesOn(c, o, r)
  <2>1. slot'[o] > 0 => ~Queued(o) /\ ~Working(o)
    BY <1>3, <1>6 DEF Kept
  <2> QED BY <1>2, <1>3, <1>5, <1>6, <1>7, <1>8, <1>9, <2>1 DEF MovesOn, IInv, PipelineTyped
<1> QED BY <1>3, <1>10, CallMoves

(* A name is used again only when nothing is left of its last operation. *)
LEMMA BeginStep ==
  ASSUME IInv, NEW o \in Operations, Begin(o)
  PROVE  IInv'
<1>1. /\ StormInv' /\ UNCHANGED <<call, candidate, slot, queue>>
  BY OthersKept DEF Begin, captureVars, sinkVars
<1>2. /\ records' = [records EXCEPT ![o] = 1] /\ reported' = [reported EXCEPT ![o] = "none"]
      /\ delivered' = delivered \ {o}
  BY DEF Begin
<1>3. State(o) = "none" /\ (\A d \in Callers : ~Past(d, o)) /\ GoodOperation(o) /\ ~Kept(o)
  BY DEF Begin, Fresh, State, NoCapture, Past, IInv, GoodOperation
<1>4. WorkersKept
  <2>1. worker \in [Sinks -> WorkerRecords]
    BY DEF IInv, PipelineTyped
  <2>2. CASE o \in Recorded
    <3>1. /\ worker' = [worker EXCEPT ![o] = WorkerAt("absent", None, 0)]
          /\ worker[o].at \in {"absent", "idle"}
      BY <2>2 DEF Begin, Fresh
    <3>2. /\ WorkerAt("absent", None, 0) \in WorkerRecords
          /\ WorkerAt("absent", None, 0).at = "absent"
      BY WorkerRecord DEF WorkerPoints
    <3>3. o \in Sinks
      BY <2>2 DEF Sinks
    <3> QED BY <2>1, <3>1, <3>2, <3>3 DEF WorkersKept
  <2>3. CASE o \notin Recorded
    BY <2>1, <2>3 DEF Begin, WorkersKept
  <2> QED BY <2>2, <2>3
<1>5. PipelineTyped'
  BY <1>1, <1>2, <1>4 DEF IInv, PipelineTyped, WorkersKept, Answers
<1>6. ASSUME NEW d \in Callers PROVE GoodCaller(d)'
  BY <1>1 DEF IInv, GoodCaller
<1>7. ASSUME NEW s \in Sinks PROVE GoodSink(s)'
  <2>1. GoodSink(s) /\ queue'[s] = queue[s]
    BY <1>1 DEF IInv
  <2>2. \/ worker'[s] = worker[s]
        \/ worker'[s].at \notin {"delivering", "releasing"}
    BY <1>4 DEF WorkersKept
  <2> QED BY <2>1, <2>2 DEF GoodSink, SinkOf
<1>8. ASSUME NEW p \in Operations PROVE GoodOperation(p)'
  <2>1. GoodOperation(p) /\ QueuedOnce(p)
    BY DEF IInv, GoodOperation
  <2>2. /\ Queued(p)' <=> Queued(p)
        /\ Working(p)' <=> Working(p)
        /\ QueuedOnce(p)'
        /\ slot'[p] = slot[p] => (Kept(p)' <=> Kept(p))
    BY <1>1, <1>4, <2>1, KeepersKept
  <2>3. CASE p # o
    <3>1. /\ records'[p] = records[p] /\ candidate'[p] = candidate[p] /\ slot'[p] = slot[p]
          /\ reported'[p] = reported[p] /\ (p \in delivered' <=> p \in delivered)
          /\ \A d \in Callers : call'[d] = call[d]
      BY <1>1, <1>2, <2>3 DEF IInv, PipelineTyped
    <3> QED BY <2>1, <2>2, <3>1, OperationKept
  <2>4. CASE p = o
    <3>1. State(o)' = "none" /\ ~Kept(o)' /\ reported'[o] = "none" /\ o \notin delivered'
      BY <1>1, <1>2, <1>3, <2>2, <2>4 DEF State, IInv, PipelineTyped
    <3>2. \A d \in Callers : ~Past(d, o)'
      BY <1>1, <1>3 DEF Past
    <3> QED BY <2>2, <2>4, <3>1, <3>2 DEF GoodOperation, Kept
  <2> QED BY <2>3, <2>4
<1> QED BY <1>1, <1>5, <1>6, <1>7, <1>8 DEF IInv
-----------------------------------------------------------------------------
(***************************************************************************)
(* The worker of a sink, and the steps together.                           *)
(***************************************************************************)
(* One less in a queue. *)
LEMMA OneLess ==
  ASSUME NEW S, NEW q \in Seq(S), q # <<>>
  PROVE  /\ Head(q) \in S /\ Head(q) = q[1] /\ Tail(q) \in Seq(S)
         /\ Len(q) \in Nat /\ Len(q) > 0 /\ Len(Tail(q)) = Len(q) - 1
         /\ \A k \in 1 .. Len(Tail(q)) : k + 1 \in 1 .. Len(q) /\ Tail(q)[k] = q[k + 1]
OBVIOUS

(* The worker takes the first candidate of its queue. *)
LEMMA RecvStep ==
  ASSUME IInv, NEW s \in Sinks, WorkerRecv(s)
  PROVE  IInv'
<1>1. /\ StormInv' /\ UNCHANGED <<records, candidate, slot, call, reported, delivered>>
      /\ worker[s].at = "idle" /\ queue[s] # <<>>
      /\ queue' = [queue EXCEPT ![s] = Tail(@)]
  BY OthersKept DEF WorkerRecv, sdkVars, captureVars
<1>2. /\ queue \in [Sinks -> Seq(QueueRecords)] /\ worker \in [Sinks -> WorkerRecords]
      /\ queue[s] \in Seq(QueueRecords)
  BY DEF IInv, PipelineTyped
<1>3. /\ Head(queue[s]) \in QueueRecords /\ Head(queue[s]) = queue[s][1]
      /\ Tail(queue[s]) \in Seq(QueueRecords)
      /\ Len(queue[s]) \in Nat /\ Len(queue[s]) > 0 /\ Len(Tail(queue[s])) = Len(queue[s]) - 1
      /\ \A k \in 1 .. Len(Tail(queue[s])) :
           k + 1 \in 1 .. Len(queue[s]) /\ Tail(queue[s])[k] = queue[s][k + 1]
  BY <1>1, <1>2, OneLess
<1>4. /\ queue' \in [Sinks -> Seq(QueueRecords)] /\ queue'[s] = Tail(queue[s])
      /\ \A t \in Sinks : t # s => queue'[t] = queue[t]
  BY <1>1, <1>2, <1>3
<1>5. PICK o \in Operations : o = queue[s][1].op /\ SinkOf(o) = s
  <2>1. 1 \in 1 .. Len(queue[s])
    BY <1>3
  <2>2. queue[s][1].op \in Operations
    BY <1>3 DEF QueueRecords
  <2>3. SinkOf(queue[s][1].op) = s
    BY <2>1 DEF IInv, GoodSink
  <2> QED BY <2>2, <2>3
<1>6. PICK w \in WorkerRecords :
        worker' = [worker EXCEPT ![s] = w] /\ w.at \in {"delivering", "releasing"} /\ w.op = o
  <2>1. PICK at \in {"delivering", "releasing"}, bytes \in CandidateSizes :
          worker' = [worker EXCEPT ![s] = WorkerAt(at, o, bytes)]
    <3>1. Head(queue[s]).bytes \in CandidateSizes /\ Head(queue[s]).op = o
      BY <1>3, <1>5 DEF QueueRecords
    <3> QED BY <3>1 DEF WorkerRecv
  <2>2. /\ WorkerAt(at, o, bytes) \in WorkerRecords /\ WorkerAt(at, o, bytes).at = at
        /\ WorkerAt(at, o, bytes).op = o
    BY WorkerRecord DEF WorkerPoints
  <2> QED BY <2>1, <2>2
<1>7. /\ worker' \in [Sinks -> WorkerRecords] /\ worker'[s] = w
      /\ \A t \in Sinks : t # s => worker'[t] = worker[t]
  BY <1>2, <1>6
<1>8. PipelineTyped'
  BY <1>1, <1>4, <1>7 DEF IInv, PipelineTyped
<1>9. ASSUME NEW d \in Callers PROVE GoodCaller(d)'
  BY <1>1 DEF IInv, GoodCaller
<1>10. ASSUME NEW t \in Sinks PROVE GoodSink(t)'
  <2>1. GoodSink(t)
    BY DEF IInv
  <2>2. CASE t # s
    BY <1>4, <1>7, <2>1, <2>2 DEF GoodSink, SinkOf
  <2>3. CASE t = s
    <3>1. \A k \in 1 .. Len(queue'[s]) : SinkOf(queue'[s][k].op) = s
      BY <1>3, <1>4, <2>1, <2>3 DEF GoodSink
    <3>2. worker'[s].op \in Operations /\ SinkOf(worker'[s].op) = s
      BY <1>5, <1>6, <1>7
    <3> QED BY <2>3, <3>1, <3>2 DEF GoodSink, SinkOf
  <2> QED BY <2>2, <2>3
<1>11. ASSUME NEW p \in Operations PROVE GoodOperation(p)'
  <2>1. /\ SinkOf(p) \in Sinks /\ SinkOf(p)' = SinkOf(p)
        /\ GoodOperation(p) /\ QueuedOnce(p)
    BY SinkOfOperation DEF SinkOf, IInv, GoodOperation
  <2>2. QueuedOnce(p)'
    <3> SUFFICES ASSUME NEW j \in 1 .. Len(queue'[SinkOf(p)]), NEW k \in 1 .. Len(queue'[SinkOf(p)]),
                        queue'[SinkOf(p)][j].op = p, queue'[SinkOf(p)][k].op = p
                 PROVE  j = k
      BY <2>1 DEF QueuedOnce
    <3>1. CASE SinkOf(p) = s
      <4>1. /\ j + 1 \in 1 .. Len(queue[s]) /\ k + 1 \in 1 .. Len(queue[s])
            /\ queue[s][j + 1].op = p /\ queue[s][k + 1].op = p
        BY <1>3, <1>4, <3>1
      <4>2. j + 1 = k + 1
        BY <2>1, <3>1, <4>1 DEF QueuedOnce
      <4> QED BY <4>2
    <3>2. CASE SinkOf(p) # s
      BY <1>4, <2>1, <3>2 DEF QueuedOnce
    <3> QED BY <3>1, <3>2
  <2>3. CASE p # o
    <3>1. Queued(p)' <=> Queued(p)
      <4>1. CASE SinkOf(p) = s
        <5>1. ASSUME NEW k \in 1 .. Len(queue'[s]), queue'[s][k].op = p PROVE Queued(p)
          <6>1. k + 1 \in 1 .. Len(queue[s]) /\ queue[s][k + 1].op = p
            BY <1>3, <1>4, <5>1
          <6> QED BY <4>1, <6>1 DEF Queued
        <5>2. ASSUME NEW k \in 1 .. Len(queue[s]), queue[s][k].op = p PROVE Queued(p)'
          <6>1. k # 1
            BY <1>5, <2>3, <5>2
          <6>2. k - 1 \in 1 .. Len(queue'[s]) /\ queue'[s][k - 1] = queue[s][(k - 1) + 1]
            BY <1>3, <1>4, <6>1
          <6>3. (k - 1) + 1 = k
            BY <1>3
          <6>4. queue'[s][k - 1].op = p
            BY <5>2, <6>2, <6>3
          <6> QED BY <2>1, <4>1, <6>2, <6>4 DEF Queued
        <5> QED BY <2>1, <4>1, <5>1, <5>2 DEF Queued
      <4>2. CASE SinkOf(p) # s
        BY <1>4, <2>1, <4>2 DEF Queued
      <4> QED BY <4>1, <4>2
    <3>2. Working(p)' <=> Working(p)
      BY <1>1, <1>6, <1>7, <2>1, <2>3 DEF Working
    <3>3. /\ records'[p] = records[p] /\ candidate'[p] = candidate[p] /\ slot'[p] = slot[p]
          /\ reported'[p] = reported[p] /\ (p \in delivered' <=> p \in delivered)
          /\ \A d \in Callers : call'[d] = call[d]
      BY <1>1
    <3> QED BY <2>1, <2>2, <3>1, <3>2, <3>3, OperationKept
  <2>4. CASE p = o
    <3>1. Queued(o)
      <4>1. 1 \in 1 .. Len(queue[s])
        BY <1>3
      <4> QED BY <1>5, <4>1 DEF Queued
    <3>2. Working(o)'
      BY <1>5, <1>6, <1>7 DEF Working, SinkOf
    <3>3. ~Queued(o)'
      <4> SUFFICES ASSUME NEW k \in 1 .. Len(queue'[s]), queue'[s][k].op = o PROVE FALSE
        BY <1>5, <2>1, <2>4 DEF Queued
      <4>1. k + 1 \in 1 .. Len(queue[s]) /\ queue[s][k + 1].op = o /\ 1 \in 1 .. Len(queue[s])
        BY <1>3, <1>4
      <4>2. k + 1 = 1
        BY <1>5, <2>1, <2>4, <4>1 DEF QueuedOnce
      <4> QED BY <1>3, <1>4, <4>2
    <3>4. /\ records'[o] = records[o] /\ slot'[o] = slot[o] /\ State(o)' = State(o)
          /\ reported'[o] = reported[o] /\ (o \in delivered' <=> o \in delivered)
          /\ \A d \in Callers : call'[d] = call[d]
      BY <1>1 DEF State
    <3>5. Kept(o) /\ Kept(o)' /\ ~(slot'[o] > 0)
      BY <2>1, <2>4, <3>1, <3>2, <3>4 DEF Kept, GoodOperation
    <3>6. \A d \in Callers : (Past(d, o)' <=> Past(d, o)) /\ (GoodCall(d, o) => GoodCall(d, o)')
      BY <3>4, <3>5 DEF Past, GoodCall
    <3> QED BY <2>1, <2>2, <2>4, <3>3, <3>4, <3>5, <3>6 DEF GoodOperation
  <2> QED BY <2>3, <2>4
<1> QED BY <1>1, <1>8, <1>9, <1>10, <1>11 DEF IInv

(* What a worker has in its hands nobody else keeps. *)
LEMMA WorkerHolds ==
  ASSUME IInv, NEW s \in Sinks, worker[s].at \in {"delivering", "releasing"}
  PROVE  \E o \in Operations :
           /\ worker[s].op = o /\ SinkOf(o) = s /\ Working(o) /\ Kept(o) /\ State(o) = "Retained"
           /\ ~Queued(o) /\ ~(slot[o] > 0) /\ ~(records[o] > 0) /\ reported[o] # "suppressed"
           /\ worker[s].bytes \in CandidateSizes \cup {0}
<1>1. PICK o \in Operations : worker[s].op = o /\ SinkOf(o) = s
  BY DEF IInv, GoodSink
<1>2. GoodOperation(o) /\ Working(o) /\ Kept(o)
  BY <1>1 DEF IInv, Working, Kept
<1>3. worker[s].bytes \in CandidateSizes \cup {0}
  BY DEF IInv, PipelineTyped, WorkerRecords
<1> QED BY <1>1, <1>2, <1>3 DEF GoodOperation

(* The worker delivers: what is delivered was kept. *)
LEMMA DeliverStep ==
  ASSUME IInv, NEW s \in Sinks, WorkerDeliver(s)
  PROVE  IInv'
<1>1. /\ StormInv' /\ UNCHANGED <<records, candidate, slot, queue, call, reported>>
      /\ worker[s].at = "delivering"
  BY OthersKept DEF WorkerDeliver, sdkVars, captureVars, sinkVars
<1>2. PICK o \in Operations :
        /\ worker[s].op = o /\ SinkOf(o) = s /\ Working(o) /\ Kept(o) /\ State(o) = "Retained"
        /\ ~Queued(o) /\ ~(slot[o] > 0) /\ ~(records[o] > 0) /\ reported[o] # "suppressed"
        /\ worker[s].bytes \in CandidateSizes \cup {0}
  BY <1>1, WorkerHolds
<1>3. PICK w \in WorkerRecords :
        worker' = [worker EXCEPT ![s] = w] /\ w.at = "releasing" /\ w.op = o
  <2>1. /\ WorkerAt("releasing", o, worker[s].bytes) \in WorkerRecords
        /\ WorkerAt("releasing", o, worker[s].bytes).at = "releasing"
        /\ WorkerAt("releasing", o, worker[s].bytes).op = o
    BY <1>2, WorkerRecord DEF WorkerPoints
  <2>2. worker' = [worker EXCEPT ![s] = WorkerAt("releasing", o, worker[s].bytes)]
    BY <1>2 DEF WorkerDeliver
  <2> QED BY <2>1, <2>2
<1>4. /\ worker' \in [Sinks -> WorkerRecords] /\ worker'[s] = w
      /\ \A t \in Sinks : t # s => worker'[t] = worker[t]
  BY <1>3 DEF IInv, PipelineTyped
<1>5. delivered' \in SUBSET Operations /\ \A p \in Operations : p # o => (p \in delivered' <=> p \in delivered)
  BY <1>2 DEF WorkerDeliver, IInv, PipelineTyped
<1>6. PipelineTyped'
  BY <1>1, <1>4, <1>5 DEF IInv, PipelineTyped
<1>7. ASSUME NEW d \in Callers PROVE GoodCaller(d)'
  BY <1>1 DEF IInv, GoodCaller
<1>8. ASSUME NEW t \in Sinks PROVE GoodSink(t)'
  BY <1>1, <1>2, <1>3, <1>4 DEF IInv, GoodSink, SinkOf
<1>9. ASSUME NEW p \in Operations PROVE GoodOperation(p)'
  <2>1. GoodOperation(p) /\ QueuedOnce(p) /\ SinkOf(p)' = SinkOf(p) /\ SinkOf(p) \in Sinks
    BY SinkOfOperation DEF SinkOf, IInv, GoodOperation
  <2>2. (Working(p)' <=> Working(p)) /\ (Queued(p)' <=> Queued(p)) /\ QueuedOnce(p)'
    <3>1. Working(p)' <=> Working(p)
      BY <1>1, <1>2, <1>3, <1>4, <2>1 DEF Working
    <3> QED BY <1>1, <2>1, <3>1 DEF Queued, QueuedOnce
  <2>3. /\ records'[p] = records[p] /\ candidate'[p] = candidate[p] /\ slot'[p] = slot[p]
        /\ reported'[p] = reported[p] /\ \A d \in Callers : call'[d] = call[d]
    BY <1>1
  <2>4. CASE p # o
    BY <1>5, <2>1, <2>2, <2>3, <2>4, OperationKept
  <2>5. CASE p = o
    <3>1. (Kept(o)' <=> Kept(o)) /\ State(o)' = State(o) /\ (InHand(o)' <=> InHand(o))
      BY <2>2, <2>3, <2>5 DEF Kept, State, InHand
    <3>2. \A d \in Callers : (Past(d, o)' <=> Past(d, o)) /\ (GoodCall(d, o) => GoodCall(d, o)')
      BY <1>2, <2>3, <2>5, <3>1 DEF Past, GoodCall
    <3> QED BY <1>2, <2>1, <2>2, <2>3, <2>5, <3>1, <3>2 DEF GoodOperation
  <2> QED BY <2>4, <2>5
<1> QED BY <1>1, <1>6, <1>7, <1>8, <1>9 DEF IInv

(* The worker releases the entry, and then counts it out. *)
LEMMA ReleaseStep ==
  ASSUME IInv, NEW s \in Sinks, WorkerRelease(s)
  PROVE  IInv'
<1>1. /\ StormInv' /\ UNCHANGED <<records, slot, queue, call, reported, delivered>>
      /\ worker[s].at = "releasing"
  BY OthersKept DEF WorkerRelease, sdkVars, sinkVars
<1>2. PICK o \in Operations :
        /\ worker[s].op = o /\ SinkOf(o) = s /\ Working(o) /\ Kept(o) /\ State(o) = "Retained"
        /\ ~Queued(o) /\ ~(slot[o] > 0) /\ ~(records[o] > 0) /\ reported[o] # "suppressed"
        /\ worker[s].bytes \in CandidateSizes \cup {0}
  BY <1>1, WorkerHolds
<1>3. PICK w \in WorkerRecords : worker' = [worker EXCEPT ![s] = w] /\ w.at = "counting"
  <2>1. /\ WorkerAt("counting", o, worker[s].bytes) \in WorkerRecords
        /\ WorkerAt("counting", o, worker[s].bytes).at = "counting"
    BY <1>2, WorkerRecord DEF WorkerPoints
  <2>2. worker' = [worker EXCEPT ![s] = WorkerAt("counting", o, worker[s].bytes)]
    BY <1>2 DEF WorkerRelease
  <2> QED BY <2>1, <2>2
<1>4. /\ worker' \in [Sinks -> WorkerRecords] /\ worker'[s] = w
      /\ \A t \in Sinks : t # s => worker'[t] = worker[t]
  BY <1>3 DEF IInv, PipelineTyped
<1>5. /\ candidate' \in [Operations -> CaptureRecords] /\ State(o)' = "none"
      /\ \A p \in Operations : p # o => candidate'[p] = candidate[p]
  <2>1. PICK entry \in CaptureRecords : entry = [bytes |-> 0, state |-> "none"] /\ entry.state = "none"
    <3>1. [bytes |-> 0, state |-> "none"] \in CaptureRecords
      BY DEF CaptureRecords
    <3> QED BY <3>1
  <2>2. candidate' = [candidate EXCEPT ![o] = entry]
    BY <1>2, <2>1 DEF WorkerRelease, ReleaseCandidate, SetCapture
  <2> QED BY <2>1, <2>2 DEF State, IInv, PipelineTyped
<1>6. PipelineTyped'
  BY <1>1, <1>4, <1>5 DEF IInv, PipelineTyped
<1>7. ASSUME NEW d \in Callers PROVE GoodCaller(d)'
  BY <1>1 DEF IInv, GoodCaller
<1>8. ASSUME NEW t \in Sinks PROVE GoodSink(t)'
  BY <1>1, <1>3, <1>4 DEF IInv, GoodSink, SinkOf
<1>9. ASSUME NEW p \in Operations PROVE GoodOperation(p)'
  <2>1. GoodOperation(p) /\ QueuedOnce(p) /\ SinkOf(p)' = SinkOf(p) /\ SinkOf(p) \in Sinks
    BY SinkOfOperation DEF SinkOf, IInv, GoodOperation
  <2>2. (Queued(p)' <=> Queued(p)) /\ QueuedOnce(p)'
    BY <1>1, <2>1 DEF Queued, QueuedOnce
  <2>3. /\ records'[p] = records[p] /\ slot'[p] = slot[p]
        /\ reported'[p] = reported[p] /\ \A d \in Callers : call'[d] = call[d]
    BY <1>1
  <2>4. CASE p # o
    <3>1. Working(p)' <=> Working(p)
      BY <1>1, <1>2, <1>3, <1>4, <2>1, <2>4 DEF Working
    <3> QED BY <1>1, <1>5, <2>1, <2>2, <2>3, <2>4, <3>1, OperationKept
  <2>5. CASE p = o
    <3>1. ~Working(o)' /\ ~Kept(o)'
      BY <1>2, <1>3, <1>4, <2>1, <2>2, <2>3, <2>5 DEF Working, Kept
    <3>2. \A d \in Callers : (Past(d, o)' <=> Past(d, o)) /\ (GoodCall(d, o) => GoodCall(d, o)')
      BY <1>2, <1>5, <2>3, <2>5 DEF Past, GoodCall
    <3> QED BY <1>1, <1>2, <1>5, <2>1, <2>2, <2>3, <2>5, <3>1, <3>2 DEF GoodOperation
  <2> QED BY <2>4, <2>5
<1> QED BY <1>1, <1>6, <1>7, <1>8, <1>9 DEF IInv

(* Time passes, the worker counts a candidate out, or nothing happens. *)
LEMMA QuietStep ==
  ASSUME IInv, PassTime \/ (\E s \in Sinks : WorkerFinish(s)) \/ UNCHANGED vars
  PROVE  IInv'
<1>1. UNCHANGED <<records, candidate, slot, queue, call, reported, delivered>>
  BY DEF PassTime, WorkerFinish, vars, sdkVars, captureVars, sinkVars
<1>2. StormInv'
  BY StormStep DEF IInv, PassTime, WorkerFinish, vars
<1>3. WorkersKept
  <2>1. CASE UNCHANGED worker
    BY <2>1, OthersKept
  <2>2. ASSUME NEW s \in Sinks, WorkerFinish(s) PROVE WorkersKept
    <3>1. worker[s].at = "counting" /\ worker' = [worker EXCEPT ![s] = WorkerAt("idle", None, 0)]
      BY <2>2 DEF WorkerFinish
    <3>2. WorkerAt("idle", None, 0) \in WorkerRecords /\ WorkerAt("idle", None, 0).at = "idle"
      BY WorkerRecord DEF WorkerPoints
    <3> QED BY <3>1, <3>2 DEF WorkersKept, IInv, PipelineTyped
  <2> QED BY <2>1, <2>2 DEF PassTime, vars
<1>4. Outside
  BY <1>1, <1>3 DEF Outside, IInv, PipelineTyped
<1> QED BY <1>2, <1>4, OutsideKeeps

(* Nothing is recorded, kept or delivered at the start. *)
LEMMA Start == Init => IInv
<1> SUFFICES ASSUME Init PROVE IInv
  OBVIOUS
<1>1. StormInv
  BY StormStart DEF Init
<1>2. PipelineTyped
  <2>1. /\ NoCall \in CallRecords /\ NoCapture \in CaptureRecords
        /\ <<>> \in Seq(QueueRecords) /\ "none" \in Answers
    BY PipelineRecords DEF Answers
  <2>2. \A s \in Sinks : WorkerAt(IF s = Shared THEN "idle" ELSE "absent", None, 0) \in WorkerRecords
    BY DEF WorkerAt, WorkerRecords, WorkerPoints
  <2> QED BY <2>1, <2>2 DEF Init, PipelineTyped
<1>3. ASSUME NEW c \in Callers PROVE GoodCaller(c) /\ call[c].at = "idle"
  BY PipelineRecords DEF Init, GoodCaller
<1>4. ASSUME NEW s \in Sinks
      PROVE  queue[s] = <<>> /\ worker[s].at \notin {"delivering", "releasing"}
  BY DEF Init, WorkerAt
<1>5. ASSUME NEW s \in Sinks PROVE GoodSink(s)
  BY <1>4 DEF GoodSink
<1>6. ASSUME NEW o \in Operations PROVE GoodOperation(o)
  <2>1. ~Queued(o) /\ ~Working(o) /\ QueuedOnce(o)
    BY <1>4, SinkOfOperation DEF Queued, Working, QueuedOnce
  <2>2. /\ records[o] = 0 /\ slot[o] = 0 /\ State(o) = "none" /\ reported[o] = "none"
        /\ delivered = {}
    BY PipelineRecords DEF Init, State
  <2>3. \A c \in Callers : ~Past(c, o)
    BY <1>3 DEF Past
  <2> QED BY <2>1, <2>2, <2>3 DEF GoodOperation, Kept
<1> QED BY <1>1, <1>2, <1>3, <1>5, <1>6 DEF IInv

(* Every step keeps the invariant. *)
LEMMA InductiveStep == IInv /\ [Next]_vars => IInv'
<1> SUFFICES ASSUME IInv, Next \/ UNCHANGED vars PROVE IInv'
  OBVIOUS
<1>1. ASSUME NEW o \in Operations, Begin(o) \/ BindAutomaticWorld(o) \/ Append1(o) \/ Delete(o)
      PROVE  IInv'
  BY <1>1, BeginStep, RecordingStep
<1>2. ASSUME NEW c \in Callers, CallStep(c) PROVE IInv'
  BY <1>2, NothingTaken, TakenStep, AdmitStep, ReserveStep, CheckStep, AnswerStep, StoreStep,
     TakeStep, FinalizeStep, ClaimStep, CountStep, RefuseStep, SendStep DEF CallStep
<1>3. ASSUME NEW s \in Sinks, WorkerStep(s) PROVE IInv'
  BY <1>3, RecvStep, DeliverStep, ReleaseStep, QuietStep DEF WorkerStep
<1> QED BY <1>1, <1>2, <1>3, RecordStep, QuietStep DEF Next

-----------------------------------------------------------------------------
(***************************************************************************)
(* Sums over the operations.                                               *)
(***************************************************************************)
(* A set without the element that the fold takes first. *)
Rest(s) == s \ {CHOOSE x \in s : TRUE}

(* The partial sums: what they are of themselves. *)
SumStep(f, g, s) == IF s = {} THEN 0 ELSE f[CHOOSE x \in s : TRUE] + g[Rest(s)]
SumsOf(f, g) == [s \in SUBSET Operations |-> SumStep(f, g, s)]

(* The rest is smaller. *)
LEMMA RestSmaller ==
  ASSUME NEW s, IsFiniteSet(s), s # {}
  PROVE  /\ (CHOOSE x \in s : TRUE) \in s /\ Rest(s) \subseteq s /\ Rest(s) # s
         /\ IsFiniteSet(Rest(s)) /\ Cardinality(s) \in Nat
         /\ Cardinality(Rest(s)) = Cardinality(s) - 1
<1>1. (CHOOSE x \in s : TRUE) \in s
  OBVIOUS
<1> QED BY <1>1, FS_RemoveElement, FS_CardinalityType DEF Rest

(* What goes over from the rest of a set to the set goes for all subsets. *)
LEMMA SetInduction ==
  ASSUME NEW S, IsFiniteSet(S), NEW G, {} \in G,
         \A s \in SUBSET S : s # {} /\ Rest(s) \in G => s \in G
  PROVE  \A s \in SUBSET S : s \in G
<1> DEFINE Bad == (SUBSET S) \ G
<1> SUFFICES ASSUME Bad # {} PROVE FALSE
  OBVIOUS
<1>1. PICK s \in Bad : \A t \in Bad : <<t, s>> \notin StrictSubsetOrdering(S)
  <2>1. IsWellFoundedOn(StrictSubsetOrdering(S), SUBSET S)
    BY FS_StrictSubsetOrderingWellFounded, FS_FiniteSubsetsOfFinite
  <2>2. Bad \subseteq SUBSET S
    OBVIOUS
  <2> HIDE DEF Bad
  <2> QED BY <2>1, <2>2, WFMin
<1>2. s \in SUBSET S /\ s \notin G /\ s # {}
  OBVIOUS
<1>2a. IsFiniteSet(s)
  BY <1>2, FS_Subset
<1>3. Rest(s) \subseteq s /\ Rest(s) # s
  BY <1>2, <1>2a, RestSmaller
<1>4. <<Rest(s), s>> \in StrictSubsetOrdering(S)
  BY <1>2, <1>3 DEF StrictSubsetOrdering
<1>5. Rest(s) \in SUBSET S /\ Rest(s) \notin Bad
  BY <1>1, <1>2, <1>3, <1>4
<1>6. Rest(s) \in G
  BY <1>5
<1> QED BY <1>2, <1>6

(* The partial sums are well defined. *)
LEMMA SumsExist ==
  ASSUME IsFiniteSet(Operations), NEW f \in [Operations -> Int]
  PROVE  \E g : g = SumsOf(f, g)
<1> DEFINE Upto(n, g) == \A u \in SUBSET Operations : Cardinality(u) <= n => g[u] = SumStep(f, g, u)
           G == {t \in SUBSET Operations :
                   \E g \in [SUBSET Operations -> Int] : Upto(Cardinality(t), g)}
<1>1. \A u \in SUBSET Operations :
        /\ IsFiniteSet(u) /\ Cardinality(u) \in Nat /\ (Cardinality(u) = 0 <=> u = {})
        /\ u # {} => /\ Rest(u) \in SUBSET Operations /\ Cardinality(Rest(u)) = Cardinality(u) - 1
                     /\ f[CHOOSE x \in u : TRUE] \in Int
  BY FS_Subset, FS_CardinalityType, FS_EmptySet, RestSmaller
<1>2. {} \in G
  <2> DEFINE g == [u \in SUBSET Operations |-> 0]
  <2>1. g \in [SUBSET Operations -> Int]
    OBVIOUS
  <2>2. ASSUME NEW u \in SUBSET Operations, Cardinality(u) <= Cardinality({}) PROVE g[u] = SumStep(f, g, u)
    <3>1. u = {}
      BY <1>1, <2>2
    <3> QED BY <3>1 DEF SumStep
  <2> HIDE DEF g
  <2> QED BY <2>1, <2>2
<1>3. ASSUME NEW t \in SUBSET Operations, t # {}, Rest(t) \in G PROVE t \in G
  <2>1. PICK g \in [SUBSET Operations -> Int] : Upto(Cardinality(Rest(t)), g)
    BY <1>3
  <2> DEFINE h == SumsOf(f, g)
  <2>2. \A u \in SUBSET Operations : h[u] = SumStep(f, g, u)
    BY DEF SumsOf
  <2>3. h \in [SUBSET Operations -> Int]
    BY <1>1, <2>1 DEF SumsOf, SumStep
  <2>4. ASSUME NEW u \in SUBSET Operations, Cardinality(u) <= Cardinality(t) PROVE h[u] = SumStep(f, h, u)
    <3>1. CASE u = {}
      BY <2>2, <3>1 DEF SumStep
    <3>2. CASE u # {}
      <4>1. Rest(u) \in SUBSET Operations /\ Cardinality(Rest(u)) <= Cardinality(Rest(t))
        BY <1>1, <1>3, <2>4, <3>2
      <4>2. g[Rest(u)] = h[Rest(u)]
        BY <2>1, <2>2, <4>1
      <4> QED BY <2>2, <3>2, <4>2 DEF SumStep
    <3> QED BY <3>1, <3>2
  <2> HIDE DEF h
  <2> QED BY <2>3, <2>4
<1>4. Operations \in G
  <2> HIDE DEF G
  <2> QED BY <1>2, <1>3, SetInduction
<1>5. PICK g \in [SUBSET Operations -> Int] : Upto(Cardinality(Operations), g)
  BY <1>4
<1>6. \A u \in SUBSET Operations : g[u] = SumStep(f, g, u)
  BY <1>5, FS_Subset
<1> QED BY <1>6 DEF SumsOf

(* Total is the last of the partial sums. *)
LEMMA TotalSums ==
  ASSUME IsFiniteSet(Operations), NEW f \in [Operations -> Int]
  PROVE  \E g \in [SUBSET Operations -> Int] :
           /\ \A s \in SUBSET Operations : g[s] = SumStep(f, g, s)
           /\ Total(f) = g[Operations]
<1>1. PICK g : g = SumsOf(f, g) /\ Total(f) = g[Operations]
  <2>1. Total(f) = (CHOOSE g : g = SumsOf(f, g))[Operations]
    BY DEF Total, MapThenSumSet, MapThenFoldSet, SumsOf, SumStep, Rest
  <2> QED BY <2>1, SumsExist
<1>2. \A s \in SUBSET Operations : g[s] = SumStep(f, g, s)
  BY <1>1 DEF SumsOf
<1> DEFINE G == {s \in SUBSET Operations : g[s] \in Int}
<1>3. {} \in G
  BY <1>2 DEF SumStep
<1>4. ASSUME NEW s \in SUBSET Operations, s # {}, Rest(s) \in G PROVE s \in G
  <2>1. f[CHOOSE x \in s : TRUE] \in Int
    BY <1>4
  <2> QED BY <1>2, <1>4, <2>1 DEF SumStep
<1>5. \A s \in SUBSET Operations : s \in G
  <2> HIDE DEF G
  <2> QED BY <1>3, <1>4, SetInduction
<1>6. g \in [SUBSET Operations -> Int]
  BY <1>1, <1>5 DEF SumsOf
<1> QED BY <1>1, <1>2, <1>6

(* A sum of naturals is one. *)
LEMMA TotalNat ==
  ASSUME IsFiniteSet(Operations), NEW f \in [Operations -> Nat]
  PROVE  Total(f) \in Nat
<1>1. f \in [Operations -> Int]
  OBVIOUS
<1>2. PICK g \in [SUBSET Operations -> Int] :
           /\ \A s \in SUBSET Operations : g[s] = SumStep(f, g, s)
           /\ Total(f) = g[Operations]
  BY <1>1, TotalSums
<1> DEFINE G == {s \in SUBSET Operations : g[s] \in Nat}
<1>3. {} \in G
  BY <1>2 DEF SumStep
<1>4. ASSUME NEW s \in SUBSET Operations, s # {}, Rest(s) \in G PROVE s \in G
  <2>1. f[CHOOSE x \in s : TRUE] \in Nat
    BY <1>4
  <2> QED BY <1>2, <1>4, <2>1 DEF SumStep
<1>5. \A s \in SUBSET Operations : s \in G
  <2> HIDE DEF G
  <2> QED BY <1>3, <1>4, SetInduction
<1> QED BY <1>2, <1>5

(* A sum with one entry changed. *)
LEMMA TotalChanged ==
  ASSUME IsFiniteSet(Operations), NEW f \in [Operations -> Int], NEW h \in [Operations -> Int],
         NEW o \in Operations, \A p \in Operations : p # o => h[p] = f[p]
  PROVE  Total(f) \in Int /\ Total(h) = Total(f) - f[o] + h[o]
<1>1. PICK g \in [SUBSET Operations -> Int] :
           /\ \A s \in SUBSET Operations : g[s] = SumStep(f, g, s)
           /\ Total(f) = g[Operations]
  BY TotalSums
<1>2. PICK k \in [SUBSET Operations -> Int] :
           /\ \A s \in SUBSET Operations : k[s] = SumStep(h, k, s)
           /\ Total(h) = k[Operations]
  BY TotalSums
<1> DEFINE G == {s \in SUBSET Operations : k[s] = g[s] + (IF o \in s THEN h[o] - f[o] ELSE 0)}
<1>3. {} \in G
  BY <1>1, <1>2 DEF SumStep
<1>4. ASSUME NEW s \in SUBSET Operations, s # {}, Rest(s) \in G PROVE s \in G
  <2>1. PICK x \in s : x = CHOOSE y \in s : TRUE
    BY <1>4
  <2>2. /\ Rest(s) = s \ {x} /\ x \in Operations
        /\ g[s] = f[x] + g[Rest(s)] /\ k[s] = h[x] + k[Rest(s)]
        /\ g[Rest(s)] \in Int /\ k[Rest(s)] = g[Rest(s)] + (IF o \in Rest(s) THEN h[o] - f[o] ELSE 0)
    BY <1>1, <1>2, <1>4, <2>1 DEF SumStep, Rest
  <2>3. f[x] \in Int /\ h[x] \in Int /\ f[o] \in Int /\ h[o] \in Int
    BY <2>2
  <2>4. CASE x = o
    <3>1. o \notin Rest(s) /\ o \in s
      BY <2>1, <2>2, <2>4
    <3> QED BY <2>2, <2>3, <2>4, <3>1
  <2>5. CASE x # o
    <3>1. o \in Rest(s) <=> o \in s
      BY <2>2, <2>5
    <3>2. h[x] = f[x]
      BY <2>2, <2>5
    <3> QED BY <2>2, <2>3, <3>1, <3>2
  <2> QED BY <2>4, <2>5
<1>5. \A s \in SUBSET Operations : s \in G
  <2> HIDE DEF G
  <2> QED BY <1>3, <1>4, SetInduction
<1>6. k[Operations] = g[Operations] + (h[o] - f[o])
  BY <1>5
<1> QED BY <1>1, <1>2, <1>6

(* A sum of zeros. *)
LEMMA TotalZero ==
  ASSUME IsFiniteSet(Operations), NEW f \in [Operations -> Int], \A o \in Operations : f[o] = 0
  PROVE  Total(f) = 0
<1>2. PICK g \in [SUBSET Operations -> Int] :
           /\ \A s \in SUBSET Operations : g[s] = SumStep(f, g, s)
           /\ Total(f) = g[Operations]
  BY TotalSums
<1> DEFINE G == {s \in SUBSET Operations : g[s] = 0}
<1>3. {} \in G
  BY <1>2 DEF SumStep
<1>4. ASSUME NEW s \in SUBSET Operations, s # {}, Rest(s) \in G PROVE s \in G
  <2>1. f[CHOOSE x \in s : TRUE] = 0
    BY <1>4
  <2> QED BY <1>2, <1>4, <2>1 DEF SumStep
<1>5. \A s \in SUBSET Operations : s \in G
  <2> HIDE DEF G
  <2> QED BY <1>3, <1>4, SetInduction
<1> QED BY <1>2, <1>5
-----------------------------------------------------------------------------
(***************************************************************************)
(* The accounts.                                                           *)
(***************************************************************************)
(* The process accounts for the operations the Sdks record. *)
ActiveAgree ==
  /\ \A o \in Operations : records[o] <= MaxEvents /\ (records[o] = 0 => active[o] = 0)
  /\ active = opBytes /\ active \in [Operations -> 0 .. MaxOperationBytes]
  /\ worldBound \in [Operations -> BOOLEAN]
  /\ activeBytes = Total(active)

CandidateSize == [o \in Operations |-> candidate[o].bytes]

(* It accounts for the candidates, and both stay within the limits. *)
EntriesAgree ==
  /\ \A o \in Operations :
       /\ candidate[o].bytes \in 0 .. MaxGlobalBytes
       /\ State(o) = "none" => candidate[o].bytes = 0
  /\ candidateBytes = Total(CandidateSize)
  /\ activeBytes + candidateBytes <= MaxGlobalBytes
  /\ Cardinality(Captures) <= MaxQueued

(* What a recorder stores is what its call has reserved. *)
StoredAgree ==
  /\ \A o \in Operations : slot[o] <= MaxOperationBytes
  /\ \A c \in Callers : call[c].at = "record" =>
       call[c].bytes = candidate[call[c].op].bytes /\ call[c].bytes <= MaxOperationBytes

Recording == UNCHANGED <<records, opBytes, worldBound, active, activeBytes>>
Forgets(o) == ForgetRecords(o) /\ ReleaseOperation(o)

(* Every step records, forgets an operation, or leaves the Sdks alone. *)
LEMMA RecordingKinds ==
  ASSUME IInv, [Next]_vars
  PROVE  \/ Recording
         \/ \E o \in Operations : Begin(o) \/ BindAutomaticWorld(o) \/ Append1(o) \/ Forgets(o)
<1>1. ASSUME NEW c \in Callers, CallStep(c) PROVE Recording \/ \E o \in Operations : Forgets(o)
  <2>1. CASE FailTake(c) \/ FailInvalid(c)
    <3>1. call[c].op \in Operations
      BY <2>1 DEF FailTake, FailInvalid, At, IInv, GoodCaller
    <3> QED BY <2>1, <3>1 DEF FailTake, FailInvalid, Forgets
  <2>2. CASE FailGone(c) \/ FailAdmitted(c) \/ FailSuppressed(c) \/ FailReserve(c) \/ FailQueueFull(c)
             \/ FailCheck(c) \/ FailKeep(c) \/ FailDrop(c)
    BY <2>2 DEF FailGone, FailAdmitted, FailSuppressed, FailReserve, FailQueueFull, FailCheck,
       FailKeep, FailDrop, Recording, sdkVars, activeVars
  <2>3. CASE RecorderStore(c) \/ TakeFailed(c) \/ FinalizeFails(c) \/ Finalize(c)
    BY <2>3 DEF RecorderStore, TakeFailed, FinalizeFails, Finalize, Recording, sdkVars, activeVars
  <2>4. CASE SinkClaim(c) \/ SinkUnclaimed(c) \/ SinkCount(c) \/ SinkUncounted(c)
             \/ SinkRefuse(c) \/ SinkSend(c)
    BY <2>4 DEF SinkClaim, SinkUnclaimed, SinkCount, SinkUncounted, SinkRefuse, SinkSend,
       Recording, sdkVars, activeVars
  <2> QED BY <1>1, <2>1, <2>2, <2>3, <2>4 DEF CallStep
<1>2. ASSUME NEW s \in Sinks, WorkerStep(s) PROVE Recording
  BY <1>2 DEF WorkerStep, WorkerRecv, WorkerDeliver, WorkerRelease, WorkerFinish, Recording,
     sdkVars, activeVars
<1>3. ASSUME NEW c \in Callers, NEW o \in Operations, FailRecord(c, o) PROVE Recording
  BY <1>3 DEF FailRecord, Recording, sdkVars, activeVars
<1>4. PassTime \/ UNCHANGED vars => Recording
  BY DEF PassTime, vars, Recording, sdkVars, activeVars
<1>5. ASSUME NEW o \in Operations, Delete(o) PROVE Forgets(o)
  BY <1>5 DEF Delete, Forgets
<1> QED BY <1>1, <1>2, <1>3, <1>4, <1>5 DEF Next

(* The Sdks and the process agree after it, and grow within the limit. *)
LEMMA RecordingAgrees ==
  ASSUME IInv, ActiveAgree, candidateBytes \in Int, [Next]_vars
  PROVE  /\ ActiveAgree'
         /\ activeBytes' <= activeBytes \/ activeBytes' + candidateBytes <= MaxGlobalBytes
         /\ activeBytes \in Nat /\ activeBytes' \in Nat
<1>1. /\ records \in [Operations -> Nat] /\ active \in [Operations -> 0 .. MaxOperationBytes]
      /\ active = opBytes /\ IsFiniteSet(Operations) /\ MaxOperationBytes \in Nat /\ MaxEvents \in Nat
      /\ MaxEvents > 0 /\ Sizes \subseteq Nat /\ \A size \in Sizes : size <= MaxOperationBytes
      /\ worldBound \in [Operations -> BOOLEAN] /\ activeBytes = Total(active)
      /\ \A o \in Operations : records[o] <= MaxEvents /\ (records[o] = 0 => active[o] = 0)
  BY PipelineAssumption DEF IInv, PipelineTyped, ActiveAgree
<1>2. activeBytes \in Nat
  <2>1. active \in [Operations -> Nat]
    BY <1>1
  <2> QED BY <1>1, <2>1, TotalNat
<1>3. CASE Recording
  <2>1. activeBytes' = activeBytes
    BY <1>3 DEF Recording
  <2>2. ActiveAgree'
    BY <1>3 DEF Recording, ActiveAgree
  <2> QED BY <1>2, <2>1, <2>2
<1>4. ASSUME NEW o \in Operations, BindAutomaticWorld(o)
      PROVE  ActiveAgree' /\ activeBytes' = activeBytes
  <2>1. /\ records' = records /\ opBytes' = opBytes /\ active' = active /\ activeBytes' = activeBytes
        /\ worldBound' \in [Operations -> BOOLEAN]
    BY <1>1, <1>4 DEF BindAutomaticWorld, activeVars
  <2> QED BY <1>1, <2>1 DEF ActiveAgree
<1>5. ASSUME NEW o \in Operations, NEW size \in Nat, NEW count \in 0 .. MaxEvents,
             records' = [records EXCEPT ![o] = count], size <= MaxOperationBytes,
             count = 0 => size = 0,
             opBytes' = [opBytes EXCEPT ![o] = size], active' = [active EXCEPT ![o] = size],
             activeBytes' = activeBytes - active[o] + size, worldBound' \in [Operations -> BOOLEAN]
      PROVE  ActiveAgree'
  <2>1. active' \in [Operations -> 0 .. MaxOperationBytes] /\ active' = opBytes'
    BY <1>1, <1>5
  <2>2. \A p \in Operations : records'[p] <= MaxEvents /\ (records'[p] = 0 => active'[p] = 0)
    BY <1>1, <1>5
  <2>3. /\ active \in [Operations -> Int] /\ active' \in [Operations -> Int]
        /\ active'[o] = size /\ \A p \in Operations : p # o => active'[p] = active[p]
    BY <1>1, <1>5, <2>1
  <2>4. Total(active') = Total(active) - active[o] + size
    BY <1>1, <2>3, TotalChanged
  <2>5. activeBytes' = Total(active')
    BY <1>1, <1>5, <2>4
  <2> QED BY <1>5, <2>1, <2>2, <2>5 DEF ActiveAgree
<1>6. ASSUME NEW o \in Operations, Begin(o)
      PROVE  ActiveAgree' /\ activeBytes' + candidateBytes <= MaxGlobalBytes
  <2>1. records[o] = 0 /\ active[o] = 0
    BY <1>1, <1>6 DEF Begin, Fresh
  <2>2. PICK size \in Sizes :
          /\ Fits(size) /\ records' = [records EXCEPT ![o] = 1]
          /\ opBytes' = [opBytes EXCEPT ![o] = size] /\ active' = [active EXCEPT ![o] = size]
          /\ activeBytes' = activeBytes + size /\ worldBound' \in [Operations -> BOOLEAN]
    BY <1>1, <1>6 DEF Begin
  <2>3. size \in Nat /\ size <= MaxOperationBytes /\ 1 \in 0 .. MaxEvents
    BY <1>1
  <2>4. activeBytes' = activeBytes - active[o] + size
    BY <1>2, <2>1, <2>2, <2>3
  <2>5. ActiveAgree'
    <3>1. PICK count \in 0 .. MaxEvents : count = 1 /\ count # 0
      BY <2>3
    <3>2. records' = [records EXCEPT ![o] = count]
      BY <2>2, <3>1
    <3> QED BY <1>5, <2>2, <2>3, <2>4, <3>1, <3>2
  <2>6. activeBytes' + candidateBytes = activeBytes + candidateBytes + size
    BY <1>2, <2>2, <2>3
  <2> QED BY <2>2, <2>5, <2>6 DEF Fits
<1>7. ASSUME NEW o \in Operations, Append1(o)
      PROVE  ActiveAgree' /\ activeBytes' + candidateBytes <= MaxGlobalBytes
  <2>1. PICK size \in Sizes :
          /\ WithinOperationBounds(o, size) /\ Fits(size)
          /\ records' = [records EXCEPT ![o] = @ + 1]
          /\ opBytes' = [opBytes EXCEPT ![o] = @ + size] /\ active' = [active EXCEPT ![o] = @ + size]
          /\ activeBytes' = activeBytes + size /\ worldBound' = worldBound
    BY <1>7 DEF Append1
  <2>2. PICK total \in Nat, count \in 0 .. MaxEvents :
          /\ total = active[o] + size /\ total <= MaxOperationBytes
          /\ count = records[o] + 1 /\ count # 0
    <3>1. size \in Nat /\ active[o] \in Nat /\ records[o] \in Nat /\ opBytes[o] = active[o]
      BY <1>1
    <3> QED BY <1>1, <2>1, <3>1 DEF WithinOperationBounds
  <2>3. active[o] \in Nat /\ size \in Nat
    BY <1>1
  <2>4. /\ records' = [records EXCEPT ![o] = count] /\ opBytes' = [opBytes EXCEPT ![o] = total]
        /\ active' = [active EXCEPT ![o] = total]
    BY <1>1, <2>1, <2>2
  <2>5. activeBytes' = activeBytes - active[o] + total
    BY <1>2, <2>1, <2>2, <2>3
  <2>6. ActiveAgree'
    BY <1>1, <1>5, <2>1, <2>2, <2>4, <2>5
  <2>7. activeBytes' + candidateBytes = activeBytes + candidateBytes + size
    BY <1>2, <2>1, <2>3
  <2> QED BY <2>1, <2>6, <2>7 DEF Fits
<1>8. ASSUME NEW o \in Operations, Forgets(o)
      PROVE  ActiveAgree' /\ activeBytes' <= activeBytes
  <2>1. /\ records' = [records EXCEPT ![o] = 0] /\ opBytes' = [opBytes EXCEPT ![o] = 0]
        /\ active' = [active EXCEPT ![o] = 0] /\ activeBytes' = activeBytes - active[o]
        /\ worldBound' \in [Operations -> BOOLEAN]
    BY <1>1, <1>8 DEF Forgets, ForgetRecords, ReleaseOperation
  <2>2. active[o] \in Nat /\ 0 \in 0 .. MaxEvents /\ 0 <= MaxOperationBytes /\ 0 \in Nat
    BY <1>1
  <2>3. activeBytes' = activeBytes - active[o] + 0
    BY <1>2, <2>1, <2>2
  <2>4. ActiveAgree'
    BY <1>5, <2>1, <2>2, <2>3
  <2> QED BY <1>2, <2>1, <2>2, <2>4
<1>9. ActiveAgree'
  BY <1>3, <1>4, <1>6, <1>7, <1>8, RecordingKinds
<1>10. activeBytes' \in Nat
  <2>1. active' \in [Operations -> Nat] /\ activeBytes' = Total(active')
    BY <1>1, <1>9 DEF ActiveAgree
  <2> QED BY <1>1, <2>1, TotalNat
<1> QED BY <1>2, <1>3, <1>4, <1>6, <1>7, <1>8, <1>9, <1>10, RecordingKinds

(* The points of a recorded operation's call before its own sink exists. *)
Before == {"storm", "reserve", "record", "check", "keep", "drop", "finalize"}

(* Where the step of a call leads. *)
Leads(c, r) ==
  /\ call' = [call EXCEPT ![c] = r]
  /\ r.at # "idle" => r.op = call[c].op
  /\ r.seq = 0 \/ r.seq = call[c].seq
  /\ r.at = "record" => FailReserve(c)
  /\ r.at = "send" => SinkCount(c)
  /\ call[c].at = "send" => SinkSend(c)
  /\ r.at \in Before /\ call[c].op \in Recorded => call[c].at \in Before \/ FailTake(c)

(* Every step of a call leads somewhere. *)
LEMMA CallLeads ==
  ASSUME IInv, NEW c \in Callers, CallStep(c)
  PROVE  \E r \in CallRecords : Leads(c, r)
<1>1. call[c].at # "idle" /\ (call[c].at = "send" => SinkSend(c))
  <2>1. CASE FailGone(c) \/ FailTake(c) \/ FailInvalid(c) \/ FailAdmitted(c) \/ FailSuppressed(c)
             \/ FailReserve(c) \/ FailQueueFull(c)
    BY <2>1 DEF FailGone, FailTake, FailInvalid, FailAdmitted, FailSuppressed, FailReserve,
       FailQueueFull, At
  <2>2. CASE FailCheck(c) \/ FailKeep(c) \/ FailDrop(c) \/ RecorderStore(c) \/ TakeFailed(c)
             \/ FinalizeFails(c) \/ Finalize(c)
    BY <2>2 DEF FailCheck, FailKeep, FailDrop, RecorderStore, TakeFailed, FinalizeFails, Finalize, At
  <2>3. CASE SinkClaim(c) \/ SinkUnclaimed(c) \/ SinkCount(c) \/ SinkUncounted(c) \/ SinkRefuse(c)
    BY <2>3 DEF SinkClaim, SinkUnclaimed, SinkCount, SinkUncounted, SinkRefuse, At
  <2>4. CASE SinkSend(c)
    BY <2>4 DEF SinkSend, At
  <2> QED BY <2>1, <2>2, <2>3, <2>4 DEF CallStep
<1>2. PICK o \in Operations : call[c].op = o
  BY <1>1 DEF IInv, GoodCaller
<1>3. ASSUME NEW answer, Return(c, answer) PROVE \E r \in CallRecords : Leads(c, r)
  <2>1. PICK r \in CallRecords : r = NoCall /\ r.at = "idle" /\ r.seq = 0
    BY PipelineRecords DEF NoCall
  <2> QED BY <1>1, <1>3, <2>1 DEF Return, Leads, Before
<1>4. ASSUME NEW point \in CallPoints, GoTo(c, point), point # "record",
             point = "send" => SinkCount(c),
             point \in Before /\ o \in Recorded => call[c].at \in Before \/ FailTake(c)
      PROVE  \E r \in CallRecords : Leads(c, r)
  <2>1. PICK r \in CallRecords :
          /\ call' = [call EXCEPT ![c] = r] /\ r.at = point /\ r.op = o /\ r.seq = call[c].seq
    BY <1>2, <1>4, Goes
  <2> QED BY <1>1, <1>2, <1>4, <2>1 DEF Leads
<1>5. ASSUME NEW point \in CallPoints, NEW bytes \in CandidateSizes \cup {0}, NEW sent \in BOOLEAN,
             call' = [call EXCEPT ![c] = Calling(point, o, 0, bytes, sent)],
             point = "record" => FailReserve(c), point # "send",
             point \in Before /\ o \in Recorded => call[c].at \in Before \/ FailTake(c)
      PROVE  \E r \in CallRecords : Leads(c, r)
  <2>1. 0 \in Nat
    OBVIOUS
  <2>2. PICK r \in CallRecords :
          /\ r = Calling(point, o, 0, bytes, sent) /\ r.at = point /\ r.op = o /\ r.seq = 0
    BY <1>5, <2>1, PipelineRecords
  <2> QED BY <1>1, <1>2, <1>5, <2>2 DEF Leads
<1>6. CASE FailGone(c) \/ FailInvalid(c) \/ FailSuppressed(c) \/ FailQueueFull(c) \/ FailKeep(c)
           \/ FailDrop(c) \/ FinalizeFails(c)
  <2>1. \E answer : Return(c, answer)
    BY <1>6 DEF FailGone, FailInvalid, FailSuppressed, FailQueueFull, FailKeep, FailDrop, FinalizeFails
  <2> QED BY <1>3, <2>1
<1>7. CASE FailTake(c)
  <2>1. GoTo(c, "storm") /\ "storm" \in CallPoints
    BY <1>7 DEF FailTake, CallPoints
  <2> QED BY <1>4, <1>7, <2>1
<1>8. CASE FailAdmitted(c)
  <2>1. GoTo(c, "reserve") /\ "reserve" \in CallPoints /\ call[c].at \in Before
    BY <1>8 DEF FailAdmitted, CallPoints, At, Before
  <2> QED BY <1>4, <2>1
<1>9. CASE FailCheck(c)
  <2>1. PICK point \in {"keep", "drop"} : GoTo(c, point)
    BY <1>9 DEF FailCheck
  <2>2. point \in CallPoints /\ call[c].at \in Before
    BY <1>9 DEF FailCheck, CallPoints, At, Before
  <2> QED BY <1>4, <2>1, <2>2
<1>10. CASE TakeFailed(c)
  <2>1. GoTo(c, "finalize") /\ "finalize" \in CallPoints /\ call[c].at \in Before
    BY <1>10 DEF TakeFailed, CallPoints, At, Before
  <2> QED BY <1>4, <2>1
<1>11. CASE SinkClaim(c) \/ SinkUncounted(c) \/ SinkCount(c)
  <2>1. PICK point \in {"count", "refuse", "send"} : GoTo(c, point) /\ (point = "send" => SinkCount(c))
    BY <1>11 DEF SinkClaim, SinkUncounted, SinkCount
  <2>2. point \in CallPoints /\ point \notin Before
    BY DEF CallPoints, Before
  <2> QED BY <1>4, <2>1, <2>2
<1>12. CASE SinkUnclaimed(c) \/ SinkRefuse(c)
  <2>1. CASE o \in Recorded
    <3>1. Return(c, "incomplete")
      BY <1>2, <1>12, <2>1 DEF SinkUnclaimed, SinkRefuse, SinkAnswersNo
    <3> QED BY <1>3, <3>1
  <2>2. CASE o \notin Recorded
    <3>1. GoTo(c, "check") /\ "check" \in CallPoints
      BY <1>2, <1>12, <2>2 DEF SinkUnclaimed, SinkRefuse, SinkAnswersNo, CallPoints
    <3> QED BY <1>4, <2>2, <3>1
  <2> QED BY <2>1, <2>2
<1>13. CASE FailReserve(c)
  <2>1. PICK bytes \in CandidateSizes :
          call' = [call EXCEPT ![c] = Calling(IF o \in Recorded THEN "record" ELSE "claim", o, 0, bytes, FALSE)]
    BY <1>2, <1>13 DEF FailReserve
  <2>2. PICK point \in CallPoints : point = (IF o \in Recorded THEN "record" ELSE "claim") /\ point # "send"
    BY DEF CallPoints
  <2>3. call[c].at \in Before
    BY <1>13 DEF FailReserve, At, Before
  <2>4. PICK sent \in BOOLEAN : sent = FALSE
    OBVIOUS
  <2> QED BY <1>5, <1>13, <2>1, <2>2, <2>3, <2>4
<1>14. CASE RecorderStore(c)
  <2>1. call' = [call EXCEPT ![c] = Calling("check", o, 0, call[c].bytes, TRUE)] /\ call[c].at \in Before
    BY <1>2, <1>14 DEF RecorderStore, At, Before
  <2>2. call[c].bytes \in CandidateSizes \cup {0} /\ "check" \in CallPoints
    BY DEF IInv, PipelineTyped, CallRecords, CallPoints
  <2>3. PICK sent \in BOOLEAN : sent = TRUE
    OBVIOUS
  <2> QED BY <1>5, <2>1, <2>2, <2>3
<1>15. CASE Finalize(c)
  <2>1. PICK bytes \in CandidateSizes : call' = [call EXCEPT ![c] = Calling("claim", o, 0, bytes, FALSE)]
    BY <1>2, <1>15 DEF Finalize
  <2>2. "claim" \in CallPoints /\ "claim" \notin Before
    BY DEF CallPoints, Before
  <2>3. PICK sent \in BOOLEAN : sent = FALSE
    OBVIOUS
  <2> QED BY <1>5, <2>1, <2>2, <2>3
<1>16. CASE SinkSend(c)
  <2>1. CASE o \in Recorded
    <3>1. Return(c, "accepted")
      BY <1>2, <1>16, <2>1 DEF SinkSend
    <3> QED BY <1>3, <3>1
  <2>2. CASE o \notin Recorded
    <3>1. call' = [call EXCEPT ![c] = Calling("check", o, 0, call[c].bytes, TRUE)]
      BY <1>2, <1>16, <2>2 DEF SinkSend
    <3>2. call[c].bytes \in CandidateSizes \cup {0} /\ "check" \in CallPoints
      BY DEF IInv, PipelineTyped, CallRecords, CallPoints
    <3>3. PICK sent \in BOOLEAN : sent = TRUE
      OBVIOUS
    <3> QED BY <1>5, <2>2, <3>1, <3>2, <3>3
  <2> QED BY <2>1, <2>2
<1> QED BY <1>6, <1>7, <1>8, <1>9, <1>10, <1>11, <1>12, <1>13, <1>14, <1>15, <1>16 DEF CallStep
-----------------------------------------------------------------------------
(* A capture may be set to these bytes and this state: it gets no larger, or  *)
(* there is room for it.                                                      *)
Allowed(o, bytes, state) ==
  /\ state = "none" => bytes = 0
  /\ \/ bytes <= candidate[o].bytes /\ (state = "none" \/ State(o) # "none")
     \/ State(o) = "none" /\ bytes > 0 /\ HasRoom(bytes)

(* The entry of a call that waits to be recorded is its own. *)
Entering(o) == \A d \in Callers : call[d].at = "record" /\ call[d].op = o => call'[d] # call[d]

(* A step that sets one capture. *)
Captured(o, bytes, state) ==
  /\ SetCapture(o, bytes, state) /\ Allowed(o, bytes, state)
  /\ UNCHANGED activeVars /\ Entering(o)

(* Another call does not wait with the operation that a call has. *)
LEMMA EnteringAlone ==
  ASSUME IInv, NEW c \in Callers, call[c].at \notin {"idle", "recorded"}, call'[c] # call[c]
  PROVE  Entering(call[c].op)
<1>1. \A d \in Callers : d # c => ~Past(d, call[c].op)
  BY CallAlone
<1> QED BY <1>1 DEF Entering, Past

(* Every step sets one capture or leaves the captures alone. *)
LEMMA CaptureKinds ==
  ASSUME IInv, EntriesAgree, StoredAgree, [Next]_vars
  PROVE  \/ UNCHANGED captureVars
         \/ \E o \in Operations, bytes \in Nat, state \in {"none", "Handoff", "Retained"} :
              Captured(o, bytes, state)
<1>0. /\ \A o \in Operations : candidate[o].bytes \in Nat /\ candidate[o] \in CaptureRecords
      /\ CandidateSizes \subseteq Nat \ {0}
  BY PipelineAssumption DEF EntriesAgree, IInv, PipelineTyped
<1>1. ASSUME NEW o \in Operations, ReleaseCandidate(o), UNCHANGED activeVars, Entering(o)
      PROVE  \E bytes \in Nat, state \in {"none", "Handoff", "Retained"} : Captured(o, bytes, state)
  <2>1. PICK bytes \in Nat, state \in {"none", "Handoff", "Retained"} : bytes = 0 /\ state = "none"
    OBVIOUS
  <2>2. bytes <= candidate[o].bytes
    BY <1>0, <2>1
  <2>3. SetCapture(o, bytes, state)
    BY <1>1, <2>1 DEF ReleaseCandidate
  <2> QED BY <1>1, <2>1, <2>2, <2>3 DEF Captured, Allowed
<1>2. ASSUME NEW c \in Callers, CallStep(c)
      PROVE  \/ UNCHANGED captureVars
             \/ \E o \in Operations, bytes \in Nat, state \in {"none", "Handoff", "Retained"} :
                  Captured(o, bytes, state)
  <2>1. CASE FailGone(c) \/ FailTake(c) \/ FailInvalid(c) \/ FailAdmitted(c) \/ FailSuppressed(c)
             \/ FailQueueFull(c) \/ FailCheck(c) \/ FailKeep(c)
    BY <2>1 DEF FailGone, FailTake, FailInvalid, FailAdmitted, FailSuppressed, FailQueueFull,
       FailCheck, FailKeep
  <2>2. CASE FinalizeFails(c) \/ Finalize(c) \/ SinkUnclaimed(c) \/ SinkCount(c) \/ SinkUncounted(c)
             \/ SinkSend(c)
    BY <2>2 DEF FinalizeFails, Finalize, SinkUnclaimed, SinkCount, SinkUncounted, SinkSend
  <2>3. CASE FailDrop(c) \/ SinkRefuse(c) \/ TakeFailed(c)
    <3>1. /\ call[c].at \in {"keep", "drop", "refuse"} /\ ReleaseCandidate(call[c].op)
          /\ UNCHANGED activeVars /\ call'[c].at # call[c].at
      BY <2>3 DEF FailDrop, SinkRefuse, TakeFailed, At, Return, GoTo, SinkAnswersNo, NoCall, Calling,
         IInv, PipelineTyped
    <3>2. call[c].op \in Operations /\ Entering(call[c].op)
      BY <3>1, CallAlone, EnteringAlone
    <3> QED BY <1>1, <3>1, <3>2
  <2>4. CASE FailReserve(c)
    <3>1. call[c].at = "reserve"
      BY <2>4 DEF FailReserve, At
    <3>2. PICK o \in Operations : call[c].op = o /\ GoodCall(c, o)
      BY <3>1, CallAlone
    <3>3. PICK bytes \in CandidateSizes, state \in {"none", "Handoff", "Retained"} :
            /\ HasRoom(bytes) /\ SetCapture(o, bytes, state) /\ state = "Handoff"
            /\ call'[c].at # "reserve"
      BY <2>4, <3>2 DEF FailReserve, Calling, IInv, PipelineTyped
    <3>4. Entering(o)
      BY <3>1, <3>2, <3>3, EnteringAlone
    <3>5. State(o) = "none" /\ bytes \in Nat /\ bytes > 0
      BY <1>0, <3>1, <3>2 DEF GoodCall
    <3>6. Captured(o, bytes, state)
      BY <2>4, <3>3, <3>4, <3>5 DEF FailReserve, Captured, Allowed
    <3> QED BY <3>5, <3>6
  <2>5. CASE RecorderStore(c)
    <3>1. call[c].at = "record"
      BY <2>5 DEF RecorderStore, At
    <3>2. PICK o \in Operations : call[c].op = o /\ GoodCall(c, o)
      BY <3>1, CallAlone
    <3>3. PICK bytes \in Nat, state \in {"none", "Handoff", "Retained"} :
            bytes = call[c].bytes /\ bytes = candidate[o].bytes /\ state = "Retained"
      BY <1>0, <3>1, <3>2 DEF StoredAgree
    <3>4. SetCapture(o, bytes, state) /\ UNCHANGED activeVars /\ call'[c].at # "record"
      BY <2>5, <3>2, <3>3 DEF RecorderStore, Calling, IInv, PipelineTyped
    <3>5. Entering(o)
      BY <3>1, <3>2, <3>4, EnteringAlone
    <3>6. State(o) # "none" /\ bytes <= candidate[o].bytes
      BY <1>0, <3>1, <3>2, <3>3 DEF GoodCall
    <3> QED BY <3>3, <3>4, <3>5, <3>6 DEF Captured, Allowed
  <2>6. CASE SinkClaim(c)
    <3>1. call[c].at = "claim"
      BY <2>6 DEF SinkClaim, At
    <3>2. PICK o \in Operations : call[c].op = o /\ GoodCall(c, o)
      BY <3>1, CallAlone
    <3>3. PICK bytes \in CandidateSizes, state \in {"none", "Handoff", "Retained"} :
            bytes = call[c].bytes /\ state = "Retained"
      BY <3>1, <3>2 DEF GoodCall
    <3>4. SetCapture(o, bytes, state) /\ UNCHANGED activeVars /\ call'[c].at # "claim"
      BY <2>6, <3>2, <3>3 DEF SinkClaim, GoTo, Calling, IInv, PipelineTyped
    <3>5. Entering(o)
      BY <3>1, <3>2, <3>4, EnteringAlone
    <3>6. bytes \in Nat /\ bytes > 0
      BY <1>0
    <3>7. Allowed(o, bytes, state)
      <4>1. Claimable(o, bytes)
        BY <2>6, <3>2, <3>3 DEF SinkClaim
      <4>2. CASE candidate[o] = [bytes |-> bytes, state |-> "Handoff"]
        BY <3>3, <3>6, <4>2 DEF Allowed, State
      <4>3. CASE candidate[o] = NoCapture /\ HasRoom(bytes)
        BY <3>3, <3>6, <4>3 DEF Allowed, State, NoCapture
      <4> QED BY <4>1, <4>2, <4>3 DEF Claimable
    <3> QED BY <3>4, <3>5, <3>6, <3>7 DEF Captured
  <2> QED BY <1>2, <2>1, <2>2, <2>3, <2>4, <2>5, <2>6 DEF CallStep
<1>3. ASSUME NEW s \in Sinks, WorkerRelease(s)
      PROVE  \E o \in Operations, bytes \in Nat, state \in {"none", "Handoff", "Retained"} :
               Captured(o, bytes, state)
  <2>1. PICK o \in Operations : worker[s].op = o /\ State(o) = "Retained"
    BY <1>3, WorkerHolds DEF WorkerRelease
  <2>2. \A d \in Callers : call[d].at = "record" => call[d].op # o
    BY <2>1, CallAlone DEF GoodCall
  <2>3. Entering(o) /\ ReleaseCandidate(o) /\ UNCHANGED activeVars
    BY <1>3, <2>1, <2>2 DEF Entering, WorkerRelease
  <2> QED BY <1>1, <2>3
<1>4. ASSUME NEW s \in Sinks, WorkerRecv(s) \/ WorkerDeliver(s) \/ WorkerFinish(s)
      PROVE  UNCHANGED captureVars
  BY <1>4 DEF WorkerRecv, WorkerDeliver, WorkerFinish
<1>5. ASSUME NEW o \in Operations, Begin(o) \/ BindAutomaticWorld(o) \/ Append1(o) \/ Delete(o)
      PROVE  UNCHANGED captureVars
  BY <1>5 DEF Begin, BindAutomaticWorld, Append1, Delete
<1>6. ASSUME NEW c \in Callers, NEW o \in Operations, FailRecord(c, o) PROVE UNCHANGED captureVars
  BY <1>6 DEF FailRecord
<1>7. PassTime \/ UNCHANGED vars => UNCHANGED captureVars
  BY DEF PassTime, vars
<1> QED BY <1>2, <1>3, <1>4, <1>5, <1>6, <1>7 DEF Next, WorkerStep

(* The tables grow by one entry at most. *)
LEMMA CapturesFinite ==
  ASSUME NEW o \in Operations
  PROVE  /\ IsFiniteSet(Captures) /\ Cardinality(Captures) \in Nat
         /\ IsFiniteSet(Captures \cup {o})
         /\ Cardinality(Captures \cup {o}) <= Cardinality(Captures) + 1
<1>1. Captures \subseteq Operations
  BY DEF Captures
<1>2. IsFiniteSet(Captures) /\ Cardinality(Captures) \in Nat
  BY <1>1, FS_Subset, FS_CardinalityType, PipelineAssumption
<1>3. /\ IsFiniteSet(Captures \cup {o})
      /\ \/ Cardinality(Captures \cup {o}) = Cardinality(Captures)
         \/ Cardinality(Captures \cup {o}) = Cardinality(Captures) + 1
  BY <1>2, FS_AddElement
<1> QED BY <1>2, <1>3

(* The candidates stay accounted for, within the limits. *)
LEMMA EntriesStep ==
  ASSUME IInv, ActiveAgree, EntriesAgree, StoredAgree, [Next]_vars
  PROVE  EntriesAgree'
<1>1. /\ candidate \in [Operations -> CaptureRecords] /\ IsFiniteSet(Operations)
      /\ CandidateSize \in [Operations -> Nat] /\ candidateBytes = Total(CandidateSize)
      /\ activeBytes + candidateBytes <= MaxGlobalBytes /\ Cardinality(Captures) <= MaxQueued
      /\ MaxGlobalBytes \in Nat /\ MaxQueued \in Nat
      /\ \A p \in Operations : candidate[p].bytes \in 0 .. MaxGlobalBytes
                               /\ (State(p) = "none" => candidate[p].bytes = 0)
  BY PipelineAssumption DEF EntriesAgree, IInv, PipelineTyped, CandidateSize
<1>2. candidateBytes \in Nat
  BY <1>1, TotalNat
<1>3. /\ activeBytes \in Nat /\ activeBytes' \in Nat
      /\ activeBytes' <= activeBytes \/ activeBytes' + candidateBytes <= MaxGlobalBytes
  BY <1>2, RecordingAgrees
<1>4. CASE UNCHANGED captureVars
  <2>1. candidate' = candidate /\ candidateBytes' = candidateBytes
    BY <1>4 DEF captureVars
  <2>2. CandidateSize' = CandidateSize /\ Captures' = Captures
    BY <2>1 DEF CandidateSize, Captures
  <2>3. activeBytes' + candidateBytes' <= MaxGlobalBytes
    BY <1>1, <1>2, <1>3, <2>1
  <2> QED BY <1>1, <2>1, <2>2, <2>3 DEF EntriesAgree, State
<1>5. ASSUME NEW o \in Operations, NEW bytes \in Nat, NEW state \in {"none", "Handoff", "Retained"},
             Captured(o, bytes, state)
      PROVE  EntriesAgree'
  <2>1. /\ candidate'[o].bytes = bytes /\ State(o)' = state /\ candidate[o].bytes \in Nat
        /\ candidateBytes' = candidateBytes - candidate[o].bytes + bytes
        /\ activeBytes' = activeBytes
        /\ \A p \in Operations : p # o => candidate'[p] = candidate[p]
    BY <1>1, <1>5 DEF Captured, SetCapture, State, activeVars
  <2>2. CandidateSize' \in [Operations -> Nat]
    BY <1>1, <2>1 DEF CandidateSize
  <2>3. Total(CandidateSize') = Total(CandidateSize) - candidate[o].bytes + bytes
    <3>1. /\ CandidateSize \in [Operations -> Int] /\ CandidateSize' \in [Operations -> Int]
          /\ \A p \in Operations : p # o => CandidateSize'[p] = CandidateSize[p]
          /\ CandidateSize[o] = candidate[o].bytes /\ CandidateSize'[o] = bytes
      BY <1>1, <2>1, <2>2 DEF CandidateSize
    <3> QED BY <1>1, <3>1, TotalChanged
  <2>4. candidateBytes' = Total(CandidateSize')
    BY <1>1, <2>1, <2>3
  <2>5. /\ state = "none" => bytes = 0
        /\ \/ bytes <= candidate[o].bytes /\ (state = "none" \/ State(o) # "none")
           \/ State(o) = "none" /\ bytes > 0 /\ HasRoom(bytes)
    BY <1>5 DEF Captured, Allowed
  <2>6. CASE bytes <= candidate[o].bytes /\ (state = "none" \/ State(o) # "none")
    <3>1. candidateBytes' <= candidateBytes /\ bytes <= MaxGlobalBytes
      BY <1>1, <1>2, <2>1, <2>6
    <3>2. Captures' \subseteq Captures
      BY <2>1, <2>6 DEF Captures, State
    <3>3. Cardinality(Captures') <= Cardinality(Captures) /\ Cardinality(Captures) \in Nat
          /\ Cardinality(Captures') \in Nat
      BY <3>2, CapturesFinite, FS_Subset, FS_CardinalityType
    <3>4. candidateBytes' \in Int
      BY <1>2, <2>1
    <3>5. \A p \in Operations : candidate'[p].bytes \in 0 .. MaxGlobalBytes
                                /\ (State(p)' = "none" => candidate'[p].bytes = 0)
      BY <1>1, <2>1, <2>5, <3>1 DEF State
    <3>6. activeBytes' + candidateBytes' <= MaxGlobalBytes
      BY <1>1, <1>2, <1>3, <2>1, <3>1, <3>4
    <3>7. Cardinality(Captures') <= MaxQueued
      BY <1>1, <3>3
    <3> QED BY <2>4, <3>5, <3>6, <3>7 DEF EntriesAgree
  <2>7. CASE State(o) = "none" /\ bytes > 0 /\ HasRoom(bytes)
    <3>1. /\ Cardinality(Captures) < MaxQueued
          /\ activeBytes + candidateBytes + bytes <= MaxGlobalBytes
      BY <2>7 DEF HasRoom, Fits
    <3>2. candidateBytes' = candidateBytes + bytes
      BY <1>1, <1>2, <2>1, <2>7
    <3>3. Captures' \subseteq Captures \cup {o}
      BY <2>1 DEF Captures
    <3>4. Cardinality(Captures') <= Cardinality(Captures) + 1 /\ Cardinality(Captures) \in Nat
          /\ Cardinality(Captures') \in Nat
      <4>1. Cardinality(Captures') <= Cardinality(Captures \cup {o})
            /\ Cardinality(Captures') \in Nat /\ Cardinality(Captures \cup {o}) \in Nat
        BY <3>3, CapturesFinite, FS_Subset, FS_CardinalityType
      <4> QED BY <4>1, CapturesFinite
    <3>5. bytes <= MaxGlobalBytes
      BY <1>1, <1>2, <1>3, <3>1
    <3>6. \A p \in Operations : candidate'[p].bytes \in 0 .. MaxGlobalBytes
                                /\ (State(p)' = "none" => candidate'[p].bytes = 0)
      BY <1>1, <2>1, <2>5, <3>5 DEF State
    <3>7. activeBytes' + candidateBytes' <= MaxGlobalBytes
      BY <1>2, <1>3, <2>1, <3>1, <3>2
    <3>8. Cardinality(Captures') <= MaxQueued
      BY <1>1, <3>1, <3>4
    <3> QED BY <2>4, <3>6, <3>7, <3>8 DEF EntriesAgree
  <2> QED BY <2>5, <2>6, <2>7
<1> QED BY <1>4, <1>5, CaptureKinds

(* A slot is set only by the recorder and emptied only by its call. *)
LEMMA SlotKinds ==
  ASSUME IInv, [Next]_vars
  PROVE  \/ UNCHANGED slot
         \/ \E c \in Callers : RecorderStore(c) \/ TakeFailed(c)
<1>1. ASSUME NEW c \in Callers, CallStep(c)
      PROVE  UNCHANGED slot \/ RecorderStore(c) \/ TakeFailed(c)
  <2>1. CASE FailGone(c) \/ FailTake(c) \/ FailInvalid(c) \/ FailAdmitted(c) \/ FailSuppressed(c)
             \/ FailReserve(c) \/ FailQueueFull(c) \/ FailCheck(c) \/ FailKeep(c) \/ FailDrop(c)
    BY <2>1 DEF FailGone, FailTake, FailInvalid, FailAdmitted, FailSuppressed, FailReserve,
       FailQueueFull, FailCheck, FailKeep, FailDrop
  <2>2. CASE FinalizeFails(c) \/ Finalize(c) \/ SinkClaim(c) \/ SinkUnclaimed(c) \/ SinkCount(c)
             \/ SinkUncounted(c) \/ SinkRefuse(c) \/ SinkSend(c)
    BY <2>2 DEF FinalizeFails, Finalize, SinkClaim, SinkUnclaimed, SinkCount, SinkUncounted,
       SinkRefuse, SinkSend
  <2> QED BY <1>1, <2>1, <2>2 DEF CallStep
<1>2. ASSUME NEW s \in Sinks, WorkerStep(s) PROVE UNCHANGED slot
  BY <1>2 DEF WorkerStep, WorkerRecv, WorkerDeliver, WorkerRelease, WorkerFinish
<1>3. ASSUME NEW o \in Operations, Begin(o) \/ BindAutomaticWorld(o) \/ Append1(o) \/ Delete(o)
      PROVE  UNCHANGED slot
  BY <1>3 DEF Begin, BindAutomaticWorld, Append1, Delete
<1>4. ASSUME NEW c \in Callers, NEW o \in Operations, FailRecord(c, o) PROVE UNCHANGED slot
  BY <1>4 DEF FailRecord
<1>5. PassTime \/ UNCHANGED vars => UNCHANGED slot
  BY DEF PassTime, vars
<1> QED BY <1>1, <1>2, <1>3, <1>4, <1>5 DEF Next

(* How a step changes the calls. *)
LEMMA CallKinds ==
  ASSUME IInv, [Next]_vars, NEW d \in Callers
  PROVE  \/ call'[d] = call[d]
         \/ \E o \in Operations : FailRecord(d, o)
         \/ \E r \in CallRecords : Leads(d, r) /\ call'[d] = r
<1>0. call \in [Callers -> CallRecords]
  BY DEF IInv, PipelineTyped
<1>1. ASSUME NEW c \in Callers, CallStep(c), d # c PROVE call'[d] = call[d]
  BY <1>0, <1>1, CallLeads DEF Leads
<1>2. ASSUME CallStep(d) PROVE \E r \in CallRecords : Leads(d, r) /\ call'[d] = r
  BY <1>0, <1>2, CallLeads DEF Leads
<1>3. ASSUME NEW s \in Sinks, WorkerStep(s) PROVE call'[d] = call[d]
  BY <1>3 DEF WorkerStep, WorkerRecv, WorkerDeliver, WorkerRelease, WorkerFinish
<1>4. ASSUME NEW o \in Operations, Begin(o) \/ BindAutomaticWorld(o) \/ Append1(o) \/ Delete(o)
      PROVE  call'[d] = call[d]
  BY <1>4 DEF Begin, BindAutomaticWorld, Append1, Delete
<1>5. ASSUME NEW c \in Callers, NEW o \in Operations, FailRecord(c, o), c # d PROVE call'[d] = call[d]
  BY <1>0, <1>5 DEF FailRecord
<1>6. PassTime \/ UNCHANGED vars => call'[d] = call[d]
  BY DEF PassTime, vars
<1> QED BY <1>1, <1>2, <1>3, <1>4, <1>5, <1>6 DEF Next

(* What a recorder stores stays what its call has reserved. *)
LEMMA StoredStep ==
  ASSUME IInv, EntriesAgree, StoredAgree, [Next]_vars
  PROVE  StoredAgree'
<1>1. /\ slot \in [Operations -> Nat] /\ MaxOperationBytes \in Nat
      /\ candidate \in [Operations -> CaptureRecords] /\ call \in [Callers -> CallRecords]
  BY PipelineAssumption DEF IInv, PipelineTyped
<1>2. ASSUME NEW o \in Operations PROVE slot'[o] <= MaxOperationBytes
  <2>1. CASE UNCHANGED slot
    BY <2>1 DEF StoredAgree
  <2>2. ASSUME NEW c \in Callers, RecorderStore(c) PROVE slot'[o] <= MaxOperationBytes
    <3>1. call[c].at = "record" /\ slot' = [slot EXCEPT ![call[c].op] = call[c].bytes]
      BY <2>2 DEF RecorderStore, At
    <3>2. call[c].bytes <= MaxOperationBytes
      BY <3>1 DEF StoredAgree
    <3> QED BY <1>1, <3>1, <3>2 DEF StoredAgree
  <2>3. ASSUME NEW c \in Callers, TakeFailed(c) PROVE slot'[o] <= MaxOperationBytes
    BY <1>1, <2>3 DEF TakeFailed, StoredAgree
  <2> QED BY <2>1, <2>2, <2>3, SlotKinds
<1>3. ASSUME NEW c \in Callers, call'[c].at = "record"
      PROVE  call'[c].bytes = candidate'[call'[c].op].bytes /\ call'[c].bytes <= MaxOperationBytes
  <2>1. CASE call'[c] = call[c]
    <3>1. PICK o \in Operations : call[c].op = o /\ call[c].bytes = candidate[o].bytes
            /\ call[c].bytes <= MaxOperationBytes
      BY <1>3, <2>1, CallAlone DEF StoredAgree
    <3>2. candidate'[o] = candidate[o]
      <4>1. CASE UNCHANGED captureVars
        BY <4>1 DEF captureVars
      <4>2. ASSUME NEW p \in Operations, NEW bytes \in Nat, NEW state \in {"none", "Handoff", "Retained"},
                   Captured(p, bytes, state)
            PROVE  candidate'[o] = candidate[o]
        <5>1. p # o
          BY <1>3, <2>1, <3>1, <4>2 DEF Captured, Entering
        <5> QED BY <1>1, <4>2, <5>1 DEF Captured, SetCapture
      <4> QED BY <4>1, <4>2, CaptureKinds
    <3> QED BY <2>1, <3>1, <3>2
  <2>2. ASSUME NEW o \in Operations, FailRecord(c, o) PROVE FALSE
    BY <1>1, <1>3, <2>2 DEF FailRecord, Calling
  <2>3. ASSUME NEW r \in CallRecords, Leads(c, r), call'[c] = r
        PROVE  call'[c].bytes = candidate'[call'[c].op].bytes /\ call'[c].bytes <= MaxOperationBytes
    <3>1. FailReserve(c)
      BY <1>3, <2>3 DEF Leads
    <3>2. PICK o \in Operations : call[c].op = o
      BY <3>1, CallAlone DEF FailReserve, At
    <3>3. PICK bytes \in CandidateSizes :
            /\ bytes <= MaxOperationBytes /\ SetCapture(o, bytes, "Handoff")
            /\ call'[c].bytes = bytes /\ call'[c].op = o
      BY <1>1, <3>1, <3>2 DEF FailReserve, Calling
    <3>4. candidate'[o].bytes = bytes
      BY <1>1, <3>3 DEF SetCapture
    <3> QED BY <3>3, <3>4
  <2> QED BY <2>1, <2>2, <2>3, CallKinds
<1> QED BY <1>2, <1>3 DEF StoredAgree

-----------------------------------------------------------------------------
(***************************************************************************)
(* The sinks.                                                              *)
(***************************************************************************)
(* A recorded operation has no worker before it is finalised. *)
AbsentAgree == \A o \in Recorded :
  records[o] > 0 \/ (\E c \in Callers : call[c].op = o /\ call[c].at \in Before)
    => worker[o].at = "absent"

(* How a step changes the worker of a sink. *)
LEMMA WorkerKinds ==
  ASSUME IInv, [Next]_vars, NEW s \in Sinks
  PROVE  \/ worker'[s] = worker[s]
         \/ /\ s \in Recorded /\ Begin(s) /\ worker'[s].at = "absent"
            /\ worker[s].at \in {"absent", "idle"}
         \/ \E c \in Callers : Finalize(c) /\ call[c].op = s /\ s \in Recorded /\ worker'[s].at = "idle"
         \/ WorkerStep(s)
<1>0. worker \in [Sinks -> WorkerRecords] /\ Recorded \subseteq Sinks
  BY DEF IInv, PipelineTyped, Sinks
<1>1. ASSUME NEW c \in Callers, CallStep(c)
      PROVE  UNCHANGED worker \/ Finalize(c)
  <2>1. CASE FailGone(c) \/ FailTake(c) \/ FailInvalid(c) \/ FailAdmitted(c) \/ FailSuppressed(c)
             \/ FailReserve(c) \/ FailQueueFull(c) \/ FailCheck(c) \/ FailKeep(c) \/ FailDrop(c)
    BY <2>1 DEF FailGone, FailTake, FailInvalid, FailAdmitted, FailSuppressed, FailReserve,
       FailQueueFull, FailCheck, FailKeep, FailDrop
  <2>2. CASE RecorderStore(c) \/ TakeFailed(c) \/ FinalizeFails(c) \/ SinkClaim(c) \/ SinkUnclaimed(c)
             \/ SinkCount(c) \/ SinkUncounted(c) \/ SinkRefuse(c) \/ SinkSend(c)
    BY <2>2 DEF RecorderStore, TakeFailed, FinalizeFails, SinkClaim, SinkUnclaimed, SinkCount,
       SinkUncounted, SinkRefuse, SinkSend
  <2> QED BY <1>1, <2>1, <2>2 DEF CallStep
<1>2. ASSUME NEW c \in Callers, Finalize(c)
      PROVE  \/ worker'[s] = worker[s]
             \/ call[c].op = s /\ s \in Recorded /\ worker'[s].at = "idle"
  <2>1. PICK o \in Operations : call[c].op = o /\ GoodCall(c, o)
    BY <1>2, CallAlone DEF Finalize, At
  <2>2. o \in Recorded
    BY <1>2, <2>1 DEF Finalize, At, GoodCall
  <2> QED BY <1>0, <1>2, <2>1, <2>2 DEF Finalize, WorkerAt
<1>3. ASSUME NEW t \in Sinks, WorkerStep(t), t # s PROVE worker'[s] = worker[s]
  BY <1>0, <1>3 DEF WorkerStep, WorkerRecv, WorkerDeliver, WorkerRelease, WorkerFinish
<1>4. ASSUME NEW o \in Operations, Begin(o)
      PROVE  \/ worker'[s] = worker[s]
             \/ /\ s \in Recorded /\ s = o /\ worker'[s].at = "absent"
                /\ worker[s].at \in {"absent", "idle"}
  BY <1>0, <1>4 DEF Begin, Fresh, WorkerAt
<1>5. ASSUME NEW o \in Operations, BindAutomaticWorld(o) \/ Append1(o) \/ Delete(o)
      PROVE  worker'[s] = worker[s]
  BY <1>5 DEF BindAutomaticWorld, Append1, Delete
<1>6. ASSUME NEW c \in Callers, NEW o \in Operations, FailRecord(c, o) PROVE worker'[s] = worker[s]
  BY <1>6 DEF FailRecord
<1>7. PassTime \/ UNCHANGED vars => worker'[s] = worker[s]
  BY DEF PassTime, vars
<1> QED BY <1>1, <1>2, <1>3, <1>4, <1>5, <1>6, <1>7 DEF Next

(* Nobody starts a worker for an operation that is not finalised. *)
LEMMA AbsentStep ==
  ASSUME IInv, AbsentAgree, [Next]_vars
  PROVE  AbsentAgree'
<1>0. /\ records \in [Operations -> Nat] /\ call \in [Callers -> CallRecords]
      /\ Recorded \subseteq Operations /\ Recorded \subseteq Sinks
  BY PipelineAssumption DEF IInv, PipelineTyped, Sinks
<1> SUFFICES ASSUME NEW o \in Recorded,
                    records'[o] > 0 \/ \E c \in Callers : call'[c].op = o /\ call'[c].at \in Before,
                    worker'[o].at # "absent"
             PROVE  FALSE
  BY DEF AbsentAgree
<1>1. ASSUME records'[o] > 0 PROVE records[o] > 0
  <2>1. ~Begin(o)
    BY <1>0 DEF Begin, WorkerAt, IInv, PipelineTyped
  <2>2. ASSUME NEW p \in Operations, p # o, Begin(p) PROVE records'[o] = records[o]
    BY <1>0, <2>2 DEF Begin
  <2>3. ASSUME NEW p \in Operations, BindAutomaticWorld(p) \/ Append1(p) PROVE records[o] > 0
    BY <1>0, <1>1, <2>3 DEF BindAutomaticWorld, Append1
  <2>4. ASSUME NEW p \in Operations, Forgets(p) PROVE records[o] > 0
    BY <1>0, <1>1, <2>4 DEF Forgets, ForgetRecords
  <2>5. Recording => records'[o] = records[o]
    BY DEF Recording
  <2> QED BY <1>1, <2>1, <2>2, <2>3, <2>4, <2>5, RecordingKinds
<1>2. ASSUME NEW c \in Callers, call'[c].op = o, call'[c].at \in Before
      PROVE  (call[c].op = o /\ call[c].at \in Before) \/ records[o] > 0
  <2>1. ASSUME NEW p \in Operations, FailRecord(c, p) PROVE FALSE
    BY <1>0, <1>2, <2>1 DEF FailRecord, Calling, Before
  <2>2. ASSUME NEW r \in CallRecords, Leads(c, r), call'[c] = r
        PROVE  (call[c].op = o /\ call[c].at \in Before) \/ records[o] > 0
    <3>1. call[c].op = o
      BY <1>2, <2>2 DEF Leads, Before
    <3>2. call[c].at \in Before \/ FailTake(c)
      BY <1>2, <2>2, <3>1 DEF Leads
    <3> QED BY <3>1, <3>2 DEF FailTake
  <2> QED BY <1>2, <2>1, <2>2, CallKinds
<1>3. worker[o].at = "absent"
  BY <1>1, <1>2 DEF AbsentAgree
<1>4. ~WorkerStep(o)
  BY <1>3 DEF WorkerStep, WorkerRecv, WorkerDeliver, WorkerRelease, WorkerFinish
<1>5. ASSUME NEW c \in Callers, Finalize(c), call[c].op = o PROVE FALSE
  <2>1. call[c].at = "finalize"
    BY <1>5 DEF Finalize, At
  <2>2. GoodCall(c, o) /\ \A d \in Callers : d # c => ~Past(d, o)
    BY <1>5, <2>1, CallAlone
  <2>3. records'[o] = 0
    BY <1>5, <2>2 DEF Finalize, GoodCall, sdkVars
  <2>4. call'[c].at = "claim" /\ \A d \in Callers : d # c => call'[d] = call[d]
    BY <1>0, <1>5 DEF Finalize, Calling
  <2> QED BY <2>2, <2>3, <2>4 DEF Past, Before
<1> QED BY <1>0, <1>3, <1>4, <1>5, WorkerKinds

(* The calls that have counted a candidate and not yet sent it. *)
Sending(s) == {c \in Callers : call[c].at = "send" /\ SinkOf(call[c].op) = s}
Busy(s) == worker[s].at \notin {"absent", "idle"}
BusyCount(s) == IF Busy(s) THEN 1 ELSE 0
BusyBytes(s) == IF Busy(s) THEN worker[s].bytes ELSE 0

GoodCount(s) ==
  /\ IsFiniteSet(Sending(s))
  /\ counted[s] = Len(queue[s]) + BusyCount(s) + Cardinality(Sending(s))
  /\ counted[s] <= MaxQueued

(* w has the bytes of each operation that is queued or sent into sink s. *)
Holds(s, w) ==
  /\ \A k \in 1 .. Len(queue[s]) : w[queue[s][k].op] = queue[s][k].bytes
  /\ \A c \in Sending(s) : w[call[c].op] = call[c].bytes
  /\ \A o \in Operations : w[o] # 0 =>
       SinkOf(o) = s /\ (Queued(o) \/ \E c \in Sending(s) : call[c].op = o)

GoodBytes(s) ==
  /\ \E w \in [Operations -> Nat] : queuedBytes[s] = Total(w) + BusyBytes(s) /\ Holds(s, w)
  /\ queuedBytes[s] <= MaxGlobalBytes

(* A sink counts what is on its way through it. *)
SinksAgree ==
  /\ counted \in [Sinks -> Int] /\ queuedBytes \in [Sinks -> Int]
  /\ \A s \in Sinks : GoodCount(s) /\ GoodBytes(s)

(* Nothing happens in the sink that it counts. *)
Quiet(s) ==
  /\ queue'[s] = queue[s] /\ counted'[s] = counted[s] /\ queuedBytes'[s] = queuedBytes[s]
  /\ (Busy(s)' <=> Busy(s)) /\ (Busy(s) => worker'[s].bytes = worker[s].bytes)
  /\ \A c \in Callers : c \in Sending(s)' <=> c \in Sending(s)
  /\ \A c \in Sending(s) : call'[c] = call[c]

(* Every step leaves a sink alone but its own four. *)
LEMMA SinkKinds ==
  ASSUME IInv, AbsentAgree, SinksAgree, [Next]_vars, NEW s \in Sinks
  PROVE  \/ Quiet(s) \/ WorkerRecv(s) \/ WorkerFinish(s)
         \/ \E c \in Callers : (SinkCount(c) \/ SinkSend(c)) /\ SinkOf(call[c].op) = s
<1> SUFFICES ASSUME ~WorkerRecv(s), ~WorkerFinish(s),
                    \A c \in Callers : SinkCount(c) \/ SinkSend(c) => SinkOf(call[c].op) # s
             PROVE  Quiet(s)
  OBVIOUS
<1>0. /\ call \in [Callers -> CallRecords] /\ worker \in [Sinks -> WorkerRecords]
      /\ queue \in [Sinks -> Seq(QueueRecords)]
      /\ counted \in [Sinks -> Int] /\ queuedBytes \in [Sinks -> Int]
  BY DEF IInv, PipelineTyped, SinksAgree
<1>1. ASSUME NEW c \in Callers
      PROVE  call'[c] = call[c] \/ (c \notin Sending(s) /\ c \notin Sending(s)')
  <2>1. ASSUME NEW o \in Operations, FailRecord(c, o)
        PROVE  c \notin Sending(s) /\ c \notin Sending(s)'
    <3>1. call[c].at = "idle" /\ call'[c].at = "recorded"
      BY <1>0, <2>1 DEF FailRecord, Idle, Calling
    <3> QED BY <3>1 DEF Sending
  <2>2. ASSUME NEW r \in CallRecords, Leads(c, r), call'[c] = r
        PROVE  c \notin Sending(s) /\ c \notin Sending(s)'
    <3>1. c \notin Sending(s)
      BY <2>2 DEF Sending, Leads
    <3>2. ASSUME c \in Sending(s)' PROVE FALSE
      <4>1. r.at = "send" /\ SinkOf(r.op) = s
        BY <2>2, <3>2 DEF Sending, SinkOf
      <4> QED BY <2>2, <4>1 DEF Leads
    <3> QED BY <3>1, <3>2
  <2> QED BY <2>1, <2>2, CallKinds
<1>2. (Busy(s)' <=> Busy(s)) /\ (Busy(s) => worker'[s].bytes = worker[s].bytes)
  <2>1. CASE worker'[s] = worker[s]
    BY <2>1 DEF Busy
  <2>2. CASE worker'[s].at = "absent" /\ worker[s].at \in {"absent", "idle"}
    BY <2>2 DEF Busy
  <2>3. ASSUME NEW c \in Callers, Finalize(c), call[c].op = s, s \in Recorded, worker'[s].at = "idle"
        PROVE  ~Busy(s)' /\ ~Busy(s)
    BY <2>3 DEF Finalize, At, AbsentAgree, Before, Busy
  <2>4. CASE WorkerDeliver(s) \/ WorkerRelease(s)
    <3>1. /\ worker[s].at \in {"delivering", "releasing"}
          /\ worker'[s].at \in {"releasing", "counting"} /\ worker'[s].bytes = worker[s].bytes
      BY <1>0, <2>4 DEF WorkerDeliver, WorkerRelease, WorkerAt
    <3> QED BY <3>1 DEF Busy
  <2> QED BY <2>1, <2>2, <2>3, <2>4, WorkerKinds DEF WorkerStep
<1>3. queue'[s] = queue[s] /\ counted'[s] = counted[s] /\ queuedBytes'[s] = queuedBytes[s]
  <2>1. ASSUME NEW c \in Callers, CallStep(c)
        PROVE  UNCHANGED sinkVars \/ SinkCount(c) \/ SinkSend(c)
    <3>1. CASE FailGone(c) \/ FailTake(c) \/ FailInvalid(c) \/ FailAdmitted(c) \/ FailSuppressed(c)
               \/ FailReserve(c) \/ FailQueueFull(c) \/ FailCheck(c) \/ FailKeep(c) \/ FailDrop(c)
      BY <3>1 DEF FailGone, FailTake, FailInvalid, FailAdmitted, FailSuppressed, FailReserve,
         FailQueueFull, FailCheck, FailKeep, FailDrop
    <3>2. CASE RecorderStore(c) \/ TakeFailed(c) \/ FinalizeFails(c) \/ Finalize(c) \/ SinkClaim(c)
               \/ SinkUnclaimed(c) \/ SinkUncounted(c) \/ SinkRefuse(c)
      BY <3>2 DEF RecorderStore, TakeFailed, FinalizeFails, Finalize, SinkClaim, SinkUnclaimed,
         SinkUncounted, SinkRefuse
    <3> QED BY <2>1, <3>1, <3>2 DEF CallStep
  <2>2. ASSUME NEW c \in Callers, SinkCount(c) PROVE queue'[s] = queue[s] /\ counted'[s] = counted[s]
                                                     /\ queuedBytes'[s] = queuedBytes[s]
    BY <1>0, <2>2 DEF SinkCount
  <2>3. ASSUME NEW c \in Callers, SinkSend(c) PROVE queue'[s] = queue[s] /\ counted'[s] = counted[s]
                                                    /\ queuedBytes'[s] = queuedBytes[s]
    BY <1>0, <2>3 DEF SinkSend
  <2>4. ASSUME NEW t \in Sinks, WorkerStep(t) PROVE queue'[s] = queue[s] /\ counted'[s] = counted[s]
                                                    /\ queuedBytes'[s] = queuedBytes[s]
    <3>1. CASE WorkerDeliver(t) \/ WorkerRelease(t)
      BY <3>1 DEF WorkerDeliver, WorkerRelease, sinkVars
    <3>2. CASE WorkerRecv(t)
      BY <1>0, <3>2 DEF WorkerRecv
    <3>3. CASE WorkerFinish(t)
      BY <1>0, <3>3 DEF WorkerFinish
    <3> QED BY <2>4, <3>1, <3>2, <3>3 DEF WorkerStep
  <2>5. ASSUME NEW o \in Operations, Begin(o) \/ BindAutomaticWorld(o) \/ Append1(o) \/ Delete(o)
        PROVE  UNCHANGED sinkVars
    BY <2>5 DEF Begin, BindAutomaticWorld, Append1, Delete
  <2>6. ASSUME NEW c \in Callers, NEW o \in Operations, FailRecord(c, o) PROVE UNCHANGED sinkVars
    BY <2>6 DEF FailRecord
  <2>7. PassTime \/ UNCHANGED vars => UNCHANGED sinkVars
    BY DEF PassTime, vars
  <2>8. UNCHANGED sinkVars => queue'[s] = queue[s] /\ counted'[s] = counted[s]
                              /\ queuedBytes'[s] = queuedBytes[s]
    BY DEF sinkVars
  <2> QED BY <2>1, <2>2, <2>3, <2>4, <2>5, <2>6, <2>7, <2>8 DEF Next
<1>4. \A c \in Callers : c \in Sending(s)' <=> c \in Sending(s)
  BY <1>1 DEF Sending, SinkOf
<1>5. \A c \in Sending(s) : c \in Callers
  BY DEF Sending
<1> QED BY <1>1, <1>2, <1>3, <1>4, <1>5 DEF Quiet

(* An operation of a sink is queued in its queue. *)
LEMMA QueuedIn ==
  ASSUME IInv, NEW s \in Sinks
  PROVE  /\ Len(queue[s]) \in Nat /\ queue[s] \in Seq(QueueRecords)
         /\ \A k \in 1 .. Len(queue[s]) :
              /\ queue[s][k] \in QueueRecords /\ queue[s][k].op \in Operations
              /\ queue[s][k].bytes \in CandidateSizes
              /\ SinkOf(queue[s][k].op) = s /\ Queued(queue[s][k].op)
         /\ \A o \in Operations : SinkOf(o) = s =>
              (Queued(o) <=> \E k \in 1 .. Len(queue[s]) : queue[s][k].op = o)
         /\ MaxQueued \in Nat /\ MaxGlobalBytes \in Nat /\ CandidateSizes \subseteq Nat \ {0}
         /\ IsFiniteSet(Operations)
<1>1. queue[s] \in Seq(QueueRecords) /\ Len(queue[s]) \in Nat
  BY DEF IInv, PipelineTyped
<1>2. \A k \in 1 .. Len(queue[s]) : queue[s][k] \in QueueRecords
  BY <1>1
<1>3. \A k \in 1 .. Len(queue[s]) : SinkOf(queue[s][k].op) = s
  BY DEF IInv, GoodSink
<1> QED BY <1>1, <1>2, <1>3, PipelineAssumption DEF QueueRecords, Queued

(* What a busy worker counts. *)
LEMMA BusyNumbers ==
  ASSUME IInv, NEW s \in Sinks
  PROVE  BusyCount(s) \in Nat /\ BusyBytes(s) \in Nat
<1>1. \A bytes \in CandidateSizes \cup {0} : bytes \in Nat
  BY PipelineAssumption
<1>2. worker[s].bytes \in Nat
  <2>1. worker[s].bytes \in CandidateSizes \cup {0}
    BY DEF IInv, PipelineTyped, WorkerRecords
  <2> QED BY <1>1, <2>1
<1> QED BY <1>2 DEF BusyCount, BusyBytes

(* The counters of a quiet sink still agree. *)
LEMMA QuietKeeps ==
  ASSUME IInv, SinksAgree, NEW s \in Sinks, Quiet(s)
  PROVE  GoodCount(s)' /\ GoodBytes(s)'
<1>1. GoodCount(s) /\ GoodBytes(s)
  BY DEF SinksAgree
<1>2. Sending(s)' = Sending(s)
  <2>1. Sending(s)' \subseteq Callers /\ Sending(s) \subseteq Callers
    BY DEF Sending
  <2> QED BY <2>1 DEF Quiet
<1>3. GoodCount(s)'
  BY <1>1, <1>2 DEF GoodCount, BusyCount, Quiet
<1>4. PICK w \in [Operations -> Nat] : queuedBytes[s] = Total(w) + BusyBytes(s) /\ Holds(s, w)
  BY <1>1 DEF GoodBytes
<1>5. BusyBytes(s)' = BusyBytes(s)
  BY DEF BusyBytes, Quiet
<1>6. Holds(s, w)'
  <2>1. \A k \in 1 .. Len(queue'[s]) : w[queue'[s][k].op] = queue'[s][k].bytes
    BY <1>4 DEF Holds, Quiet
  <2>2. \A c \in Sending(s)' : w[call'[c].op] = call'[c].bytes
    BY <1>2, <1>4 DEF Holds, Quiet
  <2>3. ASSUME NEW o \in Operations, w[o] # 0
        PROVE  SinkOf(o)' = s /\ (Queued(o)' \/ \E c \in Sending(s)' : call'[c].op = o)
    <3>1. SinkOf(o) = s /\ SinkOf(o)' = s /\ (Queued(o) \/ \E c \in Sending(s) : call[c].op = o)
      BY <1>4, <2>3 DEF Holds, SinkOf
    <3> QED BY <1>2, <3>1 DEF Queued, Quiet
  <2> QED BY <2>1, <2>2, <2>3 DEF Holds
<1> QED BY <1>1, <1>3, <1>4, <1>5, <1>6 DEF GoodBytes, Quiet

(* The sink counts a candidate. *)
LEMMA CountKeeps ==
  ASSUME IInv, SinksAgree, NEW c \in Callers, SinkCount(c), NEW s \in Sinks, SinkOf(call[c].op) = s
  PROVE  GoodCount(s)' /\ GoodBytes(s)'
<1>0. /\ call \in [Callers -> CallRecords] /\ counted \in [Sinks -> Int]
      /\ queuedBytes \in [Sinks -> Int] /\ GoodCount(s) /\ GoodBytes(s)
  BY DEF IInv, PipelineTyped, SinksAgree
<1>1. call[c].at = "count"
  BY DEF SinkCount, At
<1>2. PICK o \in Operations, bytes \in CandidateSizes :
        /\ call[c].op = o /\ call[c].bytes = bytes /\ ~Kept(o)
        /\ \A d \in Callers : d # c => ~Past(d, o)
  BY <1>1, CallAlone DEF GoodCall
<1>3. /\ ~SinkFull(s, bytes) /\ counted'[s] = counted[s] + 1
      /\ queuedBytes'[s] = queuedBytes[s] + bytes /\ UNCHANGED <<queue, worker>>
      /\ call'[c].at = "send" /\ call'[c].op = o /\ call'[c].bytes = bytes
      /\ \A d \in Callers : d # c => call'[d] = call[d]
  BY <1>0, <1>2 DEF SinkCount, GoTo, Calling
<1>4. Sending(s)' = Sending(s) \cup {c} /\ c \notin Sending(s)
  BY <1>1, <1>2, <1>3 DEF Sending, SinkOf
<1>5. /\ IsFiniteSet(Sending(s)') /\ Cardinality(Sending(s)') = Cardinality(Sending(s)) + 1
      /\ Cardinality(Sending(s)) \in Nat
  BY <1>0, <1>4, FS_AddElement, FS_CardinalityType DEF GoodCount
<1>6. /\ counted[s] < MaxQueued /\ queuedBytes[s] + bytes <= MaxGlobalBytes
      /\ bytes \in Nat /\ Len(queue[s]) \in Nat /\ MaxQueued \in Nat /\ IsFiniteSet(Operations)
  BY <1>0, <1>3, QueuedIn DEF SinkFull
<1>7. BusyCount(s)' = BusyCount(s) /\ BusyBytes(s)' = BusyBytes(s)
      /\ BusyCount(s) \in Nat /\ BusyBytes(s) \in Nat
  BY <1>3, BusyNumbers DEF Busy, BusyCount, BusyBytes
<1>8. GoodCount(s)'
  <2>1. PICK n \in Nat, b \in Nat, m \in Nat :
          n = Len(queue[s]) /\ b = BusyCount(s) /\ m = Cardinality(Sending(s))
    BY <1>5, <1>6, <1>7
  <2>2. counted[s] = n + b + m
    BY <1>0, <2>1 DEF GoodCount
  <2>3. n = Len(queue'[s]) /\ b = BusyCount(s)' /\ m + 1 = Cardinality(Sending(s)')
    BY <1>3, <1>5, <1>7, <2>1
  <2>4. counted'[s] = n + b + (m + 1) /\ counted'[s] <= MaxQueued
    BY <1>3, <1>6, <2>1, <2>2
  <2> QED BY <1>5, <2>3, <2>4 DEF GoodCount
<1>9. PICK w \in [Operations -> Nat] : queuedBytes[s] = Total(w) + BusyBytes(s) /\ Holds(s, w)
  BY <1>0 DEF GoodBytes
<1>10. w[o] = 0
  <2>1. ~Queued(o)
    BY <1>2 DEF Kept
  <2>2. \A d \in Sending(s) : call[d].op # o
    BY <1>2, <1>4 DEF Sending, Past
  <2> QED BY <1>9, <2>1, <2>2 DEF Holds
<1> DEFINE v == [w EXCEPT ![o] = bytes]
<1>11. v \in [Operations -> Nat] /\ v[o] = bytes /\ \A p \in Operations : p # o => v[p] = w[p]
  BY <1>6
<1>12. Total(v) = Total(w) + bytes /\ Total(w) \in Int
  <2>1. w \in [Operations -> Int] /\ v \in [Operations -> Int]
    BY <1>11
  <2> HIDE DEF v
  <2>2. Total(w) \in Int /\ Total(v) = Total(w) - w[o] + v[o]
    BY <1>6, <1>11, <2>1, TotalChanged
  <2> QED BY <1>6, <1>10, <1>11, <2>2
<1> HIDE DEF v
<1>13. Holds(s, v)'
  <2>1. \A k \in 1 .. Len(queue[s]) : queue[s][k].op \in Operations /\ queue[s][k].op # o
    BY <1>2, QueuedIn DEF Kept
  <2>2. \A k \in 1 .. Len(queue'[s]) : v[queue'[s][k].op] = queue'[s][k].bytes
    BY <1>3, <1>9, <1>11, <2>1 DEF Holds
  <2>3. ASSUME NEW d \in Sending(s)' PROVE v[call'[d].op] = call'[d].bytes
    <3>1. CASE d = c
      BY <1>3, <1>11, <3>1
    <3>2. CASE d # c
      <4>1. d \in Sending(s) /\ d \in Callers /\ call'[d] = call[d]
        BY <1>3, <1>4, <2>3, <3>2 DEF Sending
      <4>2. call[d].op \in Operations /\ call[d].op # o
        BY <1>2, <3>2, <4>1, CallAlone DEF Sending, Past
      <4> QED BY <1>9, <1>11, <4>1, <4>2 DEF Holds
    <3> QED BY <3>1, <3>2
  <2>4. ASSUME NEW p \in Operations, v[p] # 0
        PROVE  SinkOf(p)' = s /\ (Queued(p)' \/ \E d \in Sending(s)' : call'[d].op = p)
    <3>1. CASE p = o
      BY <1>2, <1>3, <1>4, <3>1 DEF SinkOf
    <3>2. CASE p # o
      <4>1. w[p] # 0
        BY <1>11, <2>4, <3>2
      <4>2. SinkOf(p) = s /\ SinkOf(p)' = s /\ (Queued(p) \/ \E d \in Sending(s) : call[d].op = p)
        BY <1>9, <4>1 DEF Holds, SinkOf
      <4>3. Queued(p)' <=> Queued(p)
        BY <1>3, <4>2 DEF Queued
      <4>4. \A d \in Sending(s) : d \in Sending(s)' /\ call'[d] = call[d]
        BY <1>3, <1>4 DEF Sending
      <4> QED BY <4>2, <4>3, <4>4
    <3> QED BY <3>1, <3>2
  <2> QED BY <2>2, <2>3, <2>4 DEF Holds
<1>14. queuedBytes'[s] = Total(v) + BusyBytes(s)'
  BY <1>3, <1>6, <1>7, <1>9, <1>12
<1>15. queuedBytes'[s] <= MaxGlobalBytes
  BY <1>3, <1>6
<1> QED BY <1>8, <1>11, <1>13, <1>14, <1>15 DEF GoodBytes

(* The queue takes over what the call has counted. *)
LEMMA SendKeeps ==
  ASSUME IInv, SinksAgree, NEW c \in Callers, SinkSend(c), NEW s \in Sinks, SinkOf(call[c].op) = s
  PROVE  GoodCount(s)' /\ GoodBytes(s)'
<1>0. /\ call \in [Callers -> CallRecords] /\ GoodCount(s) /\ GoodBytes(s)
      /\ queue \in [Sinks -> Seq(QueueRecords)] /\ now \in Nat
  BY DEF IInv, PipelineTyped, SinksAgree, StormInv, StormTyped
<1>1. call[c].at = "send"
  BY DEF SinkSend, At
<1>2. PICK o \in Operations, bytes \in CandidateSizes :
        /\ call[c].op = o /\ call[c].bytes = bytes
        /\ \A d \in Callers : d # c => ~Past(d, o)
  BY <1>1, CallAlone DEF GoodCall
<1>3. PICK e \in QueueRecords :
        /\ e.op = o /\ e.bytes = bytes /\ queue'[s] = Append(queue[s], e)
  <2>1. [op |-> o, bytes |-> bytes, at |-> now] \in QueueRecords
    BY <1>0 DEF QueueRecords
  <2>2. queue'[s] = Append(queue[s], [op |-> o, bytes |-> bytes, at |-> now])
    BY <1>0, <1>2 DEF SinkSend
  <2> QED BY <2>1, <2>2
<1>4. /\ UNCHANGED <<counted, queuedBytes, worker>>
      /\ \A d \in Callers : d # c => call'[d] = call[d]
      /\ call'[c].at # "send"
  BY <1>0, <1>2 DEF SinkSend, Return, NoCall, Calling
<1>5. Sending(s)' = Sending(s) \ {c} /\ c \in Sending(s)
  BY <1>1, <1>2, <1>4 DEF Sending, SinkOf
<1>6. /\ IsFiniteSet(Sending(s)') /\ Cardinality(Sending(s)') = Cardinality(Sending(s)) - 1
      /\ Cardinality(Sending(s)) \in Nat
  BY <1>0, <1>5, FS_RemoveElement, FS_CardinalityType DEF GoodCount
<1>7. /\ Len(queue[s]) \in Nat /\ Len(queue'[s]) = Len(queue[s]) + 1
      /\ queue'[s][Len(queue[s]) + 1] = e
      /\ \A k \in 1 .. Len(queue[s]) : queue'[s][k] = queue[s][k]
  BY <1>0, <1>3, OneMore
<1>8. BusyCount(s)' = BusyCount(s) /\ BusyBytes(s)' = BusyBytes(s)
      /\ BusyCount(s) \in Nat /\ BusyBytes(s) \in Nat
  BY <1>4, BusyNumbers DEF Busy, BusyCount, BusyBytes
<1>9. GoodCount(s)'
  <2>1. PICK n \in Nat, b \in Nat, m \in Nat :
          n = Len(queue[s]) /\ b = BusyCount(s) /\ m = Cardinality(Sending(s))
    BY <1>6, <1>7, <1>8
  <2>2. counted[s] = n + b + m /\ counted[s] <= MaxQueued
    BY <1>0, <2>1 DEF GoodCount
  <2>3. n + 1 = Len(queue'[s]) /\ b = BusyCount(s)' /\ m - 1 = Cardinality(Sending(s)')
    BY <1>6, <1>7, <1>8, <2>1
  <2>4. counted'[s] = counted[s]
    BY <1>4
  <2>5. n + b + m = (n + 1) + b + (m - 1)
    BY <2>1
  <2>6. counted'[s] = (n + 1) + b + (m - 1) /\ counted'[s] <= MaxQueued
    BY <2>2, <2>4, <2>5
  <2> QED BY <1>6, <2>3, <2>6 DEF GoodCount
<1>10. PICK w \in [Operations -> Nat] : queuedBytes[s] = Total(w) + BusyBytes(s) /\ Holds(s, w)
  BY <1>0 DEF GoodBytes
<1>11. Holds(s, w)'
  <2>1. ASSUME NEW k \in 1 .. Len(queue'[s]) PROVE w[queue'[s][k].op] = queue'[s][k].bytes
    <3>1. CASE k \in 1 .. Len(queue[s])
      BY <1>7, <1>10, <3>1 DEF Holds
    <3>2. CASE k \notin 1 .. Len(queue[s])
      <4>1. queue'[s][k] = e
        BY <1>7, <2>1, <3>2
      <4>2. w[o] = bytes
        BY <1>2, <1>5, <1>10 DEF Holds
      <4> QED BY <1>3, <4>1, <4>2
    <3> QED BY <3>1, <3>2
  <2>2. \A d \in Sending(s)' : w[call'[d].op] = call'[d].bytes
    <3>1. \A d \in Sending(s)' : d \in Sending(s) /\ call'[d] = call[d]
      BY <1>4, <1>5 DEF Sending
    <3> QED BY <1>10, <3>1 DEF Holds
  <2>3. ASSUME NEW p \in Operations, w[p] # 0
        PROVE  SinkOf(p)' = s /\ (Queued(p)' \/ \E d \in Sending(s)' : call'[d].op = p)
    <3>1. SinkOf(p) = s /\ SinkOf(p)' = s /\ (Queued(p) \/ \E d \in Sending(s) : call[d].op = p)
      BY <1>10, <2>3 DEF Holds, SinkOf
    <3>2. CASE p = o
      <4>1. Len(queue[s]) + 1 \in 1 .. Len(queue'[s]) /\ queue'[s][Len(queue[s]) + 1].op = o
        BY <1>3, <1>7
      <4> QED BY <3>1, <3>2, <4>1 DEF Queued
    <3>3. CASE p # o /\ Queued(p)
      <4>1. PICK k \in 1 .. Len(queue[s]) : queue[s][k].op = p
        BY <3>1, <3>3 DEF Queued
      <4>2. k \in 1 .. Len(queue'[s]) /\ queue'[s][k].op = p
        BY <1>7, <4>1
      <4> QED BY <3>1, <4>2 DEF Queued
    <3>4. CASE p # o /\ \E d \in Sending(s) : call[d].op = p
      <4>1. PICK d \in Sending(s) : call[d].op = p
        BY <3>4
      <4>2. d \in Sending(s)' /\ call'[d] = call[d]
        BY <1>2, <1>4, <1>5, <3>4, <4>1 DEF Sending
      <4> QED BY <3>1, <4>1, <4>2
    <3> QED BY <3>1, <3>2, <3>3, <3>4
  <2> QED BY <2>1, <2>2, <2>3 DEF Holds
<1>12. queuedBytes'[s] = Total(w) + BusyBytes(s)' /\ queuedBytes'[s] <= MaxGlobalBytes
  BY <1>0, <1>4, <1>8, <1>10 DEF GoodBytes
<1> QED BY <1>9, <1>11, <1>12 DEF GoodBytes

(* The worker takes over what the queue had. *)
LEMMA RecvKeeps ==
  ASSUME IInv, SinksAgree, NEW s \in Sinks, WorkerRecv(s)
  PROVE  GoodCount(s)' /\ GoodBytes(s)'
<1>0. /\ GoodCount(s) /\ GoodBytes(s) /\ worker \in [Sinks -> WorkerRecords]
      /\ queue \in [Sinks -> Seq(QueueRecords)] /\ queue[s] # <<>>
      /\ UNCHANGED <<counted, queuedBytes, call>> /\ IsFiniteSet(Operations)
  BY PipelineAssumption DEF IInv, PipelineTyped, SinksAgree, WorkerRecv, sinkVars
<1>1. /\ Head(queue[s]) \in QueueRecords /\ Head(queue[s]) = queue[s][1]
      /\ Len(queue[s]) \in Nat /\ Len(queue[s]) > 0 /\ Len(Tail(queue[s])) = Len(queue[s]) - 1
      /\ \A k \in 1 .. Len(Tail(queue[s])) :
           k + 1 \in 1 .. Len(queue[s]) /\ Tail(queue[s])[k] = queue[s][k + 1]
  BY <1>0, OneLess
<1>2. PICK e \in QueueRecords : e = Head(queue[s]) /\ e = queue[s][1]
  BY <1>1
<1>3. PICK o \in Operations, bytes \in Nat : e.op = o /\ e.bytes = bytes
  <2>1. e.op \in Operations /\ e.bytes \in CandidateSizes
    BY DEF QueueRecords
  <2>2. \A x \in CandidateSizes : x \in Nat
    BY PipelineAssumption
  <2> QED BY <2>1, <2>2
<1>4. 1 \in 1 .. Len(queue[s]) /\ queue[s][1].op = o
  BY <1>1, <1>2, <1>3
<1>5. SinkOf(o) = s /\ Queued(o) /\ Kept(o) /\ QueuedOnce(o)
  <2>1. SinkOf(o) = s /\ Queued(o)
    BY <1>4, QueuedIn
  <2> QED BY <2>1 DEF Kept, IInv, GoodOperation
<1>6. /\ queue'[s] = Tail(queue[s]) /\ ~Busy(s) /\ Busy(s)' /\ worker'[s].bytes = bytes
  BY <1>0, <1>2, <1>3 DEF WorkerRecv, WorkerAt, Busy
<1>7. Sending(s)' = Sending(s) /\ \A c \in Sending(s) : call'[c] = call[c] /\ call[c].op # o
  <2>1. Sending(s)' = Sending(s)
    BY <1>0 DEF Sending, SinkOf
  <2>2. ASSUME NEW c \in Sending(s) PROVE call[c].op # o
    <3>1. c \in Callers /\ call[c].at = "send"
      BY DEF Sending
    <3>2. ~Kept(call[c].op)
      BY <3>1, CallAlone DEF GoodCall
    <3> QED BY <1>5, <3>2
  <2> QED BY <1>0, <2>1, <2>2
<1>8. GoodCount(s)'
  <2>1. PICK n \in Nat, m \in Nat : n = Len(queue[s]) /\ m = Cardinality(Sending(s))
    BY <1>0, <1>1, FS_CardinalityType DEF GoodCount
  <2>2. counted[s] = n + 0 + m /\ counted[s] <= MaxQueued
    BY <1>0, <1>6, <2>1 DEF GoodCount, BusyCount
  <2>3. n - 1 = Len(queue'[s]) /\ 1 = BusyCount(s)' /\ m = Cardinality(Sending(s)')
    BY <1>1, <1>6, <1>7, <2>1 DEF BusyCount
  <2>4. counted'[s] = counted[s]
    BY <1>0
  <2>5. n + 0 + m = (n - 1) + 1 + m
    BY <2>1
  <2>6. counted'[s] = (n - 1) + 1 + m /\ counted'[s] <= MaxQueued
    BY <2>2, <2>4, <2>5
  <2>7. IsFiniteSet(Sending(s)')
    BY <1>0, <1>7 DEF GoodCount
  <2> QED BY <2>3, <2>6, <2>7 DEF GoodCount
<1>9. PICK w \in [Operations -> Nat] : queuedBytes[s] = Total(w) + BusyBytes(s) /\ Holds(s, w)
  BY <1>0 DEF GoodBytes
<1>10. w[o] = bytes
  BY <1>2, <1>3, <1>4, <1>9 DEF Holds
<1> DEFINE v == [w EXCEPT ![o] = 0]
<1>11. v \in [Operations -> Nat] /\ v[o] = 0 /\ \A p \in Operations : p # o => v[p] = w[p]
  OBVIOUS
<1> HIDE DEF v
<1>12. Total(v) = Total(w) - bytes /\ Total(w) \in Int
  <2>1. w \in [Operations -> Int] /\ v \in [Operations -> Int]
    BY <1>11
  <2>2. Total(w) \in Int /\ Total(v) = Total(w) - w[o] + v[o]
    BY <1>0, <1>11, <2>1, TotalChanged
  <2> QED BY <1>10, <1>11, <2>2
<1>13. Holds(s, v)'
  <2>1. ASSUME NEW k \in 1 .. Len(queue'[s])
        PROVE  v[queue'[s][k].op] = queue'[s][k].bytes
    <3>1. k + 1 \in 1 .. Len(queue[s]) /\ queue'[s][k] = queue[s][k + 1]
      BY <1>1, <1>6, <2>1
    <3>2. k + 1 # 1
      BY <1>1, <1>6, <2>1
    <3>3. queue[s][k + 1].op \in Operations /\ queue[s][k + 1].op # o
      BY <1>4, <1>5, <3>1, <3>2, QueuedIn DEF QueuedOnce
    <3> QED BY <1>9, <1>11, <3>1, <3>3 DEF Holds
  <2>2. ASSUME NEW c \in Sending(s)' PROVE v[call'[c].op] = call'[c].bytes
    <3>1. c \in Sending(s) /\ call'[c] = call[c] /\ call[c].op # o
      BY <1>7
    <3>2. call[c].op \in Operations
      BY <3>1, CallAlone DEF Sending
    <3> QED BY <1>9, <1>11, <3>1, <3>2 DEF Holds
  <2>3. ASSUME NEW p \in Operations, v[p] # 0
        PROVE  SinkOf(p)' = s /\ (Queued(p)' \/ \E c \in Sending(s)' : call'[c].op = p)
    <3>1. p # o /\ w[p] # 0
      BY <1>11, <2>3
    <3>2. SinkOf(p) = s /\ SinkOf(p)' = s /\ (Queued(p) \/ \E c \in Sending(s) : call[c].op = p)
      BY <1>9, <3>1 DEF Holds, SinkOf
    <3>3. ASSUME Queued(p) PROVE Queued(p)'
      <4>1. PICK k \in 1 .. Len(queue[s]) : queue[s][k].op = p
        BY <3>2, <3>3 DEF Queued
      <4>2. k # 1
        BY <1>4, <3>1, <4>1
      <4>3. k - 1 \in 1 .. Len(queue'[s]) /\ queue'[s][k - 1] = queue[s][k]
        BY <1>1, <1>6, <4>1, <4>2
      <4> QED BY <3>2, <4>1, <4>3 DEF Queued
    <3> QED BY <1>7, <3>2, <3>3
  <2> QED BY <2>1, <2>2, <2>3 DEF Holds
<1>14. queuedBytes'[s] = Total(v) + BusyBytes(s)' /\ queuedBytes'[s] <= MaxGlobalBytes
  <2>1. BusyBytes(s)' = bytes /\ BusyBytes(s) = 0
    BY <1>6 DEF BusyBytes
  <2>2. queuedBytes'[s] = queuedBytes[s] /\ queuedBytes[s] <= MaxGlobalBytes
    BY <1>0 DEF GoodBytes
  <2>3. Total(w) + 0 = Total(v) + bytes
    BY <1>12
  <2> QED BY <1>9, <2>1, <2>2, <2>3
<1> QED BY <1>8, <1>11, <1>13, <1>14 DEF GoodBytes

(* The worker counts its candidate out. *)
LEMMA FinishKeeps ==
  ASSUME IInv, SinksAgree, NEW s \in Sinks, WorkerFinish(s)
  PROVE  GoodCount(s)' /\ GoodBytes(s)'
<1>0. /\ GoodCount(s) /\ GoodBytes(s) /\ worker \in [Sinks -> WorkerRecords]
      /\ counted \in [Sinks -> Int] /\ queuedBytes \in [Sinks -> Int]
      /\ UNCHANGED <<queue, call>> /\ MaxQueued \in Nat /\ MaxGlobalBytes \in Nat
      /\ IsFiniteSet(Operations)
  BY PipelineAssumption DEF IInv, PipelineTyped, SinksAgree, WorkerFinish, sinkVars
<1>1. /\ Busy(s) /\ ~Busy(s)' /\ counted'[s] = counted[s] - 1
      /\ queuedBytes'[s] = queuedBytes[s] - worker[s].bytes
  BY <1>0 DEF WorkerFinish, Finished, WorkerAt, Busy
<1>2. Sending(s)' = Sending(s)
  BY <1>0 DEF Sending, SinkOf
<1>3. BusyBytes(s) = worker[s].bytes /\ BusyBytes(s) \in Nat /\ BusyBytes(s)' = 0
  BY <1>1, BusyNumbers DEF BusyBytes
<1>4. GoodCount(s)'
  <2>1. PICK n \in Nat, m \in Nat : n = Len(queue[s]) /\ m = Cardinality(Sending(s))
    BY <1>0, QueuedIn, FS_CardinalityType DEF GoodCount
  <2>2. counted[s] = n + 1 + m /\ counted[s] <= MaxQueued
    BY <1>0, <1>1, <2>1 DEF GoodCount, BusyCount
  <2>3. n = Len(queue'[s]) /\ 0 = BusyCount(s)' /\ m = Cardinality(Sending(s)')
    BY <1>0, <1>1, <1>2, <2>1 DEF BusyCount
  <2>4. counted'[s] = n + 0 + m /\ counted'[s] <= MaxQueued
    BY <1>0, <1>1, <2>1, <2>2
  <2>5. IsFiniteSet(Sending(s)')
    BY <1>0, <1>2 DEF GoodCount
  <2> QED BY <2>3, <2>4, <2>5 DEF GoodCount
<1>5. PICK w \in [Operations -> Nat] : queuedBytes[s] = Total(w) + BusyBytes(s) /\ Holds(s, w)
  BY <1>0 DEF GoodBytes
<1>6. Holds(s, w)'
  BY <1>0, <1>2, <1>5 DEF Holds, Queued, SinkOf
<1>7. queuedBytes'[s] = Total(w) + BusyBytes(s)' /\ queuedBytes'[s] <= MaxGlobalBytes
  <2>1. Total(w) \in Nat
    BY <1>0, TotalNat
  <2>2. queuedBytes[s] \in Int /\ queuedBytes[s] <= MaxGlobalBytes
    BY <1>0 DEF GoodBytes
  <2> QED BY <1>0, <1>1, <1>3, <1>5, <2>1, <2>2
<1> QED BY <1>4, <1>6, <1>7 DEF GoodBytes

(* The sinks go on counting what they hold. *)
LEMMA SinksStep ==
  ASSUME IInv, AbsentAgree, SinksAgree, [Next]_vars
  PROVE  SinksAgree'
<1>1. \A s \in Sinks : GoodCount(s)' /\ GoodBytes(s)'
  BY SinkKinds, QuietKeeps, CountKeeps, SendKeeps, RecvKeeps, FinishKeeps
<1>0. /\ counted \in [Sinks -> Int] /\ queuedBytes \in [Sinks -> Int]
      /\ \A x \in CandidateSizes \cup {0} : x \in Int
  BY PipelineAssumption DEF SinksAgree
<1>2. counted' \in [Sinks -> Int] /\ queuedBytes' \in [Sinks -> Int]
  <2>1. UNCHANGED <<counted, queuedBytes>> => counted' \in [Sinks -> Int] /\ queuedBytes' \in [Sinks -> Int]
    BY <1>0
  <2>2. ASSUME NEW c \in Callers, CallStep(c)
        PROVE  UNCHANGED <<counted, queuedBytes>> \/ SinkCount(c)
    <3>1. CASE FailGone(c) \/ FailTake(c) \/ FailInvalid(c) \/ FailAdmitted(c) \/ FailSuppressed(c)
               \/ FailReserve(c) \/ FailQueueFull(c) \/ FailCheck(c) \/ FailKeep(c) \/ FailDrop(c)
      BY <3>1 DEF FailGone, FailTake, FailInvalid, FailAdmitted, FailSuppressed, FailReserve,
         FailQueueFull, FailCheck, FailKeep, FailDrop, sinkVars
    <3>2. CASE RecorderStore(c) \/ TakeFailed(c) \/ FinalizeFails(c) \/ Finalize(c) \/ SinkClaim(c)
               \/ SinkUnclaimed(c) \/ SinkUncounted(c) \/ SinkRefuse(c) \/ SinkSend(c)
      BY <3>2 DEF RecorderStore, TakeFailed, FinalizeFails, Finalize, SinkClaim, SinkUnclaimed,
         SinkUncounted, SinkRefuse, SinkSend, sinkVars
    <3> QED BY <2>2, <3>1, <3>2 DEF CallStep
  <2>3. ASSUME NEW c \in Callers, SinkCount(c)
        PROVE  counted' \in [Sinks -> Int] /\ queuedBytes' \in [Sinks -> Int]
    <3>1. call[c].bytes \in Int
      BY <1>0 DEF IInv, PipelineTyped, CallRecords
    <3>2. PICK s \in Sinks : SinkOf(call[c].op) = s
      BY <2>3, CallAlone, SinkOfOperation DEF SinkCount, At
    <3>3. counted' = [counted EXCEPT ![s] = @ + 1]
          /\ queuedBytes' = [queuedBytes EXCEPT ![s] = @ + call[c].bytes]
      BY <2>3, <3>2 DEF SinkCount
    <3> QED BY <1>0, <3>1, <3>3
  <2>4. ASSUME NEW s \in Sinks, WorkerStep(s)
        PROVE  counted' \in [Sinks -> Int] /\ queuedBytes' \in [Sinks -> Int]
    <3>1. CASE WorkerRecv(s) \/ WorkerDeliver(s) \/ WorkerRelease(s)
      BY <2>1, <3>1 DEF WorkerRecv, WorkerDeliver, WorkerRelease, sinkVars
    <3>2. CASE WorkerFinish(s)
      <4>1. worker[s].bytes \in Int
        BY <1>0 DEF IInv, PipelineTyped, WorkerRecords
      <4> QED BY <1>0, <3>2, <4>1 DEF WorkerFinish, Finished
    <3> QED BY <2>4, <3>1, <3>2 DEF WorkerStep
  <2>5. ASSUME NEW o \in Operations, Begin(o) \/ BindAutomaticWorld(o) \/ Append1(o) \/ Delete(o)
        PROVE  UNCHANGED <<counted, queuedBytes>>
    BY <2>5 DEF Begin, BindAutomaticWorld, Append1, Delete, sinkVars
  <2>6. ASSUME NEW c \in Callers, NEW o \in Operations, FailRecord(c, o)
        PROVE  UNCHANGED <<counted, queuedBytes>>
    BY <2>6 DEF FailRecord, sinkVars
  <2>7. PassTime \/ UNCHANGED vars => UNCHANGED <<counted, queuedBytes>>
    BY DEF PassTime, vars, sinkVars
  <2> QED BY <2>1, <2>2, <2>3, <2>4, <2>5, <2>6, <2>7 DEF Next
<1> QED BY <1>1, <1>2 DEF SinksAgree

-----------------------------------------------------------------------------
(***************************************************************************)
(* The bounds of the types.                                                *)
(***************************************************************************)
BoundsAgree ==
  /\ StormTypeOK
  /\ sharedMu \in Callers \cup {None}
  /\ \A c \in Callers : call[c].seq <= MaxEvents
  /\ \A s \in Sinks : \A k \in 1 .. Len(queue[s]) : queue[s][k].at <= MaxTime

(* The gate's times stay within the time that passes. *)
LEMMA StormBounds ==
  ASSUME StormInv, StormTypeOK, NEW i \in Identities,
         Admitted(i) \/ SuppressedExact(i) \/ SuppressedHighCardinality(i)
  PROVE  StormTypeOK'
<1>1. /\ now \in 0 .. MaxTime /\ MaxTime \in Nat /\ now' = now /\ lastRefill' = now
      /\ tokens' \in 0 .. TokenCapacity
      /\ lastAdmission' \in [Identities -> -1 .. MaxTime]
  <2>1. StormTyped'
    BY StormStep DEF StormInv
  <2>2. /\ now \in 0 .. MaxTime /\ MaxTime \in Nat /\ now' = now /\ lastRefill' = now
        /\ lastAdmission \in [Identities -> -1 .. MaxTime]
    BY StormAssumption DEF StormTypeOK, Admitted, SuppressedExact, SuppressedHighCardinality
  <2>3. lastAdmission' = lastAdmission \/ lastAdmission' = [lastAdmission EXCEPT ![i] = now]
    BY DEF Admitted, SuppressedExact, SuppressedHighCardinality
  <2>4. lastAdmission' \in [Identities -> -1 .. MaxTime]
    BY <2>2, <2>3
  <2> QED BY <2>1, <2>2, <2>4 DEF StormTyped
<1>2. \E gone \in SUBSET Identities, entry \in [at : -1 .. MaxTime, seen : -1 .. MaxTime] :
        admitted' = Remembered(gone, i, entry)
  <2>1. \A a, b \in -1 .. MaxTime : Entry(a, b) \in [at : -1 .. MaxTime, seen : -1 .. MaxTime]
    BY DEF Entry
  <2>2. Never \in [at : -1 .. MaxTime, seen : -1 .. MaxTime]
    BY StormAssumption DEF Never
  <2>3. now \in -1 .. MaxTime /\ admitted[i].at \in -1 .. MaxTime
    BY <1>1 DEF StormTypeOK
  <2>4. PICK gone \in SUBSET Identities : gone = {}
    OBVIOUS
  <2>5. SuppressedExact(i) => admitted' = Remembered(gone, i, Entry(admitted[i].at, now))
    BY <2>4 DEF SuppressedExact
  <2>6. SuppressedHighCardinality(i) => admitted' = Remembered(gone, i, Never)
    BY <2>4 DEF SuppressedHighCardinality
  <2>7. Admitted(i) => \E g \in SUBSET Identities : admitted' = Remembered(g, i, Entry(now, now))
    BY DEF Admitted, Retained
  <2> QED BY <2>1, <2>2, <2>3, <2>5, <2>6, <2>7
<1>3. admitted' \in [Identities -> [at : -1 .. MaxTime, seen : -1 .. MaxTime]]
  <2>1. Never \in [at : -1 .. MaxTime, seen : -1 .. MaxTime]
    BY StormAssumption DEF Never
  <2>2. admitted \in [Identities -> [at : -1 .. MaxTime, seen : -1 .. MaxTime]]
    BY DEF StormTypeOK
  <2> QED BY <1>2, <2>1, <2>2 DEF Remembered
<1> QED BY <1>1, <1>3 DEF StormTypeOK

(* Every step is one of the gate or none of its business. *)
LEMMA StormKinds ==
  ASSUME IInv, [Next]_vars
  PROVE  \/ UNCHANGED stormVars \/ Tick
         \/ \E i \in Identities : Admitted(i) \/ SuppressedExact(i) \/ SuppressedHighCardinality(i)
<1>1. ASSUME NEW c \in Callers, CallStep(c)
      PROVE  \/ UNCHANGED stormVars
             \/ \E i \in Identities : Admitted(i) \/ SuppressedExact(i) \/ SuppressedHighCardinality(i)
  <2>1. CASE FailAdmitted(c) \/ FailSuppressed(c)
    BY <2>1 DEF FailAdmitted, FailSuppressed
  <2>2. CASE FailGone(c) \/ FailTake(c) \/ FailInvalid(c) \/ FailReserve(c) \/ FailQueueFull(c)
             \/ FailCheck(c) \/ FailKeep(c) \/ FailDrop(c)
    BY <2>2 DEF FailGone, FailTake, FailInvalid, FailReserve, FailQueueFull, FailCheck, FailKeep, FailDrop
  <2>3. CASE RecorderStore(c) \/ TakeFailed(c) \/ FinalizeFails(c) \/ Finalize(c) \/ SinkClaim(c)
             \/ SinkUnclaimed(c) \/ SinkCount(c) \/ SinkUncounted(c) \/ SinkRefuse(c) \/ SinkSend(c)
    BY <2>3 DEF RecorderStore, TakeFailed, FinalizeFails, Finalize, SinkClaim, SinkUnclaimed,
       SinkCount, SinkUncounted, SinkRefuse, SinkSend
  <2> QED BY <1>1, <2>1, <2>2, <2>3 DEF CallStep
<1>2. ASSUME NEW s \in Sinks, WorkerStep(s) PROVE UNCHANGED stormVars
  BY <1>2 DEF WorkerStep, WorkerRecv, WorkerDeliver, WorkerRelease, WorkerFinish
<1>3. ASSUME NEW o \in Operations, Begin(o) \/ BindAutomaticWorld(o) \/ Append1(o) \/ Delete(o)
      PROVE  UNCHANGED stormVars
  BY <1>3 DEF Begin, BindAutomaticWorld, Append1, Delete
<1>4. ASSUME NEW c \in Callers, NEW o \in Operations, FailRecord(c, o) PROVE UNCHANGED stormVars
  BY <1>4 DEF FailRecord
<1>5. (PassTime => Tick) /\ (UNCHANGED vars => UNCHANGED stormVars)
  BY DEF PassTime, vars
<1> QED BY <1>1, <1>2, <1>3, <1>4, <1>5 DEF Next

(* The mutex of the shared Sdk is taken and given back by calls. *)
LEMMA MutexKinds ==
  ASSUME IInv, [Next]_vars
  PROVE  sharedMu' = sharedMu \/ sharedMu' \in Callers \/ sharedMu' = None
<1>1. ASSUME NEW c \in Callers, CallStep(c)
      PROVE  sharedMu' = sharedMu \/ sharedMu' \in Callers \/ sharedMu' = None
  <2>1. CASE FailGone(c) \/ FailTake(c) \/ FailInvalid(c) \/ FailAdmitted(c) \/ FailSuppressed(c)
             \/ FailReserve(c) \/ FailQueueFull(c) \/ FailCheck(c) \/ FailKeep(c) \/ FailDrop(c)
    BY <2>1 DEF FailGone, FailTake, FailInvalid, FailAdmitted, FailSuppressed, FailReserve,
       FailQueueFull, FailCheck, FailKeep, FailDrop, Return
  <2>2. CASE RecorderStore(c) \/ TakeFailed(c) \/ FinalizeFails(c) \/ Finalize(c) \/ SinkClaim(c)
             \/ SinkUnclaimed(c) \/ SinkCount(c) \/ SinkUncounted(c) \/ SinkRefuse(c) \/ SinkSend(c)
    BY <2>2 DEF RecorderStore, TakeFailed, FinalizeFails, Finalize, SinkClaim, SinkUnclaimed,
       SinkCount, SinkUncounted, SinkRefuse, SinkSend, SinkAnswersNo, Return
  <2> QED BY <1>1, <2>1, <2>2 DEF CallStep
<1>2. ASSUME NEW s \in Sinks, WorkerStep(s) PROVE UNCHANGED sharedMu
  BY <1>2 DEF WorkerStep, WorkerRecv, WorkerDeliver, WorkerRelease, WorkerFinish
<1>3. ASSUME NEW o \in Operations, Begin(o) \/ BindAutomaticWorld(o) \/ Append1(o) \/ Delete(o)
      PROVE  UNCHANGED sharedMu
  BY <1>3 DEF Begin, BindAutomaticWorld, Append1, Delete
<1>4. ASSUME NEW c \in Callers, NEW o \in Operations, FailRecord(c, o) PROVE UNCHANGED sharedMu
  BY <1>4 DEF FailRecord
<1>5. PassTime \/ UNCHANGED vars => UNCHANGED sharedMu
  BY DEF PassTime, vars
<1> QED BY <1>1, <1>2, <1>3, <1>4, <1>5 DEF Next

(* The bounds are kept. *)
LEMMA BoundsStep ==
  ASSUME IInv, ActiveAgree, AbsentAgree, SinksAgree, BoundsAgree, [Next]_vars
  PROVE  BoundsAgree'
<1>0. /\ call \in [Callers -> CallRecords] /\ queue \in [Sinks -> Seq(QueueRecords)]
      /\ now \in 0 .. MaxTime /\ MaxTime \in Nat /\ MaxEvents \in Nat
  BY PipelineAssumption, StormAssumption DEF IInv, PipelineTyped, BoundsAgree, StormTypeOK
<1>1. StormTypeOK'
  <2>1. CASE UNCHANGED stormVars
    BY <2>1 DEF BoundsAgree, StormTypeOK, stormVars
  <2>2. CASE Tick
    BY <1>0, <2>2 DEF BoundsAgree, StormTypeOK, Tick
  <2> QED BY <2>1, <2>2, StormKinds, StormBounds DEF IInv, BoundsAgree
<1>2. sharedMu' \in Callers \cup {None}
  BY MutexKinds DEF BoundsAgree
<1>3. ASSUME NEW c \in Callers PROVE call'[c].seq <= MaxEvents
  <2>1. ASSUME NEW o \in Operations, FailRecord(c, o) PROVE call'[c].seq <= MaxEvents
    <3>1. call'[c].seq = records[o]
      BY <1>0, <2>1 DEF FailRecord, Calling
    <3> QED BY <3>1 DEF ActiveAgree
  <2>2. ASSUME NEW r \in CallRecords, Leads(c, r), call'[c] = r PROVE call'[c].seq <= MaxEvents
    BY <1>0, <2>2 DEF Leads, BoundsAgree
  <2> QED BY <2>1, <2>2, CallKinds DEF BoundsAgree
<1>4. ASSUME NEW s \in Sinks, NEW k \in 1 .. Len(queue'[s]) PROVE queue'[s][k].at <= MaxTime
  <2>1. CASE Quiet(s) \/ WorkerFinish(s)
    <3>1. queue'[s] = queue[s]
      BY <2>1 DEF Quiet, WorkerFinish
    <3> QED BY <3>1, <1>4 DEF BoundsAgree
  <2>2. CASE WorkerRecv(s)
    <3>1. queue'[s] = Tail(queue[s]) /\ queue[s] # <<>> /\ queue[s] \in Seq(QueueRecords)
      BY <1>0, <2>2 DEF WorkerRecv
    <3>2. k + 1 \in 1 .. Len(queue[s]) /\ queue'[s][k] = queue[s][k + 1]
      BY <1>4, <3>1, OneLess
    <3> QED BY <3>2 DEF BoundsAgree
  <2>3. ASSUME NEW c \in Callers, SinkCount(c) PROVE queue'[s] = queue[s]
    BY <2>3 DEF SinkCount
  <2>4. ASSUME NEW c \in Callers, SinkSend(c), SinkOf(call[c].op) = s
        PROVE  queue'[s][k].at <= MaxTime
    <3>1. call[c].op \in Operations /\ call[c].bytes \in CandidateSizes
      BY <2>4, CallAlone DEF SinkSend, At, GoodCall
    <3>2. PICK e \in QueueRecords : e.at = now /\ queue'[s] = Append(queue[s], e)
      <4>1. [op |-> call[c].op, bytes |-> call[c].bytes, at |-> now] \in QueueRecords
        BY <1>0, <3>1 DEF QueueRecords
      <4>2. queue'[s] = Append(queue[s], [op |-> call[c].op, bytes |-> call[c].bytes, at |-> now])
        BY <1>0, <2>4 DEF SinkSend
      <4> QED BY <4>1, <4>2
    <3>3. /\ Len(queue[s]) \in Nat /\ Len(queue'[s]) = Len(queue[s]) + 1
          /\ queue'[s][Len(queue[s]) + 1] = e
          /\ \A j \in 1 .. Len(queue[s]) : queue'[s][j] = queue[s][j]
      BY <1>0, <3>2, OneMore
    <3>4. CASE k \in 1 .. Len(queue[s])
      BY <3>3, <3>4 DEF BoundsAgree
    <3>5. CASE k = Len(queue[s]) + 1
      BY <1>0, <3>2, <3>3, <3>5
    <3> QED BY <1>4, <3>3, <3>4, <3>5
  <2> QED BY <1>4, <2>1, <2>2, <2>3, <2>4, SinkKinds DEF BoundsAgree
<1> QED BY <1>1, <1>2, <1>3, <1>4 DEF BoundsAgree

-----------------------------------------------------------------------------
(* The accounts with the rest of the invariant. *)
AInv ==
  IInv /\ ActiveAgree /\ EntriesAgree /\ StoredAgree /\ AbsentAgree /\ SinksAgree /\ BoundsAgree

(* The accounts start empty. *)
LEMMA AccountsStart == Init => AInv
<1> SUFFICES ASSUME Init PROVE AInv
  OBVIOUS
<1>0. /\ MaxEvents \in Nat /\ MaxOperationBytes \in Nat /\ MaxGlobalBytes \in Nat
      /\ MaxQueued \in Nat /\ MaxTime \in Nat /\ IsFiniteSet(Operations)
  BY PipelineAssumption, StormAssumption
<1>1. IInv
  BY Start
<1>2. ActiveAgree
  <2>1. active \in [Operations -> Int] /\ \A o \in Operations : active[o] = 0
    BY DEF Init
  <2>2. Total(active) = 0
    BY <1>0, <2>1, TotalZero
  <2> QED BY <1>0, <2>2 DEF Init, ActiveAgree
<1>3. EntriesAgree
  <2>1. CandidateSize \in [Operations -> Int] /\ \A o \in Operations : CandidateSize[o] = 0
    BY DEF Init, CandidateSize, NoCapture
  <2>2. Total(CandidateSize) = 0
    BY <1>0, <2>1, TotalZero
  <2>3. Captures = {}
    BY DEF Init, Captures, NoCapture
  <2>4. Cardinality(Captures) = 0
    BY <2>3, FS_EmptySet
  <2> QED BY <1>0, <2>2, <2>4 DEF Init, EntriesAgree, NoCapture
<1>4. ASSUME NEW c \in Callers PROVE call[c].at = "idle" /\ call[c].seq = 0
  BY DEF Init, NoCall
<1>5. StoredAgree /\ AbsentAgree
  <2>1. StoredAgree
    BY <1>0, <1>4 DEF Init, StoredAgree
  <2>2. AbsentAgree
    BY <1>4, PipelineAssumption DEF Init, AbsentAgree, Before
  <2> QED BY <2>1, <2>2
<1>6. SinksAgree
  <2>1. counted \in [Sinks -> Int] /\ queuedBytes \in [Sinks -> Int]
    BY DEF Init
  <2>2. ASSUME NEW s \in Sinks PROVE GoodCount(s) /\ GoodBytes(s)
    <3>1. queue[s] = <<>> /\ counted[s] = 0 /\ queuedBytes[s] = 0 /\ ~Busy(s)
      BY DEF Init, WorkerAt, Busy
    <3>2. Sending(s) = {}
      BY <1>4 DEF Sending
    <3>3. IsFiniteSet(Sending(s)) /\ Cardinality(Sending(s)) = 0
      BY <3>2, FS_EmptySet
    <3>4. GoodCount(s)
      BY <1>0, <3>1, <3>3 DEF GoodCount, BusyCount
    <3>5. PICK w \in [Operations -> Nat] : \A o \in Operations : w[o] = 0
      <4>1. [o \in Operations |-> 0] \in [Operations -> Nat]
        OBVIOUS
      <4> QED BY <4>1
    <3>6. Total(w) = 0
      BY <1>0, <3>5, TotalZero
    <3>7. Holds(s, w)
      BY <3>1, <3>2, <3>5 DEF Holds
    <3> QED BY <1>0, <3>1, <3>4, <3>6, <3>7 DEF GoodBytes, BusyBytes
  <2> QED BY <2>1, <2>2 DEF SinksAgree
<1>7. BoundsAgree
  <2>1. StormTypeOK
    BY <1>0, StormAssumption DEF Init, StormInit, StormTypeOK, Never
  <2> QED BY <1>0, <1>4, <2>1 DEF Init, BoundsAgree
<1> QED BY <1>1, <1>2, <1>3, <1>5, <1>6, <1>7 DEF AInv

(* Every step keeps the accounts. *)
LEMMA AccountsStep == AInv /\ [Next]_vars => AInv'
<1> SUFFICES ASSUME AInv, [Next]_vars PROVE AInv'
  OBVIOUS
<1>1. candidateBytes \in Int
  <2>1. CandidateSize \in [Operations -> Nat] /\ candidateBytes = Total(CandidateSize)
    BY PipelineAssumption DEF AInv, EntriesAgree, CandidateSize
  <2> QED BY <2>1, TotalNat, PipelineAssumption
<1> QED BY <1>1, InductiveStep, RecordingAgrees, EntriesStep, StoredStep, AbsentStep, SinksStep,
           BoundsStep DEF AInv

(* A sequence whose elements are in a set is one of that set. *)
LEMMA SequenceIn ==
  ASSUME NEW S, NEW T, NEW q \in Seq(S), \A k \in 1 .. Len(q) : q[k] \in T
  PROVE  q \in Seq(T)
<1>1. Len(q) \in Nat /\ q \in [1 .. Len(q) -> T]
  BY LenProperties
<1> QED BY <1>1, SeqDef

(* What the invariant says of the types. *)
LEMMA TypesAgree == AInv => TypeOK
<1> SUFFICES ASSUME AInv PROVE TypeOK
  OBVIOUS
<1>0. /\ MaxEvents \in Nat /\ MaxOperationBytes \in Nat /\ MaxGlobalBytes \in Nat
      /\ MaxQueued \in Nat /\ MaxTime \in Nat /\ IsFiniteSet(Operations)
  BY PipelineAssumption, StormAssumption
<1>1. /\ records \in [Operations -> 0 .. MaxEvents] /\ active = opBytes
      /\ active \in [Operations -> 0 .. MaxOperationBytes] /\ worldBound \in [Operations -> BOOLEAN]
  BY <1>0 DEF AInv, ActiveAgree, IInv, PipelineTyped
<1>2. activeBytes \in 0 .. MaxGlobalBytes /\ candidateBytes \in 0 .. MaxGlobalBytes
  <2>1. active \in [Operations -> Nat] /\ CandidateSize \in [Operations -> Nat]
    BY <1>0, <1>1 DEF AInv, EntriesAgree, CandidateSize
  <2>2. activeBytes \in Nat /\ candidateBytes \in Nat
    BY <1>0, <2>1, TotalNat DEF AInv, ActiveAgree, EntriesAgree
  <2> QED BY <1>0, <2>2 DEF AInv, EntriesAgree
<1>3. candidate \in [Operations ->
         [bytes : 0 .. MaxGlobalBytes, state : {"none", "Handoff", "Retained"}]]
  BY <1>0 DEF AInv, EntriesAgree, IInv, PipelineTyped, CaptureRecords
<1>4. slot \in [Operations -> 0 .. MaxOperationBytes]
  BY <1>0 DEF AInv, StoredAgree, IInv, PipelineTyped
<1>5. DOMAIN queue = Sinks /\ \A s \in Sinks :
         queue[s] \in Seq([op : Operations, bytes : CandidateSizes, at : 0 .. MaxTime])
  <2>1. queue \in [Sinks -> Seq(QueueRecords)]
    BY DEF AInv, IInv, PipelineTyped
  <2>2. ASSUME NEW s \in Sinks
        PROVE  queue[s] \in Seq([op : Operations, bytes : CandidateSizes, at : 0 .. MaxTime])
    <3>1. queue[s] \in Seq(QueueRecords)
      BY <2>1
    <3>2. ASSUME NEW k \in 1 .. Len(queue[s])
          PROVE  queue[s][k] \in [op : Operations, bytes : CandidateSizes, at : 0 .. MaxTime]
      <4>1. queue[s][k] \in QueueRecords /\ queue[s][k].at <= MaxTime
        BY <3>1 DEF AInv, BoundsAgree
      <4> QED BY <1>0, <4>1 DEF QueueRecords
    <3> QED BY <3>1, <3>2, SequenceIn
  <2> QED BY <2>1, <2>2
<1>6. counted \in [Sinks -> 0 .. MaxQueued] /\ queuedBytes \in [Sinks -> 0 .. MaxGlobalBytes]
  <2>1. ASSUME NEW s \in Sinks PROVE counted[s] \in 0 .. MaxQueued /\ queuedBytes[s] \in 0 .. MaxGlobalBytes
    <3>1. GoodCount(s) /\ GoodBytes(s) /\ IInv
      BY DEF AInv, SinksAgree
    <3>2. PICK n \in Nat, b \in Nat, m \in Nat :
            n = Len(queue[s]) /\ b = BusyCount(s) /\ m = Cardinality(Sending(s))
      BY <3>1, QueuedIn, BusyNumbers, FS_CardinalityType DEF GoodCount
    <3>3. counted[s] = n + b + m /\ counted[s] <= MaxQueued
      BY <3>1, <3>2 DEF GoodCount
    <3>4. PICK w \in [Operations -> Nat] : queuedBytes[s] = Total(w) + BusyBytes(s)
      BY <3>1 DEF GoodBytes
    <3>5. Total(w) \in Nat /\ BusyBytes(s) \in Nat /\ queuedBytes[s] <= MaxGlobalBytes
      BY <1>0, <3>1, <3>4, TotalNat, BusyNumbers DEF GoodBytes
    <3> QED BY <1>0, <3>2, <3>3, <3>4, <3>5
  <2>2. counted \in [Sinks -> Int] /\ queuedBytes \in [Sinks -> Int]
    BY DEF AInv, SinksAgree
  <2> QED BY <2>1, <2>2
<1>7. call \in [Callers -> [at : CallPoints, op : Operations \cup {None},
                            seq : 0 .. MaxEvents, bytes : CandidateSizes \cup {0},
                            sent : BOOLEAN]]
  <2>1. call \in [Callers -> CallRecords] /\ \A c \in Callers : call[c].seq <= MaxEvents
    BY DEF AInv, IInv, PipelineTyped, BoundsAgree
  <2> QED BY <1>0, <2>1 DEF CallRecords
<1>8. /\ worker \in [Sinks -> [at : WorkerPoints, op : Operations \cup {None},
                               bytes : CandidateSizes \cup {0}]]
      /\ reported \in [Operations -> Answers] /\ delivered \in SUBSET Operations
      /\ StormTypeOK /\ sharedMu \in Callers \cup {None}
  BY DEF AInv, IInv, PipelineTyped, WorkerRecords, BoundsAgree
<1> QED BY <1>1, <1>2, <1>3, <1>4, <1>5, <1>6, <1>7, <1>8 DEF TypeOK

-----------------------------------------------------------------------------
(***************************************************************************)
(* The theorems.                                                           *)
(***************************************************************************)
(* The gate, the calls, the queues and the workers always stand to each       *)
(* other as IInv says.                                                        *)
THEOREM Invariant == Spec => []IInv
<1> QED BY Start, InductiveStep, PTL DEF Spec

(* No entry of the candidate table leaks and none is missing, and what is     *)
(* kept or was delivered was never reported as suppressed                     *)
(* (reserve_candidate_handoff, claim_candidate, release_candidate, fail).     *)
THEOREM CandidatesHeldHolds == Spec => []CandidatesHeld
<1>1. IInv => CandidatesHeld
  <2> SUFFICES ASSUME IInv, NEW o \in Operations
               PROVE  /\ candidate[o].state # "none" => InHand(o) \/ Kept(o)
                      /\ Kept(o) => candidate[o].state = "Retained"
                      /\ Kept(o) \/ o \in delivered => reported[o] # "suppressed"
    BY DEF CandidatesHeld, Kept
  <2> QED BY DEF IInv, GoodOperation, State
<1> QED BY <1>1, Invariant, PTL

(* Within the suppression window of an admission the gate admits the same     *)
(* failure identity no second time, however many identities came between:     *)
(* it always has room to remember what it has to (admit, with the capacity    *)
(* that its token bucket leaves).                                             *)
THEOREM SuppressionHoldsHolds == Spec => SuppressionHolds
<1>1. ASSUME IInv
      PROVE  [\A i \in Identities :
                Admitted(i) /\ lastAdmission[i] >= 0
                  => now - lastAdmission[i] >= Suppression]_stormVars
  <2> SUFFICES ASSUME NEW i \in Identities, Admitted(i), lastAdmission[i] >= 0,
                      ~(now - lastAdmission[i] >= Suppression)
               PROVE  FALSE
    OBVIOUS
  <2>1. now - lastAdmission[i] < Suppression
    BY <1>1, StormAssumption DEF IInv, StormInv, StormTyped
  <2>2. admitted[i].at = lastAdmission[i]
    BY <1>1, <2>1 DEF IInv, StormInv, Remembers
  <2>3. i \in Retained
    BY <2>1, <2>2 DEF Retained, Suppressing
  <2> QED BY <2>3 DEF Admitted
<1> QED BY <1>1, Invariant, PTL DEF SuppressionHolds

(* Whichever threads record, fail and deliver at the same time: the process   *)
(* accounts for exactly the operations the Sdks record and the candidates it  *)
(* has entries for, never exceeds its limits, and each sink counts exactly    *)
(* the candidates on their way through it (ProcessResources, try_send,        *)
(* finish_queued, wait_until_idle).                                           *)
THEOREM AccountsAgreeHolds == Spec => []AccountsAgree
<1>1. AInv => AccountsAgree
  <2> SUFFICES ASSUME AInv PROVE AccountsAgree
    OBVIOUS
  <2>1. /\ active = opBytes /\ activeBytes = Total(active)
        /\ activeBytes + candidateBytes <= MaxGlobalBytes /\ Cardinality(Captures) <= MaxQueued
    BY DEF AInv, ActiveAgree, EntriesAgree
  <2>2. candidateBytes = Total([o \in Operations |-> candidate[o].bytes])
    BY DEF AInv, EntriesAgree, CandidateSize
  <2>3. ASSUME NEW s \in Sinks PROVE counted[s] = InSink(s)
    <3>1. counted[s] = Len(queue[s]) + BusyCount(s) + Cardinality(Sending(s))
      BY DEF AInv, SinksAgree, GoodCount
    <3>2. BusyCount(s) = IF worker[s].at \in {"absent", "idle"} THEN 0 ELSE 1
      BY DEF BusyCount, Busy
    <3> QED BY <3>1, <3>2 DEF InSink, Sending
  <2>4. ASSUME NEW c \in Callers, call[c].at = "send"
        PROVE  ChannelHasRoom(SinkOf(call[c].op))
    <3> DEFINE s == SinkOf(call[c].op)
    <3>1. s \in Sinks /\ c \in Sending(s)
      <4>1. call[c].op \in Operations
        BY <2>4 DEF AInv, IInv, GoodCaller
      <4> QED BY <2>4, <4>1 DEF SinkOf, Sinks, Sending
    <3> HIDE DEF s
    <3>2. /\ IsFiniteSet(Sending(s)) /\ counted[s] <= MaxQueued
          /\ counted[s] = Len(queue[s]) + BusyCount(s) + Cardinality(Sending(s))
      BY <3>1 DEF AInv, SinksAgree, GoodCount
    <3>3. Cardinality(Sending(s)) \in Nat /\ Cardinality(Sending(s)) # 0
      BY <3>1, <3>2, FS_EmptySet, FS_CardinalityType
    <3>4. Len(queue[s]) \in Nat /\ BusyCount(s) \in Nat /\ MaxQueued \in Nat
      BY <3>1, PipelineAssumption DEF AInv, IInv, PipelineTyped, BusyCount
    <3>5. Len(queue[s]) < MaxQueued
      BY <3>2, <3>3, <3>4
    <3> QED BY <3>5 DEF ChannelHasRoom, s
  <2> QED BY <2>1, <2>2, <2>3, <2>4, TypesAgree DEF AccountsAgree
<1> QED BY <1>1, AccountsStart, AccountsStep, PTL DEF Spec
=============================================================================
