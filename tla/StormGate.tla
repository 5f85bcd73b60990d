----------------------------- MODULE StormGate -----------------------------
(***************************************************************************)
(* FailureStormGate of src/crates/reproit-sdk-rust/src/resources.rs: which *)
(* failures of a process become candidates.  A failure identity admitted   *)
(* less than Suppression ago is suppressed; a new one costs TokenCost of a *)
(* bucket that refills with time.  The gate is part of ProcessResources    *)
(* and is used under its mutex.                                            *)
(***************************************************************************)
EXTENDS Integers, FiniteSets

CONSTANTS
  Identities,      \* digests of failure identities
  Suppression,     \* FAILURE_SUPPRESSION_MS
  TokenCapacity,   \* FAILURE_TOKENS_MILLI_CAPACITY
  TokenCost,       \* 1_000: what one admission takes
  RefillRate,      \* 2: tokens_milli per millisecond
  MaxIdentities,   \* MAX_FAILURE_STORM_IDENTITIES
  MaxTime          \* bound on the clock, for TLC

(* The limits of the code: 256 * 1_000 > 4_000 + 2 * 60_000.  The gate has   *)
(* room for every identity the bucket can admit within one suppression.     *)
ASSUME StormAssumption ==
  /\ Suppression \in Nat /\ TokenCapacity \in Nat /\ TokenCost \in Nat \ {0}
  /\ RefillRate \in Nat /\ MaxIdentities \in Nat /\ MaxTime \in Nat
  /\ MaxIdentities * TokenCost > TokenCapacity + RefillRate * Suppression

VARIABLES
  now,             \* started.elapsed()
  tokens,          \* tokens_milli
  lastRefill,      \* last_refill_ms
  admitted,        \* [Identities -> entry], Never where the gate has none
  lastAdmission    \* history: when an identity was last admitted, or -1

stormVars == <<now, tokens, lastRefill, admitted, lastAdmission>>

(* FailureStormEntry; "at" is -1 where the map has no entry. *)
Never == [at |-> -1, seen |-> -1]
Entry(at, seen) == [at |-> at, seen |-> seen]

StormInit ==
  /\ now = 0
  /\ tokens = TokenCapacity
  /\ lastRefill = 0
  /\ admitted = [i \in Identities |-> Never]
  /\ lastAdmission = [i \in Identities |-> -1]

StormTypeOK ==
  /\ now \in 0 .. MaxTime
  /\ tokens \in 0 .. TokenCapacity
  /\ lastRefill \in 0 .. MaxTime
  /\ admitted \in [Identities -> [at : -1 .. MaxTime, seen : -1 .. MaxTime]]
  /\ lastAdmission \in [Identities -> -1 .. MaxTime]

Tick ==
  /\ now < MaxTime
  /\ now' = now + 1
  /\ UNCHANGED <<tokens, lastRefill, admitted, lastAdmission>>

(* Mutant: the time since the start is counted again at every refill. *)
MutRefilled ==
  LET filled == tokens + now * RefillRate
  IN  IF filled > TokenCapacity THEN TokenCapacity ELSE filled

(* refill *)
Refilled ==
  LET filled == tokens + (now - lastRefill) * RefillRate
  IN  IF filled > TokenCapacity THEN TokenCapacity ELSE filled

(* The entries that retain keeps. *)
Suppressing(i) == admitted[i].at >= 0 /\ now - admitted[i].at < Suppression

Retained == {i \in Identities : Suppressing(i)}

(* The entry observed longest ago; the order of digests breaks ties. *)
Oldest(i) == i \in Retained /\ \A j \in Retained : admitted[i].seen <= admitted[j].seen

(* The map after retain, without the identities in gone and with i set. *)
Remembered(gone, i, entry) ==
  [j \in Identities |-> IF j = i THEN entry
                        ELSE IF j \in Retained \ gone THEN admitted[j] ELSE Never]

(* admit, by its three answers. *)
SuppressedExact(i) ==
  /\ i \in Retained
  /\ tokens' = Refilled
  /\ lastRefill' = now
  /\ admitted' = Remembered({}, i, Entry(admitted[i].at, now))
  /\ UNCHANGED <<now, lastAdmission>>

SuppressedHighCardinality(i) ==
  /\ i \notin Retained
  /\ Refilled < TokenCost
  /\ tokens' = Refilled
  /\ lastRefill' = now
  /\ admitted' = Remembered({}, i, Never)
  /\ UNCHANGED <<now, lastAdmission>>

Admitted(i) ==
  /\ i \notin Retained
  /\ Refilled >= TokenCost
  /\ tokens' = Refilled - TokenCost
  /\ lastRefill' = now
  /\ \E gone \in SUBSET Retained :
       /\ IF Cardinality(Retained) >= MaxIdentities
            THEN \E j \in gone : gone = {j} /\ Oldest(j)
            ELSE gone = {}
       /\ admitted' = Remembered(gone, i, Entry(now, now))
  /\ lastAdmission' = [lastAdmission EXCEPT ![i] = now]
  /\ UNCHANGED now

(* A failure identity that became a candidate does not become one again      *)
(* before the suppression has passed.  A full gate pushes out the entry seen *)
(* longest ago (admit), suppressed or not; the token bucket has to see to it *)
(* that so many are not admitted within one suppression.                     *)
SuppressionHolds ==
  [][\A i \in Identities :
       Admitted(i) /\ lastAdmission[i] >= 0
         => now - lastAdmission[i] >= Suppression]_stormVars
=============================================================================
