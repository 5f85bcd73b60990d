----------------------------- MODULE WorldEvidence -----------------------------
(***************************************************************************)
(* What the collection of evidence promises, without sessions, contexts or *)
(* failures: interactions of an operation are numbered, some of them       *)
(* become evidence, and the operation is decided once.  It may leave the   *)
(* process only when every numbered interaction is evidence.               *)
(***************************************************************************)
CONSTANTS
  Operations,    \* operation ids
  Interactions   \* what an operation may do with its environment

VARIABLES
  started,   \* operations that have begun
  numbered,  \* interactions of each operation that were given a number
  evidence,  \* interactions of each operation with committed evidence
  verdict    \* what became of each operation

evidenceVars == <<started, numbered, evidence, verdict>>

Init ==
  /\ started = {}
  /\ numbered = [o \in Operations |-> {}]
  /\ evidence = [o \in Operations |-> {}]
  /\ verdict = [o \in Operations |-> "pending"]

(* An operation starts with some interactions already evidence. *)
Start(o, S, E) ==
  /\ o \notin started
  /\ E \subseteq S
  /\ started' = started \cup {o}
  /\ numbered' = [numbered EXCEPT ![o] = S]
  /\ evidence' = [evidence EXCEPT ![o] = E]
  /\ UNCHANGED verdict

Undecided(o) == o \in started /\ verdict[o] = "pending"

Number(o, x) ==
  /\ Undecided(o)
  /\ x \notin numbered[o]
  /\ numbered' = [numbered EXCEPT ![o] = numbered[o] \cup {x}]
  /\ UNCHANGED <<started, evidence, verdict>>

Commit(o, x) ==
  /\ Undecided(o)
  /\ x \in numbered[o] \ evidence[o]
  /\ evidence' = [evidence EXCEPT ![o] = evidence[o] \cup {x}]
  /\ UNCHANGED <<started, numbered, verdict>>

Decide(o, v) ==
  /\ Undecided(o)
  /\ v = "captured" => evidence[o] = numbered[o]
  /\ verdict' = [verdict EXCEPT ![o] = v]
  /\ UNCHANGED <<started, numbered, evidence>>

Next ==
  \E o \in Operations :
    \/ \E S, E \in SUBSET Interactions : Start(o, S, E)
    \/ \E x \in Interactions : Number(o, x) \/ Commit(o, x)
    \/ \E v \in {"captured", "replayed", "local"} : Decide(o, v)

Spec == Init /\ [][Next]_evidenceVars
=============================================================================
