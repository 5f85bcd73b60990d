----------------------- MODULE AutomaticContext_proofs -----------------------
(***************************************************************************)
(* Proofs about AutomaticContext and the coordinators it drives, for any   *)
(* operations, sessions, threads, classes and limits.                      *)
(*                                                                         *)
(* A session call checks its context in one critical section and runs in   *)
(* another, so what holds between the two is said thread by thread         *)
(* (GoodThread): the session value still exists, and no other thread uses  *)
(* it.  A session that has left its live coordinator is on its way to fail *)
(* its operation (GoodSession).  And an operation that is not incomplete   *)
(* has, for each number it gave out, the evidence or the open session, and *)
(* in a replay, for each response it took, the delivery or the session     *)
(* (GoodOperation).  With that each step is a step of WorldEvidence or a   *)
(* stutter.                                                                *)
(***************************************************************************)
EXTENDS AutomaticContext, FiniteSetTheorems, TLAPS

Observed == [class : Classes, position : Nat, owned : BOOLEAN]

SessionRecords ==
  [op : Operations \cup {None}, class : Classes, state : SessionStates,
   request : Requests, response : Responses, position : Nat]

ThreadRecords ==
  [at : {"running", "lost", "opening", "refused", "admitted", "rejected", "failing"},
   session : Sessions \cup {None}, call : Calls \cup {"none", "open"},
   met : SUBSET Operations, pending : SUBSET Operations]

Frames == [op : Operations, masked : BOOLEAN]

(* Thread t is inside a call on a session. *)
Using(t) == thread[t].at \in {"admitted", "rejected", "failing"}

GoodThread(t) ==
  /\ Using(t) => thread[t].session \in Sessions /\ handle[thread[t].session] # None
  /\ thread[t].at = "lost" => \A o \in thread[t].met : o \in thread[t].pending \/ invalid[o]

OneUser == \A t, u \in Threads :
  Using(t) /\ Using(u) /\ thread[t].session = thread[u].session => t = u

(* Another call will fail the operation of session s. *)
FailureUnderWay(s) == \E t \in Threads : thread[t].at = "failing" /\ thread[t].session = s

GoodSession(s) ==
  /\ handle[s] # None => s \in spent /\ coordinator[handle[s]] # "absent"
  /\ handle[s] # None /\ Live(handle[s]) => session[s].op = handle[s] \/ FailureUnderWay(s)
  /\ session[s].op # None =>
       /\ Live(session[s].op)
       /\ handle[s] = session[s].op
       /\ session[s].position < nextPosition[session[s].op][session[s].class]
       /\ session[s].state = "capture" => mode[session[s].op] = "capture"
       /\ session[s].state = "drained" => Interaction(s) \in consumed[session[s].op]
       /\ session[s].state = "replay" => Interaction(s) \in consumed[session[s].op]
       /\ \A i \in DOMAIN observations[session[s].op] :
            observations[session[s].op][i].owned =>
              <<observations[session[s].op][i].class, observations[session[s].op][i].position>>
                # Interaction(s)

(* Two open sessions of an operation hold different positions. *)
Apart == \A r, s \in Sessions :
  session[s].op # None /\ session[r].op = session[s].op /\ Interaction(r) = Interaction(s)
    => r = s

(* Interaction x of operation o is still open. *)
InSession(o, x) == \E s \in Sessions : session[s].op = o /\ Interaction(s) = x

(* Each owned observation has a position that was given out, no two the same. *)
Numbered(o) ==
  /\ \A i \in DOMAIN observations[o] : observations[o][i].owned =>
       observations[o][i].position < nextPosition[o][observations[o][i].class]
  /\ \A i, j \in DOMAIN observations[o] :
       /\ observations[o][i].owned /\ observations[o][j].owned
       /\ observations[o][i].class = observations[o][j].class
       /\ observations[o][i].position = observations[o][j].position
       => i = j

Unstarted(o) ==
  /\ nextPosition[o] = [c \in Classes |-> 0]
  /\ observations[o] = <<>>
  /\ consumed[o] = {}
  /\ mode[o] = "capture"

GoodOperation(o) ==
  /\ coordinator[o] = "absent" => Unstarted(o)
  /\ coordinator[o] = "taken" <=> outcome[o] # "pending"
  /\ o \in tainted => invalid[o]
  /\ Numbered(o)
  /\ \A c \in Classes :
       nextPosition[o][c] <= opened[o] + (IF c \in Internal THEN 1 ELSE 0)
  /\ delivered[o] \subseteq Recorded
  /\ Live(o) /\ mode[o] = "capture" /\ ~incomplete[o] =>
       \A x \in Assigned(o) : x \in Committed(o) \/ InSession(o, x)
  /\ Live(o) /\ mode[o] = "replay" /\ ~incomplete[o] =>
       \A x \in consumed[o] : x \in delivered[o] \/ InSession(o, x)
  /\ outcome[o] = "captured" =>
       Committed(o) = Assigned(o) /\ AllOwned(o) /\ o \notin tainted
  /\ outcome[o] = "replayed" => delivered[o] = Recorded /\ o \notin tainted

IInv ==
  /\ TypeOK
  /\ \A t \in Threads : GoodThread(t)
  /\ OneUser
  /\ \A s \in Sessions : GoodSession(s)
  /\ Apart
  /\ \A o \in Operations : GoodOperation(o)

-----------------------------------------------------------------------------
(***************************************************************************)
(* Records.                                                                *)
(***************************************************************************)
(* What a thread is doing, as a record. *)
LEMMA ThreadRecord ==
  /\ Running \in ThreadRecords /\ Running.at = "running"
  /\ \A o \in Operations : Opening(o) \in ThreadRecords /\ Opening(o).at = "opening"
  /\ \A s \in Sessions, call \in Calls :
       /\ Admitted(s, call) \in ThreadRecords /\ Admitted(s, call).at = "admitted"
       /\ Admitted(s, call).session = s
  /\ Refused \in ThreadRecords /\ Refused.at = "refused"
  /\ \A s \in Sessions :
       /\ Failing(s) \in ThreadRecords /\ Failing(s).at = "failing" /\ Failing(s).session = s
       /\ Rejected(s) \in ThreadRecords /\ Rejected(s).at = "rejected" /\ Rejected(s).session = s
  /\ \A met, pending \in SUBSET Operations :
       /\ LostContext(met, pending) \in ThreadRecords /\ LostContext(met, pending).at = "lost"
       /\ LostContext(met, pending).met = met /\ LostContext(met, pending).pending = pending
BY DEF Running, Opening, Refused, Admitted, Rejected, Failing, LostContext, ThreadAt, ThreadRecords,
       Calls

(* A session, as a record. *)
LEMMA SessionRecord ==
  ASSUME NEW o \in Operations \cup {None}, NEW c \in Classes, NEW state \in SessionStates,
         NEW request \in Requests, NEW response \in Responses, NEW position \in Nat
  PROVE  LET r == Session(o, c, state, request, response, position)
         IN  /\ r \in SessionRecords
             /\ r.op = o /\ r.class = c /\ r.state = state /\ r.request = request
             /\ r.response = response /\ r.position = position
BY DEF Session, SessionRecords

(* The entry of no session. *)
LEMMA NoSessionRecord == NoSession \in SessionRecords /\ NoSession.op = None
<1>1. AnyClass \in Classes
  BY CoordinatorAssumption DEF AnyClass
<1> QED BY <1>1 DEF NoSession, Session, SessionRecords, SessionStates, Requests, Responses

-----------------------------------------------------------------------------
(***************************************************************************)
(* What others rely on is kept.                                            *)
(***************************************************************************)
(* An operation that gets no number, no evidence and no verdict: its open     *)
(* sessions stay, or it becomes incomplete.                                   *)
LEMMA OperationKept ==
  ASSUME NEW o \in Operations, GoodOperation(o),
         coordinator'[o] = coordinator[o], mode'[o] = mode[o],
         nextPosition'[o] = nextPosition[o], observations'[o] = observations[o],
         consumed'[o] = consumed[o], delivered'[o] = delivered[o], outcome'[o] = outcome[o],
         \/ opened'[o] = opened[o]
         \/ \A c \in Classes :
              nextPosition[o][c] <= opened'[o] + (IF c \in Internal THEN 1 ELSE 0),
         incomplete[o] => incomplete'[o], invalid[o] => invalid'[o],
         o \in tainted' => o \in tainted \/ (invalid'[o] /\ Live(o)),
         \/ incomplete'[o]
         \/ \A s \in Sessions : session[s].op = o =>
              /\ session'[s].op = o /\ session'[s].class = session[s].class
              /\ session'[s].position = session[s].position
  PROVE  GoodOperation(o)'
<1>1. Assigned(o)' = Assigned(o) /\ Committed(o)' = Committed(o)
  BY DEF Assigned, Committed
<1>2. Numbered(o)' /\ (coordinator'[o] = "absent" => Unstarted(o)')
  BY DEF GoodOperation, Numbered, Unstarted
<1>3. ASSUME ~incomplete'[o], NEW x, InSession(o, x) PROVE InSession(o, x)'
  BY <1>3 DEF InSession, Interaction
<1>4. (Live(o)' <=> Live(o)) /\ (AllOwned(o)' <=> AllOwned(o))
  BY DEF Live, AllOwned
<1>5. Live(o)' /\ mode'[o] = "capture" /\ ~incomplete'[o] =>
        \A x \in Assigned(o)' : x \in Committed(o)' \/ InSession(o, x)'
  BY <1>1, <1>3, <1>4 DEF GoodOperation
<1>6. Live(o)' /\ mode'[o] = "replay" /\ ~incomplete'[o] =>
        \A x \in consumed'[o] : x \in delivered'[o] \/ InSession(o, x)'
  BY <1>3, <1>4 DEF GoodOperation
<1>7. outcome[o] # "pending" => (o \in tainted' => o \in tainted)
  BY DEF GoodOperation, Live
<1>8. o \in tainted' => invalid'[o]
  BY DEF GoodOperation
<1>9. \A c \in Classes : nextPosition'[o][c] <= opened'[o] + (IF c \in Internal THEN 1 ELSE 0)
  BY DEF GoodOperation
<1> QED BY <1>1, <1>2, <1>4, <1>5, <1>6, <1>7, <1>8, <1>9 DEF GoodOperation

(* A session nobody touches. *)
LEMMA SessionKept ==
  ASSUME NEW s \in Sessions, GoodSession(s), handle'[s] = handle[s], session'[s] = session[s],
         spent \subseteq spent',
         handle[s] # None => coordinator'[handle[s]] = coordinator[handle[s]],
         session[s].op # None =>
           /\ mode'[session[s].op] = mode[session[s].op]
           /\ session[s].position < nextPosition'[session[s].op][session[s].class]
           /\ consumed[session[s].op] \subseteq consumed'[session[s].op]
           /\ \A i \in DOMAIN observations'[session[s].op] :
                observations'[session[s].op][i].owned =>
                  <<observations'[session[s].op][i].class, observations'[session[s].op][i].position>>
                    # Interaction(s),
         FailureUnderWay(s) => FailureUnderWay(s)'
  PROVE  GoodSession(s)'
<1>1. Interaction(s)' = Interaction(s)
  BY DEF Interaction
<1>2. handle'[s] # None => s \in spent' /\ coordinator'[handle'[s]] # "absent"
  BY DEF GoodSession
<1>3. handle'[s] # None /\ Live(handle[s])' => session'[s].op = handle'[s] \/ FailureUnderWay(s)'
  BY DEF GoodSession, Live
<1>4. ASSUME session[s].op # None
      PROVE  /\ Live(session[s].op)'
             /\ handle'[s] = session'[s].op
             /\ session'[s].state = "capture" => mode'[session'[s].op] = "capture"
             /\ session'[s].state = "drained" => Interaction(s)' \in consumed'[session'[s].op]
             /\ session'[s].state = "replay" => Interaction(s)' \in consumed'[session'[s].op]
  BY <1>1, <1>4 DEF GoodSession, Live
<1> QED BY <1>1, <1>2, <1>3, <1>4 DEF GoodSession

(* One thread goes elsewhere. *)
LEMMA ThreadMoves ==
  ASSUME IInv, NEW t \in Threads, NEW r \in ThreadRecords, thread' = [thread EXCEPT ![t] = r],
         \A o \in Operations : invalid[o] => invalid'[o],
         r.at \in {"admitted", "rejected", "failing"} =>
           /\ r.session \in Sessions /\ handle'[r.session] # None
           /\ \A u \in Threads : u # t /\ Using(u) => thread[u].session # r.session,
         r.at = "lost" => \A o \in r.met : o \in r.pending \/ invalid'[o],
         \A u \in Threads : u # t /\ Using(u) => handle'[thread[u].session] # None
  PROVE  /\ thread' \in [Threads -> ThreadRecords] /\ thread'[t] = r
         /\ \A u \in Threads : u # t => thread'[u] = thread[u]
         /\ \A u \in Threads : GoodThread(u)'
         /\ OneUser'
<1>1. thread \in [Threads -> ThreadRecords]
  BY DEF IInv, TypeOK, ThreadRecords
<1>2. /\ thread' \in [Threads -> ThreadRecords] /\ thread'[t] = r
      /\ \A u \in Threads : u # t => thread'[u] = thread[u]
  BY <1>1
<1>3. ASSUME NEW u \in Threads PROVE GoodThread(u)'
  <2>1. CASE u = t
    BY <1>2, <2>1 DEF GoodThread, Using
  <2>2. CASE u # t
    <3>1. GoodThread(u) /\ thread'[u] = thread[u] /\ thread[u].met \in SUBSET Operations
      BY <1>1, <1>2, <2>2 DEF IInv, ThreadRecords
    <3> QED BY <2>2, <3>1 DEF GoodThread, Using
  <2> QED BY <2>1, <2>2
<1>4. OneUser'
  <2> SUFFICES ASSUME NEW u \in Threads, NEW v \in Threads, Using(u)', Using(v)',
                      thread'[u].session = thread'[v].session, u # v
               PROVE  FALSE
    BY DEF OneUser
  <2>1. CASE u # t /\ v # t
    BY <1>2, <2>1 DEF IInv, OneUser, Using
  <2>2. CASE u = t
    BY <1>2, <2>2 DEF Using
  <2>3. CASE v = t
    BY <1>2, <2>3 DEF Using
  <2> QED BY <2>1, <2>2, <2>3
<1> QED BY <1>2, <1>3, <1>4

(* Steps that touch neither sessions nor evidence. *)
LEMMA QuietStep ==
  ASSUME IInv, TypeOK', \A t \in Threads : GoodThread(t)', OneUser',
         UNCHANGED <<mode, coordinator, nextPosition, observations, consumed, session, opened,
                     outcome, delivered, spent, handle>>,
         \A o \in Operations : (incomplete[o] => incomplete'[o]) /\ (invalid[o] => invalid'[o]),
         \A o \in Operations : o \in tainted' => o \in tainted \/ (invalid'[o] /\ Live(o)),
         \A t \in Threads : thread[t].at = "failing" => thread'[t] = thread[t]
  PROVE  IInv'
<1>1. ASSUME NEW o \in Operations PROVE GoodOperation(o)'
  <2>1. GoodOperation(o)
    BY DEF IInv
  <2> QED BY <2>1, OperationKept
<1>2. ASSUME NEW s \in Sessions PROVE GoodSession(s)'
  <2>1. GoodSession(s)
    BY DEF IInv
  <2>2. FailureUnderWay(s) => FailureUnderWay(s)'
    BY DEF FailureUnderWay
  <2>3. session[s].op # None =>
          /\ session[s].position < nextPosition'[session[s].op][session[s].class]
          /\ \A i \in DOMAIN observations'[session[s].op] :
                observations'[session[s].op][i].owned =>
                  <<observations'[session[s].op][i].class, observations'[session[s].op][i].position>>
                    # Interaction(s)
    BY <2>1 DEF GoodSession
  <2> QED BY <2>1, <2>2, <2>3, SessionKept
<1>3. Apart'
  BY DEF IInv, Apart, Interaction
<1> QED BY <1>1, <1>2, <1>3 DEF IInv

(* A thread takes such a step. *)
LEMMA QuietThread ==
  ASSUME IInv, NEW t \in Threads, NEW r \in ThreadRecords, thread' = [thread EXCEPT ![t] = r],
         thread[t].at # "failing",
         UNCHANGED <<mode, coordinator, overflowed, covered, nextPosition, observations, recording,
                     consumed, session, registered, opened, ending, outcome, sessionVars, delivered>>,
         incomplete' \in [Operations -> BOOLEAN], invalid' \in [Operations -> BOOLEAN],
         \A o \in Operations : (incomplete[o] => incomplete'[o]) /\ (invalid[o] => invalid'[o]),
         frames' \in [Threads -> Seq(Frames)], tainted' \in SUBSET Operations,
         \A o \in Operations : o \in tainted' => o \in tainted \/ (invalid'[o] /\ Live(o)),
         r.at \in {"admitted", "rejected", "failing"} =>
           /\ r.session \in Sessions /\ handle[r.session] # None
           /\ \A u \in Threads : u # t /\ Using(u) => thread[u].session # r.session,
         r.at = "lost" => \A o \in r.met : o \in r.pending \/ invalid'[o]
  PROVE  IInv'
<1> USE DEF sessionVars
<1>1. TypeOK
  BY DEF IInv
<1>2. \A u \in Threads : Using(u) => handle[thread[u].session] # None
  BY DEF IInv, GoodThread
<1>3. /\ thread' \in [Threads -> ThreadRecords] /\ thread'[t] = r
      /\ \A u \in Threads : u # t => thread'[u] = thread[u]
      /\ \A u \in Threads : GoodThread(u)'
      /\ OneUser'
  <2>1. handle' = handle
    OBVIOUS
  <2> QED BY <1>2, <2>1, ThreadMoves
<1>4. TypeOK'
  BY <1>1, <1>3 DEF TypeOK, ThreadRecords, Frames
<1>5. \A u \in Threads : thread[u].at = "failing" => thread'[u] = thread[u]
  BY <1>3
<1> QED BY <1>3, <1>4, <1>5, QuietStep

(* The empty coordinators. *)
LEMMA InductiveInit == Init => IInv
<1> SUFFICES ASSUME Init PROVE IInv
  OBVIOUS
<1> USE DEF Init, CoordinatorInit
<1>1. TypeOK
  <2>1. thread \in [Threads -> ThreadRecords]
    BY ThreadRecord
  <2>2. session \in [Sessions -> SessionRecords]
    BY NoSessionRecord
  <2>3. /\ nextPosition \in [Operations -> [Classes -> Nat]]
        /\ observations \in [Operations -> Seq(Observed)]
        /\ frames \in [Threads -> Seq(Frames)]
    OBVIOUS
  <2>4. opened \in [Operations -> 0 .. MaxAmbient]
    BY ContextAssumption
  <2> QED BY <2>1, <2>2, <2>3, <2>4 DEF TypeOK, ThreadRecords, SessionRecords, Observed, Frames
<1>2. \A t \in Threads : thread[t].at = "running"
  BY ThreadRecord
<1>3. (\A t \in Threads : GoodThread(t)) /\ OneUser
  BY <1>2 DEF GoodThread, OneUser, Using
<1>4. (\A s \in Sessions : GoodSession(s)) /\ Apart
  BY NoSessionRecord DEF GoodSession, Apart
<1>5. ASSUME NEW o \in Operations PROVE GoodOperation(o)
  <2>1. nextPosition[o] = [c \in Classes |-> 0] /\ observations[o] = <<>> /\ opened[o] = 0
    OBVIOUS
  <2>2. Numbered(o) /\ Unstarted(o)
    BY <2>1 DEF Numbered, Unstarted
  <2>3. \A c \in Classes : nextPosition[o][c] <= opened[o] + (IF c \in Internal THEN 1 ELSE 0)
    BY <2>1
  <2>4. ~Live(o) /\ outcome[o] = "pending" /\ delivered[o] = {} /\ tainted = {}
    BY DEF Live
  <2> QED BY <2>2, <2>3, <2>4 DEF GoodOperation
<1> QED BY <1>1, <1>3, <1>4, <1>5 DEF IInv

-----------------------------------------------------------------------------
(***************************************************************************)
(* Contexts come, go and are lost.                                         *)
(***************************************************************************)
(* Invalidation marks, and changes nothing else. *)
LEMMA Invalidated ==
  ASSUME TypeOK, NEW S, Invalidate(S)
  PROVE  /\ incomplete' \in [Operations -> BOOLEAN] /\ invalid' \in [Operations -> BOOLEAN]
         /\ \A o \in Operations : (incomplete[o] => incomplete'[o]) /\ (invalid[o] => invalid'[o])
         /\ \A o \in Operations : o \in S => invalid'[o]
         /\ UNCHANGED <<mode, coordinator, overflowed, covered, nextPosition, observations, recording,
                        consumed, session>>
BY DEF Invalidate, InvalidateAmbient, TypeOK

(* The polls of futures.                                                      *)
LEMMA ContextStep ==
  ASSUME IInv, NEW t \in Threads,
         \/ \E o \in Operations : PollEnter(t, o)
         \/ PollExit(t)
  PROVE  IInv'
<1> USE DEF coordinatorVars, contextVars, threadVars, historyVars
<1>1. /\ TypeOK /\ thread \in [Threads -> ThreadRecords] /\ frames \in [Threads -> Seq(Frames)]
      /\ incomplete \in [Operations -> BOOLEAN] /\ invalid \in [Operations -> BOOLEAN]
      /\ tainted \in SUBSET Operations
  BY DEF IInv, TypeOK, ThreadRecords, Frames
<1>2. PICK r \in ThreadRecords : r = thread[t]
  BY <1>1
<1>3. /\ thread' = thread /\ thread[t].at = "running" /\ thread' = [thread EXCEPT ![t] = r]
      /\ tainted' = tainted
  BY <1>1, <1>2 DEF PollEnter, PollExit
<1>4. UNCHANGED <<registered, opened, ending, outcome, sessionVars, delivered>>
  BY DEF PollEnter, PollExit
<1>5. UNCHANGED <<coordinatorVars, invalid>> \/ \E S : Invalidate(S)
  BY DEF PollEnter, PollExit
<1>6. /\ incomplete' \in [Operations -> BOOLEAN] /\ invalid' \in [Operations -> BOOLEAN]
      /\ \A o \in Operations : (incomplete[o] => incomplete'[o]) /\ (invalid[o] => invalid'[o])
      /\ UNCHANGED <<mode, coordinator, overflowed, covered, nextPosition, observations, recording,
                     consumed, session>>
  BY <1>1, <1>5, Invalidated
<1>7. frames' \in [Threads -> Seq(Frames)]
  <2>1. ASSUME NEW o \in Operations, PollEnter(t, o) PROVE frames' \in [Threads -> Seq(Frames)]
    <3>1. PICK f \in Frames : frames' = [frames EXCEPT ![t] = Append(@, f)]
      <4>1. Frame(o, ~CanPush(t, o)) \in Frames
        BY DEF Frame, Frames
      <4> QED BY <2>1, <4>1 DEF PollEnter
    <3>2. Append(frames[t], f) \in Seq(Frames)
      BY <1>1
    <3> QED BY <1>1, <3>1, <3>2
  <2>2. ASSUME PollExit(t) PROVE frames' \in [Threads -> Seq(Frames)]
    <3>1. PICK q \in Seq(Frames) : q = frames[t] /\ q # <<>>
      BY <1>1, <2>2 DEF PollExit
    <3>2. SubSeq(q, 1, Len(q) - 1) \in Seq(Frames)
      BY <3>1
    <3> QED BY <1>1, <2>2, <3>1, <3>2 DEF PollExit
  <2> QED BY <2>1, <2>2
<1> HIDE DEF sessionVars
<1>8. r.at = "running"
  BY <1>2, <1>3
<1> QED BY <1>1, <1>2, <1>3, <1>4, <1>6, <1>7, <1>8, QuietThread

(* A thread without a context notes every registered operation. *)
LEMMA CurrentLostStep ==
  ASSUME IInv, NEW t \in Threads, CurrentLost(t)
  PROVE  IInv'
<1> USE DEF coordinatorVars, contextVars, historyVars
<1>1. /\ registered \in SUBSET Operations /\ frames \in [Threads -> Seq(Frames)]
      /\ incomplete \in [Operations -> BOOLEAN] /\ invalid \in [Operations -> BOOLEAN]
      /\ tainted \in SUBSET Operations
  BY DEF IInv, TypeOK, Frames
<1>2. PICK r \in ThreadRecords :
        r = LostContext(registered, registered) /\ r.at = "lost" /\ r.met = registered
          /\ r.pending = registered
  BY <1>1, ThreadRecord
<1>3. /\ thread[t].at = "running" /\ thread' = [thread EXCEPT ![t] = r]
      /\ UNCHANGED <<coordinatorVars, contextVars, frames, sessionVars, historyVars>>
  BY <1>2 DEF CurrentLost
<1> QED BY <1>1, <1>2, <1>3, QuietThread

(* The last of them is invalidated before the effect happens. *)
LEMMA InvalidateNextStep ==
  ASSUME IInv, NEW t \in Threads, InvalidateNext(t)
  PROVE  IInv'
<1>1. /\ TypeOK /\ frames \in [Threads -> Seq(Frames)] /\ tainted \in SUBSET Operations
      /\ thread[t].met \in SUBSET Operations /\ thread[t].pending \in SUBSET Operations
  BY DEF IInv, TypeOK, Frames
<1>2. PICK o \in thread[t].pending :
        LET rest == thread[t].pending \ {o}
        IN  /\ Invalidate({o})
            /\ thread' = [thread EXCEPT ![t] =
                            IF rest = {} THEN Running ELSE LostContext(thread[t].met, rest)]
            /\ tainted' = IF rest = {} THEN tainted \cup {p \in thread[t].met : Live(p)} ELSE tainted
  BY DEF InvalidateNext
<1> DEFINE rest == thread[t].pending \ {o}
<1>3. /\ thread[t].at = "lost" /\ UNCHANGED <<registered, opened, ending, outcome, frames, sessionVars,
                                              delivered>>
  BY DEF InvalidateNext
<1>4. /\ incomplete' \in [Operations -> BOOLEAN] /\ invalid' \in [Operations -> BOOLEAN]
      /\ \A p \in Operations : (incomplete[p] => incomplete'[p]) /\ (invalid[p] => invalid'[p])
      /\ invalid'[o]
      /\ UNCHANGED <<mode, coordinator, overflowed, covered, nextPosition, observations, recording,
                     consumed, session>>
  BY <1>1, <1>2, Invalidated
<1>5. \A p \in thread[t].met : p \in rest \/ invalid'[p]
  <2>1. \A p \in thread[t].met : p \in thread[t].pending \/ invalid[p]
    BY <1>3 DEF IInv, GoodThread
  <2> QED BY <1>1, <1>4, <2>1
<1>6. /\ tainted' \in SUBSET Operations
      /\ \A p \in Operations : p \in tainted' => p \in tainted \/ (invalid'[p] /\ Live(p))
  BY <1>1, <1>2, <1>5
<1>7. CASE rest = {}
  <2>1. thread' = [thread EXCEPT ![t] = Running]
    BY <1>2, <1>7
  <2> QED BY <1>1, <1>3, <1>4, <1>6, <2>1, ThreadRecord, QuietThread
<1>8. CASE rest # {}
  <2>1. PICK r \in ThreadRecords :
          r = LostContext(thread[t].met, rest) /\ r.at = "lost" /\ r.met = thread[t].met
            /\ r.pending = rest
    <3>1. rest \in SUBSET Operations
      BY <1>1
    <3> HIDE DEF rest
    <3> QED BY <1>1, <3>1, ThreadRecord
  <2>2. thread' = [thread EXCEPT ![t] = r]
    BY <1>2, <1>8, <2>1
  <2> HIDE DEF rest
  <2> QED BY <1>1, <1>3, <1>4, <1>5, <1>6, <2>1, <2>2, QuietThread
<1> QED BY <1>7, <1>8

(* A call fails that has changed nothing. *)
CallErrsAlone(t) ==
  thread[t].at = "admitted" /\ CallErrs(t) /\ UNCHANGED coordinatorVars

(* A call is admitted, rejected or refused before it reaches the coordinator. *)
LEMMA AdmissionStep ==
  ASSUME IInv, NEW t \in Threads,
         \/ \E o \in Operations :
              OpenRejected(t, o) \/ OpenBegin(t, o) \/ OpenInvalid(t, o) \/ OpenAtQuota(t, o)
         \/ \E s \in Sessions : CallAdmitted(t, s) \/ CallRejected(t, s) \/ SessionDropped(t, s)
         \/ InvalidateCurrent(t)
         \/ CallErrsAlone(t)
  PROVE  IInv'
<1> USE DEF coordinatorVars, contextVars, historyVars
<1>1. /\ TypeOK /\ frames \in [Threads -> Seq(Frames)]
      /\ incomplete \in [Operations -> BOOLEAN] /\ invalid \in [Operations -> BOOLEAN]
      /\ tainted \in SUBSET Operations
  BY DEF IInv, TypeOK, Frames
<1>2. /\ thread[t].at # "failing"
      /\ UNCHANGED <<registered, opened, ending, outcome, frames, sessionVars, delivered, tainted>>
  BY DEF OpenRejected, OpenBegin, OpenInvalid, OpenAtQuota, CallAdmitted, CallRejected, SessionDropped,
         InvalidateCurrent, CallErrsAlone, CallErrs, IsOpening
<1>3. UNCHANGED <<coordinatorVars, invalid>> \/ \E S : Invalidate(S)
  BY DEF OpenRejected, OpenBegin, OpenInvalid, OpenAtQuota, CallAdmitted, CallRejected, SessionDropped,
         InvalidateCurrent, CallErrsAlone, CallErrs
<1>4. /\ incomplete' \in [Operations -> BOOLEAN] /\ invalid' \in [Operations -> BOOLEAN]
      /\ \A o \in Operations : (incomplete[o] => incomplete'[o]) /\ (invalid[o] => invalid'[o])
      /\ UNCHANGED <<mode, coordinator, overflowed, covered, nextPosition, observations, recording,
                     consumed, session>>
  BY <1>1, <1>3, Invalidated
<1>5. ASSUME NEW r \in ThreadRecords, thread' = [thread EXCEPT ![t] = r], r.at # "lost",
             r.at \in {"admitted", "rejected", "failing"} =>
               /\ r.session \in Sessions /\ handle[r.session] # None
               /\ \A u \in Threads : u # t /\ Using(u) => thread[u].session # r.session
      PROVE  IInv'
  BY <1>1, <1>2, <1>4, <1>5, QuietThread
<1>6. ASSUME NEW o \in Operations,
             OpenRejected(t, o) \/ OpenBegin(t, o) \/ OpenInvalid(t, o) \/ OpenAtQuota(t, o)
      PROVE  IInv'
  <2>1. \/ thread' = [thread EXCEPT ![t] = Running] \/ thread' = [thread EXCEPT ![t] = Opening(o)]
        \/ thread' = [thread EXCEPT ![t] = Refused]
    BY <1>6 DEF OpenRejected, OpenBegin, OpenInvalid, OpenAtQuota
  <2> QED BY <1>5, <2>1, ThreadRecord
<1>7. ASSUME NEW s \in Sessions, CallAdmitted(t, s) \/ CallRejected(t, s) \/ SessionDropped(t, s)
      PROVE  IInv'
  <2>1. PICK r \in ThreadRecords :
          /\ thread' = [thread EXCEPT ![t] = r]
          /\ r.at \in {"admitted", "rejected", "failing"} /\ r.session = s
    BY <1>7, ThreadRecord DEF CallAdmitted, CallRejected, SessionDropped
  <2>2. handle[s] # None /\ \A u \in Threads : thread[u].session # s
    BY <1>7 DEF CallAdmitted, CallRejected, SessionDropped, Held
  <2> QED BY <1>5, <2>1, <2>2
<1>8. ASSUME thread[t].at \in {"admitted", "rejected"},
             thread' = [thread EXCEPT ![t] = Failing(thread[t].session)]
      PROVE  IInv'
  <2>1. thread[t].session \in Sessions /\ handle[thread[t].session] # None
    BY <1>8 DEF IInv, GoodThread, Using
  <2>2. \A u \in Threads : u # t /\ Using(u) => thread[u].session # thread[t].session
    BY <1>8 DEF IInv, OneUser, Using
  <2>3. PICK r \in ThreadRecords :
          r = Failing(thread[t].session) /\ r.at = "failing" /\ r.session = thread[t].session
    BY <2>1, ThreadRecord
  <2> QED BY <1>5, <1>8, <2>1, <2>2, <2>3
<1>9. ASSUME CallErrsAlone(t) PROVE IInv'
  BY <1>9, <1>8 DEF CallErrsAlone, CallErrs
<1>10. ASSUME InvalidateCurrent(t) PROVE IInv'
  <2>1. CASE thread' = [thread EXCEPT ![t] = Running]
    BY <1>5, <2>1, ThreadRecord
  <2>2. CASE thread[t].at = "rejected" /\ thread' = [thread EXCEPT ![t] = Failing(thread[t].session)]
    BY <1>8, <2>2
  <2> QED BY <1>10, <2>1, <2>2 DEF InvalidateCurrent
<1> QED BY <1>6, <1>7, <1>9, <1>10

-----------------------------------------------------------------------------
(***************************************************************************)
(* Calls on a session.                                                     *)
(***************************************************************************)
(* The session of a call that reaches the coordinator is open there, and no   *)
(* other thread uses it.                                                      *)
LEMMA CalledSession ==
  ASSUME IInv, NEW t \in Threads, NEW call, Called(t, call)
  PROVE  LET s == thread[t].session
         IN  /\ s \in Sessions /\ handle[s] \in Operations /\ session[s].op = handle[s]
             /\ Live(handle[s]) /\ session[s] \in SessionRecords
             /\ thread[t].at = "admitted"
             /\ \A u \in Threads : u # t /\ Using(u) => thread[u].session # s
<1> DEFINE s == thread[t].session
<1>1. thread[t].at = "admitted" /\ Live(handle[s])
  BY DEF Called, Active
<1>2. s \in Sessions /\ handle[s] # None
  BY <1>1 DEF IInv, GoodThread, Using
<1>3. handle[s] \in Operations /\ session[s] \in SessionRecords
  BY <1>2 DEF IInv, TypeOK, SessionRecords
<1>4. \A u \in Threads : u # t /\ Using(u) => thread[u].session # s
  BY <1>1 DEF IInv, OneUser, Using
<1>5. ~FailureUnderWay(s)
  BY <1>1, <1>4 DEF FailureUnderWay, Using
<1>6. session[s].op = handle[s]
  BY <1>1, <1>2, <1>5 DEF IInv, GoodSession
<1> QED BY <1>1, <1>2, <1>3, <1>4, <1>6

(* What is to be shown of a session that is open after a step. *)
LEMMA SessionOpen ==
  ASSUME NEW s \in Sessions, NEW o \in Operations, session'[s].op = o, handle'[s] = o, Live(o)',
         s \in spent', session'[s].position < nextPosition'[o][session'[s].class],
         \A i \in DOMAIN observations'[o] : observations'[o][i].owned =>
           <<observations'[o][i].class, observations'[o][i].position>> # Interaction(s)',
         session'[s].state = "capture" => mode'[o] = "capture",
         session'[s].state = "drained" => Interaction(s)' \in consumed'[o],
         session'[s].state = "replay" => Interaction(s)' \in consumed'[o]
  PROVE  GoodSession(s)'
<1>1. coordinator'[o] = "live"
  BY DEF Live
<1>2. handle'[s] # None => s \in spent' /\ coordinator'[handle'[s]] # "absent"
  BY <1>1
<1>3. Live(session[s].op)'
  BY <1>1 DEF Live
<1> QED BY <1>2, <1>3 DEF GoodSession

(* A call leaves its session open, with what it holds; a replay may have      *)
(* taken the response.                                                        *)
LEMMA SessionStep ==
  ASSUME IInv, NEW t \in Threads, NEW call, Called(t, call), NEW s \in Sessions,
         s = thread[t].session, NEW o \in Operations, o = session[s].op,
         NEW q \in SessionRecords, session' = [session EXCEPT ![s] = q],
         q.op = o, q.class = session[s].class, q.position = session[s].position,
         CallReturns(t) \/ CallErrs(t),
         UNCHANGED <<mode, coordinator, covered, nextPosition, observations, recording>>,
         overflowed' \in [Operations -> BOOLEAN], incomplete' \in [Operations -> BOOLEAN],
         \A p \in Operations : incomplete[p] => incomplete'[p],
         \/ consumed' = consumed
         \/ /\ Interaction(s) \in Recorded
            /\ consumed' = [consumed EXCEPT ![o] = @ \cup {Interaction(s)}],
         q.state = "capture" => mode[o] = "capture",
         q.state \in {"replay", "drained"} => Interaction(s) \in consumed'[o]
  PROVE  IInv'
<1> USE DEF contextVars, sessionVars, historyVars
<1>1. /\ TypeOK /\ thread[t].at = "admitted" /\ handle[s] = o /\ Live(o)
      /\ \A u \in Threads : u # t /\ Using(u) => thread[u].session # s
  BY CalledSession DEF IInv
<1>2. UNCHANGED <<contextVars, frames, sessionVars, historyVars>>
  BY DEF CallReturns, CallErrs
<1>3. PICK r \in ThreadRecords :
        /\ thread' = [thread EXCEPT ![t] = r] /\ r.at \in {"running", "failing"}
        /\ r.at = "failing" => r.session = s
  <2>1. CASE CallReturns(t)
    BY <2>1, ThreadRecord DEF CallReturns
  <2>2. CASE CallErrs(t)
    <3>1. thread' = [thread EXCEPT ![t] = Failing(s)]
      BY <2>2 DEF CallErrs
    <3>2. PICK r \in ThreadRecords : r = Failing(s) /\ r.at = "failing" /\ r.session = s
      BY ThreadRecord
    <3>3. thread' = [thread EXCEPT ![t] = r]
      BY <3>1, <3>2
    <3> QED BY <3>2, <3>3
  <2> QED BY <2>1, <2>2
<1>4. handle[s] # None /\ \A u \in Threads : Using(u) => handle[thread[u].session] # None
  BY <1>1, CoordinatorAssumption DEF IInv, GoodThread
<1>5. /\ thread' \in [Threads -> ThreadRecords] /\ thread'[t] = r
      /\ \A u \in Threads : u # t => thread'[u] = thread[u]
      /\ \A u \in Threads : GoodThread(u)'
      /\ OneUser'
  <2>1. handle' = handle /\ \A p \in Operations : invalid[p] => invalid'[p]
    BY <1>2
  <2>2. r.at \in {"admitted", "rejected", "failing"} =>
          /\ r.session \in Sessions /\ handle'[r.session] # None
          /\ \A u \in Threads : u # t /\ Using(u) => thread[u].session # r.session
    BY <1>1, <1>3, <1>4, <2>1
  <2>3. r.at # "lost" /\ \A u \in Threads : u # t /\ Using(u) => handle'[thread[u].session] # None
    BY <1>3, <1>4, <2>1
  <2> QED BY <1>3, <2>1, <2>2, <2>3, ThreadMoves
<1>6. /\ session' \in [Sessions -> SessionRecords] /\ session'[s] = q
      /\ \A z \in Sessions : z # s => session'[z] = session[z]
  BY <1>1 DEF TypeOK, SessionRecords
<1>7. /\ consumed' \in [Operations -> SUBSET Recorded]
      /\ \A p \in Operations : consumed[p] \subseteq consumed'[p]
      /\ \A p \in Operations : p # o => consumed'[p] = consumed[p]
      /\ \A x \in consumed'[o] : x \in consumed[o] \/ x = Interaction(s)
  <2>1. consumed \in [Operations -> SUBSET Recorded]
    BY <1>1 DEF TypeOK
  <2>2. CASE consumed' = consumed
    BY <2>1, <2>2
  <2>3. CASE Interaction(s) \in Recorded /\ consumed' = [consumed EXCEPT ![o] = @ \cup {Interaction(s)}]
    <3>1. PICK x \in Recorded : x = Interaction(s)
      BY <2>3
    <3>2. consumed' = [consumed EXCEPT ![o] = @ \cup {x}]
      BY <2>3, <3>1
    <3>3. \A p \in Operations : consumed'[p] = IF p = o THEN consumed[p] \cup {x} ELSE consumed[p]
      BY <2>1, <3>2
    <3> QED BY <2>1, <3>1, <3>2, <3>3
  <2> QED BY <2>2, <2>3
<1>8. TypeOK'
  BY <1>1, <1>2, <1>5, <1>6, <1>7 DEF TypeOK, ThreadRecords, SessionRecords
<1>9. \A z \in Sessions : /\ session'[z].op = session[z].op /\ session'[z].class = session[z].class
                          /\ session'[z].position = session[z].position
                          /\ Interaction(z)' = Interaction(z)
  BY <1>6 DEF Interaction
<1>10. Apart'
  BY <1>9 DEF IInv, Apart
<1>11. ASSUME NEW z \in Sessions PROVE GoodSession(z)'
  <2>1. GoodSession(z)
    BY DEF IInv
  <2>2. CASE z # s
    <3>1. FailureUnderWay(z) => FailureUnderWay(z)'
      BY <1>1, <1>5 DEF FailureUnderWay
    <3>2. session[z].op # None =>
            /\ mode'[session[z].op] = mode[session[z].op]
            /\ session[z].position < nextPosition'[session[z].op][session[z].class]
            /\ consumed[session[z].op] \subseteq consumed'[session[z].op]
            /\ \A i \in DOMAIN observations'[session[z].op] :
                 observations'[session[z].op][i].owned =>
                   <<observations'[session[z].op][i].class, observations'[session[z].op][i].position>>
                     # Interaction(z)
      <4>1. ASSUME session[z].op # None PROVE session[z].op \in Operations
        BY <1>1, <4>1 DEF TypeOK
      <4>2. UNCHANGED <<mode, nextPosition, observations>>
        OBVIOUS
      <4> QED BY <1>7, <2>1, <4>1, <4>2 DEF GoodSession
    <3> QED BY <1>2, <1>6, <2>1, <2>2, <3>1, <3>2, SessionKept
  <2>3. CASE z = s
    <3>1. /\ session'[s].op = o /\ handle'[s] = o /\ Live(o)' /\ s \in spent'
          /\ coordinator'[o] # "absent"
      BY <1>1, <1>2, <1>4, <1>6, <2>1, <2>3 DEF GoodSession, Live
    <3>2. /\ session'[s].position < nextPosition'[o][session'[s].class]
          /\ \A i \in DOMAIN observations'[o] : observations'[o][i].owned =>
               <<observations'[o][i].class, observations'[o][i].position>> # Interaction(s)'
      <4>1. /\ session[s].position < nextPosition[o][session[s].class]
            /\ \A i \in DOMAIN observations[o] : observations[o][i].owned =>
                 <<observations[o][i].class, observations[o][i].position>> # Interaction(s)
        BY <1>1, <1>4, <2>1, <2>3 DEF GoodSession
      <4>2. UNCHANGED <<nextPosition, observations>>
        OBVIOUS
      <4> QED BY <1>9, <4>1, <4>2
    <3>3. /\ session'[s].state = "capture" => mode'[o] = "capture"
          /\ session'[s].state = "drained" => Interaction(s)' \in consumed'[o]
          /\ session'[s].state = "replay" => Interaction(s)' \in consumed'[o]
      BY <1>6, <1>9
    <3> QED BY <2>3, <3>1, <3>2, <3>3, SessionOpen
  <2> QED BY <2>2, <2>3
<1>12. ASSUME NEW p \in Operations PROVE GoodOperation(p)'
  <2>1. GoodOperation(p)
    BY DEF IInv
  <2>2. CASE consumed'[p] = consumed[p]
    BY <1>2, <1>9, <2>1, <2>2, OperationKept
  <2>3. CASE consumed'[p] # consumed[p]
    <3>1. p = o
      BY <1>7, <2>3
    <3>2. Assigned(o)' = Assigned(o) /\ Committed(o)' = Committed(o)
      BY DEF Assigned, Committed
    <3>3. \A x : InSession(o, x) => InSession(o, x)'
      BY <1>9 DEF InSession
    <3>4. InSession(o, Interaction(s))'
      BY <1>6, <1>9 DEF InSession
    <3>5. Live(o)' /\ coordinator'[o] = "live"
      BY <1>1 DEF Live
    <3>6. mode'[o] = "capture" /\ ~incomplete'[o] =>
            \A x \in Assigned(o)' : x \in Committed(o)' \/ InSession(o, x)'
      BY <1>1, <2>1, <3>1, <3>2, <3>3 DEF GoodOperation
    <3>7. mode'[o] = "replay" /\ ~incomplete'[o] =>
            \A x \in consumed'[o] : x \in delivered'[o] \/ InSession(o, x)'
      <4>1. mode[o] = "replay" /\ ~incomplete[o] =>
              \A x \in consumed[o] : x \in delivered[o] \/ InSession(o, x)
        BY <1>1, <2>1, <3>1 DEF GoodOperation
      <4>2. delivered' = delivered /\ mode' = mode
        BY <1>2
      <4>3. incomplete[o] => incomplete'[o]
        OBVIOUS
      <4> SUFFICES ASSUME mode[o] = "replay", ~incomplete'[o], NEW x \in consumed'[o]
                   PROVE  x \in delivered[o] \/ InSession(o, x)'
        BY <4>2
      <4>4. CASE x \in consumed[o]
        <5>1. x \in delivered[o] \/ InSession(o, x)
          BY <4>1, <4>3, <4>4
        <5> QED BY <3>3, <5>1
      <4>5. CASE x = Interaction(s)
        BY <1>9, <3>4, <4>5
      <4> QED BY <1>7, <4>4, <4>5
    <3>8. outcome'[o] = "pending" /\ Numbered(o)'
      <4>1. outcome[o] = "pending" /\ Numbered(o)
        BY <1>1, <2>1, <3>1 DEF GoodOperation, Live
      <4>2. UNCHANGED <<outcome, nextPosition, observations>>
        BY <1>2
      <4> QED BY <4>1, <4>2 DEF Numbered
    <3>9. /\ o \in tainted' => invalid'[o]
          /\ \A c \in Classes : nextPosition'[o][c] <= opened'[o] + (IF c \in Internal THEN 1 ELSE 0)
          /\ delivered'[o] \subseteq Recorded
      BY <1>2, <2>1, <3>1 DEF GoodOperation
    <3> QED BY <3>1, <3>5, <3>6, <3>7, <3>8, <3>9 DEF GoodOperation
  <2> QED BY <2>2, <2>3
<1> QED BY <1>5, <1>8, <1>10, <1>11, <1>12 DEF IInv

(* Marking an operation incomplete. *)
LEMMA Marked ==
  ASSUME TypeOK, NEW o \in Operations, MarkIncomplete(o) \/ UNCHANGED incomplete
  PROVE  /\ incomplete' \in [Operations -> BOOLEAN]
         /\ \A p \in Operations : incomplete[p] => incomplete'[p]
         /\ \A p \in Operations : p # o => incomplete'[p] = incomplete[p]
         /\ MarkIncomplete(o) => incomplete'[o]
BY DEF TypeOK, MarkIncomplete

(* The calls that change only what their session holds. *)
LEMMA SessionSet ==
  ASSUME IInv, NEW t \in Threads, NEW call, Called(t, call), NEW s \in Sessions,
         s = thread[t].session, NEW o \in Operations, o = session[s].op,
         NEW state \in SessionStates, NEW request \in Requests, NEW response \in Responses,
         SetSession(s, state, request, response),
         CallReturns(t) \/ CallErrs(t),
         UNCHANGED <<mode, coordinator, covered, nextPosition, observations, recording>>,
         overflowed' \in [Operations -> BOOLEAN], MarkIncomplete(o) \/ UNCHANGED incomplete,
         \/ consumed' = consumed /\ state \in {session[s].state, "overflowed"}
         \/ consumed' = consumed /\ state = "capture" /\ mode[o] = "capture"
         \/ consumed' = consumed /\ state = "drained" /\ session[s].state \in {"replay", "drained"}
         \/ state = "replay" /\ CanTake(s) /\ Take(s)
  PROVE  IInv'
<1>1. TypeOK /\ GoodSession(s) /\ session[s] \in SessionRecords
  BY CalledSession DEF IInv
<1>2. /\ incomplete' \in [Operations -> BOOLEAN]
      /\ \A p \in Operations : incomplete[p] => incomplete'[p]
  BY <1>1, Marked
<1>3. PICK q \in SessionRecords :
        /\ session' = [session EXCEPT ![s] = q]
        /\ q.op = o /\ q.class = session[s].class /\ q.position = session[s].position
        /\ q.state = state
  <2>1. session[s].class \in Classes /\ session[s].position \in Nat
    BY <1>1 DEF SessionRecords
  <2>2. PICK q \in SessionRecords :
          /\ q = Session(o, session[s].class, state, request, response, session[s].position)
          /\ q.op = o /\ q.class = session[s].class /\ q.position = session[s].position
          /\ q.state = state
    BY <2>1, SessionRecord
  <2> QED BY <2>2 DEF SetSession
<1>4. o # None
  BY CoordinatorAssumption
<1>5. /\ session[s].state = "capture" => mode[o] = "capture"
      /\ session[s].state \in {"replay", "drained"} => Interaction(s) \in consumed[o]
  BY <1>1, <1>4 DEF GoodSession
<1>6. /\ \/ consumed' = consumed
         \/ /\ Interaction(s) \in Recorded
            /\ consumed' = [consumed EXCEPT ![o] = @ \cup {Interaction(s)}]
      /\ q.state = "capture" => mode[o] = "capture"
      /\ q.state \in {"replay", "drained"} => Interaction(s) \in consumed'[o]
  <2>1. CASE ~(state = "replay" /\ CanTake(s) /\ Take(s))
    <3>1. /\ consumed' = consumed
          /\ \/ state \in {session[s].state, "overflowed"}
             \/ state = "capture" /\ mode[o] = "capture"
             \/ state = "drained" /\ session[s].state \in {"replay", "drained"}
      BY <2>1
    <3> QED BY <1>3, <1>5, <3>1
  <2>2. CASE state = "replay" /\ CanTake(s) /\ Take(s)
    <3>1. /\ Interaction(s) \in Recorded
          /\ consumed' = [consumed EXCEPT ![o] = @ \cup {Interaction(s)}]
      BY <2>2 DEF CanTake, Take
    <3>2. consumed \in [Operations -> SUBSET Recorded]
      BY <1>1 DEF TypeOK
    <3>3. Interaction(s) \in consumed'[o]
      BY <3>1, <3>2
    <3> QED BY <1>3, <2>2, <3>1, <3>3
  <2> QED BY <2>1, <2>2
<1> QED BY <1>2, <1>3, <1>6, SessionStep

(* write_observation. *)
LEMMA WriteStep ==
  ASSUME IInv, NEW t \in Threads, Write(t)
  PROVE  IInv'
<1>1. PICK stream \in {"request", "response"} :
        /\ Called(t, stream)
        /\ \/ WriteOk(thread[t].session, stream) /\ CallReturns(t)
           \/ WriteFails(thread[t].session, stream) /\ CallErrs(t)
  BY DEF Write
<1>2. PICK s \in Sessions : s = thread[t].session
  BY <1>1, CalledSession
<1>3. PICK o \in Operations : o = session[s].op
  BY <1>1, <1>2, CalledSession
<1>4. TypeOK /\ session[s] \in SessionRecords
  BY <1>1, <1>2, CalledSession DEF IInv
<1>5. /\ session[s].state \in SessionStates /\ session[s].request \in Requests
      /\ session[s].response \in Responses
      /\ overflowed \in [Operations -> BOOLEAN]
  BY <1>4 DEF SessionRecords, TypeOK
<1>6. /\ "broken" \in Requests /\ "broken" \in Responses /\ "overflowed" \in SessionStates
  BY DEF Requests, Responses, SessionStates
<1>7. CASE WriteOk(s, stream) /\ CallReturns(t)
  <2>1. PICK request \in Requests, response \in Responses :
          SetSession(s, session[s].state, request, response)
    BY <1>5, <1>7 DEF WriteOk
  <2>2. UNCHANGED <<mode, coordinator, incomplete, overflowed, covered, nextPosition, observations,
                    recording, consumed>>
    BY <1>7 DEF WriteOk
  <2> QED BY <1>1, <1>2, <1>3, <1>5, <1>7, <2>1, <2>2, SessionSet
<1>8. CASE WriteFails(s, stream) /\ CallErrs(t)
  <2>1. CASE OverflowSession(s)
    <3>1. /\ SetSession(s, "overflowed", session[s].request, session[s].response)
          /\ MarkIncomplete(o) /\ overflowed' \in [Operations -> BOOLEAN]
          /\ UNCHANGED <<mode, coordinator, covered, nextPosition, observations, recording, consumed>>
      BY <1>3, <1>5, <2>1 DEF OverflowSession
    <3> QED BY <1>1, <1>2, <1>3, <1>5, <1>6, <1>8, <3>1, SessionSet
  <2>2. CASE ~OverflowSession(s)
    <3>1. PICK request \in Requests, response \in Responses :
            SetSession(s, session[s].state, request, response)
      BY <1>5, <1>6, <1>8, <2>2 DEF WriteFails
    <3>2. /\ MarkIncomplete(o)
          /\ UNCHANGED <<mode, coordinator, overflowed, covered, nextPosition, observations, recording,
                         consumed>>
      BY <1>3, <1>8, <2>2 DEF WriteFails
    <3> QED BY <1>1, <1>2, <1>3, <1>5, <1>8, <3>1, <3>2, SessionSet
  <2> QED BY <2>1, <2>2
<1> QED BY <1>1, <1>2, <1>7, <1>8

(* A taken response whose session does not get it. *)
LEMMA ResponseLostStep ==
  ASSUME IInv, NEW t \in Threads, NEW call, Called(t, call), CallErrs(t),
         DispatchReplayFails(thread[t].session)
  PROVE  IInv'
<1>1. PICK s \in Sessions : s = thread[t].session
  BY CalledSession
<1>2. PICK o \in Operations : o = session[s].op
  BY <1>1, CalledSession
<1>3. TypeOK /\ GoodSession(s)
  BY DEF IInv
<1>4. PICK q \in SessionRecords : q = session[s]
  BY <1>1, CalledSession
<1>5. session \in [Sessions -> SessionRecords] /\ consumed \in [Operations -> SUBSET Recorded]
      /\ overflowed \in [Operations -> BOOLEAN]
  BY <1>3 DEF TypeOK, SessionRecords
<1>6. /\ CanTake(s) /\ Take(s) /\ session[s].state = "request"
      /\ MarkIncomplete(o) \/ UNCHANGED incomplete
      /\ UNCHANGED <<mode, coordinator, overflowed, covered, nextPosition, observations, recording,
                     session>>
  BY <1>1, <1>2 DEF DispatchReplayFails, Dispatchable
<1>7. session' = [session EXCEPT ![s] = q] /\ q.state = "request"
  BY <1>4, <1>5, <1>6
<1>8. Interaction(s) \in Recorded /\ consumed' = [consumed EXCEPT ![o] = @ \cup {Interaction(s)}]
  BY <1>2, <1>6 DEF CanTake, Take
<1>9. /\ incomplete' \in [Operations -> BOOLEAN]
      /\ \A p \in Operations : incomplete[p] => incomplete'[p]
  BY <1>3, <1>6, Marked
<1> QED BY <1>1, <1>2, <1>4, <1>5, <1>6, <1>7, <1>8, <1>9, SessionStep

(* dispatch_observation, read_observation_response. *)
LEMMA DispatchReadStep ==
  ASSUME IInv, NEW t \in Threads, Dispatch(t) \/ Read(t)
  PROVE  IInv'
<1>1. PICK call : Called(t, call)
  BY DEF Dispatch, Read
<1>2. PICK s \in Sessions : s = thread[t].session
  BY <1>1, CalledSession
<1>3. PICK o \in Operations : o = session[s].op
  BY <1>1, <1>2, CalledSession
<1>4. /\ session[s].state \in SessionStates /\ session[s].request \in Requests
      /\ session[s].response \in Responses
      /\ overflowed \in [Operations -> BOOLEAN]
  <2>1. TypeOK /\ session[s] \in SessionRecords
    BY <1>1, <1>2, CalledSession DEF IInv
  <2> QED BY <2>1 DEF SessionRecords, TypeOK
<1>5. /\ {"capture", "replay", "drained", "overflowed"} \subseteq SessionStates
      /\ Outcomes \subseteq Responses
  BY DEF SessionStates, Responses
<1>6. CASE DispatchCapture(s) /\ CallReturns(t)
  <2>1. /\ SetSession(s, "capture", session[s].request, session[s].response) /\ mode[o] = "capture"
        /\ UNCHANGED <<mode, coordinator, incomplete, overflowed, covered, nextPosition, observations,
                       recording, consumed>>
    BY <1>3, <1>6 DEF DispatchCapture
  <2> QED BY <1>1, <1>2, <1>3, <1>4, <1>5, <1>6, <2>1, SessionSet
<1>7. CASE DispatchReplay(s) /\ CallReturns(t)
  <2>1. PICK response \in Responses : SetSession(s, "replay", session[s].request, response)
    BY <1>5, <1>7 DEF DispatchReplay
  <2>2. /\ CanTake(s) /\ Take(s)
        /\ UNCHANGED <<mode, coordinator, incomplete, overflowed, covered, nextPosition, observations,
                       recording>>
    BY <1>7 DEF DispatchReplay
  <2> QED BY <1>1, <1>2, <1>3, <1>4, <1>5, <1>7, <2>1, <2>2, SessionSet
<1>8. CASE DispatchMisplaced(s) /\ CallErrs(t)
  <2>1. /\ SetSession(s, "overflowed", session[s].request, session[s].response) /\ MarkIncomplete(o)
        /\ UNCHANGED <<mode, coordinator, overflowed, covered, nextPosition, observations, recording,
                       consumed>>
    BY <1>3, <1>8 DEF DispatchMisplaced
  <2> QED BY <1>1, <1>2, <1>3, <1>4, <1>5, <1>8, <2>1, SessionSet
<1>9. CASE DispatchReplayFails(s) /\ CallErrs(t)
  BY <1>1, <1>2, <1>9, ResponseLostStep
<1>10. CASE ReadOk(s) /\ CallReturns(t)
  <2>1. PICK state \in {session[s].state, "drained"} :
          SetSession(s, state, session[s].request, session[s].response)
    BY <1>10 DEF ReadOk
  <2>2. /\ session[s].state \in {"replay", "drained"}
        /\ UNCHANGED <<mode, coordinator, incomplete, overflowed, covered, nextPosition, observations,
                       recording, consumed>>
    BY <1>10 DEF ReadOk
  <2>3. state \in SessionStates /\ (state = session[s].state \/ state = "drained")
    BY <1>4, <1>5
  <2> QED BY <1>1, <1>2, <1>3, <1>4, <1>10, <2>1, <2>2, <2>3, SessionSet
<1>11. CASE UNCHANGED coordinatorVars /\ CallErrs(t)
  <2>1. CallErrsAlone(t)
    BY <1>1, <1>11 DEF CallErrsAlone, Called
  <2> QED BY <2>1, AdmissionStep
<1>12. \/ DispatchCapture(s) /\ CallReturns(t)
       \/ DispatchReplay(s) /\ CallReturns(t)
       \/ DispatchMisplaced(s) /\ CallErrs(t)
       \/ DispatchReplayFails(s) /\ CallErrs(t)
       \/ ReadOk(s) /\ CallReturns(t)
       \/ UNCHANGED coordinatorVars /\ CallErrs(t)
  BY <1>2 DEF Dispatch, Read, DispatchFails, ReadFails
<1> QED BY <1>6, <1>7, <1>8, <1>9, <1>10, <1>11, <1>12

-----------------------------------------------------------------------------
(***************************************************************************)
(* A session goes.                                                         *)
(***************************************************************************)
(* The thread that uses a session takes it away from the coordinator, and     *)
(* drops it or is about to fail it.                                           *)
LEMMA SessionGone ==
  ASSUME IInv, NEW t \in Threads, Using(t), NEW s \in Sessions, s = thread[t].session,
         NEW r \in ThreadRecords, thread' = [thread EXCEPT ![t] = r],
         \/ r.at = "running" /\ handle' = [handle EXCEPT ![s] = None]
         \/ r.at = "failing" /\ r.session = s /\ handle' = handle,
         NEW q \in SessionRecords, q.op = None, session' = [session EXCEPT ![s] = q],
         UNCHANGED <<mode, coordinator, overflowed, covered, nextPosition, consumed, registered, opened,
                     ending, outcome, frames, spent, tainted>>,
         incomplete' \in [Operations -> BOOLEAN], invalid' \in [Operations -> BOOLEAN],
         recording' \in [Operations -> BOOLEAN],
         observations' \in [Operations -> Seq(Observed)],
         delivered' \in [Operations -> SUBSET (Classes \X Nat)],
         \A p \in Operations : invalid[p] => invalid'[p],
         \A z \in Sessions : z # s /\ session[z].op # None =>
           \A i \in DOMAIN observations'[session[z].op] :
             observations'[session[z].op][i].owned =>
               <<observations'[session[z].op][i].class, observations'[session[z].op][i].position>>
                 # Interaction(z),
         \A p \in Operations : GoodOperation(p)'
  PROVE  IInv'
<1>1. TypeOK /\ handle[s] # None /\ handle \in [Sessions -> Operations \cup {None}]
      /\ session \in [Sessions -> SessionRecords]
  BY DEF IInv, GoodThread, TypeOK, SessionRecords
<1>2. \A u \in Threads : u # t /\ Using(u) => thread[u].session # s
  BY DEF IInv, OneUser
<1>3. /\ handle' \in [Sessions -> Operations \cup {None}]
      /\ \A z \in Sessions : z # s => handle'[z] = handle[z]
      /\ handle'[s] = None \/ (r.at = "failing" /\ r.session = s /\ handle'[s] = handle[s])
  BY <1>1
<1>4. /\ thread' \in [Threads -> ThreadRecords] /\ thread'[t] = r
      /\ \A u \in Threads : u # t => thread'[u] = thread[u]
      /\ \A u \in Threads : GoodThread(u)'
      /\ OneUser'
  <2>1. r.at \in {"admitted", "rejected", "failing"} =>
          /\ r.session \in Sessions /\ handle'[r.session] # None
          /\ \A u \in Threads : u # t /\ Using(u) => thread[u].session # r.session
    BY <1>1, <1>2
  <2>2. r.at # "lost"
    OBVIOUS
  <2>3. \A u \in Threads : u # t /\ Using(u) => handle'[thread[u].session] # None
    <3>1. \A u \in Threads : Using(u) =>
            thread[u].session \in Sessions /\ handle[thread[u].session] # None
      BY DEF IInv, GoodThread
    <3> QED BY <1>2, <1>3, <3>1
  <2> QED BY <2>1, <2>2, <2>3, ThreadMoves
<1>5. /\ session' \in [Sessions -> SessionRecords] /\ session'[s].op = None
      /\ \A z \in Sessions : z # s => session'[z] = session[z]
  BY <1>1
<1>6. TypeOK'
  BY <1>1, <1>3, <1>4, <1>5 DEF TypeOK, ThreadRecords, SessionRecords, Observed
<1>7. ASSUME NEW z \in Sessions PROVE GoodSession(z)'
  <2>1. GoodSession(z)
    BY DEF IInv
  <2>2. CASE z # s
    <3>1. FailureUnderWay(z) => FailureUnderWay(z)'
      BY <1>4, <2>2 DEF FailureUnderWay
    <3>2. session[z].op # None =>
            session[z].position < nextPosition'[session[z].op][session[z].class]
      BY <2>1 DEF GoodSession
    <3> QED BY <1>3, <1>5, <2>1, <2>2, <3>1, <3>2, SessionKept
  <2>3. CASE z = s
    <3>1. r.at = "failing" /\ r.session = s => FailureUnderWay(s)'
      BY <1>4 DEF FailureUnderWay
    <3>2. s \in spent' /\ coordinator'[handle[s]] # "absent"
      BY <1>1, <2>1, <2>3 DEF GoodSession
    <3> QED BY <1>3, <1>5, <2>3, <3>1, <3>2 DEF GoodSession
  <2> QED BY <2>2, <2>3
<1>8. Apart'
  <2> SUFFICES ASSUME NEW y \in Sessions, NEW z \in Sessions, session'[z].op # None,
                      session'[y].op = session'[z].op, Interaction(y)' = Interaction(z)'
               PROVE  y = z
    BY DEF Apart
  <2>1. session'[y] = session[y] /\ session'[z] = session[z]
    BY <1>5
  <2> QED BY <2>1 DEF IInv, Apart, Interaction
<1> QED BY <1>4, <1>6, <1>7, <1>8 DEF IInv

(* Such a session's interaction is lost, and its operation incomplete.        *)
LEMMA SessionLost ==
  ASSUME IInv, NEW t \in Threads, Using(t), NEW s \in Sessions, s = thread[t].session,
         NEW r \in ThreadRecords, thread' = [thread EXCEPT ![t] = r],
         \/ r.at = "running" /\ handle' = [handle EXCEPT ![s] = None]
         \/ r.at = "failing" /\ r.session = s /\ handle' = handle,
         NEW q \in SessionRecords, q.op = None, session' = [session EXCEPT ![s] = q],
         UNCHANGED <<mode, coordinator, overflowed, covered, nextPosition, consumed, registered, opened,
                     ending, outcome, frames, spent, tainted, observations, delivered>>,
         incomplete' \in [Operations -> BOOLEAN], invalid' \in [Operations -> BOOLEAN],
         recording' \in [Operations -> BOOLEAN],
         \A p \in Operations : (incomplete[p] => incomplete'[p]) /\ (invalid[p] => invalid'[p]),
         \A p \in Operations : p = session[s].op => incomplete'[p]
  PROVE  IInv'
<1>1. /\ session \in [Sessions -> SessionRecords] /\ observations \in [Operations -> Seq(Observed)]
      /\ delivered \in [Operations -> SUBSET (Classes \X Nat)]
  BY DEF IInv, TypeOK, SessionRecords, Observed
<1>2. \A z \in Sessions : z # s => session'[z] = session[z]
  BY <1>1
<1>3. ASSUME NEW p \in Operations PROVE GoodOperation(p)'
  <2>1. GoodOperation(p)
    BY DEF IInv
  <2>2. \/ incomplete'[p]
        \/ \A z \in Sessions : session[z].op = p =>
             /\ session'[z].op = p /\ session'[z].class = session[z].class
             /\ session'[z].position = session[z].position
    BY <1>2
  <2> QED BY <2>1, <2>2, OperationKept
<1>4. \A z \in Sessions : z # s /\ session[z].op # None =>
        \A i \in DOMAIN observations'[session[z].op] :
          observations'[session[z].op][i].owned =>
            <<observations'[session[z].op][i].class, observations'[session[z].op][i].position>>
              # Interaction(z)
  <2>1. \A z \in Sessions : GoodSession(z)
    BY DEF IInv
  <2> QED BY <2>1 DEF GoodSession
<1> QED BY <1>1, <1>3, <1>4, SessionGone

(* finish_observation fails, abandon_session, fail_session. *)
LEMMA SessionFailsStep ==
  ASSUME IInv, NEW t \in Threads,
         \/ /\ Called(t, "finish") /\ CallErrs(t)
            /\ \E result \in Outcomes :
                 FinishFails(thread[t].session, result, session[thread[t].session].position)
         \/ Abandon(t)
         \/ FailSession(t)
  PROVE  IInv'
<1> USE DEF contextVars, historyVars, sessionVars
<1>1. /\ TypeOK /\ session \in [Sessions -> SessionRecords]
      /\ incomplete \in [Operations -> BOOLEAN] /\ invalid \in [Operations -> BOOLEAN]
      /\ recording \in [Operations -> BOOLEAN]
  BY DEF IInv, TypeOK, SessionRecords
<1>2. Using(t)
  BY DEF Using, Abandon, FailSession, Called
<1>3. PICK s \in Sessions : s = thread[t].session
  BY <1>2 DEF IInv, GoodThread
<1>4. PICK empty \in SessionRecords : empty = NoSession /\ empty.op = None
  BY NoSessionRecord
<1>5. PICK kept \in SessionRecords : kept = session[s]
  BY <1>1
<1>6. CASE /\ Called(t, "finish") /\ CallErrs(t)
           /\ \E result \in Outcomes :
                FinishFails(thread[t].session, result, session[thread[t].session].position)
  <2>1. PICK o \in Operations : o = session[s].op
    BY <1>3, <1>6, CalledSession
  <2>2. PICK r \in ThreadRecords : r = Failing(s) /\ r.at = "failing" /\ r.session = s
    BY ThreadRecord
  <2>3. /\ thread' = [thread EXCEPT ![t] = r] /\ handle' = handle
        /\ UNCHANGED <<invalid, registered, opened, ending, outcome, frames, spent, tainted, delivered>>
    BY <1>3, <1>6, <2>2 DEF CallErrs
  <2>4. PICK logLost \in BOOLEAN : Uncommitted(s, logLost)
    BY <1>3, <1>6 DEF FinishFails
  <2>5. /\ session' = [session EXCEPT ![s] = empty] /\ MarkIncomplete(o)
        /\ recording' \in [Operations -> BOOLEAN]
        /\ UNCHANGED <<mode, coordinator, overflowed, covered, nextPosition, observations, consumed>>
    BY <1>1, <1>4, <2>1, <2>4 DEF Uncommitted, RemoveSession
  <2>6. /\ incomplete' \in [Operations -> BOOLEAN] /\ incomplete'[o]
        /\ \A p \in Operations : incomplete[p] => incomplete'[p]
    BY <1>1, <2>5, Marked
  <2> QED BY <1>1, <1>2, <1>3, <1>4, <2>1, <2>2, <2>3, <2>5, <2>6, SessionLost
<1>7. CASE Abandon(t) \/ FailSession(t)
  <2>1. PICK r \in ThreadRecords : r = Running /\ r.at = "running"
    BY ThreadRecord
  <2>2. /\ thread' = [thread EXCEPT ![t] = r] /\ handle' = [handle EXCEPT ![s] = None]
        /\ invalid' = [invalid EXCEPT ![handle[s]] = TRUE]
        /\ UNCHANGED <<registered, opened, ending, outcome, frames, spent, tainted, delivered>>
    BY <1>3, <1>7, <2>1 DEF Abandon, FailSession, Finished
  <2>3. /\ invalid' \in [Operations -> BOOLEAN]
        /\ \A p \in Operations : invalid[p] => invalid'[p]
    BY <1>1, <2>2
  <2>4. CASE AbandonSession(s) /\ session[s].op # None
    <3>1. PICK o \in Operations : o = session[s].op
      BY <1>1, <1>3, <2>4 DEF SessionRecords
    <3>2. /\ session' = [session EXCEPT ![s] = empty] /\ MarkIncomplete(o)
          /\ UNCHANGED <<mode, coordinator, overflowed, covered, nextPosition, observations, recording,
                         consumed>>
      BY <1>4, <2>4, <3>1 DEF AbandonSession, RemoveSession
    <3>3. /\ incomplete' \in [Operations -> BOOLEAN] /\ incomplete'[o]
          /\ \A p \in Operations : incomplete[p] => incomplete'[p]
      BY <1>1, <3>2, Marked
    <3> QED BY <1>1, <1>2, <1>3, <1>4, <2>1, <2>2, <2>3, <3>1, <3>2, <3>3, SessionLost
  <2>5. CASE session[s].op = None /\ UNCHANGED coordinatorVars
    <3>1. UNCHANGED <<mode, coordinator, incomplete, overflowed, covered, nextPosition, observations,
                      recording, consumed, session>>
      BY <2>5 DEF coordinatorVars
    <3>2. session' = [session EXCEPT ![s] = kept] /\ kept.op = None
      BY <1>1, <1>5, <2>5, <3>1
    <3>3. \A p \in Operations : p # session[s].op
      BY <2>5, CoordinatorAssumption
    <3> QED BY <1>1, <1>2, <1>3, <2>1, <2>2, <2>3, <3>1, <3>2, <3>3, SessionLost
  <2>6. Abandon(t) => AbandonSession(s) /\ session[s].op # None
    <3>1. ASSUME Abandon(t) PROVE AbandonSession(s) /\ Called(t, "abandon")
      BY <1>3, <3>1 DEF Abandon
    <3>2. ASSUME Abandon(t) PROVE session[s].op \in Operations
      BY <1>3, <3>1, <3>2, CalledSession
    <3> QED BY <3>1, <3>2, CoordinatorAssumption
  <2>7. FailSession(t) => \/ AbandonSession(s) /\ session[s].op # None
                          \/ session[s].op = None /\ UNCHANGED coordinatorVars
    BY <1>3 DEF FailSession
  <2> QED BY <1>7, <2>4, <2>5, <2>6, <2>7
<1> QED BY <1>6, <1>7

(* An observation, as a record. *)
LEMMA ObservationRecord ==
  ASSUME NEW c \in Classes, NEW position \in Nat, NEW owned \in BOOLEAN
  PROVE  LET e == Observation(c, position, owned)
         IN  e \in Observed /\ e.class = c /\ e.position = position /\ e.owned = owned
BY DEF Observation, Observed

(* commit_session: the evidence of the interaction takes the session's place. *)
LEMMA CommitStep ==
  ASSUME IInv, NEW t \in Threads, Called(t, "finish"), NEW s \in Sessions, s = thread[t].session,
         Commit(s), Finished(s), thread' = [thread EXCEPT ![t] = Running],
         UNCHANGED <<contextVars, frames, spent, tainted, delivered>>
  PROVE  IInv'
<1> USE DEF contextVars
<1>1. PICK o \in Operations : o = session[s].op /\ Live(o)
  BY CalledSession
<1>2. /\ TypeOK /\ GoodSession(s) /\ Using(t) /\ session[s] \in SessionRecords /\ o # None
      /\ session \in [Sessions -> SessionRecords] /\ observations \in [Operations -> Seq(Observed)]
  BY CalledSession, CoordinatorAssumption DEF IInv, TypeOK, SessionRecords, Observed, Called, Using
<1>3. PICK e \in Observed :
        /\ e = Observation(session[s].class, session[s].position, TRUE)
        /\ e.class = session[s].class /\ e.position = session[s].position /\ e.owned
  <2>1. session[s].class \in Classes /\ session[s].position \in Nat
    BY <1>2 DEF SessionRecords
  <2> QED BY <2>1, ObservationRecord
<1>4. /\ mode[o] = "capture" /\ observations' = [observations EXCEPT ![o] = Append(observations[o], e)]
      /\ session' = [session EXCEPT ![s] = NoSession]
      /\ UNCHANGED <<mode, coordinator, incomplete, overflowed, covered, nextPosition, recording,
                     consumed>>
  BY <1>1, <1>3 DEF Commit, Committable, RemoveSession
<1>5. /\ observations[o] \in Seq(Observed) /\ observations' \in [Operations -> Seq(Observed)]
      /\ observations'[o] = Append(observations[o], e)
      /\ \A p \in Operations : p # o => observations'[p] = observations[p]
  BY <1>2, <1>4
<1>6. /\ Len(observations[o]) \in Nat
      /\ DOMAIN observations[o] = 1 .. Len(observations[o])
      /\ DOMAIN observations'[o] = 1 .. Len(observations[o]) + 1
      /\ \A i \in 1 .. Len(observations[o]) : observations'[o][i] = observations[o][i]
      /\ observations'[o][Len(observations[o]) + 1] = e
  BY <1>5
<1>7. \A i \in DOMAIN observations'[o] :
        \/ i \in DOMAIN observations[o] /\ observations'[o][i] = observations[o][i]
        \/ i = Len(observations[o]) + 1 /\ i \notin DOMAIN observations[o] /\ observations'[o][i] = e
  BY <1>6
<1>8. \A i \in DOMAIN observations[o] : observations[o][i].owned =>
        <<observations[o][i].class, observations[o][i].position>> # Interaction(s)
  BY <1>1, <1>2 DEF GoodSession
<1>9. <<e.class, e.position>> = Interaction(s)
  BY <1>3 DEF Interaction
<1>10. \A z \in Sessions : z # s => session'[z] = session[z]
  BY <1>2, <1>4
<1>11. ASSUME NEW z \in Sessions, z # s, session[z].op # None,
              NEW i \in DOMAIN observations'[session[z].op], observations'[session[z].op][i].owned
       PROVE  <<observations'[session[z].op][i].class, observations'[session[z].op][i].position>>
                # Interaction(z)
  <2>1. GoodSession(z)
    BY DEF IInv
  <2>2. session[z].op \in Operations
    BY <1>2, <1>11 DEF SessionRecords
  <2>3. CASE session[z].op # o
    BY <1>5, <1>11, <2>1, <2>2, <2>3 DEF GoodSession
  <2>4. CASE session[z].op = o
    <3>1. Interaction(z) # Interaction(s)
      BY <1>1, <1>2, <1>11, <2>4 DEF IInv, Apart
    <3>2. \A j \in DOMAIN observations[o] : observations[o][j].owned =>
            <<observations[o][j].class, observations[o][j].position>> # Interaction(z)
      BY <1>2, <2>1, <2>4 DEF GoodSession
    <3> QED BY <1>7, <1>9, <1>11, <2>4, <3>1, <3>2
  <2> QED BY <2>3, <2>4
<1>12. ASSUME NEW p \in Operations, p # o PROVE GoodOperation(p)'
  <2>1. GoodOperation(p)
    BY DEF IInv
  <2>2. \A z \in Sessions : session[z].op = p =>
          /\ session'[z].op = p /\ session'[z].class = session[z].class
          /\ session'[z].position = session[z].position
    BY <1>1, <1>10, <1>12
  <2> QED BY <1>4, <1>5, <1>12, <2>1, <2>2, OperationKept
<1>13. Numbered(o)'
  <2>1. Numbered(o) /\ nextPosition'[o] = nextPosition[o]
    BY <1>4 DEF IInv, GoodOperation
  <2>2. ASSUME NEW i \in DOMAIN observations'[o], observations'[o][i].owned
        PROVE  observations'[o][i].position < nextPosition'[o][observations'[o][i].class]
    <3>1. e.position < nextPosition[o][e.class]
      BY <1>1, <1>2, <1>3 DEF GoodSession
    <3> QED BY <1>7, <2>1, <2>2, <3>1 DEF Numbered
  <2>3. ASSUME NEW i \in DOMAIN observations'[o], NEW j \in DOMAIN observations'[o],
               observations'[o][i].owned, observations'[o][j].owned,
               observations'[o][i].class = observations'[o][j].class,
               observations'[o][i].position = observations'[o][j].position
        PROVE  i = j
    <3>1. CASE i \in DOMAIN observations[o] /\ j \in DOMAIN observations[o]
      BY <1>7, <2>1, <2>3, <3>1 DEF Numbered
    <3>2. CASE i \notin DOMAIN observations[o] /\ j \in DOMAIN observations[o]
      BY <1>7, <1>8, <1>9, <2>3, <3>2
    <3>3. CASE i \in DOMAIN observations[o] /\ j \notin DOMAIN observations[o]
      BY <1>7, <1>8, <1>9, <2>3, <3>3
    <3>4. CASE i \notin DOMAIN observations[o] /\ j \notin DOMAIN observations[o]
      BY <1>7, <3>4
    <3> QED BY <3>1, <3>2, <3>3, <3>4
  <2> QED BY <2>2, <2>3 DEF Numbered
<1>14. ASSUME Live(o)', mode'[o] = "capture", ~incomplete'[o], NEW x \in Assigned(o)'
       PROVE  x \in Committed(o)' \/ InSession(o, x)'
  <2>1. Assigned(o)' = Assigned(o)
    BY <1>4 DEF Assigned
  <2>2. x \in Committed(o) \/ InSession(o, x)
    BY <1>1, <1>4, <1>14, <2>1 DEF IInv, GoodOperation
  <2>3. Committed(o) \subseteq Committed(o)'
    BY <1>6 DEF Committed
  <2>4. Interaction(s) \in Committed(o)'
    <3>1. Len(observations[o]) + 1 \in DOMAIN observations'[o]
      BY <1>6
    <3> QED BY <1>3, <1>6, <1>9, <3>1 DEF Committed
  <2>5. InSession(o, x) => InSession(o, x)' \/ x = Interaction(s)
    BY <1>10 DEF InSession, Interaction
  <2> QED BY <2>2, <2>3, <2>4, <2>5
<1>15. GoodOperation(o)'
  <2>1. GoodOperation(o) /\ coordinator'[o] = "live"
    BY <1>1, <1>4 DEF IInv, Live
  <2>2. outcome'[o] = "pending"
    BY <1>1, <2>1 DEF GoodOperation, Live
  <2>3. /\ o \in tainted' => invalid'[o]
        /\ \A c \in Classes : nextPosition'[o][c] <= opened'[o] + (IF c \in Internal THEN 1 ELSE 0)
        /\ delivered'[o] \subseteq Recorded
    BY <1>4, <2>1 DEF GoodOperation
  <2>4. mode'[o] # "replay"
    BY <1>4
  <2> QED BY <1>13, <1>14, <2>1, <2>2, <2>3, <2>4 DEF GoodOperation
<1>16. PICK r \in ThreadRecords : r = Running /\ r.at = "running"
  BY ThreadRecord
<1>17. PICK q \in SessionRecords : q = NoSession /\ q.op = None
  BY NoSessionRecord
<1>18. /\ handle' = [handle EXCEPT ![s] = None] /\ thread' = [thread EXCEPT ![t] = r]
       /\ session' = [session EXCEPT ![s] = q]
       /\ UNCHANGED <<invalid, registered, opened, ending, outcome, frames, spent, tainted>>
  BY <1>4, <1>16, <1>17 DEF Finished
<1>19. /\ incomplete' \in [Operations -> BOOLEAN] /\ invalid' \in [Operations -> BOOLEAN]
       /\ recording' \in [Operations -> BOOLEAN]
       /\ delivered' \in [Operations -> SUBSET (Classes \X Nat)]
  BY <1>2, <1>4 DEF TypeOK
<1>20. \A p \in Operations : GoodOperation(p)'
  BY <1>12, <1>15
<1>21. \A z \in Sessions : z # s /\ session[z].op # None =>
         \A i \in DOMAIN observations'[session[z].op] :
           observations'[session[z].op][i].owned =>
             <<observations'[session[z].op][i].class, observations'[session[z].op][i].position>>
               # Interaction(z)
  BY <1>11
<1>22. \A p \in Operations : invalid[p] => invalid'[p]
  BY <1>18
<1>23. UNCHANGED <<mode, coordinator, overflowed, covered, nextPosition, consumed, registered, opened,
                   ending, outcome, frames, spent, tainted>>
  BY <1>4, <1>18
<1>24. /\ r.at = "running" /\ handle' = [handle EXCEPT ![s] = None]
       /\ thread' = [thread EXCEPT ![t] = r]
       /\ q.op = None /\ session' = [session EXCEPT ![s] = q]
       /\ Using(t) /\ observations' \in [Operations -> Seq(Observed)]
  BY <1>2, <1>5, <1>16, <1>17, <1>18
<1> HIDE DEF contextVars
<1> QED BY <1>19, <1>20, <1>21, <1>22, <1>23, <1>24, SessionGone

(* A session is finished and its value gone. *)
LEMMA SessionDone ==
  ASSUME IInv, NEW t \in Threads, Using(t), NEW s \in Sessions, s = thread[t].session,
         thread' = [thread EXCEPT ![t] = Running], Finished(s), RemoveSession(s),
         UNCHANGED <<mode, coordinator, overflowed, covered, nextPosition, consumed, registered, opened,
                     ending, outcome, frames, spent, tainted>>,
         incomplete' \in [Operations -> BOOLEAN], invalid' \in [Operations -> BOOLEAN],
         recording' \in [Operations -> BOOLEAN],
         observations' \in [Operations -> Seq(Observed)],
         delivered' \in [Operations -> SUBSET (Classes \X Nat)],
         \A p \in Operations : invalid[p] => invalid'[p],
         \A z \in Sessions : z # s /\ session[z].op # None =>
           \A i \in DOMAIN observations'[session[z].op] :
             observations'[session[z].op][i].owned =>
               <<observations'[session[z].op][i].class, observations'[session[z].op][i].position>>
                 # Interaction(z),
         \A p \in Operations : GoodOperation(p)'
  PROVE  IInv'
<1>1. PICK r \in ThreadRecords : r = Running /\ r.at = "running"
  BY ThreadRecord
<1>2. PICK q \in SessionRecords : q = NoSession /\ q.op = None
  BY NoSessionRecord
<1>3. /\ r.at = "running" /\ handle' = [handle EXCEPT ![s] = None]
      /\ thread' = [thread EXCEPT ![t] = r]
      /\ q.op = None /\ session' = [session EXCEPT ![s] = q]
  BY <1>1, <1>2 DEF Finished, RemoveSession
<1> QED BY <1>3, SessionGone

(* The history notes a response that was read to its end. *)
Delivers(s) ==
  delivered' = [delivered EXCEPT ![handle[s]] =
                  IF session[s].state = "drained" THEN @ \cup {Interaction(s)} ELSE @]

(* finish_observation of a replay: the response was read to its end. *)
LEMMA ReplayedStep ==
  ASSUME IInv, NEW t \in Threads, Called(t, "finish"), NEW s \in Sessions, s = thread[t].session,
         NEW result, NEW position, FinishReplay(s, result, position), Finished(s),
         thread' = [thread EXCEPT ![t] = Running], Delivers(s),
         UNCHANGED <<contextVars, frames, spent, tainted>>
  PROVE  IInv'
<1> USE DEF contextVars
<1>1. PICK o \in Operations : o = session[s].op /\ handle[s] = o /\ Live(o)
  BY CalledSession
<1>2. /\ TypeOK /\ GoodSession(s) /\ Using(t) /\ session[s] \in SessionRecords /\ o # None
      /\ session \in [Sessions -> SessionRecords]
      /\ delivered \in [Operations -> SUBSET (Classes \X Nat)]
      /\ consumed[o] \subseteq Recorded
  BY CalledSession, CoordinatorAssumption DEF IInv, TypeOK, SessionRecords, Called, Using
<1>3. /\ mode[o] = "replay" /\ session' = [session EXCEPT ![s] = NoSession]
      /\ session[s].state \in {"capture", "drained"}
      /\ UNCHANGED <<mode, coordinator, incomplete, overflowed, covered, nextPosition, observations,
                     recording, consumed>>
  BY <1>1 DEF FinishReplay, Finishable, ResponseComplete, RemoveSession
<1>4. session[s].state = "drained" /\ Interaction(s) \in consumed[o]
  BY <1>1, <1>2, <1>3 DEF GoodSession
<1>5. PICK x \in Recorded : x = Interaction(s)
  BY <1>2, <1>4
<1>6. delivered' = [delivered EXCEPT ![o] = @ \cup {x}]
  BY <1>1, <1>4, <1>5 DEF Delivers
<1>7. /\ x \in Classes \X Nat
      /\ delivered' \in [Operations -> SUBSET (Classes \X Nat)]
      /\ delivered'[o] = delivered[o] \cup {x}
      /\ \A p \in Operations : p # o => delivered'[p] = delivered[p]
  <2>1. x \in Classes \X Nat
    BY CoordinatorAssumption
  <2>2. delivered \in [Operations -> SUBSET (Classes \X Nat)]
    BY <1>2
  <2>3. \A p \in Operations : delivered'[p] = IF p = o THEN delivered[p] \cup {x} ELSE delivered[p]
    BY <1>6, <2>2
  <2>4. delivered' \in [Operations -> SUBSET (Classes \X Nat)]
    BY <1>6, <2>1, <2>2, <2>3
  <2> QED BY <2>1, <2>3, <2>4
<1>8. \A z \in Sessions : z # s => session'[z] = session[z]
  BY <1>2, <1>3
<1>9. ASSUME NEW p \in Operations, p # o PROVE GoodOperation(p)'
  <2>1. GoodOperation(p)
    BY DEF IInv
  <2>2. \A z \in Sessions : session[z].op = p =>
          /\ session'[z].op = p /\ session'[z].class = session[z].class
          /\ session'[z].position = session[z].position
    BY <1>1, <1>8, <1>9
  <2> QED BY <1>3, <1>7, <1>9, <2>1, <2>2, OperationKept
<1>10. GoodOperation(o)'
  <2>1. GoodOperation(o) /\ coordinator'[o] = "live" /\ Live(o) /\ delivered[o] \subseteq Recorded
    BY <1>1, <1>3 DEF IInv, Live, GoodOperation
  <2>2. outcome'[o] = "pending" /\ Numbered(o)'
    <3>1. outcome[o] = "pending" /\ Numbered(o)
      BY <2>1 DEF GoodOperation, Live
    <3>2. UNCHANGED <<outcome, nextPosition, observations>>
      BY <1>3
    <3> QED BY <3>1, <3>2 DEF Numbered
  <2>3. /\ o \in tainted' => invalid'[o]
        /\ \A c \in Classes : nextPosition'[o][c] <= opened'[o] + (IF c \in Internal THEN 1 ELSE 0)
        /\ delivered'[o] \subseteq Recorded
    <3>1. UNCHANGED <<tainted, invalid, nextPosition, opened>>
      BY <1>3
    <3> QED BY <1>7, <2>1, <3>1 DEF GoodOperation
  <2>4. ASSUME ~incomplete'[o], NEW y \in consumed'[o] PROVE y \in delivered'[o] \/ InSession(o, y)'
    <3>1. y \in delivered[o] \/ InSession(o, y)
      BY <1>3, <2>1, <2>4 DEF GoodOperation
    <3>2. InSession(o, y) => InSession(o, y)' \/ y = x
      BY <1>5, <1>8 DEF InSession, Interaction
    <3> QED BY <1>7, <3>1, <3>2
  <2>5. mode'[o] # "capture"
    BY <1>3
  <2> QED BY <2>1, <2>2, <2>3, <2>4, <2>5 DEF GoodOperation
<1>11. Using(t) /\ RemoveSession(s)
  BY <1>2, <1>3 DEF RemoveSession
<1>12. /\ incomplete' \in [Operations -> BOOLEAN] /\ invalid' \in [Operations -> BOOLEAN]
       /\ recording' \in [Operations -> BOOLEAN]
       /\ observations' \in [Operations -> Seq(Observed)]
       /\ delivered' \in [Operations -> SUBSET (Classes \X Nat)]
  BY <1>2, <1>3, <1>7 DEF TypeOK, Observed
<1>13. \A p \in Operations : GoodOperation(p)'
  BY <1>9, <1>10
<1>14. \A z \in Sessions : z # s /\ session[z].op # None =>
         \A i \in DOMAIN observations'[session[z].op] :
           observations'[session[z].op][i].owned =>
             <<observations'[session[z].op][i].class, observations'[session[z].op][i].position>>
               # Interaction(z)
  <2>1. \A z \in Sessions : GoodSession(z)
    BY DEF IInv
  <2> QED BY <1>3, <2>1 DEF GoodSession
<1>15. UNCHANGED <<mode, coordinator, overflowed, covered, nextPosition, consumed, registered, opened,
                   ending, outcome, frames, spent, tainted>>
  BY <1>3
<1>16. \A p \in Operations : invalid[p] => invalid'[p]
  OBVIOUS
<1> HIDE DEF contextVars
<1> QED BY <1>11, <1>12, <1>13, <1>14, <1>15, <1>16, SessionDone

(* finish. *)
LEMMA FinishStep ==
  ASSUME IInv, NEW t \in Threads, Finish(t)
  PROVE  IInv'
<1>1. Called(t, "finish")
  BY DEF Finish
<1>2. PICK s \in Sessions : s = thread[t].session
  BY <1>1, CalledSession
<1>3. PICK result \in Outcomes :
        \/ /\ FinishCommit(s, result, session[s].position) /\ UNCHANGED delivered /\ Finished(s)
           /\ thread' = [thread EXCEPT ![t] = Running]
           /\ UNCHANGED <<contextVars, frames, spent, tainted>>
        \/ /\ FinishReplay(s, result, session[s].position)
           /\ Delivers(s)
           /\ Finished(s)
           /\ thread' = [thread EXCEPT ![t] = Running]
           /\ UNCHANGED <<contextVars, frames, spent, tainted>>
        \/ FinishFails(s, result, session[s].position) /\ CallErrs(t)
  BY <1>2 DEF Finish, Delivers
<1>4. CASE /\ FinishCommit(s, result, session[s].position) /\ UNCHANGED delivered /\ Finished(s)
           /\ thread' = [thread EXCEPT ![t] = Running]
           /\ UNCHANGED <<contextVars, frames, spent, tainted>>
  BY <1>1, <1>2, <1>4, CommitStep DEF FinishCommit
<1>5. CASE /\ FinishReplay(s, result, session[s].position)
           /\ Delivers(s)
           /\ Finished(s)
           /\ thread' = [thread EXCEPT ![t] = Running]
           /\ UNCHANGED <<contextVars, frames, spent, tainted>>
  BY <1>1, <1>2, <1>5, ReplayedStep
<1>6. CASE FinishFails(s, result, session[s].position) /\ CallErrs(t)
  BY <1>1, <1>2, <1>6, SessionFailsStep
<1> QED BY <1>3, <1>4, <1>5, <1>6

-----------------------------------------------------------------------------
(***************************************************************************)
(* A session comes.                                                        *)
(***************************************************************************)
(* What has been given a position. *)
LEMMA AssignedIs ==
  ASSUME TypeOK, NEW o \in Operations
  PROVE  \A x : x \in Assigned(o) <=>
           \E c \in Classes, p \in Nat : x = <<c, p>> /\ p < nextPosition[o][c]
<1>1. \A c \in Classes : nextPosition[o][c] \in Nat
  BY DEF TypeOK
<1>2. \A c \in Classes : \A p : p \in 0 .. (nextPosition[o][c] - 1) <=> p \in Nat /\ p < nextPosition[o][c]
  BY <1>1
<1>3. \A x : x \in Assigned(o) <=>
        \E c \in Classes : x \in {c} \X (0 .. (nextPosition[o][c] - 1))
  BY DEF Assigned
<1> QED BY <1>2, <1>3

(* The fields of an observation. *)
LEMMA ObservedEntries ==
  ASSUME TypeOK, NEW o \in Operations
  PROVE  \A i \in DOMAIN observations[o] :
           observations[o][i].position \in Nat /\ observations[o][i].class \in Classes
<1>1. observations[o] \in Seq(Observed)
  BY DEF TypeOK, Observed
<1>2. \A i \in DOMAIN observations[o] : observations[o][i] \in Observed
  BY <1>1
<1> QED BY <1>2 DEF Observed

(* The count of an operation's sessions goes up and no session comes of it. *)
LEMMA OpenQuietStep ==
  ASSUME IInv, NEW t \in Threads, thread[t].at = "opening", thread' = [thread EXCEPT ![t] = Running],
         NEW o \in Operations, opened[o] < MaxAmbient, opened' = [opened EXCEPT ![o] = @ + 1],
         spent' \in SUBSET Sessions, spent \subseteq spent',
         UNCHANGED <<mode, coordinator, overflowed, covered, nextPosition, observations, recording,
                     consumed, session, invalid, registered, ending, outcome, frames, handle,
                     delivered, tainted>>,
         MarkIncomplete(o) \/ UNCHANGED incomplete
  PROVE  IInv'
<1>1. /\ TypeOK /\ opened \in [Operations -> 0 .. MaxAmbient]
      /\ nextPosition \in [Operations -> [Classes -> Nat]]
  BY DEF IInv, TypeOK
<1>2. PICK r \in ThreadRecords : r = Running /\ r.at = "running"
  BY ThreadRecord
<1>3. /\ thread' \in [Threads -> ThreadRecords] /\ thread'[t] = r
      /\ \A u \in Threads : u # t => thread'[u] = thread[u]
      /\ \A u \in Threads : GoodThread(u)'
      /\ OneUser'
  <2>1. \A u \in Threads : Using(u) => handle'[thread[u].session] # None
    BY DEF IInv, GoodThread
  <2>2. thread' = [thread EXCEPT ![t] = r] /\ \A p \in Operations : invalid[p] => invalid'[p]
    BY <1>2
  <2> QED BY <1>2, <2>1, <2>2, ThreadMoves
<1>4. /\ opened' \in [Operations -> 0 .. MaxAmbient]
      /\ \A p \in Operations : opened'[p] \in Nat /\ opened[p] \in Nat /\ opened[p] <= opened'[p]
  BY <1>1, ContextAssumption
<1>5. /\ incomplete' \in [Operations -> BOOLEAN]
      /\ \A p \in Operations : incomplete[p] => incomplete'[p]
  BY <1>1, Marked
<1>6. TypeOK'
  BY <1>1, <1>3, <1>4, <1>5 DEF TypeOK, ThreadRecords
<1>7. ASSUME NEW p \in Operations PROVE GoodOperation(p)'
  <2>1. GoodOperation(p)
    BY DEF IInv
  <2>2. \A c \in Classes : nextPosition[p][c] <= opened'[p] + (IF c \in Internal THEN 1 ELSE 0)
    <3>1. \A c \in Classes : /\ nextPosition[p][c] \in Nat
                             /\ nextPosition[p][c] <= opened[p] + (IF c \in Internal THEN 1 ELSE 0)
      BY <1>1, <2>1 DEF GoodOperation
    <3> QED BY <1>4, <3>1
  <2> QED BY <1>5, <2>1, <2>2, OperationKept
<1>8. ASSUME NEW s \in Sessions PROVE GoodSession(s)'
  <2>1. GoodSession(s)
    BY DEF IInv
  <2>2. FailureUnderWay(s) => FailureUnderWay(s)'
    BY <1>3 DEF FailureUnderWay
  <2>3. session[s].op # None =>
          /\ session[s].position < nextPosition'[session[s].op][session[s].class]
          /\ \A i \in DOMAIN observations'[session[s].op] :
                observations'[session[s].op][i].owned =>
                  <<observations'[session[s].op][i].class, observations'[session[s].op][i].position>>
                    # Interaction(s)
    BY <2>1 DEF GoodSession
  <2> QED BY <2>1, <2>2, <2>3, SessionKept
<1>9. Apart'
  BY DEF IInv, Apart, Interaction
<1> QED BY <1>3, <1>6, <1>7, <1>8, <1>9 DEF IInv

(* open_observation gives the session the next position of its class. *)
LEMMA OpenOkStep ==
  ASSUME IInv, NEW t \in Threads, thread[t].at = "opening", thread' = [thread EXCEPT ![t] = Running],
         NEW o \in Operations, Active(o), opened[o] < MaxAmbient,
         opened' = [opened EXCEPT ![o] = @ + 1],
         NEW s \in Sessions \ spent, NEW c \in Classes, OpenOk(o, s, c),
         spent' = spent \cup {s}, handle' = [handle EXCEPT ![s] = o],
         UNCHANGED <<invalid, registered, ending, outcome, frames, delivered, tainted>>
  PROVE  IInv'
<1>1. /\ TypeOK /\ opened \in [Operations -> 0 .. MaxAmbient]
      /\ nextPosition \in [Operations -> [Classes -> Nat]]
      /\ session \in [Sessions -> SessionRecords]
      /\ handle \in [Sessions -> Operations \cup {None}]
      /\ s \in Sessions /\ s \notin spent
      /\ Live(o) /\ o # None /\ spent \in SUBSET Sessions
  BY CoordinatorAssumption DEF IInv, TypeOK, SessionRecords, Active
<1>2. PICK n \in Nat : n = nextPosition[o][c]
  BY <1>1
<1>3. PICK q \in SessionRecords :
        /\ q = Session(o, c, "request", "empty", "empty", n)
        /\ q.op = o /\ q.class = c /\ q.state = "request" /\ q.position = n
  <2>1. "request" \in SessionStates /\ "empty" \in Requests /\ "empty" \in Responses
    BY DEF SessionStates, Requests, Responses
  <2> QED BY <1>2, <2>1, SessionRecord
<1>4. /\ session' = [session EXCEPT ![s] = q]
      /\ nextPosition' = [nextPosition EXCEPT ![o][c] = n + 1]
      /\ UNCHANGED <<mode, coordinator, incomplete, overflowed, covered, observations, recording,
                     consumed>>
  BY <1>2, <1>3 DEF OpenOk, AdvancePosition
<1>5. /\ nextPosition' \in [Operations -> [Classes -> Nat]]
      /\ nextPosition'[o][c] = n + 1
      /\ \A p \in Operations, d \in Classes :
           p # o \/ d # c => nextPosition'[p][d] = nextPosition[p][d]
      /\ \A p \in Operations : p # o => nextPosition'[p] = nextPosition[p]
  BY <1>1, <1>2, <1>4
<1>6. \A p \in Operations, d \in Classes :
        /\ nextPosition[p][d] \in Nat /\ nextPosition'[p][d] \in Nat
        /\ nextPosition[p][d] <= nextPosition'[p][d]
  BY <1>1, <1>2, <1>5
<1>7. /\ session' \in [Sessions -> SessionRecords] /\ session'[s] = q
      /\ handle' \in [Sessions -> Operations \cup {None}] /\ handle'[s] = o
      /\ \A z \in Sessions : z # s => session'[z] = session[z] /\ handle'[z] = handle[z]
  BY <1>1, <1>4
<1>8. handle[s] = None /\ session[s].op = None
  <2>1. GoodSession(s)
    BY <1>1 DEF IInv
  <2> QED BY <1>1, <2>1 DEF GoodSession
<1>9. Interaction(s)' = <<c, n>> /\ \A z \in Sessions : z # s => Interaction(z)' = Interaction(z)
  BY <1>3, <1>7 DEF Interaction
<1>10. /\ opened' \in [Operations -> 0 .. MaxAmbient]
       /\ \A p \in Operations : opened'[p] \in Nat /\ opened[p] \in Nat
       /\ opened'[o] = opened[o] + 1 /\ \A p \in Operations : p # o => opened'[p] = opened[p]
  BY <1>1, ContextAssumption
<1>11. PICK r \in ThreadRecords : r = Running /\ r.at = "running"
  BY ThreadRecord
<1>12. /\ thread' \in [Threads -> ThreadRecords] /\ thread'[t] = r
       /\ \A u \in Threads : u # t => thread'[u] = thread[u]
       /\ \A u \in Threads : GoodThread(u)'
       /\ OneUser'
  <2>1. \A u \in Threads : Using(u) => handle'[thread[u].session] # None
    BY <1>1, <1>7 DEF IInv, GoodThread
  <2>2. thread' = [thread EXCEPT ![t] = r] /\ \A p \in Operations : invalid[p] => invalid'[p]
    BY <1>11
  <2> QED BY <1>11, <2>1, <2>2, ThreadMoves
<1>13. TypeOK'
  <2>1. spent' \in SUBSET Sessions
    BY <1>1
  <2>2. UNCHANGED <<mode, coordinator, incomplete, overflowed, covered, observations, recording,
                    consumed, invalid, registered, ending, outcome, frames, delivered, tainted>>
    BY <1>4
  <2>3. /\ mode' \in [Operations -> {"capture", "replay"}]
        /\ coordinator' \in [Operations -> {"absent", "live", "taken"}]
        /\ incomplete' \in [Operations -> BOOLEAN]
        /\ overflowed' \in [Operations -> BOOLEAN]
        /\ covered' \in [Operations -> BOOLEAN]
        /\ observations' \in [Operations -> Seq(Observed)]
        /\ recording' \in [Operations -> BOOLEAN]
        /\ consumed' \in [Operations -> SUBSET Recorded]
    BY <1>1, <2>2 DEF TypeOK, Observed
  <2>4. /\ invalid' \in [Operations -> BOOLEAN]
        /\ registered' \in SUBSET Operations
        /\ ending' \in [Operations -> {"no", "covered", "unregistered", "deactivating", "taken"}]
        /\ outcome' \in [Operations -> {"pending", "captured", "replayed", "local"}]
        /\ frames' \in [Threads -> Seq(Frames)]
        /\ delivered' \in [Operations -> SUBSET (Classes \X Nat)]
        /\ tainted' \in SUBSET Operations
    BY <1>1, <2>2 DEF TypeOK, Frames
  <2> QED BY <1>5, <1>7, <1>10, <1>12, <2>1, <2>3, <2>4
          DEF TypeOK, ThreadRecords, SessionRecords, Observed, Frames
<1>14. Apart'
  <2> SUFFICES ASSUME NEW y \in Sessions, NEW z \in Sessions, session'[z].op # None,
                      session'[y].op = session'[z].op, Interaction(y)' = Interaction(z)'
               PROVE  y = z
    BY DEF Apart
  <2>1. CASE y # s /\ z # s
    BY <1>7, <1>9, <2>1 DEF IInv, Apart
  <2>2. ASSUME NEW w \in Sessions, w # s, session[w].op = o PROVE Interaction(w) # <<c, n>>
    <3>1. GoodSession(w) /\ session[w].class \in Classes
      BY <1>1 DEF IInv, SessionRecords
    <3>2. session[w].position < nextPosition[o][session[w].class]
      BY <1>1, <2>2, <3>1 DEF GoodSession
    <3>3. session[w].position \in Nat
      BY <1>1 DEF SessionRecords
    <3> QED BY <1>2, <3>2, <3>3 DEF Interaction
  <2>3. CASE y = s /\ z # s
    BY <1>3, <1>7, <1>9, <2>2, <2>3
  <2>4. CASE y # s /\ z = s
    BY <1>3, <1>7, <1>9, <2>2, <2>4
  <2> QED BY <2>1, <2>3, <2>4
<1>15. ASSUME NEW z \in Sessions PROVE GoodSession(z)'
  <2>1. CASE z # s
    <3>1. GoodSession(z)
      BY DEF IInv
    <3>2. FailureUnderWay(z) => FailureUnderWay(z)'
      BY <1>12 DEF FailureUnderWay
    <3>3. session[z].op # None =>
            /\ session[z].position < nextPosition'[session[z].op][session[z].class]
            /\ \A i \in DOMAIN observations'[session[z].op] :
                  observations'[session[z].op][i].owned =>
                    <<observations'[session[z].op][i].class, observations'[session[z].op][i].position>>
                      # Interaction(z)
      <4> SUFFICES ASSUME session[z].op # None
                   PROVE  /\ session[z].position < nextPosition'[session[z].op][session[z].class]
                          /\ \A i \in DOMAIN observations'[session[z].op] :
                               observations'[session[z].op][i].owned =>
                                 <<observations'[session[z].op][i].class,
                                   observations'[session[z].op][i].position>> # Interaction(z)
        OBVIOUS
      <4>1. /\ session[z].op \in Operations /\ session[z].class \in Classes
            /\ session[z].position \in Nat
        BY <1>1 DEF SessionRecords
      <4>2. session[z].position < nextPosition[session[z].op][session[z].class]
        BY <3>1 DEF GoodSession
      <4>3. session[z].position < nextPosition'[session[z].op][session[z].class]
        BY <1>6, <4>1, <4>2
      <4>4. observations' = observations
        BY <1>4
      <4> QED BY <3>1, <4>3, <4>4 DEF GoodSession
    <3>4. spent \subseteq spent' /\ UNCHANGED <<coordinator, mode, consumed>>
      BY <1>4
    <3> QED BY <1>7, <2>1, <3>1, <3>2, <3>3, <3>4, SessionKept
  <2>2. CASE z = s
    <3>1. Live(o)' /\ s \in spent'
      BY <1>1, <1>4 DEF Live
    <3>2. session'[s].position < nextPosition'[o][session'[s].class]
      BY <1>2, <1>3, <1>5, <1>7
    <3>3. \A i \in DOMAIN observations'[o] : observations'[o][i].owned =>
            <<observations'[o][i].class, observations'[o][i].position>> # Interaction(s)'
      <4>1. \A i \in DOMAIN observations[o] : observations[o][i].owned =>
              /\ observations[o][i].position < nextPosition[o][observations[o][i].class]
              /\ observations[o][i].position \in Nat
        BY ObservedEntries DEF IInv, GoodOperation, Numbered
      <4>2. observations' = observations
        BY <1>4
      <4> QED BY <1>2, <1>9, <4>1, <4>2
    <3> QED BY <1>1, <1>3, <1>7, <2>2, <3>1, <3>2, <3>3, SessionOpen
  <2> QED BY <2>1, <2>2
<1>16. ASSUME NEW p \in Operations, p # o PROVE GoodOperation(p)'
  <2>1. GoodOperation(p)
    BY DEF IInv
  <2>2. \A z \in Sessions : session[z].op = p =>
          /\ session'[z].op = p /\ session'[z].class = session[z].class
          /\ session'[z].position = session[z].position
    BY <1>7, <1>8, CoordinatorAssumption
  <2> QED BY <1>4, <1>5, <1>10, <1>16, <2>1, <2>2, OperationKept
<1>17. GoodOperation(o)'
  <2>1. GoodOperation(o) /\ Live(o) /\ coordinator'[o] = "live"
    BY <1>1, <1>4 DEF IInv, Live
  <2>2. outcome'[o] = "pending" /\ (o \in tainted' => invalid'[o]) /\ delivered'[o] \subseteq Recorded
    BY <2>1 DEF GoodOperation, Live
  <2>3. Numbered(o)'
    <3>1. Numbered(o) /\ observations' = observations
      BY <1>4, <2>1 DEF GoodOperation
    <3>2. ASSUME NEW i \in DOMAIN observations[o], observations[o][i].owned
          PROVE  observations[o][i].position < nextPosition'[o][observations[o][i].class]
      <4>1. observations[o][i].position \in Nat /\ observations[o][i].class \in Classes
        BY <1>1, ObservedEntries
      <4>2. observations[o][i].position < nextPosition[o][observations[o][i].class]
        BY <3>1, <3>2 DEF Numbered
      <4> QED BY <1>6, <4>1, <4>2
    <3> QED BY <3>1, <3>2 DEF Numbered
  <2>4. ASSUME NEW d \in Classes
        PROVE  nextPosition'[o][d] <= opened'[o] + (IF d \in Internal THEN 1 ELSE 0)
    <3>1. nextPosition[o][d] <= opened[o] + (IF d \in Internal THEN 1 ELSE 0)
      BY <2>1 DEF GoodOperation
    <3>2. nextPosition'[o][d] <= nextPosition[o][d] + 1
      BY <1>2, <1>5, <1>6
    <3> QED BY <1>6, <1>10, <3>1, <3>2
  <2>5. \A x : InSession(o, x) => InSession(o, x)'
    BY <1>1, <1>7, <1>8, <1>9 DEF InSession
  <2>6. InSession(o, <<c, n>>)'
    BY <1>1, <1>3, <1>7, <1>9 DEF InSession
  <2>7. ASSUME mode'[o] = "capture", ~incomplete'[o], NEW x \in Assigned(o)'
        PROVE  x \in Committed(o)' \/ InSession(o, x)'
    <3>1. PICK d \in Classes, k \in Nat : x = <<d, k>> /\ k < nextPosition'[o][d]
      <4>1. PICK d \in Classes : x \in {d} \X (0 .. (nextPosition'[o][d] - 1))
        BY <2>7 DEF Assigned
      <4>2. PICK k \in 0 .. (nextPosition'[o][d] - 1) : x = <<d, k>>
        BY <4>1
      <4>3. k \in Nat /\ k < nextPosition'[o][d]
        BY <1>6, <4>2
      <4> QED BY <4>2, <4>3
    <3>2. Committed(o)' = Committed(o)
      BY <1>4 DEF Committed
    <3>3. CASE k < nextPosition[o][d]
      <4>1. x \in Assigned(o)
        BY <1>1, <3>1, <3>3, AssignedIs
      <4>2. x \in Committed(o) \/ InSession(o, x)
        BY <1>4, <2>1, <2>7, <4>1 DEF GoodOperation
      <4> QED BY <2>5, <3>2, <4>2
    <3>4. CASE ~(k < nextPosition[o][d])
      <4>1. d = c /\ k = n
        <5>1. d = c
          BY <1>5, <3>1, <3>4
        <5>2. k < n + 1 /\ ~(k < n)
          BY <1>2, <1>5, <3>1, <3>4, <5>1
        <5> QED BY <5>1, <5>2
      <4> QED BY <2>6, <3>1, <4>1
    <3> QED BY <3>3, <3>4
  <2>8. ASSUME mode'[o] = "replay", ~incomplete'[o], NEW x \in consumed'[o]
        PROVE  x \in delivered'[o] \/ InSession(o, x)'
    <3>1. x \in delivered[o] \/ InSession(o, x)
      BY <1>4, <2>1, <2>8 DEF GoodOperation
    <3> QED BY <2>5, <3>1
  <2> QED BY <2>1, <2>2, <2>3, <2>4, <2>7, <2>8 DEF GoodOperation
<1> QED BY <1>12, <1>13, <1>14, <1>15, <1>16, <1>17 DEF IInv

(* open_ambient_observation. *)
LEMMA OpenStep ==
  ASSUME IInv, NEW t \in Threads, NEW o \in Operations, Open(t, o)
  PROVE  IInv'
<1>1. /\ thread[t].at = "opening" /\ thread' = [thread EXCEPT ![t] = Running]
      /\ Active(o) /\ opened[o] < MaxAmbient /\ opened' = [opened EXCEPT ![o] = @ + 1]
      /\ UNCHANGED <<invalid, registered, ending, outcome, frames, delivered, tainted>>
      /\ spent \in SUBSET Sessions
  BY DEF Open, IsOpening, IInv, TypeOK
<1>2. PICK s \in Sessions \ spent, c \in Classes :
        /\ spent' = spent \cup {s}
        /\ \/ /\ OpenOk(o, s, c)
              /\ handle' = [handle EXCEPT ![s] = o]
           \/ (OpenRefused(o, c) \/ OpenFails(o, c)) /\ UNCHANGED handle
  BY DEF Open
<1>3. CASE OpenOk(o, s, c) /\ handle' = [handle EXCEPT ![s] = o]
  BY <1>1, <1>2, <1>3, OpenOkStep
<1>4. CASE (OpenRefused(o, c) \/ OpenFails(o, c)) /\ UNCHANGED handle
  <2>1. /\ MarkIncomplete(o) \/ UNCHANGED incomplete
        /\ UNCHANGED <<mode, coordinator, overflowed, covered, nextPosition, observations, recording,
                       consumed, session, handle>>
    BY <1>4 DEF OpenRefused, OpenFails, coordinatorVars
  <2>2. spent' \in SUBSET Sessions /\ spent \subseteq spent'
    BY <1>1, <1>2
  <2> QED BY <1>1, <2>1, <2>2, OpenQuietStep
<1> QED BY <1>2, <1>3, <1>4

-----------------------------------------------------------------------------
(***************************************************************************)
(* The owner of the operation.                                             *)
(***************************************************************************)
(* The owner marks the operation, or goes a step towards its end. *)
LEMMA OwnerQuietStep ==
  ASSUME IInv,
         UNCHANGED <<mode, coordinator, nextPosition, observations, consumed, session, invalid,
                     opened, outcome, threadVars, sessionVars, historyVars>>,
         incomplete' \in [Operations -> BOOLEAN], \A p \in Operations : incomplete[p] => incomplete'[p],
         overflowed' \in [Operations -> BOOLEAN], covered' \in [Operations -> BOOLEAN],
         recording' \in [Operations -> BOOLEAN], registered' \in SUBSET Operations,
         ending' \in [Operations -> {"no", "covered", "unregistered", "deactivating", "taken"}]
  PROVE  IInv'
<1> USE DEF threadVars, sessionVars, historyVars
<1>1. TypeOK'
  BY DEF IInv, TypeOK
<1>2. (\A t \in Threads : GoodThread(t)') /\ OneUser'
  BY DEF IInv, GoodThread, OneUser, Using
<1>3. /\ UNCHANGED <<mode, coordinator, nextPosition, observations, consumed, session, opened, outcome,
                     delivered, spent, handle>>
      /\ thread' = thread /\ invalid' = invalid /\ tainted' = tainted
  OBVIOUS
<1>4. /\ \A p \in Operations : (incomplete[p] => incomplete'[p]) /\ (invalid[p] => invalid'[p])
      /\ \A p \in Operations : p \in tainted' => p \in tainted \/ (invalid'[p] /\ Live(p))
      /\ \A t \in Threads : thread[t].at = "failing" => thread'[t] = thread[t]
  BY <1>3
<1> HIDE DEF threadVars, sessionVars, historyVars
<1> QED BY <1>1, <1>2, <1>3, <1>4, QuietStep

(* mark_unowned, close_world and take_for_close. *)
LEMMA OwnerMarksStep ==
  ASSUME IInv, NEW o \in Operations,
         \/ MarkUnowned(o) /\ ~UnownedOk(o)
         \/ EndCoverage(o)
         \/ EndUnregister(o)
  PROVE  IInv'
<1> USE DEF contextVars, coordinatorVars
<1>1. /\ TypeOK /\ incomplete \in [Operations -> BOOLEAN] /\ overflowed \in [Operations -> BOOLEAN]
      /\ covered \in [Operations -> BOOLEAN] /\ recording \in [Operations -> BOOLEAN]
      /\ registered \in SUBSET Operations
      /\ ending \in [Operations -> {"no", "covered", "unregistered", "deactivating", "taken"}]
  BY DEF IInv, TypeOK
<1>2. /\ UNCHANGED <<mode, coordinator, nextPosition, observations, consumed, session, invalid,
                     opened, outcome, threadVars, sessionVars, historyVars>>
      /\ registered' \in SUBSET Operations
      /\ ending' \in [Operations -> {"no", "covered", "unregistered", "deactivating", "taken"}]
  <2>1. CASE MarkUnowned(o) /\ ~UnownedOk(o)
    BY <1>1, <2>1 DEF MarkUnowned, UnownedReplay, UnownedOverflows, UnownedUnstored, UnownedUnrecorded
  <2>2. CASE EndCoverage(o)
    BY <1>1, <2>2 DEF EndCoverage, Bind
  <2>3. CASE EndUnregister(o)
    BY <1>1, <2>3 DEF EndUnregister
  <2> QED BY <2>1, <2>2, <2>3
<1>3. /\ incomplete' \in [Operations -> BOOLEAN] /\ overflowed' \in [Operations -> BOOLEAN]
      /\ covered' \in [Operations -> BOOLEAN] /\ recording' \in [Operations -> BOOLEAN]
      /\ \A p \in Operations : incomplete[p] => incomplete'[p]
  <2>1. CASE MarkUnowned(o) /\ ~UnownedOk(o)
    <3>1. /\ MarkIncomplete(o) \/ UNCHANGED incomplete
          /\ overflowed' = overflowed \/ overflowed' = [overflowed EXCEPT ![o] = TRUE]
          /\ recording' = recording \/ recording' = [recording EXCEPT ![o] = FALSE]
          /\ covered' = covered
      BY <2>1 DEF MarkUnowned, UnownedReplay, UnownedOverflows, UnownedUnstored, UnownedUnrecorded
    <3> QED BY <1>1, <3>1, Marked
  <2>2. CASE EndCoverage(o)
    <3>1. CASE Bind(o)
      BY <1>1, <3>1 DEF Bind
    <3>2. CASE UNCHANGED coordinatorVars
      BY <1>1, <3>2
    <3> QED BY <2>2, <3>1, <3>2 DEF EndCoverage
  <2>3. CASE EndUnregister(o)
    BY <1>1, <2>3 DEF EndUnregister
  <2> QED BY <2>1, <2>2, <2>3
<1> HIDE DEF contextVars, coordinatorVars
<1> QED BY <1>2, <1>3, OwnerQuietStep

(* mark_unowned stores evidence that is not the operation's own. *)
LEMMA UnownedOkStep ==
  ASSUME IInv, NEW o \in Operations, UnownedOk(o), Live(o),
         UNCHANGED <<contextVars, threadVars, sessionVars, historyVars>>
  PROVE  IInv'
<1> USE DEF contextVars, threadVars, sessionVars, historyVars
<1>1. /\ TypeOK /\ observations \in [Operations -> Seq(Observed)] /\ AnyClass \in Classes
      /\ session \in [Sessions -> SessionRecords]
  BY CoordinatorAssumption DEF IInv, TypeOK, Observed, AnyClass, SessionRecords
<1>2. PICK e \in Observed : e = Observation(AnyClass, 0, FALSE) /\ e.owned = FALSE
  BY <1>1, ObservationRecord
<1>3. /\ observations' = [observations EXCEPT ![o] = Append(observations[o], e)]
      /\ UNCHANGED <<mode, coordinator, incomplete, overflowed, covered, nextPosition, recording,
                     consumed, session>>
      /\ UNCHANGED <<invalid, registered, opened, ending, outcome, frames, thread, spent, handle,
                     delivered, tainted>>
  BY <1>2 DEF UnownedOk
<1>4. /\ observations[o] \in Seq(Observed) /\ observations' \in [Operations -> Seq(Observed)]
      /\ observations'[o] = Append(observations[o], e)
      /\ \A p \in Operations : p # o => observations'[p] = observations[p]
  BY <1>1, <1>3
<1>5. /\ DOMAIN observations[o] = 1 .. Len(observations[o]) /\ Len(observations[o]) \in Nat
      /\ DOMAIN observations'[o] = 1 .. Len(observations[o]) + 1
      /\ \A i \in 1 .. Len(observations[o]) : observations'[o][i] = observations[o][i]
      /\ observations'[o][Len(observations[o]) + 1] = e
  BY <1>4
<1>6. /\ \A i \in DOMAIN observations[o] :
           i \in DOMAIN observations'[o] /\ observations'[o][i] = observations[o][i]
      /\ \A i \in DOMAIN observations'[o] : observations'[o][i].owned =>
           i \in DOMAIN observations[o] /\ observations'[o][i] = observations[o][i]
  <2>1. \A i \in DOMAIN observations[o] :
          i \in DOMAIN observations'[o] /\ observations'[o][i] = observations[o][i]
    BY <1>5
  <2>2. ASSUME NEW i \in DOMAIN observations'[o], observations'[o][i].owned
        PROVE  i \in DOMAIN observations[o] /\ observations'[o][i] = observations[o][i]
    <3>1. i # Len(observations[o]) + 1
      BY <1>2, <1>5, <2>2
    <3>2. i \in 1 .. Len(observations[o])
      BY <1>5, <3>1
    <3> QED BY <1>5, <3>2
  <2> QED BY <2>1, <2>2
<1>7. TypeOK'
  <2>1. /\ mode' \in [Operations -> {"capture", "replay"}]
        /\ coordinator' \in [Operations -> {"absent", "live", "taken"}]
        /\ incomplete' \in [Operations -> BOOLEAN]
        /\ overflowed' \in [Operations -> BOOLEAN]
        /\ covered' \in [Operations -> BOOLEAN]
        /\ nextPosition' \in [Operations -> [Classes -> Nat]]
        /\ recording' \in [Operations -> BOOLEAN]
        /\ consumed' \in [Operations -> SUBSET Recorded]
        /\ session' \in [Sessions -> SessionRecords]
    BY <1>1, <1>3 DEF TypeOK, SessionRecords
  <2>2. /\ invalid' \in [Operations -> BOOLEAN]
        /\ registered' \in SUBSET Operations
        /\ opened' \in [Operations -> 0 .. MaxAmbient]
        /\ ending' \in [Operations -> {"no", "covered", "unregistered", "deactivating", "taken"}]
        /\ outcome' \in [Operations -> {"pending", "captured", "replayed", "local"}]
        /\ frames' \in [Threads -> Seq(Frames)]
        /\ thread' \in [Threads -> ThreadRecords]
        /\ spent' \in SUBSET Sessions
        /\ handle' \in [Sessions -> Operations \cup {None}]
        /\ delivered' \in [Operations -> SUBSET (Classes \X Nat)]
        /\ tainted' \in SUBSET Operations
    BY <1>1, <1>3 DEF TypeOK, Frames, ThreadRecords
  <2> QED BY <1>4, <2>1, <2>2 DEF TypeOK, ThreadRecords, SessionRecords, Observed, Frames
<1>8. /\ \A t \in Threads : GoodThread(t)'
      /\ OneUser' /\ Apart'
  BY <1>3 DEF IInv, GoodThread, OneUser, Using, Apart, Interaction
<1>9. ASSUME NEW s \in Sessions PROVE GoodSession(s)'
  <2>1. GoodSession(s) /\ (session[s].op # None => session[s].op \in Operations)
    BY <1>1 DEF IInv, SessionRecords
  <2>2. FailureUnderWay(s) => FailureUnderWay(s)'
    BY <1>3 DEF FailureUnderWay
  <2>3. session[s].op # None =>
          /\ session[s].position < nextPosition'[session[s].op][session[s].class]
          /\ \A i \in DOMAIN observations'[session[s].op] :
                observations'[session[s].op][i].owned =>
                  <<observations'[session[s].op][i].class, observations'[session[s].op][i].position>>
                    # Interaction(s)
    <3>1. CASE session[s].op = o
      BY <1>3, <1>6, <2>1, <3>1 DEF GoodSession
    <3>2. CASE session[s].op # o
      BY <1>3, <1>4, <2>1, <3>2 DEF GoodSession
    <3> QED BY <3>1, <3>2
  <2> QED BY <1>3, <2>1, <2>2, <2>3, SessionKept
<1>10. ASSUME NEW p \in Operations, p # o PROVE GoodOperation(p)'
  <2>1. GoodOperation(p) /\ observations'[p] = observations[p]
    BY <1>4, <1>10 DEF IInv
  <2> QED BY <1>3, <2>1, OperationKept
<1>11. GoodOperation(o)'
  <2>1. GoodOperation(o) /\ mode[o] = "capture"
    BY DEF IInv, UnownedOk
  <2>2. coordinator[o] # "absent" /\ outcome[o] # "captured"
    <3>1. coordinator[o] = "live"
      BY DEF Live
    <3> QED BY <2>1, <3>1 DEF GoodOperation
  <2>3. Committed(o)' = Committed(o) /\ Assigned(o)' = Assigned(o)
    <3>1. Committed(o)' \subseteq Committed(o)
      BY <1>6 DEF Committed
    <3>2. Committed(o) \subseteq Committed(o)'
      BY <1>6 DEF Committed
    <3> QED BY <1>3, <3>1, <3>2 DEF Assigned
  <2>4. Numbered(o)'
    <3>1. Numbered(o)
      BY <2>1 DEF GoodOperation
    <3> QED BY <1>3, <1>6, <3>1 DEF Numbered
  <2>5. \A x : InSession(o, x)' <=> InSession(o, x)
    BY <1>3 DEF InSession, Interaction
  <2>6. Live(o)' <=> Live(o)
    BY <1>3 DEF Live
  <2> QED BY <1>3, <2>1, <2>2, <2>3, <2>4, <2>5, <2>6 DEF GoodOperation
<1> QED BY <1>7, <1>8, <1>9, <1>10, <1>11 DEF IInv

(* The evidence of an operation is about positions it gave out. *)
LEMMA CommittedAssigned ==
  ASSUME TypeOK, NEW o \in Operations, Numbered(o)
  PROVE  Committed(o) \subseteq Assigned(o)
<1> SUFFICES ASSUME NEW i \in DOMAIN observations[o], observations[o][i].owned
             PROVE  <<observations[o][i].class, observations[o][i].position>> \in Assigned(o)
  BY DEF Committed
<1>1. observations[o][i].position \in Nat /\ observations[o][i].class \in Classes
  BY ObservedEntries
<1>2. observations[o][i].position < nextPosition[o][observations[o][i].class]
  BY DEF Numbered
<1> QED BY <1>1, <1>2, AssignedIs

(* The coordinator leaves with the verdict: captured or replayed only when    *)
(* nothing is missing.                                                        *)
LEMMA TakenStep ==
  ASSUME IInv, NEW o \in Operations, Live(o), TakeCoordinator(o),
         NEW v \in {"captured", "replayed", "local"}, outcome' = [outcome EXCEPT ![o] = v],
         v = "captured" => ~invalid[o] /\ Complete(o),
         v = "replayed" => ~invalid[o] /\ Replayable(o),
         invalid' = [invalid EXCEPT ![o] = TRUE],
         registered' \in SUBSET Operations,
         ending' \in [Operations -> {"no", "covered", "unregistered", "deactivating", "taken"}],
         UNCHANGED <<opened, threadVars, sessionVars, historyVars>>
  PROVE  IInv'
<1> USE DEF threadVars, sessionVars, historyVars
<1>1. /\ TypeOK /\ invalid \in [Operations -> BOOLEAN]
      /\ outcome \in [Operations -> {"pending", "captured", "replayed", "local"}]
      /\ coordinator \in [Operations -> {"absent", "live", "taken"}]
      /\ session \in [Sessions -> SessionRecords]
  BY DEF IInv, TypeOK, SessionRecords
<1>2. PICK q \in SessionRecords : q = NoSession /\ q.op = None
  BY NoSessionRecord
<1>3. /\ coordinator' = [coordinator EXCEPT ![o] = "taken"]
      /\ session' = [s \in Sessions |-> IF session[s].op = o THEN q ELSE session[s]]
      /\ UNCHANGED <<mode, incomplete, overflowed, covered, nextPosition, observations, recording,
                     consumed>>
      /\ UNCHANGED <<opened, frames, thread, spent, handle, delivered, tainted>>
  BY <1>2 DEF TakeCoordinator
<1>4. /\ session' \in [Sessions -> SessionRecords]
      /\ \A s \in Sessions : session[s].op = o => session'[s].op = None
      /\ \A s \in Sessions : session[s].op # o => session'[s] = session[s]
  BY <1>1, <1>2, <1>3
<1>5. /\ invalid' \in [Operations -> BOOLEAN] /\ invalid'[o]
      /\ \A p \in Operations : invalid[p] => invalid'[p]
      /\ outcome' \in [Operations -> {"pending", "captured", "replayed", "local"}]
      /\ outcome'[o] = v /\ \A p \in Operations : p # o => outcome'[p] = outcome[p]
      /\ coordinator' \in [Operations -> {"absent", "live", "taken"}]
      /\ coordinator'[o] = "taken" /\ \A p \in Operations : p # o => coordinator'[p] = coordinator[p]
  <2>1. /\ invalid' \in [Operations -> BOOLEAN] /\ invalid'[o]
        /\ \A p \in Operations : invalid[p] => invalid'[p]
    BY <1>1
  <2>2. /\ outcome' \in [Operations -> {"pending", "captured", "replayed", "local"}]
        /\ outcome'[o] = v /\ \A p \in Operations : p # o => outcome'[p] = outcome[p]
    BY <1>1
  <2>3. /\ coordinator' \in [Operations -> {"absent", "live", "taken"}]
        /\ coordinator'[o] = "taken" /\ \A p \in Operations : p # o => coordinator'[p] = coordinator[p]
    BY <1>1, <1>3
  <2> QED BY <2>1, <2>2, <2>3
<1>6. TypeOK'
  <2>1. /\ mode' \in [Operations -> {"capture", "replay"}]
        /\ incomplete' \in [Operations -> BOOLEAN]
        /\ overflowed' \in [Operations -> BOOLEAN]
        /\ covered' \in [Operations -> BOOLEAN]
        /\ nextPosition' \in [Operations -> [Classes -> Nat]]
        /\ observations' \in [Operations -> Seq(Observed)]
        /\ recording' \in [Operations -> BOOLEAN]
        /\ consumed' \in [Operations -> SUBSET Recorded]
    BY <1>1, <1>3 DEF TypeOK, Observed
  <2>2. /\ opened' \in [Operations -> 0 .. MaxAmbient]
        /\ frames' \in [Threads -> Seq(Frames)]
        /\ thread' \in [Threads -> ThreadRecords]
        /\ spent' \in SUBSET Sessions
        /\ handle' \in [Sessions -> Operations \cup {None}]
        /\ delivered' \in [Operations -> SUBSET (Classes \X Nat)]
        /\ tainted' \in SUBSET Operations
    BY <1>1, <1>3 DEF TypeOK, Frames, ThreadRecords
  <2> QED BY <1>4, <1>5, <2>1, <2>2 DEF TypeOK, ThreadRecords, SessionRecords, Observed, Frames
<1>7. (\A t \in Threads : GoodThread(t)') /\ OneUser'
  BY <1>1, <1>3, <1>5 DEF IInv, GoodThread, OneUser, Using, TypeOK
<1>8. Apart'
  <2> SUFFICES ASSUME NEW y \in Sessions, NEW z \in Sessions, session'[z].op # None,
                      session'[y].op = session'[z].op, Interaction(y)' = Interaction(z)'
               PROVE  y = z
    BY DEF Apart
  <2>1. session'[y] = session[y] /\ session'[z] = session[z]
    BY <1>4
  <2> QED BY <2>1 DEF IInv, Apart, Interaction
<1>9. ASSUME NEW s \in Sessions PROVE GoodSession(s)'
  <2>1. GoodSession(s) /\ (handle[s] # None => handle[s] \in Operations)
    BY <1>1 DEF IInv, TypeOK
  <2>2. FailureUnderWay(s) => FailureUnderWay(s)'
    BY <1>3 DEF FailureUnderWay
  <2>3. handle[s] # None => coordinator'[handle[s]] # "absent"
    BY <1>5, <2>1 DEF GoodSession
  <2>4. CASE session[s].op = o \/ handle[s] = o
    <3>1. session[s].op # None => session[s].op = o
      BY <2>1, <2>4 DEF GoodSession
    <3>2. handle[s] # None => handle[s] = o \/ session[s].op = None
      BY <2>1, <3>1, <2>4 DEF GoodSession
    <3>3. session'[s].op = None
      BY <1>4, <3>1, <2>4
    <3>4. handle[s] = o
      BY <2>1, <2>4, CoordinatorAssumption DEF GoodSession
    <3> QED BY <1>3, <1>5, <2>1, <2>3, <3>3, <3>4 DEF GoodSession, Live
  <2>5. CASE session[s].op # o /\ handle[s] # o
    <3>1. handle[s] # None => coordinator'[handle[s]] = coordinator[handle[s]]
      BY <1>5, <2>1, <2>5
    <3>2. session'[s] = session[s]
      BY <1>4, <2>5
    <3>3. session[s].op # None =>
            /\ session[s].position < nextPosition'[session[s].op][session[s].class]
            /\ \A i \in DOMAIN observations'[session[s].op] :
                  observations'[session[s].op][i].owned =>
                    <<observations'[session[s].op][i].class, observations'[session[s].op][i].position>>
                      # Interaction(s)
      BY <1>3, <2>1 DEF GoodSession
    <3> QED BY <1>3, <2>1, <2>2, <3>1, <3>2, <3>3, SessionKept
  <2> QED BY <2>4, <2>5
<1>10. ASSUME NEW p \in Operations, p # o PROVE GoodOperation(p)'
  <2>1. GoodOperation(p) /\ coordinator'[p] = coordinator[p] /\ outcome'[p] = outcome[p]
    BY <1>5, <1>10 DEF IInv
  <2>2. \A s \in Sessions : session[s].op = p =>
          /\ session'[s].op = p /\ session'[s].class = session[s].class
          /\ session'[s].position = session[s].position
    BY <1>4, <1>10
  <2> QED BY <1>3, <1>5, <2>1, <2>2, OperationKept
<1>11. GoodOperation(o)'
  <2>1. GoodOperation(o)
    BY DEF IInv
  <2>2. Committed(o)' = Committed(o) /\ Assigned(o)' = Assigned(o) /\ (AllOwned(o)' <=> AllOwned(o))
    BY <1>3 DEF Committed, Assigned, AllOwned
  <2>3. Numbered(o) /\ Numbered(o)'
    <3>1. Numbered(o)
      BY <2>1 DEF GoodOperation
    <3> QED BY <1>3, <3>1 DEF Numbered
  <2>4. ASSUME v = "captured" PROVE Committed(o) = Assigned(o) /\ AllOwned(o) /\ o \notin tainted
    <3>1. ~invalid[o] /\ mode[o] = "capture" /\ ~incomplete[o] /\ AllOwned(o) /\ NoOpenSession(o)
      BY <2>4 DEF Complete
    <3>2. \A x : ~InSession(o, x)
      BY <3>1 DEF NoOpenSession, SessionsOf, InSession
    <3>3. Assigned(o) \subseteq Committed(o)
      BY <2>1, <3>1, <3>2 DEF GoodOperation
    <3>4. Committed(o) \subseteq Assigned(o)
      BY <1>1, <2>3, CommittedAssigned
    <3>5. o \notin tainted
      BY <2>1, <3>1 DEF GoodOperation
    <3> QED BY <3>1, <3>3, <3>4, <3>5
  <2>5. ASSUME v = "replayed" PROVE delivered[o] = Recorded /\ o \notin tainted
    <3>1. ~invalid[o] /\ mode[o] = "replay" /\ ~incomplete[o] /\ consumed[o] = Recorded
            /\ NoOpenSession(o)
      BY <2>5 DEF Replayable
    <3>2. \A x : ~InSession(o, x)
      BY <3>1 DEF NoOpenSession, SessionsOf, InSession
    <3>3. Recorded \subseteq delivered[o]
      BY <2>1, <3>1, <3>2 DEF GoodOperation
    <3>4. delivered[o] \subseteq Recorded /\ o \notin tainted
      BY <2>1, <3>1 DEF GoodOperation
    <3> QED BY <3>3, <3>4
  <2>6. /\ \A c \in Classes : nextPosition'[o][c] <= opened'[o] + (IF c \in Internal THEN 1 ELSE 0)
        /\ delivered'[o] \subseteq Recorded
    BY <1>3, <2>1 DEF GoodOperation
  <2>7. ~Live(o)' /\ coordinator'[o] = "taken" /\ outcome'[o] # "pending" /\ outcome'[o] = v
    BY <1>5 DEF Live
  <2>8. delivered' = delivered /\ tainted' = tainted /\ invalid'[o]
    BY <1>3, <1>5
  <2> QED BY <2>2, <2>3, <2>4, <2>5, <2>6, <2>7, <2>8 DEF GoodOperation
<1> QED BY <1>6, <1>7, <1>8, <1>9, <1>10, <1>11 DEF IInv

(* take_for_close with the verdict of close or finish_replay; deactivate. *)
LEMMA EndStep ==
  ASSUME IInv, NEW o \in Operations, EndTake(o) \/ Deactivate(o)
  PROVE  IInv'
<1>1. /\ registered \in SUBSET Operations
      /\ ending \in [Operations -> {"no", "covered", "unregistered", "deactivating", "taken"}]
      /\ coordinator[o] \in {"absent", "live", "taken"}
  BY DEF IInv, TypeOK
<1>2. Live(o)
  <2>1. coordinator[o] # "absent" /\ outcome[o] = "pending"
    BY DEF EndTake, Deactivate, Owner
  <2>2. coordinator[o] # "taken"
    BY <2>1 DEF IInv, GoodOperation
  <2> QED BY <1>1, <2>1, <2>2 DEF Live
<1>3. /\ TakeCoordinator(o) /\ invalid' = [invalid EXCEPT ![o] = TRUE]
      /\ registered' \in SUBSET Operations
      /\ ending' \in [Operations -> {"no", "covered", "unregistered", "deactivating", "taken"}]
      /\ UNCHANGED <<opened, threadVars, sessionVars, historyVars>>
  BY <1>1 DEF EndTake, Deactivate
<1>4. PICK v \in {"captured", "replayed", "local"} :
        /\ outcome' = [outcome EXCEPT ![o] = v]
        /\ v = "captured" => ~invalid[o] /\ Complete(o)
        /\ v = "replayed" => ~invalid[o] /\ Replayable(o)
  <2>1. CASE EndTake(o)
    <3>1. PICK v \in Verdicts(o) : outcome' = [outcome EXCEPT ![o] = v]
      BY <2>1 DEF EndTake
    <3>2. /\ v \in {"captured", "replayed", "local"}
          /\ v = "captured" => ~invalid[o] /\ Closable(o)
          /\ v = "replayed" => ~invalid[o] /\ Replayable(o)
      BY <3>1 DEF Verdicts
    <3> QED BY <3>1, <3>2 DEF Closable
  <2>2. CASE Deactivate(o)
    BY <2>2 DEF Deactivate
  <2> QED BY <2>1, <2>2
<1> QED BY <1>2, <1>3, <1>4, TakenStep

-----------------------------------------------------------------------------
(***************************************************************************)
(* The beginning.                                                          *)
(***************************************************************************)
(* The internal observations of a capture: one for each internal class.       *)
LEMMA InternalObserved ==
  LET order == CHOOSE q \in InternalSequences : TRUE
      first == [i \in DOMAIN order |-> Observation(order[i], 0, TRUE)]
  IN  /\ first \in Seq(Observed)
      /\ \A i \in DOMAIN first :
           first[i].owned /\ first[i].position = 0 /\ first[i].class \in Internal
      /\ \A i, j \in DOMAIN first : first[i].class = first[j].class => i = j
      /\ \A c \in Internal : \E i \in DOMAIN first : first[i].class = c
<1> DEFINE n == Cardinality(Internal)
           order == CHOOSE q \in InternalSequences : TRUE
           first == [i \in DOMAIN order |-> Observation(order[i], 0, TRUE)]
<1>1. IsFiniteSet(Internal) /\ n \in Nat /\ Internal \subseteq Classes
  BY CoordinatorAssumption, FS_Subset, FS_CardinalityType
<1>2. PICK f \in Bijection(1 .. n, Internal) : TRUE
  BY <1>1, FS_CardinalityType DEF ExistsBijection
<1>3. f \in InternalSequences
  BY <1>2 DEF InternalSequences, Bijection, Injection, IsInjective
<1>4. order \in InternalSequences
  BY <1>3
<1> HIDE DEF order, first
<1>5. /\ order \in [1 .. n -> Internal]
      /\ \A i, j \in 1 .. n : order[i] = order[j] => i = j
  BY <1>4 DEF InternalSequences
<1>6. order \in Injection(1 .. n, Internal)
  BY <1>5 DEF Injection, IsInjective
<1>7. Cardinality(1 .. n) = n
  BY <1>1, FS_Interval
<1> HIDE DEF n
<1>8. order \in Surjection(1 .. n, Internal)
  BY <1>1, <1>6, <1>7, FS_Injection DEF n
<1>9. \A c \in Internal : \E i \in 1 .. n : order[i] = c
  BY <1>8 DEF Surjection
<1>10. \A i \in 1 .. n :
         /\ Observation(order[i], 0, TRUE) \in Observed
         /\ Observation(order[i], 0, TRUE).class = order[i]
         /\ Observation(order[i], 0, TRUE).position = 0
         /\ Observation(order[i], 0, TRUE).owned = TRUE
  <2> TAKE i \in 1 .. n
  <2>1. order[i] \in Classes /\ 0 \in Nat /\ TRUE \in BOOLEAN
    BY <1>1, <1>5
  <2> QED BY <2>1, ObservationRecord
<1>11. DOMAIN order = 1 .. n
  BY <1>5
<1>12. /\ first \in [1 .. n -> Observed] /\ DOMAIN first = 1 .. n
       /\ \A i \in 1 .. n : /\ first[i].class = order[i] /\ first[i].position = 0
                            /\ first[i].owned
  BY <1>10, <1>11 DEF first
<1>13. first \in Seq(Observed)
  BY <1>1, <1>12
<1>14. /\ \A i \in DOMAIN first :
            first[i].owned /\ first[i].position = 0 /\ first[i].class \in Internal
       /\ \A i, j \in DOMAIN first : first[i].class = first[j].class => i = j
       /\ \A c \in Internal : \E i \in DOMAIN first : first[i].class = c
  BY <1>5, <1>9, <1>12
<1> QED BY <1>13, <1>14 DEF order, first

(* An operation begins with its first positions given out, and the evidence   *)
(* for them, or as a replay.                                                  *)
LEMMA StartedStep ==
  ASSUME IInv, NEW o \in Operations, coordinator[o] = "absent",
         coordinator' = [coordinator EXCEPT ![o] = "live"],
         NEW m \in {"capture", "replay"}, mode' = [mode EXCEPT ![o] = m],
         NEW log \in Seq(Observed), observations' = [observations EXCEPT ![o] = log],
         nextPosition' = [nextPosition EXCEPT ![o] = FirstPositions],
         \A i \in DOMAIN log : log[i].owned /\ log[i].position = 0 /\ log[i].class \in Internal,
         \A i, j \in DOMAIN log : log[i].class = log[j].class => i = j,
         m = "capture" => \A c \in Internal : \E i \in DOMAIN log : log[i].class = c,
         recording' \in [Operations -> BOOLEAN], registered' \in SUBSET Operations,
         UNCHANGED <<incomplete, overflowed, covered, consumed, session, invalid, opened, ending,
                     outcome, threadVars, sessionVars, historyVars>>
  PROVE  IInv'
<1> USE DEF threadVars, sessionVars, historyVars
<1>1. /\ TypeOK
      /\ coordinator \in [Operations -> {"absent", "live", "taken"}]
      /\ mode \in [Operations -> {"capture", "replay"}]
      /\ observations \in [Operations -> Seq(Observed)]
      /\ nextPosition \in [Operations -> [Classes -> Nat]]
      /\ session \in [Sessions -> SessionRecords]
  BY DEF IInv, TypeOK, Observed, SessionRecords
<1>2. /\ FirstPositions \in [Classes -> Nat]
      /\ \A c \in Classes : FirstPositions[c] = IF c \in Internal THEN 1 ELSE 0
  BY DEF FirstPositions
<1>3. /\ coordinator' \in [Operations -> {"absent", "live", "taken"}] /\ coordinator'[o] = "live"
      /\ mode' \in [Operations -> {"capture", "replay"}] /\ mode'[o] = m
      /\ \A p \in Operations : p # o => coordinator'[p] = coordinator[p] /\ mode'[p] = mode[p]
  BY <1>1
<1>4. /\ observations' \in [Operations -> Seq(Observed)] /\ observations'[o] = log
      /\ \A p \in Operations : p # o => observations'[p] = observations[p]
  BY <1>1
<1>5. /\ nextPosition' \in [Operations -> [Classes -> Nat]] /\ nextPosition'[o] = FirstPositions
      /\ \A p \in Operations : p # o => nextPosition'[p] = nextPosition[p]
  BY <1>1, <1>2
<1>6. /\ UNCHANGED <<incomplete, overflowed, covered, consumed, session>>
      /\ UNCHANGED <<invalid, opened, ending, outcome, frames, thread, spent, handle, delivered, tainted>>
  OBVIOUS
<1>7. TypeOK'
  <2>1. /\ incomplete' \in [Operations -> BOOLEAN]
        /\ overflowed' \in [Operations -> BOOLEAN]
        /\ covered' \in [Operations -> BOOLEAN]
        /\ consumed' \in [Operations -> SUBSET Recorded]
        /\ session' \in [Sessions -> SessionRecords]
    BY <1>1, <1>6 DEF TypeOK, SessionRecords
  <2>2. /\ invalid' \in [Operations -> BOOLEAN]
        /\ opened' \in [Operations -> 0 .. MaxAmbient]
        /\ ending' \in [Operations -> {"no", "covered", "unregistered", "deactivating", "taken"}]
        /\ outcome' \in [Operations -> {"pending", "captured", "replayed", "local"}]
        /\ frames' \in [Threads -> Seq(Frames)]
        /\ thread' \in [Threads -> ThreadRecords]
    <3>1. /\ invalid \in [Operations -> BOOLEAN]
          /\ opened \in [Operations -> 0 .. MaxAmbient]
          /\ ending \in [Operations -> {"no", "covered", "unregistered", "deactivating", "taken"}]
          /\ outcome \in [Operations -> {"pending", "captured", "replayed", "local"}]
          /\ frames \in [Threads -> Seq(Frames)]
          /\ thread \in [Threads -> ThreadRecords]
      BY <1>1 DEF TypeOK, Frames, ThreadRecords
    <3> QED BY <1>6, <3>1
  <2>3. /\ spent' \in SUBSET Sessions
        /\ handle' \in [Sessions -> Operations \cup {None}]
        /\ delivered' \in [Operations -> SUBSET (Classes \X Nat)]
        /\ tainted' \in SUBSET Operations
    BY <1>1, <1>6 DEF TypeOK
  <2> QED BY <1>3, <1>4, <1>5, <2>1, <2>2, <2>3
          DEF TypeOK, ThreadRecords, SessionRecords, Observed, Frames
<1>8. (\A t \in Threads : GoodThread(t)') /\ OneUser' /\ Apart'
  BY <1>6 DEF IInv, GoodThread, OneUser, Using, Apart, Interaction
<1>9. ASSUME NEW s \in Sessions PROVE GoodSession(s)'
  <2>1. /\ GoodSession(s) /\ (handle[s] # None => handle[s] \in Operations)
        /\ (session[s].op # None => session[s].op \in Operations)
    BY <1>1 DEF IInv, TypeOK, SessionRecords
  <2>2. handle[s] # o /\ session[s].op # o
    BY <2>1, CoordinatorAssumption DEF GoodSession, Live
  <2>3. FailureUnderWay(s) => FailureUnderWay(s)'
    BY <1>6 DEF FailureUnderWay
  <2>4. session[s].op # None =>
          /\ mode'[session[s].op] = mode[session[s].op]
          /\ nextPosition'[session[s].op] = nextPosition[session[s].op]
          /\ observations'[session[s].op] = observations[session[s].op]
    BY <1>3, <1>4, <1>5, <2>1, <2>2
  <2>5. handle[s] # None => coordinator'[handle[s]] = coordinator[handle[s]]
    BY <1>3, <2>1, <2>2
  <2>6. session[s].op # None =>
          /\ session[s].position < nextPosition'[session[s].op][session[s].class]
          /\ \A i \in DOMAIN observations'[session[s].op] :
                observations'[session[s].op][i].owned =>
                  <<observations'[session[s].op][i].class, observations'[session[s].op][i].position>>
                    # Interaction(s)
    BY <2>1, <2>4 DEF GoodSession
  <2> QED BY <1>6, <2>1, <2>3, <2>4, <2>5, <2>6, SessionKept
<1>10. ASSUME NEW p \in Operations, p # o PROVE GoodOperation(p)'
  <2>1. GoodOperation(p)
    BY DEF IInv
  <2> QED BY <1>3, <1>4, <1>5, <1>6, <1>10, <2>1, OperationKept
<1>11. GoodOperation(o)'
  <2>1. /\ GoodOperation(o) /\ consumed[o] = {} /\ outcome[o] = "pending"
        /\ opened[o] \in Nat
    <3>1. GoodOperation(o) /\ opened[o] \in 0 .. MaxAmbient
      BY <1>1 DEF IInv, TypeOK
    <3>2. consumed[o] = {} /\ outcome[o] = "pending"
      BY <3>1 DEF GoodOperation, Unstarted
    <3> QED BY <3>1, <3>2, ContextAssumption
  <2>2. Numbered(o)'
    <3>1. \A i \in DOMAIN log : log[i].position < FirstPositions[log[i].class]
      BY <1>2, CoordinatorAssumption
    <3> QED BY <1>4, <1>5, <3>1 DEF Numbered
  <2>3. \A c \in Classes : nextPosition'[o][c] <= opened'[o] + (IF c \in Internal THEN 1 ELSE 0)
    BY <1>2, <1>5, <1>6, <2>1
  <2>4. ASSUME m = "capture", NEW x \in Assigned(o)' PROVE x \in Committed(o)'
    <3>1. PICK c \in Classes : x \in {c} \X (0 .. (FirstPositions[c] - 1))
      BY <1>5, <2>4 DEF Assigned
    <3>2. PICK k \in 0 .. (FirstPositions[c] - 1) : x = <<c, k>>
      BY <3>1
    <3>3. c \in Internal /\ k = 0
      BY <1>2, <3>2
    <3>4. PICK i \in DOMAIN log : log[i].class = c
      BY <2>4, <3>3
    <3>5. log[i].owned /\ x = <<log[i].class, log[i].position>>
      BY <3>2, <3>3, <3>4
    <3> QED BY <1>4, <3>5 DEF Committed
  <2>5. /\ outcome'[o] = "pending" /\ coordinator'[o] = "live"
        /\ mode'[o] = m /\ consumed'[o] = {}
    BY <1>3, <1>6, <2>1
  <2>6. (o \in tainted' => invalid'[o]) /\ delivered'[o] \subseteq Recorded
    BY <1>6, <2>1 DEF GoodOperation
  <2> QED BY <2>2, <2>3, <2>4, <2>5, <2>6 DEF GoodOperation
<1> QED BY <1>7, <1>8, <1>9, <1>10, <1>11 DEF IInv

(* AutomaticManagedEngine::start, AutomaticReplayOperation::new. *)
LEMMA StartStep ==
  ASSUME IInv, NEW o \in Operations, Start(o)
  PROVE  IInv'
<1>1. /\ mode \in [Operations -> {"capture", "replay"}]
      /\ observations \in [Operations -> Seq(Observed)]
      /\ recording \in [Operations -> BOOLEAN] /\ registered \in SUBSET Operations
  BY DEF IInv, TypeOK, Observed
<1>2. /\ coordinator[o] = "absent" /\ registered' \in SUBSET Operations
      /\ UNCHANGED <<invalid, opened, ending, outcome, threadVars, sessionVars, historyVars>>
  BY <1>1 DEF Start
<1>3. CASE NewCapture(o)
  <2> DEFINE order == CHOOSE q \in InternalSequences : TRUE
             first == [i \in DOMAIN order |-> Observation(order[i], 0, TRUE)]
  <2>1. PICK log \in Seq(Observed) :
          /\ log = first
          /\ \A i \in DOMAIN log : log[i].owned /\ log[i].position = 0 /\ log[i].class \in Internal
          /\ \A i, j \in DOMAIN log : log[i].class = log[j].class => i = j
          /\ \A c \in Internal : \E i \in DOMAIN log : log[i].class = c
    BY InternalObserved
  <2>2. /\ coordinator' = [coordinator EXCEPT ![o] = "live"]
        /\ recording' = [recording EXCEPT ![o] = TRUE]
        /\ observations' = [observations EXCEPT ![o] = first]
        /\ nextPosition' = [nextPosition EXCEPT ![o] = FirstPositions]
        /\ UNCHANGED <<mode, incomplete, overflowed, covered, consumed, session>>
    BY <1>3 DEF NewCapture
  <2>3. observations' = [observations EXCEPT ![o] = log] /\ recording' \in [Operations -> BOOLEAN]
    BY <1>1, <2>1, <2>2
  <2>4. PICK m \in {"capture", "replay"} : m = "capture" /\ mode' = [mode EXCEPT ![o] = m]
    <3>1. mode[o] = "capture"
      BY <1>2 DEF IInv, GoodOperation, Unstarted
    <3> QED BY <1>1, <2>2, <3>1
  <2>5. m = "capture" => \A c \in Internal : \E i \in DOMAIN log : log[i].class = c
    BY <2>1
  <2>6. UNCHANGED <<incomplete, overflowed, covered, consumed, session, invalid, opened, ending,
                    outcome, threadVars, sessionVars, historyVars>>
    BY <1>2, <2>2
  <2>7. /\ \A i \in DOMAIN log : log[i].owned /\ log[i].position = 0 /\ log[i].class \in Internal
        /\ \A i, j \in DOMAIN log : log[i].class = log[j].class => i = j
    BY <2>1
  <2>8. /\ coordinator' = [coordinator EXCEPT ![o] = "live"] /\ mode' = [mode EXCEPT ![o] = m]
        /\ nextPosition' = [nextPosition EXCEPT ![o] = FirstPositions]
    BY <2>2, <2>4
  <2> HIDE DEF order, first
  <2> QED BY <1>2, <2>3, <2>5, <2>6, <2>7, <2>8, StartedStep
<1>4. CASE NewReplay(o)
  <2>1. PICK log \in Seq(Observed) : log = observations[o]
    BY <1>1
  <2>6. PICK m \in {"capture", "replay"} : m = "replay"
    OBVIOUS
  <2>2. observations[o] = <<>>
    BY <1>2 DEF IInv, GoodOperation, Unstarted
  <2>7. DOMAIN log = {}
    BY <2>1, <2>2
  <2>3. /\ coordinator' = [coordinator EXCEPT ![o] = "live"]
        /\ mode' = [mode EXCEPT ![o] = "replay"]
        /\ nextPosition' = [nextPosition EXCEPT ![o] = FirstPositions]
        /\ UNCHANGED <<incomplete, overflowed, covered, observations, recording, consumed, session>>
    BY <1>4 DEF NewReplay
  <2>4. observations' = [observations EXCEPT ![o] = log] /\ recording' \in [Operations -> BOOLEAN]
    BY <1>1, <2>1, <2>2, <2>3
  <2> QED BY <1>2, <2>3, <2>4, <2>6, <2>7, StartedStep
<1> QED BY <1>3, <1>4 DEF Start

-----------------------------------------------------------------------------
(***************************************************************************)
(* The invariant.                                                          *)
(***************************************************************************)
(* A step that changes nothing. *)
LEMMA StutterKept == IInv /\ UNCHANGED vars => IInv'
<1> SUFFICES ASSUME IInv, UNCHANGED vars PROVE IInv'
  OBVIOUS
<1>1. /\ UNCHANGED <<mode, coordinator, nextPosition, observations, consumed, session, invalid,
                     opened, outcome, threadVars, sessionVars, historyVars>>
      /\ UNCHANGED <<incomplete, overflowed, covered, recording, registered, ending>>
  BY DEF vars, coordinatorVars, contextVars
<1>2. /\ incomplete \in [Operations -> BOOLEAN] /\ overflowed \in [Operations -> BOOLEAN]
      /\ covered \in [Operations -> BOOLEAN] /\ recording \in [Operations -> BOOLEAN]
      /\ registered \in SUBSET Operations
      /\ ending \in [Operations -> {"no", "covered", "unregistered", "deactivating", "taken"}]
  BY DEF IInv, TypeOK
<1> QED BY <1>1, <1>2, OwnerQuietStep

(* mark_unowned. *)
LEMMA MarkUnownedStep ==
  ASSUME IInv, NEW o \in Operations, MarkUnowned(o)
  PROVE  IInv'
<1>1. CASE UnownedOk(o)
  <2>1. Live(o) /\ UNCHANGED <<contextVars, threadVars, sessionVars, historyVars>>
    BY DEF MarkUnowned, Active
  <2> QED BY <1>1, <2>1, UnownedOkStep
<1>2. CASE ~UnownedOk(o)
  BY <1>2, OwnerMarksStep
<1> QED BY <1>1, <1>2

(* Every step of a thread or an owner preserves the invariant. *)
LEMMA InductiveStep == IInv /\ [Next]_vars => IInv'
<1> SUFFICES ASSUME IInv, [Next]_vars PROVE IInv'
  OBVIOUS
<1>1. ASSUME NEW t \in Threads, ThreadStep(t) PROVE IInv'
  <2>1. CASE \/ \E o \in Operations : PollEnter(t, o)
             \/ PollExit(t)
    BY <2>1, ContextStep
  <2>2. CASE CurrentLost(t)
    BY <2>2, CurrentLostStep
  <2>3. CASE InvalidateNext(t)
    BY <2>3, InvalidateNextStep
  <2>4. CASE \/ \E o \in Operations :
                  OpenRejected(t, o) \/ OpenBegin(t, o) \/ OpenInvalid(t, o) \/ OpenAtQuota(t, o)
             \/ \E s \in Sessions : CallAdmitted(t, s) \/ CallRejected(t, s) \/ SessionDropped(t, s)
             \/ InvalidateCurrent(t)
    BY <2>4, AdmissionStep
  <2>5. CASE CallInvalid(t)
    <3>1. CallErrsAlone(t)
      BY <2>5 DEF CallInvalid, CallErrsAlone
    <3> QED BY <3>1, AdmissionStep
  <2>6. ASSUME NEW o \in Operations, Open(t, o) PROVE IInv'
    BY <2>6, OpenStep
  <2>7. CASE Write(t)
    BY <2>7, WriteStep
  <2>8. CASE Dispatch(t) \/ Read(t)
    BY <2>8, DispatchReadStep
  <2>9. CASE Finish(t)
    BY <2>9, FinishStep
  <2>10. CASE Abandon(t) \/ FailSession(t)
    BY <2>10, SessionFailsStep
  <2> QED BY <1>1, <2>1, <2>2, <2>3, <2>4, <2>5, <2>6, <2>7, <2>8, <2>9, <2>10 DEF ThreadStep
<1>2. ASSUME NEW o \in Operations, OwnerStep(o) PROVE IInv'
  <2>1. CASE Start(o)
    BY <2>1, StartStep
  <2>2. CASE MarkUnowned(o)
    BY <2>2, MarkUnownedStep
  <2>3. CASE EndCoverage(o) \/ EndUnregister(o)
    BY <2>3, OwnerMarksStep
  <2>4. CASE EndTake(o) \/ Deactivate(o)
    BY <2>4, EndStep
  <2> QED BY <1>2, <2>1, <2>2, <2>3, <2>4 DEF OwnerStep
<1>3. CASE UNCHANGED vars
  BY <1>3, StutterKept
<1> QED BY <1>1, <1>2, <1>3 DEF Next

(* IInv is an invariant of the specification. *)
LEMMA Invariant == Spec => []IInv
BY InductiveInit, InductiveStep, PTL DEF Spec

(* A session outlives neither its coordinator nor its finish, and no two of   *)
(* an operation share a position, however calls, failures, drops and the end  *)
(* of the operation interleave.                                               *)
THEOREM SessionsLinkedHolds == Spec => []SessionsLinked
<1>1. IInv => SessionsLinked
  <2> SUFFICES ASSUME IInv PROVE SessionsLinked
    OBVIOUS
  <2>1. ASSUME NEW s \in Sessions, session[s].op # None
        PROVE  /\ Live(session[s].op)
               /\ handle[s] = session[s].op
               /\ session[s].position < nextPosition[session[s].op][session[s].class]
    BY <2>1 DEF IInv, GoodSession
  <2>2. ASSUME NEW s \in Sessions, session[s].op # None,
               NEW r \in Sessions \ {s}, session[r].op = session[s].op
        PROVE  Interaction(r) # Interaction(s)
    BY <2>2 DEF IInv, Apart
  <2>3. TypeOK
    BY DEF IInv
  <2> QED BY <2>1, <2>2, <2>3 DEF SessionsLinked
<1> QED BY <1>1, Invariant, PTL

(* A captured operation holds one committed observation for every position it *)
(* gave out and nothing unowned, and no thread without a context met it while *)
(* it was live.                                                               *)
THEOREM CaptureIsCompleteHolds == Spec => []CaptureIsComplete
<1>1. IInv => CaptureIsComplete
  <2> SUFFICES ASSUME IInv, NEW o \in Operations, outcome[o] = "captured"
               PROVE  /\ Committed(o) = Assigned(o)
                      /\ Len(observations[o]) = Cardinality(Assigned(o))
                      /\ o \notin tainted
    BY DEF CaptureIsComplete
  <2>1. Committed(o) = Assigned(o) /\ AllOwned(o) /\ o \notin tainted /\ Numbered(o)
    BY DEF IInv, GoodOperation
  <2>2. observations[o] \in Seq(Observed)
    BY DEF IInv, TypeOK, Observed
  <2>3. PICK n \in Nat : n = Len(observations[o]) /\ DOMAIN observations[o] = 1 .. n
    BY <2>2
  <2> DEFINE f == [i \in 1 .. n |-> <<observations[o][i].class, observations[o][i].position>>]
  <2>4. f \in [1 .. n -> Committed(o)]
    BY <2>1, <2>3 DEF Committed, AllOwned
  <2>5. \A i, j \in 1 .. n : f[i] = f[j] => i = j
    BY <2>1, <2>3 DEF Numbered, AllOwned
  <2>6. \A x \in Committed(o) : \E i \in 1 .. n : f[i] = x
    BY <2>3 DEF Committed
  <2> HIDE DEF f
  <2>7. f \in Bijection(1 .. n, Committed(o))
    BY <2>4, <2>5, <2>6 DEF Bijection, Injection, Surjection, IsInjective
  <2>8. IsFiniteSet(1 .. n) /\ Cardinality(1 .. n) = n
    BY <2>3, FS_Interval
  <2>9. ExistsBijection(1 .. n, Committed(o))
    BY <2>7 DEF ExistsBijection
  <2>10. Cardinality(Committed(o)) = n
    BY <2>8, <2>9, FS_Bijection
  <2> QED BY <2>1, <2>3, <2>10
<1> QED BY <1>1, Invariant, PTL

(* A replay that finishes delivered every recorded response, and no thread    *)
(* without a context met it while it was live.                                *)
THEOREM ReplayIsCompleteHolds == Spec => []ReplayIsComplete
<1>1. IInv => ReplayIsComplete
  BY DEF IInv, GoodOperation, ReplayIsComplete
<1> QED BY <1>1, Invariant, PTL

-----------------------------------------------------------------------------
(***************************************************************************)
(* The refinement of WorldEvidence.                                        *)
(***************************************************************************)
(* What the mapping relies on: evidence has a number, and the numbers stay   *)
(* below the bound on ambient sessions.                                      *)
Bounded == \A o \in Operations :
  /\ \A x : x \in Assigned(o) <=>
       \E c \in Classes, p \in Nat : x = <<c, p>> /\ p < nextPosition[o][c]
  /\ Committed(o) \subseteq Assigned(o)
  /\ Assigned(o) \subseteq Classes \X (0 .. MaxAmbient)

(* The invariant gives it. *)
LEMMA InvariantBounded == IInv => Bounded
<1> SUFFICES ASSUME IInv, NEW o \in Operations
             PROVE  /\ \A x : x \in Assigned(o) <=>
                         \E c \in Classes, p \in Nat : x = <<c, p>> /\ p < nextPosition[o][c]
                    /\ Committed(o) \subseteq Assigned(o)
                    /\ Assigned(o) \subseteq Classes \X (0 .. MaxAmbient)
  BY DEF Bounded
<1>1. /\ TypeOK /\ Numbered(o) /\ opened[o] \in 0 .. MaxAmbient
      /\ \A c \in Classes : nextPosition[o][c] <= opened[o] + (IF c \in Internal THEN 1 ELSE 0)
      /\ \A c \in Classes : nextPosition[o][c] \in Nat
  <2>1. TypeOK /\ GoodOperation(o)
    BY DEF IInv
  <2>2. opened[o] \in 0 .. MaxAmbient /\ \A c \in Classes : nextPosition[o][c] \in Nat
    BY <2>1 DEF TypeOK
  <2> QED BY <2>1, <2>2 DEF GoodOperation
<1>2. \A x : x \in Assigned(o) <=>
        \E c \in Classes, p \in Nat : x = <<c, p>> /\ p < nextPosition[o][c]
  BY <1>1, AssignedIs
<1>3. \A c \in Classes, p \in Nat : p < nextPosition[o][c] => p \in 0 .. MaxAmbient
  BY <1>1, ContextAssumption
<1> QED BY <1>1, <1>2, <1>3, CommittedAssigned

(* A step that gives out no number, adds no evidence and decides nothing. *)
LEMMA EvidenceKept ==
  ASSUME UNCHANGED <<coordinator, nextPosition, outcome>>,
         \A o \in Operations : Committed(o)' = Committed(o)
  PROVE  UNCHANGED Evidence!evidenceVars
<1>1. \A o \in Operations : Assigned(o)' = Assigned(o)
  BY DEF Assigned
<1> QED BY <1>1 DEF Evidence!evidenceVars

(* A session that opens takes the next number of its class. *)
LEMMA NumberStep ==
  ASSUME IInv, Bounded, Bounded', NEW o \in Operations, NEW c \in Classes,
         Live(o), opened[o] < MaxAmbient, AdvancePosition(o, c),
         UNCHANGED <<coordinator, observations, outcome>>
  PROVE  Evidence!Next
<1>1. /\ nextPosition \in [Operations -> [Classes -> Nat]] /\ opened[o] \in 0 .. MaxAmbient
      /\ outcome[o] = "pending"
      /\ nextPosition[o][c] <= opened[o] + (IF c \in Internal THEN 1 ELSE 0)
  BY DEF IInv, TypeOK, GoodOperation, Live
<1>2. PICK n \in Nat : n = nextPosition[o][c] /\ n \in 0 .. MaxAmbient
  BY <1>1, ContextAssumption
<1>3. /\ nextPosition'[o][c] = n + 1
      /\ \A d \in Classes : d # c => nextPosition'[o][d] = nextPosition[o][d]
      /\ \A p \in Operations : p # o => nextPosition'[p] = nextPosition[p]
  BY <1>1, <1>2 DEF AdvancePosition
<1>4. \A p \in Operations : Committed(p)' = Committed(p)
  BY DEF Committed
<1>5. \A p \in Operations : p # o => Assigned(p)' = Assigned(p)
  BY <1>3 DEF Assigned
<1>6. Assigned(o)' = Assigned(o) \cup {<<c, n>>}
  <2>1. ASSUME NEW x PROVE x \in Assigned(o)' <=> x \in Assigned(o) \/ x = <<c, n>>
    <3>1. x \in Assigned(o)' <=> \E d \in Classes, k \in Nat : x = <<d, k>> /\ k < nextPosition'[o][d]
      BY DEF Bounded
    <3>2. x \in Assigned(o) <=> \E d \in Classes, k \in Nat : x = <<d, k>> /\ k < nextPosition[o][d]
      BY DEF Bounded
    <3>3. \A d \in Classes, k \in Nat :
            k < nextPosition'[o][d] <=> k < nextPosition[o][d] \/ (d = c /\ k = n)
      BY <1>1, <1>2, <1>3
    <3> QED BY <1>2, <3>1, <3>2, <3>3
  <2> QED BY <2>1
<1>7. <<c, n>> \notin Assigned(o)
  BY <1>2 DEF Bounded
<1>8. Evidence!Number(o, <<c, n>>)
  BY <1>1, <1>4, <1>5, <1>6, <1>7 DEF Evidence!Number, Evidence!Undecided, Live
<1>9. <<c, n>> \in Classes \X (0 .. MaxAmbient)
  BY <1>2
<1> QED BY <1>8, <1>9 DEF Evidence!Next

(* commit_session adds the interaction of the session. *)
LEMMA EvidenceStep ==
  ASSUME IInv, Bounded, NEW s \in Sessions, session[s].op # None, Commit(s), UNCHANGED outcome
  PROVE  Evidence!Next
<1>1. PICK o \in Operations : o = session[s].op
  BY DEF IInv, TypeOK
<1>2. /\ session[s].class \in Classes /\ session[s].position \in Nat
      /\ observations \in [Operations -> Seq(Observed)]
      /\ Live(o) /\ outcome[o] = "pending"
      /\ session[s].position < nextPosition[o][session[s].class]
      /\ \A i \in DOMAIN observations[o] : observations[o][i].owned =>
           <<observations[o][i].class, observations[o][i].position>> # Interaction(s)
  BY <1>1 DEF IInv, TypeOK, Observed, GoodSession, GoodOperation, Live
<1>3. PICK e \in Observed :
        /\ e = Observation(session[s].class, session[s].position, TRUE)
        /\ e.class = session[s].class /\ e.position = session[s].position /\ e.owned
  BY <1>2, ObservationRecord
<1>4. /\ observations' = [observations EXCEPT ![o] = Append(observations[o], e)]
      /\ UNCHANGED <<coordinator, nextPosition>>
  BY <1>1, <1>3 DEF Commit
<1>5. /\ observations'[o] = Append(observations[o], e)
      /\ \A p \in Operations : p # o => observations'[p] = observations[p]
  BY <1>2, <1>4
<1>6. /\ Len(observations[o]) \in Nat
      /\ DOMAIN observations[o] = 1 .. Len(observations[o])
      /\ DOMAIN observations'[o] = 1 .. Len(observations[o]) + 1
      /\ \A i \in 1 .. Len(observations[o]) : observations'[o][i] = observations[o][i]
      /\ observations'[o][Len(observations[o]) + 1] = e
  BY <1>2, <1>5
<1>7. Committed(o)' = Committed(o) \cup {<<e.class, e.position>>}
  <2>1. \A x : x \in Committed(o) <=>
          \E i \in DOMAIN observations[o] : observations[o][i].owned /\
            x = <<observations[o][i].class, observations[o][i].position>>
    BY DEF Committed
  <2>2. \A x : x \in Committed(o)' <=>
          \E i \in DOMAIN observations'[o] : observations'[o][i].owned /\
            x = <<observations'[o][i].class, observations'[o][i].position>>
    BY DEF Committed
  <2>3. ASSUME NEW x \in Committed(o) PROVE x \in Committed(o)'
    BY <1>6, <2>1, <2>2
  <2>4. <<e.class, e.position>> \in Committed(o)'
    <3>1. PICK i \in DOMAIN observations'[o] : observations'[o][i] = e
      BY <1>6
    <3> QED BY <1>3, <2>2, <3>1
  <2>5. ASSUME NEW x \in Committed(o)', x # <<e.class, e.position>> PROVE x \in Committed(o)
    <3>1. PICK i \in DOMAIN observations'[o] : observations'[o][i].owned /\
            x = <<observations'[o][i].class, observations'[o][i].position>>
      BY <2>2
    <3>2. i \in 1 .. Len(observations[o]) \/ i = Len(observations[o]) + 1
      BY <1>6
    <3> QED BY <1>6, <2>1, <2>5, <3>1, <3>2
  <2> QED BY <2>3, <2>4, <2>5
<1>8. \A p \in Operations : p # o => Committed(p)' = Committed(p)
  BY <1>5 DEF Committed
<1>9. \A p \in Operations : Assigned(p)' = Assigned(p)
  BY <1>4 DEF Assigned
<1>10. Interaction(s) = <<e.class, e.position>>
  BY <1>3 DEF Interaction
<1>11. Interaction(s) \in Assigned(o)
  BY <1>2 DEF Bounded, Interaction
<1>12. Interaction(s) \notin Committed(o)
  BY <1>2 DEF Committed
<1>13. Evidence!Commit(o, Interaction(s))
  BY <1>2, <1>4, <1>7, <1>8, <1>9, <1>10, <1>11, <1>12
     DEF Evidence!Commit, Evidence!Undecided, Live
<1>14. Interaction(s) \in Classes \X (0 .. MaxAmbient)
  BY <1>11 DEF Bounded
<1> QED BY <1>13, <1>14 DEF Evidence!Next

(* An operation begins with the numbers and the evidence of its internal      *)
(* observations.                                                              *)
LEMMA StartsStep ==
  ASSUME IInv, Bounded', NEW o \in Operations, Start(o)
  PROVE  Evidence!Next
<1>1. /\ coordinator[o] = "absent" /\ UNCHANGED outcome
      /\ coordinator' = [coordinator EXCEPT ![o] = "live"]
      /\ coordinator \in [Operations -> {"absent", "live", "taken"}]
      /\ \A p \in Operations : p # o =>
           nextPosition'[p] = nextPosition[p] /\ observations'[p] = observations[p]
  <2>1. /\ nextPosition' = [nextPosition EXCEPT ![o] = FirstPositions]
        /\ coordinator' = [coordinator EXCEPT ![o] = "live"]
        /\ \A p \in Operations : p # o => observations'[p] = observations[p]
    BY DEF Start, NewCapture, NewReplay, IInv, TypeOK
  <2> QED BY <2>1 DEF Start, IInv, TypeOK
<1>2. \A p \in Operations : p # o => Assigned(p)' = Assigned(p) /\ Committed(p)' = Committed(p)
  BY <1>1 DEF Assigned, Committed
<1>3. {p \in Operations : coordinator'[p] # "absent"} =
        {p \in Operations : coordinator[p] # "absent"} \cup {o}
  BY <1>1
<1>4. PICK S, E \in SUBSET (Classes \X (0 .. MaxAmbient)) : S = Assigned(o)' /\ E = Committed(o)'
  BY DEF Bounded
<1>5. E \subseteq S
  BY <1>4 DEF Bounded
<1>6. Evidence!Start(o, S, E)
  BY <1>1, <1>2, <1>3, <1>4, <1>5 DEF Evidence!Start
<1> QED BY <1>4, <1>6 DEF Evidence!Next

(* The operation is decided, captured only with every number as evidence. *)
LEMMA DecideStep ==
  ASSUME IInv, IInv', NEW o \in Operations, EndTake(o) \/ Deactivate(o)
  PROVE  Evidence!Next
<1>1. /\ coordinator[o] # "absent" /\ outcome[o] = "pending"
      /\ outcome \in [Operations -> {"pending", "captured", "replayed", "local"}]
      /\ coordinator \in [Operations -> {"absent", "live", "taken"}]
      /\ coordinator' = [coordinator EXCEPT ![o] = "taken"]
      /\ UNCHANGED <<nextPosition, observations>>
  BY DEF EndTake, Deactivate, Owner, TakeCoordinator, IInv, TypeOK
<1>2. PICK v \in {"captured", "replayed", "local"} : outcome' = [outcome EXCEPT ![o] = v]
  BY DEF EndTake, Deactivate, Verdicts
<1>3. \A p \in Operations : Assigned(p)' = Assigned(p) /\ Committed(p)' = Committed(p)
  BY <1>1 DEF Assigned, Committed
<1>4. v = "captured" => Committed(o) = Assigned(o)
  <2>1. outcome'[o] = v
    BY <1>1, <1>2
  <2>2. outcome'[o] = "captured" => Committed(o)' = Assigned(o)'
    BY DEF IInv, GoodOperation
  <2> QED BY <1>3, <2>1, <2>2
<1>5. {p \in Operations : coordinator'[p] # "absent"} =
        {p \in Operations : coordinator[p] # "absent"}
  BY <1>1
<1>6. Evidence!Decide(o, v)
  BY <1>1, <1>2, <1>3, <1>4, <1>5 DEF Evidence!Decide, Evidence!Undecided
<1> QED BY <1>6 DEF Evidence!Next

(* What a step leaves alone that gives out no number, adds no observation and *)
(* decides nothing.                                                           *)
Uneventful == UNCHANGED <<coordinator, nextPosition, observations, outcome>>

(* Such a step is a stutter of WorldEvidence. *)
LEMMA UneventfulKept == Uneventful => UNCHANGED Evidence!evidenceVars
<1> SUFFICES ASSUME Uneventful PROVE UNCHANGED Evidence!evidenceVars
  OBVIOUS
<1>1. \A o \in Operations : Committed(o)' = Committed(o)
  BY DEF Committed, Uneventful
<1> QED BY <1>1, EvidenceKept DEF Uneventful

(* The steps of a thread other than a session that opens and one that         *)
(* commits.                                                                   *)
LEMMA ThreadUneventful ==
  ASSUME NEW t \in Threads, ThreadStep(t),
         \A o \in Operations : ~Open(t, o),
         ~Finish(t)
  PROVE  Uneventful
<1> USE DEF coordinatorVars, contextVars, sessionVars, historyVars, threadVars, Uneventful
<1>1. CASE \/ PollExit(t) \/ CurrentLost(t)
           \/ \E o \in Operations : OpenBegin(t, o) \/ OpenInvalid(t, o)
           \/ \E s \in Sessions : CallAdmitted(t, s) \/ SessionDropped(t, s)
  BY <1>1 DEF PollExit, CurrentLost, OpenBegin, OpenInvalid, CallAdmitted, SessionDropped
<1>2. CASE \/ InvalidateNext(t) \/ InvalidateCurrent(t)
           \/ \E o \in Operations : PollEnter(t, o) \/ OpenRejected(t, o) \/ OpenAtQuota(t, o)
           \/ \E s \in Sessions : CallRejected(t, s)
  BY <1>2 DEF InvalidateNext, InvalidateCurrent, PollEnter, OpenRejected, OpenAtQuota, CallRejected,
              Invalidate
<1>3. CASE CallInvalid(t) \/ Read(t)
  BY <1>3 DEF CallInvalid, CallErrs, CallReturns, Read, ReadOk, ReadFails
<1>4. CASE Write(t)
  BY <1>4 DEF Write, WriteOk, WriteFails, OverflowSession, CallReturns, CallErrs
<1>5. CASE Dispatch(t)
  BY <1>5 DEF Dispatch, DispatchCapture, DispatchReplay, DispatchFails, DispatchMisplaced,
              DispatchReplayFails, CallReturns, CallErrs
<1>6. CASE Abandon(t) \/ FailSession(t)
  BY <1>6 DEF Abandon, FailSession, AbandonSession
<1> QED BY <1>1, <1>2, <1>3, <1>4, <1>5, <1>6 DEF ThreadStep

(* A session opens, or the call that opens it fails. *)
LEMMA OpenEvidence ==
  ASSUME IInv, Bounded, Bounded', NEW t \in Threads, NEW o \in Operations, Open(t, o)
  PROVE  [Evidence!Next]_Evidence!evidenceVars
<1>1. /\ Live(o) /\ opened[o] < MaxAmbient /\ UNCHANGED outcome
  BY DEF Open, Active
<1>2. PICK s \in Sessions, c \in Classes : OpenOk(o, s, c) \/ OpenRefused(o, c) \/ OpenFails(o, c)
  BY DEF Open
<1>3. CASE OpenOk(o, s, c)
  <2>1. AdvancePosition(o, c) /\ UNCHANGED <<coordinator, observations>>
    BY <1>3 DEF OpenOk
  <2> QED BY <1>1, <2>1, NumberStep
<1>4. CASE OpenRefused(o, c) \/ OpenFails(o, c)
  <2>1. Uneventful
    BY <1>1, <1>4 DEF OpenRefused, OpenFails, coordinatorVars, Uneventful
  <2> QED BY <2>1, UneventfulKept
<1> QED BY <1>2, <1>3, <1>4

(* A session finishes: committed, delivered or lost. *)
LEMMA FinishEvidence ==
  ASSUME IInv, Bounded, NEW t \in Threads, Finish(t)
  PROVE  [Evidence!Next]_Evidence!evidenceVars
<1>1. Called(t, "finish") /\ UNCHANGED outcome
  BY DEF Finish, CallErrs, contextVars
<1>2. PICK s \in Sessions : s = thread[t].session /\ session[s].op # None
  <2>1. /\ thread[t].session \in Sessions /\ handle[thread[t].session] \in Operations
        /\ session[thread[t].session].op = handle[thread[t].session]
    BY <1>1, CalledSession
  <2> QED BY <2>1, CoordinatorAssumption
<1>3. PICK result \in Outcomes :
        \/ FinishCommit(s, result, session[s].position)
        \/ FinishReplay(s, result, session[s].position)
        \/ FinishFails(s, result, session[s].position)
  BY <1>2 DEF Finish
<1>4. CASE FinishCommit(s, result, session[s].position)
  <2>1. Commit(s)
    BY <1>4 DEF FinishCommit
  <2> QED BY <1>1, <1>2, <2>1, EvidenceStep
<1>5. CASE \/ FinishReplay(s, result, session[s].position)
           \/ FinishFails(s, result, session[s].position)
  <2>1. Uneventful
    BY <1>1, <1>5 DEF FinishReplay, FinishFails, Uncommitted, Uneventful
  <2> QED BY <2>1, UneventfulKept
<1> QED BY <1>3, <1>4, <1>5

(* mark_unowned adds an observation that is no evidence. *)
LEMMA UnownedEvidence ==
  ASSUME IInv, NEW o \in Operations, MarkUnowned(o)
  PROVE  UNCHANGED Evidence!evidenceVars
<1>1. CASE UnownedOk(o)
  <2>1. /\ observations \in [Operations -> Seq(Observed)] /\ AnyClass \in Classes
    BY CoordinatorAssumption DEF IInv, TypeOK, Observed, AnyClass
  <2>2. PICK e \in Observed : e = Observation(AnyClass, 0, FALSE) /\ e.owned = FALSE
    BY <2>1, ObservationRecord
  <2>3. /\ observations' = [observations EXCEPT ![o] = Append(observations[o], e)]
        /\ UNCHANGED <<coordinator, nextPosition, outcome>>
    BY <1>1, <2>2 DEF MarkUnowned, UnownedOk, contextVars
  <2>4. /\ observations'[o] = Append(observations[o], e)
        /\ \A p \in Operations : p # o => observations'[p] = observations[p]
    BY <2>1, <2>3
  <2>5. /\ DOMAIN observations[o] = 1 .. Len(observations[o]) /\ Len(observations[o]) \in Nat
        /\ DOMAIN observations'[o] = 1 .. Len(observations[o]) + 1
        /\ \A i \in 1 .. Len(observations[o]) : observations'[o][i] = observations[o][i]
        /\ observations'[o][Len(observations[o]) + 1] = e
    BY <2>1, <2>4
  <2>6. {i \in DOMAIN observations'[o] : observations'[o][i].owned} =
          {i \in DOMAIN observations[o] : observations[o][i].owned}
    <3>1. ASSUME NEW i \in DOMAIN observations'[o], observations'[o][i].owned
          PROVE  i \in DOMAIN observations[o] /\ observations[o][i].owned
      <4>1. i # Len(observations[o]) + 1
        BY <2>2, <2>5, <3>1
      <4>2. i \in 1 .. Len(observations[o])
        BY <2>5, <4>1
      <4> QED BY <2>5, <3>1, <4>2
    <3>2. \A i \in DOMAIN observations[o] :
            i \in DOMAIN observations'[o] /\ observations'[o][i] = observations[o][i]
      BY <2>5
    <3> QED BY <3>1, <3>2
  <2>7. Committed(o)' = Committed(o)
    BY <2>5, <2>6 DEF Committed
  <2>8. \A p \in Operations : p # o => Committed(p)' = Committed(p)
    BY <2>4 DEF Committed
  <2> QED BY <2>3, <2>7, <2>8, EvidenceKept
<1>2. CASE ~UnownedOk(o)
  <2>1. Uneventful
    BY <1>2 DEF MarkUnowned, UnownedReplay, UnownedOverflows, UnownedUnstored, UnownedUnrecorded,
                contextVars, coordinatorVars, Uneventful
  <2> QED BY <2>1, UneventfulKept
<1> QED BY <1>1, <1>2

(* Every step maps to a step of WorldEvidence or to a stutter. *)
LEMMA NextEvidence ==
  IInv /\ IInv' /\ Bounded /\ Bounded' /\ [Next]_vars => [Evidence!Next]_Evidence!evidenceVars
<1> SUFFICES ASSUME IInv, IInv', Bounded, Bounded', [Next]_vars
             PROVE  [Evidence!Next]_Evidence!evidenceVars
  OBVIOUS
<1>1. ASSUME NEW t \in Threads, ThreadStep(t) PROVE [Evidence!Next]_Evidence!evidenceVars
  <2>1. ASSUME NEW o \in Operations, Open(t, o) PROVE [Evidence!Next]_Evidence!evidenceVars
    BY <2>1, OpenEvidence
  <2>2. CASE Finish(t)
    BY <2>2, FinishEvidence
  <2>3. CASE (\A o \in Operations : ~Open(t, o)) /\ ~Finish(t)
    <3>1. Uneventful
      BY <1>1, <2>3, ThreadUneventful
    <3> QED BY <3>1, UneventfulKept
  <2> QED BY <2>1, <2>2, <2>3
<1>2. ASSUME NEW o \in Operations, OwnerStep(o) PROVE [Evidence!Next]_Evidence!evidenceVars
  <2>1. CASE Start(o)
    BY <2>1, StartsStep
  <2>2. CASE MarkUnowned(o)
    BY <2>2, UnownedEvidence
  <2>3. CASE EndCoverage(o) \/ EndUnregister(o)
    <3>1. Uneventful
      BY <2>3 DEF EndCoverage, EndUnregister, Bind, coordinatorVars, Uneventful
    <3> QED BY <3>1, UneventfulKept
  <2>4. CASE EndTake(o) \/ Deactivate(o)
    BY <2>4, DecideStep
  <2> QED BY <1>2, <2>1, <2>2, <2>3, <2>4 DEF OwnerStep
<1>3. CASE UNCHANGED vars
  <2>1. Uneventful
    BY <1>3 DEF vars, coordinatorVars, contextVars, Uneventful
  <2> QED BY <2>1, UneventfulKept
<1> QED BY <1>1, <1>2, <1>3 DEF Next

(* The coordinators, their contexts and their owners implement WorldEvidence: *)
(* every interaction is numbered once and committed at most once, only while  *)
(* its operation is undecided, and there is one verdict, captured only when   *)
(* every numbered interaction is evidence.                                    *)
THEOREM ImplementsEvidenceHolds == Spec => ImplementsEvidence
<1>1. Init => Evidence!Init
  <2> SUFFICES ASSUME Init PROVE Evidence!Init
    OBVIOUS
  <2>1. {o \in Operations : coordinator[o] # "absent"} = {}
    BY DEF Init, CoordinatorInit
  <2>2. ASSUME NEW o \in Operations PROVE Assigned(o) = {} /\ Committed(o) = {}
    <3>1. nextPosition[o] = [c \in Classes |-> 0] /\ observations[o] = <<>>
      BY DEF Init, CoordinatorInit
    <3>2. \A c \in Classes : {c} \X (0 .. (nextPosition[o][c] - 1)) = {}
      BY <3>1
    <3> QED BY <3>1, <3>2 DEF Assigned, Committed
  <2> QED BY <2>1, <2>2 DEF Evidence!Init, Init
<1> QED BY <1>1, Invariant, InvariantBounded, NextEvidence, PTL
        DEF Spec, ImplementsEvidence, Evidence!Spec
=============================================================================
