--------------------------- MODULE SchedulerProofs ---------------------------
(***************************************************************************)
(* The scheduler's books, for every set of operations, lanes, locks and    *)
(* capacities: types, no double launch, locks and slots that are neither   *)
(* leaked nor released twice, and a queue that is never left while one of  *)
(* its operations could run.  The books are kept in six places that are    *)
(* updated apart (queue, launching, active, activeByLane, the held locks,  *)
(* activeLocks); the invariant ties each of them to the launch() calls in  *)
(* flight.                                                                 *)
(***************************************************************************)
EXTENDS Scheduler, FiniteSetTheorems, SequenceTheorems, TLAPS

\* Every reservation is a launch() waiting for its factory, every registered
\* worker a launch() that drives it.
CallsTracked ==
    /\ \A c \in Call : call[c].phase # "free" => call[c].op \in Op
    /\ \A c \in Call : call[c].phase = "factory" => launching[call[c].op] = c
    /\ \A o \in Op : launching[o] # None =>
          call[launching[o]] = [op |-> o, phase |-> "factory"]
    /\ \A o \in Op : active[o] # None =>
          call[active[o]] = [op |-> o, phase |-> "driving"]

\* activeLocks has the declared locks of who holds a slot, and nothing else.
SlotLocksTracked ==
    \A o \in Op : slotLocks[o] = IF Occupies(o) THEN LocksOf[o] ELSE {}

BooksInv == TypeOK /\ CallsTracked /\ SlotLocksTracked /\ NoDoubleLaunch /\ LocksBalanced

-----------------------------------------------------------------------------
(* The queue as a sequence without doubles.                                *)

Distinct(q) == \A i, j \in 1..Len(q) : q[i] = q[j] => i = j

LEMMA ToSetIs ==
    ASSUME NEW q \in Seq(Op) PROVE ToSet(q) = {q[i] : i \in 1..Len(q)}
BY DEF ToSet

LEMMA AppendIs ==
    ASSUME NEW q \in Seq(Op), NEW o \in Op
    PROVE  /\ Append(q, o) \in Seq(Op) /\ Len(Append(q, o)) = Len(q) + 1
           /\ \A i \in 1..Len(q) : Append(q, o)[i] = q[i]
           /\ Append(q, o)[Len(q) + 1] = o
           /\ ToSet(Append(q, o)) = ToSet(q) \cup {o}
           /\ Distinct(q) /\ o \notin ToSet(q) => Distinct(Append(q, o))
<1>1. /\ Append(q, o) \in Seq(Op) /\ Len(Append(q, o)) = Len(q) + 1 /\ Len(q) \in Nat
      /\ \A i \in 1..Len(q) : Append(q, o)[i] = q[i]
      /\ Append(q, o)[Len(q) + 1] = o
  OBVIOUS
<1>2. ToSet(Append(q, o)) = ToSet(q) \cup {o}
  <2> DEFINE r == Append(q, o)
  <2>1. \A i \in 1..(Len(q) + 1) : i \in 1..Len(q) \/ i = Len(q) + 1  BY <1>1
  <2>2. ToSet(r) = {r[i] : i \in 1..(Len(q) + 1)}  BY <1>1, ToSetIs
  <2>3. ToSet(q) = {q[i] : i \in 1..Len(q)}  BY ToSetIs
  <2>4. \A i \in 1..Len(q) : r[i] = q[i] /\ i \in 1..(Len(q) + 1)  BY <1>1
  <2>5. r[Len(q) + 1] = o /\ Len(q) + 1 \in 1..(Len(q) + 1)  BY <1>1
  <2> HIDE DEF r
  <2>6. ToSet(r) \subseteq ToSet(q) \cup {o}  BY <2>1, <2>2, <2>3, <2>4, <2>5
  <2>7. ToSet(q) \cup {o} \subseteq ToSet(r)  BY <2>2, <2>3, <2>4, <2>5
  <2> QED BY <2>6, <2>7 DEF r
<1>3. Distinct(q) /\ o \notin ToSet(q) => Distinct(Append(q, o))
  BY <1>1, ToSetIs DEF Distinct
<1> QED BY <1>1, <1>2, <1>3

LEMMA RemoveAtIs ==
    ASSUME NEW q \in Seq(Op), NEW k \in 1..Len(q)
    PROVE  /\ RemoveAt(q, k) \in Seq(Op) /\ Len(RemoveAt(q, k)) = Len(q) - 1
           /\ \A i \in 1..(Len(q) - 1) :
                 RemoveAt(q, k)[i] = IF i < k THEN q[i] ELSE q[i + 1]
           /\ ToSet(RemoveAt(q, k)) \subseteq ToSet(q)
           /\ Distinct(q) => /\ Distinct(RemoveAt(q, k))
                             /\ q[k] \notin ToSet(RemoveAt(q, k))
<1> DEFINE a == SubSeq(q, 1, k - 1)
           b == SubSeq(q, k + 1, Len(q))
           r == RemoveAt(q, k)
<1>1. Len(q) \in Nat /\ k \in Nat  OBVIOUS
<1>2. /\ a \in Seq(Op) /\ Len(a) = k - 1 /\ \A i \in 1..(k - 1) : a[i] = q[i]
  BY <1>1
<1>3. /\ b \in Seq(Op) /\ Len(b) = Len(q) - k
      /\ \A i \in 1..(Len(q) - k) : b[i] = q[k + i]
  BY <1>1
<1>4. r = a \o b  BY DEF RemoveAt
<1> HIDE DEF a, b, r
<1>5. /\ r \in Seq(Op) /\ Len(r) = Len(q) - 1
      /\ \A i \in 1..(Len(q) - 1) : r[i] = IF i < k THEN q[i] ELSE q[i + 1]
  <2>1. r \in Seq(Op) /\ Len(r) = Len(a) + Len(b)
    <3>1. a \in Seq(Op) /\ b \in Seq(Op)  BY <1>2, <1>3
    <3>2. a \o b \in Seq(Op) /\ Len(a \o b) = Len(a) + Len(b)
      BY <3>1, ConcatProperties, Zenon
    <3> QED BY <1>4, <3>2
  <2>2. Len(r) = Len(q) - 1  BY <1>1, <1>2, <1>3, <2>1
  <2>3. ASSUME NEW i \in 1..(Len(q) - 1), i < k PROVE r[i] = q[i]
    <3>1. i \in 1..Len(a)  BY <1>1, <1>2, <2>3
    <3>2. r[i] = a[i]  BY <1>2, <1>3, <1>4, <3>1
    <3> QED BY <1>1, <1>2, <2>3, <3>2
  <2>4. ASSUME NEW i \in 1..(Len(q) - 1), ~(i < k) PROVE r[i] = q[i + 1]
    <3>1. i - Len(a) \in 1..Len(b)  BY <1>1, <1>2, <1>3, <2>4
    <3>2. r[i] = b[i - Len(a)]  BY <1>2, <1>3, <1>4, <3>1
    <3>3. i - Len(a) = i - k + 1 /\ k + (i - k + 1) = i + 1  BY <1>1, <1>2
    <3> QED BY <1>1, <1>3, <3>1, <3>2, <3>3
  <2> QED BY <2>1, <2>2, <2>3, <2>4
<1>6. ToSet(r) \subseteq ToSet(q)
  BY <1>1, <1>5, ToSetIs
<1>7. Distinct(q) => Distinct(r) /\ q[k] \notin ToSet(r)
  BY SMTT(60), <1>1, <1>5, ToSetIs DEF Distinct
<1> QED BY <1>5, <1>6, <1>7 DEF r

\* enqueueOp adds an operation that is not in flight, or nothing.
LEMMA EnqueueIs ==
    ASSUME TypeOK, Distinct(queue), NEW o \in Op, Enqueue(o)
    PROVE  /\ queue' \in Seq(Op) /\ Distinct(queue') /\ timer' \subseteq Op
           /\ \A x \in ToSet(queue') : x \in ToSet(queue) \/ (x = o /\ ~InFlight(o))
<1>1. queue \in Seq(Op) /\ timer \subseteq Op  BY DEF TypeOK
<1>2. CASE UNCHANGED <<queue, timer>>  BY <1>1, <1>2 DEF Distinct
<1>3. CASE ~InFlight(o) /\ o \notin ToSet(queue)
           /\ queue' = Append(queue, o) /\ timer' = timer \ {o}
  BY <1>1, <1>3, AppendIs
<1> QED BY <1>2, <1>3 DEF Enqueue

\* What the pump takes out of the queue.
LEMMA CandidateIs ==
    ASSUME TypeOK, Looks
    PROVE  pumpAt \in 1..Len(queue) /\ Candidate \in Op /\ Candidate \in ToSet(queue)
<1>1. pumpAt \in 1..Len(queue)  BY DEF TypeOK, Looks, Pumping, Idle
<1> QED BY <1>1, ToSetIs DEF TypeOK, Candidate

-----------------------------------------------------------------------------
(* Types.                                                                  *)

LEMMA LessIs ==
    ASSUME NEW n \in Nat, NEW m \in 0..n PROVE Less(m) \in 0..n
BY DEF Less

LEMMA GiveBackTyped ==
    ASSUME TypeOK, NEW o \in Op, GiveBack(o)
    PROVE  /\ \A l \in Lane : inUse'[l] \in 0..LaneCap[l]
           /\ DOMAIN inUse' = Lane /\ held' \subseteq Lock
           /\ slotLocks' \in [Op -> SUBSET Lock]
<1>1. \A l \in Lane : LaneCap[l] \in Nat  BY SchedulerAssumption
<1>2. \A l \in Lane : inUse'[l] = inUse[l] \/ inUse'[l] = Less(inUse[l])
  BY DEF TypeOK, GiveBack
<1>3. ASSUME NEW l \in Lane PROVE inUse'[l] \in 0..LaneCap[l]
  <2>1. LaneCap[l] \in Nat /\ inUse[l] \in 0..LaneCap[l]  BY <1>1 DEF TypeOK
  <2>2. Less(inUse[l]) \in 0..LaneCap[l]  BY <2>1, LessIs
  <2> QED BY <1>2, <2>1, <2>2
<1> QED BY <1>3 DEF TypeOK, GiveBack

LEMMA EvictTyped ==
    ASSUME TypeOK, NEW o \in Op, Evict(o)
    PROVE  /\ \A l \in Lane : inUse'[l] \in 0..LaneCap[l]
           /\ DOMAIN inUse' = Lane /\ held' \subseteq Lock
           /\ slotLocks' \in [Op -> SUBSET Lock]
           /\ active' \in [Op -> Call \cup {None}]
<1>1. \A l \in Lane : LaneCap[l] \in Nat  BY SchedulerAssumption
<1>2. \A l \in Lane : inUse'[l] = inUse[l] \/ inUse'[l] = Less(inUse[l])
  BY DEF TypeOK, Evict
<1>3. ASSUME NEW l \in Lane PROVE inUse'[l] \in 0..LaneCap[l]
  <2>1. LaneCap[l] \in Nat /\ inUse[l] \in 0..LaneCap[l]  BY <1>1 DEF TypeOK
  <2>2. Less(inUse[l]) \in 0..LaneCap[l]  BY <2>1, LessIs
  <2> QED BY <1>2, <2>1, <2>2
<1> QED BY <1>3 DEF TypeOK, Evict

LEMMA TypedInit == ASSUME Init PROVE TypeOK
<1>1. \A l \in Lane : 0 \in 0..LaneCap[l]  BY SchedulerAssumption
<1> QED BY <1>1, SchedulerAssumption DEF Init, TypeOK, NoCall

LEMMA TypedStep ==
    ASSUME TypeOK, CallsTracked, Distinct(queue), Next PROVE TypeOK'
<1> USE SchedulerAssumption
<1>1. ASSUME NEW o \in Op, Submit(o) \/ Resume(o) PROVE TypeOK'
  <2>1. queue' \in Seq(Op) /\ timer' \subseteq Op
    BY <1>1, EnqueueIs DEF Submit, Resume
  <2>2. /\ row' = [row EXCEPT ![o] = "queued"] /\ pumpAt' = 1
        /\ UNCHANGED <<cancel, launching, active, inUse, held, slotLocks, call, then>>
    BY <1>1 DEF Submit, Resume, Pumps
  <2>3. budget' \in 0..MaxEvents  BY <1>1 DEF Submit, Resume, Disturb, TypeOK
  <2> QED BY <2>1, <2>2, <2>3 DEF TypeOK
<1>2. ASSUME NEW o \in Op, Vanish(o) \/ CancelQueued(o) PROVE TypeOK'
  <2>1. row' \in [Op -> {"new", "queued", "running", "paused", "ended", "gone"}]
    <3>1. \/ row' = [row EXCEPT ![o] = "gone"]
          \/ row' = [row EXCEPT ![o] = "ended"] \/ row' = row
      BY <1>2 DEF Vanish, CancelQueued
    <3> QED BY <3>1 DEF TypeOK
  <2>2. cancel' \in [Op -> BOOLEAN]
    <3>1. cancel' = cancel \/ cancel' = [cancel EXCEPT ![o] = TRUE]
      BY <1>2 DEF Vanish, CancelQueued
    <3> QED BY <3>1 DEF TypeOK
  <2>3. timer' \subseteq Op /\ budget' \in 0..MaxEvents
    BY <1>2 DEF Vanish, CancelQueued, Disturb, TypeOK
  <2> QED BY <1>2, <2>1, <2>2, <2>3 DEF Vanish, CancelQueued, TypeOK
<1>3. ASSUME NEW o \in Op, TimerFires(o) PROVE TypeOK'
  <2>1. queue' = queue \/ queue' = Append(queue, o)  BY <1>3 DEF TimerFires
  <2>2. queue' \in Seq(Op)
    <3>1. queue \in Seq(Op)  BY DEF TypeOK
    <3> QED BY <2>1, <3>1, AppendIs
  <2>3. timer' \subseteq Op /\ pumpAt' \in Nat  BY <1>3 DEF TimerFires, Pumps, TypeOK
  <2> QED BY <1>3, <2>2, <2>3 DEF TimerFires, TypeOK
<1>4. ASSUME NEW o \in Op, RecoverRequeues(o) PROVE TypeOK'
  <2>1. queue' \in Seq(Op) /\ timer' \subseteq Op /\ then' \in Op \cup {None}
    BY <1>4, EnqueueIs DEF RecoverRequeues, TypeOK
  <2>2. row' = [row EXCEPT ![o] = "queued"] /\ budget' \in 0..MaxEvents /\ pumpAt' = 1
        /\ UNCHANGED <<cancel, launching, call>> /\ Evict(o)
    BY <1>4 DEF RecoverRequeues, MayRecover, Disturb, TypeOK, Pumps
  <2> QED BY <2>1, <2>2, EvictTyped DEF TypeOK
<1>5. ASSUME NEW o \in Op, RecoverEnds(o) \/ RecoverUnreadable(o) PROVE TypeOK'
  <2>1. /\ row' = [row EXCEPT ![o] = "ended"] \/ row' = [row EXCEPT ![o] = "gone"]
        /\ budget' \in 0..MaxEvents /\ pumpAt' \in Nat /\ Evict(o)
        /\ UNCHANGED <<cancel, queue, launching, timer, call, then>>
    BY <1>5 DEF RecoverEnds, RecoverUnreadable, MayRecover, Disturb, TypeOK, Pumps
  <2> QED BY <2>1, EvictTyped DEF TypeOK
<1>6. ASSUME NEW c \in Call, FactoryResolves(c) PROVE TypeOK'
  <2>1. call[c].op \in Op  BY <1>6 DEF FactoryResolves, CallsTracked
  <2>2. /\ row' \in [Op -> {"new", "queued", "running", "paused", "ended", "gone"}]
        /\ cancel' \in [Op -> BOOLEAN] /\ budget' \in 0..MaxEvents
    <3>1. row' \in [Op -> {"new", "queued", "running", "paused", "ended", "gone"}]
      <4>1. row' = row \/ row' = [row EXCEPT ![call[c].op] = "ended"]
                       \/ row' = [row EXCEPT ![call[c].op] = "running"]
        BY <1>6 DEF FactoryResolves
      <4> QED BY <4>1 DEF TypeOK
    <3>2. cancel' \in [Op -> BOOLEAN]
      <4>1. UNCHANGED cancel
            \/ \E o \in Op : cancel' = [cancel EXCEPT ![o] = @ /\ ~HonoursCancel(o)]
        BY <1>6, <2>1 DEF FactoryResolves
      <4>2. cancel \in [Op -> BOOLEAN]  BY DEF TypeOK
      <4> QED BY <4>1, <4>2, Zenon
    <3>3. budget' \in 0..MaxEvents  BY <1>6 DEF FactoryResolves, TypeOK, Disturb
    <3> QED BY <3>1, <3>2, <3>3
  <2>3. /\ launching' \in [Op -> Call \cup {None}] /\ active' \in [Op -> Call \cup {None}]
    BY <1>6, <2>1 DEF FactoryResolves, TypeOK, Unreserve
  <2>4. call' \in [Call -> [op: Op \cup {None}, phase: {"free", "factory", "driving"}]]
    BY <1>6 DEF FactoryResolves, TypeOK
  <2> QED BY <1>6, <2>2, <2>3, <2>4 DEF FactoryResolves, TypeOK
<1>7. ASSUME NEW c \in Call, FactoryRejects(c) PROVE TypeOK'
  <2>1. call[c].op \in Op  BY <1>7 DEF FactoryRejects, CallsTracked
  <2> QED BY <1>7, <2>1, GiveBackTyped
          DEF FactoryRejects, TypeOK, Disturb, Unreserve, NoCall, Repump, Pumps
<1>8. ASSUME NEW c \in Call, WorkerDone(c) PROVE TypeOK'
  <2> DEFINE o == call[c].op
  <2>1. o \in Op  BY <1>8 DEF WorkerDone, CallsTracked
  <2>2. /\ row' \in [Op -> {"new", "queued", "running", "paused", "ended", "gone"}]
        /\ timer' \subseteq Op /\ budget' \in 0..MaxEvents
    <3>1. row' \in [Op -> {"new", "queued", "running", "paused", "ended", "gone"}]
      <4>1. row' = row \/ row' = [row EXCEPT ![o] = "ended"]
                       \/ row' = [row EXCEPT ![o] = "paused"]
                       \/ row' = [row EXCEPT ![o] = "queued"]
        BY <1>8 DEF WorkerDone
      <4> QED BY <4>1 DEF TypeOK
    <3>2. timer' \subseteq Op  BY <1>8, <2>1 DEF WorkerDone, TypeOK
    <3>3. budget' \in 0..MaxEvents  BY <1>8 DEF WorkerDone, TypeOK, Disturb
    <3> QED BY <3>1, <3>2, <3>3
  <2>3. \/ active' = [active EXCEPT ![o] = None] /\ GiveBack(o)
        \/ UNCHANGED <<active, inUse, held, slotLocks>>
    BY <1>8 DEF WorkerDone
  <2>4. /\ \A l \in Lane : inUse'[l] \in 0..LaneCap[l]
        /\ DOMAIN inUse' = Lane /\ held' \subseteq Lock
        /\ slotLocks' \in [Op -> SUBSET Lock] /\ active' \in [Op -> Call \cup {None}]
    BY <2>1, <2>3, GiveBackTyped DEF TypeOK
  <2>5. call' \in [Call -> [op: Op \cup {None}, phase: {"free", "factory", "driving"}]]
    BY <1>8 DEF WorkerDone, TypeOK, NoCall
  <2> QED BY <1>8, <2>2, <2>4, <2>5 DEF WorkerDone, TypeOK, Repump, Pumps
<1>9. CASE PumpEnds
  <2>1. queue' \in Seq(Op) /\ timer' \subseteq Op
    BY <1>9, EnqueueIs DEF PumpEnds, TypeOK
  <2> QED BY <1>9, <2>1 DEF PumpEnds, TypeOK, Pumps
<1>10. CASE PumpSkips  BY <1>10 DEF PumpSkips, TypeOK
<1>11. CASE PumpForgets
  BY <1>11, CandidateIs, RemoveAtIs DEF PumpForgets, TypeOK
<1>12. CASE PumpCancels
  BY <1>12, CandidateIs, RemoveAtIs DEF PumpCancels, TypeOK
<1>13. ASSUME NEW c \in Call, PumpLaunches(c) PROVE TypeOK'
  <2>1. Candidate \in Op /\ RemoveAt(queue, pumpAt) \in Seq(Op)
    BY <1>13, CandidateIs, RemoveAtIs DEF PumpLaunches, TypeOK
  <2>2. /\ \A l \in Lane : inUse'[l] \in 0..LaneCap[l]
        /\ DOMAIN inUse' = Lane
    <3>1. inUse[LaneOf[Candidate]] < LaneCap[LaneOf[Candidate]] /\ LaneOf[Candidate] \in Lane
      BY <1>13, <2>1 DEF PumpLaunches, LaneFull, TypeOK
    <3> QED BY <1>13, <3>1 DEF PumpLaunches, TypeOK
  <2>3. /\ launching' \in [Op -> Call \cup {None}] /\ held' \subseteq Lock
        /\ slotLocks' \in [Op -> SUBSET Lock]
        /\ call' \in [Call -> [op: Op \cup {None}, phase: {"free", "factory", "driving"}]]
    BY <1>13, <2>1 DEF PumpLaunches, TypeOK
  <2> QED BY <1>13, <2>1, <2>2, <2>3 DEF PumpLaunches, TypeOK
<1> QED BY <1>1, <1>2, <1>3, <1>4, <1>5, <1>6, <1>7, <1>8, <1>9, <1>10, <1>11,
           <1>12, <1>13 DEF Next, Pump

-----------------------------------------------------------------------------
(* Who is in flight, and on whose behalf.                                  *)

LEMMA CallsInit == ASSUME Init PROVE CallsTracked
BY DEF Init, CallsTracked, NoCall

LEMMA CallsStep ==
    ASSUME TypeOK, CallsTracked, NoDoubleLaunch, Next PROVE CallsTracked'
<1> USE SchedulerAssumption
<1>t. /\ launching \in [Op -> Call \cup {None}] /\ active \in [Op -> Call \cup {None}]
      /\ call \in [Call -> [op: Op \cup {None}, phase: {"free", "factory", "driving"}]]
  BY DEF TypeOK
<1>1. CASE UNCHANGED <<launching, active, call>>  BY <1>1 DEF CallsTracked
<1>2. ASSUME NEW c \in Call, FactoryResolves(c) PROVE CallsTracked'
  <2> DEFINE o == call[c].op
  <2>1. o \in Op /\ launching[o] = c /\ active[o] = None
    BY <1>2, <1>t DEF FactoryResolves, CallsTracked, NoDoubleLaunch
  <2>2. /\ launching' = [launching EXCEPT ![o] = None]
        /\ active' = [active EXCEPT ![o] = c]
        /\ call' = [call EXCEPT ![c] = [op |-> o, phase |-> "driving"]]
    <3>1. launching' = [launching EXCEPT ![o] = None]
      BY <1>2, <2>1 DEF FactoryResolves, Unreserve
    <3>2. call[c] \in [op: Op \cup {None}, phase: {"free", "factory", "driving"}]
      BY <1>t
    <3>3. [call[c] EXCEPT !.phase = "driving"] = [op |-> o, phase |-> "driving"]
      BY <3>2
    <3> QED BY <1>2, <3>1, <3>3 DEF FactoryResolves
  <2> QED BY <1>t, <2>1, <2>2 DEF CallsTracked
<1>3. ASSUME NEW c \in Call, FactoryRejects(c) PROVE CallsTracked'
  <2> DEFINE o == call[c].op
  <2>1. o \in Op /\ launching[o] = c
    BY <1>3, <1>t DEF FactoryRejects, CallsTracked
  <2>2. /\ launching' = [launching EXCEPT ![o] = None] /\ UNCHANGED active
        /\ call' = [call EXCEPT ![c] = NoCall] /\ call[c].phase = "factory"
    BY <1>3, <1>t, <2>1 DEF FactoryRejects, Unreserve
  <2> QED BY <1>t, <2>1, <2>2 DEF CallsTracked, NoCall
<1>4. ASSUME NEW c \in Call, WorkerDone(c) PROVE CallsTracked'
  <2> DEFINE o == call[c].op
  <2>1. /\ o \in Op /\ UNCHANGED launching /\ call[c].phase = "driving"
        /\ call' = [call EXCEPT ![c] = NoCall]
        /\ IF active[o] = c THEN active' = [active EXCEPT ![o] = None]
                            ELSE UNCHANGED active
    BY <1>4, <1>t DEF WorkerDone, CallsTracked, StillOurs
  <2> QED BY <1>t, <2>1 DEF CallsTracked, NoCall
<1>5. ASSUME NEW o \in Op, UNCHANGED <<launching, call>>, Evict(o) PROVE CallsTracked'
  BY <1>t, <1>5 DEF CallsTracked, Evict
<1>6. ASSUME NEW c \in Call, PumpLaunches(c) PROVE CallsTracked'
  <2> DEFINE o == Candidate
  <2>1. o \in Op /\ launching[o] = None /\ active[o] = None
    BY <1>6, CandidateIs DEF PumpLaunches, NoDoubleLaunch, InFlight
  <2>2. /\ launching' = [launching EXCEPT ![o] = c] /\ UNCHANGED active
        /\ call' = [call EXCEPT ![c] = [op |-> o, phase |-> "factory"]]
        /\ call[c].phase = "free"
    BY <1>6 DEF PumpLaunches, NoCall
  <2> HIDE DEF o
  <2> QED BY <1>t, <2>1, <2>2 DEF CallsTracked
<1>7. ASSUME NEW o \in Op,
             \/ Submit(o) \/ Resume(o) \/ Vanish(o) \/ CancelQueued(o) \/ TimerFires(o)
      PROVE  UNCHANGED <<launching, active, call>>
  BY <1>7 DEF Submit, Resume, Vanish, CancelQueued, TimerFires
<1>8. CASE PumpEnds \/ PumpSkips \/ PumpForgets \/ PumpCancels
  BY <1>1, <1>8 DEF PumpEnds, PumpSkips, PumpForgets, PumpCancels
<1>9. ASSUME NEW o \in Op, RecoverRequeues(o) \/ RecoverEnds(o) \/ RecoverUnreadable(o)
      PROVE  UNCHANGED <<launching, call>> /\ Evict(o)
  BY <1>9 DEF RecoverRequeues, RecoverEnds, RecoverUnreadable
<1> QED BY <1>1, <1>2, <1>3, <1>4, <1>5, <1>6, <1>7, <1>8, <1>9 DEF Next, Pump

-----------------------------------------------------------------------------
(* The effects a step can have on the books.                               *)

\* The queue changes, nothing else.
LEMMA QueueStep ==
    ASSUME SlotLocksTracked, NoDoubleLaunch, LocksBalanced,
           UNCHANGED <<launching, active, held, slotLocks>>,
           Distinct(queue'),
           \A o \in ToSet(queue') : o \in ToSet(queue) \/ ~InFlight(o)
    PROVE  SlotLocksTracked' /\ NoDoubleLaunch' /\ LocksBalanced'
<1>1. \A o \in Op : (Occupies(o)' <=> Occupies(o)) /\ (InFlight(o)' <=> InFlight(o))
  BY DEF Occupies, InFlight
<1>2. \A o \in ToSet(queue') : ~(launching'[o] # None \/ active'[o] # None)
  BY DEF NoDoubleLaunch, InFlight
<1>3. SlotLocksTracked' /\ LocksBalanced'
  BY <1>1 DEF SlotLocksTracked, LocksBalanced
<1> QED BY <1>2, <1>3 DEF NoDoubleLaunch, InFlight, Distinct

\* An operation out of the queue takes a slot whose locks are free.
LEMMA SlotTaken ==
    ASSUME TypeOK, SlotLocksTracked, NoDoubleLaunch, LocksBalanced,
           NEW o \in Op, NEW c \in Call, ~Occupies(o), ~AnyHeld(o),
           launching' = [launching EXCEPT ![o] = c], UNCHANGED active,
           held' = held \cup LocksOf[o],
           slotLocks' = [slotLocks EXCEPT ![o] = LocksOf[o]],
           Distinct(queue'), ToSet(queue') \subseteq ToSet(queue) \ {o},
           ToSet(queue) \subseteq Op
    PROVE  SlotLocksTracked' /\ NoDoubleLaunch' /\ LocksBalanced'
<1> USE SchedulerAssumption
<1>1. \A x \in Op : Occupies(x)' <=> Occupies(x) \/ x = o
  BY DEF TypeOK, Occupies
<1>2. SlotLocksTracked'  BY <1>1 DEF TypeOK, SlotLocksTracked
<1>3. NoDoubleLaunch'
  <2>1. \A x \in Op : launching'[x] = None \/ active'[x] = None
    BY DEF TypeOK, NoDoubleLaunch, Occupies
  <2>2. \A x \in ToSet(queue') : ~InFlight(x)'
    BY DEF TypeOK, NoDoubleLaunch, InFlight
  <2> QED BY <2>1, <2>2 DEF NoDoubleLaunch, Distinct
<1>4. held' = UNION {LocksOf[x] : x \in {y \in Op : Occupies(y)'}}
  BY <1>1 DEF LocksBalanced
<1>5. \A x \in Op : Occupies(x) => LocksOf[x] \cap LocksOf[o] = {}
  BY DEF LocksBalanced, AnyHeld
<1>6. \A x, y \in Op : x # y /\ Occupies(x)' /\ Occupies(y)' =>
          LocksOf[x] \cap LocksOf[y] = {}
  BY <1>1, <1>5 DEF LocksBalanced
<1> QED BY <1>2, <1>3, <1>4, <1>6 DEF LocksBalanced

\* An operation in flight gives its slot and its locks back.
LEMMA SlotReturned ==
    ASSUME SlotLocksTracked, NoDoubleLaunch, LocksBalanced,
           NEW o \in Op, Occupies(o),
           \A x \in Op : Occupies(x)' <=> Occupies(x) /\ x # o,
           \A x \in Op : launching'[x] \in {launching[x], None}
                         /\ active'[x] \in {active[x], None},
           held' = held \ LocksOf[o],
           slotLocks' = [slotLocks EXCEPT ![o] = {}], DOMAIN slotLocks = Op,
           Distinct(queue'), ToSet(queue') \subseteq Op,
           \A x \in ToSet(queue') : x \in ToSet(queue) \/ ~InFlight(x)
    PROVE  SlotLocksTracked' /\ NoDoubleLaunch' /\ LocksBalanced'
<1>1. SlotLocksTracked'  BY DEF SlotLocksTracked
<1>2. NoDoubleLaunch'
  <2>1. \A x \in ToSet(queue') : ~InFlight(x)'
    BY DEF NoDoubleLaunch, InFlight
  <2> QED BY <2>1 DEF NoDoubleLaunch, Distinct
<1>3. held' = UNION {LocksOf[x] : x \in {y \in Op : Occupies(y)'}}
  BY DEF LocksBalanced
<1> QED BY <1>1, <1>2, <1>3 DEF LocksBalanced

-----------------------------------------------------------------------------
LEMMA BooksInit == ASSUME Init PROVE BooksInv
<1>1. TypeOK /\ CallsTracked  BY TypedInit, CallsInit
<1>2. /\ \A o \in Op : launching[o] = None /\ active[o] = None /\ slotLocks[o] = {}
      /\ held = {} /\ queue = << >>
  BY DEF Init
<1>3. ToSet(queue) = {} /\ Len(queue) = 0  BY <1>2 DEF ToSet
<1>4. \A o \in Op : ~Occupies(o)  BY <1>2 DEF Occupies
<1>5. NoDoubleLaunch  BY <1>2, <1>3 DEF NoDoubleLaunch
<1>6. SlotLocksTracked /\ LocksBalanced
  BY <1>2, <1>4 DEF SlotLocksTracked, LocksBalanced
<1> QED BY <1>1, <1>5, <1>6 DEF BooksInv

\* evictWorker: nothing happens to the books, or the worker's slot is returned.
LEMMA Evicts ==
    ASSUME BooksInv, NEW o \in Op, Evict(o), UNCHANGED launching,
           Distinct(queue'), ToSet(queue') \subseteq Op,
           \A x \in ToSet(queue') : x \in ToSet(queue) \/ ~InFlight(x)
    PROVE  SlotLocksTracked' /\ NoDoubleLaunch' /\ LocksBalanced'
<1> USE DEF BooksInv
<1>1. CASE active[o] = None  BY <1>1, QueueStep DEF Evict
<1>2. CASE active[o] # None
  <2>1. Occupies(o) /\ launching[o] = None
    BY <1>2 DEF Occupies, NoDoubleLaunch
  <2>2. /\ active' = [active EXCEPT ![o] = None]
        /\ slotLocks' = [slotLocks EXCEPT ![o] = {}]
        /\ held' = held \ LocksOf[o]
    BY <1>2, <2>1 DEF Evict, EvictedLocks, SlotLocksTracked
  <2>3. \A x \in Op : /\ Occupies(x)' <=> Occupies(x) /\ x # o
                      /\ active'[x] \in {active[x], None}
    BY <2>1, <2>2 DEF TypeOK, Occupies
  <2> QED BY <2>1, <2>2, <2>3, SlotReturned DEF TypeOK
<1> QED BY <1>1, <1>2

LEMMA QueueOfOps == ASSUME TypeOK PROVE ToSet(queue) \subseteq Op
BY ToSetIs DEF TypeOK

LEMMA BooksStep == ASSUME BooksInv, [Next]_vars PROVE BooksInv'
<1> DEFINE Books == SlotLocksTracked /\ NoDoubleLaunch /\ LocksBalanced
<1> USE SchedulerAssumption
<1>q. Distinct(queue) /\ queue \in Seq(Op) /\ ToSet(queue) \subseteq Op
  BY QueueOfOps DEF BooksInv, NoDoubleLaunch, Distinct, TypeOK
<1>1. CASE UNCHANGED vars
  BY <1>1 DEF vars, BooksInv, TypeOK, CallsTracked, SlotLocksTracked,
     NoDoubleLaunch, LocksBalanced, InFlight, Occupies
<1>2. ASSUME UNCHANGED <<launching, active, held, slotLocks, queue>> PROVE Books'
  BY <1>2, <1>q, QueueStep DEF BooksInv
<1>3. ASSUME NEW o \in Op, Enqueue(o), UNCHANGED <<launching, active, held, slotLocks>>
      PROVE  Books'
  BY <1>3, <1>q, EnqueueIs, QueueStep DEF BooksInv
<1>4. ASSUME NEW o \in Op, Submit(o) \/ Resume(o) \/ Vanish(o) \/ CancelQueued(o)
      PROVE  Books'
  BY <1>2, <1>3, <1>4 DEF Submit, Resume, Vanish, CancelQueued
<1>5. ASSUME NEW o \in Op, TimerFires(o) PROVE Books'
  <2>1. CASE UNCHANGED queue  BY <1>2, <1>5, <2>1 DEF TimerFires
  <2>2. CASE o \notin ToSet(queue) /\ queue' = Append(queue, o)
    BY <1>5, <1>q, <2>2, AppendIs, QueueStep DEF TimerFires, BooksInv
  <2> QED BY <1>5, <2>1, <2>2 DEF TimerFires
<1>6. ASSUME NEW o \in Op, RecoverRequeues(o) PROVE Books'
  <2>1. /\ Distinct(queue') /\ ToSet(queue') \subseteq Op
        /\ \A x \in ToSet(queue') : x \in ToSet(queue) \/ ~InFlight(x)
    BY <1>6, <1>q, EnqueueIs DEF RecoverRequeues, BooksInv
  <2> QED BY <1>6, <2>1, Evicts DEF RecoverRequeues
<1>7. ASSUME NEW o \in Op, RecoverEnds(o) \/ RecoverUnreadable(o) PROVE Books'
  BY <1>7, <1>q, Evicts DEF RecoverEnds, RecoverUnreadable
<1>8. ASSUME NEW c \in Call, FactoryResolves(c) PROVE Books'
  <2> DEFINE o == call[c].op
  <2>1. o \in Op /\ launching[o] = c /\ c # None
    BY <1>8 DEF FactoryResolves, BooksInv, CallsTracked
  <2>2. /\ launching' = [launching EXCEPT ![o] = None]
        /\ active' = [active EXCEPT ![o] = c]
        /\ UNCHANGED <<queue, held, slotLocks>>
    BY <1>8, <2>1 DEF FactoryResolves, Unreserve
  <2>3. \A x \in Op : /\ Occupies(x)' <=> Occupies(x)
                      /\ launching'[x] = None \/ active'[x] = None
    BY <2>1, <2>2 DEF BooksInv, TypeOK, Occupies, NoDoubleLaunch
  <2>4. NoDoubleLaunch'
    BY <1>q, <2>2, <2>3 DEF BooksInv, NoDoubleLaunch, InFlight, Occupies
  <2> QED BY <2>2, <2>3, <2>4 DEF BooksInv, SlotLocksTracked, LocksBalanced
<1>9. ASSUME NEW c \in Call, FactoryRejects(c) PROVE Books'
  <2> DEFINE o == call[c].op
  <2>1. o \in Op /\ launching[o] = c /\ c # None /\ active[o] = None
    BY <1>9 DEF FactoryRejects, BooksInv, CallsTracked, NoDoubleLaunch
  <2>2. /\ launching' = [launching EXCEPT ![o] = None] /\ UNCHANGED <<active, queue>>
        /\ held' = held \ LocksOf[o] /\ slotLocks' = [slotLocks EXCEPT ![o] = {}]
    BY <1>9, <2>1 DEF FactoryRejects, Unreserve, GiveBack
  <2>3. Occupies(o) /\ \A x \in Op : Occupies(x)' <=> Occupies(x) /\ x # o
    BY <2>1, <2>2 DEF BooksInv, TypeOK, Occupies
  <2>4. \A x \in Op : launching'[x] \in {launching[x], None}
                     /\ active'[x] \in {active[x], None}
    BY <2>1, <2>2 DEF BooksInv, TypeOK
  <2>5. DOMAIN slotLocks = Op /\ SlotLocksTracked /\ NoDoubleLaunch /\ LocksBalanced
    BY DEF BooksInv, TypeOK
  <2> HIDE DEF o
  <2> QED BY <1>q, <2>1, <2>2, <2>3, <2>4, <2>5, SlotReturned
<1>10. ASSUME NEW c \in Call, WorkerDone(c) PROVE Books'
  <2> DEFINE o == call[c].op
  <2>1. o \in Op /\ UNCHANGED <<launching, queue>> /\ c # None
    BY <1>10 DEF WorkerDone, BooksInv, CallsTracked
  <2>2. CASE active[o] = c
    <3>1. /\ active' = [active EXCEPT ![o] = None]
          /\ held' = held \ LocksOf[o] /\ slotLocks' = [slotLocks EXCEPT ![o] = {}]
      BY <1>10, <2>2 DEF WorkerDone, StillOurs, GiveBack
    <3>2. launching[o] = None  BY <2>1, <2>2 DEF BooksInv, NoDoubleLaunch
    <3>3. Occupies(o) /\ \A x \in Op : Occupies(x)' <=> Occupies(x) /\ x # o
      BY <2>1, <2>2, <3>1, <3>2 DEF BooksInv, TypeOK, Occupies
    <3>4. \A x \in Op : launching'[x] \in {launching[x], None}
                       /\ active'[x] \in {active[x], None}
      BY <2>1, <3>1 DEF BooksInv, TypeOK
    <3>5. DOMAIN slotLocks = Op /\ SlotLocksTracked /\ NoDoubleLaunch /\ LocksBalanced
      BY DEF BooksInv, TypeOK
    <3> HIDE DEF o
    <3> QED BY <1>q, <2>1, <3>1, <3>3, <3>4, <3>5, SlotReturned
  <2>3. CASE active[o] # c
    BY <1>2, <1>10, <2>1, <2>3 DEF WorkerDone, StillOurs
  <2> QED BY <2>2, <2>3
<1>11. ASSUME PumpEnds PROVE Books'
  <2>1. CASE then = None  BY <1>2, <1>11, <2>1 DEF PumpEnds
  <2>2. CASE then # None
    <3>1. then \in Op  BY <2>2 DEF BooksInv, TypeOK
    <3> QED BY <1>3, <1>11, <2>2, <3>1 DEF PumpEnds
  <2> QED BY <2>1, <2>2
<1>12. ASSUME PumpSkips PROVE Books'  BY <1>2, <1>12 DEF PumpSkips
<1>13. ASSUME PumpForgets \/ PumpCancels PROVE Books'
  <2>1. pumpAt \in 1..Len(queue) /\ queue' = RemoveAt(queue, pumpAt)
        /\ UNCHANGED <<launching, active, held, slotLocks>>
    BY <1>13, CandidateIs DEF PumpForgets, PumpCancels, BooksInv
  <2>2. Distinct(queue') /\ ToSet(queue') \subseteq ToSet(queue)
    BY <1>q, <2>1, RemoveAtIs
  <2> QED BY <2>1, <2>2, QueueStep DEF BooksInv
<1>14. ASSUME NEW c \in Call, PumpLaunches(c) PROVE Books'
  <2> DEFINE o == Candidate
  <2>1. pumpAt \in 1..Len(queue) /\ o \in Op /\ o \in ToSet(queue) /\ o = queue[pumpAt]
    BY <1>14, CandidateIs DEF PumpLaunches, BooksInv, Candidate
  <2>2. ~Occupies(o)
    BY <2>1 DEF BooksInv, NoDoubleLaunch, InFlight, Occupies
  <2>3. /\ ~AnyHeld(o) /\ queue' = RemoveAt(queue, pumpAt) /\ UNCHANGED active
        /\ launching' = [launching EXCEPT ![o] = c] /\ held' = held \cup LocksOf[o]
        /\ slotLocks' = [slotLocks EXCEPT ![o] = LocksOf[o]]
    BY <1>14 DEF PumpLaunches
  <2>4. Distinct(queue') /\ ToSet(queue') \subseteq ToSet(queue) \ {o}
    BY <1>q, <2>1, <2>3, RemoveAtIs
  <2> HIDE DEF o
  <2> QED BY <1>q, <2>1, <2>2, <2>3, <2>4, SlotTaken DEF BooksInv
<1>15. CASE Next
  <2>1. TypeOK' /\ CallsTracked'
    BY <1>15, <1>q, TypedStep, CallsStep DEF BooksInv
  <2> QED BY <1>15, <2>1, <1>4, <1>5, <1>6, <1>7, <1>8, <1>9, <1>10, <1>11, <1>12,
             <1>13, <1>14 DEF Next, Pump, BooksInv
<1> QED BY <1>1, <1>15

LEMMA BooksInvariance == Spec => []BooksInv
<1>1. Init => BooksInv  BY BooksInit
<1>2. BooksInv /\ [Next]_vars => BooksInv'  BY BooksStep
<1> QED BY <1>1, <1>2, PTL DEF Spec

-----------------------------------------------------------------------------
(* Lane counters.                                                          *)

\* Who holds a slot of a lane.
Holders(l) == {o \in Op : Occupies(o) /\ LaneOf[o] = l}

\* One operation takes or returns a slot, and the counter of its lane moves.
LEMMA CounterUp ==
    ASSUME IsFiniteSet(Op), TypeOK, SlotsBalanced, NEW o \in Op, ~Occupies(o),
           \A x \in Op : Occupies(x)' <=> Occupies(x) \/ x = o,
           inUse' = [inUse EXCEPT ![LaneOf[o]] = @ + 1]
    PROVE  SlotsBalanced'
<1> SUFFICES ASSUME NEW l \in Lane PROVE inUse'[l] = Cardinality(Holders(l)')
  BY DEF SlotsBalanced, Holders
<1>1. inUse[l] = Cardinality(Holders(l)) /\ l \in DOMAIN inUse
  BY DEF SlotsBalanced, Holders, TypeOK
<1>2. IsFiniteSet(Holders(l)) /\ o \notin Holders(l)
  BY FS_Subset DEF Holders
<1>3. CASE LaneOf[o] = l
  <2>1. Holders(l)' = Holders(l) \cup {o}  BY <1>3 DEF Holders
  <2>2. Cardinality(Holders(l) \cup {o}) = Cardinality(Holders(l)) + 1
    BY <1>2, FS_AddElement
  <2> QED BY <1>1, <1>3, <2>1, <2>2
<1>4. CASE LaneOf[o] # l
  <2>1. Holders(l)' = Holders(l)  BY <1>4 DEF Holders
  <2> QED BY <1>1, <1>4, <2>1
<1> QED BY <1>3, <1>4

LEMMA CounterDown ==
    ASSUME IsFiniteSet(Op), TypeOK, SlotsBalanced, NEW o \in Op, Occupies(o),
           \A x \in Op : Occupies(x)' <=> Occupies(x) /\ x # o,
           inUse' = [inUse EXCEPT ![LaneOf[o]] = Less(@)]
    PROVE  SlotsBalanced'
<1> SUFFICES ASSUME NEW l \in Lane PROVE inUse'[l] = Cardinality(Holders(l)')
  BY DEF SlotsBalanced, Holders
<1>1. inUse[l] = Cardinality(Holders(l)) /\ l \in DOMAIN inUse
  BY DEF SlotsBalanced, Holders, TypeOK
<1>2. IsFiniteSet(Holders(l))
  BY FS_Subset DEF Holders
<1>3. CASE LaneOf[o] = l
  <2>1. o \in Holders(l) /\ Holders(l)' = Holders(l) \ {o}  BY <1>3 DEF Holders
  <2>2. Cardinality(Holders(l) \ {o}) = Cardinality(Holders(l)) - 1
    BY <1>2, <2>1, FS_RemoveElement
  <2>3. Cardinality(Holders(l)) # 0 /\ Cardinality(Holders(l)) \in Nat
    BY <1>2, <2>1, FS_EmptySet, FS_CardinalityType
  <2> QED BY <1>1, <1>3, <2>1, <2>2, <2>3 DEF Less
<1>4. CASE LaneOf[o] # l
  <2>1. Holders(l)' = Holders(l)  BY <1>4 DEF Holders
  <2> QED BY <1>1, <1>4, <2>1
<1> QED BY <1>3, <1>4

LEMMA CounterStays ==
    ASSUME SlotsBalanced, UNCHANGED inUse,
           \A x \in Op : Occupies(x)' <=> Occupies(x)
    PROVE  SlotsBalanced'
BY DEF SlotsBalanced

\* What each step does to who occupies a slot.
LEMMA FactoryKeepsSlot ==
    ASSUME BooksInv, NEW c \in Call, FactoryResolves(c)
    PROVE  \A x \in Op : Occupies(x)' <=> Occupies(x)
<1>1. call[c].op \in Op /\ launching[call[c].op] = c /\ c # None
  BY SchedulerAssumption DEF FactoryResolves, BooksInv, CallsTracked
<1> QED BY <1>1 DEF FactoryResolves, Unreserve, BooksInv, TypeOK, Occupies

LEMMA SlotsInit == ASSUME IsFiniteSet(Op), Init PROVE SlotsBalanced
<1>1. \A o \in Op : ~Occupies(o)  BY DEF Init, Occupies
<1>2. \A l \in Lane : {o \in Op : Occupies(o) /\ LaneOf[o] = l} = {}  BY <1>1
<1> QED BY <1>2, FS_EmptySet DEF Init, SlotsBalanced

LEMMA SlotsStep ==
    ASSUME IsFiniteSet(Op), Unreadable = {}, BooksInv, SlotsBalanced, [Next]_vars
    PROVE  SlotsBalanced'
<1> USE SchedulerAssumption
<1>t. TypeOK  BY DEF BooksInv
<1>1. ASSUME UNCHANGED <<launching, active, inUse>> PROVE SlotsBalanced'
  BY <1>1, CounterStays DEF Occupies
<1>2. ASSUME NEW o \in Op, Evict(o), UNCHANGED launching, row'[o] # "gone"
      PROVE  SlotsBalanced'
  <2>1. CASE active[o] = None  BY <1>1, <1>2, <2>1 DEF Evict
  <2>2. CASE active[o] # None
    <3>1. launching[o] = None /\ Occupies(o)
      BY <2>2 DEF BooksInv, NoDoubleLaunch, Occupies
    <3>2. /\ active' = [active EXCEPT ![o] = None]
          /\ inUse' = [inUse EXCEPT ![LaneOf[o]] = Less(@)]
      BY <1>2, <2>2 DEF Evict
    <3>3. \A x \in Op : Occupies(x)' <=> Occupies(x) /\ x # o
      BY <1>2, <1>t, <3>1, <3>2 DEF TypeOK, Occupies
    <3> QED BY <1>t, <3>1, <3>2, <3>3, CounterDown
  <2> QED BY <2>1, <2>2
<1>3. ASSUME NEW c \in Call, FactoryRejects(c) PROVE SlotsBalanced'
  <2> DEFINE o == call[c].op
  <2>1. o \in Op /\ launching[o] = c /\ c # None /\ active[o] = None
    BY <1>3 DEF FactoryRejects, BooksInv, CallsTracked, NoDoubleLaunch
  <2>2. /\ launching' = [launching EXCEPT ![o] = None] /\ UNCHANGED active
        /\ inUse' = [inUse EXCEPT ![LaneOf[o]] = Less(@)]
    BY <1>3, <2>1 DEF FactoryRejects, Unreserve, GiveBack
  <2>3. Occupies(o) /\ \A x \in Op : Occupies(x)' <=> Occupies(x) /\ x # o
    BY <1>t, <2>1, <2>2 DEF TypeOK, Occupies
  <2> HIDE DEF o
  <2> QED BY <1>t, <2>1, <2>2, <2>3, CounterDown
<1>4. ASSUME NEW c \in Call, WorkerDone(c) PROVE SlotsBalanced'
  <2> DEFINE o == call[c].op
  <2>1. o \in Op /\ UNCHANGED launching /\ c # None
    BY <1>4 DEF WorkerDone, BooksInv, CallsTracked
  <2>2. CASE active[o] = c
    <3>1. /\ active' = [active EXCEPT ![o] = None]
          /\ inUse' = [inUse EXCEPT ![LaneOf[o]] = Less(@)]
      BY <1>4, <2>2 DEF WorkerDone, StillOurs, GiveBack
    <3>2. launching[o] = None  BY <2>1, <2>2 DEF BooksInv, NoDoubleLaunch
    <3>3. Occupies(o) /\ \A x \in Op : Occupies(x)' <=> Occupies(x) /\ x # o
      BY <1>t, <2>1, <2>2, <3>1, <3>2 DEF TypeOK, Occupies
    <3> HIDE DEF o
    <3> QED BY <1>t, <2>1, <3>1, <3>3, CounterDown
  <2>3. CASE active[o] # c
    BY <1>1, <1>4, <2>1, <2>3 DEF WorkerDone, StillOurs
  <2> QED BY <2>2, <2>3
<1>5. ASSUME NEW c \in Call, PumpLaunches(c) PROVE SlotsBalanced'
  <2> DEFINE o == Candidate
  <2>1. o \in Op /\ ~Occupies(o)
    BY <1>5, <1>t, CandidateIs
    DEF PumpLaunches, BooksInv, NoDoubleLaunch, InFlight, Occupies
  <2>2. /\ launching' = [launching EXCEPT ![o] = c] /\ UNCHANGED active
        /\ inUse' = [inUse EXCEPT ![LaneOf[o]] = @ + 1] /\ c # None
    BY <1>5 DEF PumpLaunches
  <2> HIDE DEF o
  <2>3. \A x \in Op : Occupies(x)' <=> Occupies(x) \/ x = o
    BY <1>t, <2>1, <2>2 DEF TypeOK, Occupies
  <2> QED BY <1>t, <2>1, <2>2, <2>3, CounterUp
<1>6. ASSUME NEW o \in Op,
             \/ Submit(o) \/ Resume(o) \/ Vanish(o) \/ CancelQueued(o) \/ TimerFires(o)
      PROVE  SlotsBalanced'
  BY <1>1, <1>6 DEF Submit, Resume, Vanish, CancelQueued, TimerFires
<1>7. ASSUME NEW o \in Op, RecoverRequeues(o) \/ RecoverEnds(o)
      PROVE  SlotsBalanced'
  BY <1>2, <1>7, <1>t DEF RecoverRequeues, RecoverEnds, TypeOK
<1>8. ASSUME NEW c \in Call, FactoryResolves(c) PROVE SlotsBalanced'
  BY <1>8, FactoryKeepsSlot, CounterStays DEF FactoryResolves
<1>9. ASSUME PumpEnds \/ PumpSkips \/ PumpForgets \/ PumpCancels PROVE SlotsBalanced'
  BY <1>1, <1>9 DEF PumpEnds, PumpSkips, PumpForgets, PumpCancels
<1>10. ASSUME NEW o \in Op PROVE ~RecoverUnreadable(o)  BY DEF RecoverUnreadable
<1> QED BY <1>1, <1>3, <1>4, <1>5, <1>6, <1>7, <1>8, <1>9, <1>10
        DEF Next, Pump, vars

-----------------------------------------------------------------------------
(* No pump pass leaves behind what it could have launched.                 *)

\* The entries the running pass has gone by cannot run.
PassedOver ==
    ~Idle => \A i \in 1..Len(queue) :
                i < pumpAt => LaneFull(queue[i]) \/ AnyHeld(queue[i])

\* A step that starts a pass has nothing to answer for yet.
LEMMA PassBegins ==
    ASSUME TypeOK', pumpAt' = 1 PROVE PassedOver' /\ WorkConserving'
BY DEF TypeOK, PassedOver, WorkConserving, Idle

\* Between passes nothing is queued, freed or taken.
LEMMA NothingFreed ==
    ASSUME PassedOver, WorkConserving, UNCHANGED <<queue, pumpAt, inUse, held>>,
           InFlightCount' = InFlightCount
    PROVE  PassedOver' /\ WorkConserving'
BY DEF PassedOver, WorkConserving, Idle, LaneFull, AnyHeld, GlobalFull

\* FactoryResolves turns a reservation into a worker: as many are in flight.
LEMMA FactoryKeepsCount ==
    ASSUME IsFiniteSet(Op), BooksInv, NEW c \in Call, FactoryResolves(c)
    PROVE  InFlightCount' = InFlightCount
<1> USE SchedulerAssumption
<1> DEFINE o == call[c].op
           L == {x \in Op : launching[x] # None}
           A == {x \in Op : active[x] # None}
<1>1. o \in Op /\ launching[o] = c /\ c # None /\ active[o] = None
  BY DEF FactoryResolves, BooksInv, CallsTracked, NoDoubleLaunch
<1>2. /\ launching' = [launching EXCEPT ![o] = None]
      /\ active' = [active EXCEPT ![o] = c]
  BY <1>1 DEF FactoryResolves, Unreserve
<1>3. L' = L \ {o} /\ A' = A \cup {o} /\ o \in L /\ o \notin A
  BY <1>1, <1>2 DEF BooksInv, TypeOK
<1>4. IsFiniteSet(L) /\ IsFiniteSet(A)  BY FS_Subset
<1>5. InFlightCount = Cardinality(L) + Cardinality(A)  BY DEF InFlightCount
<1>6. InFlightCount' = Cardinality(L') + Cardinality(A')  BY DEF InFlightCount
<1> HIDE DEF L, A, o
<1>7. Cardinality(L') = Cardinality(L) - 1  BY <1>3, <1>4, FS_RemoveElement
<1>8. Cardinality(A') = Cardinality(A) + 1  BY <1>3, <1>4, FS_AddElement
<1>9. Cardinality(L) \in Nat /\ Cardinality(A) \in Nat  BY <1>4, FS_CardinalityType
<1> QED BY <1>5, <1>6, <1>7, <1>8, <1>9

\* A pass that takes an entry out, and frees nothing, has still gone by the same.
LEMMA PassShortens ==
    ASSUME TypeOK, TypeOK', PassedOver, ~Idle, UNCHANGED pumpAt,
           pumpAt \in 1..Len(queue), queue' = RemoveAt(queue, pumpAt),
           held \subseteq held', \A l \in Lane : inUse'[l] >= inUse[l]
    PROVE  PassedOver' /\ WorkConserving'
<1> USE SchedulerAssumption
<1>1. queue \in Seq(Op) /\ Len(queue) \in Nat /\ pumpAt \in Nat  BY DEF TypeOK
<1>2. Len(queue') = Len(queue) - 1  BY <1>1, RemoveAtIs
<1>3. ASSUME NEW i \in 1..Len(queue'), i < pumpAt
      PROVE  queue'[i] = queue[i] /\ i \in 1..Len(queue) /\ queue[i] \in Op
  <2>1. i \in 1..(Len(queue) - 1) /\ i \in 1..Len(queue)  BY <1>1, <1>2
  <2>2. RemoveAt(queue, pumpAt)[i] = queue[i]  BY <1>1, <1>3, <2>1, RemoveAtIs
  <2> QED BY <1>1, <2>1, <2>2
<1>4. ASSUME NEW o \in Op, LaneFull(o) PROVE inUse'[LaneOf[o]] >= LaneCap[LaneOf[o]]
  <2> DEFINE l == LaneOf[o]
  <2>1. l \in Lane /\ LaneCap[l] \in Nat  OBVIOUS
  <2>2. inUse[l] \in Nat /\ inUse'[l] \in Nat  BY <2>1 DEF TypeOK
  <2>3. inUse[l] >= LaneCap[l]  BY <1>4 DEF LaneFull
  <2>4. inUse'[l] >= inUse[l]  BY <2>1
  <2> QED BY <2>1, <2>2, <2>3, <2>4
<1>5. ASSUME NEW o \in Op, AnyHeld(o) PROVE LocksOf[o] \cap held' # {}
  BY <1>5 DEF AnyHeld
<1>6. ~Idle'  BY DEF Idle
<1>7. ASSUME NEW i \in 1..Len(queue'), i < pumpAt
      PROVE  \/ inUse'[LaneOf[queue'[i]]] >= LaneCap[LaneOf[queue'[i]]]
             \/ LocksOf[queue'[i]] \cap held' # {}
  <2>1. queue'[i] = queue[i] /\ i \in 1..Len(queue) /\ queue[i] \in Op  BY <1>3, <1>7
  <2>2. LaneFull(queue[i]) \/ AnyHeld(queue[i])  BY <1>7, <2>1 DEF PassedOver
  <2> QED BY <1>4, <1>5, <2>1, <2>2
<1> QED BY <1>6, <1>7 DEF PassedOver, WorkConserving, LaneFull, AnyHeld

LEMMA ConservingInit == ASSUME Init PROVE PassedOver /\ WorkConserving
<1>1. queue = << >> /\ pumpAt = 0  BY DEF Init
<1>2. ToSet(queue) = {}  BY <1>1 DEF ToSet
<1> QED BY <1>1, <1>2 DEF PassedOver, WorkConserving, Idle

LEMMA ConservingStep ==
    ASSUME IsFiniteSet(Op), BooksInv, BooksInv', PassedOver, WorkConserving, [Next]_vars
    PROVE  PassedOver' /\ WorkConserving'
<1> USE SchedulerAssumption
<1>y. TypeOK /\ TypeOK'  BY DEF BooksInv
<1>q. queue \in Seq(Op) /\ pumpAt \in Nat  BY <1>y DEF TypeOK
<1>t. /\ TypeOK /\ TypeOK' /\ queue \in Seq(Op) /\ Len(queue) \in Nat
      /\ pumpAt \in Nat /\ \A i \in 1..Len(queue) : queue[i] \in Op
  BY <1>y, <1>q
<1>1. ASSUME UNCHANGED <<queue, pumpAt, inUse, held, launching, active>>
      PROVE  PassedOver' /\ WorkConserving'
  BY <1>1, NothingFreed DEF InFlightCount
<1>2. ASSUME NEW o \in Op,
             Submit(o) \/ Resume(o) \/ RecoverRequeues(o) \/ RecoverUnreadable(o)
      PROVE  PassedOver' /\ WorkConserving'
  BY <1>2, <1>t, PassBegins
  DEF Submit, Resume, RecoverRequeues, RecoverUnreadable, Pumps
<1>3. ASSUME NEW o \in Op, Vanish(o) \/ CancelQueued(o) \/ TimerFires(o)
      PROVE  PassedOver' /\ WorkConserving'
  <2>1. \/ pumpAt' = 1
        \/ UNCHANGED <<queue, pumpAt, inUse, held, launching, active>>
    BY <1>3 DEF Vanish, CancelQueued, TimerFires, Pumps
  <2> QED BY <1>1, <1>t, <2>1, PassBegins
<1>4. ASSUME NEW o \in Op, RecoverEnds(o) PROVE PassedOver' /\ WorkConserving'
  <2>1. \/ pumpAt' = 1
        \/ UNCHANGED <<queue, pumpAt, inUse, held, launching, active>>
    BY <1>4 DEF RecoverEnds, Evict, Idle
  <2> QED BY <1>1, <1>t, <2>1, PassBegins
<1>5. ASSUME NEW c \in Call, FactoryResolves(c) PROVE PassedOver' /\ WorkConserving'
  BY <1>5, FactoryKeepsCount, NothingFreed DEF FactoryResolves
<1>6. ASSUME NEW c \in Call, FactoryRejects(c) \/ WorkerDone(c)
      PROVE  PassedOver' /\ WorkConserving'
  BY <1>6, <1>t, PassBegins DEF FactoryRejects, WorkerDone, Repump, Pumps
<1>7. ASSUME PumpEnds PROVE PassedOver' /\ WorkConserving'
  <2>1. CASE then # None  BY <1>7, <1>t, <2>1, PassBegins DEF PumpEnds, Pumps
  <2>2. CASE then = None
    <3>1. pumpAt' = 0 /\ UNCHANGED <<queue, launching, active, inUse, held>>
      BY <1>7, <2>2 DEF PumpEnds
    <3>2. GlobalFull' <=> GlobalFull  BY <3>1 DEF GlobalFull, InFlightCount
    <3>3. ASSUME ~GlobalFull, NEW o \in ToSet(queue) PROVE LaneFull(o) \/ AnyHeld(o)
      <4>1. PICK i \in 1..Len(queue) : queue[i] = o  BY <1>t, ToSetIs
      <4>2. ~Idle /\ i < pumpAt
        BY <1>7, <1>t, <3>3 DEF PumpEnds, Pumping, Idle
      <4> QED BY <4>1, <4>2 DEF PassedOver
    <3> QED BY <3>1, <3>2, <3>3 DEF PassedOver, WorkConserving, Idle, LaneFull, AnyHeld
  <2> QED BY <2>1, <2>2
<1>8. ASSUME PumpSkips PROVE PassedOver' /\ WorkConserving'
  <2>1. /\ LaneFull(queue[pumpAt]) \/ AnyHeld(queue[pumpAt])
        /\ pumpAt' = pumpAt + 1 /\ ~Idle /\ UNCHANGED <<queue, inUse, held>>
    BY <1>8 DEF PumpSkips, Candidate, Looks, Pumping
  <2>2. \A i \in 1..Len(queue) :
           i < pumpAt + 1 => LaneFull(queue[i]) \/ AnyHeld(queue[i])
    BY <1>t, <2>1 DEF PassedOver
  <2>3. ~Idle'  BY <1>t, <2>1 DEF Idle
  <2> QED BY <2>1, <2>2, <2>3 DEF PassedOver, WorkConserving, LaneFull, AnyHeld
<1>9. ASSUME ~Idle, UNCHANGED pumpAt, pumpAt \in 1..Len(queue),
             queue' = RemoveAt(queue, pumpAt), held \subseteq held',
             \A l \in Lane : inUse'[l] >= inUse[l]
      PROVE  PassedOver' /\ WorkConserving'
  BY <1>9, <1>t, PassShortens
<1>10. ASSUME PumpForgets \/ PumpCancels PROVE PassedOver' /\ WorkConserving'
  BY SMTT(60), <1>9, <1>10, <1>t, CandidateIs
  DEF PumpForgets, PumpCancels, Looks, Pumping, TypeOK
<1>11. ASSUME NEW c \in Call, PumpLaunches(c) PROVE PassedOver' /\ WorkConserving'
  <2>1. \A l \in Lane : inUse'[l] >= inUse[l]
    BY <1>11, <1>t DEF PumpLaunches, TypeOK
  <2> QED BY <1>9, <1>11, <1>t, <2>1, CandidateIs DEF PumpLaunches, Looks, Pumping
<1>12. CASE UNCHANGED vars  BY <1>1, <1>12 DEF vars
<1> QED BY <1>2, <1>3, <1>4, <1>5, <1>6, <1>7, <1>8, <1>10, <1>11, <1>12
        DEF Next, Pump

-----------------------------------------------------------------------------
\* Every variable of the scheduler keeps its type, and no lane counter passes
\* its cap.
THEOREM SchedulerTypes == Spec => []TypeOK
<1>1. BooksInv => TypeOK  BY DEF BooksInv
<1> QED BY <1>1, BooksInvariance, PTL

\* enqueueOp, the retry timer, recovery and the pump between them never launch
\* an operation that is in flight, nor queue it twice.
THEOREM LaunchedOnce == Spec => []NoDoubleLaunch
<1>1. BooksInv => NoDoubleLaunch  BY DEF BooksInv
<1> QED BY <1>1, BooksInvariance, PTL

\* Singleton resources: no two users, and none stranded, also when recovery
\* evicts a worker whose row it cannot read (activeLocks).
THEOREM LocksAreBalanced == Spec => []LocksBalanced
<1>1. BooksInv => LocksBalanced  BY DEF BooksInv
<1> QED BY <1>1, BooksInvariance, PTL

\* Lane slots are neither leaked nor given back twice, as long as evictWorker
\* can read the rows of the workers it evicts.
THEOREM SlotsAreBalanced ==
    ASSUME IsFiniteSet(Op), Unreadable = {} PROVE Spec => []SlotsBalanced
<1>1. Init => SlotsBalanced  BY SlotsInit
<1>2. BooksInv /\ SlotsBalanced /\ [Next]_vars => SlotsBalanced'  BY SlotsStep
<1> QED BY <1>1, <1>2, BooksInvariance, PTL DEF Spec

\* Whatever frees a slot, a lock or the global cap pumps the queue: between
\* passes nothing that could run is left in it.
THEOREM SchedulerConservesWork ==
    ASSUME IsFiniteSet(Op) PROVE Spec => []WorkConserving
<1> DEFINE Inv == PassedOver /\ WorkConserving
<1>1. Init => Inv  BY ConservingInit
<1>2. BooksInv /\ BooksInv' /\ Inv /\ [Next]_vars => Inv'  BY ConservingStep
<1>3. Inv => WorkConserving  OBVIOUS
<1> HIDE DEF Inv
<1> QED BY <1>1, <1>2, <1>3, BooksInvariance, PTL DEF Spec
=============================================================================
