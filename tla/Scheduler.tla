------------------------------ MODULE Scheduler ------------------------------
(***************************************************************************)
(* The canonical-loop scheduler of one process: the queue, the lane slots, *)
(* the singleton resource locks, launches in flight, retry timers, and     *)
(* eviction by recovery, for many operations at once.  How one operation   *)
(* is driven is the subject of CanonicalLoop; here a worker only begins,   *)
(* ends, or is replaced.                                                   *)
(*                                                                         *)
(* pumpScheduler is one synchronous pass over the queue.  It is modelled   *)
(* one queue entry per step; pumpAt is its index (0: no pass is running)   *)
(* and no other handler of the process runs during a pass.                 *)
(***************************************************************************)
EXTENDS Integers, FiniteSets, SequencesExt

CONSTANTS Op, Lane,
          Lock,        \* names of singleton resources
          Call,        \* identities of launch() calls in flight
          None,
          LaneOf,      \* the lane of each operation
          LocksOf,     \* the singleton resources it declares
          LaneCap,     \* laneCap
          GlobalCap,   \* globalCap
          Unreadable,  \* operations whose row may be gone when recovery reads it
          MaxEvents    \* bound: retries, resumes, refused and lost leases

ASSUME SchedulerAssumption ==
    /\ LaneOf \in [Op -> Lane] /\ LocksOf \in [Op -> SUBSET Lock]
    /\ LaneCap \in [Lane -> Nat \ {0}] /\ GlobalCap \in Nat \ {0}
    /\ Unreadable \subseteq Op /\ None \notin Op \cup Call
    /\ MaxEvents \in Nat

VARIABLES row,        \* what the disk says of each operation
          cancel,     \* its cancel signal
          queue,      \* the in-memory queue
          launching,  \* the launch that reserved a slot and awaits its factory
          active,     \* the launch whose worker is registered
          inUse,      \* activeByLane
          held,       \* the held resource locks
          slotLocks,  \* activeLocks: what each slot has to release
          timer,      \* deferred: operations with a retry timer
          call,       \* the launch() calls in flight
          pumpAt,     \* index of the running pump pass, 0 when none runs
          then,       \* recovery enqueues this one after its eviction's pump
          budget      \* environment events still allowed

vars == <<row, cancel, queue, launching, active, inUse, held, slotLocks,
          timer, call, pumpAt, then, budget>>

NoCall == [op |-> None, phase |-> "free"]

TypeOK ==
    /\ row \in [Op -> {"new", "queued", "running", "paused", "ended", "gone"}]
    /\ cancel \in [Op -> BOOLEAN]
    /\ queue \in Seq(Op)
    /\ launching \in [Op -> Call \cup {None}]
    /\ active \in [Op -> Call \cup {None}]
    /\ \A l \in Lane : inUse[l] \in 0..LaneCap[l]
    /\ DOMAIN inUse = Lane
    /\ held \subseteq Lock
    /\ slotLocks \in [Op -> SUBSET Lock]
    /\ timer \subseteq Op
    /\ call \in [Call -> [op: Op \cup {None}, phase: {"free", "factory", "driving"}]]
    /\ pumpAt \in Nat
    /\ then \in Op \cup {None}
    /\ budget \in 0..MaxEvents

InFlight(o) == launching[o] # None \/ active[o] # None
InFlightCount == Cardinality({o \in Op : launching[o] # None})
                   + Cardinality({o \in Op : active[o] # None})
Idle == pumpAt = 0
Pumps == pumpAt' = 1

Disturb == budget > 0 /\ budget' = budget - 1

\* Math.max(0, ...) of the lane counter.
Less(n) == IF n = 0 THEN 0 ELSE n - 1

Init ==
    /\ row = [o \in Op |-> "new"]
    /\ cancel = [o \in Op |-> FALSE]
    /\ queue = << >>
    /\ launching = [o \in Op |-> None] /\ active = [o \in Op |-> None]
    /\ inUse = [l \in Lane |-> 0]
    /\ held = {} /\ slotLocks = [o \in Op |-> {}]
    /\ timer = {}
    /\ call = [c \in Call |-> NoCall]
    /\ pumpAt = 0 /\ then = None
    /\ budget = MaxEvents

-----------------------------------------------------------------------------
(* The queue *)

\* enqueueOp.  Mutated form: an operation under construction is not seen.
Enqueue_ActiveOnly(o) ==
    IF active[o] # None \/ o \in ToSet(queue)
    THEN UNCHANGED <<queue, timer>>
    ELSE queue' = Append(queue, o) /\ timer' = timer \ {o}
Enqueue(o) ==
    IF InFlight(o) \/ o \in ToSet(queue)
    THEN UNCHANGED <<queue, timer>>
    ELSE queue' = Append(queue, o) /\ timer' = timer \ {o}

Submit(o) ==
    /\ Idle /\ row[o] = "new"
    /\ row' = [row EXCEPT ![o] = "queued"]
    /\ Enqueue(o) /\ Pumps
    /\ UNCHANGED <<cancel, launching, active, inUse, held, slotLocks, call,
                   then, budget>>

\* The row of a queued operation cannot be read any more.
Vanish(o) ==
    /\ Idle /\ o \in Unreadable /\ row[o] = "queued"
    /\ Disturb
    /\ row' = [row EXCEPT ![o] = "gone"]
    /\ UNCHANGED <<cancel, queue, launching, active, inUse, held, slotLocks,
                   timer, call, pumpAt, then>>

Resume(o) ==
    /\ Idle /\ row[o] = "paused"
    /\ Disturb
    /\ row' = [row EXCEPT ![o] = "queued"]
    /\ Enqueue(o) /\ Pumps
    /\ UNCHANGED <<cancel, launching, active, inUse, held, slotLocks, call, then>>

\* opCancel of a queued operation: the signal, then wakeQueuedOp.
CancelQueued(o) ==
    /\ Idle /\ row[o] = "queued" /\ ~cancel[o]
    /\ cancel' = [cancel EXCEPT ![o] = TRUE]
    /\ timer' = timer \cup {o}
    /\ UNCHANGED <<row, queue, launching, active, inUse, held, slotLocks, call,
                   pumpAt, then, budget>>

\* scheduleQueuedRetry's timer; while the operation is in flight it re-arms.
TimerFires(o) ==
    /\ Idle /\ o \in timer /\ ~InFlight(o)
    /\ timer' = timer \ {o}
    /\ IF row[o] # "queued" THEN UNCHANGED <<queue, pumpAt>>
       ELSE /\ queue' = IF o \in ToSet(queue) THEN queue ELSE Append(queue, o)
            /\ Pumps
    /\ UNCHANGED <<row, cancel, launching, active, inUse, held, slotLocks, call,
                   then, budget>>

-----------------------------------------------------------------------------
(* pumpScheduler *)

Pumping == ~Idle
GlobalFull == InFlightCount >= GlobalCap
Candidate == queue[pumpAt]
Looks == Pumping /\ pumpAt <= Len(queue) /\ ~GlobalFull

\* Mutated form: one too many.
LaneFull_OffByOne(o) == inUse[LaneOf[o]] > LaneCap[LaneOf[o]]
LaneFull(o) == inUse[LaneOf[o]] >= LaneCap[LaneOf[o]]

\* applyPreLeaseCancel, by the pump and again by drive().  Mutated form: only an
\* operation that was paused is cancelled before its lease.
HonoursCancel_Paused(o) == cancel[o] /\ row[o] = "paused"
HonoursCancel(o) == cancel[o]

\* anyHeld.  Mutated form: only an operation with every lock held is skipped.
AnyHeld_All(o) == LocksOf[o] # {} /\ LocksOf[o] \subseteq held
AnyHeld(o) == LocksOf[o] \cap held # {}

\* The pass ends; a recovery whose eviction pumped goes on to enqueue and pump.
PumpEnds ==
    /\ Pumping /\ (pumpAt > Len(queue) \/ GlobalFull)
    /\ IF then = None
       THEN pumpAt' = 0 /\ UNCHANGED <<queue, timer, then>>
       ELSE Enqueue(then) /\ Pumps /\ then' = None
    /\ UNCHANGED <<row, cancel, launching, active, inUse, held, slotLocks, call,
                   budget>>

PumpSkips ==
    /\ Looks
    /\ \/ LaneFull(Candidate)
       \/ ~LaneFull(Candidate) /\ row[Candidate] # "gone" /\ ~HonoursCancel(Candidate) /\ AnyHeld(Candidate)
    /\ pumpAt' = pumpAt + 1
    /\ UNCHANGED <<row, cancel, queue, launching, active, inUse, held, slotLocks,
                   timer, call, then, budget>>

PumpForgets ==
    /\ Looks /\ ~LaneFull(Candidate) /\ row[Candidate] = "gone"
    /\ queue' = RemoveAt(queue, pumpAt)
    /\ UNCHANGED <<row, cancel, launching, active, inUse, held, slotLocks, timer,
                   call, pumpAt, then, budget>>

\* applyPreLeaseCancel: the illegal transition of one no longer queued is dropped.
PumpCancels ==
    /\ Looks /\ ~LaneFull(Candidate) /\ row[Candidate] # "gone" /\ HonoursCancel(Candidate)
    /\ cancel' = [cancel EXCEPT ![Candidate] = FALSE]
    /\ row' = IF row[Candidate] \in {"queued", "paused"}
              THEN [row EXCEPT ![Candidate] = "ended"] ELSE row
    /\ queue' = RemoveAt(queue, pumpAt)
    /\ UNCHANGED <<launching, active, inUse, held, slotLocks, timer, call,
                   pumpAt, then, budget>>

FreeCall == CHOOSE c \in Call : call[c] = NoCall

\* Reserve the slot and its locks, and call launch().
PumpLaunches(c) ==
    /\ Looks /\ call[c] = NoCall /\ c = FreeCall
    /\ ~LaneFull(Candidate) /\ row[Candidate] # "gone" /\ ~HonoursCancel(Candidate) /\ ~AnyHeld(Candidate)
    /\ inUse' = [inUse EXCEPT ![LaneOf[Candidate]] = @ + 1]
    /\ launching' = [launching EXCEPT ![Candidate] = c]
    /\ held' = held \cup LocksOf[Candidate]
    /\ slotLocks' = [slotLocks EXCEPT ![Candidate] = LocksOf[Candidate]]
    /\ call' = [call EXCEPT ![c] = [op |-> Candidate, phase |-> "factory"]]
    /\ queue' = RemoveAt(queue, pumpAt)
    /\ UNCHANGED <<row, cancel, active, timer, pumpAt, then, budget>>

-----------------------------------------------------------------------------
(* launch() *)

\* The reservation is released only by the launch that made it.
Unreserve(o, c) ==
    launching' = [launching EXCEPT ![o] = IF @ = c THEN None ELSE @]

\* launch's finally gives back the slot, its locks and its map entry.  Mutated
\* form: the locks are not released.
GiveBack_KeepLocks(o) ==
    /\ inUse' = [inUse EXCEPT ![LaneOf[o]] = Less(@)]
    /\ slotLocks' = [slotLocks EXCEPT ![o] = {}]
    /\ UNCHANGED held
GiveBack(o) ==
    /\ inUse' = [inUse EXCEPT ![LaneOf[o]] = Less(@)]
    /\ slotLocks' = [slotLocks EXCEPT ![o] = {}]
    /\ held' = held \ LocksOf[o]

\* launch's finally pumps: what was skipped on this lock or lane retries now.
\* Mutated form: it does not.
Repump_Missing == UNCHANGED pumpAt
Repump == Pumps

\* The adapter is built and the worker registered; its first block either honours
\* a cancel, leases the operation and runs it, or finds the lease refused.
FactoryResolves(c) ==
    LET o == call[c].op IN
    /\ Idle /\ call[c].phase = "factory"
    /\ Unreserve(o, c)
    /\ active' = [active EXCEPT ![o] = c]
    /\ call' = [call EXCEPT ![c].phase = "driving"]
    /\ \/ /\ row[o] = "queued"
          /\ row' = [row EXCEPT ![o] = IF HonoursCancel(o) THEN "ended" ELSE "running"]
          /\ cancel' = [cancel EXCEPT ![o] = @ /\ ~HonoursCancel(o)]
          /\ UNCHANGED budget
       \/ /\ row[o] # "queued"
          /\ UNCHANGED <<row, cancel, budget>>
       \/ /\ row[o] = "queued"
          /\ Disturb
          /\ UNCHANGED <<row, cancel>>
    /\ UNCHANGED <<queue, inUse, held, slotLocks, timer, pumpAt, then>>

\* launch's finally with no handle, and recoverRejectedExecutionLaunch.
FactoryRejects(c) ==
    LET o == call[c].op IN
    /\ Idle /\ call[c].phase = "factory"
    /\ Disturb
    /\ Unreserve(o, c) /\ GiveBack(o)
    /\ row' = IF row[o] = "queued" THEN [row EXCEPT ![o] = "ended"] ELSE row
    /\ call' = [call EXCEPT ![c] = NoCall]
    /\ Repump
    /\ UNCHANGED <<cancel, queue, active, timer, then>>

\* stillOurs: recovery has not given the slot to a replacement.  Mutated form: the
\* finally does not ask.
StillOurs_Always(o, c) == c \in Call
StillOurs(o, c) == active[o] = c

\* The worker's promise settles: the operation ended, paused, waits for a retry,
\* or was left as it is.  launch's finally gives the slot back, if it is still ours.
WorkerDone(c) ==
    LET o == call[c].op IN
    /\ Idle /\ call[c].phase = "driving"
    /\ \/ /\ row[o] = "running" /\ active[o] = c
          /\ \E to \in {"ended", "paused"} : row' = [row EXCEPT ![o] = to]
          /\ UNCHANGED <<timer, budget>>
       \/ /\ row[o] \in {"running", "queued"} /\ active[o] = c
          /\ Disturb
          /\ row' = [row EXCEPT ![o] = "queued"]
          /\ timer' = timer \cup {o}
       \/ UNCHANGED <<row, timer, budget>>  \* it left the operation as it was
    /\ IF StillOurs(o, c)
       THEN /\ active' = [active EXCEPT ![o] = None]
            /\ GiveBack(o)
       ELSE UNCHANGED <<active, inUse, held, slotLocks>>
    /\ call' = [call EXCEPT ![c] = NoCall]
    /\ Repump
    /\ UNCHANGED <<cancel, queue, launching, then>>

-----------------------------------------------------------------------------
(* Recovery *)

\* evictWorker releases what activeLocks recorded.  Mutated form: what the row on
\* disk declares.
EvictedLocks_FromRow(o) == IF row'[o] = "gone" THEN {} ELSE LocksOf[o]
EvictedLocks(o) == slotLocks[o]

\* evictWorker: the lane, unlike the locks, comes from the row on disk.
Evict(o) ==
    IF active[o] = None
    THEN UNCHANGED <<active, inUse, held, slotLocks>>
    ELSE /\ active' = [active EXCEPT ![o] = None]
         /\ held' = held \ EvictedLocks(o)
         /\ slotLocks' = [slotLocks EXCEPT ![o] = {}]
         /\ inUse' = IF row'[o] = "gone" THEN inUse
                     ELSE [inUse EXCEPT ![LaneOf[o]] = Less(@)]

\* recoverStaleOp on an operation without a live owner.  Evicting a worker pumps,
\* then a requeued operation is enqueued and the queue pumped again.
MayRecover(o) ==
    \/ row[o] = "running" /\ active[o] = None /\ UNCHANGED budget
    \/ row[o] = "running" /\ active[o] # None /\ Disturb  \* its lease was lost
    \/ row[o] = "queued" /\ UNCHANGED budget

RecoverRequeues(o) ==
    /\ Idle /\ MayRecover(o)
    /\ row' = [row EXCEPT ![o] = "queued"]
    /\ Evict(o)
    /\ \/ /\ active[o] # None
          /\ then' = o /\ UNCHANGED <<queue, timer>>
       \/ /\ active[o] = None
          /\ Enqueue(o) /\ UNCHANGED then
    /\ Pumps
    /\ UNCHANGED <<cancel, launching, call>>

\* A cancel to finish, or attempts exhausted.
RecoverEnds(o) ==
    /\ Idle /\ row[o] = "running" /\ MayRecover(o)
    /\ row' = [row EXCEPT ![o] = "ended"]
    /\ Evict(o)
    /\ pumpAt' = IF active[o] # None THEN 1 ELSE 0
    /\ UNCHANGED <<cancel, queue, launching, timer, call, then>>

\* The row cannot be read when evictWorker reads it again: it was deleted, or the
\* read fails.
RecoverUnreadable(o) ==
    /\ Idle /\ o \in Unreadable
    /\ row[o] = "running" /\ active[o] # None
    /\ Disturb
    /\ row' = [row EXCEPT ![o] = "gone"]
    /\ Evict(o) /\ Pumps
    /\ UNCHANGED <<cancel, queue, launching, timer, call, then>>

-----------------------------------------------------------------------------
Pump == PumpEnds \/ PumpSkips \/ PumpForgets \/ PumpCancels
          \/ \E c \in Call : PumpLaunches(c)

Next ==
    \/ Pump
    \/ \E o \in Op : Submit(o) \/ Resume(o) \/ Vanish(o)
                       \/ CancelQueued(o) \/ TimerFires(o)
                       \/ RecoverRequeues(o) \/ RecoverEnds(o)
                       \/ RecoverUnreadable(o)
    \/ \E c \in Call : FactoryResolves(c) \/ FactoryRejects(c) \/ WorkerDone(c)

Spec == Init /\ [][Next]_vars

\* A pass runs to its end.  The event loop serves its tasks in order, so passes
\* cannot starve what awaits: factories and workers settle, timers fire, and the
\* janitor comes back to what nobody owns.
Fairness ==
    /\ WF_vars(Pump)
    /\ \A c \in Call : SF_vars(FactoryResolves(c) \/ WorkerDone(c))
    /\ \A o \in Op : SF_vars(TimerFires(o))
                     /\ SF_vars(RecoverRequeues(o) \/ RecoverEnds(o))

FairSpec == Spec /\ Fairness

-----------------------------------------------------------------------------
(* Properties *)

Occupies(o) == active[o] # None \/ launching[o] # None

\* An operation is in flight at most once, and never in flight and queued, nor
\* queued twice: a message that re-enqueues it cannot launch it again.
NoDoubleLaunch ==
    /\ \A o \in Op : launching[o] = None \/ active[o] = None
    /\ \A o \in ToSet(queue) : ~InFlight(o)
    /\ \A i, j \in 1..Len(queue) : queue[i] = queue[j] => i = j

\* Every lane counter is the number of operations that hold a slot of the lane: no
\* slot leaks and none is given back twice.
SlotsBalanced ==
    \A l \in Lane :
        inUse[l] = Cardinality({o \in Op : Occupies(o) /\ LaneOf[o] = l})

\* The held locks are those of the operations in flight, and no two of them
\* share one: no stranded gpu, and no two users of it.
LocksBalanced ==
    /\ held = UNION {LocksOf[o] : o \in {x \in Op : Occupies(x)}}
    /\ \A o1, o2 \in Op : o1 # o2 /\ Occupies(o1) /\ Occupies(o2) =>
          LocksOf[o1] \cap LocksOf[o2] = {}

\* Between passes no queued operation could be launched: whatever frees a slot, a
\* lock or the global cap pumps the queue again.
WorkConserving ==
    Idle => \A o \in ToSet(queue) : GlobalFull \/ LaneFull(o) \/ AnyHeld(o)

\* A queued operation leaves the queue.
QueueMoves ==
    \A o \in Op : row[o] = "queued" ~> row[o] # "queued"

\* A cancelled queued operation is carried out.
QueuedCancelCompletes == \A o \in Op : cancel[o] ~> row[o] \in {"ended", "gone"}
=============================================================================
