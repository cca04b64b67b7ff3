---------------------------- MODULE CanonicalLoop ----------------------------
(***************************************************************************)
(* One operation driven by the canonical loop: its row on disk, its        *)
(* published turns, and the server processes that queue it, lease it,      *)
(* drive it turn by turn, pause, resume, cancel and recover it.            *)
(*                                                                         *)
(* A process is a JavaScript event loop: a handler runs without            *)
(* interruption from one await to the next.  cpu[p] names the actor that   *)
(* is inside such a block, so inside one process blocks are atomic, while  *)
(* two processes interleave between any two accesses to the disk.  The     *)
(* actors of a process are its workers and the process itself (scheduler   *)
(* pump, control API, janitor).                                            *)
(***************************************************************************)
EXTENDS Integers

CONSTANTS Proc,            \* server processes sharing one operations directory
          Worker,          \* worker slots: at most one drive() call at a time each
          Home,            \* the process of each worker slot
          None,            \* "no owner", "no artifact", "nobody"
          MaxTurns,        \* bound: the budget stops every run after this turn
          MaxAttempts,     \* retryPolicy.maxRecoveryAttempts
          MaxGen,          \* the largest safe lease generation
          Disturbance,     \* kinds of environment event a run allows
          MaxDisturbances  \* bound: how many such events happen

ASSUME ConstantsAssumption ==
    /\ Home \in [Worker -> Proc]
    /\ Proc \cap Worker = {}
    /\ None \notin Proc \cup Worker
    /\ MaxTurns \in Nat /\ MaxAttempts \in Nat /\ MaxGen \in Nat
    /\ MaxDisturbances \in Nat

VARIABLES op,      \* the operation's row on disk
          live,    \* lease generations whose expiry lies in the future
          turns,   \* the published turn artifacts, by turn index
          opLock,  \* the worker inside a multi-write section of the op lock
          mem,     \* each actor's in-memory copy of the row
          pc,      \* where each actor stands
          cpu,     \* the actor inside a synchronous block of each process
          run,     \* each worker's drive() locals
          sched,   \* each process's scheduler entry for the operation
          budget   \* environment events still allowed

vars == <<op, live, turns, opLock, mem, pc, cpu, run, sched, budget>>

-----------------------------------------------------------------------------
(* Data *)

Actor == Worker \cup Proc
HomeOf(a) == IF a \in Proc THEN a ELSE Home[a]
Turn == 1..MaxTurns

State == {"queued", "running", "paused", "cancelling",
          "cancelled", "succeeded", "failed"}
Terminal == {"cancelled", "succeeded", "failed"}

\* Mutated form: an operation that died before its first turn is not recovered.
Recoverable_Started == {"running", "cancelling"}
Recoverable == {"queued", "running", "cancelling"}

\* Mutated form: a cancelling operation may be requeued.
Transitions_Requeue ==
    [queued     |-> {"running", "failed", "cancelled"},
     running    |-> {"paused", "cancelling", "succeeded", "failed", "queued"},
     paused     |-> {"queued", "cancelled"},
     cancelling |-> {"cancelled", "queued"},
     cancelled  |-> {}, succeeded |-> {}, failed |-> {}]

Transitions ==
    [queued     |-> {"running", "failed", "cancelled"},
     running    |-> {"paused", "cancelling", "succeeded", "failed", "queued"},
     paused     |-> {"queued", "cancelled"},
     cancelling |-> {"cancelled"},
     cancelled  |-> {}, succeeded |-> {}, failed |-> {}]

Legal(from, to) == to \in Transitions[from]

Row == [state: State, pause: BOOLEAN, cancel: BOOLEAN,
        owner: Worker \cup {None}, gen: 0..MaxGen, attempts: Nat]

Blank == [state |-> "queued", pause |-> FALSE, cancel |-> FALSE,
          owner |-> None, gen |-> 0, attempts |-> 0]

Outcome == {"continue", "done", "error"}
Artifact == [gen: 0..MaxGen, outcome: Outcome]
ASSUME NoneIsNoArtifact == None \notin Artifact
StateOf(outcome) == IF outcome = "done" THEN "succeeded" ELSE "failed"

Result == Outcome \cup {"none", "cancelled", "deadline", "retry", "suspend",
                        "boundary"}
Drive == [claim: 0..MaxGen, armed: BOOLEAN, lost: BOOLEAN,
          tracker: {"off", "on", "cancelled"}, turn: Nat,
          result: Result]
NotDriving == [claim |-> 0, armed |-> FALSE, lost |-> FALSE,
               tracker |-> "off", turn |-> 0, result |-> "none"]

\* Where an actor waits for a promise, and its process serves others.
Awaiting == {"idle", "starting", "turn", "failover", "rearm", "abort",
             "boundary", "leaked"}
\* Where an actor is inside a synchronous block.
Running == {"acquire", "refresh", "begin", "reconcile", "top", "commit",
            "project", "after", "retry", "requeue", "giveup", "pausing", "clear",
            "close", "cancelling", "throw", "exit", "settle", "resume",
            "signal", "deliver"}

Entry == [queued: BOOLEAN, timer: BOOLEAN, active: Worker \cup {None}]
NoEntry == [queued |-> FALSE, timer |-> FALSE, active |-> None]

Shapes ==
    /\ op \in Row
    /\ live \subseteq 0..MaxGen
    /\ turns \in [Turn -> Artifact \cup {None}]
    /\ opLock \in Worker \cup {None}
    /\ mem \in [Actor -> Row]
    /\ pc \in [Actor -> Awaiting \cup Running]
    /\ cpu \in [Proc -> Actor \cup {None}]
    /\ run \in [Worker -> Drive]
    /\ sched \in [Proc -> Entry]
    /\ budget \in 0..MaxDisturbances

\* The retry policy caps the attempts of recovery and of the adapter retry.  A
\* switch of runtime charges one without asking the policy, so the attempts pass
\* it by as many as there were switches, and by none where failover is off.
SwitchesSoFar ==
    IF "failover" \in Disturbance THEN MaxDisturbances - budget ELSE 0
AttemptsCharged ==
    \A row \in {op} \cup {mem[a] : a \in Actor} :
        row.attempts <= MaxAttempts + SwitchesSoFar

TypeOK == Shapes /\ AttemptsCharged

-----------------------------------------------------------------------------
(* Reading and writing the row *)

Unlocked == opLock = None

\* Mutated form: the claim is not compared at all.
Owns_Unfenced(w) == op.owner # None
Owns(w) == op.owner = w /\ op.gen = run[w].claim
LeaseFresh == op.owner # None /\ op.gen \in live
Published == {i \in Turn : turns[i] # None}
Latest == IF Published = {} THEN 0
          ELSE CHOOSE i \in Published : \A j \in Published : j <= i
\* The terminal outcome the published turns already decided, if any.
Decided == Latest # 0 /\ turns[Latest].outcome # "continue"

\* mergeOwnedColumns: control signals and the lease come from disk.
Merge(mine, disk) ==
    [disk EXCEPT !.state = mine.state, !.attempts = mine.attempts]

Persist(a, mine) ==
    /\ Unlocked
    /\ op' = Merge(mine, op)
    /\ mem' = [mem EXCEPT ![a] = Merge(mine, op)]

\* `op.canonical = fresh.canonical`: the counters outside it stay in memory.
Snapshot(a) == [op EXCEPT !.attempts = mem[a].attempts]

-----------------------------------------------------------------------------
(* Control flow *)

Runs(a, here) == pc[a] = here /\ cpu[HomeOf(a)] = a
Resumes(w, here) == pc[w] = here /\ cpu[Home[w]] = None
Free(p) == cpu[p] = None

Goto(a, there) ==
    /\ pc' = [pc EXCEPT ![a] = there]
    /\ cpu' = [cpu EXCEPT ![HomeOf(a)] = IF there \in Awaiting THEN None ELSE a]

\* transitionOp on the actor's own copy; IllegalTransitionError goes elsewhere.
TransitionOp(a, to, next, illegal) ==
    \/ /\ Legal(mem[a].state, to)
       /\ Persist(a, [mem[a] EXCEPT !.state = to])
       /\ Goto(a, next)
    \/ /\ ~Legal(mem[a].state, to)
       /\ UNCHANGED <<op, mem>>
       /\ Goto(a, illegal)

\* decideRecovery: the per-type retry policy caps the attempts.  Mutated form: it
\* does not.
MayRetry_Uncapped(row) == row.attempts >= 0
MayRetry(row) == row.attempts < MaxAttempts

\* enqueueOp.  Mutated form: without its active.has / launching.has guard.
Enqueue_Unguarded(entry) == [entry EXCEPT !.queued = TRUE, !.timer = FALSE]
Enqueue(entry) ==
    IF entry.active # None THEN entry
    ELSE [entry EXCEPT !.queued = TRUE, !.timer = FALSE]

Disturb(kind) ==
    /\ kind \in Disturbance
    /\ budget > 0
    /\ budget' = budget - 1

-----------------------------------------------------------------------------
(* The scheduler *)

Init ==
    /\ op = Blank
    /\ live = {}
    /\ turns = [i \in Turn |-> None]
    /\ opLock = None
    /\ mem = [a \in Actor |-> Blank]
    /\ pc = [a \in Actor |-> "idle"]
    /\ cpu = [p \in Proc |-> None]
    /\ run = [w \in Worker |-> NotDriving]
    /\ \E p \in Proc : sched = [q \in Proc |->
                                  [NoEntry EXCEPT !.queued = (q = p)]]
    /\ budget = MaxDisturbances

\* pumpScheduler reserves a slot and starts launch(), which awaits the factory.
Launch(p, w) ==
    /\ Free(p) /\ Home[w] = p /\ pc[w] = "idle"
    /\ sched[p].queued
    /\ ~op.cancel
    /\ sched' = [sched EXCEPT ![p].queued = FALSE, ![p].active = w]
    /\ mem' = [mem EXCEPT ![w] = op]
    /\ Goto(w, "starting")
    /\ UNCHANGED <<op, live, turns, opLock, run, budget>>

\* pumpScheduler finds a cancel on a queued entry: applyPreLeaseCancel.
PumpCancel(p) ==
    /\ Free(p)
    /\ sched[p].queued
    /\ op.cancel
    /\ sched' = [sched EXCEPT ![p].queued = FALSE]
    /\ mem' = [mem EXCEPT ![p] = [op EXCEPT !.cancel = FALSE]]
    /\ Goto(p, "clear")
    /\ UNCHANGED <<op, live, turns, opLock, run, budget>>

\* Mutated form of the timer's check: the row is not read again.
StillQueued_Unread == TRUE
StillQueued == op.state = "queued"

\* The timer of scheduleQueuedRetry; it re-arms while the operation is in flight.
TimerFires(p) ==
    /\ Free(p)
    /\ sched[p].timer /\ sched[p].active = None
    /\ sched' = [sched EXCEPT ![p].timer = FALSE,
                              ![p].queued = @ \/ StillQueued]
    /\ UNCHANGED <<op, live, turns, opLock, mem, pc, cpu, run, budget>>

\* The adapter factory rejects: launch's finally and recoverRejectedExecutionLaunch.
FactoryFails(w) ==
    /\ Resumes(w, "starting")
    /\ Disturb("factory")
    /\ Unlocked
    /\ op' = IF op.state = "queued" THEN [op EXCEPT !.state = "failed"] ELSE op
    /\ sched' = [sched EXCEPT ![Home[w]].active = None]
    /\ mem' = [mem EXCEPT ![w] = Blank]
    /\ Goto(w, "idle")
    /\ UNCHANGED <<live, turns, opLock, run>>

-----------------------------------------------------------------------------
(* drive(): from launch to the first turn *)

\* The factory resolved; drive() begins with applyPreLeaseCancel.
EnterDrive(w) ==
    /\ Resumes(w, "starting")
    /\ \/ /\ op.cancel
          /\ mem' = [mem EXCEPT ![w] = [Snapshot(w) EXCEPT !.cancel = FALSE]]
          /\ Goto(w, "clear")
       \/ /\ ~op.cancel
          /\ UNCHANGED mem
          /\ Goto(w, "acquire")
    /\ UNCHANGED <<op, live, turns, opLock, run, sched, budget>>

Acquire(w) ==
    /\ Runs(w, "acquire")
    /\ Unlocked
    /\ \/ /\ LeaseFresh \/ op.gen = MaxGen
          /\ Goto(w, "settle")
          /\ UNCHANGED <<op, live, run>>
       \/ /\ ~LeaseFresh /\ op.gen < MaxGen
          /\ op' = [op EXCEPT !.owner = w, !.gen = @ + 1]
          /\ live' = live \cup {op.gen + 1}
          /\ run' = [run EXCEPT ![w].claim = op.gen + 1]
          /\ Goto(w, "refresh")
    /\ UNCHANGED <<turns, opLock, mem, sched, budget>>

\* lock_unavailable or persistence_failed: await the import, retry shortly.
AcquireFails(w) ==
    /\ Runs(w, "acquire")
    /\ Disturb("lock")
    /\ Goto(w, "rearm")
    /\ UNCHANGED <<op, live, turns, opLock, mem, run, sched>>

\* Re-read the leased row, subscribe the cancel tracker, arm the heartbeat.
Refresh(w) ==
    /\ Runs(w, "refresh")
    /\ mem' = [mem EXCEPT ![w] = op]
    /\ run' = [run EXCEPT ![w].tracker = "on", ![w].armed = TRUE]
    /\ Goto(w, "begin")
    /\ UNCHANGED <<op, live, turns, opLock, sched, budget>>

\* transitionOp(running) stands outside the try: an illegal transition rejects
\* drive() with the lease held and the heartbeat armed.
Begin(w) ==
    /\ Runs(w, "begin")
    /\ TransitionOp(w, "running", "reconcile", "leaked")
    /\ sched' = IF pc'[w] = "leaked" /\ sched[Home[w]].active = w
                THEN [sched EXCEPT ![Home[w]].active = None] ELSE sched
    /\ UNCHANGED <<live, turns, opLock, run, budget>>

\* projectTurnCommit on the row read under the lock: finish the operation if the
\* artifact says so.  The row is written as read, so its lease is kept.
ProjectTo(outcome) ==
    IF outcome = "continue" THEN op
    ELSE [op EXCEPT !.state = StateOf(outcome)]
Projectable(outcome) ==
    \/ outcome = "continue"
    \/ op.state = StateOf(outcome)
    \/ Legal(op.state, StateOf(outcome))

\* PRD 11: the first turn comes from disk.  Mutated form: an index too far.
FirstTurn_Skips == Latest + 2
FirstTurn == Latest + 1

\* reconcileLatestTurnCommit, then the first turn index is read from disk.
Reconcile(w) ==
    /\ Runs(w, "reconcile")
    /\ Unlocked
    /\ \/ /\ ~Owns(w)
          /\ UNCHANGED <<op, mem, run>>
          /\ Goto(w, "exit")
       \/ /\ Owns(w) /\ Latest # 0
          /\ ~Projectable(turns[Latest].outcome)
          /\ UNCHANGED <<op, mem, run>>
          /\ Goto(w, "throw")
       \/ /\ Owns(w) /\ Latest # 0
          /\ Projectable(turns[Latest].outcome)
          /\ op' = ProjectTo(turns[Latest].outcome)
          /\ mem' = [mem EXCEPT ![w] = op']
          /\ run' = [run EXCEPT ![w].turn = FirstTurn]
          /\ Goto(w, IF op'.state \in Terminal THEN "exit" ELSE "top")
       \/ /\ Owns(w) /\ Latest = 0
          /\ run' = [run EXCEPT ![w].turn = FirstTurn]
          /\ UNCHANGED <<op, mem>>
          /\ Goto(w, "top")
    /\ UNCHANGED <<live, turns, opLock, sched, budget>>

-----------------------------------------------------------------------------
(* drive(): the turn loop *)

BeginTurn(w) ==
    /\ Runs(w, "top")
    /\ run[w].turn <= MaxTurns
    /\ Goto(w, "turn")
    /\ UNCHANGED <<op, live, turns, opLock, mem, run, sched, budget>>

\* The wall clock (succeeded, or failed when interactive) or the checkpoint stop.
StopAtTop(w) ==
    /\ Runs(w, "top")
    /\ \E to \in {"succeeded", "failed"} : TransitionOp(w, to, "exit", "throw")
    /\ UNCHANGED <<live, turns, opLock, run, sched, budget>>

\* driveTurn comes back from its last await.  A turn that was cancelled or lost
\* its lease is discarded; any other may be committed in the same block.
TurnEnds(w) ==
    /\ Resumes(w, "turn")
    /\ \/ /\ run[w].lost \/ run[w].tracker = "cancelled"
          /\ run' = [run EXCEPT ![w].result = "cancelled"]
          /\ Goto(w, "after")
       \/ /\ ~run[w].lost /\ run[w].tracker # "cancelled"
          /\ \E result \in Outcome \cup {"deadline", "retry", "suspend"} :
                /\ run' = [run EXCEPT ![w].result = result]
                /\ Goto(w, IF result \in Outcome THEN "commit" ELSE "after")
    /\ UNCHANGED <<op, live, turns, opLock, mem, sched, budget>>

\* A middleware, a tool or the disk throws somewhere inside the turn.
TurnThrows(w) ==
    /\ Resumes(w, "turn")
    /\ Disturb("throw")
    /\ Goto(w, "throw")
    /\ UNCHANGED <<op, live, turns, opLock, mem, run, sched>>

\* commitTurn: the fence, then the artifact is published exclusively and its
\* projections follow under the same op lock.  An artifact that already stands
\* at this index is projected instead.
Commit(w) ==
    /\ Runs(w, "commit")
    /\ Unlocked
    /\ \/ /\ ~Owns(w)
          /\ Goto(w, "exit")
          /\ UNCHANGED <<turns, opLock>>
       \/ /\ Owns(w)
          /\ turns' = IF run[w].turn \in Published THEN turns
                      ELSE [turns EXCEPT ![run[w].turn] =
                              [gen |-> op.gen, outcome |-> run[w].result]]
          /\ opLock' = w
          /\ Goto(w, "project")
    /\ UNCHANGED <<op, live, mem, run, sched, budget>>

Project(w) ==
    /\ Runs(w, "project")
    /\ opLock' = None
    /\ LET outcome == turns[run[w].turn].outcome IN
       \/ /\ Projectable(outcome)
          /\ op' = ProjectTo(outcome)
          /\ mem' = [mem EXCEPT ![w] = op']
          /\ Goto(w, "after")
       \/ /\ ~Projectable(outcome)
          /\ UNCHANGED <<op, mem>>
          /\ Goto(w, "throw")
    /\ UNCHANGED <<live, turns, run, sched, budget>>

\* The published turn cannot be projected: a strict write failed.
ProjectFails(w) ==
    /\ Runs(w, "project")
    /\ Disturb("throw")
    /\ opLock' = None
    /\ Goto(w, "throw")
    /\ UNCHANGED <<op, live, turns, mem, run, sched>>

\* The op lock cannot be taken: reconcileLatestTurnCommit and commitTurn throw the
\* error of a lost fence.
FenceFails(w) ==
    /\ \E here \in {"reconcile", "commit"} : Runs(w, here)
    /\ Disturb("lock")
    /\ Goto(w, "exit")
    /\ UNCHANGED <<op, live, turns, opLock, mem, run, sched>>

\* The decisions after driveTurn, in the order drive() takes them.
LeaveLost(w) ==
    /\ Runs(w, "after")
    /\ run[w].lost
    /\ Goto(w, "exit")
    /\ UNCHANGED <<op, live, turns, opLock, mem, run, sched, budget>>

AwaitAbort(w) ==
    /\ Runs(w, "after")
    /\ ~run[w].lost /\ run[w].tracker = "cancelled"
    /\ Goto(w, "abort")
    /\ UNCHANGED <<op, live, turns, opLock, mem, run, sched, budget>>

Driving(w, results) ==
    /\ Runs(w, "after")
    /\ ~run[w].lost /\ run[w].tracker # "cancelled"
    /\ run[w].result \in results

FinishOnWallClock(w) ==
    /\ Driving(w, {"deadline"})
    /\ \E to \in {"succeeded", "failed"} : TransitionOp(w, to, "exit", "throw")
    /\ UNCHANGED <<live, turns, opLock, run, sched, budget>>

\* attemptRuntimeFailover up to its first await: failover is not possible here (the
\* setting, the lane, a pinned target, a pending control), or it looks for a runtime.
AwaitFailover(w) ==
    /\ Driving(w, {"retry"})
    /\ \/ Goto(w, "retry")
       \/ /\ ~op.cancel /\ ~op.pause
          /\ Goto(w, "failover")
    /\ UNCHANGED <<op, live, turns, opLock, mem, run, sched, budget>>

\* applySuspension, before the commit or after it.
Suspend(w) ==
    /\ Driving(w, {"suspend", "continue"})
    /\ \E to \in {"paused", "failed"} : TransitionOp(w, to, "exit", "throw")
    /\ UNCHANGED <<live, turns, opLock, run, sched, budget>>

LeaveDone(w) ==
    /\ Driving(w, {"done", "error"})
    /\ Goto(w, "exit")
    /\ UNCHANGED <<op, live, turns, opLock, mem, run, sched, budget>>

PerTurnStop(w) ==
    /\ Driving(w, {"continue"})
    /\ TransitionOp(w, "succeeded", "exit", "throw")
    /\ UNCHANGED <<live, turns, opLock, run, sched, budget>>

\* The turn boundary re-reads the row: cancel beats pause beats the next turn.
BoundaryCancel(w) ==
    /\ Driving(w, {"continue"})
    /\ op.cancel
    /\ mem' = [mem EXCEPT ![w] = [Snapshot(w) EXCEPT !.cancel = FALSE]]
    /\ run' = [run EXCEPT ![w].result = "boundary"]
    /\ Goto(w, "clear")
    /\ UNCHANGED <<op, live, turns, opLock, sched, budget>>

BoundaryPause(w) ==
    /\ Driving(w, {"continue"})
    /\ ~op.cancel /\ op.pause
    /\ Unlocked
    /\ op' = [Snapshot(w) EXCEPT !.pause = FALSE]
    /\ mem' = [mem EXCEPT ![w] = op']
    /\ Goto(w, "pausing")
    /\ UNCHANGED <<live, turns, opLock, run, sched, budget>>

PauseLands(w) ==
    /\ Runs(w, "pausing")
    /\ TransitionOp(w, "paused", "exit", "throw")
    /\ UNCHANGED <<live, turns, opLock, run, sched, budget>>

NextTurn(w) ==
    /\ Driving(w, {"continue"})
    /\ ~op.cancel /\ ~op.pause
    /\ run' = [run EXCEPT ![w].turn = @ + 1, ![w].result = "none"]
    /\ Goto(w, "top")
    /\ UNCHANGED <<op, live, turns, opLock, mem, sched, budget>>

-----------------------------------------------------------------------------
(* drive(): adapter retry, cancel, exceptions, release *)

\* A runtime was found.  The row is read again under the op lock, charged with an
\* attempt whatever the budget says, and becomes the worker's copy.
FailoverSwitches(w) ==
    /\ Resumes(w, "failover")
    /\ Disturb("failover")
    /\ Unlocked
    /\ ~op.cancel /\ ~op.pause
    /\ op' = [op EXCEPT !.attempts = @ + 1]
    /\ mem' = [mem EXCEPT ![w] = op']
    /\ Goto(w, "requeue")
    /\ UNCHANGED <<live, turns, opLock, run, sched>>

\* No runtime was found, and persistWaiting merges its note into the row and into a
\* copy of its own; or a control that came in meanwhile refuses the switch.  The
\* worker's copy stays as it was before the await.
FailoverDeclined(w) ==
    /\ Resumes(w, "failover")
    /\ Unlocked
    /\ Goto(w, "retry")
    /\ UNCHANGED <<op, live, turns, opLock, mem, run, sched, budget>>

\* No lock, no write, or the target changed meanwhile: a switch is given up, a
\* wait throws.
FailoverFails(w) ==
    /\ Resumes(w, "failover")
    /\ Disturb("lock")
    /\ Goto(w, "retry") \/ Goto(w, "throw")
    /\ UNCHANGED <<op, live, turns, opLock, mem, run, sched>>

\* A bounded retry, on this runtime or, after a wait, on whichever there is.
AdapterRetries(w) ==
    /\ Runs(w, "retry")
    /\ MayRetry(mem[w])
    /\ Persist(w, [mem[w] EXCEPT !.attempts = @ + 1])
    /\ Goto(w, "requeue")
    /\ UNCHANGED <<live, turns, opLock, run, sched, budget>>

Requeue(w) ==
    /\ Runs(w, "requeue")
    /\ TransitionOp(w, "queued", "rearm", "throw")
    /\ UNCHANGED <<live, turns, opLock, run, sched, budget>>

AdapterExhausted(w) ==
    /\ Runs(w, "retry")
    /\ ~MayRetry(mem[w])
    /\ Persist(w, mem[w])
    /\ Goto(w, "giveup")
    /\ UNCHANGED <<live, turns, opLock, run, sched, budget>>

GiveUp(w) ==
    /\ Runs(w, "giveup")
    /\ TransitionOp(w, "failed", "exit", "throw")
    /\ UNCHANGED <<live, turns, opLock, run, sched, budget>>

\* The scheduler module is loaded; scheduleQueuedRetry sets the retry timer.
Rearm(w) ==
    /\ Resumes(w, "rearm")
    /\ sched' = [sched EXCEPT ![Home[w]].timer = TRUE]
    /\ Goto(w, IF run[w].claim = 0 THEN "settle" ELSE "exit")
    /\ UNCHANGED <<op, live, turns, opLock, mem, run, budget>>

\* finalizeCancel once the abort settled: only an operation still cancelling.
FinalizeCancel(w) ==
    /\ Resumes(w, "abort")
    /\ \/ /\ op.state # "cancelling"
          /\ mem' = [mem EXCEPT ![w] = Snapshot(w)]
          /\ Goto(w, "exit")
       \/ /\ op.state = "cancelling"
          /\ mem' = [mem EXCEPT ![w] = [Snapshot(w) EXCEPT !.cancel = FALSE]]
          /\ Goto(w, "clear")
    /\ UNCHANGED <<op, live, turns, opLock, run, sched, budget>>

\* The bare writeOp that clears the cancel signal: the whole row read one step
\* earlier goes back to disk, outside the op lock.
ClearSignal(a) ==
    /\ Runs(a, "clear")
    /\ op' = mem[a]
    /\ Goto(a, IF a \in Worker /\ run[a].result = "boundary"
               THEN "cancelling" ELSE "close")
    /\ UNCHANGED <<live, turns, opLock, mem, run, sched, budget>>

\* safeTransition(cancelled): an illegal transition is silently dropped.
CloseCancelled(a) ==
    /\ Runs(a, "close")
    /\ LET next == IF a \in Proc THEN "idle"
                   ELSE IF run[a].claim = 0 THEN "settle" ELSE "exit"
       IN TransitionOp(a, "cancelled", next, next)
    /\ UNCHANGED <<live, turns, opLock, run, sched, budget>>

BoundaryCancelling(w) ==
    /\ Runs(w, "cancelling")
    /\ TransitionOp(w, "cancelling", "boundary", "boundary")
    /\ UNCHANGED <<live, turns, opLock, run, sched, budget>>

BoundaryAborted(w) ==
    /\ Resumes(w, "boundary")
    /\ Goto(w, "close")
    /\ UNCHANGED <<op, live, turns, opLock, mem, run, sched, budget>>

\* The catch of drive(): leave a lost lease and a published turn to their
\* replacement, finish a cancel, fail anything else.
Throw(w) ==
    /\ Runs(w, "throw")
    /\ \/ /\ \/ run[w].lost
             \/ run[w].turn \in Published
             \/ mem[w].state \in Terminal
          /\ UNCHANGED <<op, mem>>
          /\ Goto(w, "exit")
       \/ /\ ~run[w].lost /\ run[w].turn \notin Published
          /\ mem[w].state = "cancelling"
          /\ UNCHANGED <<op, mem>>
          /\ Goto(w, "abort")
       \/ /\ ~run[w].lost /\ run[w].turn \notin Published
          /\ mem[w].state \notin Terminal \cup {"cancelling"}
          /\ TransitionOp(w, "failed", "exit", "exit")
    /\ UNCHANGED <<live, turns, opLock, run, sched, budget>>

\* releaseLease keeps the generation.  Mutated form: it starts over.
Released_Renumbers == [op EXCEPT !.owner = None, !.gen = 0]
Released == [op EXCEPT !.owner = None]

\* The finally of drive(): disarm, unsubscribe, release the exact claim.
Exit(w) ==
    /\ Runs(w, "exit")
    /\ Unlocked
    /\ \/ /\ Owns(w)
          /\ op' = Released
          /\ live' = live \ {op.gen}
       \/ /\ ~Owns(w)
          /\ UNCHANGED <<op, live>>
    /\ run' = [run EXCEPT ![w].armed = FALSE, ![w].tracker = "off"]
    /\ Goto(w, "settle")
    /\ UNCHANGED <<turns, opLock, mem, sched, budget>>

ReleaseFails(w) ==
    /\ Runs(w, "exit")
    /\ Disturb("lock")
    /\ run' = [run EXCEPT ![w].armed = FALSE, ![w].tracker = "off"]
    /\ Goto(w, "settle")
    /\ UNCHANGED <<op, live, turns, opLock, mem, sched>>

\* launch()'s finally: give the slot back unless recovery already evicted it.
Settle(w) ==
    /\ Runs(w, "settle")
    /\ sched' = IF sched[Home[w]].active = w
                THEN [sched EXCEPT ![Home[w]].active = None] ELSE sched
    /\ run' = [run EXCEPT ![w] = NotDriving]
    /\ mem' = [mem EXCEPT ![w] = Blank]
    /\ Goto(w, "idle")
    /\ UNCHANGED <<op, live, turns, opLock, budget>>

-----------------------------------------------------------------------------
(* The lease clock and the heartbeat *)

LeaseExpires ==
    /\ LeaseFresh
    /\ live' = live \ {op.gen}
    /\ UNCHANGED <<op, turns, opLock, mem, pc, cpu, run, sched, budget>>

Beats(w) ==
    /\ run[w].armed
    /\ Free(Home[w])

\* heartbeatLease checks the claim, not the expiry: a late beat revives a lease.
HeartbeatOK(w) ==
    /\ Beats(w) /\ Unlocked
    /\ Owns(w)
    /\ live' = live \cup {op.gen}
    /\ UNCHANGED <<op, turns, opLock, mem, pc, cpu, run, sched, budget>>

HeartbeatClaimLost(w) ==
    /\ Beats(w) /\ Unlocked
    /\ ~Owns(w)
    /\ run' = [run EXCEPT ![w].armed = FALSE, ![w].lost = TRUE]
    /\ UNCHANGED <<op, live, turns, opLock, mem, pc, cpu, sched, budget>>

\* Three transient failures in a row: the worker gives its lease up for lost.
HeartbeatGivesUp(w) ==
    /\ Beats(w)
    /\ Disturb("heartbeat")
    /\ run' = [run EXCEPT ![w].armed = FALSE, ![w].lost = TRUE]
    /\ UNCHANGED <<op, live, turns, opLock, mem, pc, cpu, sched>>

-----------------------------------------------------------------------------
(* The control API *)

OpPause(p) ==
    /\ Free(p) /\ Unlocked
    /\ op.state \notin Terminal \cup {"paused"} /\ ~op.pause
    /\ Disturb("pause")
    /\ op' = [op EXCEPT !.pause = TRUE]
    /\ UNCHANGED <<live, turns, opLock, mem, pc, cpu, run, sched>>

\* A resume that outruns the pause withdraws the request.
ResumeWithdraws(p) ==
    /\ Free(p) /\ Unlocked
    /\ op.state # "paused" /\ op.pause
    /\ op' = [op EXCEPT !.pause = FALSE]
    /\ UNCHANGED <<live, turns, opLock, mem, pc, cpu, run, sched, budget>>

OpResume(p) ==
    /\ Free(p)
    /\ op.state = "paused"
    /\ Disturb("resume")
    /\ mem' = [mem EXCEPT ![p] = op]
    /\ Goto(p, "resume")
    /\ UNCHANGED <<op, live, turns, opLock, run, sched>>

ResumeLands(p) ==
    /\ Runs(p, "resume")
    /\ TransitionOp(p, "queued", "idle", "idle")
    /\ sched' = [sched EXCEPT ![p] = Enqueue(@)]
    /\ UNCHANGED <<live, turns, opLock, run, budget>>

\* Idempotent while a cancel is pending, except on a paused operation.
OpCancel(p) ==
    /\ Free(p)
    /\ op.state \notin Terminal \cup {"cancelling"}
    /\ op.cancel => op.state = "paused"
    /\ Disturb("cancel")
    /\ mem' = [mem EXCEPT ![p] = op]
    /\ Goto(p, "signal")
    /\ UNCHANGED <<op, live, turns, opLock, run, sched>>

WriteCancelSignal(p) ==
    /\ Runs(p, "signal") /\ Unlocked
    /\ op' = [op EXCEPT !.cancel = TRUE]
    /\ Goto(p, "deliver")
    /\ UNCHANGED <<live, turns, opLock, mem, run, sched, budget>>

\* Mutated form: no tracker hears the bus.
Subscribed_Deaf(p) == {w \in Worker : p # Home[w] /\ run[w].tracker = "on"}
Subscribed(p) == {w \in Worker : Home[w] = p /\ run[w].tracker = "on"}

\* The in-process bus is synchronous: each tracker moves its worker's operation
\* to cancelling before opCancel returns.
DeliverCancel(p, w) ==
    /\ Runs(p, "deliver")
    /\ w \in Subscribed(p)
    /\ run' = [run EXCEPT ![w].tracker = "cancelled"]
    /\ \/ /\ Legal(mem[w].state, "cancelling")
          /\ Persist(w, [mem[w] EXCEPT !.state = "cancelling"])
       \/ /\ ~Legal(mem[w].state, "cancelling")
          /\ UNCHANGED <<op, mem>>
    /\ UNCHANGED <<live, turns, opLock, pc, cpu, sched, budget>>

\* Mutated form: a cancel on a paused operation is only recorded.
CancelsParked_Records(row) == FALSE
CancelsParked(row) == row.state = "paused"

\* A queued operation is woken; a paused one is cancelled here and now.
CancelReturns(p) ==
    /\ Runs(p, "deliver")
    /\ Subscribed(p) = {}
    /\ \/ /\ CancelsParked(mem[p]) /\ op.cancel
          /\ mem' = [mem EXCEPT ![p] = [Snapshot(p) EXCEPT !.cancel = FALSE]]
          /\ UNCHANGED sched
          /\ Goto(p, "clear")
       \/ /\ ~CancelsParked(mem[p]) \/ ~op.cancel
          /\ sched' = [sched EXCEPT ![p].timer = @ \/ mem[p].state = "queued"]
          /\ UNCHANGED mem
          /\ Goto(p, "idle")
    /\ UNCHANGED <<op, live, turns, opLock, run, budget>>

-----------------------------------------------------------------------------
(* Recovery and crashes *)

\* hasArmedHeartbeat: direct evidence of life, in this process only.  Mutated
\* form: an expired lease is proof of death.
HasArmedHeartbeat_Ignored(p) == FALSE
HasArmedHeartbeat(p) ==
    /\ op.owner # None
    /\ Home[op.owner] = p /\ run[op.owner].armed /\ run[op.owner].claim = op.gen

\* reconcilePublishedTurnCommitsForRecovery finishes an operation whose last
\* published turn decided it, unless a control signal stands in the way.  Mutated
\* form: recovery repairs the projections but never the state.
RecoveryMayFinish_Never == FALSE
RecoveryMayFinish ==
    Decided /\ op.state = "running" /\ ~op.pause /\ ~op.cancel

RecoverPublished(p) ==
    /\ Free(p) /\ Unlocked
    /\ ~LeaseFresh
    /\ RecoveryMayFinish
    /\ op' = [op EXCEPT !.state = StateOf(turns[Latest].outcome)]
    /\ UNCHANGED <<live, turns, opLock, mem, pc, cpu, run, sched, budget>>

Stale(p) ==
    /\ Free(p) /\ Unlocked
    /\ op.state \in Recoverable
    /\ ~LeaseFresh /\ ~HasArmedHeartbeat(p)
    /\ ~RecoveryMayFinish

\* evictWorker knows only workers past their factory.
Evict(entry) ==
    IF entry.active # None /\ pc[entry.active] # "starting"
    THEN [entry EXCEPT !.active = None] ELSE entry

\* recoverStaleOp: clear the expired claim, evict, and decide by the state.
RecoverStaleOp(p) ==
    /\ Stale(p)
    /\ \/ /\ op.state = "queued"
          /\ op' = [op EXCEPT !.owner = None]
          /\ sched' = [sched EXCEPT ![p] = Enqueue(Evict(@))]
       \/ /\ op.state = "cancelling"
          /\ op' = [op EXCEPT !.owner = None, !.state = "cancelled"]
          /\ sched' = [sched EXCEPT ![p] = Evict(@)]
       \/ /\ op.state = "running" /\ MayRetry(op)
          /\ op' = [op EXCEPT !.owner = None, !.state = "queued",
                              !.attempts = @ + 1]
          /\ sched' = [sched EXCEPT ![p] = Enqueue(Evict(@))]
       \/ \* attempts exhausted, or the circuit breaker of the type is open
          /\ op.state = "running"
          /\ op' = [op EXCEPT !.owner = None, !.state = "failed"]
          /\ sched' = [sched EXCEPT ![p] = Evict(@)]
    /\ UNCHANGED <<live, turns, opLock, mem, pc, cpu, run, budget>>

\* The process dies and restarts with nothing in memory; a lock file its dead
\* worker held is reclaimed.
Crash(p) ==
    /\ Disturb("crash")
    /\ mem' = [a \in Actor |-> IF HomeOf(a) = p THEN Blank ELSE mem[a]]
    /\ pc' = [a \in Actor |-> IF HomeOf(a) = p THEN "idle" ELSE pc[a]]
    /\ cpu' = [cpu EXCEPT ![p] = None]
    /\ run' = [w \in Worker |-> IF Home[w] = p THEN NotDriving ELSE run[w]]
    /\ sched' = [sched EXCEPT ![p] = NoEntry]
    /\ opLock' = IF opLock # None /\ Home[opLock] = p THEN None ELSE opLock
    /\ UNCHANGED <<op, live, turns>>

-----------------------------------------------------------------------------
(* The specification *)

\* Steps of a worker that its own code takes, faults aside.
Drives(w) ==
    \/ EnterDrive(w) \/ Acquire(w) \/ Refresh(w) \/ Begin(w) \/ Reconcile(w)
    \/ BeginTurn(w) \/ StopAtTop(w) \/ TurnEnds(w) \/ Commit(w) \/ Project(w)
    \/ LeaveLost(w) \/ AwaitAbort(w) \/ FinishOnWallClock(w) \/ AwaitFailover(w)
    \/ Suspend(w) \/ LeaveDone(w) \/ PerTurnStop(w)
    \/ BoundaryCancel(w) \/ BoundaryPause(w) \/ PauseLands(w) \/ NextTurn(w)
    \/ FailoverDeclined(w) \/ AdapterRetries(w) \/ Requeue(w)
    \/ AdapterExhausted(w) \/ GiveUp(w) \/ Rearm(w)
    \/ FinalizeCancel(w) \/ ClearSignal(w) \/ CloseCancelled(w)
    \/ BoundaryCancelling(w) \/ BoundaryAborted(w)
    \/ Throw(w) \/ Exit(w) \/ Settle(w)

Falters(w) ==
    \/ FactoryFails(w) \/ AcquireFails(w) \/ TurnThrows(w) \/ ProjectFails(w)
    \/ FailoverSwitches(w) \/ ReleaseFails(w) \/ HeartbeatGivesUp(w)
    \/ FailoverFails(w) \/ FenceFails(w)

Heartbeat(w) == HeartbeatOK(w) \/ HeartbeatClaimLost(w)

Schedules(p) ==
    \/ \E w \in Worker : Launch(p, w)
    \/ PumpCancel(p) \/ TimerFires(p)

\* The rest of a control call the process has begun.
Answers(p) ==
    \/ ResumeLands(p) \/ WriteCancelSignal(p) \/ CancelReturns(p)
    \/ \E w \in Worker : DeliverCancel(p, w)
    \/ ClearSignal(p) \/ CloseCancelled(p)

Calls(p) == OpPause(p) \/ ResumeWithdraws(p) \/ OpResume(p) \/ OpCancel(p)

Recovers(p) == RecoverPublished(p) \/ RecoverStaleOp(p)

Next ==
    \/ \E w \in Worker : Drives(w) \/ Falters(w) \/ Heartbeat(w)
    \/ \E p \in Proc : Schedules(p) \/ Answers(p) \/ Calls(p) \/ Recovers(p)
                       \/ Crash(p)
    \/ LeaseExpires

Spec == Init /\ [][Next]_vars

\* Every await settles, the pump and the janitor keep running, and a lease
\* nobody renews runs out.
Fairness ==
    /\ \A w \in Worker : WF_vars(Drives(w))
    /\ \A p \in Proc : WF_vars(Schedules(p)) /\ WF_vars(Answers(p))
                       /\ WF_vars(Recovers(p))
    /\ WF_vars(LeaseExpires /\ ~\E w \in Worker : run[w].armed /\ Owns(w))

FairSpec == Spec /\ Fairness

-----------------------------------------------------------------------------
(* Properties: ownership *)

\* A worker whose heartbeat is armed still holds the lease it acquired: nobody
\* takes an operation over from a live worker (recovery.ts, worker-heartbeat.ts).
\* The heartbeat a rejected drive() left behind has no worker to protect: that
\* it exists at all is what NoLeakedLease is about.
ArmedOwnsLease ==
    \A w \in Worker : run[w].armed /\ pc[w] # "leaked" => Owns(w)

\* A worker that took a lease and has not lost it is the one its scheduler has
\* in flight, with nothing queued behind it: no double launch, no slot given away.
OneWorkerPerOp ==
    \A w \in Worker : run[w].claim # 0 /\ ~run[w].lost =>
        sched[Home[w]].active = w /\ ~sched[Home[w]].queued

\* No drive() rejects with its lease and heartbeat left behind.
NoLeakedLease == \A w \in Worker : pc[w] # "leaked"

-----------------------------------------------------------------------------
(* Properties: the life of the operation *)

\* The row on disk only moves along the transition table, so a terminal state is
\* never left, whoever writes it and from whatever copy.
OnlyLegalMoves ==
    [][op'.state # op.state => Legal(op.state, op'.state)]_vars

\* The last published turn decides how a running operation ends: one that was
\* answered never ends failed, and one that failed never succeeds, unless a
\* control signal was pending when it ended.
PublishedOutcomeStands ==
    [][/\ op.state = "running" /\ op'.state \in {"succeeded", "failed"}
       /\ Decided' /\ ~op.pause /\ ~op.cancel
       => op'.state = StateOf(turns'[Latest'].outcome)]_vars

\* The recovery budget is never refunded by a stale copy of the row.
AttemptsNeverRefunded == [][op'.attempts >= op.attempts]_vars

\* A cancel somebody asked for and nobody has carried out yet.
PendingCancel ==
    \/ op.cancel \/ op.state = "cancelling"
    \/ \E a \in Actor : pc[a] \in {"close", "cancelling"}

\* A cancel request stays pending until the operation is terminal.
CancelNeverDropped ==
    [][PendingCancel => PendingCancel' \/ op'.state \in Terminal]_vars

\* Between two blocks no operation is parked with a cancel nobody will act on.
NoCancelParked ==
    (\A p \in Proc : Free(p)) => ~(op.state = "paused" /\ op.cancel)

Lifecycle == INSTANCE OpLifecycle
    WITH state <- op.state, cancel <- PendingCancel

\* The loop implements the life of an operation.
ImplementsLifecycle == Lifecycle!Spec

-----------------------------------------------------------------------------
(* Properties: the turn log *)

\* Turns are published without gaps.
NoTurnGap == \A i \in Turn : turns[i] # None => \A j \in 1..i : turns[j] # None

\* A published turn is never replaced, and none follows one that ended the run.
TurnLogAppendOnly ==
    [][/\ \A i \in Published : turns'[i] = turns[i]
       /\ Decided => turns' = turns]_vars

\* Fencing: no turn of an older lease generation follows one of a newer.
GenerationsOrdered ==
    \A i, j \in Published : i < j => turns[i].gen <= turns[j].gen

-----------------------------------------------------------------------------
(* Properties: progress *)

\* An operation that can still move ends, or is paused for a user.
EventuallySettles ==
    op.state \in {"queued", "running", "cancelling"} ~>
        op.state \in Terminal \cup {"paused"}

\* A cancel request ends the operation.
CancelCompletes == op.cancel ~> op.state \in Terminal
=============================================================================
