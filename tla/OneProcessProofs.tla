-------------------------- MODULE OneProcessProofs --------------------------
(***************************************************************************)
(* Theorems about CanonicalLoop with one server process, the deployment    *)
(* the data directory lock is there to enforce, for every number of        *)
(* workers and every value of the bounds.  With a second process most of   *)
(* them are false: the run CrossProcessTakeover shows the first step.      *)
(*                                                                         *)
(* The first part proves, whatever goes wrong, that whole-row writes are   *)
(* current, that published turns stand in the order of their leases and    *)
(* that nobody takes the lease of a live worker (the invariant DutyInv).   *)
(* The second proves, through crashes and recoveries but for workers that  *)
(* keep their leases, who holds the lease, which copies of the row can be  *)
(* trusted and how an operation ends (the invariant Before).  The third is *)
(* about a process that does not crash either: where a cancel finds the    *)
(* operation (the invariant Calm), and that the loop implements            *)
(* OpLifecycle.                                                            *)
(***************************************************************************)
EXTENDS CanonicalLoopProofs

\* One server process drives the operations directory.
OneProcess == \A p, q \in Proc : p = q

\* No worker gives its lease up while it still runs (the run
\* HeartbeatResurrects shows what happens when one does).
NoGivingUp == "heartbeat" \notin Disturbance

-----------------------------------------------------------------------------
(* Synchronous blocks, for any number of processes *)

\* Where a worker and where a process can stand.
WorkerPlace == Place \ {"resume", "signal", "deliver"}
ProcPlace == {"idle", "clear", "close", "resume", "signal", "deliver"}

\* A process's event loop is inside a block exactly when an actor of it is, and
\* then inside that actor's.
Blocks ==
    /\ \A a \in Actor : pc[a] \in Running <=> cpu[HomeOf(a)] = a
    /\ \A p \in Proc : pc[p] \in ProcPlace
    /\ \A w \in Worker : pc[w] \in WorkerPlace

\* A worker takes a step of its own, from wherever it stands.
WorkerGoes(w) ==
    /\ cpu[Home[w]] \in {w, None}
    /\ \E there \in WorkerPlace : Goto(w, there)
ProcGoes(p) ==
    /\ cpu[p] \in {p, None}
    /\ \E there \in ProcPlace : Goto(p, there)

\* A worker's home is its process, a process is its own.
LEMMA ActorTyped ==
    /\ \A w \in Worker : w \in Actor /\ w # None /\ Home[w] \in Proc /\ HomeOf(w) = Home[w]
    /\ \A p \in Proc : p \in Actor /\ p # None /\ HomeOf(p) = p
    /\ \A w \in Worker, p \in Proc : w # p
    /\ None \notin Actor
BY ConstantsAssumption DEF Actor, HomeOf

\* A place is somewhere to await or to run, never both.
LEMMA PlacesApart == \A there \in Place : there \in Running <=> there \notin Awaiting
BY DEF Place, Running, Awaiting

\* An actor that goes somewhere when its process was its own or nobody's leaves
\* the blocks in order.
LEMMA GotoBlocks ==
    ASSUME Shapes, Blocks, NEW a \in Actor, NEW there \in Place,
           cpu[HomeOf(a)] \in {a, None}, Goto(a, there),
           a \in Proc => there \in ProcPlace,
           a \in Worker => there \in WorkerPlace
    PROVE  Blocks'
<1>1. /\ pc \in [Actor -> Place] /\ cpu \in [Proc -> Actor \cup {None}]
      /\ pc' = [pc EXCEPT ![a] = there]
      /\ cpu' = [cpu EXCEPT ![HomeOf(a)] = IF there \in Awaiting THEN None ELSE a]
  BY DEF Shapes, Goto, Place
<1>2. ASSUME NEW b \in Actor PROVE pc'[b] \in Running <=> cpu'[HomeOf(b)] = b
  <2>0. HomeOf(a) \in Proc /\ HomeOf(b) \in Proc /\ a # None /\ b # None
    BY ActorTyped, HomeTyped
  <2>1. CASE b = a
    <3>1. pc'[a] = there /\ cpu'[HomeOf(a)] = IF there \in Awaiting THEN None ELSE a
      BY <1>1, <2>0
    <3> QED BY <2>0, <2>1, <3>1, PlacesApart
  <2>2. CASE b # a /\ HomeOf(b) = HomeOf(a)
    <3>1. cpu'[HomeOf(b)] # b /\ pc'[b] = pc[b] /\ cpu[HomeOf(b)] # b
      BY <1>1, <2>0, <2>2
    <3> QED BY <3>1 DEF Blocks
  <2>3. CASE b # a /\ HomeOf(b) # HomeOf(a)
    <3>1. cpu'[HomeOf(b)] = cpu[HomeOf(b)] /\ pc'[b] = pc[b]
      BY <1>1, <2>0, <2>3
    <3> QED BY <3>1 DEF Blocks
  <2> QED BY <2>1, <2>2, <2>3
<1>3. ASSUME NEW p \in Proc PROVE pc'[p] \in ProcPlace
  BY <1>1, ActorTyped DEF Blocks
<1>4. ASSUME NEW w \in Worker PROVE pc'[w] \in WorkerPlace
  BY <1>1, ActorTyped DEF Blocks
<1> QED BY <1>2, <1>3, <1>4 DEF Blocks

\* A transition moves the actor to one of its two continuations.
LEMMA TransitionGoes ==
    ASSUME NEW a, NEW to, NEW next, NEW illegal,
           TransitionOp(a, to, next, illegal)
    PROVE  Goto(a, next) \/ Goto(a, illegal)
BY DEF TransitionOp

\* Every step of a worker's own code goes somewhere a worker can be.
LEMMA DrivesGo ==
    ASSUME NEW w \in Worker, Drives(w)
    PROVE  WorkerGoes(w)
<1>h. HomeOf(w) = Home[w]
  BY ActorTyped
<1>p. {"idle", "starting", "turn", "failover", "rearm", "abort", "boundary",
       "leaked", "acquire", "refresh", "begin", "reconcile", "top", "commit",
       "project", "after", "retry", "requeue", "giveup", "pausing", "clear",
       "close", "cancelling", "throw", "exit", "settle"} \subseteq WorkerPlace
  BY DEF WorkerPlace, Place, Awaiting, Running
<1> USE <1>h, <1>p DEF WorkerGoes, Runs, Resumes
<1>1. CASE EnterDrive(w) \/ Acquire(w) \/ Refresh(w) \/ Reconcile(w)
  BY <1>1 DEF EnterDrive, Acquire, Refresh, Reconcile
<1>2. CASE Begin(w) \/ StopAtTop(w) \/ FinishOnWallClock(w) \/ Suspend(w)
  BY <1>2, TransitionGoes DEF Begin, StopAtTop, FinishOnWallClock, Suspend, Driving
<1>3. CASE PerTurnStop(w) \/ PauseLands(w) \/ Requeue(w) \/ GiveUp(w)
  BY <1>3, TransitionGoes DEF PerTurnStop, Driving, PauseLands, Requeue, GiveUp
<1>4. CASE BeginTurn(w) \/ TurnEnds(w) \/ Commit(w) \/ Project(w)
  BY <1>4 DEF BeginTurn, TurnEnds, Commit, Project
<1>5. CASE LeaveLost(w) \/ AwaitAbort(w) \/ AwaitFailover(w) \/ LeaveDone(w)
  BY <1>5 DEF LeaveLost, AwaitAbort, AwaitFailover, LeaveDone, Driving
<1>6. CASE BoundaryCancel(w) \/ BoundaryPause(w) \/ NextTurn(w)
  BY <1>6 DEF BoundaryCancel, BoundaryPause, NextTurn, Driving
<1>7. CASE AdapterRetries(w) \/ Rearm(w) \/ FinalizeCancel(w) \/ ClearSignal(w)
  BY <1>7 DEF AdapterRetries, Rearm, FinalizeCancel, ClearSignal
<1>8. CASE CloseCancelled(w)
  BY <1>8, TransitionGoes, ActorTyped DEF CloseCancelled
<1>9. CASE BoundaryCancelling(w) \/ BoundaryAborted(w)
  BY <1>9, TransitionGoes DEF BoundaryCancelling, BoundaryAborted
<1>10. CASE Throw(w)
  BY <1>10, TransitionGoes DEF Throw
<1>11. CASE Exit(w) \/ Settle(w)
  BY <1>11 DEF Exit, Settle
<1>12. CASE FailoverDeclined(w) \/ AdapterExhausted(w)
  BY <1>12 DEF FailoverDeclined, AdapterExhausted
<1> QED BY <1>1, <1>2, <1>3, <1>4, <1>5, <1>6, <1>7, <1>8, <1>9, <1>10, <1>11,
           <1>12
        DEF Drives

\* So does a fault, unless it is a heartbeat's.
LEMMA FaltersGo ==
    ASSUME NEW w \in Worker, Falters(w)
    PROVE  WorkerGoes(w) \/ HeartbeatGivesUp(w)
<1>h. HomeOf(w) = Home[w]
  BY ActorTyped
<1>p. {"idle", "rearm", "retry", "requeue", "throw", "exit", "settle"}
        \subseteq WorkerPlace
  BY DEF WorkerPlace, Place, Awaiting, Running
<1> USE <1>h, <1>p DEF WorkerGoes, Runs, Resumes
<1>1. CASE FactoryFails(w) \/ AcquireFails(w) \/ TurnThrows(w)
  BY <1>1 DEF FactoryFails, AcquireFails, TurnThrows
<1>2. CASE ProjectFails(w) \/ ReleaseFails(w)
  BY <1>2 DEF ProjectFails, ReleaseFails
<1>3. CASE FailoverSwitches(w) \/ FailoverFails(w) \/ FenceFails(w)
  BY <1>3 DEF FailoverSwitches, FailoverFails, FenceFails
<1> QED BY <1>1, <1>2, <1>3 DEF Falters

\* A process launches a worker, goes somewhere a process can be, or stays.
LEMMA ProcessGoes ==
    ASSUME NEW p \in Proc, Schedules(p) \/ Answers(p) \/ Calls(p) \/ Recovers(p)
    PROVE  \/ ProcGoes(p) \/ UNCHANGED <<pc, cpu>>
           \/ \E w \in Worker : Launch(p, w) /\ WorkerGoes(w)
<1>h. HomeOf(p) = p
  BY ActorTyped
<1>p. {"idle", "clear", "close", "resume", "signal", "deliver"} = ProcPlace
  BY DEF ProcPlace
<1> USE <1>h, <1>p DEF ProcGoes, Runs, Free
<1>1. CASE Schedules(p)
  <2>1. ASSUME NEW w \in Worker, Launch(p, w) PROVE WorkerGoes(w)
    <3>1. "starting" \in WorkerPlace
      BY DEF WorkerPlace, Place, Awaiting
    <3> QED BY <2>1, <3>1 DEF WorkerGoes, Launch
  <2>2. CASE PumpCancel(p) \/ TimerFires(p)
    BY <2>2 DEF PumpCancel, TimerFires
  <2> QED BY <1>1, <2>1, <2>2 DEF Schedules
<1>2. CASE Answers(p)
  <2>1. CASE ResumeLands(p)
    BY <2>1, TransitionGoes DEF ResumeLands
  <2>2. CASE WriteCancelSignal(p) \/ CancelReturns(p)
    BY <2>2 DEF WriteCancelSignal, CancelReturns
  <2>3. CASE \E w \in Worker : DeliverCancel(p, w)
    BY <2>3 DEF DeliverCancel
  <2>4. CASE ClearSignal(p)
    BY <2>4, ActorTyped DEF ClearSignal
  <2>5. CASE CloseCancelled(p)
    BY <2>5, TransitionGoes DEF CloseCancelled
  <2> QED BY <1>2, <2>1, <2>2, <2>3, <2>4, <2>5 DEF Answers
<1>3. CASE Calls(p)
  BY <1>3 DEF Calls, OpPause, ResumeWithdraws, OpResume, OpCancel
<1>4. CASE Recovers(p)
  BY <1>4 DEF Recovers, RecoverPublished, RecoverStaleOp
<1> QED BY <1>1, <1>2, <1>3, <1>4

\* A crash empties the blocks of its process and leaves the others' alone.
LEMMA CrashBlocks ==
    ASSUME Shapes, Blocks, NEW p \in Proc, Crash(p)
    PROVE  Blocks'
<1>1. /\ pc \in [Actor -> Place] /\ cpu \in [Proc -> Actor \cup {None}]
      /\ pc' = [a \in Actor |-> IF HomeOf(a) = p THEN "idle" ELSE pc[a]]
      /\ cpu' = [cpu EXCEPT ![p] = None]
  BY DEF Shapes, Crash, Place
<1>2. "idle" \in ProcPlace /\ "idle" \in WorkerPlace /\ "idle" \notin Running
  BY DEF ProcPlace, WorkerPlace, Place, Awaiting, Running
<1>3. ASSUME NEW a \in Actor PROVE pc'[a] \in Running <=> cpu'[HomeOf(a)] = a
  BY <1>1, <1>2, ActorTyped, HomeTyped DEF Blocks
<1>4. ASSUME NEW q \in Proc PROVE pc'[q] \in ProcPlace
  BY <1>1, <1>2, ActorTyped DEF Blocks
<1>5. ASSUME NEW w \in Worker PROVE pc'[w] \in WorkerPlace
  BY <1>1, <1>2, ActorTyped DEF Blocks
<1> QED BY <1>3, <1>4, <1>5 DEF Blocks

\* Every step keeps the blocks in order.
LEMMA BlocksNext == Shapes /\ Blocks /\ [Next]_vars => Blocks'
<1> SUFFICES ASSUME Shapes, Blocks, [Next]_vars PROVE Blocks'
  OBVIOUS
<1>w. ASSUME NEW w \in Worker, WorkerGoes(w) PROVE Blocks'
  <2>1. PICK there \in WorkerPlace : Goto(w, there)
    BY <1>w DEF WorkerGoes
  <2> QED BY <1>w, <2>1, ActorTyped, GotoBlocks DEF WorkerGoes, WorkerPlace
<1>p. ASSUME NEW p \in Proc, ProcGoes(p) PROVE Blocks'
  <2>1. PICK there \in ProcPlace : Goto(p, there)
    BY <1>p DEF ProcGoes
  <2>2. there \in Place
    BY DEF ProcPlace, Place, Awaiting, Running
  <2> QED BY <1>p, <2>1, <2>2, ActorTyped, GotoBlocks DEF ProcGoes
<1>s. ASSUME UNCHANGED <<pc, cpu>> PROVE Blocks'
  BY <1>s DEF Blocks
<1>1. ASSUME NEW w \in Worker, Drives(w) \/ Falters(w) \/ Heartbeat(w)
      PROVE  Blocks'
  <2>1. CASE Heartbeat(w) \/ HeartbeatGivesUp(w)
    BY <2>1, <1>s
       DEF Heartbeat, HeartbeatOK, HeartbeatClaimLost, HeartbeatGivesUp
  <2> QED BY <1>1, <2>1, <1>w, DrivesGo, FaltersGo
<1>2. ASSUME NEW p \in Proc,
             Schedules(p) \/ Answers(p) \/ Calls(p) \/ Recovers(p)
      PROVE  Blocks'
  BY <1>2, <1>w, <1>p, <1>s, ProcessGoes
<1>3. ASSUME NEW p \in Proc, Crash(p) PROVE Blocks'
  BY <1>3, CrashBlocks
<1>4. CASE LeaseExpires \/ UNCHANGED vars
  BY <1>4, <1>s DEF LeaseExpires, vars
<1> QED BY <1>1, <1>2, <1>3, <1>4 DEF Next

\* At the start nobody is inside a block.
LEMMA BlocksInit == Init => Blocks
<1>1. "idle" \in ProcPlace /\ "idle" \in WorkerPlace /\ "idle" \notin Running
  BY DEF ProcPlace, WorkerPlace, Place, Awaiting, Running
<1> QED BY <1>1, ActorTyped, HomeTyped DEF Init, Blocks

-----------------------------------------------------------------------------
(* Whole-row writes, whatever the disturbances *)

\* With one process, the actor inside its block is the only one inside any.
LEMMA Alone ==
    ASSUME OneProcess, Shapes, Blocks, NEW a \in Actor,
           cpu[HomeOf(a)] \in {a, None}
    PROVE  \A b \in Actor \ {a} : pc[b] \notin Running
<1>1. ASSUME NEW b \in Actor, b # a PROVE pc[b] \notin Running
  <2>1. HomeOf(b) = HomeOf(a) /\ b # None
    BY HomeTyped, ActorTyped DEF OneProcess
  <2> QED BY <1>1, <2>1 DEF Blocks
<1> QED BY <1>1

\* An actor has read the row with the lease it still has.
ReadsLease(a) == mem[a].owner = op.owner /\ mem[a].gen = op.gen

\* So has an actor that is about to write a whole row back.
ClearReadsLease == \A a \in Actor : pc[a] = "clear" => ReadsLease(a)

\* A transition leaves the lease and the control signals of the row alone.
LEMMA TransitionKeeps ==
    ASSUME Shapes, NEW a \in Actor, NEW to, NEW next, NEW illegal,
           TransitionOp(a, to, next, illegal)
    PROVE  /\ op'.owner = op.owner /\ op'.gen = op.gen
           /\ op'.pause = op.pause /\ op'.cancel = op.cancel
BY DEF TransitionOp, Persist, Merge, Shapes, Row

\* Where an actor goes is where it stands next.
LEMMA GotoStands ==
    ASSUME Shapes, NEW a \in Actor, NEW there, Goto(a, there)
    PROVE  pc'[a] = there /\ \A b \in Actor \ {a} : pc'[b] = pc[b]
BY DEF Shapes, Goto

\* A transition takes the actor to one of its two continuations.
LEMMA TransitionStands ==
    ASSUME Shapes, NEW a \in Actor, NEW to, NEW next, NEW illegal,
           TransitionOp(a, to, next, illegal)
    PROVE  pc'[a] \in {next, illegal}
BY TransitionGoes, GotoStands

\* A row that was read whole, but for its cancel signal, has the lease on disk.
LEMMA ReadWhole ==
    ASSUME Shapes, NEW a \in Actor, UNCHANGED op,
           \/ mem' = [mem EXCEPT ![a] = [Snapshot(a) EXCEPT !.cancel = FALSE]]
           \/ mem' = [mem EXCEPT ![a] = [op EXCEPT !.cancel = FALSE]]
    PROVE  ReadsLease(a)'
<1>1. op \in Row /\ mem \in [Actor -> Row]
  BY DEF Shapes
<1>2. /\ [Snapshot(a) EXCEPT !.cancel = FALSE].gen = op.gen
      /\ [Snapshot(a) EXCEPT !.cancel = FALSE].owner = op.owner
      /\ [op EXCEPT !.cancel = FALSE].gen = op.gen
      /\ [op EXCEPT !.cancel = FALSE].owner = op.owner
  BY <1>1 DEF Snapshot, Row
<1> QED BY <1>1, <1>2 DEF ReadsLease

\* A worker that comes to clear the signal has just read the row.
LEMMA WorkerReads ==
    ASSUME Shapes, NEW w \in Worker, Drives(w) \/ Falters(w), ~HeartbeatGivesUp(w)
    PROVE  pc'[w] = "clear" => ReadsLease(w)'
<1> USE ActorTyped
<1>1. CASE EnterDrive(w) \/ FinalizeCancel(w) \/ BoundaryCancel(w)
  <2>1. UNCHANGED op
    BY <1>1 DEF EnterDrive, FinalizeCancel, BoundaryCancel
  <2>2. \/ mem' = [mem EXCEPT ![w] = [Snapshot(w) EXCEPT !.cancel = FALSE]]
        \/ pc'[w] # "clear"
    BY <1>1, GotoStands DEF EnterDrive, FinalizeCancel, BoundaryCancel
  <2> QED BY <2>1, <2>2, ReadWhole
<1>2. CASE \/ Acquire(w) \/ Refresh(w) \/ Reconcile(w) \/ BeginTurn(w) \/ TurnEnds(w)
           \/ Commit(w) \/ Project(w)
  BY <1>2, GotoStands
     DEF Acquire, Refresh, Reconcile, BeginTurn, TurnEnds, Commit, Project
<1>3. CASE \/ Begin(w) \/ StopAtTop(w) \/ FinishOnWallClock(w) \/ Suspend(w)
           \/ PerTurnStop(w) \/ PauseLands(w) \/ Requeue(w) \/ GiveUp(w)
           \/ BoundaryCancelling(w) \/ CloseCancelled(w)
  BY <1>3, TransitionStands
     DEF Begin, StopAtTop, FinishOnWallClock, Suspend, PerTurnStop, PauseLands,
         Requeue, GiveUp, BoundaryCancelling, CloseCancelled
<1>4. CASE \/ LeaveLost(w) \/ AwaitAbort(w) \/ AwaitFailover(w) \/ LeaveDone(w)
           \/ BoundaryPause(w) \/ NextTurn(w) \/ AdapterRetries(w) \/ Rearm(w)
           \/ FailoverDeclined(w) \/ AdapterExhausted(w)
  BY <1>4, GotoStands
     DEF LeaveLost, AwaitAbort, AwaitFailover, LeaveDone, BoundaryPause, NextTurn,
         AdapterRetries, Rearm, FailoverDeclined, AdapterExhausted
<1>5. CASE \/ ClearSignal(w) \/ BoundaryAborted(w) \/ Exit(w) \/ Settle(w)
  BY <1>5, GotoStands DEF ClearSignal, BoundaryAborted, Exit, Settle
<1>6. CASE Throw(w)
  BY <1>6, GotoStands, TransitionStands DEF Throw
<1>7. CASE Falters(w)
  <2>1. CASE FailoverSwitches(w) \/ FailoverFails(w) \/ FenceFails(w)
    BY <2>1, GotoStands DEF FailoverSwitches, FailoverFails, FenceFails
  <2> QED BY <1>7, <2>1, GotoStands
          DEF Falters, FactoryFails, AcquireFails, TurnThrows, ProjectFails,
              ReleaseFails
<1> QED BY <1>1, <1>2, <1>3, <1>4, <1>5, <1>6, <1>7 DEF Drives

\* A process that goes somewhere...
ProcessSteps(p) ==
    \/ PumpCancel(p) \/ ResumeLands(p) \/ WriteCancelSignal(p) \/ CancelReturns(p)
    \/ ClearSignal(p) \/ CloseCancelled(p) \/ OpResume(p) \/ OpCancel(p)

\* ...or stays where it is, in no block or in that of a cancel it delivers.
ProcessStays(p) ==
    \/ TimerFires(p) \/ OpPause(p) \/ ResumeWithdraws(p) \/ Recovers(p)
    \/ \E w \in Worker : DeliverCancel(p, w)

\* A process that comes to clear the signal has just read the row, too.
LEMMA ProcessReads ==
    ASSUME Shapes, NEW p \in Proc, ProcessSteps(p)
    PROVE  /\ cpu[p] \in {p, None} /\ \E there : Goto(p, there)
           /\ pc'[p] = "clear" => ReadsLease(p)'
<1> USE ActorTyped
<1>1. CASE PumpCancel(p)
  BY <1>1, ReadWhole DEF PumpCancel, Free
<1>2. CASE CancelReturns(p)
  <2>1. /\ UNCHANGED op
        /\ \/ mem' = [mem EXCEPT ![p] = [Snapshot(p) EXCEPT !.cancel = FALSE]]
           \/ pc'[p] # "clear"
    BY <1>2, GotoStands DEF CancelReturns
  <2>2. cpu[p] = p /\ \E there : Goto(p, there)
    BY <1>2 DEF CancelReturns, Runs
  <2> QED BY <2>1, <2>2, ReadWhole
<1>3. CASE ResumeLands(p) \/ CloseCancelled(p)
  <2>1. cpu[p] = p /\ \E there : Goto(p, there)
    BY <1>3, TransitionGoes DEF ResumeLands, CloseCancelled, Runs
  <2> QED BY <1>3, <2>1, TransitionStands DEF ResumeLands, CloseCancelled
<1>4. CASE OpResume(p) \/ OpCancel(p) \/ WriteCancelSignal(p) \/ ClearSignal(p)
  BY <1>4, GotoStands
     DEF OpResume, OpCancel, WriteCancelSignal, ClearSignal, Runs, Free
<1> QED BY <1>1, <1>2, <1>3, <1>4 DEF ProcessSteps

\* With one process nothing happens between that read and the write.
LEMMA ClearNext ==
    ASSUME OneProcess, Shapes, Blocks, ClearReadsLease, [Next]_vars
    PROVE  ClearReadsLease'
<1>s. ASSUME UNCHANGED <<op, mem, pc>> PROVE ClearReadsLease'
  BY <1>s DEF ClearReadsLease, ReadsLease
<1>g. ASSUME NEW a \in Actor, cpu[HomeOf(a)] \in {a, None},
             \E there : Goto(a, there),
             pc'[a] = "clear" => ReadsLease(a)'
      PROVE  ClearReadsLease'
  <2>1. \A b \in Actor \ {a} : pc'[b] = pc[b] /\ pc[b] # "clear"
    BY <1>g, GotoStands, Alone DEF Running
  <2> QED BY <1>g, <2>1 DEF ClearReadsLease
<1>f. ASSUME UNCHANGED pc, NEW p \in Proc, Free(p) \/ Runs(p, "deliver")
      PROVE  ClearReadsLease'
  <2>1. \A a \in Actor : pc[a] # "clear"
    BY <1>f, ActorTyped, Alone, HomeTyped DEF Free, Runs, Blocks, Running
  <2> QED BY <1>f, <2>1 DEF ClearReadsLease
<1>1. ASSUME NEW w \in Worker, Drives(w) \/ Falters(w) \/ Heartbeat(w)
      PROVE  ClearReadsLease'
  <2>1. CASE Heartbeat(w) \/ HeartbeatGivesUp(w)
    BY <2>1, <1>s
       DEF Heartbeat, HeartbeatOK, HeartbeatClaimLost, HeartbeatGivesUp
  <2>2. CASE WorkerGoes(w) /\ (Drives(w) \/ Falters(w)) /\ ~HeartbeatGivesUp(w)
    BY <2>2, <1>g, WorkerReads, ActorTyped DEF WorkerGoes
  <2> QED BY <1>1, <2>1, <2>2, DrivesGo, FaltersGo
<1>2. ASSUME NEW p \in Proc, NEW w \in Worker, Launch(p, w) PROVE ClearReadsLease'
  <2>1. Goto(w, "starting") /\ w \in Actor /\ cpu[HomeOf(w)] = None
    BY <1>2, ActorTyped DEF Launch, Free
  <2>2. pc'[w] # "clear"
    BY <2>1, GotoStands
  <2> QED BY <2>1, <2>2, <1>g
<1>3. ASSUME NEW p \in Proc,
             Schedules(p) \/ Answers(p) \/ Calls(p) \/ Recovers(p)
      PROVE  ClearReadsLease'
  <2>1. CASE ProcessStays(p)
    <3>1. UNCHANGED pc /\ (Free(p) \/ Runs(p, "deliver"))
      BY <2>1
         DEF ProcessStays, TimerFires, OpPause, ResumeWithdraws, Recovers,
             RecoverPublished, RecoverStaleOp, Stale, DeliverCancel
    <3> QED BY <1>f, <3>1
  <2>2. CASE ProcessSteps(p)
    BY <1>g, <2>2, ProcessReads, ActorTyped
  <2> QED BY <1>2, <1>3, <2>1, <2>2
          DEF Schedules, Answers, Calls, ProcessStays, ProcessSteps
<1>4. ASSUME NEW p \in Proc, Crash(p) PROVE ClearReadsLease'
  <2>1. \A a \in Actor : pc'[a] = "idle"
    BY <1>4, HomeTyped DEF Crash, OneProcess
  <2> QED BY <2>1 DEF ClearReadsLease
<1>5. CASE LeaseExpires \/ UNCHANGED vars
  BY <1>5, <1>s DEF LeaseExpires, vars
<1> QED BY <1>1, <1>3, <1>4, <1>5 DEF Next

\* Where every copy that is about to be written back has the lease on disk, the
\* generation grows.
LEMMA GenerationsGrow ==
    ASSUME Shapes, ClearReadsLease, [Next]_vars
    PROVE  op'.gen >= op.gen
<1>1. op.gen \in Int
  BY ConstantsAssumption DEF Shapes, Row
<1>2. ASSUME NEW a \in Actor, ClearSignal(a) PROVE op'.gen = op.gen
  BY <1>2 DEF ClearSignal, Runs, ClearReadsLease, ReadsLease
<1> QED BY <1>1, <1>2, OnlyClearingGoesBack

\* The row of the operation is only written back whole inside the block that read
\* it.
THEOREM RowsReadAreCurrent ==
    ASSUME OneProcess
    PROVE  Spec => [](Blocks /\ ClearReadsLease)
<1>1. Init => Blocks /\ ClearReadsLease
  <2>1. Init => ClearReadsLease
    BY DEF Init, ClearReadsLease
  <2> QED BY <2>1, BlocksInit
<1>2. Shapes /\ Blocks /\ ClearReadsLease /\ [Next]_vars => Blocks' /\ ClearReadsLease'
  BY BlocksNext, ClearNext
<1>3. IInv => Shapes
  BY DEF IInv, TypeOK
<1> QED BY <1>1, <1>2, <1>3, Invariance, PTL DEF Spec

\* So, with one server process and whatever goes wrong, the lease generation never
\* goes down...
LEMMA OneProcessGrows ==
    ASSUME OneProcess
    PROVE  Spec => GenerationGrows
<1>1. Shapes /\ ClearReadsLease /\ [Next]_vars => [op'.gen >= op.gen]_vars
  BY GenerationsGrow
<1>2. IInv => Shapes
  BY DEF IInv, TypeOK
<1> QED BY <1>1, <1>2, Invariance, RowsReadAreCurrent, PTL DEF Spec, GenerationGrows

\* ...no published turn is followed by one of an older lease...
THEOREM TurnsInLeaseOrder ==
    ASSUME OneProcess
    PROVE  Spec => []GenerationsOrdered
BY OneProcessGrows, LogIsFenced, PTL

\* ...and a published turn is never replaced, nor followed by another once it has
\* ended the run.
THEOREM TurnsOnlyAppended ==
    ASSUME OneProcess
    PROVE  Spec => TurnLogAppendOnly
BY OneProcessGrows, LogIsFenced, PTL

-----------------------------------------------------------------------------
(* The lease of a live worker, whatever the disturbances *)

\* An operation is queued behind nobody in flight.
QueuedAlone == \A p \in Proc : sched[p].queued => sched[p].active = None

\* A worker is in flight from its slot to its heartbeat; it arms the heartbeat
\* of the lease it has just taken, and from then on holds both the lease and the
\* slot, until it gives up or rejects.
DutyAt(w) ==
    /\ pc[w] \in {"starting", "acquire", "refresh"} => sched[Home[w]].active = w
    /\ pc[w] = "refresh" => Owns(w)
    /\ pc[w] \in {"idle", "starting", "acquire", "refresh"} => ~run[w].armed
    /\ run[w].armed /\ pc[w] # "leaked" => Owns(w) /\ sched[Home[w]].active = w
OnDuty == \A w \in Worker : DutyAt(w)
DutyInv == QueuedAlone /\ OnDuty

\* What a step does to a worker it does not launch, lease, arm or release.
Serves(w) ==
    /\ run'[w].claim = run[w].claim
    /\ run'[w].armed => run[w].armed
    /\ pc'[w] # pc[w] =>
        /\ pc'[w] \notin {"starting", "refresh"}
        /\ pc'[w] = "acquire" => pc[w] = "starting"
        /\ pc'[w] = "idle" => ~run'[w].armed
        /\ pc[w] # "leaked"

\* What a step does to the slots when it takes none and gives none back.
SlotsKept ==
    \A p \in Proc :
        /\ sched'[p].active = sched[p].active
        /\ sched'[p].queued => sched[p].queued \/ sched[p].active = None

LeaseKept == op'.owner = op.owner /\ op'.gen = op.gen

\* A step that leaves the lease, the slots and every worker's part in them keeps
\* the workers on duty.
LEMMA ServesOn ==
    ASSUME Shapes, DutyInv, LeaseKept, SlotsKept, \A w \in Worker : Serves(w)
    PROVE  DutyInv'
<1>1. QueuedAlone'
  BY DEF DutyInv, QueuedAlone, SlotsKept
<1>2. ASSUME NEW w \in Worker PROVE DutyAt(w)'
  <2>1. /\ DutyAt(w) /\ Serves(w) /\ Home[w] \in Proc
        /\ sched'[Home[w]].active = sched[Home[w]].active
    BY ActorTyped DEF DutyInv, OnDuty, SlotsKept
  <2>2. Owns(w) => Owns(w)'
    BY <2>1 DEF LeaseKept, Serves, Owns
  <2>3. pc'[w] \in {"starting", "acquire", "refresh"}
        => pc[w] \in {"starting", "acquire", "refresh"}
    BY <2>1 DEF Serves
  <2>4. pc'[w] = "refresh" => pc[w] = "refresh"
    BY <2>1 DEF Serves
  <2>5. pc'[w] \in {"idle", "starting", "acquire", "refresh"} => ~run'[w].armed
    BY <2>1, <2>3 DEF Serves, DutyAt
  <2>6. run'[w].armed /\ pc'[w] # "leaked" => run[w].armed /\ pc[w] # "leaked"
    BY <2>1 DEF Serves
  <2> QED BY <2>1, <2>2, <2>3, <2>4, <2>5, <2>6 DEF DutyAt
<1> QED BY <1>1, <1>2 DEF DutyInv, OnDuty

\* A worker that goes somewhere and touches only its own locals leaves the others
\* to serve on.
LEMMA OthersServe ==
    ASSUME Shapes, NEW w \in Worker, NEW there, Goto(w, there),
           \A v \in Worker \ {w} : run'[v] = run[v],
           Serves(w)
    PROVE  \A v \in Worker : Serves(v)
<1>1. \A v \in Worker \ {w} : pc'[v] = pc[v]
  BY GotoStands, ActorTyped
<1> QED BY <1>1 DEF Serves

\* What a worker does to the slots and the lease when it drives on.
Onward(w) ==
    /\ LeaseKept /\ SlotsKept /\ Serves(w)
    /\ \E there : Goto(w, there)
    /\ \A v \in Worker \ {w} : run'[v] = run[v]

LEMMA OnwardServes ==
    ASSUME Shapes, DutyInv, NEW w \in Worker, Onward(w)
    PROVE  DutyInv'
BY OthersServe, ServesOn DEF Onward

\* A worker that changes nothing but its place, and maybe the row in a way that
\* keeps the lease, drives on.
LEMMA PlainlyOnward ==
    ASSUME Shapes, NEW w \in Worker, NEW there, Goto(w, there),
           UNCHANGED <<run, sched>>, LeaseKept, pc[w] \notin {"idle", "leaked"},
           there \notin {"starting", "acquire", "refresh", "idle"}
    PROVE  Onward(w)
<1>1. pc'[w] = there
  BY GotoStands, ActorTyped
<1> QED BY <1>1 DEF Onward, Serves, SlotsKept

LEMMA TransitionOnward ==
    ASSUME Shapes, NEW w \in Worker, NEW to, NEW next, NEW illegal,
           TransitionOp(w, to, next, illegal),
           UNCHANGED <<run, sched>>, pc[w] \notin {"idle", "leaked"},
           next \notin {"starting", "acquire", "refresh", "idle"},
           illegal \notin {"starting", "acquire", "refresh", "idle"}
    PROVE  Onward(w)
<1>1. LeaseKept
  BY TransitionKeeps, ActorTyped DEF LeaseKept
<1>2. Goto(w, next) \/ Goto(w, illegal)
  BY TransitionGoes, ActorTyped
<1> QED BY <1>1, <1>2, PlainlyOnward

\* An ordinary step of a worker's own code.
LEMMA DrivesOnward ==
    ASSUME Shapes, ClearReadsLease, NEW w \in Worker, Drives(w),
           ~Acquire(w), ~Refresh(w), ~Begin(w), ~Exit(w), ~Settle(w)
    PROVE  Onward(w)
<1>a. w \in Actor /\ Home[w] \in Proc
  BY ActorTyped
<1>t. /\ op \in Row /\ run \in [Worker -> Drive] /\ sched \in [Proc -> Entry]
      /\ mem \in [Actor -> Row]
  BY DEF Shapes
<1> USE <1>a
<1>1. CASE EnterDrive(w)
  <2>1. /\ UNCHANGED <<op, run, sched>> /\ pc[w] = "starting"
        /\ Goto(w, "clear") \/ Goto(w, "acquire")
    BY <1>1 DEF EnterDrive, Resumes
  <2>2. pc'[w] \in {"clear", "acquire"}
    BY <2>1, GotoStands
  <2> QED BY <2>1, <2>2 DEF Onward, LeaseKept, SlotsKept, Serves
<1>2. CASE Reconcile(w) \/ TurnEnds(w) \/ BoundaryCancel(w) \/ NextTurn(w)
  <2>1. /\ UNCHANGED sched /\ LeaseKept
        /\ pc[w] \in {"reconcile", "turn", "after"}
    BY <1>t, <1>2
       DEF Reconcile, TurnEnds, BoundaryCancel, NextTurn, Driving, Runs, Resumes,
           LeaseKept, ProjectTo, Row
  <2>2. /\ \A v \in Worker \ {w} : run'[v] = run[v]
        /\ run'[w].claim = run[w].claim /\ run'[w].armed = run[w].armed
    BY <1>t, <1>2 DEF Reconcile, TurnEnds, BoundaryCancel, NextTurn, Drive
  <2>3. \E there \in {"exit", "throw", "top", "after", "commit", "clear"} :
            Goto(w, there)
    BY <1>2 DEF Reconcile, TurnEnds, BoundaryCancel, NextTurn
  <2>4. pc'[w] \in {"exit", "throw", "top", "after", "commit", "clear"}
    BY <2>3, GotoStands
  <2> QED BY <2>1, <2>2, <2>3, <2>4 DEF Onward, SlotsKept, Serves
<1>3. CASE StopAtTop(w) \/ FinishOnWallClock(w) \/ Suspend(w) \/ PerTurnStop(w)
           \/ PauseLands(w) \/ Requeue(w) \/ GiveUp(w) \/ BoundaryCancelling(w)
  BY <1>3, TransitionOnward
     DEF StopAtTop, FinishOnWallClock, Suspend, PerTurnStop, PauseLands,
         Requeue, GiveUp, BoundaryCancelling, Driving, Runs, Resumes
<1>4. CASE CloseCancelled(w)
  BY <1>4, TransitionOnward, ActorTyped DEF CloseCancelled, Runs
<1>5. CASE Throw(w)
  <2>1. UNCHANGED <<run, sched>> /\ pc[w] = "throw"
    BY <1>5 DEF Throw, Runs
  <2>2. CASE TransitionOp(w, "failed", "exit", "exit")
    BY <2>1, <2>2, TransitionOnward
  <2>3. CASE UNCHANGED op /\ (Goto(w, "exit") \/ Goto(w, "abort"))
    BY <2>1, <2>3, PlainlyOnward DEF LeaseKept
  <2> QED BY <1>5, <2>2, <2>3 DEF Throw
<1>6. CASE BeginTurn(w) \/ Commit(w) \/ LeaveLost(w) \/ AwaitAbort(w)
           \/ AwaitFailover(w) \/ LeaveDone(w) \/ BoundaryAborted(w)
           \/ FinalizeCancel(w) \/ FailoverDeclined(w)
  <2>1. UNCHANGED <<op, run, sched>>
    BY <1>6
       DEF BeginTurn, Commit, LeaveLost, AwaitAbort, AwaitFailover, LeaveDone,
           BoundaryAborted, FinalizeCancel, FailoverDeclined
  <2>2. pc[w] \in {"top", "commit", "after", "boundary", "abort", "failover"}
    BY <1>6
       DEF BeginTurn, Commit, LeaveLost, AwaitAbort, AwaitFailover, LeaveDone,
           BoundaryAborted, FinalizeCancel, FailoverDeclined,
           Driving, Runs, Resumes
  <2>3. \E there \in {"turn", "exit", "project", "abort", "failover", "retry",
                    "close", "clear"} : Goto(w, there)
    BY <1>6
       DEF BeginTurn, Commit, LeaveLost, AwaitAbort, AwaitFailover, LeaveDone,
           BoundaryAborted, FinalizeCancel, FailoverDeclined
  <2> QED BY <2>1, <2>2, <2>3, PlainlyOnward DEF LeaseKept
<1>7. CASE Project(w) \/ BoundaryPause(w) \/ AdapterRetries(w)
           \/ AdapterExhausted(w)
  <2>1. UNCHANGED <<run, sched>> /\ pc[w] \in {"project", "after", "retry"}
    BY <1>7 DEF Project, BoundaryPause, AdapterRetries, AdapterExhausted, Driving,
                Runs
  <2>2. LeaseKept
    BY <1>t, <1>7
       DEF Project, BoundaryPause, AdapterRetries, AdapterExhausted, ProjectTo,
           Snapshot, Persist, Merge, LeaseKept, Row
  <2>3. \E there \in {"after", "throw", "pausing", "requeue", "giveup"} :
            Goto(w, there)
    BY <1>7 DEF Project, BoundaryPause, AdapterRetries, AdapterExhausted
  <2> QED BY <2>1, <2>2, <2>3, PlainlyOnward
<1>8. CASE Rearm(w)
  <2>1. /\ UNCHANGED <<op, run>> /\ pc[w] = "rearm"
        /\ Goto(w, "settle") \/ Goto(w, "exit")
        /\ sched' = [sched EXCEPT ![Home[w]].timer = TRUE]
    BY <1>8 DEF Rearm, Resumes
  <2>2. SlotsKept
    BY <1>t, <2>1 DEF SlotsKept, Entry
  <2>3. pc'[w] \in {"settle", "exit"}
    BY <2>1, GotoStands
  <2> QED BY <2>1, <2>2, <2>3 DEF Onward, LeaseKept, Serves
<1>9. CASE ClearSignal(w)
  <2>1. /\ UNCHANGED <<run, sched>> /\ op' = mem[w] /\ pc[w] = "clear"
        /\ Goto(w, "cancelling") \/ Goto(w, "close")
    BY <1>9 DEF ClearSignal, Runs
  <2>2. LeaseKept
    BY <2>1 DEF ClearReadsLease, ReadsLease, LeaseKept
  <2> QED BY <2>1, <2>2, PlainlyOnward
<1> QED BY <1>1, <1>2, <1>3, <1>4, <1>5, <1>6, <1>7, <1>8, <1>9 DEF Drives

\* A lease is only taken by the worker in flight, and then nobody else can be on
\* duty.
LEMMA AcquireOnDuty ==
    ASSUME OneProcess, Shapes, DutyInv, NEW w \in Worker, Acquire(w)
    PROVE  DutyInv'
<1>a. w \in Actor /\ \A v \in Worker : Home[v] = Home[w]
  BY ActorTyped DEF OneProcess
<1>t. op \in Row /\ run \in [Worker -> Drive] /\ w # None
  BY ActorTyped DEF Shapes
<1>1. /\ UNCHANGED sched /\ pc[w] = "acquire"
      /\ sched[Home[w]].active = w /\ ~run[w].armed
  BY DEF Acquire, Runs, DutyInv, OnDuty, DutyAt
<1>2. CASE Goto(w, "settle") /\ UNCHANGED <<op, run>>
  <2>1. Onward(w)
    BY <1>1, <1>2, PlainlyOnward DEF LeaseKept
  <2> QED BY <2>1, OnwardServes
<1>3. CASE /\ op.gen < MaxGen
           /\ op' = [op EXCEPT !.owner = w, !.gen = @ + 1]
           /\ run' = [run EXCEPT ![w].claim = op.gen + 1]
           /\ Goto(w, "refresh")
  <2>1. pc'[w] = "refresh" /\ \A v \in Worker \ {w} : pc'[v] = pc[v]
    BY <1>a, <1>3, GotoStands, ActorTyped
  <2>2. /\ op'.owner = w /\ op'.gen = op.gen + 1
        /\ run'[w].claim = op.gen + 1 /\ run'[w].armed = run[w].armed
        /\ \A v \in Worker \ {w} : run'[v] = run[v]
    BY <1>t, <1>3 DEF Row, Drive
  <2>3. DutyAt(w)'
    BY <1>1, <2>1, <2>2 DEF DutyAt, Owns
  <2>4. ASSUME NEW v \in Worker \ {w} PROVE DutyAt(v)'
    <3>1. DutyAt(v) /\ sched[Home[v]].active # v
      BY <1>a, <1>1 DEF DutyInv, OnDuty
    <3> QED BY <1>1, <2>1, <2>2, <3>1 DEF DutyAt
  <2>5. QueuedAlone'
    BY <1>1 DEF DutyInv, QueuedAlone
  <2> QED BY <2>3, <2>4, <2>5 DEF DutyInv, OnDuty
<1> QED BY <1>2, <1>3 DEF Acquire

\* The heartbeat is armed on the lease just taken, in the slot still held.
LEMMA RefreshOnDuty ==
    ASSUME Shapes, DutyInv, NEW w \in Worker, Refresh(w)
    PROVE  DutyInv'
<1>1. /\ UNCHANGED <<op, sched>> /\ Owns(w) /\ sched[Home[w]].active = w
  BY DEF Refresh, Runs, DutyInv, OnDuty, DutyAt
<1>2. pc'[w] = "begin" /\ \A v \in Worker \ {w} : pc'[v] = pc[v]
  BY GotoStands, ActorTyped DEF Refresh
<1>3. run \in [Worker -> Drive]
  BY DEF Shapes
<1>4. run'[w].claim = run[w].claim /\ \A v \in Worker \ {w} : run'[v] = run[v]
  BY <1>3 DEF Refresh, Drive
<1>5. DutyAt(w)'
  BY <1>1, <1>2, <1>4 DEF DutyAt, Owns
<1>6. ASSUME NEW v \in Worker \ {w} PROVE DutyAt(v)'
  BY <1>1, <1>2, <1>4 DEF DutyInv, OnDuty, DutyAt, Owns
<1>7. QueuedAlone'
  BY <1>1 DEF DutyInv, QueuedAlone
<1> QED BY <1>5, <1>6, <1>7 DEF DutyInv, OnDuty

\* A step that ends what a worker is on duty for, and may give its slot back,
\* leaves the others on theirs.
LEMMA StandsDown ==
    ASSUME Shapes, DutyInv, NEW w \in Worker, NEW there, Goto(w, there),
           \/ LeaseKept
           \/ Owns(w),
           \/ UNCHANGED sched
           \/ /\ sched[Home[w]].active = w
              /\ sched' = [sched EXCEPT ![Home[w]].active = None],
           \A v \in Worker \ {w} : run'[v] = run[v],
           there = "leaked" \/ ~run'[w].armed,
           there \notin {"starting", "acquire", "refresh"}
    PROVE  DutyInv'
<1>1. pc'[w] = there /\ \A v \in Worker \ {w} : pc'[v] = pc[v]
  BY GotoStands, ActorTyped
<1>2. DutyAt(w)'
  BY <1>1 DEF DutyAt
<1>3. sched \in [Proc -> Entry] /\ Home[w] \in Proc
  BY ActorTyped DEF Shapes
<1>4. ASSUME NEW v \in Worker \ {w}, sched[Home[v]].active = v
      PROVE  sched'[Home[v]].active = v
  BY <1>3, <1>4, ActorTyped DEF Entry
<1>5. ASSUME NEW v \in Worker \ {w}, Owns(v) PROVE Owns(v)'
  BY <1>5 DEF Owns, LeaseKept
<1>6. ASSUME NEW v \in Worker \ {w} PROVE DutyAt(v)'
  BY <1>1, <1>4, <1>5 DEF DutyInv, OnDuty, DutyAt
<1>7. QueuedAlone'
  BY <1>3 DEF DutyInv, QueuedAlone, Entry
<1> QED BY <1>2, <1>6, <1>7 DEF DutyInv, OnDuty

\* So do a rejection, the release of a lease and the end of a drive.
LEMMA LeavesDuty ==
    ASSUME Shapes, DutyInv, NEW w \in Worker, Begin(w) \/ Exit(w) \/ Settle(w)
    PROVE  DutyInv'
<1>t. run \in [Worker -> Drive] /\ w \in Actor
  BY ActorTyped DEF Shapes
<1>1. CASE Begin(w)
  <2>1. UNCHANGED run /\ LeaseKept /\ pc[w] = "begin"
    BY <1>1, <1>t, TransitionKeeps DEF Begin, Runs, LeaseKept
  <2>2. CASE Goto(w, "reconcile")
    <3>1. pc'[w] = "reconcile"
      BY <1>t, <2>2, GotoStands
    <3>2. UNCHANGED sched
      BY <1>1, <3>1 DEF Begin
    <3>3. Onward(w)
      BY <2>1, <2>2, <3>2, PlainlyOnward
    <3> QED BY <3>3, OnwardServes
  <2>3. CASE Goto(w, "leaked")
    BY <1>1, <2>1, <2>3, StandsDown DEF Begin
  <2> QED BY <1>1, <2>2, <2>3, TransitionGoes DEF Begin
<1>2. CASE Exit(w)
  <2>1. /\ ~run'[w].armed /\ \A v \in Worker \ {w} : run'[v] = run[v]
        /\ UNCHANGED sched /\ Goto(w, "settle")
    BY <1>t, <1>2 DEF Exit, Drive
  <2>2. LeaseKept \/ Owns(w)
    BY <1>2 DEF Exit, LeaseKept
  <2> QED BY <2>1, <2>2, StandsDown
<1>3. CASE Settle(w)
  <2>1. /\ ~run'[w].armed /\ \A v \in Worker \ {w} : run'[v] = run[v]
        /\ LeaseKept /\ Goto(w, "idle")
    BY <1>t, <1>3 DEF Settle, NotDriving, LeaseKept
  <2>2. \/ UNCHANGED sched
        \/ /\ sched[Home[w]].active = w
           /\ sched' = [sched EXCEPT ![Home[w]].active = None]
    BY <1>3 DEF Settle
  <2> QED BY <2>1, <2>2, StandsDown
<1> QED BY <1>1, <1>2, <1>3

\* A fault costs a worker its launch, its turn or its heartbeat, and no other
\* worker anything.
LEMMA FaultsOnDuty ==
    ASSUME Shapes, DutyInv, NEW w \in Worker, Falters(w) \/ Heartbeat(w)
    PROVE  DutyInv'
<1>t. run \in [Worker -> Drive] /\ w \in Actor /\ op \in Row
  BY ActorTyped DEF Shapes
<1>1. CASE FactoryFails(w)
  <2>1. /\ UNCHANGED run /\ pc[w] = "starting" /\ Goto(w, "idle")
        /\ sched' = [sched EXCEPT ![Home[w]].active = None]
    BY <1>1 DEF FactoryFails, Resumes
  <2>2. sched[Home[w]].active = w /\ ~run'[w].armed
    BY <2>1 DEF DutyInv, OnDuty, DutyAt
  <2>3. LeaseKept
    BY <1>1, <1>t DEF FactoryFails, LeaseKept, Row
  <2> QED BY <2>1, <2>2, <2>3, StandsDown
<1>2. CASE AcquireFails(w) \/ TurnThrows(w) \/ ProjectFails(w)
  <2>1. UNCHANGED <<op, run, sched>> /\ pc[w] \in {"acquire", "turn", "project"}
    BY <1>2 DEF AcquireFails, TurnThrows, ProjectFails, Runs, Resumes
  <2>2. Goto(w, "rearm") \/ Goto(w, "throw")
    BY <1>2 DEF AcquireFails, TurnThrows, ProjectFails
  <2>3. Onward(w)
    BY <2>1, <2>2, PlainlyOnward DEF LeaseKept
  <2> QED BY <2>3, OnwardServes
<1>3. CASE FailoverSwitches(w) \/ FailoverFails(w) \/ FenceFails(w)
  <2>1. /\ UNCHANGED <<run, sched>>
        /\ pc[w] \in {"failover", "reconcile", "commit"}
    BY <1>3 DEF FailoverSwitches, FailoverFails, FenceFails, Runs, Resumes
  <2>2. \E there \in {"requeue", "retry", "throw", "exit"} : Goto(w, there)
    BY <1>3 DEF FailoverSwitches, FailoverFails, FenceFails
  <2>3. LeaseKept
    BY <1>t, <1>3 DEF FailoverSwitches, FailoverFails, FenceFails, LeaseKept, Row
  <2>4. Onward(w)
    BY <2>1, <2>2, <2>3, PlainlyOnward
  <2> QED BY <2>4, OnwardServes
<1>4. CASE ReleaseFails(w)
  <2>1. /\ ~run'[w].armed /\ \A v \in Worker \ {w} : run'[v] = run[v]
        /\ UNCHANGED <<op, sched>> /\ Goto(w, "settle")
    BY <1>t, <1>4 DEF ReleaseFails, Drive
  <2> QED BY <2>1, StandsDown DEF LeaseKept
<1>5. CASE HeartbeatGivesUp(w) \/ HeartbeatClaimLost(w)
  <2>1. /\ UNCHANGED <<op, sched, pc>>
        /\ ~run'[w].armed /\ run'[w].claim = run[w].claim
        /\ \A v \in Worker \ {w} : run'[v] = run[v]
    BY <1>t, <1>5 DEF HeartbeatGivesUp, HeartbeatClaimLost, Drive
  <2>2. LeaseKept /\ SlotsKept /\ \A v \in Worker : Serves(v)
    BY <2>1 DEF LeaseKept, SlotsKept, Serves
  <2> QED BY <2>2, ServesOn
<1>6. CASE HeartbeatOK(w)
  <2>1. LeaseKept /\ SlotsKept /\ \A v \in Worker : Serves(v)
    BY <1>6 DEF HeartbeatOK, LeaseKept, SlotsKept, Serves
  <2> QED BY <2>1, ServesOn
<1> QED BY <1>1, <1>2, <1>3, <1>4, <1>5, <1>6 DEF Falters, Heartbeat

\* A worker is launched when the operation is queued, which is behind nobody.
LEMMA LaunchOnDuty ==
    ASSUME Shapes, DutyInv, NEW p \in Proc, NEW w \in Worker, Launch(p, w)
    PROVE  DutyInv'
<1>1. /\ UNCHANGED <<op, run>> /\ Home[w] = p /\ pc[w] = "idle"
      /\ sched[p].active = None /\ ~run[w].armed
  BY DEF Launch, DutyInv, QueuedAlone, OnDuty, DutyAt
<1>2. pc'[w] = "starting" /\ \A v \in Worker \ {w} : pc'[v] = pc[v]
  BY GotoStands, ActorTyped DEF Launch
<1>3. sched \in [Proc -> Entry] /\ w # None
  BY ActorTyped DEF Shapes
<1>4. /\ sched'[p].active = w /\ ~sched'[p].queued
      /\ \A q \in Proc \ {p} : sched'[q] = sched[q]
  BY <1>3 DEF Launch, Entry
<1>5. DutyAt(w)'
  BY <1>1, <1>2, <1>4 DEF DutyAt
<1>6. ASSUME NEW v \in Worker \ {w} PROVE DutyAt(v)'
  <2>1. DutyAt(v) /\ Home[v] \in Proc /\ v # None
    BY ActorTyped DEF DutyInv, OnDuty
  <2>2. sched[Home[v]].active = v => sched'[Home[v]].active = v
    BY <1>1, <1>4, <2>1
  <2> QED BY <1>1, <1>2, <2>1, <2>2 DEF DutyAt, Owns
<1>7. QueuedAlone'
  BY <1>4 DEF DutyInv, QueuedAlone
<1> QED BY <1>5, <1>6, <1>7 DEF DutyInv, OnDuty

\* What a process enqueues is queued behind nobody.
LEMMA EnqueuedAlone ==
    ASSUME NEW entry \in Entry
    PROVE  /\ Enqueue(entry).active = entry.active
           /\ Enqueue(entry).queued => entry.queued \/ entry.active = None
BY DEF Enqueue, Entry

\* The control API and the pump leave the workers on duty where they are; a
\* cancel delivered to one moves the row, never its lease.
LEMMA ProcessOnDuty ==
    ASSUME Shapes, DutyInv, ClearReadsLease, NEW p \in Proc,
           \/ Answers(p) \/ Calls(p) \/ PumpCancel(p) \/ TimerFires(p)
           \/ RecoverPublished(p)
    PROVE  DutyInv'
<1>a. p \in Actor /\ \A w \in Worker : w # p
  BY ActorTyped
<1>t. /\ op \in Row /\ mem \in [Actor -> Row] /\ sched \in [Proc -> Entry]
      /\ run \in [Worker -> Drive]
  BY DEF Shapes
<1>w. ASSUME \/ UNCHANGED pc
             \/ \E there : Goto(p, there)
      PROVE  \A w \in Worker : pc'[w] = pc[w]
  BY <1>a, <1>w, GotoStands, ActorTyped
<1>q. ASSUME UNCHANGED run, \A w \in Worker : pc'[w] = pc[w], LeaseKept, SlotsKept
      PROVE  DutyInv'
  BY <1>q, ServesOn DEF Serves
<1>1. CASE \E w \in Worker : DeliverCancel(p, w)
  <2>1. PICK w \in Worker : DeliverCancel(p, w)
    BY <1>1
  <2>2. LeaseKept /\ SlotsKept /\ UNCHANGED pc
    BY <1>t, <2>1 DEF DeliverCancel, Persist, Merge, LeaseKept, SlotsKept, Row
  <2>3. \A v \in Worker : run'[v].claim = run[v].claim /\ run'[v].armed = run[v].armed
    BY <1>t, <2>1 DEF DeliverCancel, Drive
  <2> QED BY <2>2, <2>3, ServesOn DEF Serves
<1>2. CASE OpPause(p) \/ ResumeWithdraws(p) \/ RecoverPublished(p)
  <2>1. UNCHANGED <<run, sched, pc>> /\ LeaseKept
    BY <1>t, <1>2 DEF OpPause, ResumeWithdraws, RecoverPublished, LeaseKept, Row
  <2> QED BY <1>w, <1>q, <2>1 DEF SlotsKept
<1>3. CASE OpResume(p) \/ OpCancel(p)
  BY <1>w, <1>q, <1>3 DEF OpResume, OpCancel, LeaseKept, SlotsKept
<1>4. CASE PumpCancel(p) \/ TimerFires(p)
  <2>1. UNCHANGED <<run, op>> /\ LeaseKept
    BY <1>4 DEF PumpCancel, TimerFires, LeaseKept
  <2>2. SlotsKept
    BY <1>t, <1>4 DEF PumpCancel, TimerFires, SlotsKept, Entry
  <2>3. \A w \in Worker : pc'[w] = pc[w]
    BY <1>w, <1>4 DEF PumpCancel, TimerFires
  <2> QED BY <1>q, <2>1, <2>2, <2>3
<1>5. CASE ResumeLands(p)
  <2>1. TransitionOp(p, "queued", "idle", "idle") /\ UNCHANGED run
    BY <1>5 DEF ResumeLands
  <2>2. LeaseKept
    BY <1>a, <2>1, TransitionKeeps DEF LeaseKept
  <2>3. \A w \in Worker : pc'[w] = pc[w]
    BY <1>w, <2>1, TransitionGoes
  <2>4. sched' = [sched EXCEPT ![p] = Enqueue(sched[p])]
    BY <1>5 DEF ResumeLands
  <2>5. SlotsKept
    BY <1>t, <2>4, EnqueuedAlone DEF SlotsKept
  <2> QED BY <1>q, <2>1, <2>2, <2>3, <2>5
<1>6. CASE WriteCancelSignal(p)
  <2>1. UNCHANGED <<run, sched>> /\ LeaseKept
    BY <1>t, <1>6 DEF WriteCancelSignal, LeaseKept, Row
  <2> QED BY <1>w, <1>q, <1>6, <2>1 DEF WriteCancelSignal, SlotsKept
<1>7. CASE CancelReturns(p)
  <2>1. UNCHANGED <<op, run>> /\ LeaseKept
    BY <1>7 DEF CancelReturns, LeaseKept
  <2>2. SlotsKept
    BY <1>t, <1>7 DEF CancelReturns, SlotsKept, Entry
  <2>3. \A w \in Worker : pc'[w] = pc[w]
    BY <1>w, <1>7 DEF CancelReturns
  <2> QED BY <1>q, <2>1, <2>2, <2>3
<1>8. CASE ClearSignal(p)
  <2>1. /\ UNCHANGED <<run, sched>> /\ op' = mem[p] /\ pc[p] = "clear"
    BY <1>8 DEF ClearSignal, Runs
  <2>2. LeaseKept
    BY <1>a, <2>1 DEF ClearReadsLease, ReadsLease, LeaseKept
  <2> QED BY <1>w, <1>q, <1>8, <2>1, <2>2 DEF ClearSignal, SlotsKept
<1>9. CASE CloseCancelled(p)
  <2>1. TransitionOp(p, "cancelled", "idle", "idle") /\ UNCHANGED <<run, sched>>
    BY <1>9 DEF CloseCancelled
  <2>2. LeaseKept
    BY <1>a, <2>1, TransitionKeeps DEF LeaseKept
  <2>3. \A w \in Worker : pc'[w] = pc[w]
    BY <1>w, <2>1, TransitionGoes
  <2> QED BY <1>q, <2>1, <2>2, <2>3 DEF SlotsKept
<1> QED BY <1>1, <1>2, <1>3, <1>4, <1>5, <1>6, <1>7, <1>8, <1>9
        DEF Answers, Calls

\* Recovery takes a claim from a worker that is not on duty any more: an armed
\* heartbeat is direct evidence of life, and a worker between its slot and its
\* lease is never the owner.
LEMMA RecoverOnDuty ==
    ASSUME OneProcess, Shapes, Blocks, DutyInv, NEW p \in Proc, RecoverStaleOp(p)
    PROVE  DutyInv'
<1>t. sched \in [Proc -> Entry] /\ op \in Row
  BY DEF Shapes
<1>h. \A w \in Worker : Home[w] = p /\ w # None
  BY ActorTyped DEF OneProcess
<1>0. UNCHANGED <<run, pc>> /\ Free(p) /\ ~HasArmedHeartbeat(p)
  BY DEF RecoverStaleOp, Stale
<1>1. ASSUME NEW w \in Worker, run[w].armed PROVE pc[w] = "leaked"
  <2>1. ASSUME pc[w] # "leaked" PROVE FALSE
    <3>1. op.owner = w /\ op.gen = run[w].claim
      BY <1>1, <2>1 DEF DutyInv, OnDuty, DutyAt, Owns
    <3> QED BY <1>0, <1>1, <1>h, <3>1 DEF HasArmedHeartbeat
  <2> QED BY <2>1
<1>2. ASSUME NEW w \in Worker PROVE pc[w] \notin {"acquire", "refresh"}
  <2>1. pc[w] \notin Running
    BY <1>0, <1>h, ActorTyped DEF Blocks, Free
  <2> QED BY <2>1 DEF Running
<1>3. /\ \A q \in Proc \ {p} : sched'[q] = sched[q]
      /\ sched'[p] \in {Evict(sched[p]), Enqueue(Evict(sched[p]))}
  BY <1>t DEF RecoverStaleOp
<1>4. Evict(sched[p]) \in Entry
  BY <1>t DEF Evict, Entry
<1>5. sched'[p].active = Evict(sched[p]).active
  BY <1>3, <1>4, EnqueuedAlone
<1>6. ASSUME NEW w \in Worker, pc[w] = "starting" PROVE sched'[p].active = w
  BY <1>5, <1>6, <1>h DEF DutyInv, OnDuty, DutyAt, Evict
<1>7. OnDuty'
  BY <1>0, <1>1, <1>2, <1>6, <1>h DEF OnDuty, DutyAt, DutyInv
<1>8. QueuedAlone'
  <2>1. Evict(sched[p]).queued => Evict(sched[p]).active = None
    BY <1>t DEF DutyInv, QueuedAlone, Evict, Entry
  <2>2. sched'[p].queued => sched'[p].active = None
    BY <1>3, <1>4, <2>1, EnqueuedAlone
  <2> QED BY <1>3, <2>2 DEF DutyInv, QueuedAlone
<1> QED BY <1>7, <1>8 DEF DutyInv

\* Every step keeps the workers on duty.
LEMMA DutyNext ==
    ASSUME OneProcess, Shapes, Blocks, ClearReadsLease, DutyInv, [Next]_vars
    PROVE  DutyInv'
<1>s. ASSUME UNCHANGED <<op, run, sched, pc>> PROVE DutyInv'
  BY <1>s, ServesOn DEF LeaseKept, SlotsKept, Serves
<1>1. ASSUME NEW w \in Worker, Drives(w) PROVE DutyInv'
  BY <1>1, DrivesOnward, OnwardServes, AcquireOnDuty, RefreshOnDuty, LeavesDuty
<1>2. ASSUME NEW w \in Worker, Falters(w) \/ Heartbeat(w) PROVE DutyInv'
  BY <1>2, FaultsOnDuty
<1>3. ASSUME NEW p \in Proc, Schedules(p) \/ Answers(p) \/ Calls(p) \/ Recovers(p)
      PROVE  DutyInv'
  BY <1>3, LaunchOnDuty, ProcessOnDuty, RecoverOnDuty DEF Schedules, Recovers
<1>4. ASSUME NEW p \in Proc, Crash(p) PROVE DutyInv'
  <2>1. \A w \in Worker : pc'[w] = "idle" /\ ~run'[w].armed
    BY <1>4, ActorTyped DEF Crash, OneProcess, NotDriving
  <2>2. \A q \in Proc : ~sched'[q].queued
    <3>1. sched \in [Proc -> Entry] /\ \A q \in Proc : q = p
      BY DEF Shapes, OneProcess
    <3> QED BY <1>4, <3>1 DEF Crash, NoEntry
  <2> QED BY <2>1, <2>2 DEF DutyInv, QueuedAlone, OnDuty, DutyAt
<1>5. CASE LeaseExpires \/ UNCHANGED vars
  BY <1>5, <1>s DEF LeaseExpires, vars
<1> QED BY <1>1, <1>2, <1>3, <1>4, <1>5 DEF Next

\* At the start nobody is launched and no heartbeat is armed.
LEMMA DutyInit == Init => DutyInv
<1> SUFFICES ASSUME Init PROVE DutyInv
  OBVIOUS
<1>0. PICK p \in Proc : sched = [q \in Proc |-> [NoEntry EXCEPT !.queued = (q = p)]]
  BY DEF Init
<1>1. ASSUME NEW q \in Proc PROVE sched[q].active = None
  <2>1. sched[q] = [NoEntry EXCEPT !.queued = (q = p)]
    BY <1>0
  <2> QED BY <2>1 DEF NoEntry
<1>2. \A w \in Worker : pc[w] = "idle" /\ ~run[w].armed
  BY ActorTyped DEF Init, NotDriving
<1> QED BY <1>1, <1>2 DEF DutyInv, QueuedAlone, OnDuty, DutyAt

\* With one server process, whatever goes wrong, nobody takes the operation from
\* a worker whose heartbeat is armed: not a worker that gave its lease up for
\* lost and comes back late, not a replacement, not recovery.  The one exception
\* is a drive() that rejected and left its heartbeat behind.
THEOREM ArmedWorkersOwn ==
    ASSUME OneProcess
    PROVE  Spec => []ArmedOwnsLease
<1>1. Shapes /\ Blocks /\ ClearReadsLease /\ DutyInv /\ [Next]_vars => DutyInv'
  BY DutyNext
<1>2. IInv => Shapes
  BY DEF IInv, TypeOK
<1>3. DutyInv => ArmedOwnsLease
  BY DEF DutyInv, OnDuty, DutyAt, ArmedOwnsLease
<1> QED BY <1>1, <1>2, <1>3, DutyInit, Invariance, RowsReadAreCurrent, PTL DEF Spec

-----------------------------------------------------------------------------
(* Who holds the lease, and what its copy of the row says *)

\* A worker between its slot and its lease; one that holds a lease for sure.
Entering == {"starting", "acquire"}
Leased == {"begin", "reconcile", "top", "turn", "commit", "project", "after",
           "pausing", "failover", "retry", "requeue", "giveup", "abort",
           "cancelling", "boundary", "throw", "exit"}

Holds(w) == run[w].claim # 0
Active(w) == sched[Home[w]].active = w
Agrees(a) == mem[a].state = op.state /\ mem[a].attempts = op.attempts

\* A worker has a claim from its lease to the end, and loses none; it never
\* rejects with one.
ClaimAt(w) ==
    /\ pc[w] \in Entering \cup {"idle"} => ~Holds(w)
    /\ pc[w] \in Leased \cup {"refresh"} => Holds(w)
    /\ pc[w] # "leaked" /\ ~run[w].lost

\* With a claim it owns the row, its heartbeat is armed, and its scheduler has
\* it in flight; without one it has subscribed to nothing.
LeaseAt(w) ==
    /\ Holds(w) /\ pc[w] # "settle" => Owns(w)
    /\ run[w].armed <=> Holds(w) /\ pc[w] \notin {"refresh", "settle"}
    /\ Holds(w) \/ pc[w] \in Entering \cup {"clear", "close"} => Active(w)
    /\ ~Holds(w) => run[w].tracker = "off" /\ run[w].result # "boundary"

\* Its copy of the row has the state and the attempts of the row, and all of its
\* lease when it is written back whole.
CopyAt(w) ==
    /\ Holds(w) /\ pc[w] \notin {"refresh", "settle"} => Agrees(w)
    /\ pc[w] \in {"clear", "close"} => Agrees(w)
    /\ pc[w] = "starting" => mem[w].attempts = op.attempts
    /\ pc[w] = "clear" => ReadsLease(w)

\* The operation is queued until the worker begins, and what it can be after
\* that depends on where the worker stands.
StateAt(w) ==
    /\ pc[w] \in Entering \cup {"refresh", "begin"} => op.state = "queued"
    /\ pc[w] = "begin" => run[w].tracker = "on"
    /\ pc[w] = "reconcile" => op.state = "running"
    /\ Holds(w) /\ pc[w] \notin {"exit", "settle"} => op.state # "paused"
    /\ Holds(w) /\ pc[w] \in {"abort", "boundary", "rearm"} => op.state # "running"
    /\ run[w].tracker = "cancelled" => op.state # "running"

\* No turn ended the operation while its worker goes on.
UndecidedAt(w) ==
    /\ pc[w] \in {"top", "turn", "commit", "failover", "retry", "requeue",
                 "giveup", "pausing"} => ~Decided
    /\ pc[w] = "after" /\ run[w].result \notin {"done", "error"} => ~Decided
    /\ pc[w] = "throw" /\ run[w].turn \notin Published => ~Decided

\* The worker drives the first turn that is not published, and the last one
\* once it has committed it.
IndexAt(w) ==
    /\ pc[w] \in {"top", "turn", "commit"} => run[w].turn \notin Published
    /\ pc[w] \in {"top", "turn", "commit", "project", "after"}
       => run[w].turn >= 1 /\ \A j \in Published : j <= run[w].turn
    /\ pc[w] \in {"turn", "commit", "project", "after"} => run[w].turn \in Turn
    /\ \/ pc[w] = "project"
       \/ pc[w] = "after" /\ run[w].result \in Outcome
       => /\ run[w].turn \in Published
          /\ turns[run[w].turn].outcome = run[w].result

WorkerInv(w) ==
    ClaimAt(w) /\ LeaseAt(w) /\ CopyAt(w) /\ StateAt(w) /\ UndecidedAt(w)
    /\ IndexAt(w)

\* A worker that is neither in flight nor holding anything.
Off(w) ==
    /\ pc[w] \in {"idle", "rearm", "settle"}
    /\ ~Holds(w) /\ ~run[w].lost /\ ~run[w].armed
    /\ run[w].tracker = "off" /\ run[w].result # "boundary"

\* A scheduler queues only what is queued and not in flight; a control call
\* holds a copy of the row nobody else changes.
QueueAt(p) ==
    /\ sched[p].active # None => ~sched[p].queued
    /\ sched[p].queued => op.state = "queued"
CallAt(p) ==
    /\ pc[p] = "resume" => Agrees(p) /\ op.state = "paused"
    /\ pc[p] \in {"signal", "deliver"} =>
          /\ mem[p].attempts = op.attempts
          /\ mem[p].state = "paused" => op.state = "paused"
    /\ pc[p] \in {"clear", "close"} =>
          /\ Agrees(p) /\ ~sched[p].queued
          /\ \A w \in Worker : ~Holds(w) /\ pc[w] \notin Entering
    /\ pc[p] = "clear" => ReadsLease(p)
ProcInv(p) == QueueAt(p) /\ CallAt(p)

Workers == \A w \in Worker : WorkerInv(w)
Procs == \A p \in Proc : ProcInv(p)

\* What every step starts from.
Before == OneProcess /\ NoGivingUp /\ Shapes /\ CommitReady /\ Blocks /\ Workers /\ Procs

\* The variables at a worker and its process.
LEMMA Typed ==
    ASSUME Before, NEW w \in Worker
    PROVE  /\ w \in Actor /\ w # None /\ Home[w] \in Proc /\ HomeOf(w) = Home[w]
           /\ op \in Row /\ mem \in [Actor -> Row] /\ run \in [Worker -> Drive]
           /\ pc \in [Actor -> Place] /\ sched \in [Proc -> Entry]
           /\ turns \in [Turn -> Artifact \cup {None}]
           /\ mem[w] \in Row /\ run[w] \in Drive /\ sched[Home[w]] \in Entry
           /\ run[w].turn \in Nat /\ run[w].claim \in Nat
BY ActorTyped DEF Before, Shapes, Place, Drive

\* A worker whose process has another one in flight, or none, is off.
LEMMA OthersOff ==
    ASSUME Before, NEW v \in Worker, ~Active(v)
    PROVE  Off(v)
<1>1. pc[v] \in WorkerPlace
  BY DEF Before, Blocks
<1> QED BY <1>1
    DEF Before, Workers, WorkerInv, ClaimAt, LeaseAt, Off, WorkerPlace, Place,
        Awaiting, Running, Entering, Leased

\* A worker that is off keeps the invariant, whatever the row says.
LEMMA OffWorker ==
    ASSUME NEW w \in Worker, Off(w)'
    PROVE  WorkerInv(w)'
BY DEF Off, WorkerInv, ClaimAt, LeaseAt, CopyAt, StateAt, UndecidedAt, IndexAt,
       Entering, Leased, Holds

\* A worker that stands where it stood, before a row whose state, attempts and
\* lease are what they were, keeps the invariant.
LEMMA WorkerKept ==
    ASSUME Before, NEW w \in Worker,
           pc'[w] = pc[w], run'[w] = run[w], mem'[w] = mem[w], turns' = turns,
           sched'[Home[w]].active = sched[Home[w]].active,
           op'.state = op.state, op'.attempts = op.attempts,
           op'.owner = op.owner, op'.gen = op.gen
    PROVE  WorkerInv(w)'
<1>1. Published' = Published /\ (Decided' <=> Decided)
  BY DEF Published, Decided, Latest
<1>2. WorkerInv(w)
  BY DEF Before, Workers
<1> QED BY <1>1, <1>2
    DEF WorkerInv, ClaimAt, LeaseAt, CopyAt, StateAt, UndecidedAt, IndexAt,
        Holds, Owns, Active, Agrees, ReadsLease

\* The step of the worker in flight: the other workers are off, its process is
\* idle.
Flies(w) ==
    /\ WorkerGoes(w)
    /\ Active(w) /\ Active(w)'
    /\ \A p \in Proc : sched'[p].queued = sched[p].queued
    /\ \A v \in Worker \ {w} : run'[v] = run[v]

\* Such a step need only keep the invariant of its worker.
LEMMA FlightKeeps ==
    ASSUME Before, NEW w \in Worker, Flies(w), WorkerInv(w)'
    PROVE  Workers' /\ Procs'
<1>0. /\ w \in Actor /\ HomeOf(w) = Home[w] /\ Home[w] \in Proc /\ w # None
      /\ OneProcess /\ Shapes /\ Blocks
  BY ActorTyped DEF Before
<1>1. ASSUME NEW v \in Worker PROVE WorkerInv(v)'
  <2>1. CASE v = w
    BY <2>1
  <2>2. CASE v # w
    <3>1. Home[v] = Home[w] /\ v \in Actor
      BY ActorTyped, <1>0 DEF OneProcess
    <3>2. Off(v)
      BY <2>2, <3>1, OthersOff DEF Flies, Active
    <3>3. pc'[v] = pc[v] /\ run'[v] = run[v]
      BY <1>0, <2>2, <3>1, GotoStands DEF Flies, WorkerGoes
    <3>4. Off(v)'
      BY <3>2, <3>3 DEF Off, Holds
    <3> QED BY <3>4, OffWorker
  <2> QED BY <2>1, <2>2
<1>2. ASSUME NEW p \in Proc PROVE ProcInv(p)'
  <2>1. p \in Actor /\ p # w /\ p = Home[w] /\ pc[p] \in ProcPlace
    BY <1>0, ActorTyped DEF OneProcess, Blocks
  <2>2. pc[p] \notin Running
    BY <1>0, <2>1, Alone DEF Flies, WorkerGoes
  <2>3. pc'[p] = "idle"
    BY <1>0, <2>1, <2>2, GotoStands DEF Flies, WorkerGoes, ProcPlace, Running
  <2>4. ~sched[p].queued
    BY <1>0, <2>1 DEF Flies, Active, Before, Procs, ProcInv, QueueAt
  <2>5. ~sched'[p].queued
    BY <2>4 DEF Flies
  <2> QED BY <2>3, <2>5 DEF ProcInv, QueueAt, CallAt
<1> QED BY <1>1, <1>2 DEF Workers, Procs

\* What transitionOp does to a copy that agrees with the row.
LEMMA TransitionEffect ==
    ASSUME Before, NEW w \in Worker, NEW to, NEW next, NEW illegal,
           TransitionOp(w, to, next, illegal)
    PROVE  /\ op'.owner = op.owner /\ op'.gen = op.gen
           /\ \/ /\ Legal(mem[w].state, to)
                 /\ op'.state = to /\ op'.attempts = mem[w].attempts
                 /\ mem'[w].state = to /\ mem'[w].attempts = mem[w].attempts
                 /\ pc'[w] = next
              \/ /\ ~Legal(mem[w].state, to)
                 /\ op' = op /\ mem'[w] = mem[w] /\ pc'[w] = illegal
<1>t. w \in Actor /\ op \in Row /\ mem \in [Actor -> Row] /\ mem[w] \in Row /\ Shapes
  BY Typed DEF Before
<1>1. CASE /\ Legal(mem[w].state, to)
           /\ Persist(w, [mem[w] EXCEPT !.state = to]) /\ Goto(w, next)
  <2>1. /\ op' = Merge([mem[w] EXCEPT !.state = to], op)
        /\ mem'[w] = op'
    BY <1>t, <1>1 DEF Persist
  <2>2. /\ op'.state = to /\ op'.attempts = mem[w].attempts
        /\ op'.owner = op.owner /\ op'.gen = op.gen
    BY <1>t, <2>1 DEF Merge, Row
  <2> QED BY <1>t, <1>1, <2>1, <2>2, GotoStands
<1>2. CASE ~Legal(mem[w].state, to) /\ UNCHANGED <<op, mem>> /\ Goto(w, illegal)
  BY <1>t, <1>2, GotoStands
<1> QED BY <1>1, <1>2 DEF TransitionOp

\* A worker that holds a lease and moves on with it.
LEMMA FliesOn ==
    ASSUME Before, NEW w \in Worker, Holds(w), WorkerGoes(w),
           \A v \in Worker \ {w} : run'[v] = run[v], sched' = sched
    PROVE  Flies(w)
BY DEF Before, Workers, WorkerInv, LeaseAt, Flies, Active

\* A transition out of the turn loop.
LEMMA TransitionOut ==
    ASSUME Before, NEW w \in Worker, NEW to \in State \ {"running"},
           pc[w] \in {"top", "after", "pausing", "giveup"}, ~Decided,
           TransitionOp(w, to, "exit", "throw"), WorkerGoes(w),
           UNCHANGED <<turns, run, sched>>
    PROVE  Workers' /\ Procs'
<1>1. Holds(w) /\ WorkerInv(w)
  BY DEF Before, Workers, WorkerInv, ClaimAt, Leased
<1>2. Flies(w)
  BY <1>1, FliesOn
<1>3. ~Decided'
  BY DEF Decided, Latest, Published
<1>4. WorkerInv(w)'
  BY <1>1, <1>3, TransitionEffect, Typed
     DEF WorkerInv, ClaimAt, LeaseAt, CopyAt, StateAt, UndecidedAt, IndexAt,
         Holds, Owns, Active, Agrees, ReadsLease, Entering, Leased
<1> QED BY <1>2, <1>4, FlightKeeps

\* The latest turn is the one no other follows.
LEMMA LatestIs ==
    ASSUME Shapes, NEW i \in Published, \A j \in Published : j <= i
    PROVE  Latest = i
<1>1. Latest \in Published /\ i <= Latest
  <2>1. i \in Nat /\ i # 0
    BY ConstantsAssumption DEF Published, Turn
  <2> QED BY <2>1, LatestTyped
<1>2. Latest <= i /\ Latest \in Nat /\ i \in Nat
  BY <1>1, LatestTyped, ConstantsAssumption DEF Published, Turn
<1> QED BY <1>1, <1>2

\* The same turns have the same ends.
LEMMA SameTurns ==
    ASSUME turns' = turns
    PROVE  Published' = Published /\ Latest' = Latest /\ (Decided' <=> Decided)
BY DEF Published, Latest, Decided

\* What a worker between its lease and its release has in common wherever it
\* stands.
Held(w) ==
    /\ Holds(w) /\ ~run[w].lost /\ run[w].armed
    /\ Owns(w) /\ Active(w) /\ Agrees(w)
    /\ run[w].tracker = "cancelled" => op.state # "running"

\* It has it before the step,
LEMMA HeldHere ==
    ASSUME Before, NEW w \in Worker, Holds(w), pc[w] \notin {"refresh", "settle"}
    PROVE  Held(w)
BY DEF Before, Workers, WorkerInv, ClaimAt, LeaseAt, CopyAt, StateAt, Held

\* and from it the invariant after the step follows, but for the turn log.
LEMMA HeldThere ==
    ASSUME NEW w \in Worker, Held(w)',
           pc'[w] \in (Leased \ {"begin"}) \cup {"clear", "close", "rearm"},
           pc'[w] # "exit" => op'.state # "paused",
           pc'[w] = "reconcile" => op'.state = "running",
           pc'[w] \in {"abort", "boundary", "rearm"} => op'.state # "running",
           pc'[w] = "clear" => ReadsLease(w)',
           UndecidedAt(w)', IndexAt(w)'
    PROVE  WorkerInv(w)'
BY DEF Held, WorkerInv, ClaimAt, LeaseAt, CopyAt, StateAt, Entering, Leased, Holds

-----------------------------------------------------------------------------
(* The worker's own steps *)

\* From its slot to its lease.
LEMMA EnterDriveKeeps ==
    ASSUME Before, NEW w \in Worker, EnterDrive(w)
    PROVE  Workers' /\ Procs'
<1>1. /\ pc[w] = "starting" /\ UNCHANGED <<op, run, sched, turns>>
      /\ w \in Actor /\ op \in Row /\ mem \in [Actor -> Row] /\ Shapes
  BY Typed DEF EnterDrive, Resumes, Before
<1>2. WorkerInv(w)
  BY DEF Before, Workers
<1>3. ~Holds(w)' /\ Active(w)' /\ op'.state = "queued" /\ ~run'[w].lost
      /\ ~run'[w].armed /\ run'[w].tracker = "off" /\ run'[w].result # "boundary"
  BY <1>1, <1>2
     DEF WorkerInv, ClaimAt, LeaseAt, StateAt, Entering, Holds, Active
<1>4. \/ /\ mem'[w] = [Snapshot(w) EXCEPT !.cancel = FALSE]
         /\ pc'[w] = "clear"
      \/ pc'[w] = "acquire"
  BY <1>1, GotoStands DEF EnterDrive
<1>5. pc'[w] = "clear" => Agrees(w)' /\ ReadsLease(w)'
  <2>1. mem[w].attempts = op.attempts
    BY <1>1, <1>2 DEF WorkerInv, CopyAt
  <2> QED BY <1>1, <1>4, <2>1 DEF Agrees, ReadsLease, Snapshot, Row
<1>6. WorkerInv(w)'
  BY <1>3, <1>4, <1>5
     DEF WorkerInv, ClaimAt, LeaseAt, CopyAt, StateAt, UndecidedAt, IndexAt,
         Entering, Leased
<1>7. Flies(w)
  <2>1. WorkerGoes(w)
    BY DrivesGo DEF Drives
  <2> QED BY <1>1, <1>3, <2>1 DEF Flies, Active
<1> QED BY <1>6, <1>7, FlightKeeps

\* A free lease is taken with the next generation; a fresh one sends the worker
\* away with nothing.
LEMMA AcquireKeeps ==
    ASSUME Before, NEW w \in Worker, Acquire(w)
    PROVE  Workers' /\ Procs'
<1>1. /\ pc[w] = "acquire" /\ UNCHANGED <<mem, sched, turns>>
      /\ w \in Actor /\ op \in Row /\ op.gen \in Nat
      /\ run \in [Worker -> Drive] /\ run[w] \in Drive /\ Shapes
  BY Typed, ConstantsAssumption DEF Acquire, Runs, Before, Row
<1>2. /\ ~Holds(w) /\ Active(w) /\ op.state = "queued" /\ ~run[w].lost
      /\ ~run[w].armed /\ run[w].tracker = "off" /\ run[w].result # "boundary"
  BY <1>1
     DEF Before, Workers, WorkerInv, ClaimAt, LeaseAt, StateAt, Entering
<1>3. CASE Goto(w, "settle") /\ UNCHANGED <<op, run>>
  <2>1. Off(w)'
    BY <1>1, <1>2, <1>3, GotoStands DEF Off, Holds
  <2> QED BY <2>1, OffWorker, <1>1, <1>2, <1>3, FlightKeeps, DrivesGo
          DEF Flies, Active, Drives
<1>4. CASE /\ Goto(w, "refresh")
           /\ op' = [op EXCEPT !.owner = w, !.gen = @ + 1]
           /\ run' = [run EXCEPT ![w].claim = op.gen + 1]
  <2>1. pc'[w] = "refresh"
    BY <1>1, <1>4, GotoStands
  <2>2. op'.owner = w /\ op'.gen = op.gen + 1 /\ op'.state = "queued"
    BY <1>1, <1>2, <1>4 DEF Row
  <2>3. /\ run'[w] = [run[w] EXCEPT !.claim = op.gen + 1]
        /\ \A v \in Worker \ {w} : run'[v] = run[v]
    BY <1>1, <1>4
  <2>4. /\ run'[w].claim = op.gen + 1 /\ ~run'[w].lost /\ ~run'[w].armed
        /\ run'[w].tracker = "off"
    BY <1>1, <1>2, <2>3 DEF Drive
  <2>5. Holds(w)' /\ Owns(w)' /\ Active(w)'
    BY <1>1, <1>2, <2>2, <2>4 DEF Holds, Owns, Active
  <2>6. WorkerInv(w)'
    BY <2>1, <2>2, <2>4, <2>5
       DEF WorkerInv, ClaimAt, LeaseAt, CopyAt, StateAt, UndecidedAt, IndexAt,
           Entering, Leased
  <2> QED BY <2>3, <2>5, <2>6, <1>1, <1>2, FlightKeeps, DrivesGo
          DEF Flies, Active, Drives
<1> QED BY <1>3, <1>4 DEF Acquire

\* The leased row is read, and the heartbeat armed for the lease just taken.
LEMMA RefreshKeeps ==
    ASSUME Before, NEW w \in Worker, Refresh(w)
    PROVE  Workers' /\ Procs'
<1>1. /\ pc[w] = "refresh" /\ UNCHANGED <<op, sched, turns>>
      /\ pc'[w] = "begin" /\ mem'[w] = op
      /\ run'[w] = [run[w] EXCEPT !.tracker = "on", !.armed = TRUE]
      /\ \A v \in Worker \ {w} : run'[v] = run[v]
      /\ run[w] \in Drive
  BY Typed, GotoStands DEF Refresh, Runs, Before
<1>2. WorkerInv(w)
  BY DEF Before, Workers
<1>3. run'[w].claim = run[w].claim /\ run'[w].lost = run[w].lost
      /\ run'[w].armed /\ run'[w].tracker = "on"
  BY <1>1 DEF Drive
<1>4. WorkerInv(w)'
  BY <1>1, <1>2, <1>3
     DEF WorkerInv, ClaimAt, LeaseAt, CopyAt, StateAt, UndecidedAt, IndexAt,
         Entering, Leased, Holds, Owns, Active, Agrees
<1>5. Holds(w)
  BY <1>1, <1>2 DEF WorkerInv, ClaimAt
<1> QED BY <1>1, <1>4, <1>5, FliesOn, FlightKeeps, DrivesGo DEF Drives

\* Nobody leaves a lease behind: the row was queued when it was leased, and the
\* block has not ended since.
LEMMA BeginRuns ==
    ASSUME Before, NEW w \in Worker, Begin(w)
    PROVE  /\ pc'[w] = "reconcile" /\ Holds(w)
           /\ op'.state = "running" /\ op'.attempts = op.attempts
           /\ op'.owner = op.owner /\ op'.gen = op.gen
           /\ mem'[w].state = op'.state /\ mem'[w].attempts = op'.attempts
           /\ UNCHANGED <<run, turns, sched>>
<1>1. /\ pc[w] = "begin" /\ UNCHANGED <<run, turns>>
      /\ TransitionOp(w, "running", "reconcile", "leaked")
  BY DEF Begin, Runs
<1>2. Agrees(w) /\ op.state = "queued" /\ Holds(w)
  BY <1>1
     DEF Before, Workers, WorkerInv, ClaimAt, CopyAt, StateAt, Leased
<1>3. Legal(mem[w].state, "running")
  BY <1>2 DEF Agrees, Legal, Transitions
<1>4. pc'[w] = "reconcile"
  BY <1>1, <1>3, TransitionEffect
<1>5. sched' = sched
  BY <1>4 DEF Begin
<1> QED BY <1>1, <1>2, <1>3, <1>4, <1>5, TransitionEffect DEF Agrees

\* The operation the worker leased is queued still, so it runs.
LEMMA BeginKeeps ==
    ASSUME Before, NEW w \in Worker, Begin(w)
    PROVE  Workers' /\ Procs'
<1>1. pc[w] = "begin"
  BY DEF Begin, Runs
<1>2. Held(w) /\ run[w].tracker = "on"
  BY <1>1, BeginRuns, HeldHere DEF Before, Workers, WorkerInv, StateAt
<1>3. Held(w)'
  BY <1>2, BeginRuns DEF Held, Holds, Owns, Active, Agrees
<1>4. WorkerInv(w)'
  BY <1>3, BeginRuns, HeldThere DEF Leased, UndecidedAt, IndexAt
<1> QED BY <1>4, BeginRuns, FliesOn, FlightKeeps, DrivesGo DEF Drives

\* The published turns decide the operation, or the turn the worker begins with.
LEMMA ReconcileKeeps ==
    ASSUME Before, NEW w \in Worker, Reconcile(w)
    PROVE  Workers' /\ Procs'
<1>1. /\ pc[w] = "reconcile" /\ op.state = "running" /\ Holds(w)
      /\ UNCHANGED <<sched, turns>>
  BY DEF Reconcile, Runs, Before, Workers, WorkerInv, ClaimAt, StateAt, Leased
<1>2. Held(w)
  BY <1>1, HeldHere
<1>3. /\ w \in Actor /\ op \in Row /\ mem \in [Actor -> Row] /\ Shapes
      /\ run \in [Worker -> Drive] /\ run[w] \in Drive
  BY Typed DEF Before
<1>4. Latest # 0 => turns[Latest].outcome \in Outcome
  BY LatestTyped DEF Published, Before, Shapes, Artifact
<1>5. Latest # 0 => Projectable(turns[Latest].outcome)
  BY <1>1, <1>4 DEF Projectable, Legal, Transitions, StateOf, Outcome
<1>6. /\ FirstTurn \notin Published /\ FirstTurn >= 1
      /\ \A j \in Published : j <= FirstTurn
  BY LatestTyped, ConstantsAssumption DEF FirstTurn, Published, Turn
<1>7. run' = [run EXCEPT ![w].turn = FirstTurn]
  BY <1>2, <1>5 DEF Reconcile, Held
<1>8. /\ run'[w] = [run[w] EXCEPT !.turn = FirstTurn]
      /\ \A v \in Worker \ {w} : run'[v] = run[v]
  BY <1>3, <1>7
<1>9. /\ run'[w].turn = FirstTurn /\ run'[w].claim = run[w].claim
      /\ run'[w].lost = run[w].lost /\ run'[w].armed = run[w].armed
      /\ run'[w].tracker = run[w].tracker
  BY <1>3, <1>8 DEF Drive
<1>10. IndexAt(w)' \/ pc'[w] \notin {"top", "exit"}
  BY <1>1, <1>6, <1>9, SameTurns DEF IndexAt
<1>11. CASE pc'[w] = "top" /\ op' = op /\ Agrees(w)' /\ ~Decided
  <2>1. Held(w)'
    BY <1>1, <1>2, <1>9, <1>11 DEF Held, Holds, Owns, Active
  <2>2. UndecidedAt(w)'
    BY <1>1, <1>11, SameTurns DEF UndecidedAt
  <2> QED BY <1>1, <1>8, <1>10, <1>11, <2>1, <2>2, HeldThere, FliesOn,
             FlightKeeps, DrivesGo DEF Drives, Leased
<1>12. CASE Latest = 0
  <2>1. op' = op /\ mem' = mem /\ pc'[w] = "top"
    BY <1>2, <1>3, <1>12, GotoStands DEF Reconcile, Held
  <2>2. Agrees(w)'
    BY <1>2, <2>1 DEF Held, Agrees
  <2> QED BY <1>11, <1>12, <2>1, <2>2 DEF Decided
<1>13. CASE Latest # 0
  <2>1. /\ op' = ProjectTo(turns[Latest].outcome) /\ mem'[w] = op'
        /\ pc'[w] = IF op'.state \in Terminal THEN "exit" ELSE "top"
    BY <1>2, <1>3, <1>5, <1>13, GotoStands DEF Reconcile, Held
  <2>2. CASE turns[Latest].outcome = "continue"
    BY <1>1, <1>11, <2>1, <2>2 DEF ProjectTo, Decided, Agrees, Terminal
  <2>3. CASE turns[Latest].outcome # "continue"
    <3>1. /\ op' = [op EXCEPT !.state = StateOf(turns[Latest].outcome)]
          /\ StateOf(turns[Latest].outcome) \in {"succeeded", "failed"}
      BY <2>1, <2>3 DEF ProjectTo, StateOf
    <3>2. /\ op'.state \in {"succeeded", "failed"} /\ pc'[w] = "exit"
          /\ op'.owner = op.owner /\ op'.gen = op.gen
      BY <1>3, <2>1, <3>1 DEF Terminal, Row
    <3>3. Held(w)'
      BY <1>1, <1>2, <1>9, <2>1, <3>2 DEF Held, Holds, Owns, Active, Agrees
    <3>4. UndecidedAt(w)'
      BY <3>2 DEF UndecidedAt
    <3> QED BY <1>1, <1>8, <1>10, <3>2, <3>3, <3>4, HeldThere, FliesOn,
               FlightKeeps, DrivesGo DEF Drives, Leased
  <2> QED BY <2>2, <2>3
<1> QED BY <1>12, <1>13

\* A worker that moves on with its lease, and writes the row from a copy that
\* agrees with it, keeps the invariant.
LEMMA MovesOn ==
    ASSUME Before, NEW w \in Worker, Holds(w), pc[w] \notin {"refresh", "settle"},
           Drives(w) \/ (Falters(w) /\ ~HeartbeatGivesUp(w)), sched' = sched,
           \A v \in Worker \ {w} : run'[v] = run[v],
           run'[w].claim = run[w].claim, run'[w].lost = run[w].lost,
           run'[w].armed = run[w].armed, run'[w].tracker = run[w].tracker,
           op'.owner = op.owner, op'.gen = op.gen, Agrees(w)',
           op'.state = op.state \/ op'.state # "running",
           pc'[w] \in (Leased \ {"begin", "reconcile"}) \cup {"clear", "close", "rearm"},
           pc'[w] # "exit" => op'.state # "paused",
           pc'[w] \in {"abort", "boundary", "rearm"} => op'.state # "running",
           pc'[w] = "clear" => ReadsLease(w)',
           UndecidedAt(w)', IndexAt(w)'
    PROVE  Workers' /\ Procs'
<1>1. Held(w)
  BY HeldHere
<1>2. Held(w)'
  BY <1>1 DEF Held, Holds, Owns, Active
<1>3. WorkerInv(w)'
  BY <1>2, HeldThere
<1>4. Flies(w)
  BY FliesOn, DrivesGo, FaltersGo
<1> QED BY <1>3, <1>4, FlightKeeps

\* The same when all it does is move, or leave the loop.
LEMMA OnlyMovesOn ==
    ASSUME Before, NEW w \in Worker, Holds(w), pc[w] \notin {"refresh", "settle", "exit"},
           Drives(w) \/ (Falters(w) /\ ~HeartbeatGivesUp(w)),
           UNCHANGED <<op, mem, run, sched>>,
           pc'[w] \in (Leased \ {"begin", "reconcile"}) \cup {"close"},
           pc'[w] \in {"abort", "boundary"} => op.state # "running",
           UndecidedAt(w)', IndexAt(w)'
    PROVE  Workers' /\ Procs'
<1>1. Agrees(w) /\ op.state # "paused"
  BY DEF Before, Workers, WorkerInv, CopyAt, StateAt
<1> QED BY <1>1, MovesOn DEF Agrees, Leased

\* A turn begins.
LEMMA BeginTurnKeeps ==
    ASSUME Before, NEW w \in Worker, BeginTurn(w)
    PROVE  Workers' /\ Procs'
<1>1. /\ pc[w] = "top" /\ run[w].turn <= MaxTurns /\ UNCHANGED <<op, mem, run, sched, turns>>
      /\ pc'[w] = "turn"
  BY Typed, GotoStands DEF BeginTurn, Runs, Before
<1>2. Holds(w) /\ UndecidedAt(w) /\ IndexAt(w)
  BY <1>1 DEF Before, Workers, WorkerInv, ClaimAt, Leased
<1>3. run[w].turn \in Turn
  BY <1>1, <1>2, Typed, ConstantsAssumption DEF IndexAt, Turn
<1>4. UndecidedAt(w)' /\ IndexAt(w)'
  BY <1>1, <1>2, <1>3, SameTurns DEF UndecidedAt, IndexAt
<1>5. Drives(w) /\ pc'[w] \in Leased \ {"begin", "reconcile"}
  BY <1>1 DEF Drives, Leased
<1> QED BY <1>1, <1>2, <1>4, <1>5, OnlyMovesOn

\* The transitions out of the loop: the wall clock, a suspension, a stop after a
\* turn, a pause, no runtime left.
LEMMA TransitionsOutKeep ==
    ASSUME Before, NEW w \in Worker,
           \/ StopAtTop(w) \/ FinishOnWallClock(w) \/ Suspend(w) \/ PerTurnStop(w)
           \/ PauseLands(w) \/ GiveUp(w)
    PROVE  Workers' /\ Procs'
<1>0. WorkerGoes(w) /\ UndecidedAt(w)
  BY DrivesGo DEF Drives, Before, Workers, WorkerInv
<1>1. UNCHANGED <<turns, run, sched>>
  BY DEF StopAtTop, FinishOnWallClock, Suspend, PerTurnStop, PauseLands,
         GiveUp
<1>2. \E to \in State \ {"running"} : TransitionOp(w, to, "exit", "throw")
  BY DEF StopAtTop, FinishOnWallClock, Suspend, PerTurnStop, PauseLands,
         GiveUp, State
<1>3. pc[w] \in {"top", "after", "pausing", "giveup"} /\ ~Decided
  BY <1>0 DEF StopAtTop, FinishOnWallClock, Suspend, PerTurnStop, PauseLands,
              GiveUp, Driving, Runs, Resumes, UndecidedAt
<1> QED BY <1>0, <1>1, <1>2, <1>3, TransitionOut

\* A turn ends, discarded or to be committed.
LEMMA TurnEndsKeeps ==
    ASSUME Before, NEW w \in Worker, TurnEnds(w)
    PROVE  Workers' /\ Procs'
<1>1. /\ pc[w] = "turn" /\ UNCHANGED <<op, mem, sched, turns>>
      /\ w \in Actor /\ run \in [Worker -> Drive] /\ run[w] \in Drive /\ Shapes
  BY Typed DEF TurnEnds, Resumes, Before
<1>2. PICK result \in Outcome \cup {"cancelled", "deadline", "retry", "suspend"} :
        /\ run' = [run EXCEPT ![w].result = result]
        /\ pc'[w] = IF result \in Outcome THEN "commit" ELSE "after"
  BY <1>1, GotoStands DEF TurnEnds, Outcome
<1>3. /\ run'[w] = [run[w] EXCEPT !.result = result]
      /\ \A v \in Worker \ {w} : run'[v] = run[v]
  BY <1>1, <1>2
<1>4. /\ run'[w].claim = run[w].claim /\ run'[w].lost = run[w].lost
      /\ run'[w].armed = run[w].armed /\ run'[w].tracker = run[w].tracker
      /\ run'[w].turn = run[w].turn /\ run'[w].result = result
  BY <1>1, <1>3 DEF Drive
<1>5. Holds(w) /\ Agrees(w) /\ op.state # "paused" /\ UndecidedAt(w) /\ IndexAt(w)
  BY <1>1 DEF Before, Workers, WorkerInv, ClaimAt, CopyAt, StateAt, Leased
<1>6. UndecidedAt(w)'
  BY <1>1, <1>2, <1>5, SameTurns DEF UndecidedAt
<1>7. IndexAt(w)'
  BY <1>1, <1>2, <1>4, <1>5, SameTurns DEF IndexAt
<1>8. Drives(w) /\ Agrees(w)'
  BY <1>1, <1>5 DEF Drives, Agrees
<1>9. /\ pc'[w] \in Leased \ {"begin", "reconcile"}
      /\ pc'[w] \notin {"exit", "abort", "boundary", "rearm", "clear"}
  BY <1>2 DEF Leased
<1> QED BY <1>1, <1>3, <1>4, <1>5, <1>6, <1>7, <1>8, <1>9, MovesOn

\* A turn is only published by its owner, as the first that is not.
LEMMA CommitPublishes ==
    ASSUME Before, NEW w \in Worker, Commit(w)
    PROVE  /\ pc[w] = "commit" /\ pc'[w] = "project" /\ Owns(w)
           /\ run[w].turn \in Turn \ Published /\ ~Decided
           /\ turns' = [turns EXCEPT ![run[w].turn] =
                          [gen |-> op.gen, outcome |-> run[w].result]]
           /\ turns'[run[w].turn].outcome = run[w].result
           /\ Published' = Published \cup {run[w].turn}
           /\ Latest' = run[w].turn
           /\ UNCHANGED <<op, mem, run, sched>>
<1>1. /\ pc[w] = "commit" /\ UNCHANGED <<op, mem, run, sched>>
      /\ w \in Actor /\ Shapes /\ CommitReady
  BY ActorTyped DEF Commit, Runs, Before
<1>2. Holds(w) /\ Owns(w) /\ UndecidedAt(w) /\ IndexAt(w)
  BY <1>1 DEF Before, Workers, WorkerInv, ClaimAt, LeaseAt, Leased
<1>3. /\ turns' = [turns EXCEPT ![run[w].turn] =
                     [gen |-> op.gen, outcome |-> run[w].result]]
      /\ pc'[w] = "project"
  BY <1>1, <1>2, GotoStands DEF Commit, IndexAt
<1>4. run[w].turn \in Turn \ Published
  BY <1>1, <1>2 DEF IndexAt
<1>5. /\ [gen |-> op.gen, outcome |-> run[w].result] # None
      /\ turns \in [Turn -> Artifact \cup {None}]
  BY <1>1, ArtifactCommitted, NoneIsNoArtifact DEF Shapes
<1>6. /\ Published' = Published \cup {run[w].turn}
      /\ turns'[run[w].turn].outcome = run[w].result
  BY <1>3, <1>4, <1>5 DEF Published
<1>7. Shapes'
  BY <1>1, TypeDrives DEF Drives
<1>8. run[w].turn \in Published' /\ \A j \in Published' : j <= run[w].turn
  BY <1>1, <1>2, <1>4, <1>6, ConstantsAssumption DEF IndexAt, Turn
<1>9. Latest' = run[w].turn
  <2>1. Latest' \in Published' /\ Latest' \in Nat
        /\ \A j \in Published' : j <= Latest'
    <3>1. CASE Published' = {}
      BY <1>8, <3>1
    <3>2. CASE Published' # {}
      <4>1. PICK i \in Published' : \A j \in Published' : j <= i
        BY <1>8
      <4>2. /\ Latest' \in Published' /\ \A j \in Published' : j <= Latest'
        BY <3>2, <4>1 DEF Latest
      <4> QED BY <4>2, ConstantsAssumption DEF Published, Turn
    <3> QED BY <3>1, <3>2
  <2> QED BY <1>4, <1>8, <2>1, ConstantsAssumption DEF Turn
<1> QED BY <1>1, <1>2, <1>3, <1>4, <1>6, <1>9 DEF UndecidedAt

\* The turn is published under the claim that owns the row.
LEMMA CommitKeeps ==
    ASSUME Before, NEW w \in Worker, Commit(w)
    PROVE  Workers' /\ Procs'
<1>1. Holds(w) /\ IndexAt(w)
  BY CommitPublishes DEF Before, Workers, WorkerInv, ClaimAt, Leased
<1>2. UndecidedAt(w)'
  BY CommitPublishes DEF UndecidedAt
<1>3. run[w].turn \in Nat /\ run' = run
  BY Typed, CommitPublishes
<1>4. IndexAt(w)'
  <2>1. run[w].turn \in Published' /\ \A j \in Published' : j <= run[w].turn
    <3>1. pc[w] = "commit" /\ Published' = Published \cup {run[w].turn}
      BY CommitPublishes
    <3>2. \A j \in Published : j <= run[w].turn
      BY <1>1, <3>1 DEF IndexAt
    <3> QED BY <1>3, <3>1, <3>2
  <2> QED BY <1>1, <1>3, <2>1, CommitPublishes DEF IndexAt
<1>5. Drives(w) /\ "project" \in Leased \ {"begin", "reconcile"}
  BY DEF Drives, Leased
<1> QED BY <1>1, <1>2, <1>4, <1>5, CommitPublishes, OnlyMovesOn

\* The turn just published decides the row.
LEMMA ProjectKeeps ==
    ASSUME Before, NEW w \in Worker, Project(w)
    PROVE  Workers' /\ Procs'
<1> DEFINE outcome == turns[run[w].turn].outcome
<1>1. /\ pc[w] = "project" /\ UNCHANGED <<run, sched, turns>>
      /\ w \in Actor /\ Shapes /\ op \in Row /\ mem \in [Actor -> Row]
  BY Typed DEF Project, Runs, Before
<1>2. /\ Holds(w) /\ Agrees(w) /\ op.state # "paused"
      /\ IndexAt(w) /\ run[w].turn \in Published /\ outcome = run[w].result
  <2>1. WorkerInv(w)
    BY DEF Before, Workers
  <2>2. Holds(w) /\ Agrees(w) /\ op.state # "paused"
    BY <1>1, <2>1 DEF WorkerInv, ClaimAt, CopyAt, StateAt, Leased
  <2>3. IndexAt(w) /\ run[w].turn \in Published /\ outcome = run[w].result
    BY <1>1, <2>1 DEF WorkerInv, IndexAt
  <2> QED BY <2>2, <2>3
<1>3. outcome \in Outcome
  BY <1>1, <1>2 DEF Published, Shapes, Artifact
<1>d. Drives(w)
  BY DEF Drives
<1>4. CASE ~Projectable(outcome)
  <2>1. UNCHANGED <<op, mem>> /\ pc'[w] = "throw"
    BY <1>1, <1>4, GotoStands DEF Project
  <2>2. UndecidedAt(w)' /\ IndexAt(w)'
    BY <1>1, <1>2, <2>1, SameTurns DEF UndecidedAt, IndexAt
  <2>3. pc'[w] \in Leased \ {"begin", "reconcile", "abort", "boundary"}
    BY <2>1 DEF Leased
  <2> QED BY <1>1, <1>2, <1>d, <2>1, <2>2, <2>3, OnlyMovesOn
<1>5. CASE Projectable(outcome)
  <2>1. op' = ProjectTo(outcome) /\ mem'[w] = op' /\ pc'[w] = "after"
    BY <1>1, <1>5, GotoStands DEF Project
  <2>2. /\ op'.owner = op.owner /\ op'.gen = op.gen
        /\ op'.state = op.state \/ op'.state \in {"succeeded", "failed"}
    BY <1>1, <2>1 DEF ProjectTo, StateOf, Row
  <2>3. IndexAt(w)'
    BY <1>1, <1>2, <2>1, SameTurns DEF IndexAt
  <2>4. Latest = run[w].turn
    BY <1>1, <1>2, LatestIs DEF IndexAt
  <2>5. UndecidedAt(w)'
    BY <1>1, <1>2, <1>3, <2>1, <2>4, SameTurns
       DEF UndecidedAt, Decided, Outcome
  <2>6. Agrees(w)' /\ op'.state # "paused"
    BY <1>2, <2>1, <2>2 DEF Agrees
  <2>7. pc'[w] \in Leased \ {"begin", "reconcile", "exit", "abort", "boundary"}
    BY <2>1 DEF Leased
  <2>8. op'.state = op.state \/ op'.state # "running"
    BY <2>2
  <2>9. run' = run /\ sched' = sched
    BY <1>1
  <2> QED BY <1>1, <1>2, <1>d, <2>1, <2>2, <2>3, <2>5, <2>6, <2>7, <2>8, <2>9,
             MovesOn
<1> QED BY <1>4, <1>5

\* The ways out of a turn that write nothing.
LEMMA LeavesKeep ==
    ASSUME Before, NEW w \in Worker,
           LeaveLost(w) \/ AwaitAbort(w) \/ AwaitFailover(w) \/ LeaveDone(w)
    PROVE  Workers' /\ Procs'
<1>1. /\ pc[w] = "after" /\ UNCHANGED <<op, mem, run, sched, turns>>
      /\ w \in Actor /\ Shapes
  BY Typed
     DEF LeaveLost, AwaitAbort, AwaitFailover, LeaveDone, Driving, Runs, Before
<1>2. /\ Holds(w) /\ UndecidedAt(w)
      /\ run[w].tracker = "cancelled" => op.state # "running"
  BY <1>1 DEF Before, Workers, WorkerInv, ClaimAt, StateAt, Leased
<1>3. \/ pc'[w] = "exit"
      \/ pc'[w] = "abort" /\ run[w].tracker = "cancelled"
      \/ pc'[w] \in {"failover", "retry"} /\ run[w].result = "retry"
  BY <1>1, GotoStands DEF LeaveLost, AwaitAbort, AwaitFailover, LeaveDone, Driving
<1>4. UndecidedAt(w)' /\ IndexAt(w)'
  BY <1>1, <1>2, <1>3, SameTurns DEF UndecidedAt, IndexAt
<1>5. Drives(w) /\ pc'[w] \in Leased \ {"begin", "reconcile"}
  BY <1>3 DEF Drives, Leased
<1>6. pc'[w] \in {"abort", "boundary"} => op.state # "running"
  BY <1>2, <1>3
<1> QED BY <1>1, <1>2, <1>4, <1>5, <1>6, OnlyMovesOn

\* The turn boundary.
LEMMA BoundariesKeep ==
    ASSUME Before, NEW w \in Worker, BoundaryCancel(w) \/ BoundaryPause(w) \/ NextTurn(w)
    PROVE  Workers' /\ Procs'
<1>1. /\ pc[w] = "after" /\ run[w].result = "continue" /\ UNCHANGED <<sched, turns>>
      /\ w \in Actor /\ op \in Row /\ mem \in [Actor -> Row] /\ mem[w] \in Row
      /\ run \in [Worker -> Drive] /\ run[w] \in Drive /\ run[w].turn \in Nat /\ Shapes
  BY Typed DEF BoundaryCancel, BoundaryPause, NextTurn, Driving, Runs, Before
<1>2. Drives(w)
  BY DEF Drives
<1>i. WorkerInv(w)
  BY DEF Before, Workers
<1>3. Holds(w) /\ Agrees(w) /\ op.state # "paused" /\ ~Decided
  BY <1>1, <1>i DEF WorkerInv, ClaimAt, CopyAt, StateAt, UndecidedAt, Leased
<1>4. /\ run[w].turn >= 1 /\ run[w].turn \in Published
      /\ \A j \in Published : j <= run[w].turn
  BY <1>1, <1>i DEF WorkerInv, IndexAt, Outcome
<1>5. CASE BoundaryCancel(w)
  <2>1. /\ op' = op /\ mem'[w] = [Snapshot(w) EXCEPT !.cancel = FALSE]
        /\ pc'[w] = "clear" /\ run' = [run EXCEPT ![w].result = "boundary"]
    BY <1>1, <1>5, GotoStands DEF BoundaryCancel
  <2>2. /\ run'[w] = [run[w] EXCEPT !.result = "boundary"]
        /\ \A v \in Worker \ {w} : run'[v] = run[v]
    BY <1>1, <2>1
  <2>3. /\ run'[w].claim = run[w].claim /\ run'[w].lost = run[w].lost
        /\ run'[w].armed = run[w].armed /\ run'[w].tracker = run[w].tracker
    BY <1>1, <2>2 DEF Drive
  <2>4. Agrees(w)' /\ ReadsLease(w)'
    BY <1>1, <1>3, <2>1 DEF Agrees, ReadsLease, Snapshot, Row
  <2>5. UndecidedAt(w)' /\ IndexAt(w)'
    BY <2>1 DEF UndecidedAt, IndexAt
  <2> QED BY <1>1, <1>2, <1>3, <2>1, <2>2, <2>3, <2>4, <2>5, MovesOn
<1>6. CASE BoundaryPause(w)
  <2>1. /\ op' = [Snapshot(w) EXCEPT !.pause = FALSE] /\ mem'[w] = op'
        /\ pc'[w] = "pausing" /\ run' = run
    BY <1>1, <1>6, GotoStands DEF BoundaryPause
  <2>2. /\ op'.state = op.state /\ op'.owner = op.owner /\ op'.gen = op.gen
    BY <1>1, <2>1 DEF Snapshot, Row
  <2>3. UndecidedAt(w)' /\ IndexAt(w)' /\ Agrees(w)'
    BY <1>1, <1>3, <2>1, SameTurns DEF UndecidedAt, IndexAt, Agrees
  <2>4. pc'[w] \in Leased \ {"begin", "reconcile"}
    BY <2>1 DEF Leased
  <2> QED BY <1>1, <1>2, <1>3, <2>1, <2>2, <2>3, <2>4, MovesOn
<1>7. CASE NextTurn(w)
  <2>1. /\ op' = op /\ mem' = mem /\ pc'[w] = "top"
        /\ run' = [run EXCEPT ![w].turn = @ + 1, ![w].result = "none"]
    BY <1>1, <1>7, GotoStands DEF NextTurn
  <2>2. /\ run'[w] = [run[w] EXCEPT !.turn = @ + 1, !.result = "none"]
        /\ \A v \in Worker \ {w} : run'[v] = run[v]
    BY <1>1, <2>1
  <2>3. /\ run'[w].claim = run[w].claim /\ run'[w].lost = run[w].lost
        /\ run'[w].armed = run[w].armed /\ run'[w].tracker = run[w].tracker
        /\ run'[w].turn = run[w].turn + 1
    BY <1>1, <2>2 DEF Drive
  <2>4. /\ run'[w].turn >= 1 /\ run'[w].turn \notin Published
        /\ \A j \in Published : j <= run'[w].turn
    BY <1>1, <1>4, <2>3, ConstantsAssumption DEF Published, Turn
  <2>5. IndexAt(w)'
    BY <1>1, <2>1, <2>4, SameTurns DEF IndexAt
  <2>6. UndecidedAt(w)' /\ Agrees(w)'
    BY <1>1, <1>3, <2>1, SameTurns DEF UndecidedAt, Agrees
  <2>7. pc'[w] \in Leased \ {"begin", "reconcile"}
    BY <2>1 DEF Leased
  <2> QED BY <1>1, <1>2, <1>3, <2>1, <2>2, <2>3, <2>5, <2>6, <2>7, MovesOn
<1> QED BY <1>5, <1>6, <1>7

\* A worker that writes the copy it has, or one attempt more, and moves on.
LEMMA PersistsOn ==
    ASSUME Before, NEW w \in Worker, NEW copy \in Row, NEW next, Persist(w, copy),
           Goto(w, next), copy.state = op.state, Drives(w),
           next \in {"requeue", "giveup"}, pc[w] = "retry",
           UNCHANGED <<run, sched, turns>>
    PROVE  /\ Workers' /\ Procs'
           /\ op'.attempts = copy.attempts /\ op'.state = op.state
<1>1. /\ w \in Actor /\ op \in Row /\ mem \in [Actor -> Row] /\ Shapes
  BY Typed DEF Before
<1>i. WorkerInv(w)
  BY DEF Before, Workers
<1>2. Holds(w) /\ op.state # "paused" /\ ~Decided
  BY <1>i DEF WorkerInv, ClaimAt, StateAt, UndecidedAt, Leased
<1>3. op' = Merge(copy, op) /\ mem'[w] = op' /\ pc'[w] = next
  BY <1>1, GotoStands DEF Persist
<1>4. /\ op'.state = op.state /\ op'.owner = op.owner /\ op'.gen = op.gen
      /\ op'.attempts = copy.attempts
  BY <1>1, <1>3 DEF Merge, Row
<1>5. UndecidedAt(w)' /\ IndexAt(w)' /\ Agrees(w)'
  BY <1>2, <1>3, <1>4, SameTurns DEF UndecidedAt, IndexAt, Agrees
<1>6. pc'[w] \in Leased \ {"begin", "reconcile"}
  BY <1>3 DEF Leased
<1>7. /\ pc'[w] \notin {"abort", "boundary", "clear", "rearm", "exit"}
      /\ pc[w] \notin {"refresh", "settle"}
  BY <1>3
<1> QED BY <1>2, <1>4, <1>5, <1>6, <1>7, MovesOn

\* A bounded retry counts an attempt in the row and in the copy.
LEMMA AdapterRetriesKeeps ==
    ASSUME Before, NEW w \in Worker, AdapterRetries(w)
    PROVE  /\ Workers' /\ Procs'
           /\ op'.attempts = op.attempts + 1 /\ op'.state = op.state
<1>1. /\ pc[w] = "retry" /\ UNCHANGED <<run, sched, turns>> /\ Goto(w, "requeue")
      /\ Persist(w, [mem[w] EXCEPT !.attempts = @ + 1]) /\ mem[w] \in Row
  BY Typed DEF AdapterRetries, Runs
<1>2. Agrees(w)
  BY <1>1 DEF Before, Workers, WorkerInv, ClaimAt, CopyAt, Leased
<1>3. LET copy == [mem[w] EXCEPT !.attempts = @ + 1]
      IN copy \in Row /\ copy.state = op.state /\ copy.attempts = op.attempts + 1
  BY <1>1, <1>2 DEF Row, Agrees
<1> QED BY <1>1, <1>3, PersistsOn DEF Drives

\* The last retry is written and charged nothing.
LEMMA AdapterExhaustedKeeps ==
    ASSUME Before, NEW w \in Worker, AdapterExhausted(w)
    PROVE  /\ Workers' /\ Procs'
           /\ op'.attempts = op.attempts /\ op'.state = op.state
<1>1. /\ pc[w] = "retry" /\ UNCHANGED <<run, sched, turns>> /\ Goto(w, "giveup")
      /\ Persist(w, mem[w]) /\ mem[w] \in Row
  BY Typed DEF AdapterExhausted, Runs
<1>2. Agrees(w)
  BY <1>1 DEF Before, Workers, WorkerInv, ClaimAt, CopyAt, Leased
<1>3. mem[w].state = op.state /\ mem[w].attempts = op.attempts
  BY <1>2 DEF Agrees
<1> QED BY <1>1, <1>3, PersistsOn DEF Drives

\* A failover refused, or with no runtime to switch to, goes on to the retry.
LEMMA FailoverDeclinedKeeps ==
    ASSUME Before, NEW w \in Worker, FailoverDeclined(w)
    PROVE  Workers' /\ Procs'
<1>1. /\ pc[w] = "failover" /\ UNCHANGED <<op, run, sched, turns>>
      /\ w \in Actor /\ mem \in [Actor -> Row] /\ Shapes
  BY Typed DEF FailoverDeclined, Resumes, Before
<1>i. WorkerInv(w)
  BY DEF Before, Workers
<1>2. Holds(w) /\ Agrees(w) /\ op.state # "paused" /\ ~Decided
  BY <1>1, <1>i DEF WorkerInv, ClaimAt, CopyAt, StateAt, UndecidedAt, Leased
<1>3. pc'[w] = "retry" /\ mem'[w] = mem[w]
  BY <1>1, GotoStands DEF FailoverDeclined
<1>4. UndecidedAt(w)' /\ IndexAt(w)' /\ Agrees(w)'
  BY <1>1, <1>2, <1>3, SameTurns DEF UndecidedAt, IndexAt, Agrees
<1>5. pc'[w] \in Leased \ {"begin", "reconcile"}
  BY <1>3 DEF Leased
<1>6. /\ pc'[w] \notin {"abort", "boundary", "clear", "rearm", "exit"}
      /\ pc[w] \notin {"refresh", "settle"}
  BY <1>1, <1>3
<1> QED BY <1>1, <1>2, <1>4, <1>5, <1>6, MovesOn DEF Drives

\* Another runtime: the row as it stands, charged with an attempt, is the copy.
LEMMA FailoverSwitchesKeeps ==
    ASSUME Before, NEW w \in Worker, FailoverSwitches(w)
    PROVE  /\ Workers' /\ Procs'
           /\ op'.attempts = op.attempts + 1 /\ op'.state = op.state
<1>1. /\ pc[w] = "failover" /\ UNCHANGED <<run, sched, turns>>
      /\ w \in Actor /\ op \in Row /\ mem \in [Actor -> Row] /\ Shapes
  BY Typed DEF FailoverSwitches, Resumes, Before
<1>2. Falters(w) /\ ~HeartbeatGivesUp(w)
  BY DEF Falters, HeartbeatGivesUp, Disturb, Before, NoGivingUp
<1>i. WorkerInv(w)
  BY DEF Before, Workers
<1>3. Holds(w) /\ op.state # "paused" /\ ~Decided
  BY <1>1, <1>i DEF WorkerInv, ClaimAt, StateAt, UndecidedAt, Leased
<1>4. /\ op' = [op EXCEPT !.attempts = @ + 1] /\ mem'[w] = op'
      /\ pc'[w] = "requeue"
  BY <1>1, GotoStands DEF FailoverSwitches
<1>5. /\ op'.state = op.state /\ op'.owner = op.owner /\ op'.gen = op.gen
      /\ op'.attempts = op.attempts + 1
  BY <1>1, <1>4 DEF Row
<1>6. UndecidedAt(w)' /\ IndexAt(w)' /\ Agrees(w)'
  BY <1>1, <1>3, <1>4, SameTurns DEF UndecidedAt, IndexAt, Agrees
<1>7. pc'[w] \in Leased \ {"begin", "reconcile"}
  BY <1>4 DEF Leased
<1>8. /\ pc'[w] \notin {"abort", "boundary", "clear", "rearm", "exit"}
      /\ pc[w] \notin {"refresh", "settle"}
  BY <1>1, <1>4
<1> QED BY <1>1, <1>2, <1>3, <1>5, <1>6, <1>7, <1>8, MovesOn

\* Back to the queue.
LEMMA RequeueKeeps ==
    ASSUME Before, NEW w \in Worker, Requeue(w)
    PROVE  Workers' /\ Procs'
<1>1. /\ pc[w] = "requeue" /\ UNCHANGED <<run, sched, turns>>
      /\ TransitionOp(w, "queued", "rearm", "throw")
  BY DEF Requeue, Runs
<1>2. Drives(w)
  BY DEF Drives
<1>i. WorkerInv(w)
  BY DEF Before, Workers
<1>3. Holds(w) /\ Agrees(w) /\ op.state # "paused" /\ ~Decided
  BY <1>1, <1>i DEF WorkerInv, ClaimAt, CopyAt, StateAt, UndecidedAt, Leased
<1>4. /\ op'.owner = op.owner /\ op'.gen = op.gen /\ Agrees(w)'
      /\ \/ op'.state = "queued" /\ pc'[w] = "rearm"
         \/ op'.state = op.state /\ pc'[w] = "throw"
  BY <1>1, <1>3, TransitionEffect DEF Agrees
<1>5. UndecidedAt(w)' /\ IndexAt(w)'
  BY <1>1, <1>3, <1>4, SameTurns DEF UndecidedAt, IndexAt
<1>6. pc'[w] \in (Leased \ {"begin", "reconcile"}) \cup {"rearm"}
      /\ pc'[w] \notin {"abort", "boundary", "clear", "exit"}
  BY <1>4 DEF Leased
<1> QED BY <1>1, <1>2, <1>3, <1>4, <1>5, <1>6, MovesOn

\* A failover that could not lock or write, and a commit or a look at the last
\* turn that could not: the worker moves on, out of the loop or to the retry.
LEMMA LockFaultsKeep ==
    ASSUME Before, NEW w \in Worker, FailoverFails(w) \/ FenceFails(w)
    PROVE  Workers' /\ Procs'
<1>1. /\ UNCHANGED <<op, mem, run, sched, turns>> /\ w \in Actor /\ Shapes
      /\ \/ pc[w] = "failover" /\ pc'[w] \in {"retry", "throw"}
         \/ pc[w] \in {"reconcile", "commit"} /\ pc'[w] = "exit"
  BY Typed, GotoStands DEF FailoverFails, FenceFails, Resumes, Runs, Before
<1>2. Falters(w) /\ ~HeartbeatGivesUp(w)
  BY DEF Falters, HeartbeatGivesUp, Disturb, Before, NoGivingUp
<1>3. Holds(w) /\ UndecidedAt(w)
  BY <1>1 DEF Before, Workers, WorkerInv, ClaimAt, Leased
<1>4. UndecidedAt(w)' /\ IndexAt(w)'
  BY <1>1, <1>3, SameTurns DEF UndecidedAt, IndexAt
<1>5. pc'[w] \in Leased \ {"begin", "reconcile"}
  BY <1>1 DEF Leased
<1>6. pc'[w] \notin {"abort", "boundary"} /\ pc[w] \notin {"refresh", "settle", "exit"}
  BY <1>1
<1> QED BY <1>1, <1>2, <1>3, <1>4, <1>5, <1>6, OnlyMovesOn

-----------------------------------------------------------------------------
(* The rest of the worker's steps *)

\* The process has no block of its own open while a worker steps.
LEMMA ProcessIdle ==
    ASSUME Before, NEW w \in Worker, WorkerGoes(w), NEW p \in Proc
    PROVE  pc[p] = "idle" /\ pc'[p] = "idle"
<1>1. /\ w \in Actor /\ HomeOf(w) = Home[w] /\ p \in Actor /\ p # w
      /\ OneProcess /\ Shapes /\ Blocks
  BY ActorTyped DEF Before
<1>2. pc[p] \in ProcPlace /\ pc[p] \notin Running
  BY <1>1, Alone DEF Blocks, WorkerGoes
<1>3. pc'[p] = pc[p]
  BY <1>1, GotoStands DEF WorkerGoes
<1> QED BY <1>2, <1>3 DEF ProcPlace, Running

\* A worker that steps aside, off, leaves the others as they were.
LEMMA StepsAside ==
    ASSUME Before, NEW w \in Worker, WorkerGoes(w), Off(w)', turns' = turns,
           op'.state = op.state, op'.attempts = op.attempts,
           op'.owner = op.owner, op'.gen = op.gen,
           \A v \in Worker \ {w} : run'[v] = run[v] /\ mem'[v] = mem[v],
           \A v \in Worker \ {w} : Active(v) => Active(v)',
           \A p \in Proc : /\ sched'[p].queued = sched[p].queued
                           /\ sched'[p].active \in {sched[p].active, None}
    PROVE  Workers' /\ Procs'
<1>1. ASSUME NEW v \in Worker PROVE WorkerInv(v)'
  <2>1. CASE v = w
    BY <2>1, OffWorker
  <2>2. CASE v # w
    <3>1. pc'[v] = pc[v]
      BY <2>2, ActorTyped, GotoStands DEF WorkerGoes, Before
    <3>2. CASE Active(v)
      BY <2>2, <3>1, <3>2, WorkerKept DEF Active
    <3>3. CASE ~Active(v)
      <4>1. Off(v)
        BY <3>3, OthersOff
      <4>2. Off(v)'
        BY <2>2, <3>1, <4>1 DEF Off, Holds
      <4> QED BY <4>2, OffWorker
    <3> QED BY <3>2, <3>3
  <2> QED BY <2>1, <2>2
<1>2. ASSUME NEW p \in Proc PROVE ProcInv(p)'
  <2>1. pc'[p] = "idle"
    BY ProcessIdle
  <2>2. QueueAt(p)
    BY DEF Before, Procs, ProcInv
  <2> QED BY <2>1, <2>2 DEF ProcInv, QueueAt, CallAt
<1> QED BY <1>1, <1>2 DEF Workers, Procs

\* The retry timer is set, with a lease or without one.
LEMMA RearmKeeps ==
    ASSUME Before, NEW w \in Worker, Rearm(w)
    PROVE  Workers' /\ Procs'
<1>1. /\ pc[w] = "rearm" /\ UNCHANGED <<op, mem, run, turns>>
      /\ sched' = [sched EXCEPT ![Home[w]].timer = TRUE]
      /\ pc'[w] = IF run[w].claim = 0 THEN "settle" ELSE "exit"
  BY Typed, GotoStands DEF Rearm, Resumes, Before
<1>2. \A p \in Proc : /\ sched'[p].active = sched[p].active
                      /\ sched'[p].queued = sched[p].queued
  BY <1>1, Typed DEF Entry
<1>3. WorkerGoes(w)
  BY DrivesGo DEF Drives
<1>4. \A v \in Worker : Active(v)' <=> Active(v)
  BY <1>2, ActorTyped DEF Active
<1>5. CASE Holds(w)
  <2>1. Held(w)
    BY <1>1, <1>5, HeldHere
  <2>2. Held(w)'
    BY <1>1, <1>4, <2>1 DEF Held, Holds, Owns, Agrees
  <2>3. pc'[w] = "exit"
    BY <1>1, <1>5 DEF Holds
  <2>4. WorkerInv(w)'
    BY <2>2, <2>3, HeldThere DEF Leased, UndecidedAt, IndexAt
  <2>5. Flies(w)
    BY <1>1, <1>2, <1>3, <1>4, <2>1 DEF Flies, Held
  <2> QED BY <2>4, <2>5, FlightKeeps
<1>6. CASE ~Holds(w)
  <2>1. Off(w)'
    BY <1>1, <1>6 DEF Off, Holds, Before, Workers, WorkerInv, ClaimAt, LeaseAt
  <2> QED BY <1>1, <1>2, <1>3, <1>4, <2>1, StepsAside
<1> QED BY <1>5, <1>6

\* The lease file could not be locked: the worker never had a claim.
LEMMA AcquireFailsKeeps ==
    ASSUME Before, NEW w \in Worker, AcquireFails(w)
    PROVE  Workers' /\ Procs'
<1>1. /\ pc[w] = "acquire" /\ UNCHANGED <<op, mem, run, sched, turns>>
      /\ pc'[w] = "rearm"
  BY Typed, GotoStands DEF AcquireFails, Runs, Before
<1>2. Off(w)'
  BY <1>1
     DEF Off, Holds, Before, Workers, WorkerInv, ClaimAt, LeaseAt, Entering
<1>3. Falters(w) /\ ~HeartbeatGivesUp(w)
  BY DEF Falters, HeartbeatGivesUp, Disturb, Before, NoGivingUp
<1>4. WorkerGoes(w)
  BY <1>3, FaltersGo
<1>5. \A v \in Worker : Active(v)' <=> Active(v)
  BY <1>1 DEF Active
<1> QED BY <1>1, <1>2, <1>4, <1>5, StepsAside

\* The slot is given back.
LEMMA SettleKeeps ==
    ASSUME Before, NEW w \in Worker, Settle(w)
    PROVE  Workers' /\ Procs'
<1>1. /\ pc[w] = "settle" /\ UNCHANGED <<op, turns>>
      /\ sched' = IF sched[Home[w]].active = w
                  THEN [sched EXCEPT ![Home[w]].active = None] ELSE sched
      /\ run' = [run EXCEPT ![w] = NotDriving]
      /\ mem' = [mem EXCEPT ![w] = Blank]
      /\ pc'[w] = "idle"
  BY Typed, GotoStands DEF Settle, Runs, Before
<1>2. WorkerGoes(w)
  BY DrivesGo DEF Drives
<1>3. Off(w)'
  <2>1. run'[w] = NotDriving
    BY <1>1, Typed
  <2> QED BY <1>1, <2>1 DEF Off, Holds, NotDriving
<1>4. \A v \in Worker \ {w} : run'[v] = run[v] /\ mem'[v] = mem[v]
  BY <1>1, Typed, ActorTyped
<1>5. \A p \in Proc : /\ sched'[p].queued = sched[p].queued
                      /\ sched'[p].active \in {sched[p].active, None}
  BY <1>1, Typed DEF Entry
<1>6. ASSUME NEW v \in Worker \ {w}, Active(v) PROVE Active(v)'
  <2>1. Home[v] \in Proc /\ sched[Home[v]].active = v
    BY <1>6, ActorTyped DEF Active
  <2>2. CASE sched[Home[w]].active = w
    <3>1. Home[v] # Home[w]
      BY <2>1, <2>2
    <3> QED BY <1>1, <2>1, <2>2, <3>1, Typed DEF Active
  <2>3. CASE sched[Home[w]].active # w
    BY <1>1, <2>1, <2>3 DEF Active
  <2> QED BY <2>2, <2>3
<1> QED BY <1>1, <1>2, <1>3, <1>4, <1>5, <1>6, StepsAside

\* The abort settled: the worker goes on to clear the signal, or leaves.
LEMMA FinalizeCancelKeeps ==
    ASSUME Before, NEW w \in Worker, FinalizeCancel(w)
    PROVE  Workers' /\ Procs'
<1>1. /\ pc[w] = "abort" /\ UNCHANGED <<op, run, sched, turns>>
      /\ w \in Actor /\ op \in Row /\ mem \in [Actor -> Row] /\ mem[w] \in Row /\ Shapes
  BY Typed DEF FinalizeCancel, Resumes, Before
<1>2. Holds(w) /\ Agrees(w) /\ op.state # "paused"
  BY <1>1 DEF Before, Workers, WorkerInv, ClaimAt, CopyAt, StateAt, Leased
<1>3. \/ pc'[w] = "exit" /\ mem'[w] = Snapshot(w)
      \/ pc'[w] = "clear" /\ mem'[w] = [Snapshot(w) EXCEPT !.cancel = FALSE]
  BY <1>1, GotoStands DEF FinalizeCancel
<1>4. Agrees(w)' /\ ReadsLease(w)'
  BY <1>1, <1>2, <1>3 DEF Agrees, ReadsLease, Snapshot, Row
<1>5. UndecidedAt(w)' /\ IndexAt(w)'
  BY <1>3 DEF UndecidedAt, IndexAt
<1>6. Drives(w) /\ "exit" \in Leased \ {"begin", "reconcile"}
  BY DEF Drives, Leased
<1> QED BY <1>1, <1>2, <1>3, <1>4, <1>5, <1>6, MovesOn

\* The row goes back whole as it was read: nobody touched it in between.
LEMMA ClearSignalKeeps ==
    ASSUME Before, NEW w \in Worker, ClearSignal(w)
    PROVE  /\ Workers' /\ Procs'
           /\ op'.state = op.state /\ op'.attempts = op.attempts
<1>1. /\ pc[w] = "clear" /\ UNCHANGED <<mem, run, sched, turns>> /\ op' = mem[w]
      /\ pc'[w] = IF run[w].result = "boundary" THEN "cancelling" ELSE "close"
  BY Typed, GotoStands DEF ClearSignal, Runs, Before
<1>2. WorkerInv(w)
  BY DEF Before, Workers
<1>3. /\ op'.state = op.state /\ op'.attempts = op.attempts
      /\ op'.owner = op.owner /\ op'.gen = op.gen
  BY <1>1, <1>2 DEF WorkerInv, CopyAt, Agrees, ReadsLease
<1>4. Agrees(w)'
  BY <1>1 DEF Agrees
<1>5. UndecidedAt(w)' /\ IndexAt(w)'
  BY <1>1 DEF UndecidedAt, IndexAt
<1>6. Drives(w)
  BY DEF Drives
<1>7. CASE Holds(w)
  <2>1. op.state # "paused"
    BY <1>1, <1>2, <1>7 DEF WorkerInv, StateAt
  <2>2. /\ pc'[w] \in (Leased \ {"begin", "reconcile"}) \cup {"close"}
        /\ pc'[w] \notin {"abort", "boundary", "rearm", "clear", "exit"}
    BY <1>1 DEF Leased
  <2>3. Workers' /\ Procs'
    BY <1>1, <1>3, <1>4, <1>5, <1>6, <1>7, <2>1, <2>2, MovesOn
  <2> QED BY <1>3, <2>3
<1>8. CASE ~Holds(w)
  <2>1. /\ pc'[w] = "close" /\ Active(w) /\ ~run[w].lost /\ ~run[w].armed
        /\ run[w].tracker = "off" /\ run[w].result # "boundary"
    BY <1>1, <1>2, <1>8 DEF WorkerInv, ClaimAt, LeaseAt
  <2>2. Active(w)' /\ ~Holds(w)'
    BY <1>1, <1>8, <2>1 DEF Active, Holds
  <2>3. WorkerInv(w)'
    BY <1>1, <1>4, <1>5, <2>1, <2>2
       DEF WorkerInv, ClaimAt, LeaseAt, CopyAt, StateAt, Entering, Leased
  <2>4. Flies(w)
    BY <1>1, <1>6, <2>1, <2>2, DrivesGo DEF Flies
  <2> QED BY <1>3, <2>3, <2>4, FlightKeeps
<1> QED BY <1>7, <1>8

\* The cancelled operation is closed, with a lease or before one.
LEMMA CloseCancelledKeeps ==
    ASSUME Before, NEW w \in Worker, CloseCancelled(w)
    PROVE  Workers' /\ Procs'
<1> DEFINE next == IF run[w].claim = 0 THEN "settle" ELSE "exit"
<1>1. /\ pc[w] = "close" /\ UNCHANGED <<run, sched, turns>>
      /\ TransitionOp(w, "cancelled", next, next)
  BY ActorTyped DEF CloseCancelled, Runs
<1>2. WorkerInv(w) /\ Agrees(w) /\ Active(w)
  BY <1>1 DEF Before, Workers, WorkerInv, CopyAt, LeaseAt
<1>3. /\ op'.owner = op.owner /\ op'.gen = op.gen /\ Agrees(w)'
      /\ pc'[w] = next
      /\ op'.state = op.state \/ op'.state = "cancelled"
  BY <1>1, <1>2, TransitionEffect DEF Agrees
<1>4. Drives(w)
  BY DEF Drives
<1>5. CASE Holds(w)
  <2>1. pc'[w] = "exit"
    BY <1>3, <1>5 DEF Holds
  <2>2. UndecidedAt(w)' /\ IndexAt(w)'
    BY <2>1 DEF UndecidedAt, IndexAt
  <2>3. "exit" \in Leased \ {"begin", "reconcile"}
    BY DEF Leased
  <2> QED BY <1>1, <1>3, <1>4, <1>5, <2>1, <2>2, <2>3, MovesOn
<1>6. CASE ~Holds(w)
  <2>1. Off(w)'
    BY <1>1, <1>2, <1>3, <1>6
       DEF Off, Holds, WorkerInv, ClaimAt, LeaseAt
  <2>2. Flies(w)
    BY <1>1, <1>2, <1>4, DrivesGo DEF Flies, Active
  <2> QED BY <2>1, <2>2, OffWorker, FlightKeeps
<1> QED BY <1>5, <1>6

\* The cancel a turn boundary finds, and the abort it waits for.
LEMMA BoundaryCancelsKeep ==
    ASSUME Before, NEW w \in Worker, BoundaryCancelling(w) \/ BoundaryAborted(w)
    PROVE  Workers' /\ Procs'
<1>1. pc[w] \in {"cancelling", "boundary"} /\ UNCHANGED <<run, sched, turns>>
  BY DEF BoundaryCancelling, BoundaryAborted, Runs, Resumes
<1>2. Holds(w) /\ Agrees(w) /\ op.state # "paused"
  BY <1>1 DEF Before, Workers, WorkerInv, ClaimAt, CopyAt, StateAt, Leased
<1>3. Drives(w)
  BY DEF Drives
<1>4. CASE BoundaryCancelling(w)
  <2>1. /\ op'.owner = op.owner /\ op'.gen = op.gen /\ Agrees(w)'
        /\ pc'[w] = "boundary" /\ op'.state \notin {"running", "paused"}
    BY <1>2, <1>4, TransitionEffect
       DEF BoundaryCancelling, Agrees, Legal, Transitions
  <2>2. UndecidedAt(w)' /\ IndexAt(w)'
    BY <2>1 DEF UndecidedAt, IndexAt
  <2>3. "boundary" \in Leased \ {"begin", "reconcile"}
    BY DEF Leased
  <2> QED BY <1>1, <1>2, <1>3, <2>1, <2>2, <2>3, MovesOn
<1>5. CASE BoundaryAborted(w)
  <2>1. UNCHANGED <<op, mem>> /\ pc'[w] = "close"
    BY <1>5, Typed, GotoStands DEF BoundaryAborted, Before
  <2>2. UndecidedAt(w)' /\ IndexAt(w)'
    BY <2>1 DEF UndecidedAt, IndexAt
  <2> QED BY <1>1, <1>2, <1>3, <2>1, <2>2, OnlyMovesOn
<1> QED BY <1>4, <1>5

\* The catch of drive().
LEMMA ThrowKeeps ==
    ASSUME Before, NEW w \in Worker, Throw(w)
    PROVE  Workers' /\ Procs'
<1>1. pc[w] = "throw" /\ UNCHANGED <<run, sched, turns>>
  BY DEF Throw, Runs
<1>2. Holds(w) /\ Agrees(w) /\ op.state # "paused"
  BY <1>1 DEF Before, Workers, WorkerInv, ClaimAt, CopyAt, StateAt, Leased
<1>3. /\ op'.owner = op.owner /\ op'.gen = op.gen /\ Agrees(w)'
      /\ op'.state = op.state \/ op'.state = "failed"
      /\ pc'[w] = "exit" \/ (pc'[w] = "abort" /\ op'.state = "cancelling")
  <2>1. CASE TransitionOp(w, "failed", "exit", "exit")
    BY <1>2, <2>1, TransitionEffect DEF Agrees
  <2>2. CASE UNCHANGED <<op, mem>> /\ Goto(w, "exit")
    BY <1>2, <2>2, Typed, GotoStands DEF Agrees, Before
  <2>3. CASE /\ UNCHANGED <<op, mem>> /\ Goto(w, "abort")
             /\ mem[w].state = "cancelling"
    BY <1>2, <2>3, Typed, GotoStands DEF Agrees, Before
  <2> QED BY <2>1, <2>2, <2>3 DEF Throw
<1>4. UndecidedAt(w)' /\ IndexAt(w)'
  BY <1>3 DEF UndecidedAt, IndexAt
<1>5. Drives(w) /\ {"exit", "abort"} \subseteq Leased \ {"begin", "reconcile"}
  BY DEF Drives, Leased
<1> QED BY <1>1, <1>2, <1>3, <1>4, <1>5, MovesOn

\* The finally of drive(), whether the release reaches the disk or not.
LEMMA ExitKeeps ==
    ASSUME Before, NEW w \in Worker, Exit(w) \/ ReleaseFails(w)
    PROVE  Workers' /\ Procs'
<1>1. /\ pc[w] = "exit" /\ UNCHANGED <<mem, sched, turns>> /\ pc'[w] = "settle"
      /\ run' = [run EXCEPT ![w].armed = FALSE, ![w].tracker = "off"]
  BY Typed, GotoStands DEF Exit, ReleaseFails, Runs, Before
<1>2. /\ run'[w] = [run[w] EXCEPT !.armed = FALSE, !.tracker = "off"]
      /\ \A v \in Worker \ {w} : run'[v] = run[v]
  BY <1>1, Typed
<1>3. /\ run'[w].claim = run[w].claim /\ run'[w].lost = run[w].lost
      /\ ~run'[w].armed /\ run'[w].tracker = "off"
  BY <1>2, Typed DEF Drive
<1>4. Holds(w) /\ ~run[w].lost /\ Active(w)
  BY <1>1 DEF Before, Workers, WorkerInv, ClaimAt, LeaseAt, Leased
<1>5. Holds(w)' /\ Active(w)'
  BY <1>1, <1>3, <1>4 DEF Holds, Active
<1>6. WorkerInv(w)'
  BY <1>1, <1>3, <1>4, <1>5
     DEF WorkerInv, ClaimAt, LeaseAt, CopyAt, StateAt, UndecidedAt, IndexAt,
         Entering, Leased
<1>7. WorkerGoes(w)
  <2>1. Drives(w) \/ (Falters(w) /\ ~HeartbeatGivesUp(w))
    BY DEF Drives, Falters, HeartbeatGivesUp, Disturb, Before, NoGivingUp
  <2> QED BY <2>1, DrivesGo, FaltersGo
<1> QED BY <1>1, <1>2, <1>4, <1>6, <1>7, FliesOn, FlightKeeps

\* Something in the turn throws, or its projection fails.
LEMMA TurnFaultsKeep ==
    ASSUME Before, NEW w \in Worker, TurnThrows(w) \/ ProjectFails(w)
    PROVE  Workers' /\ Procs'
<1>1. /\ pc[w] \in {"turn", "project"} /\ pc'[w] = "throw"
      /\ UNCHANGED <<op, mem, run, sched, turns>>
  BY Typed, GotoStands DEF TurnThrows, ProjectFails, Runs, Resumes, Before
<1>2. Holds(w) /\ UndecidedAt(w) /\ IndexAt(w)
  BY <1>1 DEF Before, Workers, WorkerInv, ClaimAt, Leased
<1>3. UndecidedAt(w)' /\ IndexAt(w)'
  BY <1>1, <1>2, SameTurns DEF UndecidedAt, IndexAt
<1>4. Falters(w) /\ ~HeartbeatGivesUp(w)
  BY DEF Falters, HeartbeatGivesUp, Disturb, Before, NoGivingUp
<1>5. pc'[w] \in Leased \ {"begin", "reconcile", "abort", "boundary"}
  BY <1>1 DEF Leased
<1> QED BY <1>1, <1>2, <1>3, <1>4, <1>5, OnlyMovesOn

-----------------------------------------------------------------------------
(* The steps of the process *)

\* Nobody is in flight, the process stands idle and has nothing queued.
LEMMA NobodyFlies ==
    ASSUME \A w \in Worker : Off(w)',
           \A p \in Proc : pc'[p] = "idle" /\ QueueAt(p)'
    PROVE  Workers' /\ Procs'
BY OffWorker DEF Workers, Procs, ProcInv, CallAt

\* Nobody moves, and the row keeps its state, attempts and lease.
LEMMA NobodyMoves ==
    ASSUME Before, UNCHANGED <<pc, run, mem, turns>>,
           op'.state = op.state, op'.attempts = op.attempts,
           op'.owner = op.owner, op'.gen = op.gen,
           \A p \in Proc : /\ sched'[p].active = sched[p].active
                           /\ sched'[p].queued = sched[p].queued
    PROVE  Workers' /\ Procs'
<1>1. ASSUME NEW w \in Worker PROVE WorkerInv(w)'
  BY <1>1, ActorTyped, WorkerKept
<1>2. ASSUME NEW p \in Proc PROVE ProcInv(p)'
  <2>1. QueueAt(p) /\ CallAt(p)
    BY DEF Before, Procs, ProcInv
  <2> QED BY <2>1
          DEF ProcInv, QueueAt, CallAt, Agrees, ReadsLease, Holds
<1> QED BY <1>1, <1>2 DEF Workers, Procs

\* The only process takes a step: no worker is inside a block, and the process
\* itself is where it was free to be.
LEMMA WorkersAwait ==
    ASSUME Before, NEW p \in Proc, cpu[p] \in {p, None}
    PROVE  /\ \A w \in Worker : pc[w] \in WorkerPlace \ Running
           /\ cpu[p] = None => pc[p] = "idle"
           /\ \A q \in Proc : q = p
           /\ \A w \in Worker : Home[w] = p
<1>1. p \in Actor /\ HomeOf(p) = p /\ p # None /\ OneProcess /\ Shapes /\ Blocks
  BY ActorTyped DEF Before
<1>2. \A w \in Worker : w \in Actor \ {p}
  BY ActorTyped
<1>3. \A w \in Worker : pc[w] \in WorkerPlace \ Running
  BY <1>1, <1>2, Alone DEF Blocks
<1>4. cpu[p] = None => pc[p] = "idle"
  BY <1>1 DEF Blocks, ProcPlace, Running
<1> QED BY <1>1, <1>3, <1>4, ActorTyped DEF OneProcess

\* A worker that awaits something has no lease on an operation that is paused,
\* nor is it launching one that is not queued.
LEMMA OffWhenPaused ==
    ASSUME Before, NEW p \in Proc, cpu[p] \in {p, None}, op.state = "paused",
           NEW w \in Worker
    PROVE  Off(w)
<1>1. WorkerInv(w) /\ pc[w] \in WorkerPlace \ Running
  BY WorkersAwait DEF Before, Workers
<1>2. pc[w] \notin {"exit", "settle", "acquire", "starting"}
  BY <1>1 DEF WorkerInv, StateAt, Entering, Running
<1> QED BY <1>1, <1>2
    DEF WorkerInv, ClaimAt, LeaseAt, StateAt, Off, WorkerPlace, Place, Awaiting,
        Running, Entering, Leased

\* What is queued is not in flight.
LEMMA OffWhenIdle ==
    ASSUME Before, NEW p \in Proc, sched[p].active = None, NEW w \in Worker
    PROVE  Off(w)
<1>1. ~Active(w)
  BY ActorTyped DEF Active, Before, OneProcess
<1> QED BY <1>1, OthersOff

\* A worker that stays where it was stays off.
LEMMA StaysOff ==
    ASSUME NEW w \in Worker, Off(w), pc'[w] = pc[w], run'[w] = run[w]
    PROVE  Off(w)'
BY DEF Off, Holds

\* The process moves among its own places, and the row keeps its state, attempts
\* and lease.
LEMMA ProcessMoves ==
    ASSUME Before, NEW p \in Proc, ProcGoes(p), UNCHANGED <<run, turns>>,
           \A w \in Worker : mem'[w] = mem[w],
           op'.state = op.state, op'.attempts = op.attempts,
           op'.owner = op.owner, op'.gen = op.gen,
           sched'[p].active = sched[p].active, ProcInv(p)'
    PROVE  Workers' /\ Procs'
<1>1. /\ \A q \in Proc : q = p
      /\ \A w \in Worker : Home[w] = p
  BY WorkersAwait DEF ProcGoes
<1>2. \A w \in Worker : pc'[w] = pc[w]
  BY ActorTyped, GotoStands DEF ProcGoes, Before
<1>3. ASSUME NEW w \in Worker PROVE WorkerInv(w)'
  BY <1>1, <1>2, <1>3, WorkerKept
<1> QED BY <1>1, <1>3 DEF Workers, Procs

\* The pump launches what is queued into a free slot.
LEMMA LaunchKeeps ==
    ASSUME Before, NEW p \in Proc, NEW w \in Worker, Launch(p, w)
    PROVE  Workers' /\ Procs'
<1>1. /\ cpu[p] = None /\ Home[w] = p /\ sched[p].queued /\ UNCHANGED <<op, run, turns>>
      /\ sched' = [sched EXCEPT ![p].queued = FALSE, ![p].active = w]
      /\ mem' = [mem EXCEPT ![w] = op]
      /\ pc'[w] = "starting" /\ \A b \in Actor \ {w} : pc'[b] = pc[b]
  BY Typed, GotoStands DEF Launch, Free, Before
<1>2. op.state = "queued" /\ sched[p].active = None
  BY <1>1 DEF Before, Procs, ProcInv, QueueAt
<1>3. \A v \in Worker : Off(v)
  BY <1>2, OffWhenIdle
<1>4. sched'[p].active = w /\ ~sched'[p].queued /\ mem'[w] = op
  BY <1>1, Typed DEF Entry
<1>5. WorkerInv(w)'
  <2>1. Off(w) /\ Active(w)' /\ run' = run
    BY <1>1, <1>3, <1>4 DEF Active
  <2> QED BY <1>1, <1>2, <1>4, <2>1
          DEF Off, WorkerInv, ClaimAt, LeaseAt, CopyAt, StateAt, UndecidedAt,
              IndexAt, Entering, Leased, Holds
<1>6. ASSUME NEW v \in Worker, v # w PROVE WorkerInv(v)'
  BY <1>1, <1>3, <1>6, ActorTyped, StaysOff, OffWorker
<1>7. ASSUME NEW q \in Proc PROVE ProcInv(q)'
  <2>1. q = p /\ pc'[q] = "idle"
    BY <1>1, WorkersAwait, ActorTyped
  <2> QED BY <1>4, <2>1 DEF ProcInv, QueueAt, CallAt
<1> QED BY <1>5, <1>6, <1>7 DEF Workers, Procs

\* The adapter factory rejects: its worker was the one in flight.
LEMMA FactoryFailsKeeps ==
    ASSUME Before, NEW w \in Worker, FactoryFails(w)
    PROVE  Workers' /\ Procs'
<1>1. /\ pc[w] = "starting" /\ UNCHANGED <<run, turns>>
      /\ sched' = [sched EXCEPT ![Home[w]].active = None]
      /\ pc'[w] = "idle" /\ \A b \in Actor \ {w} : pc'[b] = pc[b]
  BY Typed, GotoStands DEF FactoryFails, Resumes, Before
<1>2. Active(w) /\ ~Holds(w) /\ WorkerInv(w)
  BY <1>1 DEF Before, Workers, WorkerInv, ClaimAt, LeaseAt, Entering
<1>3. Off(w)'
  BY <1>1, <1>2 DEF Off, Holds, WorkerInv, ClaimAt, LeaseAt
<1>4. ASSUME NEW v \in Worker, v # w PROVE Off(v)'
  <2>1. ~Active(v)
    BY <1>2, <1>4, ActorTyped DEF Active, Before, OneProcess
  <2> QED BY <1>1, <1>4, <2>1, ActorTyped, OthersOff, StaysOff
<1>5. WorkerGoes(w)
  <2>1. Falters(w) /\ ~HeartbeatGivesUp(w)
    BY DEF Falters, HeartbeatGivesUp, Disturb, Before, NoGivingUp
  <2> QED BY <2>1, FaltersGo
<1>6. ASSUME NEW p \in Proc PROVE pc'[p] = "idle" /\ QueueAt(p)'
  <2>1. p = Home[w] /\ sched[p].active # None
    BY <1>2, ActorTyped DEF Active, Before, OneProcess
  <2>2. ~sched'[p].queued
    BY <1>1, <2>1, Typed DEF Before, Procs, ProcInv, QueueAt, Entry
  <2> QED BY <1>5, <2>2, ProcessIdle DEF QueueAt
<1> QED BY <1>3, <1>4, <1>6, NobodyFlies

\* The pump finds a cancel on what it queued.
LEMMA PumpCancelKeeps ==
    ASSUME Before, NEW p \in Proc, PumpCancel(p)
    PROVE  Workers' /\ Procs'
<1>0. p \in Actor /\ op \in Row /\ mem \in [Actor -> Row] /\ sched \in [Proc -> Entry]
      /\ Shapes /\ \A w \in Worker : w # p
  BY ActorTyped DEF Before, Shapes
<1>1. /\ cpu[p] = None /\ sched[p].queued /\ UNCHANGED <<op, run, turns>>
      /\ sched' = [sched EXCEPT ![p].queued = FALSE]
      /\ mem' = [mem EXCEPT ![p] = [op EXCEPT !.cancel = FALSE]]
      /\ pc'[p] = "clear" /\ \A b \in Actor \ {p} : pc'[b] = pc[b]
  BY <1>0, GotoStands DEF PumpCancel, Free
<1>2. sched[p].active = None
  BY <1>1 DEF Before, Procs, ProcInv, QueueAt
<1>3. sched'[p].active = None /\ ~sched'[p].queued
      /\ mem'[p] = [op EXCEPT !.cancel = FALSE]
      /\ \A w \in Worker : mem'[w] = mem[w]
  BY <1>0, <1>1, <1>2 DEF Entry
<1>4. Agrees(p)' /\ ReadsLease(p)'
  BY <1>0, <1>1, <1>3 DEF Agrees, ReadsLease, Row
<1>5. ASSUME NEW w \in Worker PROVE ~Holds(w)' /\ pc'[w] \notin Entering
  <2>1. Off(w)'
    BY <1>0, <1>1, <1>2, ActorTyped, OffWhenIdle, StaysOff
  <2> QED BY <2>1 DEF Off, Entering
<1>6. ProcInv(p)'
  BY <1>1, <1>3, <1>4, <1>5 DEF ProcInv, QueueAt, CallAt
<1>7. ProcGoes(p)
  BY <1>1 DEF PumpCancel, ProcGoes, ProcPlace
<1> QED BY <1>1, <1>2, <1>3, <1>6, <1>7, ProcessMoves

\* The retry timer queues only what it finds queued on disk.
LEMMA TimerFiresKeeps ==
    ASSUME Before, NEW p \in Proc, TimerFires(p)
    PROVE  Workers' /\ Procs'
<1>1. /\ cpu[p] = None /\ sched[p].active = None
      /\ UNCHANGED <<op, mem, pc, run, turns>>
      /\ sched' = [sched EXCEPT ![p].timer = FALSE, ![p].queued = @ \/ StillQueued]
  BY DEF TimerFires, Free
<1>2. \A q \in Proc : q = p /\ pc'[q] = "idle"
  BY <1>1, WorkersAwait
<1>3. \A w \in Worker : Off(w)'
  BY <1>1, OffWhenIdle, StaysOff
<1>4. sched'[p].active = None /\ (sched'[p].queued => sched[p].queued \/ StillQueued)
  BY <1>1 DEF Before, Shapes, Entry
<1>5. QueueAt(p)'
  BY <1>1, <1>4 DEF QueueAt, StillQueued, Before, Procs, ProcInv
<1> QED BY <1>2, <1>3, <1>5, NobodyFlies

\* A heartbeat finds the lease its worker took, always.
LEMMA HeartbeatKeeps ==
    ASSUME Before, NEW w \in Worker, Heartbeat(w)
    PROVE  Workers' /\ Procs' /\ op' = op /\ turns' = turns
<1>1. run[w].armed
  BY DEF Heartbeat, HeartbeatOK, HeartbeatClaimLost, Beats
<1>2. Owns(w)
  BY <1>1 DEF Before, Workers, WorkerInv, LeaseAt
<1>3. UNCHANGED <<op, turns, mem, pc, run, sched>>
  BY <1>2 DEF Heartbeat, HeartbeatOK, HeartbeatClaimLost
<1> QED BY <1>3, NobodyMoves

\* Requests that only write a column of the row, and the passing of time.
LEMMA RequestsKeep ==
    ASSUME Before, \/ \E p \in Proc : OpPause(p) \/ ResumeWithdraws(p)
                   \/ LeaseExpires
    PROVE  /\ Workers' /\ Procs' /\ turns' = turns
           /\ op'.state = op.state /\ op'.attempts = op.attempts
<1>1. UNCHANGED <<turns, mem, pc, run, sched>>
  BY DEF OpPause, ResumeWithdraws, LeaseExpires
<1>2. /\ op'.state = op.state /\ op'.attempts = op.attempts
      /\ op'.owner = op.owner /\ op'.gen = op.gen
  BY DEF OpPause, ResumeWithdraws, LeaseExpires, Before, Shapes, Row
<1> QED BY <1>1, <1>2, NobodyMoves

\* A control call reads the row.
LEMMA CallsKeep ==
    ASSUME Before, NEW p \in Proc, OpResume(p) \/ OpCancel(p)
    PROVE  Workers' /\ Procs'
<1>0. p \in Actor /\ op \in Row /\ mem \in [Actor -> Row]
      /\ Shapes /\ \A w \in Worker : w # p
  BY ActorTyped DEF Before, Shapes
<1>1. /\ UNCHANGED <<op, run, sched, turns>> /\ mem' = [mem EXCEPT ![p] = op]
      /\ \/ pc'[p] = "resume" /\ op.state = "paused"
         \/ pc'[p] = "signal"
  BY <1>0, GotoStands DEF OpResume, OpCancel
<1>2. mem'[p] = op /\ \A w \in Worker : mem'[w] = mem[w]
  BY <1>0, <1>1
<1>3. ProcInv(p)'
  BY <1>1, <1>2
     DEF ProcInv, QueueAt, CallAt, Agrees, ReadsLease, Before, Procs
<1>4. ProcGoes(p)
  BY DEF OpResume, OpCancel, ProcGoes, ProcPlace, Free
<1> QED BY <1>1, <1>2, <1>3, <1>4, ProcessMoves

\* A resume queues an operation no worker holds any more.
LEMMA ResumeLandsKeeps ==
    ASSUME Before, NEW p \in Proc, ResumeLands(p)
    PROVE  /\ Workers' /\ Procs'
           /\ op.state = "paused" /\ op'.state = "queued"
           /\ op'.attempts = op.attempts
<1>0. p \in Actor /\ HomeOf(p) = p /\ op \in Row /\ mem \in [Actor -> Row]
      /\ mem[p] \in Row /\ sched \in [Proc -> Entry] /\ Shapes
  BY ActorTyped DEF Before, Shapes
<1>1. /\ pc[p] = "resume" /\ cpu[p] = p /\ UNCHANGED <<run, turns>>
      /\ TransitionOp(p, "queued", "idle", "idle")
      /\ sched' = [sched EXCEPT ![p] = Enqueue(@)]
  BY <1>0 DEF ResumeLands, Runs
<1>2. Agrees(p) /\ op.state = "paused"
  BY <1>1 DEF Before, Procs, ProcInv, CallAt
<1>3. /\ Persist(p, [mem[p] EXCEPT !.state = "queued"]) /\ Goto(p, "idle")
  BY <1>1, <1>2 DEF TransitionOp, Agrees, Legal, Transitions
<1>4. op'.state = "queued" /\ op'.attempts = op.attempts
  BY <1>0, <1>2, <1>3 DEF Persist, Merge, Agrees, Row
<1>5. pc'[p] = "idle" /\ \A b \in Actor \ {p} : pc'[b] = pc[b]
  BY <1>0, <1>3, GotoStands
<1>6. \A w \in Worker : Off(w)'
  BY <1>1, <1>2, <1>5, ActorTyped, OffWhenPaused, StaysOff
<1>7. QueueAt(p)'
  <2>1. sched'[p] = Enqueue(sched[p])
    BY <1>0, <1>1
  <2>2. sched'[p].active = sched[p].active
        /\ (sched[p].active # None => sched'[p] = sched[p])
    BY <1>0, <2>1 DEF Enqueue, Entry
  <2> QED BY <1>4, <2>2 DEF QueueAt, Before, Procs, ProcInv
<1>8. \A q \in Proc : q = p
  BY <1>1, WorkersAwait
<1>9. Workers' /\ Procs'
  BY <1>5, <1>6, <1>7, <1>8, NobodyFlies
<1> QED BY <1>2, <1>4, <1>9

\* The cancel signal goes to disk.
LEMMA WriteCancelSignalKeeps ==
    ASSUME Before, NEW p \in Proc, WriteCancelSignal(p)
    PROVE  /\ Workers' /\ Procs'
           /\ op'.state = op.state /\ op'.attempts = op.attempts
<1>0. p \in Actor /\ HomeOf(p) = p /\ op \in Row /\ Shapes
  BY ActorTyped DEF Before, Shapes
<1>1. /\ pc[p] = "signal" /\ cpu[p] = p /\ UNCHANGED <<mem, run, sched, turns>>
      /\ op' = [op EXCEPT !.cancel = TRUE] /\ pc'[p] = "deliver"
  BY <1>0, GotoStands DEF WriteCancelSignal, Runs
<1>2. /\ op'.state = op.state /\ op'.attempts = op.attempts
      /\ op'.owner = op.owner /\ op'.gen = op.gen
  BY <1>0, <1>1 DEF Row
<1>3. ProcInv(p)'
  BY <1>1, <1>2
     DEF ProcInv, QueueAt, CallAt, Before, Procs
<1>4. ProcGoes(p)
  BY <1>0, <1>1 DEF WriteCancelSignal, ProcGoes, ProcPlace
<1>5. Workers' /\ Procs'
  BY <1>1, <1>2, <1>3, <1>4, ProcessMoves
<1> QED BY <1>2, <1>5

\* The bus moves the operation to cancelling under its worker, wherever that
\* awaits, before opCancel returns.
LEMMA DeliverCancelKeeps ==
    ASSUME Before, NEW p \in Proc, NEW w \in Worker, DeliverCancel(p, w)
    PROVE  /\ Workers' /\ Procs'
           /\ op'.attempts = op.attempts
           /\ op'.state = op.state \/ (op'.state = "cancelling" /\ op.state = "running")
<1>0. /\ p \in Actor /\ w \in Actor /\ p # w /\ HomeOf(p) = p /\ op \in Row
      /\ mem \in [Actor -> Row] /\ mem[w] \in Row /\ Shapes
      /\ run \in [Worker -> Drive] /\ run[w] \in Drive
  BY ActorTyped DEF Before, Shapes
<1>1. /\ pc[p] = "deliver" /\ cpu[p] = p /\ UNCHANGED <<turns, pc, sched>>
      /\ run[w].tracker = "on"
      /\ run' = [run EXCEPT ![w].tracker = "cancelled"]
      /\ \/ /\ Legal(mem[w].state, "cancelling")
            /\ Persist(w, [mem[w] EXCEPT !.state = "cancelling"])
         \/ /\ ~Legal(mem[w].state, "cancelling")
            /\ UNCHANGED <<op, mem>>
  BY <1>0 DEF DeliverCancel, Runs, Subscribed
<1>2. WorkerInv(w) /\ pc[w] \in WorkerPlace \ Running /\ Home[w] = p
  BY <1>0, <1>1, WorkersAwait DEF Before, Workers
<1>3. /\ Holds(w) /\ Active(w) /\ pc[w] \notin {"exit", "settle", "refresh"}
      /\ Agrees(w) /\ op.state # "paused"
  BY <1>1, <1>2 DEF WorkerInv, LeaseAt, CopyAt, StateAt, Running
<1>4. /\ run'[w] = [run[w] EXCEPT !.tracker = "cancelled"]
      /\ \A v \in Worker \ {w} : run'[v] = run[v]
  BY <1>0, <1>1
<1>5. /\ run'[w].claim = run[w].claim /\ run'[w].lost = run[w].lost
      /\ run'[w].armed = run[w].armed /\ run'[w].tracker = "cancelled"
      /\ run'[w].turn = run[w].turn /\ run'[w].result = run[w].result
  BY <1>0, <1>4 DEF Drive
<1>6. /\ op'.owner = op.owner /\ op'.gen = op.gen /\ op'.attempts = op.attempts
      /\ Agrees(w)' /\ op'.state \notin {"running", "paused"}
      /\ op'.state = op.state \/ (op'.state = "cancelling" /\ op.state = "running")
  <2>1. CASE /\ Legal(mem[w].state, "cancelling")
             /\ Persist(w, [mem[w] EXCEPT !.state = "cancelling"])
    <3>1. op.state = "running"
      BY <1>0, <1>3, <2>1 DEF Agrees, Legal, Transitions, Row, State
    <3>2. /\ op' = Merge([mem[w] EXCEPT !.state = "cancelling"], op)
          /\ mem'[w] = op'
      BY <1>0, <2>1 DEF Persist
    <3> QED BY <1>0, <1>3, <3>1, <3>2 DEF Merge, Row, Agrees
  <2>2. CASE ~Legal(mem[w].state, "cancelling") /\ UNCHANGED <<op, mem>>
    BY <1>3, <2>2 DEF Agrees, Legal, Transitions
  <2> QED BY <1>1, <2>1, <2>2
<1>7. \A a \in Actor \ {w} : mem'[a] = mem[a]
  BY <1>0, <1>1 DEF Persist
<1>8. WorkerInv(w)'
  <2>1. Holds(w)' /\ Owns(w)' /\ Active(w)' /\ ~run'[w].lost /\ run'[w].armed
    BY <1>1, <1>2, <1>3, <1>5, <1>6
       DEF WorkerInv, ClaimAt, LeaseAt, Holds, Owns, Active
  <2>2. pc[w] \in Leased \cup {"rearm"} /\ pc[w] \notin {"begin", "reconcile"}
    BY <1>2, <1>3
       DEF WorkerInv, ClaimAt, WorkerPlace, Place, Awaiting, Running, Entering,
           Leased
  <2>3. UndecidedAt(w)' /\ IndexAt(w)'
    BY <1>1, <1>2, <1>5, SameTurns DEF WorkerInv, UndecidedAt, IndexAt
  <2>4. Held(w)'
    BY <1>6, <2>1 DEF Held
  <2>5. pc'[w] # "clear"
    BY <1>1, <2>2 DEF Leased
  <2> QED BY <1>1, <1>6, <2>2, <2>3, <2>4, <2>5, HeldThere
<1>9. ASSUME NEW v \in Worker, v # w PROVE WorkerInv(v)'
  <2>1. Home[v] = Home[w]
    BY ActorTyped DEF Before, OneProcess
  <2>2. Off(v)
    BY <1>3, <1>9, <2>1, OthersOff DEF Active
  <2> QED BY <1>1, <1>4, <1>9, <2>2, StaysOff, OffWorker
<1>10. ProcInv(p)'
  <2>1. QueueAt(p) /\ CallAt(p)
    BY DEF Before, Procs, ProcInv
  <2>2. ~sched'[p].queued
    BY <1>1, <1>2, <1>3, <2>1, ActorTyped DEF QueueAt, Active
  <2>3. mem'[p] = mem[p] /\ mem[p].attempts = op.attempts /\ mem[p].state # "paused"
    BY <1>0, <1>1, <1>3, <1>7, <2>1 DEF CallAt
  <2> QED BY <1>1, <1>6, <2>2, <2>3 DEF ProcInv, QueueAt, CallAt
<1>11. \A q \in Proc : q = p
  BY <1>1, WorkersAwait
<1> QED BY <1>6, <1>8, <1>9, <1>10, <1>11 DEF Workers, Procs

\* opCancel returns, or goes on to cancel a paused operation itself.
LEMMA CancelReturnsKeeps ==
    ASSUME Before, NEW p \in Proc, CancelReturns(p)
    PROVE  Workers' /\ Procs'
<1>0. /\ p \in Actor /\ HomeOf(p) = p /\ op \in Row /\ mem \in [Actor -> Row]
      /\ mem[p] \in Row /\ Shapes /\ sched \in [Proc -> Entry]
      /\ \A w \in Worker : w # p /\ w \in Actor
  BY ActorTyped DEF Before, Shapes
<1>1. pc[p] = "deliver" /\ cpu[p] = p /\ UNCHANGED <<op, run, turns>>
  BY <1>0 DEF CancelReturns, Runs
<1>2. QueueAt(p) /\ CallAt(p)
  BY DEF Before, Procs, ProcInv
<1>3. ProcGoes(p)
  BY <1>0, <1>1 DEF CancelReturns, ProcGoes, ProcPlace
<1>4. CASE /\ CancelsParked(mem[p]) /\ sched' = sched /\ Goto(p, "clear")
           /\ mem' = [mem EXCEPT ![p] = [Snapshot(p) EXCEPT !.cancel = FALSE]]
  <2>1. op.state = "paused" /\ mem[p].attempts = op.attempts
    BY <1>1, <1>2, <1>4 DEF CallAt, CancelsParked
  <2>2. /\ pc'[p] = "clear" /\ \A w \in Worker : pc'[w] = pc[w] /\ mem'[w] = mem[w]
        /\ mem'[p] = [Snapshot(p) EXCEPT !.cancel = FALSE]
    BY <1>0, <1>4, GotoStands
  <2>3. Agrees(p)' /\ ReadsLease(p)'
    BY <1>0, <1>1, <2>1, <2>2 DEF Agrees, ReadsLease, Snapshot, Row
  <2>4. ASSUME NEW w \in Worker PROVE ~Holds(w)' /\ pc'[w] \notin Entering
    BY <1>1, <2>1, <2>2, OffWhenPaused DEF Off, Holds, Entering
  <2>5. ProcInv(p)'
    BY <1>1, <1>2, <1>4, <2>1, <2>2, <2>3, <2>4 DEF ProcInv, QueueAt, CallAt
  <2> QED BY <1>1, <1>3, <1>4, <2>2, <2>5, ProcessMoves
<1>5. CASE /\ sched' = [sched EXCEPT ![p].timer = @ \/ mem[p].state = "queued"]
           /\ mem' = mem /\ Goto(p, "idle")
  <2>1. /\ sched'[p].active = sched[p].active /\ sched'[p].queued = sched[p].queued
        /\ pc'[p] = "idle"
    BY <1>0, <1>5, GotoStands DEF Entry
  <2>2. ProcInv(p)'
    BY <1>1, <1>2, <2>1 DEF ProcInv, QueueAt, CallAt
  <2> QED BY <1>1, <1>3, <1>5, <2>1, <2>2, ProcessMoves
<1> QED BY <1>4, <1>5 DEF CancelReturns

\* The process clears the signal of an operation nobody holds.
LEMMA ProcessClearKeeps ==
    ASSUME Before, NEW p \in Proc, ClearSignal(p)
    PROVE  /\ Workers' /\ Procs'
           /\ op'.state = op.state /\ op'.attempts = op.attempts
<1>0. p \in Actor /\ HomeOf(p) = p /\ Shapes /\ \A w \in Worker : w # p /\ w \in Actor
  BY ActorTyped DEF Before
<1>1. /\ pc[p] = "clear" /\ cpu[p] = p /\ UNCHANGED <<mem, run, sched, turns>>
      /\ op' = mem[p] /\ pc'[p] = "close" /\ Goto(p, "close")
      /\ \A w \in Worker : pc'[w] = pc[w]
  BY <1>0, GotoStands DEF ClearSignal, Runs
<1>2. QueueAt(p) /\ CallAt(p)
  BY DEF Before, Procs, ProcInv
<1>3. /\ op'.state = op.state /\ op'.attempts = op.attempts
      /\ op'.owner = op.owner /\ op'.gen = op.gen
  BY <1>1, <1>2 DEF CallAt, Agrees, ReadsLease
<1>4. ProcInv(p)'
  BY <1>1, <1>2, <1>3 DEF ProcInv, QueueAt, CallAt, Agrees, Holds
<1>5. ProcGoes(p)
  BY <1>1 DEF ProcGoes, ProcPlace
<1>6. Workers' /\ Procs'
  BY <1>1, <1>3, <1>4, <1>5, ProcessMoves
<1> QED BY <1>3, <1>6

\* The process closes it: every worker is off.
LEMMA ProcessCloseKeeps ==
    ASSUME Before, NEW p \in Proc, CloseCancelled(p)
    PROVE  /\ Workers' /\ Procs'
           /\ op'.attempts = op.attempts
           /\ op'.state = op.state \/ (op'.state = "cancelled" /\ Legal(op.state, "cancelled"))
<1>0. /\ p \in Actor /\ HomeOf(p) = p /\ Shapes /\ op \in Row /\ mem \in [Actor -> Row]
      /\ mem[p] \in Row /\ \A w \in Worker : w # p /\ w \in Actor
  BY ActorTyped DEF Before, Shapes
<1>1. /\ pc[p] = "close" /\ cpu[p] = p /\ UNCHANGED <<run, sched, turns>>
      /\ TransitionOp(p, "cancelled", "idle", "idle")
  BY <1>0 DEF CloseCancelled, Runs
<1>2. /\ Agrees(p) /\ ~sched[p].queued
      /\ \A w \in Worker : ~Holds(w) /\ pc[w] \notin Entering
  BY <1>1 DEF Before, Procs, ProcInv, CallAt
<1>3. /\ op'.attempts = op.attempts
      /\ op'.state = op.state \/ (op'.state = "cancelled" /\ Legal(op.state, "cancelled"))
  BY <1>0, <1>1, <1>2 DEF TransitionOp, Persist, Merge, Agrees, Row
<1>4. pc'[p] = "idle" /\ \A w \in Worker : pc'[w] = pc[w]
  BY <1>0, <1>1, GotoStands DEF TransitionOp
<1>5. ASSUME NEW w \in Worker PROVE Off(w)'
  <2>1. WorkerInv(w) /\ pc[w] \in WorkerPlace \ Running
    BY <1>1, WorkersAwait DEF Before, Workers
  <2>2. Off(w)
    BY <1>2, <2>1
       DEF Off, WorkerInv, ClaimAt, LeaseAt, WorkerPlace, Place, Awaiting,
           Running, Entering, Leased
  <2> QED BY <1>1, <1>4, <2>2, StaysOff
<1>6. \A q \in Proc : q = p
  BY <1>1, WorkersAwait
<1>7. QueueAt(p)'
  BY <1>1, <1>2 DEF QueueAt
<1>8. Workers' /\ Procs'
  BY <1>4, <1>5, <1>6, <1>7, NobodyFlies
<1> QED BY <1>3, <1>8

\* A lease that is not fresh, with no heartbeat armed for it, has no worker; one
\* whose published turns decided a running operation has none either.
LEMMA NobodyToRecover ==
    ASSUME Before, NEW p \in Proc, cpu[p] = None, NEW w \in Worker,
           ~HasArmedHeartbeat(p) \/ (op.state = "running" /\ Decided),
           pc[w] # "starting"
    PROVE  Off(w)
<1>1. WorkerInv(w) /\ pc[w] \in WorkerPlace \ Running /\ Home[w] = p
  BY WorkersAwait DEF Before, Workers
<1>2. ~Holds(w)
  <2>1. SUFFICES ASSUME Holds(w) PROVE FALSE
    OBVIOUS
  <2>2. pc[w] \in {"turn", "failover", "rearm", "abort", "boundary"}
    BY <1>1, <2>1
       DEF WorkerInv, ClaimAt, WorkerPlace, Place, Awaiting, Running, Entering
  <2>3. Owns(w) /\ run[w].armed
    BY <1>1, <2>1, <2>2 DEF WorkerInv, LeaseAt
  <2>4. CASE ~HasArmedHeartbeat(p)
    BY <1>1, <2>3, <2>4, ActorTyped DEF HasArmedHeartbeat, Owns
  <2>5. CASE op.state = "running" /\ Decided
    BY <1>1, <2>1, <2>2, <2>5 DEF WorkerInv, StateAt, UndecidedAt
  <2> QED BY <2>4, <2>5
<1> QED BY <1>1, <1>2
    DEF Off, WorkerInv, ClaimAt, LeaseAt, WorkerPlace, Place, Awaiting, Running,
        Entering, Leased

\* Recovery finishes an operation its last turn decided.
LEMMA RecoverPublishedKeeps ==
    ASSUME Before, NEW p \in Proc, RecoverPublished(p)
    PROVE  Workers' /\ Procs'
<1>1. /\ cpu[p] = None /\ Decided /\ op.state = "running"
      /\ UNCHANGED <<pc, run, sched>>
  BY DEF RecoverPublished, Free, RecoveryMayFinish
<1>2. ASSUME NEW w \in Worker PROVE Off(w)'
  <2>1. pc[w] # "starting"
    BY <1>1 DEF Before, Workers, WorkerInv, StateAt, Entering
  <2> QED BY <1>1, <2>1, NobodyToRecover, StaysOff
<1>3. \A q \in Proc : q = p /\ pc'[q] = "idle"
  BY <1>1, WorkersAwait
<1>4. QueueAt(p)'
  BY <1>1 DEF QueueAt, Before, Procs, ProcInv
<1> QED BY <1>2, <1>3, <1>4, NobodyFlies

\* Recovery requeues, cancels or fails an operation whose worker is gone.
LEMMA RecoverStaleOpKeeps ==
    ASSUME Before, NEW p \in Proc, RecoverStaleOp(p)
    PROVE  /\ Workers' /\ Procs' /\ turns' = turns
           /\ op'.attempts \in {op.attempts, op.attempts + 1}
           /\ op'.state = op.state \/ Legal(op.state, op'.state)
<1>0. op \in Row /\ sched \in [Proc -> Entry] /\ Shapes
  BY DEF Before, Shapes
<1>1. /\ cpu[p] = None /\ ~HasArmedHeartbeat(p) /\ op.state \in Recoverable
      /\ UNCHANGED <<turns, mem, pc, run>>
  BY DEF RecoverStaleOp, Stale, Free
<1>2. /\ op'.attempts \in {op.attempts, op.attempts + 1}
      /\ op'.state = op.state \/ Legal(op.state, op'.state)
      /\ op.state = "queued" => op'.state = "queued" /\ op'.attempts = op.attempts
      /\ \/ sched'[p] = Evict(sched[p]) /\ op.state # "queued"
         \/ sched'[p] = Enqueue(Evict(sched[p])) /\ op'.state = "queued"
  <2>1. CASE /\ op.state = "queued"
             /\ op' = [op EXCEPT !.owner = None]
             /\ sched' = [sched EXCEPT ![p] = Enqueue(Evict(@))]
    BY <1>0, <2>1 DEF Row
  <2>2. CASE /\ op.state = "cancelling"
             /\ op' = [op EXCEPT !.owner = None, !.state = "cancelled"]
             /\ sched' = [sched EXCEPT ![p] = Evict(@)]
    BY <1>0, <2>2 DEF Legal, Transitions, Row
  <2>3. CASE /\ op.state = "running"
             /\ op' = [op EXCEPT !.owner = None, !.state = "queued",
                                 !.attempts = @ + 1]
             /\ sched' = [sched EXCEPT ![p] = Enqueue(Evict(@))]
    BY <1>0, <2>3 DEF Legal, Transitions, Row
  <2>4. CASE /\ op.state = "running"
             /\ op' = [op EXCEPT !.owner = None, !.state = "failed"]
             /\ sched' = [sched EXCEPT ![p] = Evict(@)]
    BY <1>0, <2>4 DEF Legal, Transitions, Row
  <2> QED BY <2>1, <2>2, <2>3, <2>4 DEF RecoverStaleOp
<1>3. \A q \in Proc : q = p /\ pc'[q] = "idle"
  BY <1>1, WorkersAwait
<1>q. QueueAt(p) /\ sched[p] \in Entry
  BY <1>0 DEF Before, Procs, ProcInv
<1>4. CASE \E w \in Worker : pc[w] = "starting"
  <2>1. PICK w \in Worker : pc[w] = "starting"
    BY <1>4
  <2>2. WorkerInv(w) /\ Home[w] = p /\ w # None
    BY <1>1, WorkersAwait, ActorTyped DEF Before, Workers
  <2>3. op.state = "queued" /\ sched[p].active = w
    BY <2>1, <2>2 DEF WorkerInv, StateAt, LeaseAt, Entering, Active
  <2>4. sched'[p] = sched[p] /\ op'.state = "queued" /\ op'.attempts = op.attempts
    BY <1>2, <2>1, <2>2, <2>3 DEF Enqueue, Evict
  <2>5. WorkerInv(w)'
    <3>1. ~Holds(w)' /\ Active(w)'
      BY <1>1, <2>1, <2>2, <2>3, <2>4
         DEF WorkerInv, ClaimAt, Entering, Holds, Active
    <3> QED BY <1>1, <2>1, <2>2, <2>4, <3>1
            DEF WorkerInv, ClaimAt, LeaseAt, CopyAt, StateAt, UndecidedAt,
                IndexAt, Entering, Leased, Holds
  <2>6. ASSUME NEW v \in Worker, v # w PROVE WorkerInv(v)'
    <3>1. ~Active(v)
      BY <1>1, <2>3, <2>6, WorkersAwait DEF Active
    <3> QED BY <1>1, <3>1, OthersOff, StaysOff, OffWorker
  <2>7. ProcInv(p)'
    BY <1>3, <1>q, <2>4 DEF ProcInv, QueueAt, CallAt
  <2>8. Workers' /\ Procs'
    BY <1>3, <2>5, <2>6, <2>7 DEF Workers, Procs
  <2> QED BY <1>1, <1>2, <2>8
<1>5. CASE \A w \in Worker : pc[w] # "starting"
  <2>1. \A w \in Worker : Off(w)'
    BY <1>1, <1>5, NobodyToRecover, StaysOff
  <2>2. Evict(sched[p]) = [sched[p] EXCEPT !.active = None]
    <3>1. sched[p].active \in Worker \cup {None}
      BY <1>q DEF Entry
    <3>2. CASE sched[p].active = None
      BY <1>q, <3>2 DEF Evict, Entry
    <3> QED BY <1>5, <3>1, <3>2 DEF Evict
  <2>3. QueueAt(p)'
    BY <1>2, <1>q, <2>2 DEF QueueAt, Enqueue, Entry
  <2>4. Workers' /\ Procs'
    BY <1>3, <2>1, <2>3, NobodyFlies
  <2> QED BY <1>1, <1>2, <2>4
<1> QED BY <1>4, <1>5

\* A crash leaves nothing in memory.
LEMMA CrashKeeps ==
    ASSUME Before, NEW p \in Proc, Crash(p)
    PROVE  Workers' /\ Procs'
<1>1. /\ \A q \in Proc : q = p
      /\ \A w \in Worker : Home[w] = p /\ HomeOf(w) = p /\ w \in Actor
      /\ p \in Actor /\ HomeOf(p) = p
  BY ActorTyped DEF Before, OneProcess
<1>2. /\ \A w \in Worker : pc'[w] = "idle" /\ run'[w] = NotDriving
      /\ pc'[p] = "idle"
  BY <1>1 DEF Crash
<1>3. sched'[p] = NoEntry
  BY DEF Crash, Before, Shapes
<1>4. \A w \in Worker : Off(w)'
  BY <1>2 DEF Off, Holds, NotDriving
<1>5. QueueAt(p)'
  BY <1>3 DEF QueueAt, NoEntry
<1> QED BY <1>1, <1>2, <1>4, <1>5, NobodyFlies

-----------------------------------------------------------------------------
(* Every step *)

\* A step of a worker's own code keeps the invariant.
LEMMA DrivesKeep ==
    ASSUME Before, NEW w \in Worker, Drives(w)
    PROVE  Workers' /\ Procs'
BY EnterDriveKeeps, AcquireKeeps, RefreshKeeps, BeginKeeps, ReconcileKeeps,
   BeginTurnKeeps, TransitionsOutKeep, TurnEndsKeeps, CommitKeeps, ProjectKeeps,
   LeavesKeep, BoundariesKeep, AdapterRetriesKeeps,
   AdapterExhaustedKeeps, FailoverDeclinedKeeps, RequeueKeeps, RearmKeeps,
   FinalizeCancelKeeps, ClearSignalKeeps, CloseCancelledKeeps,
   BoundaryCancelsKeep, ThrowKeeps, ExitKeeps, SettleKeeps
   DEF Drives

\* So does a fault: none of them is a heartbeat that gives up.
LEMMA FaltersKeep ==
    ASSUME Before, NEW w \in Worker, Falters(w)
    PROVE  Workers' /\ Procs'
<1>1. ~HeartbeatGivesUp(w)
  BY DEF HeartbeatGivesUp, Disturb, Before, NoGivingUp
<1> QED BY <1>1, FactoryFailsKeeps, AcquireFailsKeeps, TurnFaultsKeep,
           FailoverSwitchesKeeps, LockFaultsKeep, ExitKeeps DEF Falters

\* So does every step of the process.
LEMMA ProcessKeeps ==
    ASSUME Before, NEW p \in Proc,
           \/ Schedules(p) \/ Answers(p) \/ Calls(p) \/ Recovers(p) \/ Crash(p)
    PROVE  Workers' /\ Procs'
<1>1. CASE Schedules(p)
  BY <1>1, LaunchKeeps, PumpCancelKeeps, TimerFiresKeeps DEF Schedules
<1>2. CASE Answers(p)
  BY <1>2, ResumeLandsKeeps, WriteCancelSignalKeeps, CancelReturnsKeeps,
     DeliverCancelKeeps, ProcessClearKeeps, ProcessCloseKeeps DEF Answers
<1>3. CASE Calls(p) \/ Recovers(p) \/ Crash(p)
  BY <1>3, RequestsKeep, CallsKeep, RecoverPublishedKeeps, RecoverStaleOpKeeps,
     CrashKeeps DEF Calls, Recovers
<1> QED BY <1>1, <1>2, <1>3

\* Whatever happens, a worker and its process stay where the invariant puts them.
LEMMA StepKeeps ==
    ASSUME Before, [Next]_vars
    PROVE  Workers' /\ Procs'
<1>1. CASE UNCHANGED vars
  <2>1. UNCHANGED <<op, turns, mem, pc, run, sched>>
    BY <1>1 DEF vars
  <2> QED BY <2>1, NobodyMoves
<1>2. CASE LeaseExpires
  BY <1>2, RequestsKeep
<1> QED BY <1>1, <1>2, DrivesKeep, FaltersKeep, HeartbeatKeeps, ProcessKeeps
        DEF Next

\* At the start one scheduler has the operation queued and nobody drives it.
LEMMA StartsOff == Init => Workers /\ Procs
<1> SUFFICES ASSUME Init PROVE Workers /\ Procs
  OBVIOUS
<1>1. ASSUME NEW w \in Worker PROVE WorkerInv(w)
  <2>1. pc[w] = "idle" /\ run[w] = NotDriving
    BY ActorTyped DEF Init
  <2> QED BY <2>1
      DEF NotDriving, WorkerInv, ClaimAt, LeaseAt, CopyAt, StateAt, UndecidedAt,
          IndexAt, Entering, Leased, Holds
<1>2. ASSUME NEW p \in Proc PROVE ProcInv(p)
  <2>1. pc[p] = "idle" /\ op.state = "queued" /\ sched[p].active = None
    BY ActorTyped DEF Init, Blank, NoEntry
  <2> QED BY <2>1 DEF ProcInv, QueueAt, CallAt
<1> QED BY <1>1, <1>2 DEF Workers, Procs

-----------------------------------------------------------------------------
(* What a step does to the row *)

\* The row moves along the table, and its attempts only grow.
Moves ==
    /\ op'.state = op.state \/ Legal(op.state, op'.state)
    /\ op'.attempts \in {op.attempts, op.attempts + 1}

\* A transition from a copy that agrees with the row.
LEMMA TransitionMoves ==
    ASSUME Before, NEW w \in Worker, Agrees(w), NEW to, NEW next, NEW illegal,
           TransitionOp(w, to, next, illegal)
    PROVE  Moves
BY TransitionEffect DEF Moves, Agrees

\* The projection of a turn.
LEMMA ProjectionMoves ==
    ASSUME Before, NEW outcome, Projectable(outcome), op' = ProjectTo(outcome)
    PROVE  Moves
<1>1. op \in Row
  BY DEF Before, Shapes
<1> QED BY <1>1 DEF Moves, Projectable, ProjectTo, Legal, Row

\* The steps of a worker.
LEMMA DrivesMove ==
    ASSUME Before, NEW w \in Worker, Drives(w)
    PROVE  Moves
<1>s. op' = op => Moves
  BY DEF Moves
<1>c. pc[w] \in {"reconcile", "top", "after", "pausing", "giveup", "requeue", "close",
                 "cancelling", "throw"} => Agrees(w)
  BY DEF Before, Workers, WorkerInv, ClaimAt, CopyAt, Leased
<1>1. CASE \/ StopAtTop(w) \/ FinishOnWallClock(w) \/ Suspend(w) \/ PerTurnStop(w)
           \/ PauseLands(w) \/ GiveUp(w)
  <2>1. Agrees(w)
    BY <1>1, <1>c DEF StopAtTop, FinishOnWallClock, Suspend, PerTurnStop, PauseLands,
                      GiveUp, Driving, Runs, Resumes
  <2>2. \E to \in State : TransitionOp(w, to, "exit", "throw")
    BY <1>1 DEF StopAtTop, FinishOnWallClock, Suspend, PerTurnStop, PauseLands,
                GiveUp, State
  <2> QED BY <2>1, <2>2, TransitionMoves
<1>2. CASE CloseCancelled(w) \/ BoundaryCancelling(w) \/ Requeue(w)
  BY <1>2, <1>c, TransitionMoves DEF CloseCancelled, BoundaryCancelling, Requeue, Runs
<1>3. CASE Throw(w)
  BY <1>3, <1>c, <1>s, TransitionMoves DEF Throw, Runs
<1>4. CASE Begin(w)
  <2>1. op.state = "queued"
    BY <1>4 DEF Begin, Runs, Before, Workers, WorkerInv, StateAt
  <2> QED BY <1>4, <2>1, BeginRuns DEF Moves, Legal, Transitions
<1>5. CASE Reconcile(w)
  BY <1>5, <1>s, ProjectionMoves DEF Reconcile
<1>6. CASE Project(w)
  BY <1>6, <1>s, ProjectionMoves DEF Project
<1>7. CASE AdapterRetries(w) \/ AdapterExhausted(w)
  BY <1>7, AdapterRetriesKeeps, AdapterExhaustedKeeps DEF Moves
<1>8. CASE ClearSignal(w)
  BY <1>8, ClearSignalKeeps DEF Moves
<1>9. CASE BoundaryPause(w)
  <2>1. op' = [Snapshot(w) EXCEPT !.pause = FALSE] /\ Agrees(w) /\ op \in Row
    BY <1>9, <1>c DEF BoundaryPause, Driving, Runs, Before, Shapes
  <2> QED BY <2>1 DEF Moves, Snapshot, Agrees, Row
<1>10. CASE Acquire(w) \/ Exit(w)
  <2>1. op'.state = op.state /\ op'.attempts = op.attempts
    BY <1>10 DEF Acquire, Exit, Released, Before, Shapes, Row
  <2> QED BY <2>1 DEF Moves
<1>11. CASE \/ EnterDrive(w) \/ Refresh(w) \/ BeginTurn(w) \/ TurnEnds(w) \/ Commit(w)
            \/ LeaveLost(w) \/ AwaitAbort(w) \/ AwaitFailover(w) \/ LeaveDone(w)
  BY <1>11, <1>s DEF EnterDrive, Refresh, BeginTurn, TurnEnds, Commit, LeaveLost,
                     AwaitAbort, AwaitFailover, LeaveDone
<1>12. CASE \/ BoundaryCancel(w) \/ NextTurn(w) \/ Rearm(w) \/ FinalizeCancel(w)
            \/ BoundaryAborted(w) \/ Settle(w) \/ FailoverDeclined(w)
  BY <1>12, <1>s DEF BoundaryCancel, NextTurn, Rearm, FinalizeCancel, BoundaryAborted,
                     Settle, FailoverDeclined
<1> QED BY <1>1, <1>2, <1>3, <1>4, <1>5, <1>6, <1>7, <1>8, <1>9, <1>10, <1>11,
           <1>12 DEF Drives

\* Its faults.
LEMMA FaltersMove ==
    ASSUME Before, NEW w \in Worker, Falters(w)
    PROVE  Moves
<1>s. op' = op => Moves
  BY DEF Moves
<1>1. CASE FactoryFails(w)
  BY <1>1 DEF FactoryFails, Moves, Legal, Transitions, Before, Shapes, Row
<1>2. CASE FailoverSwitches(w)
  BY <1>2, FailoverSwitchesKeeps DEF Moves
<1>3. CASE \/ AcquireFails(w) \/ TurnThrows(w) \/ ProjectFails(w) \/ ReleaseFails(w)
           \/ HeartbeatGivesUp(w) \/ FailoverFails(w) \/ FenceFails(w)
  BY <1>3, <1>s DEF AcquireFails, TurnThrows, ProjectFails, ReleaseFails,
                    HeartbeatGivesUp, FailoverFails, FenceFails
<1> QED BY <1>1, <1>2, <1>3 DEF Falters

\* The steps of the process.
LEMMA ProcessMovesRow ==
    ASSUME Before, NEW p \in Proc,
           \/ Schedules(p) \/ Answers(p) \/ Calls(p) \/ Recovers(p) \/ Crash(p)
    PROVE  Moves
<1>s. op' = op => Moves
  BY DEF Moves
<1>1. CASE Schedules(p) \/ Crash(p)
  BY <1>1, <1>s DEF Schedules, Launch, PumpCancel, TimerFires, Crash
<1>2. CASE Calls(p)
  BY <1>2, <1>s, RequestsKeep DEF Calls, OpResume, OpCancel, Moves
<1>3. CASE Recovers(p)
  <2>1. CASE RecoverPublished(p)
    <3>1. /\ op.state = "running" /\ op'.state \in {"succeeded", "failed"}
          /\ op'.attempts = op.attempts
      BY <2>1 DEF RecoverPublished, RecoveryMayFinish, StateOf, Before, Shapes, Row
    <3> QED BY <3>1 DEF Moves, Legal, Transitions
  <2>2. CASE RecoverStaleOp(p)
    BY <2>2, RecoverStaleOpKeeps DEF Moves
  <2> QED BY <1>3, <2>1, <2>2 DEF Recovers
<1>4. CASE Answers(p)
  <2>1. CASE ResumeLands(p)
    BY <2>1, ResumeLandsKeeps DEF Moves, Legal, Transitions
  <2>2. CASE \E w \in Worker : DeliverCancel(p, w)
    BY <2>2, DeliverCancelKeeps DEF Moves, Legal, Transitions
  <2>3. CASE WriteCancelSignal(p) \/ ClearSignal(p) \/ CloseCancelled(p)
    BY <2>3, WriteCancelSignalKeeps, ProcessClearKeeps, ProcessCloseKeeps DEF Moves
  <2>4. CASE CancelReturns(p)
    BY <2>4, <1>s DEF CancelReturns
  <2> QED BY <1>4, <2>1, <2>2, <2>3, <2>4 DEF Answers
<1> QED BY <1>1, <1>2, <1>3, <1>4

\* Every step moves the row legally.
LEMMA StepMoves ==
    ASSUME Before, [Next]_vars
    PROVE  Moves
<1>1. CASE UNCHANGED vars \/ LeaseExpires
  BY <1>1 DEF vars, LeaseExpires, Moves
<1>2. ASSUME NEW w \in Worker, Heartbeat(w) PROVE Moves
  BY <1>2, HeartbeatKeeps DEF Moves
<1> QED BY <1>1, <1>2, DrivesMove, FaltersMove, ProcessMovesRow DEF Next

-----------------------------------------------------------------------------
(* What a step does to the turn log *)

\* Nothing a process does touches it.
LEMMA ProcessAppends ==
    ASSUME NEW p \in Proc,
           \/ Schedules(p) \/ Answers(p) \/ Calls(p) \/ Recovers(p) \/ Crash(p)
    PROVE  turns' = turns
<1>1. CASE Schedules(p) \/ Crash(p)
  BY <1>1 DEF Schedules, Launch, PumpCancel, TimerFires, Crash
<1>2. CASE Answers(p)
  BY <1>2 DEF Answers, ResumeLands, WriteCancelSignal, CancelReturns, DeliverCancel,
              ClearSignal, CloseCancelled
<1>3. CASE Calls(p) \/ Recovers(p)
  BY <1>3 DEF Calls, OpPause, ResumeWithdraws, OpResume, OpCancel, Recovers,
              RecoverPublished, RecoverStaleOp
<1> QED BY <1>1, <1>2, <1>3

-----------------------------------------------------------------------------
(* How a step ends the operation *)

\* A running operation whose last turn decided it ends as that turn says, unless
\* a control signal is pending.
EndsAsDecided ==
    /\ op.state = "running" /\ op'.state \in {"succeeded", "failed"}
    /\ Decided' /\ ~op.pause /\ ~op.cancel
    => op'.state = StateOf(turns'[Latest'].outcome)

\* A step that ends nothing, or one taken before any turn decided.
LEMMA EndsNothing ==
    ASSUME \/ op.state # "running" \/ op'.state \notin {"succeeded", "failed"}
           \/ (~Decided /\ turns' = turns)
    PROVE  EndsAsDecided
BY SameTurns DEF EndsAsDecided

\* The steps of a worker.
LEMMA DrivesEnd ==
    ASSUME Before, NEW w \in Worker, Drives(w)
    PROVE  EndsAsDecided
<1>s. op'.state = op.state => EndsAsDecided
  BY EndsNothing
<1>i. WorkerInv(w)
  BY DEF Before, Workers
<1>1. CASE \/ StopAtTop(w) \/ FinishOnWallClock(w) \/ Suspend(w) \/ PerTurnStop(w)
           \/ PauseLands(w) \/ GiveUp(w) \/ Requeue(w)
  <2>1. ~Decided
    BY <1>1, <1>i
       DEF StopAtTop, FinishOnWallClock, Suspend, PerTurnStop, PauseLands,
           GiveUp, Requeue, Driving, Runs, Resumes, WorkerInv, UndecidedAt
  <2>2. turns' = turns
    BY <1>1 DEF StopAtTop, FinishOnWallClock, Suspend, PerTurnStop, PauseLands,
                GiveUp, Requeue
  <2> QED BY <2>1, <2>2, EndsNothing
<1>2. CASE CloseCancelled(w) \/ BoundaryCancelling(w)
  <2>1. \E to \in {"cancelled", "cancelling"}, next, illegal \in Place :
           TransitionOp(w, to, next, illegal)
    BY <1>2, ActorTyped
       DEF CloseCancelled, BoundaryCancelling, Place, Awaiting, Running
  <2>2. pc[w] \in {"close", "cancelling"} => Agrees(w)
    BY <1>i DEF WorkerInv, ClaimAt, CopyAt, Leased
  <2>3. op'.state \in {op.state, "cancelled", "cancelling"}
    BY <2>1, TransitionEffect
  <2> QED BY <1>s, <2>3, EndsNothing
<1>3. CASE Throw(w)
  <2>1. CASE op' = op
    BY <1>s, <2>1
  <2>2. CASE op' # op
    <3>1. run[w].turn \notin Published /\ turns' = turns /\ pc[w] = "throw"
      BY <1>3, <2>2 DEF Throw, Runs
    <3>2. ~Decided
      BY <1>i, <3>1 DEF WorkerInv, UndecidedAt
    <3> QED BY <3>1, <3>2, EndsNothing
  <2> QED BY <2>1, <2>2
<1>4. CASE Begin(w) \/ AdapterRetries(w) \/ AdapterExhausted(w)
  BY <1>4, <1>s, BeginRuns, EndsNothing, AdapterRetriesKeeps, AdapterExhaustedKeeps
<1>5. CASE Reconcile(w)
  <2>1. CASE op' = op
    BY <1>s, <2>1
  <2>2. CASE op' # op
    <3>1. op' = ProjectTo(turns[Latest].outcome) /\ turns' = turns
      BY <1>5, <2>2 DEF Reconcile
    <3>2. CASE turns[Latest].outcome = "continue"
      BY <1>s, <3>1, <3>2 DEF ProjectTo
    <3>3. CASE turns[Latest].outcome # "continue"
      <4>1. op'.state = StateOf(turns[Latest].outcome)
        BY <3>1, <3>3 DEF ProjectTo, Before, Shapes, Row
      <4> QED BY <3>1, <4>1, SameTurns DEF EndsAsDecided
    <3> QED BY <3>2, <3>3
  <2> QED BY <2>1, <2>2
<1>6. CASE Project(w)
  <2>1. CASE op' = op
    BY <1>s, <2>1
  <2>2. CASE op' # op
    <3>1. /\ op' = ProjectTo(turns[run[w].turn].outcome) /\ turns' = turns
          /\ pc[w] = "project"
      BY <1>6, <2>2 DEF Project, Runs
    <3>2. run[w].turn \in Published /\ \A j \in Published : j <= run[w].turn
      BY <1>i, <3>1 DEF WorkerInv, IndexAt
    <3>3. Latest = run[w].turn
      BY <3>2, LatestIs DEF Before
    <3>4. CASE turns[Latest].outcome = "continue"
      BY <1>s, <3>1, <3>3, <3>4 DEF ProjectTo
    <3>5. CASE turns[Latest].outcome # "continue"
      <4>1. op'.state = StateOf(turns[Latest].outcome)
        BY <3>1, <3>3, <3>5 DEF ProjectTo, Before, Shapes, Row
      <4> QED BY <3>1, <4>1, SameTurns DEF EndsAsDecided
    <3> QED BY <3>4, <3>5
  <2> QED BY <2>1, <2>2
<1>7. CASE ClearSignal(w)
  BY <1>7, <1>s, ClearSignalKeeps
<1>8. CASE BoundaryPause(w)
  <2>1. op'.state = op.state
    BY <1>8 DEF BoundaryPause, Snapshot, Before, Shapes, Row
  <2> QED BY <1>s, <2>1
<1>9. CASE Acquire(w) \/ Exit(w)
  <2>1. op'.state = op.state
    BY <1>9 DEF Acquire, Exit, Released, Before, Shapes, Row
  <2> QED BY <1>s, <2>1
<1>10. CASE \/ EnterDrive(w) \/ Refresh(w) \/ BeginTurn(w) \/ TurnEnds(w) \/ Commit(w)
            \/ LeaveLost(w) \/ AwaitAbort(w) \/ AwaitFailover(w) \/ LeaveDone(w)
  BY <1>10, <1>s DEF EnterDrive, Refresh, BeginTurn, TurnEnds, Commit, LeaveLost,
                     AwaitAbort, AwaitFailover, LeaveDone
<1>11. CASE \/ BoundaryCancel(w) \/ NextTurn(w) \/ Rearm(w) \/ FinalizeCancel(w)
            \/ BoundaryAborted(w) \/ Settle(w) \/ FailoverDeclined(w)
  BY <1>11, <1>s DEF BoundaryCancel, NextTurn, Rearm, FinalizeCancel, BoundaryAborted,
                     Settle, FailoverDeclined
<1> QED BY <1>1, <1>2, <1>3, <1>4, <1>5, <1>6, <1>7, <1>8, <1>9, <1>10, <1>11
        DEF Drives

\* Its faults.
LEMMA FaltersEnd ==
    ASSUME Before, NEW w \in Worker, Falters(w)
    PROVE  EndsAsDecided
<1>s. op' = op => EndsAsDecided
  BY EndsNothing
<1>1. CASE FactoryFails(w)
  <2>1. op.state # "running"
    BY <1>1 DEF FactoryFails, Resumes, Before, Workers, WorkerInv, StateAt, Entering
  <2> QED BY <2>1, EndsNothing
<1>2. CASE FailoverSwitches(w)
  BY <1>2, FailoverSwitchesKeeps, EndsNothing
<1>3. CASE \/ AcquireFails(w) \/ TurnThrows(w) \/ ProjectFails(w) \/ ReleaseFails(w)
           \/ HeartbeatGivesUp(w) \/ FailoverFails(w) \/ FenceFails(w)
  BY <1>3, <1>s DEF AcquireFails, TurnThrows, ProjectFails, ReleaseFails,
                    HeartbeatGivesUp, FailoverFails, FenceFails
<1> QED BY <1>1, <1>2, <1>3 DEF Falters

\* The steps of the process: recovery asks the log before it fails an operation.
LEMMA ProcessEnds ==
    ASSUME Before, NEW p \in Proc,
           \/ Schedules(p) \/ Answers(p) \/ Calls(p) \/ Recovers(p) \/ Crash(p)
    PROVE  EndsAsDecided
<1>s. op'.state = op.state => EndsAsDecided
  BY EndsNothing
<1>t. turns' = turns
  BY ProcessAppends
<1>1. CASE Schedules(p) \/ Crash(p)
  BY <1>1, <1>s DEF Schedules, Launch, PumpCancel, TimerFires, Crash
<1>2. CASE Calls(p)
  BY <1>2, <1>s, RequestsKeep DEF Calls, OpResume, OpCancel
<1>3. CASE Recovers(p)
  <2>1. CASE RecoverPublished(p)
    <3>1. op'.state = StateOf(turns[Latest].outcome)
      BY <2>1 DEF RecoverPublished, Before, Shapes, Row
    <3> QED BY <1>t, <3>1, SameTurns DEF EndsAsDecided
  <2>2. CASE RecoverStaleOp(p)
    <3>1. ~RecoveryMayFinish
      BY <2>2 DEF RecoverStaleOp, Stale
    <3> QED BY <1>t, <3>1, SameTurns DEF EndsAsDecided, RecoveryMayFinish
  <2> QED BY <1>3, <2>1, <2>2 DEF Recovers
<1>4. CASE Answers(p)
  <2>1. CASE ResumeLands(p)
    BY <2>1, ResumeLandsKeeps, EndsNothing
  <2>2. CASE \E w \in Worker : DeliverCancel(p, w)
    BY <2>2, <1>s, DeliverCancelKeeps, EndsNothing
  <2>3. CASE WriteCancelSignal(p) \/ ClearSignal(p)
    BY <2>3, <1>s, WriteCancelSignalKeeps, ProcessClearKeeps
  <2>4. CASE CloseCancelled(p)
    BY <2>4, <1>s, ProcessCloseKeeps, EndsNothing
  <2>5. CASE CancelReturns(p)
    BY <2>5, <1>s DEF CancelReturns
  <2> QED BY <1>4, <2>1, <2>2, <2>3, <2>4, <2>5 DEF Answers
<1> QED BY <1>1, <1>2, <1>3, <1>4

\* Every step ends the operation as its turns decided.
LEMMA StepEnds ==
    ASSUME Before, [Next]_vars
    PROVE  EndsAsDecided
<1>1. CASE UNCHANGED vars \/ LeaseExpires
  BY <1>1, EndsNothing DEF vars, LeaseExpires
<1>2. ASSUME NEW w \in Worker, Heartbeat(w) PROVE EndsAsDecided
  BY <1>2, HeartbeatKeeps, EndsNothing
<1> QED BY <1>1, <1>2, DrivesEnd, FaltersEnd, ProcessEnds DEF Next

-----------------------------------------------------------------------------
(* The theorems *)

\* The invariant every theorem below rests on, for one server process whose
\* workers keep their leases: who holds the lease, whose copy of the row can be
\* trusted, and what the turn log says of a worker that goes on.
THEOREM OneProcessInvariance ==
    ASSUME OneProcess, NoGivingUp
    PROVE  Spec => []Before
<1>1. Init => Blocks /\ Workers /\ Procs
  BY BlocksInit, StartsOff
<1>2. IInv /\ IInv' /\ Blocks /\ Workers /\ Procs /\ [Next]_vars
      => Blocks' /\ Workers' /\ Procs'
  <2>1. IInv /\ Blocks /\ Workers /\ Procs => Before
    BY DEF IInv, TypeOK, TurnInv, Before
  <2> QED BY <2>1, BlocksNext, StepKeeps DEF IInv, TypeOK
<1>3. IInv /\ Blocks /\ Workers /\ Procs => Before
  BY DEF IInv, TypeOK, TurnInv, Before
<1> QED BY <1>1, <1>2, <1>3, Invariance, PTL DEF Spec

\* No double launch: the worker with a claim is the one in flight, and its
\* scheduler has nothing queued behind it.
THEOREM OneWorkerInFlight ==
    ASSUME OneProcess, NoGivingUp
    PROVE  Spec => []OneWorkerPerOp
<1>1. Before => OneWorkerPerOp
  BY ActorTyped
     DEF Before, Workers, Procs, WorkerInv, ProcInv, LeaseAt, QueueAt,
         OneWorkerPerOp, Holds, Active
<1> QED BY <1>1, OneProcessInvariance, PTL

\* The transition to running outside the try never fails: drive() never rejects
\* with its lease held and its heartbeat armed.
THEOREM NoLeaseLeaks ==
    ASSUME OneProcess, NoGivingUp
    PROVE  Spec => []NoLeakedLease
<1>1. Before => NoLeakedLease
  BY DEF Before, Workers, WorkerInv, ClaimAt, NoLeakedLease
<1> QED BY <1>1, OneProcessInvariance, PTL

\* The state of the row only moves along the transition table: whoever writes it
\* back whole read it in the same block, or holds the lease that keeps the others
\* from writing.
THEOREM MovesAreLegal ==
    ASSUME OneProcess, NoGivingUp
    PROVE  Spec => OnlyLegalMoves
<1>1. Before /\ [Next]_vars => [op'.state # op.state => Legal(op.state, op'.state)]_vars
  BY StepMoves DEF Moves
<1> QED BY <1>1, OneProcessInvariance, PTL DEF Spec, OnlyLegalMoves

\* No stale copy gives attempts back: the recovery budget is spent for good.
THEOREM AttemptsGrow ==
    ASSUME OneProcess, NoGivingUp
    PROVE  Spec => AttemptsNeverRefunded
<1>1. Before /\ [Next]_vars => [op'.attempts >= op.attempts]_vars
  <2>1. Before => op.attempts \in Nat
    BY ConstantsAssumption DEF Before, Shapes, Row
  <2> QED BY <2>1, StepMoves DEF Moves
<1> QED BY <1>1, OneProcessInvariance, PTL DEF Spec, AttemptsNeverRefunded

\* A running operation ends as its last published turn decided, whether its
\* worker, its replacement or recovery ends it, unless a control signal is
\* pending when it ends.
THEOREM EndsAsPublished ==
    ASSUME OneProcess, NoGivingUp
    PROVE  Spec => PublishedOutcomeStands
<1>1. Before /\ [Next]_vars
      => [/\ op.state = "running" /\ op'.state \in {"succeeded", "failed"}
          /\ Decided' /\ ~op.pause /\ ~op.cancel
          => op'.state = StateOf(turns'[Latest'].outcome)]_vars
  BY StepEnds DEF EndsAsDecided
<1> QED BY <1>1, OneProcessInvariance, PTL DEF Spec, PublishedOutcomeStands

-----------------------------------------------------------------------------
(* A process that does not crash: what becomes of a cancel *)

\* The process outlives the operation.
NoCrash == "crash" \notin Disturbance

\* A worker goes through a running operation, or through the abort of one.
RunsOn(w) == op.state = "running" /\ run[w].tracker = "on"
Aborts(w) ==
    /\ op.state = "cancelling" /\ run[w].tracker = "cancelled"
    /\ run[w].turn \notin Published

\* Only an await lets a cancel in, and the tracker turns it into an abort there
\* and then: inside a block the operation is running or being aborted for good,
\* and the turn boundary never finds a signal.
PlaceAt(w) ==
    /\ pc[w] \in {"acquire", "refresh", "begin"} => ~op.cancel
    /\ pc[w] \in {"reconcile", "top", "commit", "project", "pausing"} => RunsOn(w)
    /\ pc[w] \in {"turn", "failover", "retry", "requeue", "giveup", "throw"}
       => RunsOn(w) \/ Aborts(w)
    /\ pc[w] \in {"failover", "retry", "requeue", "giveup"}
       => run[w].turn \notin Published
    /\ pc[w] = "after" =>
          \/ RunsOn(w) \/ Aborts(w)
          \/ /\ run[w].tracker = "on" /\ run[w].result \in {"done", "error"}
             /\ op.state \in Terminal
    /\ pc[w] = "after" /\ run[w].result = "retry" => run[w].turn \notin Published
    /\ pc[w] = "abort" => Aborts(w)
    /\ pc[w] \notin {"cancelling", "boundary"} /\ run[w].result # "boundary"
    /\ Holds(w) /\ pc[w] \in {"clear", "close"} =>
          op.state = "cancelling" /\ run[w].tracker = "cancelled"
    /\ Holds(w) /\ pc[w] \in {"rearm", "exit", "settle"} => op.state # "cancelling"
\* A signal on a running operation is being delivered.
HeardAt(w) ==
    Holds(w) /\ op.state = "running" /\ op.cancel => pc[Home[w]] = "deliver"

\* A control call asks for what can still be cancelled, and a paused operation
\* with a signal is the one it is cancelling.
AskedAt(p) ==
    /\ pc[p] = "signal" => op.state \notin Terminal \cup {"cancelling"}
    /\ pc[p] = "deliver" => op.cancel
    /\ pc[p] \in {"signal", "deliver"} /\ op.state = "paused"
       => mem[p].state = "paused"
    /\ op.state = "paused" /\ op.cancel => pc[p] \in {"deliver", "clear"}

\* Whoever clears a signal has one to clear, and closes what can be closed.
ClosingAt(a) ==
    /\ pc[a] = "clear" => ~mem[a].cancel /\ (op.cancel \/ op.state = "cancelling")
    /\ pc[a] = "close" => ~op.cancel
    /\ pc[a] \in {"clear", "close"} => op.state \in {"queued", "paused", "cancelling"}

\* A cancelling operation has a worker that is aborting it.
Attended ==
    op.state = "cancelling" =>
        \E w \in Worker : run[w].armed /\ run[w].tracker = "cancelled"

Course == \A w \in Worker : PlaceAt(w) /\ HeardAt(w)
Asked == \A p \in Proc : AskedAt(p)
Closing == \A a \in Actor : ClosingAt(a)
Calm == Course /\ Asked /\ Closing /\ Attended
Calmly == NoCrash /\ Before /\ Calm

\* A step of the lifecycle, or none.
LifeStep == [Lifecycle!Next]_(Lifecycle!vars)

\* The state and the pending cancel are what they were.
LEMMA LifeKept ==
    ASSUME op'.state = op.state, PendingCancel' <=> PendingCancel
    PROVE  LifeStep
BY DEF LifeStep, Lifecycle!vars, PendingCancel

\* The moves of the lifecycle that leave a pending cancel pending.
LEMMA LifeMoves ==
    ASSUME PendingCancel' <=> PendingCancel,
           \/ op.state = "queued" /\ op'.state \in {"running", "failed"}
           \/ op.state = "running" /\ op'.state \in {"queued", "failed"}
           \/ op.state = "paused" /\ op'.state = "queued"
           \/ /\ op.state = "running" /\ op'.state \in {"paused", "succeeded"}
              /\ ~PendingCancel
           \/ op.state = "running" /\ op'.state = "cancelling" /\ PendingCancel
    PROVE  LifeStep
BY DEF LifeStep, Lifecycle!Next, Lifecycle!Start, Lifecycle!Requeue,
       Lifecycle!Park, Lifecycle!Succeed, Lifecycle!Fail, Lifecycle!Move,
       Lifecycle!Abort, PendingCancel

\* A request for a cancel, the first or a repeated one.
LEMMA LifeRequests ==
    ASSUME op'.state = op.state, op.state \notin Terminal \cup {"cancelling"},
           PendingCancel'
    PROVE  LifeStep
BY DEF LifeStep, Lifecycle!Next, Lifecycle!Request, Lifecycle!Terminal,
       Lifecycle!vars, Terminal, PendingCancel

\* A cancel is carried out.
LEMMA LifeCancelled ==
    ASSUME op.state \in {"queued", "paused", "cancelling"}, PendingCancel,
           op'.state = "cancelled", ~PendingCancel'
    PROVE  LifeStep
BY DEF LifeStep, Lifecycle!Next, Lifecycle!Cancelled, PendingCancel

\* While an actor has its process to itself, a cancel is pending on the row or
\* in its own hands.
LEMMA PendingHere ==
    ASSUME Calmly, NEW a \in Actor, cpu[HomeOf(a)] \in {a, None}
    PROVE  PendingCancel <=> (op.cancel \/ op.state = "cancelling" \/ pc[a] = "close")
<1>1. \A b \in Actor \ {a} : pc[b] \notin {"close", "cancelling"}
  BY Alone DEF Calmly, Before, Running
<1>2. pc[a] # "cancelling"
  BY DEF Calmly, Calm, Course, PlaceAt, Before, Blocks, ProcPlace, Actor
<1> QED BY <1>1, <1>2 DEF PendingCancel

\* And after it has gone where it goes.
LEMMA PendingThere ==
    ASSUME Calmly, NEW a \in Actor, cpu[HomeOf(a)] \in {a, None},
           (\E there : Goto(a, there)) \/ UNCHANGED pc,
           pc'[a] # "cancelling"
    PROVE  PendingCancel' <=> (op'.cancel \/ op'.state = "cancelling" \/ pc'[a] = "close")
<1>1. \A b \in Actor \ {a} : pc[b] \notin {"close", "cancelling"}
  BY Alone DEF Calmly, Before, Running
<1>2. \A b \in Actor \ {a} : pc'[b] = pc[b]
  BY GotoStands DEF Calmly, Before
<1> QED BY <1>1, <1>2 DEF PendingCancel

-----------------------------------------------------------------------------
(* Steps that leave the signal alone *)

\* A worker that holds nothing and is not inside a block.
Idles(w) ==
    ~Holds(w) /\ pc[w] \in {"idle", "starting", "rearm", "settle"}
    /\ run[w].result # "boundary"

\* The calm invariant asks nothing more of it.
LEMMA IdleCourse ==
    ASSUME NEW w \in Worker, Idles(w)'
    PROVE  PlaceAt(w)' /\ HeardAt(w)' /\ ClosingAt(w)'
BY DEF Idles, PlaceAt, HeardAt, ClosingAt, Holds

\* A worker that is off holds nothing.
LEMMA OffIdles ==
    ASSUME NEW w \in Worker, Off(w)'
    PROVE  Idles(w)'
BY DEF Off, Idles, Holds

\* Nobody is in flight and the process stands idle.
LEMMA CalmOff ==
    ASSUME \A w \in Worker : Idles(w)', \A p \in Proc : pc'[p] = "idle",
           op'.state # "cancelling", ~(op'.state = "paused" /\ op'.cancel)
    PROVE  Calm'
BY IdleCourse DEF Calm, Course, Asked, AskedAt, Closing, ClosingAt, Attended, Actor

\* Nobody moves, and the row keeps its state and its signal.
LEMMA CalmStays ==
    ASSUME Calmly, UNCHANGED <<pc, run, mem, turns>>,
           op'.state = op.state, op'.cancel = op.cancel
    PROVE  Calm' /\ LifeStep
<1>1. Published' = Published
  BY DEF Published
<1>2. Calm'
  BY <1>1
     DEF Calmly, Calm, Course, PlaceAt, HeardAt, RunsOn, Aborts, Asked, AskedAt,
         Closing, ClosingAt, Attended, Holds
<1>3. PendingCancel' <=> PendingCancel
  BY DEF PendingCancel
<1> QED BY <1>2, <1>3, LifeKept

\* The effects a worker can have on the life of the operation in a block of its
\* own, short of a cancel.
Lives ==
    /\ op'.cancel = op.cancel
    /\ \/ op'.state = op.state
       \/ op.state = "queued" /\ op'.state \in {"running", "failed"}
       \/ op.state = "running" /\ op'.state \in {"queued", "failed"}
       \/ op.state = "running" /\ op'.state \in {"paused", "succeeded"} /\ ~op.cancel

\* Each of them is a step of the lifecycle.
LEMMA LivesOn ==
    ASSUME Calmly, NEW w \in Worker, WorkerGoes(w), Lives,
           pc[w] # "close", pc'[w] \notin {"close", "cancelling"}
    PROVE  LifeStep /\ ~(op'.state = "paused" /\ op'.cancel)
<1>1. w \in Actor /\ HomeOf(w) = Home[w] /\ Home[w] \in Proc
  BY ActorTyped
<1>2. PendingCancel <=> (op.cancel \/ op.state = "cancelling")
  BY <1>1, PendingHere DEF WorkerGoes
<1>3. PendingCancel' <=> (op'.cancel \/ op'.state = "cancelling")
  BY <1>1, PendingThere DEF WorkerGoes
<1>4. LifeStep
  BY <1>2, <1>3, LifeKept, LifeMoves DEF Lives
<1>5. pc[Home[w]] = "idle"
  BY <1>1, ProcessIdle DEF Calmly
<1>6. ~(op.state = "paused" /\ op.cancel)
  BY <1>1, <1>5 DEF Calmly, Calm, Asked, AskedAt
<1> QED BY <1>4, <1>6 DEF Lives

\* The worker in flight takes a step.
LEMMA CalmFlight ==
    ASSUME Calmly, NEW w \in Worker, WorkerGoes(w), Active(w),
           \A v \in Worker \ {w} : run'[v] = run[v],
           PlaceAt(w)', ClosingAt(w)', ~(op'.state = "running" /\ op'.cancel),
           ~(op'.state = "paused" /\ op'.cancel),
           op'.state = "cancelling" => run'[w].armed /\ run'[w].tracker = "cancelled"
    PROVE  Calm'
<1>0. Before /\ w \in Actor /\ Shapes
  BY ActorTyped DEF Calmly, Before
<1>1. ASSUME NEW v \in Worker, v # w PROVE PlaceAt(v)' /\ HeardAt(v)' /\ ClosingAt(v)'
  <2>1. ~Active(v) /\ v \in Actor
    BY <1>0, <1>1, ActorTyped DEF Active, Before, OneProcess
  <2>2. Off(v)
    BY <1>0, <2>1, OthersOff
  <2>3. pc'[v] = pc[v]
    BY <1>0, <1>1, <2>1, GotoStands DEF WorkerGoes
  <2> QED BY <1>1, <2>2, <2>3, StaysOff, OffIdles, IdleCourse
<1>2. HeardAt(w)'
  BY DEF HeardAt
<1>3. \A p \in Proc : pc'[p] = "idle"
  BY <1>0, ProcessIdle
<1>4. Asked'
  BY <1>3 DEF Asked, AskedAt
<1>5. Course' /\ Closing'
  BY <1>1, <1>2, <1>3 DEF Course, Closing, ClosingAt, Actor
<1>6. Attended'
  BY DEF Attended
<1> QED BY <1>4, <1>5, <1>6 DEF Calm

\* Its process does not deliver a signal meanwhile.
LEMMA Unsignalled ==
    ASSUME Calmly, NEW w \in Worker, WorkerGoes(w), Holds(w)
    PROVE  ~(op.state = "running" /\ op.cancel)
<1>1. pc[Home[w]] = "idle"
  BY ProcessIdle, ActorTyped DEF Calmly
<1> QED BY <1>1 DEF Calmly, Calm, Course, HeardAt

\* The common case: a worker with a lease goes on, and neither it nor the row is
\* in the middle of a cancel it would have to close.
LEMMA CalmGoes ==
    ASSUME Calmly, NEW w \in Worker, WorkerGoes(w), Holds(w),
           \A v \in Worker \ {w} : run'[v] = run[v],
           PlaceAt(w)', Lives, pc[w] # "close", pc'[w] \notin {"clear", "close"},
           op'.state = "running" => op.state = "running",
           op'.state = "cancelling" => run'[w].armed /\ run'[w].tracker = "cancelled"
    PROVE  Calm' /\ LifeStep
<1>1. Active(w)
  BY DEF Calmly, Before, Workers, WorkerInv, LeaseAt
<1>2. pc'[w] # "cancelling" /\ ClosingAt(w)'
  BY DEF PlaceAt, ClosingAt
<1>3. ~(op'.state = "running" /\ op'.cancel)
  BY Unsignalled DEF Lives
<1> QED BY <1>1, <1>2, <1>3, LivesOn, CalmFlight

\* A worker steps aside, off, and the row stays as it was.
LEMMA CalmAside ==
    ASSUME Calmly, NEW w \in Worker, WorkerGoes(w), Off(w)', ~run[w].armed,
           \A v \in Worker \ {w} : run'[v] = run[v] /\ mem'[v] = mem[v],
           turns' = turns, op'.state = op.state, op'.cancel = op.cancel,
           pc[w] # "close"
    PROVE  Calm' /\ LifeStep
<1>0. Before /\ w \in Actor /\ Shapes /\ pc'[w] \notin {"close", "cancelling"}
  BY ActorTyped DEF Calmly, Before, Off
<1>1. /\ \A p \in Proc : pc[p] = "idle" /\ pc'[p] = "idle"
      /\ \A v \in Worker \ {w} : pc'[v] = pc[v]
  BY <1>0, ProcessIdle, ActorTyped, GotoStands DEF WorkerGoes
<1>2. Published' = Published
  BY DEF Published
<1>3. ASSUME NEW v \in Worker PROVE PlaceAt(v)' /\ HeardAt(v)' /\ ClosingAt(v)'
  <2>1. CASE v = w
    BY <2>1, OffIdles, IdleCourse
  <2>2. CASE v # w
    <3>1. /\ PlaceAt(v) /\ HeardAt(v) /\ ClosingAt(v)
          /\ pc[Home[v]] = "idle" /\ pc'[v] = pc[v]
      BY <1>1, <2>2, ActorTyped DEF Calmly, Calm, Course, Closing
    <3>2. run'[v] = run[v] /\ mem'[v] = mem[v]
      BY <2>2
    <3>3. HeardAt(v)'
      BY <3>1, <3>2 DEF HeardAt, Holds
    <3>4. PlaceAt(v)' /\ ClosingAt(v)'
      BY <1>2, <3>1, <3>2 DEF PlaceAt, ClosingAt, RunsOn, Aborts, Holds
    <3> QED BY <3>3, <3>4
  <2> QED BY <2>1, <2>2
<1>4. Lives
  BY DEF Lives
<1>5. LifeStep /\ ~(op'.state = "paused" /\ op'.cancel)
  BY <1>0, <1>4, LivesOn
<1>6. Asked' /\ Course' /\ Closing'
  BY <1>1, <1>3, <1>5 DEF Asked, AskedAt, Course, Closing, ClosingAt, Actor
<1>7. Attended'
  BY DEF Calmly, Calm, Attended
<1> QED BY <1>5, <1>6, <1>7 DEF Calm

-----------------------------------------------------------------------------
(* The worker's own steps *)

\* What a worker with a lease knows of the operation where it stands.
LEMMA Standing ==
    ASSUME Calmly, NEW w \in Worker
    PROVE  /\ Before /\ Shapes /\ PlaceAt(w) /\ ClosingAt(w) /\ WorkerInv(w)
           /\ w \in Actor /\ HomeOf(w) = Home[w]
           /\ pc[w] \in Leased \cup {"refresh"} => Holds(w)
           /\ Holds(w) => Active(w) /\ (Owns(w) \/ pc[w] = "settle")
           /\ (Holds(w) /\ pc[w] \notin {"refresh", "settle"}) => Agrees(w) /\ run[w].armed
           /\ Drives(w) => WorkerGoes(w)
           /\ Falters(w) => WorkerGoes(w)
<1>1. WorkerInv(w) /\ PlaceAt(w) /\ ClosingAt(w) /\ w \in Actor
  BY ActorTyped DEF Calmly, Before, Workers, Calm, Course, Closing
<1>2. Falters(w) => WorkerGoes(w)
  BY FaltersGo DEF Calmly, Before, NoGivingUp, HeartbeatGivesUp, Disturb
<1> QED BY <1>1, <1>2, DrivesGo, ActorTyped
    DEF Calmly, Before, WorkerInv, ClaimAt, LeaseAt, CopyAt

\* A worker that only moves, in a block or into an await.
LEMMA CalmMoves ==
    ASSUME Calmly, NEW w \in Worker, WorkerGoes(w), Holds(w), pc[w] \notin {"close", "refresh", "settle"},
           UNCHANGED <<op, run>>, PlaceAt(w)', pc'[w] \notin {"clear", "close"}
    PROVE  Calm' /\ LifeStep
<1>1. Active(w)
  BY Standing DEF Calmly, Before, Workers, WorkerInv, LeaseAt
<1>2. op.state = "cancelling" => run[w].armed /\ run[w].tracker = "cancelled"
  <2>1. SUFFICES ASSUME op.state = "cancelling"
                 PROVE  run[w].armed /\ run[w].tracker = "cancelled"
    OBVIOUS
  <2>2. PICK v \in Worker : run[v].armed /\ run[v].tracker = "cancelled"
    BY <2>1 DEF Calmly, Calm, Attended
  <2>3. v = w
    <3>1. Holds(v) /\ Active(v)
      BY <2>2 DEF Calmly, Before, Workers, WorkerInv, LeaseAt
    <3> QED BY <1>1, <3>1, ActorTyped DEF Active, Calmly, Before, OneProcess
  <2> QED BY <2>2, <2>3
<1> QED BY <1>2, CalmGoes DEF Lives

\* From its slot to its lease.
LEMMA CalmEnterDrive ==
    ASSUME Calmly, NEW w \in Worker, EnterDrive(w)
    PROVE  Calm' /\ LifeStep
<1>1. /\ pc[w] = "starting" /\ UNCHANGED <<op, run, sched>>
      /\ WorkerGoes(w) /\ w \in Actor /\ Shapes /\ op \in Row /\ mem \in [Actor -> Row]
      /\ WorkerInv(w) /\ PlaceAt(w) /\ Before
  BY Standing DEF EnterDrive, Resumes, Drives, Shapes
<1>2. ~Holds(w) /\ Active(w) /\ op.state = "queued"
  BY <1>1 DEF WorkerInv, ClaimAt, LeaseAt, StateAt, Entering
<1>3. \/ /\ op.cancel /\ mem'[w] = [Snapshot(w) EXCEPT !.cancel = FALSE]
         /\ pc'[w] = "clear"
      \/ ~op.cancel /\ pc'[w] = "acquire"
  BY <1>1, GotoStands DEF EnterDrive
<1>4. PlaceAt(w)'
  BY <1>1, <1>2, <1>3 DEF PlaceAt, Holds
<1>5. ClosingAt(w)'
  <2>1. pc'[w] = "clear" => ~mem'[w].cancel
    BY <1>1, <1>3 DEF Snapshot, Row
  <2> QED BY <1>1, <1>2, <1>3, <2>1 DEF ClosingAt
<1>6. LifeStep
  BY <1>1, <1>3, LivesOn DEF Lives
<1> QED BY <1>1, <1>2, <1>4, <1>5, <1>6, CalmFlight

\* The lease is free, or it is not.
LEMMA CalmAcquire ==
    ASSUME Calmly, NEW w \in Worker, Acquire(w)
    PROVE  Calm' /\ LifeStep
<1>1. /\ pc[w] = "acquire" /\ UNCHANGED <<mem, sched, turns>>
      /\ WorkerGoes(w) /\ w \in Actor /\ Shapes /\ op \in Row
      /\ run \in [Worker -> Drive] /\ run[w] \in Drive
      /\ WorkerInv(w) /\ PlaceAt(w) /\ Before
  BY Standing DEF Acquire, Runs, Drives, Shapes
<1>2. ~Holds(w) /\ Active(w) /\ op.state = "queued" /\ ~op.cancel
      /\ run[w].result # "boundary"
  BY <1>1 DEF WorkerInv, ClaimAt, LeaseAt, StateAt, Entering, PlaceAt
<1>3. /\ op'.state = op.state /\ op'.cancel = op.cancel
      /\ pc'[w] \in {"settle", "refresh"}
      /\ \A v \in Worker \ {w} : run'[v] = run[v]
      /\ run'[w].result = run[w].result
      /\ pc'[w] = "settle" => run'[w] = run[w]
  <2>1. CASE Goto(w, "settle") /\ UNCHANGED <<op, run>>
    BY <1>1, <2>1, GotoStands
  <2>2. CASE /\ Goto(w, "refresh")
             /\ op' = [op EXCEPT !.owner = w, !.gen = @ + 1]
             /\ run' = [run EXCEPT ![w].claim = op.gen + 1]
    <3>1. pc'[w] = "refresh"
      BY <1>1, <2>2, GotoStands
    <3>2. op'.state = op.state /\ op'.cancel = op.cancel
      BY <1>1, <2>2 DEF Row
    <3>3. /\ \A v \in Worker \ {w} : run'[v] = run[v]
          /\ run'[w].result = run[w].result
      BY <1>1, <2>2 DEF Drive
    <3> QED BY <3>1, <3>2, <3>3
  <2> QED BY <2>1, <2>2 DEF Acquire
<1>4. PlaceAt(w)' /\ ClosingAt(w)'
  BY <1>2, <1>3 DEF PlaceAt, ClosingAt, Holds
<1>5. LifeStep
  BY <1>1, <1>3, LivesOn DEF Lives
<1> QED BY <1>1, <1>2, <1>3, <1>4, <1>5, CalmFlight

\* The row is read again, and no cancel has come in.
LEMMA CalmRefresh ==
    ASSUME Calmly, NEW w \in Worker, Refresh(w)
    PROVE  Calm' /\ LifeStep
<1>1. /\ pc[w] = "refresh" /\ UNCHANGED <<op, turns>>
      /\ pc'[w] = "begin"
      /\ run' = [run EXCEPT ![w].tracker = "on", ![w].armed = TRUE]
      /\ WorkerGoes(w) /\ WorkerInv(w) /\ PlaceAt(w) /\ run \in [Worker -> Drive]
      /\ run[w] \in Drive
  BY Standing, GotoStands DEF Refresh, Runs, Drives, Shapes
<1>2. Holds(w) /\ op.state = "queued" /\ ~op.cancel /\ run[w].result # "boundary"
  BY <1>1 DEF WorkerInv, ClaimAt, StateAt, PlaceAt
<1>3. run'[w].result = run[w].result /\ \A v \in Worker \ {w} : run'[v] = run[v]
  BY <1>1 DEF Drive
<1>4. PlaceAt(w)'
  BY <1>1, <1>2, <1>3 DEF PlaceAt
<1> QED BY <1>1, <1>2, <1>3, <1>4, CalmGoes DEF Lives

\* The operation runs.
LEMMA CalmBegin ==
    ASSUME Calmly, NEW w \in Worker, Begin(w)
    PROVE  Calm' /\ LifeStep
<1>1. /\ pc[w] = "begin" /\ WorkerGoes(w) /\ WorkerInv(w) /\ PlaceAt(w) /\ w \in Actor
      /\ Holds(w) /\ Active(w) /\ Before /\ Shapes
      /\ TransitionOp(w, "running", "reconcile", "leaked")
  BY Standing DEF Begin, Runs, Drives, Leased
<1>2. op.state = "queued" /\ ~op.cancel /\ run[w].result # "boundary"
      /\ run[w].tracker = "on"
  BY <1>1 DEF WorkerInv, StateAt, PlaceAt
<1>3. /\ pc'[w] = "reconcile" /\ op'.state = "running" /\ run' = run
      /\ op'.cancel = op.cancel
  BY <1>1, BeginRuns, TransitionKeeps
<1>4. PlaceAt(w)' /\ ClosingAt(w)'
  BY <1>2, <1>3 DEF PlaceAt, ClosingAt, RunsOn
<1>5. LifeStep
  BY <1>1, <1>2, <1>3, LivesOn DEF Lives
<1> QED BY <1>1, <1>2, <1>3, <1>4, <1>5, CalmFlight

\* A projection either goes on or ends a running operation.
LEMMA CalmProjection ==
    ASSUME Calmly, NEW w \in Worker, WorkerGoes(w), Holds(w), RunsOn(w), ~op.cancel,
           NEW outcome \in Outcome, op' = ProjectTo(outcome)
    PROVE  /\ Lives
           /\ outcome = "continue" => op' = op
           /\ outcome # "continue" => op'.state \in {"succeeded", "failed"}
<1>1. op \in Row
  BY DEF Calmly, Before, Shapes
<1> QED BY <1>1 DEF Lives, ProjectTo, StateOf, RunsOn, Row

\* The latest turn is projected again.
LEMMA CalmReconcile ==
    ASSUME Calmly, NEW w \in Worker, Reconcile(w)
    PROVE  Calm' /\ LifeStep
<1>1. /\ pc[w] = "reconcile" /\ UNCHANGED <<turns>>
      /\ WorkerGoes(w) /\ PlaceAt(w) /\ w \in Actor /\ Shapes /\ Before
      /\ Holds(w) /\ Owns(w)
      /\ run \in [Worker -> Drive] /\ run[w] \in Drive
  BY Standing DEF Reconcile, Runs, Drives, Shapes, Leased
<1>2. RunsOn(w) /\ ~op.cancel /\ run[w].result # "boundary"
  BY <1>1, Unsignalled DEF PlaceAt, RunsOn
<1>3. Latest # 0 => turns[Latest].outcome \in Outcome
  BY <1>1, LatestTyped DEF Published, Shapes, Artifact
<1>4. Latest # 0 => Projectable(turns[Latest].outcome)
  BY <1>2, <1>3 DEF Projectable, Legal, Transitions, StateOf, Outcome, RunsOn
<1>5. run' = [run EXCEPT ![w].turn = FirstTurn]
  BY <1>1, <1>4 DEF Reconcile
<1>6. /\ run'[w].result = run[w].result /\ run'[w].tracker = "on"
      /\ \A v \in Worker \ {w} : run'[v] = run[v]
  BY <1>1, <1>2, <1>5 DEF Drive, RunsOn
<1>7. /\ Lives /\ op'.state \in {"running", "succeeded", "failed"}
      /\ pc'[w] = IF op'.state \in Terminal THEN "exit" ELSE "top"
  <2>1. CASE Latest = 0
    <3>1. op' = op /\ pc'[w] = "top"
      BY <1>1, <2>1, GotoStands DEF Reconcile
    <3> QED BY <1>2, <3>1 DEF Lives, RunsOn, Terminal
  <2>2. CASE Latest # 0
    <3>1. /\ op' = ProjectTo(turns[Latest].outcome)
          /\ pc'[w] = IF op'.state \in Terminal THEN "exit" ELSE "top"
      BY <1>1, <1>4, <2>2, GotoStands DEF Reconcile
    <3>2. /\ Lives
          /\ op' = op \/ op'.state \in {"succeeded", "failed"}
      BY <1>1, <1>2, <1>3, <2>2, <3>1, CalmProjection
    <3> QED BY <1>2, <3>1, <3>2 DEF RunsOn
  <2> QED BY <2>1, <2>2
<1>8. PlaceAt(w)'
  BY <1>2, <1>6, <1>7 DEF PlaceAt, RunsOn, Terminal
<1>9. pc'[w] \notin {"clear", "close"} /\ op'.state # "cancelling"
  BY <1>7
<1> QED BY <1>1, <1>2, <1>6, <1>7, <1>8, <1>9, CalmGoes DEF RunsOn

\* The transitions out of the loop.
LEMMA CalmTransitionsOut ==
    ASSUME Calmly, NEW w \in Worker,
           \/ StopAtTop(w) \/ FinishOnWallClock(w) \/ Suspend(w) \/ PerTurnStop(w)
           \/ PauseLands(w)
    PROVE  Calm' /\ LifeStep
<1>0. Drives(w)
  BY DEF Drives
<1>1. /\ WorkerGoes(w) /\ PlaceAt(w) /\ w \in Actor /\ Shapes /\ Before
      /\ run' = run /\ pc[w] \in {"top", "after", "pausing"}
      /\ Holds(w) /\ Agrees(w)
  BY <1>0, Standing
     DEF StopAtTop, FinishOnWallClock, Suspend, PerTurnStop, PauseLands,
         Driving, Runs, Leased
<1>2. RunsOn(w) /\ ~op.cancel /\ run[w].result # "boundary"
  <2>1. RunsOn(w) /\ run[w].result # "boundary"
    BY <1>1 DEF StopAtTop, FinishOnWallClock, Suspend, PerTurnStop, PauseLands,
                Driving, Runs, PlaceAt, Aborts
  <2> QED BY <1>1, <2>1, Unsignalled DEF RunsOn
<1>3. PICK to \in {"succeeded", "failed", "paused"} : TransitionOp(w, to, "exit", "throw")
  BY DEF StopAtTop, FinishOnWallClock, Suspend, PerTurnStop, PauseLands
<1>4. Legal(mem[w].state, to)
  BY <1>1, <1>2 DEF Agrees, RunsOn, Legal, Transitions
<1>5. op'.state = to /\ op'.cancel = op.cancel /\ pc'[w] = "exit"
  BY <1>1, <1>3, <1>4, TransitionEffect, TransitionKeeps
<1>6. PlaceAt(w)'
  BY <1>1, <1>2, <1>5 DEF PlaceAt
<1>7. Lives
  BY <1>2, <1>5 DEF Lives, RunsOn
<1> QED BY <1>1, <1>2, <1>5, <1>6, <1>7, CalmGoes DEF RunsOn

\* A turn begins and ends, or throws.
LEMMA CalmTurn ==
    ASSUME Calmly, NEW w \in Worker,
           \/ BeginTurn(w) \/ TurnEnds(w) \/ TurnThrows(w) \/ Commit(w) \/ ProjectFails(w)
    PROVE  Calm' /\ LifeStep
<1>0. Drives(w) \/ Falters(w)
  BY DEF Drives, Falters
<1>1. /\ WorkerGoes(w) /\ PlaceAt(w) /\ WorkerInv(w) /\ w \in Actor /\ Shapes /\ Before
      /\ op' = op /\ pc[w] \in {"top", "turn", "commit", "project"}
      /\ Holds(w) /\ run[w].armed
      /\ run \in [Worker -> Drive] /\ run[w] \in Drive
  BY <1>0, Standing
     DEF BeginTurn, TurnEnds, TurnThrows, Commit, ProjectFails, Runs, Resumes,
         Leased, Shapes
<1>2. (RunsOn(w) \/ Aborts(w)) /\ run[w].result # "boundary"
  BY <1>1 DEF PlaceAt
<1>3. CASE TurnEnds(w)
  <2>1. /\ pc[w] = "turn" /\ turns' = turns
        /\ \E result \in Outcome \cup {"cancelled", "deadline", "retry", "suspend"} :
              /\ run' = [run EXCEPT ![w].result = result]
              /\ \/ /\ run[w].lost \/ run[w].tracker = "cancelled"
                    /\ result = "cancelled" /\ pc'[w] = "after"
                 \/ /\ run[w].tracker # "cancelled"
                    /\ pc'[w] = IF result \in Outcome THEN "commit" ELSE "after"
    BY <1>1, <1>3, GotoStands DEF TurnEnds, Resumes, Outcome
  <2>2. PICK result \in Outcome \cup {"cancelled", "deadline", "retry", "suspend"} :
              /\ run' = [run EXCEPT ![w].result = result]
              /\ \/ /\ run[w].lost \/ run[w].tracker = "cancelled"
                    /\ result = "cancelled" /\ pc'[w] = "after"
                 \/ /\ run[w].tracker # "cancelled"
                    /\ pc'[w] = IF result \in Outcome THEN "commit" ELSE "after"
    BY <2>1
  <2>3. /\ run'[w].result = result /\ run'[w].tracker = run[w].tracker
        /\ run'[w].turn = run[w].turn /\ run'[w].armed = run[w].armed
        /\ \A v \in Worker \ {w} : run'[v] = run[v]
    BY <1>1, <2>2 DEF Drive
  <2>4. run[w].turn \notin Published /\ ~run[w].lost
    BY <1>1, <2>1 DEF WorkerInv, IndexAt, ClaimAt
  <2>5. PlaceAt(w)'
    BY <1>1, <1>2, <2>1, <2>2, <2>3, <2>4, SameTurns
       DEF PlaceAt, RunsOn, Aborts, Outcome
  <2>6. pc'[w] \notin {"clear", "close"}
    BY <2>2
  <2> QED BY <1>1, <1>2, <2>1, <2>3, <2>5, <2>6, CalmGoes DEF Lives, RunsOn, Aborts
<1>4. CASE ~TurnEnds(w)
  <2>1. /\ run' = run
        /\ \/ pc[w] = "top" /\ pc'[w] = "turn" /\ turns' = turns
           \/ pc[w] = "turn" /\ pc'[w] = "throw" /\ turns' = turns
           \/ pc[w] = "project" /\ pc'[w] = "throw" /\ turns' = turns
           \/ pc[w] = "commit" /\ pc'[w] \in {"project", "exit"}
    BY <1>1, <1>4, GotoStands
       DEF BeginTurn, TurnThrows, Commit, ProjectFails, Runs, Resumes
  <2>2. PlaceAt(w)'
    BY <1>1, <1>2, <2>1, SameTurns DEF PlaceAt, RunsOn, Aborts
  <2>3. pc'[w] \notin {"clear", "close"} /\ pc[w] \notin {"close", "refresh", "settle"}
    BY <1>1, <2>1
  <2> QED BY <1>1, <2>1, <2>2, <2>3, CalmMoves
<1> QED BY <1>3, <1>4

\* The turn just published is projected.
LEMMA CalmProject ==
    ASSUME Calmly, NEW w \in Worker, Project(w)
    PROVE  Calm' /\ LifeStep
<1> DEFINE outcome == turns[run[w].turn].outcome
<1>1. /\ pc[w] = "project" /\ UNCHANGED <<run, turns>>
      /\ WorkerGoes(w) /\ PlaceAt(w) /\ WorkerInv(w) /\ w \in Actor /\ Shapes /\ Before
      /\ Holds(w)
  BY Standing DEF Project, Runs, Drives, Leased
<1>2. RunsOn(w) /\ ~op.cancel /\ run[w].result # "boundary"
  BY <1>1, Unsignalled DEF PlaceAt, RunsOn
<1>3. outcome \in Outcome /\ outcome = run[w].result
  BY <1>1 DEF WorkerInv, IndexAt, Published, Shapes, Artifact
<1>4. Projectable(outcome)
  BY <1>2, <1>3 DEF Projectable, Legal, Transitions, StateOf, Outcome, RunsOn
<1>5. op' = ProjectTo(outcome) /\ pc'[w] = "after"
  BY <1>1, <1>4, GotoStands DEF Project
<1>6. /\ Lives
      /\ outcome = "continue" => op' = op
      /\ outcome # "continue" => op'.state \in {"succeeded", "failed"}
  BY <1>1, <1>2, <1>3, <1>5, CalmProjection
<1>7. PlaceAt(w)'
  BY <1>1, <1>2, <1>3, <1>5, <1>6
     DEF PlaceAt, RunsOn, Outcome, Terminal
<1>8. op'.state \notin {"cancelling"} /\ (op'.state = "running" => op.state = "running")
  BY <1>2, <1>3, <1>6 DEF RunsOn, Outcome
<1> QED BY <1>1, <1>5, <1>6, <1>7, <1>8, CalmGoes

\* The ways out of a turn that write nothing.
LEMMA CalmLeaves ==
    ASSUME Calmly, NEW w \in Worker,
           LeaveLost(w) \/ AwaitAbort(w) \/ AwaitFailover(w) \/ LeaveDone(w)
    PROVE  Calm' /\ LifeStep
<1>0. Drives(w)
  BY DEF Drives
<1>1. /\ WorkerGoes(w) /\ PlaceAt(w) /\ WorkerInv(w) /\ Holds(w) /\ Shapes /\ w \in Actor
      /\ pc[w] = "after" /\ UNCHANGED <<op, run, turns>>
  BY <1>0, Standing
     DEF LeaveLost, AwaitAbort, AwaitFailover, LeaveDone, Driving, Runs, Leased
<1>2. ~run[w].lost
  BY <1>1 DEF WorkerInv, ClaimAt
<1>3. \/ /\ pc'[w] = "abort" /\ run[w].tracker = "cancelled"
      \/ /\ pc'[w] \in {"failover", "retry"} /\ run[w].tracker # "cancelled"
         /\ run[w].result = "retry"
      \/ /\ pc'[w] = "exit" /\ run[w].tracker # "cancelled"
  BY <1>1, <1>2, GotoStands
     DEF LeaveLost, AwaitAbort, AwaitFailover, LeaveDone, Driving
<1>4. PlaceAt(w)'
  BY <1>1, <1>3, SameTurns DEF PlaceAt, RunsOn, Aborts, Terminal
<1> QED BY <1>1, <1>3, <1>4, CalmMoves

\* The turn boundary: no cancel waits for it.
LEMMA CalmBoundary ==
    ASSUME Calmly, NEW w \in Worker,
           BoundaryCancel(w) \/ BoundaryPause(w) \/ NextTurn(w)
    PROVE  Calm' /\ LifeStep
<1>0. Drives(w)
  BY DEF Drives
<1>1. /\ WorkerGoes(w) /\ PlaceAt(w) /\ Holds(w) /\ Shapes /\ w \in Actor
      /\ pc[w] = "after" /\ run[w].tracker # "cancelled" /\ run[w].result = "continue"
      /\ run \in [Worker -> Drive] /\ run[w] \in Drive /\ op \in Row
  BY <1>0, Standing
     DEF BoundaryCancel, BoundaryPause, NextTurn, Driving, Runs, Leased, Shapes
<1>2. RunsOn(w) /\ ~op.cancel
  <2>1. RunsOn(w)
    BY <1>1 DEF PlaceAt, Aborts
  <2> QED BY <1>1, <2>1, Unsignalled DEF RunsOn
<1>3. CASE BoundaryPause(w)
  <2>1. /\ op' = [Snapshot(w) EXCEPT !.pause = FALSE] /\ run' = run
        /\ pc'[w] = "pausing"
    BY <1>1, <1>3, GotoStands DEF BoundaryPause
  <2>2. op'.state = op.state /\ op'.cancel = op.cancel
    BY <1>1, <2>1 DEF Snapshot, Row
  <2>3. PlaceAt(w)'
    BY <1>1, <1>2, <2>1, <2>2 DEF PlaceAt, RunsOn
  <2> QED BY <1>1, <1>2, <2>1, <2>2, <2>3, CalmGoes DEF Lives, RunsOn
<1>4. CASE NextTurn(w)
  <2>1. /\ op' = op /\ pc'[w] = "top"
        /\ run' = [run EXCEPT ![w].turn = @ + 1, ![w].result = "none"]
    BY <1>1, <1>4, GotoStands DEF NextTurn
  <2>2. /\ run'[w].tracker = run[w].tracker /\ run'[w].result = "none"
        /\ \A v \in Worker \ {w} : run'[v] = run[v]
    BY <1>1, <2>1 DEF Drive
  <2>3. PlaceAt(w)'
    BY <1>2, <2>1, <2>2 DEF PlaceAt, RunsOn
  <2> QED BY <1>1, <1>2, <2>1, <2>2, <2>3, CalmGoes DEF Lives, RunsOn
<1> QED BY <1>2, <1>3, <1>4 DEF BoundaryCancel

\* A turn the adapter could not drive is tried elsewhere, retried or given up:
\* until the row moves, the worker goes through it as it was.
LEMMA CalmFailover ==
    ASSUME Calmly, NEW w \in Worker,
           \/ FailoverSwitches(w) \/ FailoverDeclined(w)
           \/ FailoverFails(w) \/ AdapterRetries(w) \/ AdapterExhausted(w)
    PROVE  Calm' /\ LifeStep
<1>0. Drives(w) \/ Falters(w)
  BY DEF Drives, Falters
<1>1. /\ WorkerGoes(w) /\ PlaceAt(w) /\ Holds(w) /\ Shapes /\ w \in Actor /\ Before
      /\ pc[w] \in {"failover", "retry"} /\ UNCHANGED <<run, turns>>
      /\ run[w].armed /\ op \in Row /\ mem \in [Actor -> Row] /\ mem[w] \in Row
  BY <1>0, Standing
     DEF FailoverSwitches, FailoverDeclined, FailoverFails,
         AdapterRetries, AdapterExhausted, Resumes, Runs, Leased, Shapes
<1>2. (RunsOn(w) \/ Aborts(w)) /\ run[w].result # "boundary"
      /\ run[w].turn \notin Published
  BY <1>1 DEF PlaceAt
<1>3. op'.cancel = op.cancel /\ op'.state = op.state
  <2>1. CASE FailoverSwitches(w)
    BY <1>1, <2>1 DEF FailoverSwitches, Row
  <2>2. CASE AdapterRetries(w) \/ AdapterExhausted(w)
    <3>1. PICK copy \in Row : op' = Merge(copy, op)
      <4>1. /\ mem[w] \in Row
            /\ [mem[w] EXCEPT !.attempts = @ + 1] \in Row
        BY <1>1 DEF Row
      <4> QED BY <2>2, <4>1 DEF AdapterRetries, AdapterExhausted, Persist
    <3>2. op'.state = op.state
      BY <1>1, <2>2, AdapterRetriesKeeps, AdapterExhaustedKeeps
    <3> QED BY <1>1, <3>1, <3>2 DEF Merge, Row
  <2>3. CASE FailoverDeclined(w) \/ FailoverFails(w)
    BY <2>3 DEF FailoverDeclined, FailoverFails
  <2> QED BY <2>1, <2>2, <2>3
<1>4. pc'[w] \in {"retry", "requeue", "giveup", "throw"}
  BY <1>1, GotoStands
     DEF FailoverSwitches, FailoverDeclined, FailoverFails,
         AdapterRetries, AdapterExhausted
<1>5. Lives
  BY <1>3 DEF Lives
<1>6. PlaceAt(w)'
  BY <1>1, <1>2, <1>3, <1>4, SameTurns DEF PlaceAt, RunsOn, Aborts
<1>7. /\ op'.state = "running" => op.state = "running"
      /\ op'.state = "cancelling" => run'[w].armed /\ run'[w].tracker = "cancelled"
      /\ pc[w] # "close" /\ pc'[w] \notin {"clear", "close"}
  BY <1>1, <1>2, <1>3, <1>4 DEF Aborts, RunsOn
<1> QED BY <1>1, <1>5, <1>6, <1>7, CalmGoes

\* And then the row moves, unless a cancel was delivered meanwhile.
LEMMA CalmRequeue ==
    ASSUME Calmly, NEW w \in Worker, Requeue(w) \/ GiveUp(w)
    PROVE  Calm' /\ LifeStep
<1>0. Drives(w)
  BY DEF Drives
<1>1. /\ WorkerGoes(w) /\ PlaceAt(w) /\ Holds(w) /\ Shapes /\ w \in Actor /\ Before
      /\ pc[w] \in {"requeue", "giveup"} /\ UNCHANGED <<run, turns>>
      /\ Agrees(w) /\ run[w].armed
  BY <1>0, Standing DEF Requeue, GiveUp, Runs, Leased
<1>2. (RunsOn(w) \/ Aborts(w)) /\ run[w].result # "boundary"
      /\ run[w].turn \notin Published
  BY <1>1 DEF PlaceAt
<1>3. RunsOn(w) => ~op.cancel
  BY <1>1, Unsignalled DEF RunsOn
<1>4. /\ op'.cancel = op.cancel
      /\ \/ /\ RunsOn(w) /\ op'.state = "queued" /\ pc'[w] = "rearm"
         \/ /\ RunsOn(w) /\ op'.state = "failed" /\ pc'[w] = "exit"
         \/ /\ Aborts(w) /\ op'.state = op.state /\ pc'[w] = "throw"
  <2>1. PICK to \in {"queued", "failed"} :
           TransitionOp(w, to, IF to = "queued" THEN "rearm" ELSE "exit", "throw")
    BY DEF Requeue, GiveUp
  <2>2. Legal(mem[w].state, to) <=> RunsOn(w)
    BY <1>1, <1>2 DEF Agrees, RunsOn, Aborts, Legal, Transitions
  <2> QED BY <1>1, <1>2, <2>1, <2>2, TransitionEffect, TransitionKeeps
<1>5. Lives
  BY <1>2, <1>3, <1>4 DEF Lives, RunsOn
<1>6. PlaceAt(w)'
  BY <1>1, <1>2, <1>4, SameTurns DEF PlaceAt, RunsOn, Aborts
<1>7. /\ op'.state = "running" => op.state = "running"
      /\ op'.state = "cancelling" => run'[w].armed /\ run'[w].tracker = "cancelled"
      /\ pc[w] # "close" /\ pc'[w] \notin {"clear", "close"}
  BY <1>1, <1>4 DEF Aborts
<1> QED BY <1>1, <1>5, <1>6, <1>7, CalmGoes

\* The last turn could not be read, or this one not committed, for want of a lock.
LEMMA CalmFence ==
    ASSUME Calmly, NEW w \in Worker, FenceFails(w)
    PROVE  Calm' /\ LifeStep
<1>0. Falters(w)
  BY DEF Falters
<1>1. /\ WorkerGoes(w) /\ PlaceAt(w) /\ Holds(w) /\ Shapes /\ w \in Actor
      /\ pc[w] \in {"reconcile", "commit"} /\ UNCHANGED <<op, run, turns>>
  BY <1>0, Standing DEF FenceFails, Runs, Leased
<1>2. pc'[w] = "exit"
  BY <1>1, GotoStands DEF FenceFails
<1>3. RunsOn(w) /\ run[w].result # "boundary"
  BY <1>1 DEF PlaceAt
<1>4. PlaceAt(w)'
  BY <1>1, <1>2, <1>3 DEF PlaceAt, RunsOn
<1> QED BY <1>1, <1>2, <1>4, CalmMoves

\* The retry timer is set.
LEMMA CalmRearm ==
    ASSUME Calmly, NEW w \in Worker, Rearm(w)
    PROVE  Calm' /\ LifeStep
<1>1. /\ pc[w] = "rearm" /\ UNCHANGED <<op, mem, run, turns>>
      /\ WorkerGoes(w) /\ PlaceAt(w) /\ WorkerInv(w) /\ w \in Actor /\ Shapes
      /\ pc'[w] = IF run[w].claim = 0 THEN "settle" ELSE "exit"
  BY Standing, GotoStands DEF Rearm, Resumes, Drives
<1>2. CASE Holds(w)
  <2>1. pc'[w] = "exit"
    BY <1>1, <1>2 DEF Holds
  <2>2. PlaceAt(w)'
    BY <1>1, <1>2, <2>1 DEF PlaceAt, Holds
  <2> QED BY <1>1, <1>2, <2>1, <2>2, CalmMoves
<1>3. CASE ~Holds(w)
  <2>1. Off(w)' /\ ~run[w].armed
    BY <1>1, <1>3 DEF Off, Holds, WorkerInv, ClaimAt, LeaseAt
  <2> QED BY <1>1, <2>1, CalmAside
<1> QED BY <1>2, <1>3

\* A worker without a lease, and the one that gives its slot back.
LEMMA CalmSettle ==
    ASSUME Calmly, NEW w \in Worker, AcquireFails(w) \/ Settle(w)
    PROVE  Calm' /\ LifeStep
<1>0. Drives(w) \/ Falters(w)
  BY DEF Drives, Falters
<1>1. /\ pc[w] \in {"acquire", "settle"} /\ UNCHANGED <<op, turns>>
      /\ WorkerGoes(w) /\ WorkerInv(w) /\ w \in Actor /\ Shapes
      /\ run \in [Worker -> Drive] /\ mem \in [Actor -> Row]
  BY <1>0, Standing DEF AcquireFails, Settle, Runs, Shapes
<1>2. ~run[w].armed
  BY <1>1 DEF WorkerInv, ClaimAt, LeaseAt, Entering
<1>3. \A v \in Worker \ {w} : run'[v] = run[v] /\ mem'[v] = mem[v]
  BY <1>1, ActorTyped DEF AcquireFails, Settle
<1>4. Off(w)'
  <2>1. CASE AcquireFails(w)
    BY <1>1, <2>1, GotoStands
       DEF AcquireFails, Runs, Off, Holds, WorkerInv, ClaimAt, LeaseAt, Entering
  <2>2. CASE Settle(w)
    <3>1. pc'[w] = "idle" /\ run'[w] = NotDriving
      BY <1>1, <2>2, GotoStands DEF Settle
    <3> QED BY <3>1 DEF Off, Holds, NotDriving
  <2> QED BY <2>1, <2>2
<1> QED BY <1>1, <1>2, <1>3, <1>4, CalmAside

\* The abort is over: the operation is still cancelling.
LEMMA CalmFinalizeCancel ==
    ASSUME Calmly, NEW w \in Worker, FinalizeCancel(w)
    PROVE  Calm' /\ LifeStep
<1>1. /\ pc[w] = "abort" /\ UNCHANGED <<op, run, turns>>
      /\ WorkerGoes(w) /\ PlaceAt(w) /\ Holds(w) /\ Active(w) /\ run[w].armed
      /\ w \in Actor /\ Shapes /\ op \in Row /\ mem \in [Actor -> Row]
  BY Standing DEF FinalizeCancel, Resumes, Drives, Leased, Shapes
<1>2. op.state = "cancelling" /\ run[w].tracker = "cancelled"
      /\ run[w].result # "boundary"
  BY <1>1 DEF PlaceAt, Aborts
<1>3. pc'[w] = "clear" /\ mem'[w] = [Snapshot(w) EXCEPT !.cancel = FALSE]
  BY <1>1, <1>2, GotoStands DEF FinalizeCancel
<1>4. PlaceAt(w)'
  BY <1>1, <1>2, <1>3 DEF PlaceAt
<1>5. ClosingAt(w)'
  <2>1. ~mem'[w].cancel
    BY <1>1, <1>3 DEF Snapshot, Row
  <2> QED BY <1>1, <1>2, <1>3, <2>1 DEF ClosingAt
<1>6. LifeStep
  BY <1>1, <1>3, LivesOn DEF Lives
<1> QED BY <1>1, <1>2, <1>4, <1>5, <1>6, CalmFlight

\* The signal is cleared on disk, and the cancel is in the worker's hands.
LEMMA CalmClearSignal ==
    ASSUME Calmly, NEW w \in Worker, ClearSignal(w)
    PROVE  Calm' /\ LifeStep
<1>1. /\ pc[w] = "clear" /\ UNCHANGED <<run, turns>> /\ op' = mem[w]
      /\ WorkerGoes(w) /\ PlaceAt(w) /\ ClosingAt(w) /\ WorkerInv(w)
      /\ w \in Actor /\ HomeOf(w) = Home[w] /\ Shapes /\ Before
  BY Standing DEF ClearSignal, Runs, Drives
<1>2. Active(w) /\ (Holds(w) => run[w].armed) /\ run[w].result # "boundary"
  BY <1>1 DEF WorkerInv, LeaseAt, PlaceAt
<1>3. pc'[w] = "close"
  BY <1>1, <1>2, GotoStands DEF ClearSignal
<1>4. op'.state = op.state /\ ~op'.cancel
  BY <1>1, ClearSignalKeeps DEF ClosingAt
<1>5. PlaceAt(w)' /\ ClosingAt(w)'
  BY <1>1, <1>3, <1>4 DEF PlaceAt, ClosingAt, Holds
<1>6. PendingCancel /\ PendingCancel'
  <2>1. PendingCancel <=> (op.cancel \/ op.state = "cancelling" \/ pc[w] = "close")
    BY <1>1, PendingHere DEF WorkerGoes
  <2>2. PendingCancel' <=> (op'.cancel \/ op'.state = "cancelling" \/ pc'[w] = "close")
    BY <1>1, <1>3, PendingThere DEF WorkerGoes
  <2> QED BY <1>1, <1>3, <2>1, <2>2 DEF ClosingAt
<1>7. op'.state = "cancelling" => run'[w].armed /\ run'[w].tracker = "cancelled"
  <2>1. SUFFICES ASSUME op.state = "cancelling"
                 PROVE  run[w].armed /\ run[w].tracker = "cancelled"
    BY <1>1, <1>4
  <2>2. PICK v \in Worker : run[v].armed /\ run[v].tracker = "cancelled"
    BY <2>1 DEF Calmly, Calm, Attended
  <2>3. Active(v)
    BY <1>1, <2>2 DEF Before, Workers, WorkerInv, LeaseAt
  <2>4. v = w
    BY <1>1, <1>2, <2>3, ActorTyped DEF Active, Before, OneProcess
  <2> QED BY <2>2, <2>4
<1> QED BY <1>1, <1>2, <1>4, <1>5, <1>6, <1>7, CalmFlight, LifeKept

\* The cancel is carried out.
LEMMA CalmCloseCancelled ==
    ASSUME Calmly, NEW w \in Worker, CloseCancelled(w)
    PROVE  Calm' /\ LifeStep
<1> DEFINE next == IF run[w].claim = 0 THEN "settle" ELSE "exit"
<1>1. /\ pc[w] = "close" /\ UNCHANGED <<run, turns>>
      /\ TransitionOp(w, "cancelled", next, next)
      /\ WorkerGoes(w) /\ PlaceAt(w) /\ ClosingAt(w) /\ WorkerInv(w)
      /\ w \in Actor /\ HomeOf(w) = Home[w] /\ Shapes /\ Before
  BY Standing, ActorTyped DEF CloseCancelled, Runs, Drives
<1>2. Active(w) /\ run[w].result # "boundary" /\ Agrees(w)
  BY <1>1 DEF WorkerInv, LeaseAt, CopyAt, PlaceAt
<1>3. op.state \in {"queued", "paused", "cancelling"} /\ ~op.cancel
  BY <1>1 DEF ClosingAt
<1>4. Legal(mem[w].state, "cancelled")
  BY <1>2, <1>3 DEF Agrees, Legal, Transitions
<1>5. op'.state = "cancelled" /\ ~op'.cancel /\ pc'[w] = next
  BY <1>1, <1>3, <1>4, TransitionEffect, TransitionKeeps
<1>6. PlaceAt(w)' /\ ClosingAt(w)'
  BY <1>1, <1>2, <1>5 DEF PlaceAt, ClosingAt, Holds
<1>7. PendingCancel /\ ~PendingCancel'
  <2>1. PendingCancel <=> (op.cancel \/ op.state = "cancelling" \/ pc[w] = "close")
    BY <1>1, PendingHere DEF WorkerGoes
  <2>2. PendingCancel' <=> (op'.cancel \/ op'.state = "cancelling" \/ pc'[w] = "close")
    BY <1>1, <1>5, PendingThere DEF WorkerGoes
  <2> QED BY <1>1, <1>5, <2>1, <2>2
<1>8. LifeStep
  BY <1>3, <1>5, <1>7, LifeCancelled
<1> QED BY <1>1, <1>2, <1>5, <1>6, <1>8, CalmFlight

\* An exception: in a running operation, or in the abort of one.
LEMMA CalmThrow ==
    ASSUME Calmly, NEW w \in Worker, Throw(w)
    PROVE  Calm' /\ LifeStep
<1>1. /\ pc[w] = "throw" /\ UNCHANGED <<run, turns>>
      /\ WorkerGoes(w) /\ PlaceAt(w) /\ WorkerInv(w) /\ Holds(w) /\ Agrees(w)
      /\ run[w].armed /\ w \in Actor /\ Shapes /\ Before
  BY Standing DEF Throw, Runs, Drives, Leased
<1>2. /\ RunsOn(w) \/ Aborts(w)
      /\ run[w].result # "boundary" /\ ~run[w].lost
  BY <1>1 DEF PlaceAt, WorkerInv, ClaimAt
<1>3. CASE Aborts(w)
  <2>1. mem[w].state = "cancelling" /\ run[w].turn \notin Published
    BY <1>1, <1>3 DEF Agrees, Aborts
  <2>2. op' = op /\ pc'[w] = "abort"
    BY <1>1, <1>2, <2>1, GotoStands DEF Throw, Terminal
  <2>3. PlaceAt(w)'
    BY <1>1, <1>2, <1>3, <2>2, SameTurns DEF PlaceAt, Aborts
  <2> QED BY <1>1, <2>2, <2>3, CalmMoves
<1>4. CASE RunsOn(w)
  <2>1. ~op.cancel /\ mem[w].state = "running"
    BY <1>1, <1>4, Unsignalled DEF RunsOn, Agrees
  <2>2. /\ pc'[w] = "exit" /\ op'.cancel = op.cancel
        /\ op'.state \in {"running", "failed"}
    <3>1. CASE TransitionOp(w, "failed", "exit", "exit")
      BY <1>1, <1>4, <3>1, TransitionEffect, TransitionKeeps DEF RunsOn
    <3>2. CASE op' = op /\ Goto(w, "exit")
      BY <1>1, <1>4, <3>2, GotoStands DEF RunsOn
    <3> QED BY <2>1, <3>1, <3>2 DEF Throw
  <2>3. PlaceAt(w)'
    BY <1>1, <1>2, <2>2 DEF PlaceAt
  <2>4. Lives
    BY <1>4, <2>2 DEF Lives, RunsOn
  <2> QED BY <1>1, <1>4, <2>2, <2>3, <2>4, CalmGoes DEF RunsOn
<1> QED BY <1>2, <1>3, <1>4

\* The finally of drive().
LEMMA CalmExit ==
    ASSUME Calmly, NEW w \in Worker, Exit(w) \/ ReleaseFails(w)
    PROVE  Calm' /\ LifeStep
<1>0. Drives(w) \/ Falters(w)
  BY DEF Drives, Falters
<1>1. /\ pc[w] = "exit" /\ pc'[w] = "settle" /\ UNCHANGED <<turns>>
      /\ run' = [run EXCEPT ![w].armed = FALSE, ![w].tracker = "off"]
      /\ WorkerGoes(w) /\ PlaceAt(w) /\ Holds(w)
      /\ w \in Actor /\ Shapes /\ op \in Row /\ run \in [Worker -> Drive] /\ run[w] \in Drive
  BY <1>0, Standing, GotoStands DEF Exit, ReleaseFails, Runs, Leased, Shapes
<1>2. op'.state = op.state /\ op'.cancel = op.cancel
  BY <1>1 DEF Exit, ReleaseFails, Released, Row
<1>3. run'[w].result = run[w].result /\ \A v \in Worker \ {w} : run'[v] = run[v]
  BY <1>1 DEF Drive
<1>4. op.state # "cancelling" /\ run[w].result # "boundary"
  BY <1>1 DEF PlaceAt
<1>5. PlaceAt(w)'
  BY <1>1, <1>2, <1>3, <1>4 DEF PlaceAt
<1> QED BY <1>1, <1>2, <1>3, <1>4, <1>5, CalmGoes DEF Lives

\* The factory rejects: the operation fails before it began.
LEMMA CalmFactoryFails ==
    ASSUME Calmly, NEW w \in Worker, FactoryFails(w)
    PROVE  Calm' /\ LifeStep
<1>1. /\ pc[w] = "starting" /\ run' = run /\ pc'[w] = "idle"
      /\ op' = IF op.state = "queued" THEN [op EXCEPT !.state = "failed"] ELSE op
      /\ WorkerGoes(w) /\ WorkerInv(w) /\ PlaceAt(w)
      /\ w \in Actor /\ Shapes /\ op \in Row /\ Before
      /\ \A b \in Actor \ {w} : pc'[b] = pc[b]
  BY Standing, GotoStands DEF FactoryFails, Resumes, Falters, Shapes
<1>2. ~Holds(w) /\ Active(w) /\ op.state = "queued"
  BY <1>1 DEF WorkerInv, ClaimAt, LeaseAt, StateAt, Entering
<1>3. op'.state = "failed" /\ op'.cancel = op.cancel
  BY <1>1, <1>2 DEF Row
<1>4. ASSUME NEW v \in Worker PROVE Idles(v)'
  <2>1. CASE v = w
    BY <1>1, <1>2, <2>1 DEF Idles, Holds, PlaceAt
  <2>2. CASE v # w
    <3>1. ~Active(v)
      BY <1>1, <1>2, <2>2, ActorTyped DEF Active, Before, OneProcess
    <3> QED BY <1>1, <2>2, <3>1, ActorTyped, OthersOff, StaysOff, OffIdles
  <2> QED BY <2>1, <2>2
<1>5. \A p \in Proc : pc'[p] = "idle"
  BY <1>1, ProcessIdle
<1>6. LifeStep
  BY <1>1, <1>2, <1>3, LivesOn DEF Lives
<1> QED BY <1>3, <1>4, <1>5, <1>6, CalmOff

\* What a process that hears its cancels at the await never does.
LEMMA CalmNever ==
    ASSUME Calmly, NEW w \in Worker,
           BoundaryCancelling(w) \/ BoundaryAborted(w) \/ HeartbeatGivesUp(w)
    PROVE  FALSE
BY Standing
   DEF BoundaryCancelling, BoundaryAborted, HeartbeatGivesUp, Runs, Resumes,
       PlaceAt, Disturb, Calmly, Before, NoGivingUp

-----------------------------------------------------------------------------
(* The process's steps *)

\* What the only process knows when it has its event loop to itself.
LEMMA Attending ==
    ASSUME Calmly, NEW p \in Proc, cpu[p] \in {p, None}
    PROVE  /\ Before /\ Shapes /\ AskedAt(p) /\ ClosingAt(p) /\ QueueAt(p) /\ CallAt(p)
           /\ p \in Actor /\ HomeOf(p) = p /\ op \in Row /\ mem \in [Actor -> Row]
           /\ mem[p] \in Row /\ \A q \in Proc : q = p
           /\ \A w \in Worker : w \in Actor /\ w # p /\ Home[w] = p
           /\ cpu[p] = None => pc[p] = "idle"
<1>1. Before /\ Shapes /\ AskedAt(p) /\ ClosingAt(p) /\ QueueAt(p) /\ CallAt(p)
  BY ActorTyped DEF Calmly, Calm, Asked, Closing, Before, Procs, ProcInv
<1> QED BY <1>1, ActorTyped, WorkersAwait DEF Shapes

\* A worker awaits, and either holds nothing or has somebody to hear it.
LEMMA AwaitingAt ==
    ASSUME Calmly, NEW p \in Proc, cpu[p] \in {p, None}, NEW w \in Worker
    PROVE  /\ PlaceAt(w) /\ HeardAt(w) /\ WorkerInv(w) /\ pc[w] \notin Running
           /\ Holds(w) => pc[w] \in {"turn", "failover", "rearm", "abort"}
           /\ ~Holds(w) => Idles(w)
<1>1. /\ PlaceAt(w) /\ HeardAt(w) /\ WorkerInv(w) /\ pc[w] \in WorkerPlace \ Running
  BY WorkersAwait DEF Calmly, Calm, Course, Before, Workers
<1>2. pc[w] \in {"idle", "starting", "turn", "failover", "rearm", "abort"}
  BY <1>1 DEF PlaceAt, WorkerInv, ClaimAt, WorkerPlace, Place, Awaiting, Running
<1> QED BY <1>1, <1>2 DEF Idles, PlaceAt, WorkerInv, ClaimAt, Leased, Entering

\* A worker that held nothing and was not moved.
LEMMA StaysIdle ==
    ASSUME NEW w \in Worker, Idles(w), pc'[w] = pc[w], run'[w] = run[w]
    PROVE  Idles(w)'
BY DEF Idles, Holds

\* The process goes on with a call, and the workers wait where they were.
LEMMA CalmProcess ==
    ASSUME Calmly, NEW p \in Proc, ProcGoes(p), UNCHANGED <<run, turns>>,
           op'.state = op.state, AskedAt(p)', ClosingAt(p)',
           op'.state = "running" /\ op'.cancel
           => pc'[p] = "deliver" \/ \A w \in Worker : ~Holds(w)
    PROVE  Calm'
<1>1. /\ Shapes /\ \A q \in Proc : q = p
      /\ \A w \in Worker : w \in Actor /\ w # p /\ Home[w] = p
      /\ p \in Actor
  BY Attending DEF ProcGoes
<1>2. Published' = Published
  BY DEF Published
<1>3. ASSUME NEW w \in Worker PROVE PlaceAt(w)' /\ HeardAt(w)' /\ ClosingAt(w)'
  <2>1. pc'[w] = pc[w]
    BY <1>1, GotoStands DEF ProcGoes
  <2>2. PlaceAt(w) /\ pc[w] \notin Running
    BY AwaitingAt DEF ProcGoes
  <2>3. PlaceAt(w)'
    BY <1>2, <2>1, <2>2 DEF PlaceAt, RunsOn, Aborts, Holds, Running
  <2>4. HeardAt(w)'
    BY <1>1 DEF HeardAt, Holds
  <2>5. ClosingAt(w)'
    BY <2>1, <2>2 DEF ClosingAt, Running
  <2> QED BY <2>3, <2>4, <2>5
<1>4. Asked' /\ Course' /\ Closing'
  BY <1>1, <1>3 DEF Asked, Course, Closing, Actor
<1>5. Attended'
  BY DEF Calmly, Calm, Attended
<1> QED BY <1>4, <1>5 DEF Calm

\* The pump finds a cancel on what it queued.
LEMMA CalmPumpCancel ==
    ASSUME Calmly, NEW p \in Proc, PumpCancel(p)
    PROVE  Calm' /\ LifeStep
<1>1. /\ cpu[p] = None /\ sched[p].queued /\ op.cancel /\ UNCHANGED <<op, run, turns>>
      /\ mem' = [mem EXCEPT ![p] = [op EXCEPT !.cancel = FALSE]] /\ Goto(p, "clear")
  BY DEF PumpCancel, Free
<1>2. /\ op.state = "queued" /\ pc[p] = "idle" /\ p \in Actor /\ HomeOf(p) = p /\ Shapes
      /\ op \in Row /\ mem \in [Actor -> Row]
  BY <1>1, Attending DEF QueueAt
<1>3. pc'[p] = "clear" /\ ~mem'[p].cancel
  BY <1>1, <1>2, GotoStands DEF Row
<1>4. ProcGoes(p)
  BY <1>1 DEF ProcGoes, ProcPlace
<1>5. AskedAt(p)' /\ ClosingAt(p)'
  BY <1>1, <1>2, <1>3 DEF AskedAt, ClosingAt
<1>6. PendingCancel /\ PendingCancel'
  BY <1>1 DEF PendingCancel
<1> QED BY <1>1, <1>2, <1>4, <1>5, <1>6, CalmProcess, LifeKept

\* A resume or a cancel reads the row.
LEMMA CalmCalls ==
    ASSUME Calmly, NEW p \in Proc, OpResume(p) \/ OpCancel(p)
    PROVE  Calm' /\ LifeStep
<1>1. /\ cpu[p] = None /\ UNCHANGED <<op, run, turns>> /\ mem' = [mem EXCEPT ![p] = op]
      /\ \/ op.state = "paused" /\ Goto(p, "resume")
         \/ /\ op.state \notin Terminal \cup {"cancelling"} /\ Goto(p, "signal")
            /\ op.cancel => op.state = "paused"
  BY DEF OpResume, OpCancel, Free
<1>2. /\ pc[p] = "idle" /\ p \in Actor /\ HomeOf(p) = p /\ Shapes /\ AskedAt(p)
      /\ mem \in [Actor -> Row]
  BY <1>1, Attending
<1>3. ~op.cancel
  BY <1>1, <1>2 DEF AskedAt
<1>4. mem'[p] = op /\ pc'[p] \in {"resume", "signal"}
      /\ (pc'[p] = "signal" => op.state \notin Terminal \cup {"cancelling"})
  BY <1>1, <1>2, GotoStands
<1>5. ProcGoes(p)
  BY <1>1 DEF ProcGoes, ProcPlace
<1>6. AskedAt(p)' /\ ClosingAt(p)'
  BY <1>1, <1>3, <1>4 DEF AskedAt, ClosingAt
<1>7. PendingCancel' <=> PendingCancel
  BY <1>1, <1>2, <1>4, <1>5, PendingHere, PendingThere DEF ProcGoes
<1> QED BY <1>1, <1>3, <1>5, <1>6, <1>7, CalmProcess, LifeKept

\* The cancel signal goes to disk: the request of the lifecycle.
LEMMA CalmWriteCancelSignal ==
    ASSUME Calmly, NEW p \in Proc, WriteCancelSignal(p)
    PROVE  Calm' /\ LifeStep
<1>0. p \in Actor /\ HomeOf(p) = p
  BY ActorTyped
<1>1. /\ pc[p] = "signal" /\ cpu[p] = p /\ UNCHANGED <<mem, run, turns>>
      /\ op' = [op EXCEPT !.cancel = TRUE] /\ Goto(p, "deliver")
  BY <1>0 DEF WriteCancelSignal, Runs
<1>2. Shapes /\ AskedAt(p) /\ op \in Row
  BY <1>1, Attending
<1>3. op'.state = op.state /\ op'.cancel /\ pc'[p] = "deliver"
  BY <1>0, <1>1, <1>2, GotoStands DEF Row
<1>4. ProcGoes(p)
  BY <1>1 DEF ProcGoes, ProcPlace
<1>5. AskedAt(p)' /\ ClosingAt(p)'
  BY <1>1, <1>2, <1>3 DEF AskedAt, ClosingAt
<1>6. op.state \notin Terminal \cup {"cancelling"} /\ PendingCancel'
  BY <1>1, <1>2, <1>3 DEF AskedAt, PendingCancel
<1> QED BY <1>1, <1>3, <1>4, <1>5, <1>6, CalmProcess, LifeRequests

\* opCancel returns once every tracker has heard it, or goes on to cancel a
\* paused operation itself.
LEMMA CalmCancelReturns ==
    ASSUME Calmly, NEW p \in Proc, CancelReturns(p)
    PROVE  Calm' /\ LifeStep
<1>0. p \in Actor /\ HomeOf(p) = p
  BY ActorTyped
<1>1. /\ pc[p] = "deliver" /\ cpu[p] = p /\ UNCHANGED <<op, run, turns>>
      /\ Subscribed(p) = {}
  BY <1>0 DEF CancelReturns, Runs
<1>2. /\ Shapes /\ AskedAt(p) /\ CallAt(p) /\ op \in Row /\ mem \in [Actor -> Row]
      /\ \A w \in Worker : Home[w] = p
  BY <1>1, Attending
<1>3. op.cancel /\ (op.state = "paused" <=> mem[p].state = "paused")
  BY <1>1, <1>2 DEF AskedAt, CallAt
<1>4. \/ /\ op.state = "paused" /\ Goto(p, "clear")
         /\ mem' = [mem EXCEPT ![p] = [Snapshot(p) EXCEPT !.cancel = FALSE]]
      \/ op.state # "paused" /\ Goto(p, "idle") /\ mem' = mem
  BY <1>3 DEF CancelReturns, CancelsParked
<1>5. ProcGoes(p)
  BY <1>1, <1>4 DEF ProcGoes, ProcPlace
<1>6. AskedAt(p)' /\ ClosingAt(p)'
  <2>1. CASE /\ op.state = "paused" /\ Goto(p, "clear")
             /\ mem' = [mem EXCEPT ![p] = [Snapshot(p) EXCEPT !.cancel = FALSE]]
    <3>1. pc'[p] = "clear" /\ ~mem'[p].cancel
      BY <1>0, <1>2, <2>1, GotoStands DEF Snapshot, Row
    <3> QED BY <1>1, <1>3, <2>1, <3>1 DEF AskedAt, ClosingAt
  <2>2. CASE op.state # "paused" /\ Goto(p, "idle") /\ mem' = mem
    <3>1. pc'[p] = "idle"
      BY <1>0, <1>2, <2>2, GotoStands
    <3> QED BY <1>1, <2>2, <3>1 DEF AskedAt, ClosingAt
  <2> QED BY <1>4, <2>1, <2>2
<1>7. op.state = "running" => \A w \in Worker : ~Holds(w)
  <2>1. SUFFICES ASSUME op.state = "running", NEW w \in Worker, Holds(w)
                 PROVE  FALSE
    OBVIOUS
  <2>2. /\ PlaceAt(w) /\ WorkerInv(w) /\ pc[w] \in {"turn", "failover", "rearm", "abort"}
    BY <1>1, <2>1, AwaitingAt
  <2>3. run[w].tracker # "on"
    BY <1>1, <1>2 DEF Subscribed
  <2> QED BY <2>1, <2>2, <2>3 DEF PlaceAt, RunsOn, Aborts, WorkerInv, StateAt
<1>8. PendingCancel /\ PendingCancel'
  BY <1>1, <1>3 DEF PendingCancel
<1> QED BY <1>1, <1>5, <1>6, <1>7, <1>8, CalmProcess, LifeKept

\* The process clears the signal of an operation nobody holds.
LEMMA CalmProcessClear ==
    ASSUME Calmly, NEW p \in Proc, ClearSignal(p)
    PROVE  Calm' /\ LifeStep
<1>0. p \in Actor /\ HomeOf(p) = p /\ p \notin Worker
  BY ActorTyped
<1>1. /\ pc[p] = "clear" /\ cpu[p] = p /\ UNCHANGED <<mem, run, turns>>
      /\ op' = mem[p] /\ Goto(p, "close")
  BY <1>0 DEF ClearSignal, Runs
<1>2. Shapes /\ AskedAt(p) /\ CallAt(p) /\ ClosingAt(p)
  BY <1>1, Attending
<1>3. op'.state = op.state /\ ~op'.cancel /\ pc'[p] = "close"
      /\ op.state \in {"queued", "paused", "cancelling"}
      /\ (op.cancel \/ op.state = "cancelling")
  BY <1>0, <1>1, <1>2, GotoStands DEF CallAt, Agrees, ClosingAt
<1>4. ProcGoes(p)
  BY <1>1 DEF ProcGoes, ProcPlace
<1>5. AskedAt(p)' /\ ClosingAt(p)'
  BY <1>3 DEF AskedAt, ClosingAt
<1>6. PendingCancel /\ PendingCancel'
  BY <1>0, <1>3 DEF PendingCancel
<1> QED BY <1>1, <1>3, <1>4, <1>5, <1>6, CalmProcess, LifeKept

\* A tracker hears the signal: its worker goes through a running operation, which
\* starts to be aborted, or is on its way out of one that is queued again.
LEMMA CalmDeliverCancel ==
    ASSUME Calmly, NEW p \in Proc, NEW w \in Worker, DeliverCancel(p, w)
    PROVE  Calm' /\ LifeStep
<1>0. p \in Actor /\ w \in Actor /\ p # w /\ HomeOf(p) = p /\ HomeOf(w) = Home[w]
  BY ActorTyped
<1>1. /\ pc[p] = "deliver" /\ cpu[p] = p /\ UNCHANGED <<turns, pc>>
      /\ run[w].tracker = "on" /\ run' = [run EXCEPT ![w].tracker = "cancelled"]
      /\ \/ /\ Legal(mem[w].state, "cancelling")
            /\ Persist(w, [mem[w] EXCEPT !.state = "cancelling"])
         \/ /\ ~Legal(mem[w].state, "cancelling")
            /\ UNCHANGED <<op, mem>>
  BY <1>0 DEF DeliverCancel, Runs, Subscribed
<1>2. /\ Before /\ Shapes /\ AskedAt(p) /\ op \in Row /\ mem \in [Actor -> Row]
      /\ mem[w] \in Row /\ mem[p] \in Row /\ run \in [Worker -> Drive] /\ run[w] \in Drive
      /\ \A q \in Proc : q = p
      /\ \A v \in Worker : v \in Actor /\ v # p /\ Home[v] = p
  BY <1>1, Attending DEF Shapes
<1>3. /\ PlaceAt(w) /\ WorkerInv(w) /\ Holds(w)
      /\ pc[w] \in {"turn", "failover", "rearm"}
  BY <1>1, AwaitingAt DEF WorkerInv, LeaseAt, PlaceAt, Aborts
<1>4. /\ Agrees(w) /\ Active(w) /\ run[w].armed /\ op.cancel
      /\ run[w].result # "boundary"
  BY <1>1, <1>2, <1>3 DEF WorkerInv, CopyAt, LeaseAt, AskedAt, PlaceAt
<1>5. /\ run'[w].tracker = "cancelled" /\ run'[w].armed /\ run'[w].turn = run[w].turn
      /\ run'[w].result = run[w].result /\ run'[w].claim = run[w].claim
      /\ \A v \in Worker \ {w} : run'[v] = run[v]
  BY <1>1, <1>2, <1>4 DEF Drive
<1>6. \/ /\ op.state = "running" /\ op'.state = "cancelling" /\ op'.cancel
         /\ pc[w] # "rearm"
      \/ op' = op /\ pc[w] = "rearm" /\ op.state \notin {"running", "cancelling"}
  <2>1. CASE pc[w] = "rearm"
    <3>1. op.state \notin {"running", "cancelling"}
      BY <1>3, <2>1 DEF PlaceAt, WorkerInv, StateAt
    <3>2. ~Legal(mem[w].state, "cancelling")
      BY <1>2, <1>4, <3>1 DEF Agrees, Legal, Transitions, Row, State
    <3> QED BY <1>1, <2>1, <3>1, <3>2
  <2>2. CASE pc[w] # "rearm"
    <3>1. op.state = "running"
      BY <1>1, <1>3, <2>2 DEF PlaceAt, RunsOn, Aborts
    <3>2. Persist(w, [mem[w] EXCEPT !.state = "cancelling"])
      BY <1>1, <1>4, <3>1 DEF Agrees, Legal, Transitions
    <3>3. op'.state = "cancelling" /\ op'.cancel = op.cancel
      BY <1>2, <3>2 DEF Persist, Merge, Row
    <3> QED BY <1>4, <2>2, <3>1, <3>3
  <2> QED BY <2>1, <2>2
<1>7. ASSUME NEW v \in Worker PROVE PlaceAt(v)' /\ HeardAt(v)' /\ ClosingAt(v)'
  <2>1. CASE v = w
    <3>1. pc[w] \in {"turn", "failover"} => run[w].turn \notin Published
      BY <1>3 DEF WorkerInv, IndexAt, PlaceAt
    <3>2. PlaceAt(w)'
      BY <1>1, <1>3, <1>4, <1>5, <1>6, <3>1, SameTurns DEF PlaceAt, Aborts
    <3>3. HeardAt(w)' /\ ClosingAt(w)'
      BY <1>1, <1>3, <1>6 DEF HeardAt, ClosingAt
    <3> QED BY <2>1, <3>2, <3>3
  <2>2. CASE v # w
    <3>1. ~Active(v)
      BY <1>2, <1>4, <2>2 DEF Active
    <3> QED BY <1>1, <1>2, <1>5, <2>2, <3>1, OthersOff, StaysOff, OffIdles, IdleCourse
  <2> QED BY <2>1, <2>2
<1>8. AskedAt(p)' /\ ClosingAt(p)'
  <2>1. mem'[p] = mem[p]
    BY <1>0, <1>1, <1>2 DEF Persist
  <2> QED BY <1>1, <1>2, <1>4, <1>6, <2>1 DEF AskedAt, ClosingAt
<1>9. Attended'
  BY <1>5, <1>6 DEF Attended
<1>10. Calm'
  BY <1>2, <1>7, <1>8, <1>9 DEF Calm, Course, Asked, Closing, Actor
<1>11. PendingCancel /\ PendingCancel'
  BY <1>4, <1>6 DEF PendingCancel
<1> QED BY <1>6, <1>10, <1>11, LifeMoves, LifeKept

\* A resume queues the operation again.
LEMMA CalmResumeLands ==
    ASSUME Calmly, NEW p \in Proc, ResumeLands(p)
    PROVE  Calm' /\ LifeStep
<1>0. p \in Actor /\ HomeOf(p) = p
  BY ActorTyped
<1>1. /\ pc[p] = "resume" /\ cpu[p] = p /\ UNCHANGED run
      /\ TransitionOp(p, "queued", "idle", "idle")
  BY <1>0 DEF ResumeLands, Runs
<1>2. /\ Before /\ Shapes /\ op \in Row /\ \A q \in Proc : q = p
      /\ \A v \in Worker : v \in Actor /\ v # p
  BY <1>1, Attending
<1>3. op.state = "paused" /\ op'.state = "queued"
  BY <1>2, ResumeLandsKeeps
<1>4. op'.cancel = op.cancel /\ Goto(p, "idle") /\ pc'[p] = "idle"
  BY <1>0, <1>1, <1>2, GotoStands DEF TransitionOp, Persist, Merge, Row
<1>5. \A w \in Worker : Idles(w)'
  <2>1. \A w \in Worker : pc'[w] = pc[w]
    BY <1>0, <1>2, <1>4, GotoStands
  <2> QED BY <1>1, <1>2, <1>3, <2>1, OffWhenPaused, StaysOff, OffIdles
<1>6. Calm'
  BY <1>2, <1>3, <1>4, <1>5, CalmOff
<1>7. PendingCancel' <=> PendingCancel
  BY <1>0, <1>1, <1>3, <1>4, PendingHere, PendingThere
<1> QED BY <1>3, <1>6, <1>7, LifeMoves

\* The process carries the cancel out: nobody holds the operation.
LEMMA CalmProcessClose ==
    ASSUME Calmly, NEW p \in Proc, CloseCancelled(p)
    PROVE  Calm' /\ LifeStep
<1>0. p \in Actor /\ HomeOf(p) = p
  BY ActorTyped
<1>1. /\ pc[p] = "close" /\ cpu[p] = p /\ UNCHANGED run
      /\ TransitionOp(p, "cancelled", "idle", "idle")
  BY <1>0 DEF CloseCancelled, Runs
<1>2. /\ Shapes /\ op \in Row /\ mem[p] \in Row /\ mem \in [Actor -> Row]
      /\ \A q \in Proc : q = p
      /\ \A v \in Worker : v \in Actor /\ v # p
      /\ CallAt(p) /\ ClosingAt(p)
  BY <1>1, Attending
<1>3. op.state \in {"queued", "paused", "cancelling"} /\ ~op.cancel
      /\ Legal(mem[p].state, "cancelled")
  BY <1>1, <1>2 DEF ClosingAt, CallAt, Agrees, Legal, Transitions
<1>4. /\ op'.state = "cancelled" /\ op'.cancel = op.cancel /\ Goto(p, "idle")
      /\ pc'[p] = "idle"
  BY <1>0, <1>1, <1>2, <1>3, GotoStands DEF TransitionOp, Persist, Merge, Row
<1>5. \A w \in Worker : Idles(w)'
  <2>1. \A w \in Worker : pc'[w] = pc[w] /\ ~Holds(w)
    BY <1>0, <1>1, <1>2, <1>4, GotoStands DEF CallAt
  <2> QED BY <1>1, <2>1, AwaitingAt, StaysIdle
<1>6. Calm'
  BY <1>2, <1>4, <1>5, CalmOff
<1>7. PendingCancel /\ ~PendingCancel'
  BY <1>0, <1>1, <1>3, <1>4, PendingHere, PendingThere
<1> QED BY <1>3, <1>4, <1>6, <1>7, LifeCancelled

\* Recovery finishes what its last turn decided, with no cancel in the way.
LEMMA CalmRecoverPublished ==
    ASSUME Calmly, NEW p \in Proc, RecoverPublished(p)
    PROVE  Calm' /\ LifeStep
<1>0. p \in Actor /\ HomeOf(p) = p
  BY ActorTyped
<1>1. /\ cpu[p] = None /\ Decided /\ op.state = "running" /\ ~op.cancel
      /\ UNCHANGED <<pc, run>>
      /\ op' = [op EXCEPT !.state = StateOf(turns[Latest].outcome)]
  BY DEF RecoverPublished, Free, RecoveryMayFinish
<1>2. Before /\ op \in Row /\ pc[p] = "idle" /\ \A q \in Proc : q = p
  BY <1>1, Attending
<1>3. op'.state \in {"succeeded", "failed"} /\ op'.cancel = op.cancel
  BY <1>1, <1>2 DEF StateOf, Row
<1>4. ASSUME NEW w \in Worker PROVE Idles(w)'
  <2>1. pc[w] # "starting"
    BY <1>1, <1>2 DEF Before, Workers, WorkerInv, StateAt, Entering
  <2> QED BY <1>1, <1>2, <2>1, NobodyToRecover, StaysOff, OffIdles
<1>5. Calm'
  BY <1>1, <1>2, <1>3, <1>4, CalmOff
<1>6. ~PendingCancel /\ ~PendingCancel'
  BY <1>0, <1>1, <1>2, <1>3, PendingHere, PendingThere
<1> QED BY <1>1, <1>3, <1>5, <1>6, LifeMoves

\* Recovery never finds a cancelling operation: its worker still aborts it.
LEMMA CalmRecoverStaleOp ==
    ASSUME Calmly, NEW p \in Proc, RecoverStaleOp(p)
    PROVE  Calm' /\ LifeStep
<1>0. p \in Actor /\ HomeOf(p) = p
  BY ActorTyped
<1>1. /\ cpu[p] = None /\ ~HasArmedHeartbeat(p) /\ UNCHANGED <<pc, run>>
  BY DEF RecoverStaleOp, Stale, Free
<1>2. /\ Before /\ op \in Row /\ pc[p] = "idle" /\ \A q \in Proc : q = p
      /\ \A w \in Worker : Home[w] = p
  BY <1>1, Attending
<1>3. op.state # "cancelling"
  <2>1. SUFFICES ASSUME NEW w \in Worker, run[w].armed PROVE FALSE
    BY DEF Calmly, Calm, Attended
  <2>2. Owns(w)
    BY <1>2, <2>1 DEF Before, Workers, WorkerInv, LeaseAt
  <2> QED BY <1>1, <1>2, <2>1, <2>2, ActorTyped DEF HasArmedHeartbeat, Owns
<1>4. /\ op'.cancel = op.cancel
      /\ \/ op.state = "queued" /\ op'.state = "queued"
         \/ op.state = "running" /\ op'.state \in {"queued", "failed"}
  BY <1>2, <1>3 DEF RecoverStaleOp, Row
<1>5. ASSUME NEW w \in Worker PROVE Idles(w)'
  <2>1. CASE pc[w] = "starting"
    <3>1. ~Holds(w)
      BY <1>2, <2>1 DEF Before, Workers, WorkerInv, ClaimAt, Entering
    <3> QED BY <1>1, <3>1, AwaitingAt, StaysIdle
  <2>2. CASE pc[w] # "starting"
    BY <1>1, <1>2, <2>2, NobodyToRecover, StaysOff, OffIdles
  <2> QED BY <2>1, <2>2
<1>6. Calm'
  BY <1>1, <1>2, <1>4, <1>5, CalmOff
<1>7. PendingCancel' <=> PendingCancel
  BY <1>0, <1>1, <1>2, <1>4, PendingHere, PendingThere
<1> QED BY <1>4, <1>6, <1>7, LifeMoves, LifeKept

\* The pump launches what is queued.
LEMMA CalmLaunch ==
    ASSUME Calmly, NEW p \in Proc, NEW w \in Worker, Launch(p, w)
    PROVE  Calm' /\ LifeStep
<1>0. p \in Actor /\ HomeOf(p) = p /\ w \in Actor /\ w # p
  BY ActorTyped
<1>1. /\ cpu[p] = None /\ sched[p].queued /\ UNCHANGED <<op, run>> /\ Home[w] = p
      /\ pc[w] = "idle" /\ Goto(w, "starting")
  BY DEF Launch, Free
<1>2. /\ Before /\ Shapes /\ QueueAt(p) /\ pc[p] = "idle" /\ \A q \in Proc : q = p
      /\ \A v \in Worker : v \in Actor
  BY <1>1, Attending
<1>3. op.state = "queued" /\ sched[p].active = None
  BY <1>1, <1>2 DEF QueueAt
<1>4. pc'[w] = "starting" /\ \A b \in Actor \ {w} : pc'[b] = pc[b]
  BY <1>0, <1>1, <1>2, GotoStands
<1>5. ASSUME NEW v \in Worker PROVE Idles(v)'
  <2>1. Off(v)
    BY <1>2, <1>3, OffWhenIdle
  <2> QED BY <1>1, <1>2, <1>4, <2>1 DEF Off, Idles, Holds
<1>6. Calm'
  BY <1>0, <1>1, <1>2, <1>3, <1>4, <1>5, CalmOff
<1>7. HomeOf(w) = p
  BY <1>1, ActorTyped
<1>8. PendingCancel' <=> PendingCancel
  BY <1>0, <1>1, <1>4, <1>7, PendingHere, PendingThere
<1> QED BY <1>1, <1>6, <1>8, LifeKept

\* Beats, requests that only write a column, and the passing of time.
LEMMA CalmColumns ==
    ASSUME Calmly,
           \/ \E w \in Worker : Heartbeat(w)
           \/ \E p \in Proc : OpPause(p) \/ ResumeWithdraws(p) \/ TimerFires(p)
           \/ LeaseExpires \/ UNCHANGED vars
    PROVE  Calm' /\ LifeStep
<1>1. CASE \E w \in Worker : Heartbeat(w)
  <2>1. PICK w \in Worker : Heartbeat(w)
    BY <1>1
  <2>2. Owns(w)
    BY <2>1
       DEF Heartbeat, HeartbeatOK, HeartbeatClaimLost, Beats, Calmly, Before,
           Workers, WorkerInv, LeaseAt
  <2>3. UNCHANGED <<op, pc, run, mem, turns>>
    BY <2>1, <2>2 DEF Heartbeat, HeartbeatOK, HeartbeatClaimLost
  <2> QED BY <2>3, CalmStays
<1>2. CASE \/ \E p \in Proc : OpPause(p) \/ ResumeWithdraws(p) \/ TimerFires(p)
           \/ LeaseExpires \/ UNCHANGED vars
  <2>1. UNCHANGED <<pc, run, mem, turns>>
    BY <1>2 DEF OpPause, ResumeWithdraws, TimerFires, LeaseExpires, vars
  <2>2. op'.state = op.state /\ op'.cancel = op.cancel
    BY <1>2 DEF OpPause, ResumeWithdraws, TimerFires, LeaseExpires, vars, Calmly,
                Before, Shapes, Row
  <2> QED BY <2>1, <2>2, CalmStays
<1> QED BY <1>1, <1>2

\* Without a crash every step is calm, and a step of the lifecycle or none.
LEMMA CalmStep ==
    ASSUME Calmly, [Next]_vars
    PROVE  Calm' /\ LifeStep
<1>1. ASSUME NEW w \in Worker, Drives(w) PROVE Calm' /\ LifeStep
  BY <1>1, CalmEnterDrive, CalmAcquire, CalmRefresh, CalmBegin, CalmReconcile,
     CalmTransitionsOut, CalmTurn, CalmProject, CalmLeaves, CalmBoundary,
     CalmFailover, CalmRequeue, CalmRearm, CalmSettle, CalmFinalizeCancel, CalmClearSignal,
     CalmCloseCancelled, CalmThrow, CalmExit, CalmNever
     DEF Drives
<1>2. ASSUME NEW w \in Worker, Falters(w) PROVE Calm' /\ LifeStep
  BY <1>2, CalmFactoryFails, CalmSettle, CalmTurn, CalmFailover, CalmFence, CalmExit, CalmNever
     DEF Falters
<1>3. ASSUME NEW p \in Proc, Schedules(p) PROVE Calm' /\ LifeStep
  BY <1>3, CalmLaunch, CalmPumpCancel, CalmColumns DEF Schedules
<1>4. ASSUME NEW p \in Proc, Answers(p) PROVE Calm' /\ LifeStep
  BY <1>4, CalmResumeLands, CalmWriteCancelSignal, CalmCancelReturns,
     CalmDeliverCancel, CalmProcessClear, CalmProcessClose DEF Answers
<1>5. ASSUME NEW p \in Proc, Calls(p) \/ Recovers(p) PROVE Calm' /\ LifeStep
  BY <1>5, CalmCalls, CalmColumns, CalmRecoverPublished, CalmRecoverStaleOp
     DEF Calls, Recovers
<1>6. \A p \in Proc : ~Crash(p)
  BY DEF Crash, Disturb, Calmly, NoCrash
<1> QED BY <1>1, <1>2, <1>3, <1>4, <1>5, <1>6, CalmColumns DEF Next

\* At the start nobody has asked for a cancel.
LEMMA CalmInit == Init => Calm
<1> SUFFICES ASSUME Init PROVE Calm
  OBVIOUS
<1>1. \A a \in Actor : pc[a] = "idle"
  BY DEF Init
<1>2. \A w \in Worker : run[w] = NotDriving
  BY DEF Init
<1>3. op.state = "queued" /\ ~op.cancel
  BY DEF Init, Blank
<1>4. Course
  BY <1>1, <1>2, <1>3, ActorTyped DEF Course, PlaceAt, HeardAt, Holds, NotDriving
<1>5. Asked /\ Closing /\ Attended
  BY <1>1, <1>3, ActorTyped DEF Asked, AskedAt, Closing, ClosingAt, Attended
<1> QED BY <1>4, <1>5 DEF Calm

\* And the lifecycle begins.
LEMMA LifeInit == Init => Lifecycle!Init
BY DEF Init, Blank, Lifecycle!Init, PendingCancel, Actor

-----------------------------------------------------------------------------
(* The theorems about a process that does not crash *)

\* The second invariant: where a cancel can find the operation, and that whoever
\* clears its signal carries it out.
THEOREM CalmInvariance ==
    ASSUME OneProcess, NoGivingUp, NoCrash
    PROVE  Spec => []Calmly
<1>1. Init => Calm
  BY CalmInit
<1>2. Before /\ Calm /\ [Next]_vars => Calm'
  BY CalmStep DEF Calmly
<1>3. Before /\ Calm => Calmly
  BY DEF Calmly
<1> QED BY <1>1, <1>2, <1>3, OneProcessInvariance, PTL DEF Spec

\* Between two blocks of its process no operation is paused with a cancel on its
\* row that nobody will act on: a cancel that outruns a pause ends the operation
\* at the turn boundary, one that follows it ends it in opCancel.
THEOREM NoCancelIsParked ==
    ASSUME OneProcess, NoGivingUp, NoCrash
    PROVE  Spec => []NoCancelParked
<1>0. Init => Proc # {}
  BY DEF Init
<1>1. Proc # {} => (Calmly => NoCancelParked)
  <2>1. SUFFICES ASSUME Proc # {}, Calmly, \A p \in Proc : Free(p), op.state = "paused", op.cancel
                 PROVE  FALSE
    BY DEF NoCancelParked
  <2>2. PICK p \in Proc : TRUE
    BY <2>1
  <2> QED BY <2>1, <2>2, Attending DEF Free, AskedAt
<1>2. CASE Proc # {}
  <2>1. Calmly => NoCancelParked
    BY <1>1, <1>2
  <2> QED BY <2>1, CalmInvariance, PTL
<1>3. CASE Proc = {}
  <2>1. ~Init
    BY <1>0, <1>3
  <2> QED BY <2>1, PTL DEF Spec
<1> QED BY <1>2, <1>3

\* The loop implements the life of an operation: with the pending cancel as the
\* request, each of its steps is a step of OpLifecycle or changes neither.
THEOREM LoopImplementsLifecycle ==
    ASSUME OneProcess, NoGivingUp, NoCrash
    PROVE  Spec => ImplementsLifecycle
<1>1. Init => Lifecycle!Init
  BY LifeInit
<1>2. Calmly /\ [Next]_vars => [Lifecycle!Next]_(Lifecycle!vars)
  BY CalmStep DEF LifeStep
<1> QED BY <1>1, <1>2, CalmInvariance, PTL DEF Spec, ImplementsLifecycle, Lifecycle!Spec

\* A cancel request stays pending until the operation is terminal (the run
\* CrashDropsCancel shows how a crash loses one).
THEOREM CancelIsKept ==
    ASSUME OneProcess, NoGivingUp, NoCrash
    PROVE  Spec => CancelNeverDropped
<1>1. LifeStep => [PendingCancel => PendingCancel' \/ op'.state \in Terminal]_vars
  <2>1. CASE UNCHANGED Lifecycle!vars
    BY <2>1 DEF Lifecycle!vars
  <2>2. CASE Lifecycle!Cancelled
    BY <2>2 DEF Lifecycle!Cancelled, Terminal
  <2>3. CASE Lifecycle!Next /\ ~Lifecycle!Cancelled
    BY <2>3 DEF Lifecycle!Next, Lifecycle!Start, Lifecycle!Requeue, Lifecycle!Park,
                Lifecycle!Succeed, Lifecycle!Fail, Lifecycle!Request, Lifecycle!Abort,
                Lifecycle!Move
  <2> QED BY <2>1, <2>2, <2>3 DEF LifeStep
<1>2. Calmly /\ [Next]_vars
      => [PendingCancel => PendingCancel' \/ op'.state \in Terminal]_vars
  BY <1>1, CalmStep
<1> QED BY <1>2, CalmInvariance, PTL DEF Spec, CancelNeverDropped
=============================================================================
