------------------------ MODULE CanonicalLoopProofs ------------------------
(***************************************************************************)
(* Theorems about CanonicalLoop, for every set of processes and workers    *)
(* and every value of the bounds.                                          *)
(***************************************************************************)
EXTENDS CanonicalLoop, TLAPS, FiniteSetTheorems, WellFoundedInduction

Place == Awaiting \cup Running

-----------------------------------------------------------------------------
(* Numbers *)

\* A non-empty set of turn indices has a largest element.  (The library has no
\* such theorem without an operator parameter; the elements above i, ordered by
\* strict inclusion, have a minimal set, and its i is the largest.)
LEMMA LargestExists ==
    ASSUME NEW N \in Nat, NEW S \in SUBSET (1..N), S # {}
    PROVE  \E i \in S : \A j \in S : j <= i
<1> DEFINE Above(i) == {j \in S : i < j}
           T == {Above(i) : i \in S}
<1>1. IsFiniteSet(S)
  <2>1. IsFiniteSet(1..N)
    BY FS_Interval
  <2> QED BY <2>1, FS_Subset
<1>2. IsWellFoundedOn(StrictSubsetOrdering(S), FiniteSubsetsOf(S))
  BY <1>1, FS_StrictSubsetOrderingWellFounded
<1>3. T \subseteq FiniteSubsetsOf(S) /\ T # {}
  <2>1. \A i \in S : Above(i) \in FiniteSubsetsOf(S)
    BY <1>1, FS_Subset DEF FiniteSubsetsOf
  <2> QED BY <2>1
<1>4. PICK m \in T : \A y \in T : <<y, m>> \notin StrictSubsetOrdering(S)
  <2> HIDE DEF T
  <2> QED BY <1>2, <1>3, WFMin
<1>5. PICK i \in S : m = Above(i)
  BY <1>4
<1>6. ASSUME NEW j \in S, ~(j <= i) PROVE FALSE
  <2>1. i \in Int /\ j \in Int /\ i < j
    BY <1>6
  <2>2. j \in Above(i) /\ j \notin Above(j)
    BY <2>1
  <2>3. \A k \in S : j < k => i < k
    BY <2>1
  <2>4. Above(j) \subseteq Above(i)
    BY <2>3
  <2>5. <<Above(j), m>> \in StrictSubsetOrdering(S)
    BY <2>2, <2>4, <1>5 DEF StrictSubsetOrdering
  <2> QED BY <2>5, <1>4
<1> QED BY <1>6

-----------------------------------------------------------------------------
(* The inductive invariant *)

\* A worker about to commit holds the outcome of a finished turn.
CommitReady == \A w \in Worker : pc[w] = "commit" => run[w].result \in Outcome

\* Every turn before the one a worker drives is published...
PublishedBehind ==
    \A w \in Worker : \A j \in Turn : j < run[w].turn => turns[j] # None

\* ...and so is this one, once the worker has committed it.
PublishedHere ==
    \A w \in Worker :
        \/ pc[w] = "project"
        \/ pc[w] = "after" /\ run[w].result \in Outcome
        => (run[w].turn \in Turn => turns[run[w].turn] # None)

TurnInv == CommitReady /\ PublishedBehind /\ PublishedHere /\ NoTurnGap
IInv == TypeOK /\ TurnInv

-----------------------------------------------------------------------------
(* The operators the actions are built from *)

\* The latest turn index is 0 or the index of a published turn, and no
\* published turn is later.
LEMMA LatestTyped ==
    /\ Latest \in Nat
    /\ Latest = 0 \/ Latest \in Published
    /\ \A j \in Published : j <= Latest
<1>1. CASE Published = {}
  BY <1>1 DEF Latest
<1>2. CASE Published # {}
  <2>1. MaxTurns \in Nat /\ Published \in SUBSET (1..MaxTurns)
    BY ConstantsAssumption DEF Published, Turn
  <2>2. PICK i \in Published : \A j \in Published : j <= i
    BY <1>2, <2>1, LargestExists
  <2>3. Latest \in Published /\ \A j \in Published : j <= Latest
    BY <1>2, <2>2 DEF Latest
  <2> QED BY <2>1, <2>3
<1> QED BY <1>1, <1>2

\* Every actor has a process.
LEMMA HomeTyped == \A a \in Actor : HomeOf(a) \in Proc
BY ConstantsAssumption DEF Actor, HomeOf

\* Writing an actor's copy of the row leaves a row.
LEMMA MergeTyped ==
    ASSUME NEW mine \in Row, NEW disk \in Row
    PROVE  Merge(mine, disk) \in Row
BY DEF Merge, Row

\* Going to a place keeps the program counters typed.
LEMMA GotoTyped ==
    ASSUME Shapes, NEW a \in Actor, NEW there \in Place, Goto(a, there)
    PROVE  /\ pc' \in [Actor -> Place]
           /\ cpu' \in [Proc -> Actor \cup {None}]
BY HomeTyped DEF Shapes, Goto, Place

\* Persisting a row keeps the rows typed.
LEMMA PersistTyped ==
    ASSUME Shapes, NEW a \in Actor, NEW mine \in Row, Persist(a, mine)
    PROVE  op' \in Row /\ mem' \in [Actor -> Row]
BY MergeTyped DEF Shapes, Persist

\* transitionOp keeps the rows and the program counters typed.
LEMMA TransitionOpTyped ==
    ASSUME Shapes, NEW a \in Actor, NEW to \in State,
           NEW next \in Place, NEW illegal \in Place,
           TransitionOp(a, to, next, illegal)
    PROVE  /\ op' \in Row /\ mem' \in [Actor -> Row]
           /\ pc' \in [Actor -> Place]
           /\ cpu' \in [Proc -> Actor \cup {None}]
<1>1. CASE Persist(a, [mem[a] EXCEPT !.state = to]) /\ Goto(a, next)
  <2>1. [mem[a] EXCEPT !.state = to] \in Row
    BY DEF Shapes, Row
  <2> QED BY <1>1, <2>1, PersistTyped, GotoTyped
<1>2. CASE UNCHANGED <<op, mem>> /\ Goto(a, illegal)
  BY <1>2, GotoTyped DEF Shapes
<1> QED BY <1>1, <1>2 DEF TransitionOp

\* A snapshot of the row is a row, whatever becomes of its cancel signal.
LEMMA SnapshotTyped ==
    ASSUME Shapes, NEW a \in Actor
    PROVE  /\ Snapshot(a) \in Row
           /\ [Snapshot(a) EXCEPT !.cancel = FALSE] \in Row
           /\ [Snapshot(a) EXCEPT !.pause = FALSE] \in Row
BY DEF Shapes, Snapshot, Row

\* Projecting a turn leaves a row.
LEMMA ProjectToTyped ==
    ASSUME Shapes, NEW outcome
    PROVE  ProjectTo(outcome) \in Row
BY DEF Shapes, ProjectTo, StateOf, Row, State

\* One more disturbance is one less to come.
LEMMA DisturbTyped ==
    ASSUME Shapes, NEW kind, Disturb(kind)
    PROVE  budget' \in 0..MaxDisturbances
BY ConstantsAssumption DEF Shapes, Disturb

\* The scheduler's operations keep an entry an entry.
LEMMA EntryTyped ==
    ASSUME NEW entry \in Entry
    PROVE  Enqueue(entry) \in Entry /\ Evict(entry) \in Entry
BY DEF Enqueue, Evict, Entry

-----------------------------------------------------------------------------
(* Every step keeps the types *)

\* The blank records are typed.
LEMMA BlankTyped == Blank \in Row /\ NotDriving \in Drive /\ NoEntry \in Entry
BY ConstantsAssumption
   DEF Blank, Row, State, NotDriving, Drive, Result, Outcome, NoEntry, Entry

\* The part of Shapes that is not control flow.
DataOK ==
    /\ op \in Row
    /\ live \subseteq 0..MaxGen
    /\ turns \in [Turn -> Artifact \cup {None}]
    /\ opLock \in Worker \cup {None}
    /\ mem \in [Actor -> Row]
    /\ run \in [Worker -> Drive]
    /\ sched \in [Proc -> Entry]
    /\ budget \in 0..MaxDisturbances

\* An actor moved and the data are typed.
LEMMA MoveTyped ==
    ASSUME Shapes, DataOK', NEW a \in Actor,
           \E there \in Place : Goto(a, there)
    PROVE  Shapes'
BY GotoTyped DEF Shapes, DataOK, Place

\* Nobody moved and the data are typed.
LEMMA StayTyped ==
    ASSUME Shapes, DataOK', UNCHANGED <<pc, cpu>>
    PROVE  Shapes'
BY DEF Shapes, DataOK, Place

\* An actor's move changed nothing else.
LEMMA OnlyMoveTyped ==
    ASSUME Shapes, NEW a \in Actor, NEW there \in Place, Goto(a, there),
           UNCHANGED <<op, live, turns, opLock, mem, run, sched, budget>>
    PROVE  Shapes'
BY MoveTyped DEF Shapes, DataOK

\* A transition of the row changed nothing else.
LEMMA OnlyTransitionTyped ==
    ASSUME Shapes, NEW a \in Actor, NEW to \in State,
           NEW next \in Place, NEW illegal \in Place,
           TransitionOp(a, to, next, illegal),
           UNCHANGED <<live, turns, opLock, run, sched, budget>>
    PROVE  Shapes'
BY TransitionOpTyped DEF Shapes, Place

\* The worker's own code.
LEMMA TypeDrives ==
    ASSUME Shapes, CommitReady, NEW w \in Worker, Drives(w)
    PROVE  Shapes'
<1>a. w \in Actor /\ Home[w] \in Proc
  BY ConstantsAssumption DEF Actor
<1>b. DataOK
  BY DEF Shapes, DataOK
<1>1. CASE EnterDrive(w)
  <2>1. mem' \in [Actor -> Row]
    BY <1>a, <1>b, <1>1, SnapshotTyped DEF EnterDrive, DataOK
  <2>2. DataOK'
    BY <1>b, <1>1, <2>1 DEF DataOK, EnterDrive
  <2>3. \E there \in Place : Goto(w, there)
    BY <1>a, <1>1 DEF EnterDrive, Place, Awaiting, Running
  <2> QED BY <1>a, <2>2, <2>3, MoveTyped
<1>2. CASE Acquire(w)
  <2>1. op.gen \in Nat /\ op.gen <= MaxGen
    BY <1>a, <1>b, <1>2 DEF Acquire, DataOK, Row
  <2>2. op.gen < MaxGen => op.gen + 1 \in 0..MaxGen
    BY <1>a, <1>b, <1>2, <2>1, ConstantsAssumption DEF Acquire, DataOK
  <2>3. op' \in Row
    BY <1>a, <1>b, <1>2, <2>2 DEF Acquire, DataOK, Row
  <2>4. live' \subseteq 0..MaxGen
    BY <1>a, <1>b, <1>2, <2>2 DEF Acquire, DataOK
  <2>5. run' \in [Worker -> Drive]
    BY <1>a, <1>b, <1>2, <2>2 DEF Acquire, DataOK, Drive
  <2>6. DataOK'
    BY <1>b, <1>2, <2>1, <2>2, <2>3, <2>4, <2>5 DEF DataOK, Acquire
  <2>7. \E there \in Place : Goto(w, there)
    BY <1>a, <1>2 DEF Acquire, Place, Awaiting, Running
  <2> QED BY <1>a, <2>6, <2>7, MoveTyped
<1>3. CASE Refresh(w)
  <2>1. mem' \in [Actor -> Row]
    BY <1>a, <1>b, <1>3 DEF Refresh, DataOK
  <2>2. run' \in [Worker -> Drive]
    BY <1>a, <1>b, <1>3 DEF Refresh, DataOK, Drive
  <2>3. DataOK'
    BY <1>b, <1>3, <2>1, <2>2 DEF DataOK, Refresh
  <2>4. \E there \in Place : Goto(w, there)
    BY <1>a, <1>3 DEF Refresh, Place, Awaiting, Running
  <2> QED BY <1>a, <2>3, <2>4, MoveTyped
<1>4. CASE Begin(w)
  <2>1. TransitionOp(w, "running", "reconcile", "leaked")
    BY <1>4 DEF Begin
  <2>2. sched' \in [Proc -> Entry]
    BY <1>a, <1>b, <1>4 DEF Begin, DataOK, Entry
  <2> QED BY <1>a, <1>4, <2>1, <2>2, TransitionOpTyped
             DEF Begin, Shapes, Place, Awaiting, Running, State
<1>5. CASE Reconcile(w)
  <2>1. op' \in Row /\ mem' \in [Actor -> Row]
    BY <1>a, <1>b, <1>5, ProjectToTyped DEF Reconcile, DataOK
  <2>2. run' \in [Worker -> Drive]
    BY <1>a, <1>b, <1>5, LatestTyped DEF Reconcile, DataOK, Drive, FirstTurn
  <2>3. DataOK'
    BY <1>b, <1>5, <2>1, <2>2 DEF DataOK, Reconcile
  <2>4. \E there \in Place : Goto(w, there)
    BY <1>a, <1>5 DEF Reconcile, Place, Awaiting, Running
  <2> QED BY <1>a, <2>3, <2>4, MoveTyped
<1>6. CASE BeginTurn(w)
  BY <1>a, <1>6, OnlyMoveTyped DEF BeginTurn, Place, Awaiting, Running
<1>7. CASE StopAtTop(w)
  BY <1>a, <1>7, OnlyTransitionTyped
     DEF StopAtTop, Place, Awaiting, Running, State
<1>8. CASE TurnEnds(w)
  <2>1. run' \in [Worker -> Drive]
    BY <1>a, <1>b, <1>8 DEF TurnEnds, DataOK, Drive, Result, Outcome
  <2>2. DataOK'
    BY <1>b, <1>8, <2>1 DEF DataOK, TurnEnds
  <2>3. \E there \in Place : Goto(w, there)
    BY <1>a, <1>8 DEF TurnEnds, Place, Awaiting, Running
  <2> QED BY <1>a, <2>2, <2>3, MoveTyped
<1>9. CASE Commit(w)
  <2>1. turns' \in [Turn -> Artifact \cup {None}]
    BY <1>a, <1>b, <1>9 DEF Commit, DataOK, Artifact, Row, CommitReady, Runs
  <2>2. opLock' \in Worker \cup {None}
    BY <1>a, <1>b, <1>9 DEF Commit, DataOK
  <2>3. DataOK'
    BY <1>b, <1>9, <2>1, <2>2 DEF DataOK, Commit
  <2>4. \E there \in Place : Goto(w, there)
    BY <1>a, <1>9 DEF Commit, Place, Awaiting, Running
  <2> QED BY <1>a, <2>3, <2>4, MoveTyped
<1>10. CASE Project(w)
  <2>1. op' \in Row /\ mem' \in [Actor -> Row]
    BY <1>a, <1>b, <1>10, ProjectToTyped DEF Project, DataOK
  <2>2. DataOK'
    BY <1>b, <1>10, <2>1 DEF DataOK, Project
  <2>3. \E there \in Place : Goto(w, there)
    BY <1>a, <1>10 DEF Project, Place, Awaiting, Running
  <2> QED BY <1>a, <2>2, <2>3, MoveTyped
<1>11. CASE LeaveLost(w)
  BY <1>a, <1>11, OnlyMoveTyped DEF LeaveLost, Place, Awaiting, Running
<1>12. CASE AwaitAbort(w)
  BY <1>a, <1>12, OnlyMoveTyped DEF AwaitAbort, Place, Awaiting, Running
<1>13. CASE FinishOnWallClock(w)
  BY <1>a, <1>13, OnlyTransitionTyped
     DEF FinishOnWallClock, Place, Awaiting, Running, State
<1>14. CASE AwaitFailover(w)
  BY <1>a, <1>14, OnlyMoveTyped DEF AwaitFailover, Place, Awaiting, Running
<1>15. CASE Suspend(w)
  BY <1>a, <1>15, OnlyTransitionTyped
     DEF Suspend, Place, Awaiting, Running, State
<1>16. CASE LeaveDone(w)
  BY <1>a, <1>16, OnlyMoveTyped DEF LeaveDone, Place, Awaiting, Running
<1>17. CASE PerTurnStop(w)
  BY <1>a, <1>17, OnlyTransitionTyped
     DEF PerTurnStop, Place, Awaiting, Running, State
<1>18. CASE BoundaryCancel(w)
  <2>1. mem' \in [Actor -> Row]
    BY <1>a, <1>b, <1>18, SnapshotTyped DEF BoundaryCancel, DataOK
  <2>2. run' \in [Worker -> Drive]
    BY <1>a, <1>b, <1>18 DEF BoundaryCancel, DataOK, Drive, Result
  <2>3. DataOK'
    BY <1>b, <1>18, <2>1, <2>2 DEF DataOK, BoundaryCancel
  <2>4. \E there \in Place : Goto(w, there)
    BY <1>a, <1>18 DEF BoundaryCancel, Place, Awaiting, Running
  <2> QED BY <1>a, <2>3, <2>4, MoveTyped
<1>19. CASE BoundaryPause(w)
  <2>1. op' \in Row /\ mem' \in [Actor -> Row]
    BY <1>a, <1>b, <1>19, SnapshotTyped DEF BoundaryPause, DataOK
  <2>2. DataOK'
    BY <1>b, <1>19, <2>1 DEF DataOK, BoundaryPause
  <2>3. \E there \in Place : Goto(w, there)
    BY <1>a, <1>19 DEF BoundaryPause, Place, Awaiting, Running
  <2> QED BY <1>a, <2>2, <2>3, MoveTyped
<1>20. CASE PauseLands(w)
  BY <1>a, <1>20, OnlyTransitionTyped
     DEF PauseLands, Place, Awaiting, Running, State
<1>21. CASE NextTurn(w)
  <2>1. run[w].turn + 1 \in Nat
    BY <1>a, <1>b, <1>21 DEF NextTurn, DataOK, Drive
  <2>2. run' \in [Worker -> Drive]
    BY <1>a, <1>b, <1>21, <2>1 DEF NextTurn, DataOK, Drive, Result
  <2>3. DataOK'
    BY <1>b, <1>21, <2>1, <2>2 DEF DataOK, NextTurn
  <2>4. \E there \in Place : Goto(w, there)
    BY <1>a, <1>21 DEF NextTurn, Place, Awaiting, Running
  <2> QED BY <1>a, <2>3, <2>4, MoveTyped
<1>22. CASE AdapterRetries(w)
  <2>1. [mem[w] EXCEPT !.attempts = @ + 1] \in Row
    BY <1>a, <1>b DEF DataOK, Row
  <2>2. op' \in Row /\ mem' \in [Actor -> Row]
    BY <1>a, <1>22, <2>1, PersistTyped DEF AdapterRetries
  <2>3. DataOK'
    BY <1>b, <1>22, <2>2 DEF DataOK, AdapterRetries
  <2>4. \E there \in Place : Goto(w, there)
    BY <1>22 DEF AdapterRetries, Place, Awaiting, Running
  <2> QED BY <1>a, <2>3, <2>4, MoveTyped
<1>23. CASE AdapterExhausted(w)
  <2>1. op' \in Row /\ mem' \in [Actor -> Row]
    BY <1>a, <1>b, <1>23, PersistTyped DEF AdapterExhausted, DataOK
  <2>2. DataOK'
    BY <1>b, <1>23, <2>1 DEF DataOK, AdapterExhausted
  <2>3. \E there \in Place : Goto(w, there)
    BY <1>23 DEF AdapterExhausted, Place, Awaiting, Running
  <2> QED BY <1>a, <2>2, <2>3, MoveTyped
<1>24. CASE Rearm(w)
  <2>1. sched' \in [Proc -> Entry]
    BY <1>a, <1>b, <1>24 DEF Rearm, DataOK, Entry
  <2>2. DataOK'
    BY <1>b, <1>24, <2>1 DEF DataOK, Rearm
  <2>3. \E there \in Place : Goto(w, there)
    BY <1>a, <1>24 DEF Rearm, Place, Awaiting, Running
  <2> QED BY <1>a, <2>2, <2>3, MoveTyped
<1>25. CASE FinalizeCancel(w)
  <2>1. mem' \in [Actor -> Row]
    BY <1>a, <1>b, <1>25, SnapshotTyped DEF FinalizeCancel, DataOK
  <2>2. DataOK'
    BY <1>b, <1>25, <2>1 DEF DataOK, FinalizeCancel
  <2>3. \E there \in Place : Goto(w, there)
    BY <1>a, <1>25 DEF FinalizeCancel, Place, Awaiting, Running
  <2> QED BY <1>a, <2>2, <2>3, MoveTyped
<1>26. CASE ClearSignal(w)
  <2>1. op' \in Row
    BY <1>a, <1>b, <1>26 DEF ClearSignal, DataOK
  <2>2. DataOK'
    BY <1>b, <1>26, <2>1 DEF DataOK, ClearSignal
  <2>3. \E there \in Place : Goto(w, there)
    BY <1>a, <1>26 DEF ClearSignal, Place, Awaiting, Running
  <2> QED BY <1>a, <2>2, <2>3, MoveTyped
<1>27. CASE CloseCancelled(w)
  BY <1>a, <1>27, OnlyTransitionTyped
     DEF CloseCancelled, Place, Awaiting, Running, State
<1>28. CASE BoundaryCancelling(w)
  BY <1>a, <1>28, OnlyTransitionTyped
     DEF BoundaryCancelling, Place, Awaiting, Running, State
<1>29. CASE BoundaryAborted(w)
  BY <1>a, <1>29, OnlyMoveTyped DEF BoundaryAborted, Place, Awaiting, Running
<1>30. CASE Throw(w)
  <2>1. CASE TransitionOp(w, "failed", "exit", "exit")
    BY <1>a, <1>30, <2>1, OnlyTransitionTyped
       DEF Throw, Place, Awaiting, Running, State
  <2>2. CASE UNCHANGED <<op, mem>> /\ \E there \in Place : Goto(w, there)
    BY <1>a, <1>30, <2>2, OnlyMoveTyped DEF Throw
  <2> QED BY <1>30, <2>1, <2>2 DEF Throw, Place, Awaiting, Running
<1>31. CASE Exit(w)
  <2>1. op' \in Row
    BY <1>a, <1>b, <1>31 DEF Exit, Released, DataOK, Row
  <2>2. run' \in [Worker -> Drive]
    BY <1>a, <1>b, <1>31 DEF Exit, DataOK, Drive
  <2>3. DataOK'
    BY <1>b, <1>31, <2>1, <2>2 DEF DataOK, Exit
  <2>4. \E there \in Place : Goto(w, there)
    BY <1>a, <1>31 DEF Exit, Place, Awaiting, Running
  <2> QED BY <1>a, <2>3, <2>4, MoveTyped
<1>32. CASE Settle(w)
  <2>1. mem' \in [Actor -> Row]
    BY <1>a, <1>b, <1>32, BlankTyped DEF Settle, DataOK
  <2>2. run' \in [Worker -> Drive]
    BY <1>a, <1>b, <1>32, BlankTyped DEF Settle, DataOK
  <2>3. sched' \in [Proc -> Entry]
    BY <1>a, <1>b, <1>32 DEF Settle, DataOK, Entry
  <2>4. DataOK'
    BY <1>b, <1>32, <2>1, <2>2, <2>3 DEF DataOK, Settle
  <2>5. \E there \in Place : Goto(w, there)
    BY <1>a, <1>32 DEF Settle, Place, Awaiting, Running
  <2> QED BY <1>a, <2>4, <2>5, MoveTyped
<1>33. CASE FailoverDeclined(w)
  BY <1>a, <1>33, OnlyMoveTyped DEF FailoverDeclined, Place, Awaiting, Running
<1>34. CASE Requeue(w)
  BY <1>a, <1>34, OnlyTransitionTyped
     DEF Requeue, Place, Awaiting, Running, State
<1>35. CASE GiveUp(w)
  BY <1>a, <1>35, OnlyTransitionTyped
     DEF GiveUp, Place, Awaiting, Running, State
<1> QED BY <1>1, <1>2, <1>3, <1>4, <1>5, <1>6, <1>7, <1>8, <1>9, <1>10,
           <1>11, <1>12, <1>13, <1>14, <1>15, <1>16, <1>17, <1>18, <1>19,
           <1>20, <1>21, <1>22, <1>23, <1>24, <1>25, <1>26, <1>27, <1>28,
           <1>29, <1>30, <1>31, <1>32, <1>33, <1>34, <1>35 DEF Drives

\* The faults of a worker.
LEMMA TypeFalters ==
    ASSUME Shapes, NEW w \in Worker, Falters(w)
    PROVE  Shapes'
<1>a. w \in Actor /\ Home[w] \in Proc
  BY ConstantsAssumption DEF Actor
<1>b. DataOK
  BY DEF Shapes, DataOK
<1>1. CASE FactoryFails(w)
  <2>1. budget' \in 0..MaxDisturbances
    BY <1>a, <1>b, <1>1, DisturbTyped DEF FactoryFails, DataOK
  <2>2. op' \in Row
    BY <1>a, <1>b, <1>1 DEF FactoryFails, DataOK, Row, State
  <2>3. mem' \in [Actor -> Row]
    BY <1>a, <1>b, <1>1, BlankTyped DEF FactoryFails, DataOK
  <2>4. sched' \in [Proc -> Entry]
    BY <1>a, <1>b, <1>1 DEF FactoryFails, DataOK, Entry
  <2>5. DataOK'
    BY <1>b, <1>1, <2>1, <2>2, <2>3, <2>4 DEF DataOK, FactoryFails
  <2>6. \E there \in Place : Goto(w, there)
    BY <1>a, <1>1 DEF FactoryFails, Place, Awaiting, Running
  <2> QED BY <1>a, <2>5, <2>6, MoveTyped
<1>2. CASE AcquireFails(w)
  <2>1. budget' \in 0..MaxDisturbances
    BY <1>a, <1>b, <1>2, DisturbTyped DEF AcquireFails, DataOK
  <2>2. DataOK'
    BY <1>b, <1>2, <2>1 DEF DataOK, AcquireFails
  <2>3. \E there \in Place : Goto(w, there)
    BY <1>a, <1>2 DEF AcquireFails, Place, Awaiting, Running
  <2> QED BY <1>a, <2>2, <2>3, MoveTyped
<1>3. CASE TurnThrows(w)
  <2>1. budget' \in 0..MaxDisturbances
    BY <1>a, <1>b, <1>3, DisturbTyped DEF TurnThrows, DataOK
  <2>2. DataOK'
    BY <1>b, <1>3, <2>1 DEF DataOK, TurnThrows
  <2>3. \E there \in Place : Goto(w, there)
    BY <1>a, <1>3 DEF TurnThrows, Place, Awaiting, Running
  <2> QED BY <1>a, <2>2, <2>3, MoveTyped
<1>4. CASE ProjectFails(w)
  <2>1. budget' \in 0..MaxDisturbances
    BY <1>a, <1>b, <1>4, DisturbTyped DEF ProjectFails, DataOK
  <2>2. opLock' \in Worker \cup {None}
    BY <1>a, <1>b, <1>4 DEF ProjectFails, DataOK
  <2>3. DataOK'
    BY <1>b, <1>4, <2>1, <2>2 DEF DataOK, ProjectFails
  <2>4. \E there \in Place : Goto(w, there)
    BY <1>a, <1>4 DEF ProjectFails, Place, Awaiting, Running
  <2> QED BY <1>a, <2>3, <2>4, MoveTyped
<1>5. CASE FailoverSwitches(w)
  <2>1. budget' \in 0..MaxDisturbances
    BY <1>5, DisturbTyped DEF FailoverSwitches
  <2>2. op' \in Row
    BY <1>b, <1>5 DEF FailoverSwitches, DataOK, Row
  <2>3. DataOK'
    BY <1>a, <1>b, <1>5, <2>1, <2>2 DEF DataOK, FailoverSwitches
  <2>4. \E there \in Place : Goto(w, there)
    BY <1>5 DEF FailoverSwitches, Place, Awaiting, Running
  <2> QED BY <1>a, <2>3, <2>4, MoveTyped
<1>6. CASE ReleaseFails(w)
  <2>1. budget' \in 0..MaxDisturbances
    BY <1>a, <1>b, <1>6, DisturbTyped DEF ReleaseFails, DataOK
  <2>2. run' \in [Worker -> Drive]
    BY <1>a, <1>b, <1>6 DEF ReleaseFails, DataOK, Drive
  <2>3. DataOK'
    BY <1>b, <1>6, <2>1, <2>2 DEF DataOK, ReleaseFails
  <2>4. \E there \in Place : Goto(w, there)
    BY <1>a, <1>6 DEF ReleaseFails, Place, Awaiting, Running
  <2> QED BY <1>a, <2>3, <2>4, MoveTyped
<1>7. CASE HeartbeatGivesUp(w)
  <2>1. budget' \in 0..MaxDisturbances
    BY <1>a, <1>b, <1>7, DisturbTyped DEF HeartbeatGivesUp, DataOK
  <2>2. run' \in [Worker -> Drive]
    BY <1>a, <1>b, <1>7 DEF HeartbeatGivesUp, DataOK, Drive
  <2>3. DataOK'
    BY <1>b, <1>7, <2>1, <2>2 DEF DataOK, HeartbeatGivesUp
  <2> QED BY <1>7, <2>3, StayTyped DEF HeartbeatGivesUp
<1>8. CASE FailoverFails(w)
  <2>1. budget' \in 0..MaxDisturbances
    BY <1>8, DisturbTyped DEF FailoverFails
  <2>2. DataOK'
    BY <1>b, <1>8, <2>1 DEF DataOK, FailoverFails
  <2>3. \E there \in Place : Goto(w, there)
    BY <1>8 DEF FailoverFails, Place, Awaiting, Running
  <2> QED BY <1>a, <2>2, <2>3, MoveTyped
<1>9. CASE FenceFails(w)
  <2>1. budget' \in 0..MaxDisturbances
    BY <1>9, DisturbTyped DEF FenceFails
  <2>2. DataOK'
    BY <1>b, <1>9, <2>1 DEF DataOK, FenceFails
  <2>3. \E there \in Place : Goto(w, there)
    BY <1>9 DEF FenceFails, Place, Awaiting, Running
  <2> QED BY <1>a, <2>2, <2>3, MoveTyped
<1> QED BY <1>1, <1>2, <1>3, <1>4, <1>5, <1>6, <1>7, <1>8, <1>9 DEF Falters

\* The heartbeat.
LEMMA TypeHeartbeat ==
    ASSUME Shapes, NEW w \in Worker, Heartbeat(w)
    PROVE  Shapes'
<1>a. w \in Actor /\ Home[w] \in Proc
  BY ConstantsAssumption DEF Actor
<1>b. DataOK
  BY DEF Shapes, DataOK
<1>1. CASE HeartbeatOK(w)
  <2>1. live' \subseteq 0..MaxGen
    BY <1>a, <1>b, <1>1 DEF HeartbeatOK, DataOK, Row
  <2>2. DataOK'
    BY <1>b, <1>1, <2>1 DEF DataOK, HeartbeatOK
  <2> QED BY <1>1, <2>2, StayTyped DEF HeartbeatOK
<1>2. CASE HeartbeatClaimLost(w)
  <2>1. run' \in [Worker -> Drive]
    BY <1>a, <1>b, <1>2 DEF HeartbeatClaimLost, DataOK, Drive
  <2>2. DataOK'
    BY <1>b, <1>2, <2>1 DEF DataOK, HeartbeatClaimLost
  <2> QED BY <1>2, <2>2, StayTyped DEF HeartbeatClaimLost
<1> QED BY <1>1, <1>2 DEF Heartbeat

\* The scheduler.
LEMMA TypeSchedules ==
    ASSUME Shapes, NEW p \in Proc, Schedules(p)
    PROVE  Shapes'
<1>a. p \in Actor
  BY DEF Actor
<1>b. DataOK
  BY DEF Shapes, DataOK
<1>1. CASE \E w \in Worker : Launch(p, w)
  <2>1. PICK w \in Worker : Launch(p, w)
    BY <1>1
  <2>2. DataOK'
    BY <1>b, <2>1 DEF DataOK, Launch, Entry, Actor
  <2>3. w \in Actor /\ Goto(w, "starting")
    BY <2>1 DEF Launch, Actor
  <2> QED BY <2>2, <2>3, MoveTyped DEF Place, Awaiting
<1>2. CASE PumpCancel(p)
  <2>1. mem' \in [Actor -> Row]
    BY <1>a, <1>b, <1>2 DEF PumpCancel, DataOK, Row
  <2>2. sched' \in [Proc -> Entry]
    BY <1>a, <1>b, <1>2 DEF PumpCancel, DataOK, Entry
  <2>3. DataOK'
    BY <1>b, <1>2, <2>1, <2>2 DEF DataOK, PumpCancel
  <2>4. \E there \in Place : Goto(p, there)
    BY <1>a, <1>2 DEF PumpCancel, Place, Awaiting, Running
  <2> QED BY <1>a, <2>3, <2>4, MoveTyped
<1>3. CASE TimerFires(p)
  <2>1. sched' \in [Proc -> Entry]
    BY <1>a, <1>b, <1>3 DEF TimerFires, DataOK, Entry, StillQueued
  <2>2. DataOK'
    BY <1>b, <1>3, <2>1 DEF DataOK, TimerFires
  <2> QED BY <1>3, <2>2, StayTyped DEF TimerFires
<1> QED BY <1>1, <1>2, <1>3 DEF Schedules

\* The rest of a control call.
LEMMA TypeAnswers ==
    ASSUME Shapes, NEW p \in Proc, Answers(p)
    PROVE  Shapes'
<1>a. p \in Actor
  BY DEF Actor
<1>b. DataOK
  BY DEF Shapes, DataOK
<1>1. CASE ResumeLands(p)
  <2>1. TransitionOp(p, "queued", "idle", "idle")
    BY <1>1 DEF ResumeLands
  <2>2. sched' \in [Proc -> Entry]
    BY <1>b, <1>1, EntryTyped DEF ResumeLands, DataOK
  <2> QED BY <1>a, <1>1, <2>1, <2>2, TransitionOpTyped
             DEF ResumeLands, Shapes, Place, Awaiting, Running, State
<1>2. CASE WriteCancelSignal(p)
  <2>1. op' \in Row
    BY <1>a, <1>b, <1>2 DEF WriteCancelSignal, DataOK, Row
  <2>2. DataOK'
    BY <1>b, <1>2, <2>1 DEF DataOK, WriteCancelSignal
  <2>3. \E there \in Place : Goto(p, there)
    BY <1>a, <1>2 DEF WriteCancelSignal, Place, Awaiting, Running
  <2> QED BY <1>a, <2>2, <2>3, MoveTyped
<1>3. CASE CancelReturns(p)
  <2>1. mem' \in [Actor -> Row]
    BY <1>a, <1>b, <1>3, SnapshotTyped DEF CancelReturns, DataOK
  <2>2. sched' \in [Proc -> Entry]
    BY <1>a, <1>b, <1>3 DEF CancelReturns, DataOK, Entry
  <2>3. DataOK'
    BY <1>b, <1>3, <2>1, <2>2 DEF DataOK, CancelReturns
  <2>4. \E there \in Place : Goto(p, there)
    BY <1>a, <1>3 DEF CancelReturns, Place, Awaiting, Running
  <2> QED BY <1>a, <2>3, <2>4, MoveTyped
<1>4. CASE \E w \in Worker : DeliverCancel(p, w)
  <2>1. PICK w \in Worker : DeliverCancel(p, w)
    BY <1>4
  <2>2. [mem[w] EXCEPT !.state = "cancelling"] \in Row
    BY <1>b DEF DataOK, Row, State, Actor
  <2>3. op' \in Row /\ mem' \in [Actor -> Row]
    BY <1>b, <2>1, <2>2, PersistTyped DEF DeliverCancel, DataOK, Actor
  <2>4. run' \in [Worker -> Drive]
    BY <1>b, <2>1 DEF DeliverCancel, DataOK, Drive
  <2>5. DataOK'
    BY <1>b, <2>1, <2>3, <2>4 DEF DataOK, DeliverCancel
  <2> QED BY <2>1, <2>5, StayTyped DEF DeliverCancel
<1>5. CASE ClearSignal(p)
  <2>1. op' \in Row
    BY <1>a, <1>b, <1>5 DEF ClearSignal, DataOK
  <2>2. DataOK'
    BY <1>b, <1>5, <2>1 DEF DataOK, ClearSignal
  <2>3. \E there \in Place : Goto(p, there)
    BY <1>a, <1>5 DEF ClearSignal, Place, Awaiting, Running
  <2> QED BY <1>a, <2>2, <2>3, MoveTyped
<1>6. CASE CloseCancelled(p)
  BY <1>a, <1>6, OnlyTransitionTyped
     DEF CloseCancelled, Place, Awaiting, Running, State
<1> QED BY <1>1, <1>2, <1>3, <1>4, <1>5, <1>6 DEF Answers

\* The control calls.
LEMMA TypeCalls ==
    ASSUME Shapes, NEW p \in Proc, Calls(p)
    PROVE  Shapes'
<1>a. p \in Actor
  BY DEF Actor
<1>b. DataOK
  BY DEF Shapes, DataOK
<1>1. CASE OpPause(p)
  <2>1. op' \in Row
    BY <1>a, <1>b, <1>1 DEF OpPause, DataOK, Row
  <2>2. budget' \in 0..MaxDisturbances
    BY <1>a, <1>b, <1>1, DisturbTyped DEF OpPause, DataOK
  <2>3. DataOK'
    BY <1>b, <1>1, <2>1, <2>2 DEF DataOK, OpPause
  <2> QED BY <1>1, <2>3, StayTyped DEF OpPause
<1>2. CASE ResumeWithdraws(p)
  <2>1. op' \in Row
    BY <1>a, <1>b, <1>2 DEF ResumeWithdraws, DataOK, Row
  <2>2. DataOK'
    BY <1>b, <1>2, <2>1 DEF DataOK, ResumeWithdraws
  <2> QED BY <1>2, <2>2, StayTyped DEF ResumeWithdraws
<1>3. CASE OpResume(p)
  <2>1. mem' \in [Actor -> Row]
    BY <1>a, <1>b, <1>3 DEF OpResume, DataOK
  <2>2. budget' \in 0..MaxDisturbances
    BY <1>a, <1>b, <1>3, DisturbTyped DEF OpResume, DataOK
  <2>3. DataOK'
    BY <1>b, <1>3, <2>1, <2>2 DEF DataOK, OpResume
  <2>4. \E there \in Place : Goto(p, there)
    BY <1>a, <1>3 DEF OpResume, Place, Awaiting, Running
  <2> QED BY <1>a, <2>3, <2>4, MoveTyped
<1>4. CASE OpCancel(p)
  <2>1. mem' \in [Actor -> Row]
    BY <1>a, <1>b, <1>4 DEF OpCancel, DataOK
  <2>2. budget' \in 0..MaxDisturbances
    BY <1>a, <1>b, <1>4, DisturbTyped DEF OpCancel, DataOK
  <2>3. DataOK'
    BY <1>b, <1>4, <2>1, <2>2 DEF DataOK, OpCancel
  <2>4. \E there \in Place : Goto(p, there)
    BY <1>a, <1>4 DEF OpCancel, Place, Awaiting, Running
  <2> QED BY <1>a, <2>3, <2>4, MoveTyped
<1> QED BY <1>1, <1>2, <1>3, <1>4 DEF Calls

\* Recovery.
LEMMA TypeRecovers ==
    ASSUME Shapes, NEW p \in Proc, Recovers(p)
    PROVE  Shapes'
<1>a. p \in Actor
  BY DEF Actor
<1>b. DataOK
  BY DEF Shapes, DataOK
<1>1. CASE RecoverPublished(p)
  <2>1. op' \in Row
    BY <1>a, <1>b, <1>1 DEF RecoverPublished, DataOK, Row, State, StateOf
  <2>2. DataOK'
    BY <1>b, <1>1, <2>1 DEF DataOK, RecoverPublished
  <2> QED BY <1>1, <2>2, StayTyped DEF RecoverPublished
<1>2. CASE RecoverStaleOp(p)
  <2>1. op.attempts + 1 \in Nat
    BY <1>b DEF DataOK, Row
  <2>2. op' \in Row
    BY <1>a, <1>b, <1>2, <2>1 DEF RecoverStaleOp, DataOK, Row, State
  <2>3. sched' \in [Proc -> Entry]
    BY <1>a, <1>b, <1>2, EntryTyped DEF RecoverStaleOp, DataOK
  <2>4. DataOK'
    BY <1>b, <1>2, <2>1, <2>2, <2>3 DEF DataOK, RecoverStaleOp
  <2> QED BY <1>2, <2>4, StayTyped DEF RecoverStaleOp
<1> QED BY <1>1, <1>2 DEF Recovers

\* A crash blanks what the process held.
LEMMA TypeCrash ==
    ASSUME Shapes, NEW p \in Proc, Crash(p)
    PROVE  Shapes'
<1>1. budget' \in 0..MaxDisturbances
  BY DisturbTyped DEF Crash
<1>2. mem' \in [Actor -> Row] /\ pc' \in [Actor -> Place]
      /\ run' \in [Worker -> Drive]
  BY BlankTyped DEF Crash, Shapes, Place, Awaiting
<1> QED BY BlankTyped, <1>1, <1>2 DEF Crash, Shapes, Place

\* The initial state is typed.
LEMMA TypeInit == Init => Shapes
<1> SUFFICES ASSUME Init PROVE Shapes
  OBVIOUS
<1>1. \A b \in BOOLEAN : [NoEntry EXCEPT !.queued = b] \in Entry
  BY DEF NoEntry, Entry
<1>2. PICK p \in Proc :
        sched = [q \in Proc |-> [NoEntry EXCEPT !.queued = (q = p)]]
  BY DEF Init
<1>3. \A q \in Proc : (q = p) \in BOOLEAN
  OBVIOUS
<1>4. sched \in [Proc -> Entry]
  BY <1>1, <1>2, <1>3
<1> QED BY BlankTyped, <1>4, ConstantsAssumption DEF Init, Shapes, Awaiting

\* Every step keeps the types.
LEMMA TypeNext == Shapes /\ CommitReady /\ [Next]_vars => Shapes'
<1> SUFFICES ASSUME Shapes, CommitReady, [Next]_vars PROVE Shapes'
  OBVIOUS
<1>1. ASSUME NEW w \in Worker, Drives(w) \/ Falters(w) \/ Heartbeat(w)
      PROVE  Shapes'
  BY <1>1, TypeDrives, TypeFalters, TypeHeartbeat
<1>2. ASSUME NEW p \in Proc,
             Schedules(p) \/ Answers(p) \/ Calls(p) \/ Recovers(p) \/ Crash(p)
      PROVE  Shapes'
  BY <1>2, TypeSchedules, TypeAnswers, TypeCalls, TypeRecovers, TypeCrash
<1>3. CASE LeaseExpires
  <2>1. DataOK'
    BY <1>3 DEF LeaseExpires, Shapes, DataOK
  <2> QED BY <1>3, <2>1, StayTyped DEF LeaseExpires
<1>4. CASE UNCHANGED vars
  BY <1>4 DEF vars, Shapes
<1> QED BY <1>1, <1>2, <1>3, <1>4 DEF Next

-----------------------------------------------------------------------------
(* Every step keeps the attempts within the retry policy and the switches *)

\* A row charged with no more attempts than the policy and the switches allow.
Afforded(row) == row.attempts <= MaxAttempts + SwitchesSoFar

\* A step without a switch writes no row with more.
Uncharged ==
    /\ Afforded(op')
    /\ \A a \in Actor : Afforded(mem'[a])

\* What is spent of the budget is a number.
LEMMA SpentTyped ==
    \A left \in 0..MaxDisturbances : MaxDisturbances - left \in Nat
<1>1. MaxDisturbances \in Nat
  BY ConstantsAssumption
<1> QED BY <1>1

\* How many switches there were is a number.
LEMMA SwitchesTyped ==
    ASSUME Shapes
    PROVE  MaxAttempts \in Nat /\ SwitchesSoFar \in Nat
BY ConstantsAssumption DEF Shapes, SwitchesSoFar

\* The rows of a state in which the attempts are charged.
LEMMA RowsAfforded ==
    ASSUME Shapes, AttemptsCharged
    PROVE  /\ Afforded(op) /\ op.attempts \in Nat
           /\ \A a \in Actor : Afforded(mem[a]) /\ mem[a].attempts \in Nat
BY DEF AttemptsCharged, Afforded, Shapes, Row

\* The budget is spent, never refilled.
LEMMA SwitchesGrow ==
    ASSUME Shapes, [Next]_vars
    PROVE  SwitchesSoFar' >= SwitchesSoFar
<1>1. UNCHANGED budget \/ \E kind : Disturb(kind)
  <2>1. ASSUME NEW w \in Worker, Drives(w)
        PROVE  UNCHANGED budget
    BY <2>1 DEF Drives, EnterDrive, Acquire, Refresh, Begin, Reconcile,
       BeginTurn, StopAtTop, TurnEnds, Commit, Project, LeaveLost, AwaitAbort,
       FinishOnWallClock, AwaitFailover, Suspend, LeaveDone, PerTurnStop,
       BoundaryCancel, BoundaryPause, PauseLands, NextTurn, FailoverDeclined,
       AdapterRetries, Requeue, AdapterExhausted, GiveUp, Rearm,
       FinalizeCancel, ClearSignal, CloseCancelled, BoundaryCancelling,
       BoundaryAborted, Throw, Exit, Settle
  <2>2. ASSUME NEW w \in Worker, Falters(w)
        PROVE  \E kind : Disturb(kind)
    BY <2>2 DEF Falters, FactoryFails, AcquireFails, TurnThrows, ProjectFails,
       FailoverSwitches, ReleaseFails, HeartbeatGivesUp, FailoverFails,
       FenceFails
  <2>3. ASSUME NEW w \in Worker, Heartbeat(w)
        PROVE  UNCHANGED budget
    BY <2>3 DEF Heartbeat, HeartbeatOK, HeartbeatClaimLost
  <2>4. ASSUME NEW p \in Proc, Schedules(p) \/ Answers(p) \/ Recovers(p)
        PROVE  UNCHANGED budget
    BY <2>4 DEF Schedules, Launch, PumpCancel, TimerFires, Answers,
       ResumeLands, WriteCancelSignal, CancelReturns, DeliverCancel,
       ClearSignal, CloseCancelled, Recovers, RecoverPublished, RecoverStaleOp
  <2>5. ASSUME NEW p \in Proc, Calls(p) \/ Crash(p)
        PROVE  UNCHANGED budget \/ \E kind : Disturb(kind)
    BY <2>5 DEF Calls, OpPause, ResumeWithdraws, OpResume, OpCancel, Crash
  <2>6. CASE LeaseExpires \/ UNCHANGED vars
    BY <2>6 DEF LeaseExpires, vars
  <2> QED BY <2>1, <2>2, <2>3, <2>4, <2>5, <2>6 DEF Next
<1> QED BY <1>1, ConstantsAssumption DEF Shapes, SwitchesSoFar, Disturb

\* A step that charges nothing keeps the attempts charged.
LEMMA UnchargedKeeps ==
    ASSUME Shapes, Shapes', [Next]_vars, Uncharged
    PROVE  AttemptsCharged'
<1>1. /\ MaxAttempts \in Nat
      /\ SwitchesSoFar \in Nat /\ SwitchesSoFar' \in Nat
  <2>1. budget' \in 0..MaxDisturbances
    BY DEF Shapes
  <2>2. SwitchesSoFar' \in {MaxDisturbances - budget', 0}
    BY DEF SwitchesSoFar
  <2> QED BY <2>1, <2>2, SpentTyped, SwitchesTyped
<1>2. /\ op'.attempts \in Nat
      /\ \A a \in Actor : mem'[a].attempts \in Nat
  BY DEF Shapes, Row
<1>3. SwitchesSoFar' >= SwitchesSoFar
  BY SwitchesGrow
<1> QED BY <1>1, <1>2, <1>3 DEF Uncharged, Afforded, AttemptsCharged

\* A step that writes at most one actor's copy.
LEMMA OneCopyUncharged ==
    ASSUME Shapes, AttemptsCharged, NEW a \in Actor, NEW row, Afforded(row),
           Afforded(op'), mem' = [mem EXCEPT ![a] = row]
    PROVE  Uncharged
BY RowsAfforded DEF Uncharged, Shapes

\* A step that writes no copy.
LEMMA NoCopyUncharged ==
    ASSUME Shapes, AttemptsCharged, Afforded(op'), UNCHANGED mem
    PROVE  Uncharged
BY RowsAfforded DEF Uncharged

\* Persisting a copy keeps its attempts.
LEMMA PersistUncharged ==
    ASSUME Shapes, AttemptsCharged, NEW a \in Actor, NEW mine, Afforded(mine),
           Persist(a, mine)
    PROVE  Uncharged
<1>1. Merge(mine, op).attempts = mine.attempts
  BY DEF Merge, Shapes, Row
<1>2. Afforded(Merge(mine, op))
  BY <1>1 DEF Afforded
<1> QED BY <1>2, OneCopyUncharged DEF Persist

\* transitionOp charges nothing.
LEMMA TransitionUncharged ==
    ASSUME Shapes, AttemptsCharged, NEW a \in Actor, NEW to, NEW next,
           NEW illegal, TransitionOp(a, to, next, illegal)
    PROVE  Uncharged
<1>1. CASE Persist(a, [mem[a] EXCEPT !.state = to])
  <2>1. [mem[a] EXCEPT !.state = to].attempts = mem[a].attempts
    BY DEF Shapes, Row
  <2>2. Afforded([mem[a] EXCEPT !.state = to])
    BY <2>1, RowsAfforded DEF Afforded
  <2> QED BY <1>1, <2>2, PersistUncharged
<1>2. CASE UNCHANGED <<op, mem>>
  BY <1>2, RowsAfforded, NoCopyUncharged
<1> QED BY <1>1, <1>2 DEF TransitionOp

\* Nor does a copy of the row that keeps the counters in memory.
LEMMA SnapshotAfforded ==
    ASSUME Shapes, AttemptsCharged, NEW a \in Actor
    PROVE  /\ Afforded(Snapshot(a))
           /\ Afforded([Snapshot(a) EXCEPT !.cancel = FALSE])
           /\ Afforded([Snapshot(a) EXCEPT !.pause = FALSE])
<1>1. /\ Snapshot(a).attempts = mem[a].attempts
      /\ [Snapshot(a) EXCEPT !.cancel = FALSE].attempts = mem[a].attempts
      /\ [Snapshot(a) EXCEPT !.pause = FALSE].attempts = mem[a].attempts
  BY DEF Snapshot, Shapes, Row
<1> QED BY <1>1, RowsAfforded DEF Afforded

\* A row written over with the attempts it had, or one more where the policy
\* allowed it, is afforded.
LEMMA RewrittenAfforded ==
    ASSUME Shapes, AttemptsCharged, NEW row,
           \/ row.attempts = op.attempts
           \/ MayRetry(op) /\ row.attempts = op.attempts + 1
           \/ row.attempts = 0
    PROVE  Afforded(row)
BY RowsAfforded, SwitchesTyped DEF Afforded, MayRetry

\* A worker's own code charges an attempt only where the policy allows it.
LEMMA DrivesUncharged ==
    ASSUME Shapes, AttemptsCharged, NEW w \in Worker, Drives(w)
    PROVE  Uncharged
<1>a. w \in Actor
  BY DEF Actor
<1>1. CASE \/ BeginTurn(w) \/ TurnEnds(w) \/ Commit(w) \/ LeaveLost(w)
           \/ AwaitAbort(w) \/ AwaitFailover(w) \/ LeaveDone(w) \/ NextTurn(w)
           \/ FailoverDeclined(w) \/ Rearm(w) \/ BoundaryAborted(w)
  <2>1. UNCHANGED <<op, mem>>
    BY <1>1 DEF BeginTurn, TurnEnds, Commit, LeaveLost, AwaitAbort,
                AwaitFailover, LeaveDone, NextTurn, FailoverDeclined, Rearm,
                BoundaryAborted
  <2> QED BY <2>1, RowsAfforded, NoCopyUncharged
<1>2. CASE \/ Begin(w) \/ StopAtTop(w) \/ FinishOnWallClock(w) \/ Suspend(w)
           \/ PerTurnStop(w) \/ PauseLands(w) \/ Requeue(w) \/ GiveUp(w)
           \/ CloseCancelled(w) \/ BoundaryCancelling(w)
  <2>1. \E to, next, illegal : TransitionOp(w, to, next, illegal)
    BY <1>2 DEF Begin, StopAtTop, FinishOnWallClock, Suspend, PerTurnStop,
                PauseLands, Requeue, GiveUp, CloseCancelled, BoundaryCancelling
  <2> QED BY <1>a, <2>1, TransitionUncharged
<1>3. CASE Throw(w)
  <2>1. UNCHANGED <<op, mem>> \/ TransitionOp(w, "failed", "exit", "exit")
    BY <1>3 DEF Throw
  <2> QED BY <1>a, <2>1, TransitionUncharged, RowsAfforded, NoCopyUncharged
<1>4. CASE EnterDrive(w) \/ BoundaryCancel(w) \/ FinalizeCancel(w)
  <2>1. /\ UNCHANGED op
        /\ \/ UNCHANGED mem
           \/ \E row : Afforded(row) /\ mem' = [mem EXCEPT ![w] = row]
    BY <1>a, <1>4, SnapshotAfforded DEF EnterDrive, BoundaryCancel, FinalizeCancel
  <2> QED BY <1>a, <2>1, RowsAfforded, NoCopyUncharged, OneCopyUncharged
<1>5. CASE BoundaryPause(w)
  BY <1>a, <1>5, SnapshotAfforded, OneCopyUncharged DEF BoundaryPause
<1>6. CASE Refresh(w)
  BY <1>a, <1>6, RowsAfforded, OneCopyUncharged DEF Refresh
<1>7. CASE Acquire(w) \/ Exit(w)
  <2>1. op'.attempts = op.attempts
    BY <1>7 DEF Acquire, Exit, Released, Shapes, Row
  <2>2. UNCHANGED mem
    BY <1>7 DEF Acquire, Exit
  <2> QED BY <2>1, <2>2, RewrittenAfforded, NoCopyUncharged
<1>8. CASE Reconcile(w) \/ Project(w)
  <2>1. \/ UNCHANGED <<op, mem>>
        \/ /\ \E outcome : op' = ProjectTo(outcome)
           /\ mem' = [mem EXCEPT ![w] = op']
    BY <1>8 DEF Reconcile, Project
  <2>2. \A outcome : ProjectTo(outcome).attempts = op.attempts
    BY DEF ProjectTo, Shapes, Row
  <2>3. Afforded(op')
    BY <2>1, <2>2, RewrittenAfforded
  <2> QED BY <1>a, <2>1, <2>3, NoCopyUncharged, OneCopyUncharged
<1>9. CASE AdapterRetries(w)
  <2>1. mem[w] \in Row
    BY <1>a DEF Shapes
  <2>2. [mem[w] EXCEPT !.attempts = @ + 1].attempts = mem[w].attempts + 1
    BY <2>1 DEF Row
  <2>3. mem[w].attempts + 1 <= MaxAttempts + SwitchesSoFar
    BY <1>a, <1>9, RowsAfforded, SwitchesTyped DEF AdapterRetries, MayRetry
  <2>4. Afforded([mem[w] EXCEPT !.attempts = @ + 1])
    BY <2>2, <2>3 DEF Afforded
  <2> QED BY <1>a, <1>9, <2>4, PersistUncharged DEF AdapterRetries
<1>10. CASE AdapterExhausted(w)
  BY <1>a, <1>10, RowsAfforded, PersistUncharged DEF AdapterExhausted
<1>11. CASE ClearSignal(w)
  BY <1>a, <1>11, RowsAfforded, NoCopyUncharged DEF ClearSignal
<1>12. CASE Settle(w)
  <2>1. Afforded(Blank)
    BY RewrittenAfforded DEF Blank
  <2> QED BY <1>a, <1>12, <2>1, RowsAfforded, OneCopyUncharged DEF Settle
<1> QED BY <1>1, <1>2, <1>3, <1>4, <1>5, <1>6, <1>7, <1>8, <1>9, <1>10,
           <1>11, <1>12 DEF Drives

\* A switch of runtime charges one attempt and is one of the switches.
LEMMA SwitchCharged ==
    ASSUME Shapes, Shapes', AttemptsCharged, NEW w \in Worker,
           FailoverSwitches(w)
    PROVE  AttemptsCharged'
<1>1. /\ MaxAttempts \in Nat /\ SwitchesSoFar \in Nat
      /\ SwitchesSoFar' = SwitchesSoFar + 1
  BY SwitchesTyped, ConstantsAssumption
     DEF FailoverSwitches, Disturb, SwitchesSoFar, Shapes
<1>2. op'.attempts = op.attempts + 1
  BY DEF FailoverSwitches, Shapes, Row
<1>3. op'.attempts <= MaxAttempts + SwitchesSoFar'
  BY <1>1, <1>2, RowsAfforded DEF Afforded
<1>4. \A a \in Actor : mem'[a] = op' \/ mem'[a] = mem[a]
  BY DEF FailoverSwitches, Shapes
<1>5. \A a \in Actor : mem[a].attempts <= MaxAttempts + SwitchesSoFar'
  BY <1>1, RowsAfforded DEF Afforded
<1> QED BY <1>3, <1>4, <1>5 DEF AttemptsCharged

\* The other faults of a worker, and its heartbeat, charge nothing.
LEMMA FaltersUncharged ==
    ASSUME Shapes, AttemptsCharged, NEW w \in Worker,
           Falters(w) \/ Heartbeat(w), ~FailoverSwitches(w)
    PROVE  Uncharged
<1>1. CASE FactoryFails(w)
  <2>1. op'.attempts = op.attempts
    BY <1>1 DEF FactoryFails, Shapes, Row
  <2>2. Afforded(op') /\ Afforded(Blank)
    BY <2>1, RewrittenAfforded DEF Blank
  <2> QED BY <1>1, <2>2, OneCopyUncharged DEF FactoryFails, Actor
<1>2. CASE ~FactoryFails(w)
  <2>1. UNCHANGED <<op, mem>>
    BY <1>2 DEF Falters, Heartbeat, AcquireFails, TurnThrows, ProjectFails,
                ReleaseFails, HeartbeatGivesUp, FailoverFails, FenceFails,
                HeartbeatOK, HeartbeatClaimLost
  <2> QED BY <2>1, RowsAfforded, NoCopyUncharged
<1> QED BY <1>1, <1>2

\* Nor do the scheduler, the control API and a crash; recovery asks the policy.
LEMMA ProcessUncharged ==
    ASSUME Shapes, AttemptsCharged, NEW p \in Proc,
           Schedules(p) \/ Answers(p) \/ Calls(p) \/ Recovers(p) \/ Crash(p)
    PROVE  Uncharged
<1>a. p \in Actor /\ Worker \subseteq Actor
  BY DEF Actor
<1>1. CASE Schedules(p)
  <2>1. CASE TimerFires(p)
    BY <2>1, RowsAfforded, NoCopyUncharged DEF TimerFires
  <2>2. CASE PumpCancel(p)
    <3>1. [op EXCEPT !.cancel = FALSE].attempts = op.attempts
      BY DEF Shapes, Row
    <3>2. Afforded([op EXCEPT !.cancel = FALSE])
      BY <3>1, RewrittenAfforded
    <3> QED BY <1>a, <2>2, <3>2, RowsAfforded, OneCopyUncharged DEF PumpCancel
  <2>3. CASE \E w \in Worker : Launch(p, w)
    BY <1>a, <2>3, RowsAfforded, OneCopyUncharged DEF Launch
  <2> QED BY <1>1, <2>1, <2>2, <2>3 DEF Schedules
<1>2. CASE Answers(p)
  <2>1. CASE ResumeLands(p) \/ CloseCancelled(p)
    BY <1>a, <2>1, TransitionUncharged DEF ResumeLands, CloseCancelled
  <2>2. CASE WriteCancelSignal(p)
    <3>1. op'.attempts = op.attempts /\ UNCHANGED mem
      BY <2>2 DEF WriteCancelSignal, Shapes, Row
    <3> QED BY <3>1, RewrittenAfforded, NoCopyUncharged
  <2>3. CASE CancelReturns(p)
    <3>1. /\ UNCHANGED op
          /\ \/ UNCHANGED mem
             \/ \E row : Afforded(row) /\ mem' = [mem EXCEPT ![p] = row]
      BY <1>a, <2>3, SnapshotAfforded DEF CancelReturns
    <3> QED BY <1>a, <3>1, RowsAfforded, NoCopyUncharged, OneCopyUncharged
  <2>4. CASE \E w \in Worker : DeliverCancel(p, w)
    <3>1. PICK w \in Worker : DeliverCancel(p, w)
      BY <2>4
    <3>2. CASE UNCHANGED <<op, mem>>
      BY <3>2, RowsAfforded, NoCopyUncharged
    <3>3. CASE Persist(w, [mem[w] EXCEPT !.state = "cancelling"])
      <4>1. [mem[w] EXCEPT !.state = "cancelling"].attempts = mem[w].attempts
        BY <1>a DEF Shapes, Row
      <4>2. Afforded([mem[w] EXCEPT !.state = "cancelling"])
        BY <1>a, <4>1, RowsAfforded DEF Afforded
      <4> QED BY <1>a, <3>3, <4>2, PersistUncharged
    <3> QED BY <3>1, <3>2, <3>3 DEF DeliverCancel
  <2>5. CASE ClearSignal(p)
    BY <1>a, <2>5, RowsAfforded, NoCopyUncharged DEF ClearSignal
  <2> QED BY <1>2, <2>1, <2>2, <2>3, <2>4, <2>5 DEF Answers
<1>3. CASE Calls(p)
  <2>1. CASE OpPause(p) \/ ResumeWithdraws(p)
    <3>1. op'.attempts = op.attempts /\ UNCHANGED mem
      BY <2>1 DEF OpPause, ResumeWithdraws, Shapes, Row
    <3> QED BY <3>1, RewrittenAfforded, NoCopyUncharged
  <2>2. CASE OpResume(p) \/ OpCancel(p)
    BY <1>a, <2>2, RowsAfforded, OneCopyUncharged DEF OpResume, OpCancel
  <2> QED BY <1>3, <2>1, <2>2 DEF Calls
<1>4. CASE Recovers(p)
  <2>1. \/ op'.attempts = op.attempts
        \/ MayRetry(op) /\ op'.attempts = op.attempts + 1
    BY <1>4 DEF Recovers, RecoverPublished, RecoverStaleOp, Shapes, Row
  <2>2. UNCHANGED mem
    BY <1>4 DEF Recovers, RecoverPublished, RecoverStaleOp
  <2> QED BY <2>1, <2>2, RewrittenAfforded, NoCopyUncharged
<1>5. CASE Crash(p)
  <2>1. Afforded(Blank)
    BY RewrittenAfforded DEF Blank
  <2>2. UNCHANGED op /\ \A a \in Actor : mem'[a] = Blank \/ mem'[a] = mem[a]
    BY <1>5 DEF Crash
  <2> QED BY <2>1, <2>2, RowsAfforded DEF Uncharged
<1> QED BY <1>1, <1>2, <1>3, <1>4, <1>5

\* Every step keeps the attempts charged.
LEMMA AttemptsNext ==
    Shapes /\ Shapes' /\ AttemptsCharged /\ [Next]_vars => AttemptsCharged'
<1> SUFFICES ASSUME Shapes, Shapes', AttemptsCharged, [Next]_vars
             PROVE  AttemptsCharged'
  OBVIOUS
<1>1. ASSUME NEW w \in Worker, FailoverSwitches(w) PROVE AttemptsCharged'
  BY <1>1, SwitchCharged
<1>2. ASSUME NEW w \in Worker, ~FailoverSwitches(w),
             Drives(w) \/ Falters(w) \/ Heartbeat(w)
      PROVE  AttemptsCharged'
  BY <1>2, DrivesUncharged, FaltersUncharged, UnchargedKeeps
<1>3. ASSUME NEW p \in Proc,
             Schedules(p) \/ Answers(p) \/ Calls(p) \/ Recovers(p) \/ Crash(p)
      PROVE  AttemptsCharged'
  BY <1>3, ProcessUncharged, UnchargedKeeps
<1>4. CASE LeaseExpires \/ UNCHANGED vars
  <2>1. UNCHANGED <<op, mem>>
    BY <1>4 DEF LeaseExpires, vars
  <2> QED BY <2>1, RowsAfforded, NoCopyUncharged, UnchargedKeeps
<1> QED BY <1>1, <1>2, <1>3, <1>4 DEF Next

\* No attempt was charged to begin with.
LEMMA AttemptsInit == Init => AttemptsCharged
<1> SUFFICES ASSUME Init PROVE AttemptsCharged
  OBVIOUS
<1>1. Shapes
  BY TypeInit
<1>2. op.attempts = 0 /\ \A a \in Actor : mem[a].attempts = 0
  BY DEF Init, Blank
<1> QED BY <1>1, <1>2, SwitchesTyped DEF AttemptsCharged

-----------------------------------------------------------------------------
(* Every step keeps the turn log without gaps *)

\* Places where a worker holds a turn it is committing or has committed.
Holding == {"commit", "project", "after"}

\* A step that publishes nothing and moves no worker on in its turn.
Quiet ==
    /\ UNCHANGED turns
    /\ \A v \in Worker :
        /\ run'[v].turn = run[v].turn \/ run'[v].turn = 0
        /\ \/ pc'[v] \notin Holding
           \/ /\ pc'[v] = pc[v]
              /\ run'[v].turn = run[v].turn /\ run'[v].result = run[v].result

\* A quiet step keeps the invariant.
LEMMA QuietTurnInv == TurnInv /\ Quiet => TurnInv'
<1> SUFFICES ASSUME TurnInv, Quiet PROVE TurnInv'
  OBVIOUS
<1>1. CommitReady'
  BY DEF TurnInv, CommitReady, Quiet, Holding
<1>2. PublishedBehind'
  <2>1. \A j \in Turn : ~(j < 0)
    BY ConstantsAssumption DEF Turn
  <2> QED BY <2>1 DEF TurnInv, PublishedBehind, Quiet
<1>3. PublishedHere'
  BY DEF TurnInv, PublishedHere, Quiet, Holding
<1>4. NoTurnGap'
  BY DEF TurnInv, NoTurnGap, Quiet
<1> QED BY <1>1, <1>2, <1>3, <1>4 DEF TurnInv

\* An actor that moves elsewhere and keeps its drive() locals is quiet.
LEMMA QuietMove ==
    ASSUME Shapes, NEW a \in Actor, NEW there, there \notin Holding,
           Goto(a, there), UNCHANGED <<turns, run>>
    PROVE  Quiet
BY DEF Shapes, Goto, Quiet, Actor

\* transitionOp is quiet unless it leads there.
LEMMA QuietTransition ==
    ASSUME Shapes, NEW a \in Actor, NEW to, NEW next, NEW illegal,
           next \notin Holding, illegal \notin Holding,
           TransitionOp(a, to, next, illegal), UNCHANGED <<turns, run>>
    PROVE  Quiet
BY QuietMove DEF TransitionOp

\* The artifact a worker publishes is one.
LEMMA ArtifactCommitted ==
    ASSUME Shapes, CommitReady, NEW w \in Worker, Commit(w)
    PROVE  [gen |-> op.gen, outcome |-> run[w].result] \in Artifact
BY DEF Shapes, CommitReady, Commit, Runs, Row, Artifact

\* A worker that moves elsewhere and keeps its turn, or forgets it.
LEMMA QuietWorker ==
    ASSUME Shapes, NEW w \in Worker, NEW there, there \notin Holding,
           Goto(w, there), UNCHANGED turns, NEW d,
           run' = [run EXCEPT ![w] = d], d.turn = run[w].turn \/ d.turn = 0
    PROVE  Quiet
BY DEF Shapes, Goto, Quiet, Actor

\* The worker's own code.
LEMMA TurnDrives ==
    ASSUME Shapes, TurnInv, NEW w \in Worker, Drives(w)
    PROVE  TurnInv'
<1>a. w \in Actor
  BY DEF Actor
<1>1. CASE EnterDrive(w)
  BY <1>a, <1>1, QuietMove, QuietTurnInv DEF EnterDrive, Holding
<1>2. CASE Acquire(w)
  <2>1. CASE UNCHANGED run
    BY <1>a, <1>2, <2>1, QuietMove, QuietTurnInv DEF Acquire, Holding
  <2>2. CASE run' = [run EXCEPT ![w].claim = op.gen + 1]
    <3> DEFINE d == [run[w] EXCEPT !.claim = op.gen + 1]
    <3>1. run' = [run EXCEPT ![w] = d] /\ d.turn = run[w].turn
      BY <2>2 DEF Shapes, Drive
    <3> HIDE DEF d
    <3>2. PICK there : Goto(w, there) /\ there \notin Holding
      BY <1>2 DEF Acquire, Holding
    <3> QED BY <1>2, <3>1, <3>2, QuietWorker, QuietTurnInv DEF Acquire
  <2> QED BY <1>2, <2>1, <2>2 DEF Acquire
<1>3. CASE Refresh(w)
  <2> DEFINE d == [run[w] EXCEPT !.tracker = "on", !.armed = TRUE]
  <2>1. run' = [run EXCEPT ![w] = d] /\ d.turn \in {run[w].turn, 0}
    BY <1>3 DEF Refresh, Shapes, Drive, NotDriving
  <2> HIDE DEF d
  <2>2. PICK there : Goto(w, there) /\ there \notin Holding
    BY <1>3 DEF Refresh, Holding
  <2> QED BY <1>3, <2>1, <2>2, QuietWorker, QuietTurnInv DEF Refresh
<1>4. CASE Begin(w)
  BY <1>a, <1>4, QuietTransition, QuietTurnInv DEF Begin, Holding
<1>5. CASE Reconcile(w)
  <2>1. CASE UNCHANGED run
    BY <1>a, <1>5, <2>1, QuietMove, QuietTurnInv DEF Reconcile, Holding
  <2>2. CASE run' = [run EXCEPT ![w].turn = FirstTurn]
    <3>1. \A v \in Worker : v # w => run'[v] = run[v]
      BY <2>2 DEF Shapes
    <3>2. run'[w].turn = Latest + 1
      BY <2>2 DEF Shapes, Drive, FirstTurn
    <3>3. \A v \in Worker : pc'[v] \in Holding => v # w /\ pc'[v] = pc[v]
      <4>1. PICK there : Goto(w, there) /\ there \notin Holding
        BY <1>5 DEF Reconcile, Holding
      <4> QED BY <1>a, <4>1 DEF Goto, Shapes, Actor
    <3>4. \A j \in Turn : j < Latest + 1 => turns[j] # None
      BY LatestTyped, ConstantsAssumption
         DEF TurnInv, NoTurnGap, Turn, Published
    <3>5. UNCHANGED turns
      BY <1>5 DEF Reconcile
    <3>6. CommitReady' /\ PublishedHere' /\ NoTurnGap'
      BY <3>1, <3>3, <3>5
         DEF TurnInv, CommitReady, PublishedHere, NoTurnGap, Holding
    <3>7. PublishedBehind'
      BY <3>1, <3>2, <3>4, <3>5 DEF TurnInv, PublishedBehind
    <3> QED BY <3>6, <3>7 DEF TurnInv
  <2> QED BY <1>5, <2>1, <2>2 DEF Reconcile
<1>6. CASE BeginTurn(w)
  BY <1>a, <1>6, QuietMove, QuietTurnInv DEF BeginTurn, Holding
<1>7. CASE StopAtTop(w)
  BY <1>a, <1>7, QuietTransition, QuietTurnInv DEF StopAtTop, Holding
<1>8. CASE TurnEnds(w)
  <2>1. /\ \A v \in Worker : run'[v].turn = run[v].turn
        /\ \A v \in Worker : v # w => run'[v].result = run[v].result
    BY <1>8 DEF TurnEnds, Shapes, Drive
  <2>2. \A v \in Worker : v # w => pc'[v] = pc[v]
    BY <1>a, <1>8 DEF TurnEnds, Goto, Shapes, Actor
  <2>3. \/ pc'[w] = "commit" /\ run'[w].result \in Outcome
        \/ pc'[w] = "after" /\ run'[w].result \notin Outcome
    BY <1>a, <1>8 DEF TurnEnds, Goto, Shapes, Drive, Outcome
  <2>4. UNCHANGED turns
    BY <1>8 DEF TurnEnds
  <2>5. CommitReady'
    BY <2>1, <2>2, <2>3 DEF TurnInv, CommitReady
  <2>6. PublishedHere'
    BY <2>1, <2>2, <2>3, <2>4 DEF TurnInv, PublishedHere
  <2>7. PublishedBehind' /\ NoTurnGap'
    BY <2>1, <2>4 DEF TurnInv, PublishedBehind, NoTurnGap
  <2> QED BY <2>5, <2>6, <2>7 DEF TurnInv
<1>9. CASE Commit(w)
  <2> DEFINE t == run[w].turn
  <2>1. CASE UNCHANGED turns /\ pc'[w] \notin Holding
    BY <1>a, <1>9, <2>1, QuietTurnInv DEF Commit, Quiet, Goto, Shapes, Actor
  <2>2. CASE pc'[w] = "project"
    <3>1. \A v \in Worker : v # w => pc'[v] = pc[v]
      BY <1>a, <1>9 DEF Commit, Goto, Shapes, Actor
    <3>2. UNCHANGED run
      BY <1>9 DEF Commit
    <3>3. \A j \in Turn : turns[j] # None => turns'[j] # None
      BY <1>9, <1>a, NoneIsNoArtifact, ArtifactCommitted
         DEF Commit, Shapes, Published, TurnInv
    <3>4. t \in Turn => turns'[t] # None
      BY <1>9, <2>2, <1>a, ArtifactCommitted, NoneIsNoArtifact
         DEF Commit, Shapes, Published, TurnInv, Goto, Holding
    <3>5. \A j \in Turn : turns'[j] # None => turns[j] # None \/ j = t
      BY <1>9 DEF Commit, Shapes
    <3>6. \A j \in Turn : j < t => turns[j] # None
      BY DEF TurnInv, PublishedBehind
    <3>7. CommitReady' /\ PublishedBehind'
      BY <2>2, <3>1, <3>2, <3>3 DEF TurnInv, CommitReady, PublishedBehind
    <3>8. PublishedHere'
      BY <3>1, <3>2, <3>3, <3>4 DEF TurnInv, PublishedHere
    <3>9. NoTurnGap'
      <4>1. SUFFICES ASSUME NEW i \in Turn, turns'[i] # None, NEW j \in 1..i
                     PROVE  turns'[j] # None
        BY DEF NoTurnGap
      <4>2. j \in Turn /\ i \in Int /\ j \in Int /\ j <= i
        BY ConstantsAssumption DEF Turn
      <4>3. CASE turns[i] # None
        BY <3>3, <4>2, <4>3 DEF TurnInv, NoTurnGap
      <4>4. CASE i = t
        BY <3>3, <3>4, <3>6, <4>2, <4>4
      <4> QED BY <3>5, <4>1, <4>3, <4>4
    <3> QED BY <3>7, <3>8, <3>9 DEF TurnInv
  <2> QED BY <1>a, <1>9, <2>1, <2>2 DEF Commit, Goto, Shapes, Holding
<1>10. CASE Project(w)
  <2>1. UNCHANGED <<turns, run>>
    BY <1>10 DEF Project
  <2>2. \A v \in Worker : v # w => pc'[v] = pc[v]
    BY <1>a, <1>10 DEF Project, Goto, Shapes, Actor
  <2>3. pc[w] = "project" /\ pc'[w] \in {"after", "throw"}
    BY <1>a, <1>10 DEF Project, Runs, Goto, Shapes
  <2>4. CommitReady'
    BY <2>1, <2>2, <2>3 DEF TurnInv, CommitReady
  <2>5. PublishedHere'
    BY <2>1, <2>2, <2>3 DEF TurnInv, PublishedHere
  <2>6. PublishedBehind' /\ NoTurnGap'
    BY <2>1 DEF TurnInv, PublishedBehind, NoTurnGap
  <2> QED BY <2>4, <2>5, <2>6 DEF TurnInv
<1>11. CASE LeaveLost(w)
  BY <1>a, <1>11, QuietMove, QuietTurnInv DEF LeaveLost, Holding
<1>12. CASE AwaitAbort(w)
  BY <1>a, <1>12, QuietMove, QuietTurnInv DEF AwaitAbort, Holding
<1>13. CASE FinishOnWallClock(w)
  BY <1>a, <1>13, QuietTransition, QuietTurnInv DEF FinishOnWallClock, Holding
<1>14. CASE AwaitFailover(w)
  BY <1>a, <1>14, QuietMove, QuietTurnInv DEF AwaitFailover, Holding
<1>15. CASE Suspend(w)
  BY <1>a, <1>15, QuietTransition, QuietTurnInv DEF Suspend, Holding
<1>16. CASE LeaveDone(w)
  BY <1>a, <1>16, QuietMove, QuietTurnInv DEF LeaveDone, Holding
<1>17. CASE PerTurnStop(w)
  BY <1>a, <1>17, QuietTransition, QuietTurnInv DEF PerTurnStop, Holding
<1>18. CASE BoundaryCancel(w)
  <2> DEFINE d == [run[w] EXCEPT !.result = "boundary"]
  <2>1. run' = [run EXCEPT ![w] = d] /\ d.turn \in {run[w].turn, 0}
    BY <1>18 DEF BoundaryCancel, Shapes, Drive, NotDriving
  <2> HIDE DEF d
  <2>2. PICK there : Goto(w, there) /\ there \notin Holding
    BY <1>18 DEF BoundaryCancel, Holding
  <2> QED BY <1>18, <2>1, <2>2, QuietWorker, QuietTurnInv DEF BoundaryCancel
<1>19. CASE BoundaryPause(w)
  BY <1>a, <1>19, QuietMove, QuietTurnInv DEF BoundaryPause, Holding
<1>20. CASE PauseLands(w)
  BY <1>a, <1>20, QuietTransition, QuietTurnInv DEF PauseLands, Holding
<1>21. CASE NextTurn(w)
  <2>1. pc[w] = "after" /\ run[w].result = "continue"
    BY <1>21 DEF NextTurn, Driving, Runs
  <2>2. \A v \in Worker : v # w => run'[v] = run[v]
    BY <1>21 DEF NextTurn, Shapes
  <2>3. run'[w].turn = run[w].turn + 1 /\ run[w].turn \in Nat
    BY <1>21 DEF NextTurn, Shapes, Drive
  <2>4. \A v \in Worker : pc'[v] \in Holding => v # w /\ pc'[v] = pc[v]
    <3>1. Goto(w, "top") /\ "top" \notin Holding
      BY <1>21 DEF NextTurn, Holding
    <3> QED BY <1>a, <3>1 DEF Goto, Shapes, Actor
  <2>5. UNCHANGED turns
    BY <1>21 DEF NextTurn
  <2>6. CommitReady' /\ PublishedHere' /\ NoTurnGap'
    BY <2>2, <2>4, <2>5
       DEF TurnInv, CommitReady, PublishedHere, NoTurnGap, Holding
  <2>7. \A j \in Turn : j < run[w].turn + 1 => turns[j] # None
    <3>1. run[w].turn \in Turn => turns[run[w].turn] # None
      BY <2>1 DEF TurnInv, PublishedHere, Outcome
    <3>2. \A j \in Turn :
            j < run[w].turn + 1 => j < run[w].turn \/ j = run[w].turn
      BY <2>3 DEF Turn
    <3> QED BY <3>1, <3>2 DEF TurnInv, PublishedBehind
  <2>8. PublishedBehind'
    BY <2>2, <2>3, <2>5, <2>7 DEF TurnInv, PublishedBehind
  <2> QED BY <2>6, <2>8 DEF TurnInv
<1>22. CASE AdapterRetries(w)
  BY <1>a, <1>22, QuietMove, QuietTurnInv DEF AdapterRetries, Holding
<1>23. CASE AdapterExhausted(w)
  BY <1>a, <1>23, QuietMove, QuietTurnInv DEF AdapterExhausted, Holding
<1>24. CASE Rearm(w)
  BY <1>a, <1>24, QuietMove, QuietTurnInv DEF Rearm, Holding
<1>25. CASE FinalizeCancel(w)
  BY <1>a, <1>25, QuietMove, QuietTurnInv DEF FinalizeCancel, Holding
<1>26. CASE ClearSignal(w)
  BY <1>a, <1>26, QuietMove, QuietTurnInv DEF ClearSignal, Holding
<1>27. CASE CloseCancelled(w)
  BY <1>a, <1>27, QuietTransition, QuietTurnInv DEF CloseCancelled, Holding
<1>28. CASE BoundaryCancelling(w)
  BY <1>a, <1>28, QuietTransition, QuietTurnInv DEF BoundaryCancelling, Holding
<1>29. CASE BoundaryAborted(w)
  BY <1>a, <1>29, QuietMove, QuietTurnInv DEF BoundaryAborted, Holding
<1>30. CASE Throw(w)
  BY <1>a, <1>30, QuietMove, QuietTransition, QuietTurnInv
     DEF Throw, Holding
<1>31. CASE Exit(w)
  <2> DEFINE d == [run[w] EXCEPT !.armed = FALSE, !.tracker = "off"]
  <2>1. run' = [run EXCEPT ![w] = d] /\ d.turn \in {run[w].turn, 0}
    BY <1>31 DEF Exit, Shapes, Drive, NotDriving
  <2> HIDE DEF d
  <2>2. PICK there : Goto(w, there) /\ there \notin Holding
    BY <1>31 DEF Exit, Holding
  <2> QED BY <1>31, <2>1, <2>2, QuietWorker, QuietTurnInv DEF Exit
<1>32. CASE Settle(w)
  <2> DEFINE d == NotDriving
  <2>1. run' = [run EXCEPT ![w] = d] /\ d.turn \in {run[w].turn, 0}
    BY <1>32 DEF Settle, Shapes, Drive, NotDriving
  <2> HIDE DEF d
  <2>2. PICK there : Goto(w, there) /\ there \notin Holding
    BY <1>32 DEF Settle, Holding
  <2> QED BY <1>32, <2>1, <2>2, QuietWorker, QuietTurnInv DEF Settle
<1>33. CASE FailoverDeclined(w)
  BY <1>a, <1>33, QuietMove, QuietTurnInv
     DEF FailoverDeclined, Holding
<1>34. CASE Requeue(w) \/ GiveUp(w)
  BY <1>a, <1>34, QuietTransition, QuietTurnInv DEF Requeue, GiveUp, Holding
<1> QED BY <1>1, <1>2, <1>3, <1>4, <1>5, <1>6, <1>7, <1>8, <1>9, <1>10,
           <1>11, <1>12, <1>13, <1>14, <1>15, <1>16, <1>17, <1>18, <1>19,
           <1>20, <1>21, <1>22, <1>23, <1>24, <1>25, <1>26, <1>27, <1>28,
           <1>29, <1>30, <1>31, <1>32, <1>33, <1>34 DEF Drives

\* The faults of a worker.
LEMMA TurnFalters ==
    ASSUME Shapes, TurnInv, NEW w \in Worker, Falters(w)
    PROVE  TurnInv'
<1>a. w \in Actor
  BY DEF Actor
<1>1. CASE FactoryFails(w)
  BY <1>a, <1>1, QuietMove, QuietTurnInv DEF FactoryFails, Holding
<1>2. CASE AcquireFails(w)
  BY <1>a, <1>2, QuietMove, QuietTurnInv DEF AcquireFails, Holding
<1>3. CASE TurnThrows(w)
  BY <1>a, <1>3, QuietMove, QuietTurnInv DEF TurnThrows, Holding
<1>4. CASE ProjectFails(w)
  BY <1>a, <1>4, QuietMove, QuietTurnInv DEF ProjectFails, Holding
<1>5. CASE FailoverSwitches(w)
  BY <1>a, <1>5, QuietMove, QuietTurnInv DEF FailoverSwitches, Holding
<1>6. CASE ReleaseFails(w)
  <2> DEFINE d == [run[w] EXCEPT !.armed = FALSE, !.tracker = "off"]
  <2>1. run' = [run EXCEPT ![w] = d] /\ d.turn \in {run[w].turn, 0}
    BY <1>6 DEF ReleaseFails, Shapes, Drive, NotDriving
  <2> HIDE DEF d
  <2>2. PICK there : Goto(w, there) /\ there \notin Holding
    BY <1>6 DEF ReleaseFails, Holding
  <2> QED BY <1>6, <2>1, <2>2, QuietWorker, QuietTurnInv DEF ReleaseFails
<1>7. CASE HeartbeatGivesUp(w)
  <2>1. Quiet
    BY <1>a, <1>7 DEF HeartbeatGivesUp, Quiet, Shapes, Drive
  <2> QED BY <2>1, QuietTurnInv
<1>8. CASE FailoverFails(w) \/ FenceFails(w)
  BY <1>a, <1>8, QuietMove, QuietTurnInv
     DEF FailoverFails, FenceFails, Holding
<1> QED BY <1>1, <1>2, <1>3, <1>4, <1>5, <1>6, <1>7, <1>8 DEF Falters

\* The heartbeat.
LEMMA TurnHeartbeat ==
    ASSUME Shapes, TurnInv, NEW w \in Worker, Heartbeat(w)
    PROVE  TurnInv'
<1>a. w \in Actor
  BY DEF Actor
<1>1. CASE HeartbeatOK(w)
  <2>1. Quiet
    BY <1>a, <1>1 DEF HeartbeatOK, Quiet, Shapes, Drive
  <2> QED BY <2>1, QuietTurnInv
<1>2. CASE HeartbeatClaimLost(w)
  <2>1. Quiet
    BY <1>a, <1>2 DEF HeartbeatClaimLost, Quiet, Shapes, Drive
  <2> QED BY <2>1, QuietTurnInv
<1> QED BY <1>1, <1>2 DEF Heartbeat

\* The scheduler.
LEMMA TurnSchedules ==
    ASSUME Shapes, TurnInv, NEW p \in Proc, Schedules(p)
    PROVE  TurnInv'
<1>a. p \in Actor
  BY DEF Actor
<1>1. CASE \E w \in Worker : Launch(p, w)
  <2>1. PICK w \in Worker : Launch(p, w)
    BY <1>1
  <2> QED BY <2>1, QuietMove, QuietTurnInv DEF Launch, Holding, Actor
<1>2. CASE PumpCancel(p)
  BY <1>a, <1>2, QuietMove, QuietTurnInv DEF PumpCancel, Holding
<1>3. CASE TimerFires(p)
  <2>1. Quiet
    BY <1>a, <1>3 DEF TimerFires, Quiet, Shapes, Drive
  <2> QED BY <2>1, QuietTurnInv
<1> QED BY <1>1, <1>2, <1>3 DEF Schedules

\* The rest of a control call.
LEMMA TurnAnswers ==
    ASSUME Shapes, TurnInv, NEW p \in Proc, Answers(p)
    PROVE  TurnInv'
<1>a. p \in Actor
  BY DEF Actor
<1>1. CASE ResumeLands(p)
  BY <1>a, <1>1, QuietTransition, QuietTurnInv DEF ResumeLands, Holding
<1>2. CASE WriteCancelSignal(p)
  BY <1>a, <1>2, QuietMove, QuietTurnInv DEF WriteCancelSignal, Holding
<1>3. CASE CancelReturns(p)
  BY <1>a, <1>3, QuietMove, QuietTurnInv DEF CancelReturns, Holding
<1>4. CASE \E w \in Worker : DeliverCancel(p, w)
  <2>1. PICK w \in Worker : DeliverCancel(p, w)
    BY <1>4
  <2>2. Quiet
    BY <2>1 DEF DeliverCancel, Quiet, Shapes, Drive
  <2> QED BY <2>2, QuietTurnInv
<1>5. CASE ClearSignal(p)
  BY <1>a, <1>5, QuietMove, QuietTurnInv DEF ClearSignal, Holding
<1>6. CASE CloseCancelled(p)
  BY <1>a, <1>6, QuietTransition, QuietTurnInv DEF CloseCancelled, Holding
<1> QED BY <1>1, <1>2, <1>3, <1>4, <1>5, <1>6 DEF Answers

\* The control calls.
LEMMA TurnCalls ==
    ASSUME Shapes, TurnInv, NEW p \in Proc, Calls(p)
    PROVE  TurnInv'
<1>a. p \in Actor
  BY DEF Actor
<1>1. CASE OpPause(p)
  <2>1. Quiet
    BY <1>a, <1>1 DEF OpPause, Quiet, Shapes, Drive
  <2> QED BY <2>1, QuietTurnInv
<1>2. CASE ResumeWithdraws(p)
  <2>1. Quiet
    BY <1>a, <1>2 DEF ResumeWithdraws, Quiet, Shapes, Drive
  <2> QED BY <2>1, QuietTurnInv
<1>3. CASE OpResume(p)
  BY <1>a, <1>3, QuietMove, QuietTurnInv DEF OpResume, Holding
<1>4. CASE OpCancel(p)
  BY <1>a, <1>4, QuietMove, QuietTurnInv DEF OpCancel, Holding
<1> QED BY <1>1, <1>2, <1>3, <1>4 DEF Calls

\* Recovery.
LEMMA TurnRecovers ==
    ASSUME Shapes, TurnInv, NEW p \in Proc, Recovers(p)
    PROVE  TurnInv'
<1>a. p \in Actor
  BY DEF Actor
<1>1. CASE RecoverPublished(p)
  <2>1. Quiet
    BY <1>a, <1>1 DEF RecoverPublished, Quiet, Shapes, Drive
  <2> QED BY <2>1, QuietTurnInv
<1>2. CASE RecoverStaleOp(p)
  <2>1. Quiet
    BY <1>a, <1>2 DEF RecoverStaleOp, Quiet, Shapes, Drive
  <2> QED BY <2>1, QuietTurnInv
<1> QED BY <1>1, <1>2 DEF Recovers

\* Every step keeps the invariant.
LEMMA TurnNext == Shapes /\ TurnInv /\ [Next]_vars => TurnInv'
<1> SUFFICES ASSUME Shapes, TurnInv, [Next]_vars PROVE TurnInv'
  OBVIOUS
<1>1. ASSUME NEW w \in Worker, Drives(w) \/ Falters(w) \/ Heartbeat(w)
      PROVE  TurnInv'
  BY <1>1, TurnDrives, TurnFalters, TurnHeartbeat
<1>2. ASSUME NEW p \in Proc,
             Schedules(p) \/ Answers(p) \/ Calls(p) \/ Recovers(p)
      PROVE  TurnInv'
  BY <1>2, TurnSchedules, TurnAnswers, TurnCalls, TurnRecovers
<1>3. ASSUME NEW p \in Proc, Crash(p)
      PROVE  TurnInv'
  <2>1. \A v \in Worker : v \in Actor /\ HomeOf(v) = Home[v]
    BY ConstantsAssumption DEF Actor, HomeOf
  <2>2. \A v \in Worker : Home[v] = p =>
            pc'[v] \notin Holding /\ run'[v].turn = 0
    BY <1>3, <2>1 DEF Crash, Holding, NotDriving
  <2>3. \A v \in Worker : Home[v] # p => pc'[v] = pc[v] /\ run'[v] = run[v]
    BY <1>3, <2>1 DEF Crash
  <2>4. Quiet
    BY <1>3, <2>2, <2>3 DEF Crash, Quiet
  <2> QED BY <2>4, QuietTurnInv
<1>4. CASE LeaseExpires
  BY <1>4, QuietTurnInv DEF LeaseExpires, Quiet
<1>5. CASE UNCHANGED vars
  BY <1>5, QuietTurnInv DEF vars, Quiet
<1> QED BY <1>1, <1>2, <1>3, <1>4, <1>5 DEF Next

\* Nothing is published at first and nobody drives.
LEMMA TurnInit == Init => TurnInv
<1> SUFFICES ASSUME Init PROVE TurnInv
  OBVIOUS
<1>1. CommitReady /\ PublishedHere /\ NoTurnGap
  BY DEF Init, CommitReady, PublishedHere, NoTurnGap, Actor
<1>2. PublishedBehind
  <2>1. \A w \in Worker : run[w].turn = 0
    BY DEF Init, NotDriving
  <2>2. \A j \in Turn : ~(j < 0)
    BY ConstantsAssumption DEF Turn
  <2> QED BY <2>1, <2>2 DEF PublishedBehind
<1> QED BY <1>1, <1>2 DEF TurnInv

-----------------------------------------------------------------------------
(* The theorems *)

\* The invariant holds to begin with.
LEMMA IInvInit == Init => IInv
BY TypeInit, AttemptsInit, TurnInit DEF IInv, TypeOK

\* Every step keeps it.
LEMMA IInvNext == IInv /\ [Next]_vars => IInv'
BY TypeNext, AttemptsNext, TurnNext DEF IInv, TypeOK, TurnInv

\* The invariant holds in every reachable state.
THEOREM Invariance == Spec => []IInv
BY IInvInit, IInvNext, PTL DEF Spec

\* The row, the leases, the turn log, every actor's copy of the row and every
\* worker's locals keep their types, and no row is ever charged with more
\* attempts than the retry policy allows (decideRecovery in recovery and in the
\* adapter retry) and the switches of runtime, which do not ask it.
THEOREM TypeCorrect == Spec => []TypeOK
<1>1. IInv => TypeOK
  BY DEF IInv
<1> QED BY <1>1, Invariance, PTL

\* The part of it most proofs need.
LEMMA ShapesCorrect == Spec => []Shapes
<1>1. TypeOK => Shapes
  BY DEF TypeOK
<1> QED BY <1>1, TypeCorrect, PTL

\* Turns are published without gaps, however many processes and workers drive
\* the operation, crash, lose their lease or come back late.
THEOREM TurnsWithoutGap == Spec => []NoTurnGap
<1>1. IInv => NoTurnGap
  BY DEF IInv, TurnInv
<1> QED BY <1>1, Invariance, PTL

-----------------------------------------------------------------------------
(* Fencing: the turn log of any number of processes *)

\* The lease generation never goes back.  Only one write of the code can take it
\* back: the bare writeOp that clears a cancel signal (ClearSignal).
GenerationGrows == [][op'.gen >= op.gen]_vars

\* Where drive() stands between its acquireLease and the end of its turns.
Claiming == {"refresh", "begin", "reconcile", "top", "turn", "commit",
             "project", "after"}

\* Generations are handed out once: a claim is of a generation the row has
\* reached, no two workers hold the same, and whoever drives holds one.
ClaimsIssued ==
    \A w \in Worker :
        /\ run[w].claim <= op.gen
        /\ pc[w] \in Claiming => run[w].claim # 0
        /\ \A v \in Worker :
              v # w /\ run[v].claim = run[w].claim => run[w].claim = 0

\* Where a worker stands in the turn log.
InStep(w) ==
    /\ pc[w] \in {"top", "turn", "commit"} =>
          run[w].turn = Latest + 1 /\ ~Decided
    /\ pc[w] \in {"turn", "commit"} => run[w].turn <= MaxTurns
    /\ pc[w] = "project" =>
          /\ run[w].turn = Latest /\ Latest # 0
          /\ turns[Latest].outcome = run[w].result
    /\ pc[w] = "after" /\ run[w].result = "continue" =>
          run[w].turn = Latest /\ ~Decided

\* The worker that claimed the newest generation is in step with the log: what
\* it read of the log when it took over is still all there is, but for its own
\* turns.  A worker of an older generation need not be.
NewestInStep == \A w \in Worker : run[w].claim = op.gen => InStep(w)

\* No turn was published under a generation the row has not reached.
TurnsIssued == \A i \in Published : turns[i].gen <= op.gen

FenceInv == ClaimsIssued /\ NewestInStep /\ TurnsIssued /\ GenerationsOrdered

\* What a step may do to the turn log.
LogGrows ==
    /\ \A i \in Published : turns'[i] = turns[i]
    /\ Decided => turns' = turns

\* What a step is given, and what it leaves.
Fenceable == /\ Shapes /\ CommitReady /\ FenceInv
             /\ Shapes' /\ op'.gen >= op.gen
Fenced == FenceInv' /\ LogGrows

\* A step that publishes nothing, hands out no generation and moves no worker on
\* between its lease and the end of its turns.
Aside ==
    /\ UNCHANGED turns
    /\ \A v \in Worker :
        /\ run'[v].claim \in {run[v].claim, 0}
        /\ \/ pc'[v] \notin Claiming
           \/ /\ pc'[v] = pc[v]
              /\ run'[v].claim = run[v].claim
              /\ run'[v].turn = run[v].turn /\ run'[v].result = run[v].result

\* The generations and the claims are numbers.
LEMMA GenerationsTyped ==
    ASSUME Shapes
    PROVE  /\ op.gen \in Nat
           /\ \A w \in Worker : run[w].claim \in Nat /\ run[w].turn \in Nat
           /\ \A i \in Published : turns[i].gen \in Nat
<1>1. \A n \in 0..MaxGen : n \in Nat
  OBVIOUS
<1>2. op.gen \in 0..MaxGen
  BY DEF Shapes, Row
<1>3. \A w \in Worker : run[w].claim \in 0..MaxGen /\ run[w].turn \in Nat
  BY DEF Shapes, Drive
<1>4. \A i \in Published : turns[i].gen \in 0..MaxGen
  BY DEF Shapes, Published, Artifact
<1> QED BY <1>1, <1>2, <1>3, <1>4

\* The log as a whole is a function of the artifacts.
LEMMA SameLog ==
    ASSUME UNCHANGED turns
    PROVE  /\ Published' = Published /\ Latest' = Latest /\ Decided' = Decided
           /\ LogGrows
<1>1. Published' = Published
  BY DEF Published
<1>2. Latest' = Latest
  BY <1>1 DEF Latest
<1> QED BY <1>1, <1>2 DEF Decided, LogGrows

\* With the log and a worker's locals it keeps its place in the log.
LEMMA InStepKept ==
    ASSUME UNCHANGED turns, NEW w \in Worker, InStep(w),
           \/ pc'[w] \notin Claiming
           \/ /\ pc'[w] = pc[w]
              /\ run'[w].turn = run[w].turn /\ run'[w].result = run[w].result
    PROVE  InStep(w)'
BY SameLog DEF InStep, Claiming

\* The artifacts and their generations stay in order.
LEMMA OrderKept ==
    ASSUME Fenceable, UNCHANGED turns
    PROVE  TurnsIssued' /\ GenerationsOrdered'
<1>1. Published' = Published
  BY SameLog
<1>2. GenerationsOrdered'
  BY <1>1 DEF Fenceable, FenceInv, GenerationsOrdered
<1>3. TurnsIssued'
  <2>1. op.gen \in Nat /\ op'.gen \in Nat
    <3>1. \A n \in 0..MaxGen : n \in Nat
      OBVIOUS
    <3> QED BY <3>1 DEF Fenceable, Shapes, Row
  <2> QED BY <1>1, <2>1, GenerationsTyped
          DEF Fenceable, FenceInv, TurnsIssued
<1> QED BY <1>2, <1>3

\* A step aside keeps the fence.
LEMMA AsideFenced == Fenceable /\ Aside => Fenced
<1> SUFFICES ASSUME Fenceable, Aside PROVE Fenced
  OBVIOUS
<1>1. UNCHANGED turns
  BY DEF Aside
<1>2. /\ op.gen \in Nat /\ op'.gen \in Nat /\ op'.gen >= op.gen
      /\ \A w \in Worker : run[w].claim \in Nat /\ run'[w].claim \in Nat
  <2>1. \A n \in 0..MaxGen : n \in Nat
    OBVIOUS
  <2> QED BY <2>1 DEF Fenceable, Shapes, Row, Drive
<1>3. ClaimsIssued'
  <2>1. \A w \in Worker :
          /\ run'[w].claim <= op'.gen
          /\ pc'[w] \in Claiming => run'[w].claim # 0
    BY <1>2 DEF Fenceable, FenceInv, ClaimsIssued, Aside
  <2>2. \A v, w \in Worker :
          v # w /\ run'[v].claim = run'[w].claim => run'[w].claim = 0
    BY DEF Fenceable, FenceInv, ClaimsIssued, Aside
  <2> QED BY <2>1, <2>2 DEF ClaimsIssued
<1>4. NewestInStep'
  <2> SUFFICES ASSUME NEW w \in Worker, run'[w].claim = op'.gen
               PROVE  InStep(w)'
    BY DEF NewestInStep
  <2>1. CASE pc'[w] \notin Claiming
    BY <2>1 DEF InStep, Claiming
  <2>2. CASE /\ pc'[w] = pc[w]
             /\ run'[w].claim = run[w].claim
             /\ run'[w].turn = run[w].turn /\ run'[w].result = run[w].result
    <3>1. run[w].claim <= op.gen
      BY DEF Fenceable, FenceInv, ClaimsIssued
    <3>2. run[w].claim = op.gen
      BY <1>2, <2>2, <3>1
    <3>3. InStep(w)
      BY <3>2 DEF Fenceable, FenceInv, NewestInStep
    <3> QED BY <1>1, <2>2, <3>3, InStepKept
  <2> QED BY <2>1, <2>2 DEF Aside
<1> QED BY <1>1, <1>3, <1>4, OrderKept, SameLog DEF Fenced, FenceInv

\* One worker moves on without publishing, in step with the log if its claim is
\* the newest; the others stay where they are.
LEMMA OnwardFenced ==
    ASSUME Fenceable, UNCHANGED turns, NEW w \in Worker,
           \A v \in Worker : v # w => pc'[v] = pc[v] /\ run'[v] = run[v],
           pc[w] \in Claiming, run'[w].claim = run[w].claim,
           run[w].claim = op.gen /\ InStep(w) => InStep(w)'
    PROVE  Fenced
<1>1. /\ op.gen \in Nat /\ op'.gen \in Nat /\ op'.gen >= op.gen
      /\ \A v \in Worker : run[v].claim \in Nat
  <2>1. \A n \in 0..MaxGen : n \in Nat
    OBVIOUS
  <2> QED BY <2>1 DEF Fenceable, Shapes, Row, Drive
<1>2. \A v \in Worker : run'[v].claim = run[v].claim
  OBVIOUS
<1>3. ClaimsIssued'
  <2>1. \A v \in Worker : run[v].claim <= op'.gen
    BY <1>1 DEF Fenceable, FenceInv, ClaimsIssued
  <2>2. \A v \in Worker : pc'[v] \in Claiming => run[v].claim # 0
    BY DEF Fenceable, FenceInv, ClaimsIssued
  <2> QED BY <1>2, <2>1, <2>2 DEF Fenceable, FenceInv, ClaimsIssued
<1>4. NewestInStep'
  <2> SUFFICES ASSUME NEW v \in Worker, run'[v].claim = op'.gen
               PROVE  InStep(v)'
    BY DEF NewestInStep
  <2>1. run[v].claim = op.gen
    BY <1>1, <1>2 DEF Fenceable, FenceInv, ClaimsIssued
  <2>2. InStep(v)
    BY <2>1 DEF Fenceable, FenceInv, NewestInStep
  <2>3. CASE v = w
    BY <2>1, <2>2, <2>3
  <2>4. CASE v # w
    <3>1. pc'[v] = pc[v] /\ run'[v] = run[v]
      BY <2>4
    <3> QED BY <2>2, <3>1, InStepKept
  <2> QED BY <2>3, <2>4
<1> QED BY <1>3, <1>4, OrderKept, SameLog DEF Fenced, FenceInv

\* Going to a place moves nobody else.
LEMMA OthersStay ==
    ASSUME Shapes, NEW a \in Actor, NEW there, Goto(a, there)
    PROVE  /\ pc'[a] = there
           /\ \A v \in Worker : v # a => pc'[v] = pc[v]
BY DEF Shapes, Goto, Actor

\* An actor that moves elsewhere and keeps its drive() locals is aside.
LEMMA AsideMove ==
    ASSUME Shapes, NEW a \in Actor, NEW there, there \notin Claiming,
           Goto(a, there), UNCHANGED <<turns, run>>
    PROVE  Aside
BY DEF Shapes, Goto, Aside, Actor

\* transitionOp is aside unless it leads there.
LEMMA AsideTransition ==
    ASSUME Shapes, NEW a \in Actor, NEW to, NEW next, NEW illegal,
           next \notin Claiming, illegal \notin Claiming,
           TransitionOp(a, to, next, illegal), UNCHANGED <<turns, run>>
    PROVE  Aside
BY AsideMove DEF TransitionOp

\* A worker that moves elsewhere and keeps its claim, or forgets it.
LEMMA AsideWorker ==
    ASSUME Shapes, NEW w \in Worker, NEW there, there \notin Claiming,
           Goto(w, there), UNCHANGED turns, NEW d,
           run' = [run EXCEPT ![w] = d], d.claim \in {run[w].claim, 0}
    PROVE  Aside
BY DEF Shapes, Goto, Aside, Actor

\* The lease a worker acquires is newer than every claim, and as long as nobody
\* reads the log with it nobody need be in step with it.
LEMMA AcquireFenced ==
    ASSUME Fenceable, NEW w \in Worker, Acquire(w)
    PROVE  Fenced
<1>a. w \in Actor
  BY DEF Actor
<1>b. Shapes /\ UNCHANGED turns
  BY DEF Fenceable, Acquire
<1>1. CASE UNCHANGED run /\ Goto(w, "settle")
  BY <1>a, <1>b, <1>1, AsideMove, AsideFenced DEF Claiming
<1>2. CASE /\ op' = [op EXCEPT !.owner = w, !.gen = @ + 1]
           /\ run' = [run EXCEPT ![w].claim = op.gen + 1]
           /\ Goto(w, "refresh")
  <2>1. /\ op.gen \in Nat /\ op'.gen = op.gen + 1
        /\ \A v \in Worker : run[v].claim \in Nat
    BY <1>b, <1>2, GenerationsTyped DEF Shapes, Row
  <2>2. /\ run'[w].claim = op.gen + 1
        /\ \A v \in Worker : v # w => run'[v] = run[v]
    BY <1>b, <1>2 DEF Shapes, Drive
  <2>3. pc'[w] = "refresh" /\ \A v \in Worker : v # w => pc'[v] = pc[v]
    BY <1>a, <1>b, <1>2, OthersStay
  <2>4. \A v \in Worker : run[v].claim <= op.gen
    BY DEF Fenceable, FenceInv, ClaimsIssued
  <2>5. ClaimsIssued'
    <3>1. \A v \in Worker : run'[v].claim <= op'.gen
      BY <2>1, <2>2, <2>4
    <3>2. \A v \in Worker : pc'[v] \in Claiming => run'[v].claim # 0
      BY <2>1, <2>2, <2>3 DEF Fenceable, FenceInv, ClaimsIssued
    <3>3. \A u, v \in Worker :
            u # v /\ run'[u].claim = run'[v].claim => run'[v].claim = 0
      BY <2>1, <2>2, <2>4 DEF Fenceable, FenceInv, ClaimsIssued
    <3> QED BY <3>1, <3>2, <3>3 DEF ClaimsIssued
  <2>6. NewestInStep'
    <3> SUFFICES ASSUME NEW v \in Worker, run'[v].claim = op'.gen
                 PROVE  InStep(v)'
      BY DEF NewestInStep
    <3>1. v = w
      BY <2>1, <2>2, <2>4
    <3> QED BY <3>1, <2>3 DEF InStep
  <2> QED BY <1>b, <2>5, <2>6, OrderKept, SameLog DEF Fenced, FenceInv
<1> QED BY <1>1, <1>2 DEF Acquire

\* The lease is taken; the log is not read yet.
LEMMA EarlyFenced ==
    ASSUME Fenceable, NEW w \in Worker, Refresh(w) \/ Begin(w)
    PROVE  Fenced
<1>a. w \in Actor /\ Shapes
  BY DEF Actor, Fenceable
<1>1. UNCHANGED turns /\ pc[w] \in Claiming
  BY DEF Refresh, Begin, Runs, Claiming
<1>2. PICK there \in {"begin", "reconcile", "leaked"} : Goto(w, there)
  BY DEF Refresh, Begin, TransitionOp
<1>3. pc'[w] = there /\ \A v \in Worker : v # w => pc'[v] = pc[v]
  BY <1>a, <1>2, OthersStay
<1>4. /\ run'[w].claim = run[w].claim
      /\ \A v \in Worker : v # w => run'[v] = run[v]
  BY <1>a DEF Refresh, Begin, Shapes, Drive
<1>5. InStep(w)'
  BY <1>3 DEF InStep
<1> QED BY <1>1, <1>3, <1>4, <1>5, OnwardFenced

\* Whoever drives under the newest generation begins behind the last turn of the
\* log, and only if that turn did not end the run.
LEMMA ReconcileFenced ==
    ASSUME Fenceable, NEW w \in Worker, Reconcile(w)
    PROVE  Fenced
<1>a. w \in Actor /\ Shapes
  BY DEF Actor, Fenceable
<1>1. UNCHANGED turns /\ pc[w] \in Claiming
  BY DEF Reconcile, Runs, Claiming
<1>2. CASE UNCHANGED run /\ \E there \in {"exit", "throw"} : Goto(w, there)
  BY <1>a, <1>1, <1>2, AsideMove, AsideFenced DEF Claiming
<1>3. CASE /\ run' = [run EXCEPT ![w].turn = FirstTurn]
           /\ \/ Goto(w, "exit")
              \/ Goto(w, "top") /\ ~Decided
  <2>1. /\ run'[w].claim = run[w].claim /\ run'[w].turn = Latest + 1
        /\ \A v \in Worker : v # w => run'[v] = run[v]
    BY <1>a, <1>3 DEF Shapes, Drive, FirstTurn
  <2>2. \A v \in Worker : v # w => pc'[v] = pc[v]
    BY <1>a, <1>3, OthersStay
  <2>3. pc'[w] = "exit" \/ (pc'[w] = "top" /\ ~Decided)
    BY <1>a, <1>3, OthersStay
  <2>4. InStep(w)'
    BY <1>1, <2>1, <2>3, SameLog DEF InStep
  <2> QED BY <1>1, <2>1, <2>2, <2>4, OnwardFenced
<1>4. CASE /\ Latest # 0
           /\ op' = ProjectTo(turns[Latest].outcome)
           /\ run' = [run EXCEPT ![w].turn = FirstTurn]
           /\ Goto(w, IF op'.state \in Terminal THEN "exit" ELSE "top")
  <2>1. turns[Latest].outcome # "continue" => op'.state \in Terminal
    BY <1>a, <1>4 DEF ProjectTo, StateOf, Terminal, Shapes, Row
  <2>2. Decided => op'.state \in Terminal
    BY <2>1 DEF Decided
  <2> QED BY <1>3, <1>4, <2>2
<1>5. CASE /\ Latest = 0
           /\ run' = [run EXCEPT ![w].turn = FirstTurn]
           /\ Goto(w, "top")
  <2>1. ~Decided
    BY <1>5 DEF Decided
  <2> QED BY <1>3, <1>5, <2>1
<1> QED BY <1>2, <1>4, <1>5 DEF Reconcile

\* A turn begins, runs, and is followed by the next.
LEMMA TurnFenced ==
    ASSUME Fenceable, NEW w \in Worker,
           BeginTurn(w) \/ TurnEnds(w) \/ NextTurn(w)
    PROVE  Fenced
<1>a. w \in Actor /\ Shapes
  BY DEF Actor, Fenceable
<1>1. CASE BeginTurn(w)
  <2>1. /\ UNCHANGED <<turns, run>> /\ pc[w] = "top"
        /\ run[w].turn <= MaxTurns
        /\ Goto(w, "turn")
    BY <1>1 DEF BeginTurn, Runs
  <2>2. pc'[w] = "turn" /\ \A v \in Worker : v # w => pc'[v] = pc[v]
    BY <1>a, <2>1, OthersStay
  <2>3. InStep(w) => InStep(w)'
    BY <2>1, <2>2, SameLog DEF InStep
  <2> QED BY <2>1, <2>2, <2>3, OnwardFenced DEF Claiming
<1>2. CASE TurnEnds(w)
  <2>1. /\ UNCHANGED turns /\ pc[w] = "turn"
        /\ run'[w].claim = run[w].claim /\ run'[w].turn = run[w].turn
        /\ \A v \in Worker : v # w => run'[v] = run[v]
    BY <1>a, <1>2 DEF TurnEnds, Resumes, Shapes, Drive
  <2>2. \A v \in Worker : v # w => pc'[v] = pc[v]
    BY <1>a, <1>2, OthersStay DEF TurnEnds
  <2>3. pc'[w] = "commit" \/ (pc'[w] = "after" /\ run'[w].result # "continue")
    BY <1>a, <1>2 DEF TurnEnds, Shapes, Drive, Goto, Outcome
  <2>4. InStep(w) => InStep(w)'
    BY <2>1, <2>3, SameLog DEF InStep
  <2> QED BY <2>1, <2>2, <2>4, OnwardFenced DEF Claiming
<1>3. CASE NextTurn(w)
  <2>1. /\ UNCHANGED turns /\ pc[w] = "after" /\ run[w].result = "continue"
        /\ run'[w].claim = run[w].claim /\ run'[w].turn = run[w].turn + 1
        /\ \A v \in Worker : v # w => run'[v] = run[v]
    BY <1>a, <1>3 DEF NextTurn, Driving, Runs, Shapes, Drive
  <2>2. pc'[w] = "top" /\ \A v \in Worker : v # w => pc'[v] = pc[v]
    BY <1>a, <1>3, OthersStay DEF NextTurn
  <2>3. InStep(w) => InStep(w)'
    BY <2>1, <2>2, SameLog DEF InStep
  <2> QED BY <2>1, <2>2, <2>3, OnwardFenced DEF Claiming
<1> QED BY <1>1, <1>2, <1>3

\* The largest element of a set of numbers is the one that is chosen.
LEMMA LargestChosen ==
    ASSUME NEW S \in SUBSET Nat, NEW t \in S, \A j \in S : j <= t
    PROVE  (CHOOSE i \in S : \A j \in S : j <= i) = t
<1> DEFINE c == CHOOSE i \in S : \A j \in S : j <= i
<1>1. c \in S /\ \A j \in S : j <= c
  OBVIOUS
<1> HIDE DEF c
<1>2. c <= t /\ t <= c /\ c \in Nat /\ t \in Nat
  BY <1>1
<1>3. c = t
  BY <1>2
<1> QED BY <1>3 DEF c

\* The fence of commitTurn: who publishes owns the row, so holds the newest
\* generation and is in step with the log: its turn is the next one.
LEMMA CommitFenced ==
    ASSUME Fenceable, NEW w \in Worker, Commit(w)
    PROVE  Fenced
<1>a. w \in Actor /\ Shapes
  BY DEF Actor, Fenceable
<1>1. UNCHANGED <<op, run>> /\ pc[w] = "commit"
  BY DEF Commit, Runs
<1>2. CASE UNCHANGED turns /\ Goto(w, "exit")
  BY <1>a, <1>1, <1>2, AsideMove, AsideFenced DEF Claiming
<1>3. CASE /\ Owns(w)
           /\ turns' = IF run[w].turn \in Published THEN turns
                       ELSE [turns EXCEPT ![run[w].turn] =
                               [gen |-> op.gen, outcome |-> run[w].result]]
           /\ Goto(w, "project")
  <2> DEFINE t == run[w].turn
             art == [gen |-> op.gen, outcome |-> run[w].result]
  <2>1. run[w].claim = op.gen /\ op.gen # 0
    BY <1>1, <1>3 DEF Owns, Fenceable, FenceInv, ClaimsIssued, Claiming
  <2>2. t = Latest + 1 /\ ~Decided /\ t <= MaxTurns
    BY <1>1, <2>1 DEF Fenceable, FenceInv, NewestInStep, InStep
  <2>3. Latest \in Nat /\ \A j \in Published : j <= Latest
    BY LatestTyped
  <2>4. t \in Turn /\ t \in Nat /\ t # 0
    BY <2>2, <2>3, ConstantsAssumption DEF Turn
  <2>5. Published \subseteq Nat /\ \A j \in Published : j < t
    BY <2>2, <2>3 DEF Published, Turn
  <2>6. t \notin Published
    BY <2>4, <2>5
  <2>7. turns' = [turns EXCEPT ![t] = art]
    BY <1>3, <2>6
  <2>8. art # None /\ art.gen = op.gen /\ art.outcome = run[w].result
    BY ArtifactCommitted, NoneIsNoArtifact DEF Fenceable
  <2> HIDE DEF art
  <2>9. turns'[t] = art /\ \A i \in Turn : i # t => turns'[i] = turns[i]
    BY <1>a, <2>4, <2>7 DEF Shapes
  <2>10. Published' = Published \cup {t}
    BY <2>4, <2>8, <2>9 DEF Published
  <2>11. Latest' = t
    <3>1. Published \cup {t} \in SUBSET Nat
      BY <2>4, <2>5
    <3>2. \A j \in Published \cup {t} : j <= t
      BY <2>4, <2>5
    <3>3. (CHOOSE i \in Published \cup {t} :
             \A j \in Published \cup {t} : j <= i) = t
      BY <3>1, <3>2, LargestChosen
    <3> HIDE DEF t
    <3> QED BY <2>10, <3>3 DEF Latest
  <2>12. LogGrows
    BY <2>2, <2>6, <2>9 DEF LogGrows, Published
  <2>13. pc'[w] = "project" /\ \A v \in Worker : v # w => pc'[v] = pc[v]
    BY <1>a, <1>3, OthersStay
  <2>14. ClaimsIssued'
    BY <1>1, <2>1, <2>13 DEF Fenceable, FenceInv, ClaimsIssued
  <2>15. NewestInStep'
    <3> SUFFICES ASSUME NEW v \in Worker, run'[v].claim = op'.gen
                 PROVE  InStep(v)'
      BY DEF NewestInStep
    <3>1. v = w
      BY <1>1, <2>1 DEF Fenceable, FenceInv, ClaimsIssued
    <3>2. turns'[Latest'].outcome = run'[w].result
      BY <1>1, <2>8, <2>9, <2>11
    <3> QED BY <1>1, <2>4, <2>11, <2>13, <3>1, <3>2 DEF InStep
  <2>16. TurnsIssued'
    <3>1. op.gen <= op.gen
      BY <1>a, GenerationsTyped
    <3>2. \A i \in Published : turns'[i] = turns[i]
      BY <2>6, <2>9 DEF Published
    <3> QED BY <1>1, <2>8, <2>9, <2>10, <3>1, <3>2
            DEF Fenceable, FenceInv, TurnsIssued
  <2>17. GenerationsOrdered'
    <3> SUFFICES ASSUME NEW i \in Published', NEW j \in Published', i < j
                 PROVE  turns'[i].gen <= turns'[j].gen
      BY DEF GenerationsOrdered
    <3>1. i \in Published \/ i = t
      BY <2>10
    <3>2. j \in Published \/ j = t
      BY <2>10
    <3>3. i \in Published
      <4>1. CASE i = t /\ j = t
        BY <2>4, <4>1
      <4>2. CASE i = t /\ j \in Published
        <5>1. j \in Nat /\ j < t
          BY <2>5, <4>2
        <5> QED BY <2>4, <4>2, <5>1
      <4> QED BY <3>1, <3>2, <4>1, <4>2
    <3>4. turns'[i] = turns[i] /\ turns[i].gen <= op.gen
      BY <2>6, <2>9, <3>3 DEF Fenceable, FenceInv, TurnsIssued, Published
    <3>5. CASE j = t
      BY <2>8, <2>9, <3>4, <3>5
    <3>6. CASE j \in Published
      <4>1. turns'[j] = turns[j]
        BY <2>6, <2>9, <3>6 DEF Published
      <4> QED BY <3>3, <3>4, <3>6, <4>1
              DEF Fenceable, FenceInv, GenerationsOrdered
    <3> QED BY <3>2, <3>5, <3>6
  <2> QED BY <2>12, <2>14, <2>15, <2>16, <2>17 DEF Fenced, FenceInv
<1> QED BY <1>2, <1>3 DEF Commit

\* The turn is projected: if it went on, the run is not decided.
LEMMA ProjectFenced ==
    ASSUME Fenceable, NEW w \in Worker, Project(w)
    PROVE  Fenced
<1>a. w \in Actor /\ Shapes
  BY DEF Actor, Fenceable
<1>1. UNCHANGED <<turns, run>> /\ pc[w] = "project"
  BY DEF Project, Runs
<1>2. PICK there \in {"after", "throw"} : Goto(w, there)
  BY DEF Project
<1>3. pc'[w] = there /\ \A v \in Worker : v # w => pc'[v] = pc[v]
  BY <1>a, <1>2, OthersStay
<1>4. InStep(w) => InStep(w)'
  <2>1. InStep(w) /\ run[w].result = "continue" => ~Decided
    BY <1>1 DEF InStep, Decided
  <2> QED BY <1>1, <1>3, <2>1, SameLog DEF InStep
<1> QED BY <1>1, <1>3, <1>4, OnwardFenced DEF Claiming

\* The worker's own code.
LEMMA FencedDrives ==
    ASSUME Fenceable, NEW w \in Worker, Drives(w)
    PROVE  Fenced
<1>a. w \in Actor /\ Shapes
  BY DEF Actor, Fenceable
<1>1. CASE EnterDrive(w)
  BY <1>a, <1>1, AsideMove, AsideFenced DEF EnterDrive, Claiming
<1>2. CASE Acquire(w)
  BY <1>2, AcquireFenced
<1>3. CASE Refresh(w)
  BY <1>3, EarlyFenced
<1>4. CASE Begin(w)
  BY <1>4, EarlyFenced
<1>5. CASE Reconcile(w)
  BY <1>5, ReconcileFenced
<1>6. CASE BeginTurn(w)
  BY <1>6, TurnFenced
<1>7. CASE StopAtTop(w)
  BY <1>a, <1>7, AsideTransition, AsideFenced DEF StopAtTop, Claiming
<1>8. CASE TurnEnds(w)
  BY <1>8, TurnFenced
<1>9. CASE Commit(w)
  BY <1>9, CommitFenced
<1>10. CASE Project(w)
  BY <1>10, ProjectFenced
<1>11. CASE LeaveLost(w)
  BY <1>a, <1>11, AsideMove, AsideFenced DEF LeaveLost, Claiming
<1>12. CASE AwaitAbort(w)
  BY <1>a, <1>12, AsideMove, AsideFenced DEF AwaitAbort, Claiming
<1>13. CASE FinishOnWallClock(w)
  BY <1>a, <1>13, AsideTransition, AsideFenced DEF FinishOnWallClock, Claiming
<1>14. CASE AwaitFailover(w)
  BY <1>a, <1>14, AsideMove, AsideFenced DEF AwaitFailover, Claiming
<1>15. CASE Suspend(w)
  BY <1>a, <1>15, AsideTransition, AsideFenced DEF Suspend, Claiming
<1>16. CASE LeaveDone(w)
  BY <1>a, <1>16, AsideMove, AsideFenced DEF LeaveDone, Claiming
<1>17. CASE PerTurnStop(w)
  BY <1>a, <1>17, AsideTransition, AsideFenced DEF PerTurnStop, Claiming
<1>18. CASE BoundaryCancel(w)
  <2> DEFINE d == [run[w] EXCEPT !.result = "boundary"]
  <2>1. run' = [run EXCEPT ![w] = d] /\ d.claim \in {run[w].claim, 0}
    BY <1>a, <1>18 DEF BoundaryCancel, Shapes, Drive, NotDriving
  <2> HIDE DEF d
  <2>2. PICK there : Goto(w, there) /\ there \notin Claiming
    BY <1>18 DEF BoundaryCancel, Claiming
  <2> QED BY <1>a, <1>18, <2>1, <2>2, AsideWorker, AsideFenced DEF BoundaryCancel
<1>19. CASE BoundaryPause(w)
  BY <1>a, <1>19, AsideMove, AsideFenced DEF BoundaryPause, Claiming
<1>20. CASE PauseLands(w)
  BY <1>a, <1>20, AsideTransition, AsideFenced DEF PauseLands, Claiming
<1>21. CASE NextTurn(w)
  BY <1>21, TurnFenced
<1>22. CASE AdapterRetries(w)
  BY <1>a, <1>22, AsideMove, AsideFenced DEF AdapterRetries, Claiming
<1>23. CASE AdapterExhausted(w)
  BY <1>a, <1>23, AsideMove, AsideFenced DEF AdapterExhausted, Claiming
<1>24. CASE Rearm(w)
  BY <1>a, <1>24, AsideMove, AsideFenced DEF Rearm, Claiming
<1>25. CASE FinalizeCancel(w)
  BY <1>a, <1>25, AsideMove, AsideFenced DEF FinalizeCancel, Claiming
<1>26. CASE ClearSignal(w)
  BY <1>a, <1>26, AsideMove, AsideFenced DEF ClearSignal, Claiming
<1>27. CASE CloseCancelled(w)
  BY <1>a, <1>27, AsideTransition, AsideFenced DEF CloseCancelled, Claiming
<1>28. CASE BoundaryCancelling(w)
  BY <1>a, <1>28, AsideTransition, AsideFenced DEF BoundaryCancelling, Claiming
<1>29. CASE BoundaryAborted(w)
  BY <1>a, <1>29, AsideMove, AsideFenced DEF BoundaryAborted, Claiming
<1>30. CASE Throw(w)
  BY <1>a, <1>30, AsideMove, AsideTransition, AsideFenced
     DEF Throw, Claiming
<1>31. CASE Exit(w)
  <2> DEFINE d == [run[w] EXCEPT !.armed = FALSE, !.tracker = "off"]
  <2>1. run' = [run EXCEPT ![w] = d] /\ d.claim \in {run[w].claim, 0}
    BY <1>a, <1>31 DEF Exit, Shapes, Drive, NotDriving
  <2> HIDE DEF d
  <2>2. PICK there : Goto(w, there) /\ there \notin Claiming
    BY <1>31 DEF Exit, Claiming
  <2> QED BY <1>a, <1>31, <2>1, <2>2, AsideWorker, AsideFenced DEF Exit
<1>32. CASE Settle(w)
  <2> DEFINE d == NotDriving
  <2>1. run' = [run EXCEPT ![w] = d] /\ d.claim \in {run[w].claim, 0}
    BY <1>a, <1>32 DEF Settle, Shapes, Drive, NotDriving
  <2> HIDE DEF d
  <2>2. PICK there : Goto(w, there) /\ there \notin Claiming
    BY <1>32 DEF Settle, Claiming
  <2> QED BY <1>a, <1>32, <2>1, <2>2, AsideWorker, AsideFenced DEF Settle
<1>33. CASE FailoverDeclined(w)
  BY <1>a, <1>33, AsideMove, AsideFenced
     DEF FailoverDeclined, Claiming
<1>34. CASE Requeue(w) \/ GiveUp(w)
  BY <1>a, <1>34, AsideTransition, AsideFenced DEF Requeue, GiveUp, Claiming
<1> QED BY <1>1, <1>2, <1>3, <1>4, <1>5, <1>6, <1>7, <1>8, <1>9, <1>10,
           <1>11, <1>12, <1>13, <1>14, <1>15, <1>16, <1>17, <1>18, <1>19,
           <1>20, <1>21, <1>22, <1>23, <1>24, <1>25, <1>26, <1>27, <1>28,
           <1>29, <1>30, <1>31, <1>32, <1>33, <1>34 DEF Drives

\* The faults of a worker.
LEMMA FencedFalters ==
    ASSUME Fenceable, NEW w \in Worker, Falters(w)
    PROVE  Fenced
<1>a. w \in Actor /\ Shapes
  BY DEF Actor, Fenceable
<1>1. CASE FactoryFails(w)
  BY <1>a, <1>1, AsideMove, AsideFenced DEF FactoryFails, Claiming
<1>2. CASE AcquireFails(w)
  BY <1>a, <1>2, AsideMove, AsideFenced DEF AcquireFails, Claiming
<1>3. CASE TurnThrows(w)
  BY <1>a, <1>3, AsideMove, AsideFenced DEF TurnThrows, Claiming
<1>4. CASE ProjectFails(w)
  BY <1>a, <1>4, AsideMove, AsideFenced DEF ProjectFails, Claiming
<1>5. CASE FailoverSwitches(w)
  BY <1>a, <1>5, AsideMove, AsideFenced DEF FailoverSwitches, Claiming
<1>6. CASE ReleaseFails(w)
  <2> DEFINE d == [run[w] EXCEPT !.armed = FALSE, !.tracker = "off"]
  <2>1. run' = [run EXCEPT ![w] = d] /\ d.claim \in {run[w].claim, 0}
    BY <1>a, <1>6 DEF ReleaseFails, Shapes, Drive
  <2> HIDE DEF d
  <2>2. PICK there : Goto(w, there) /\ there \notin Claiming
    BY <1>6 DEF ReleaseFails, Claiming
  <2> QED BY <1>a, <1>6, <2>1, <2>2, AsideWorker, AsideFenced DEF ReleaseFails
<1>7. CASE HeartbeatGivesUp(w)
  <2>1. Aside
    BY <1>a, <1>7 DEF HeartbeatGivesUp, Aside, Shapes, Drive
  <2> QED BY <2>1, AsideFenced
<1>8. CASE FailoverFails(w) \/ FenceFails(w)
  BY <1>a, <1>8, AsideMove, AsideFenced
     DEF FailoverFails, FenceFails, Claiming
<1> QED BY <1>1, <1>2, <1>3, <1>4, <1>5, <1>6, <1>7, <1>8 DEF Falters

\* The heartbeat.
LEMMA FencedHeartbeat ==
    ASSUME Fenceable, NEW w \in Worker, Heartbeat(w)
    PROVE  Fenced
<1>1. Aside
  BY DEF Fenceable, Heartbeat, HeartbeatOK, HeartbeatClaimLost, Aside, Shapes,
         Drive
<1> QED BY <1>1, AsideFenced

\* The scheduler, the control API and recovery publish nothing.
LEMMA FencedProcess ==
    ASSUME Fenceable, NEW p \in Proc,
           Schedules(p) \/ Answers(p) \/ Calls(p) \/ Recovers(p)
    PROVE  Fenced
<1>a. p \in Actor /\ Shapes
  BY DEF Actor, Fenceable
<1>1. CASE \E w \in Worker : Launch(p, w)
  <2>1. PICK w \in Worker : Launch(p, w)
    BY <1>1
  <2> QED BY <1>a, <2>1, AsideMove, AsideFenced DEF Launch, Claiming, Actor
<1>2. CASE PumpCancel(p)
  BY <1>a, <1>2, AsideMove, AsideFenced DEF PumpCancel, Claiming
<1>3. CASE ResumeLands(p)
  BY <1>a, <1>3, AsideTransition, AsideFenced DEF ResumeLands, Claiming
<1>4. CASE WriteCancelSignal(p)
  BY <1>a, <1>4, AsideMove, AsideFenced DEF WriteCancelSignal, Claiming
<1>5. CASE CancelReturns(p)
  BY <1>a, <1>5, AsideMove, AsideFenced DEF CancelReturns, Claiming
<1>6. CASE \E w \in Worker : DeliverCancel(p, w)
  <2>1. PICK w \in Worker : DeliverCancel(p, w)
    BY <1>6
  <2>2. Aside
    BY <1>a, <2>1 DEF DeliverCancel, Aside, Shapes, Drive
  <2> QED BY <2>2, AsideFenced
<1>7. CASE ClearSignal(p)
  BY <1>a, <1>7, AsideMove, AsideFenced DEF ClearSignal, Claiming
<1>8. CASE CloseCancelled(p)
  BY <1>a, <1>8, AsideTransition, AsideFenced DEF CloseCancelled, Claiming
<1>9. CASE OpResume(p)
  BY <1>a, <1>9, AsideMove, AsideFenced DEF OpResume, Claiming
<1>10. CASE OpCancel(p)
  BY <1>a, <1>10, AsideMove, AsideFenced DEF OpCancel, Claiming
<1>11. CASE \/ TimerFires(p) \/ OpPause(p) \/ ResumeWithdraws(p)
            \/ RecoverPublished(p) \/ RecoverStaleOp(p)
  <2>1. UNCHANGED <<turns, run, pc>>
    BY <1>11 DEF TimerFires, OpPause, ResumeWithdraws, RecoverPublished,
                 RecoverStaleOp
  <2>2. Aside
    BY <2>1 DEF Aside
  <2> QED BY <2>2, AsideFenced
<1> QED BY <1>1, <1>2, <1>3, <1>4, <1>5, <1>6, <1>7, <1>8, <1>9, <1>10,
           <1>11 DEF Schedules, Answers, Calls, Recovers

\* Every step keeps the fence, while the generation grows.
LEMMA FencedNext == Fenceable /\ [Next]_vars => Fenced
<1> SUFFICES ASSUME Fenceable, [Next]_vars PROVE Fenced
  OBVIOUS
<1>1. ASSUME NEW w \in Worker, Drives(w) \/ Falters(w) \/ Heartbeat(w)
      PROVE  Fenced
  BY <1>1, FencedDrives, FencedFalters, FencedHeartbeat
<1>2. ASSUME NEW p \in Proc,
             Schedules(p) \/ Answers(p) \/ Calls(p) \/ Recovers(p)
      PROVE  Fenced
  BY <1>2, FencedProcess
<1>3. ASSUME NEW p \in Proc, Crash(p)
      PROVE  Fenced
  <2>1. \A v \in Worker : v \in Actor /\ HomeOf(v) = Home[v]
    BY ConstantsAssumption DEF Actor, HomeOf
  <2>2. \A v \in Worker : Home[v] = p =>
            pc'[v] \notin Claiming /\ run'[v].claim = 0
    BY <1>3, <2>1 DEF Crash, Claiming, NotDriving
  <2>3. \A v \in Worker : Home[v] # p => pc'[v] = pc[v] /\ run'[v] = run[v]
    BY <1>3, <2>1 DEF Crash
  <2>4. Aside
    BY <1>3, <2>2, <2>3 DEF Crash, Aside
  <2> QED BY <2>4, AsideFenced
<1>4. CASE LeaseExpires \/ UNCHANGED vars
  <2>1. UNCHANGED <<turns, run, pc>>
    BY <1>4 DEF LeaseExpires, vars
  <2>2. Aside
    BY <2>1 DEF Aside
  <2> QED BY <2>2, AsideFenced
<1> QED BY <1>1, <1>2, <1>3, <1>4 DEF Next

\* At first nothing is published and nobody holds a claim.
LEMMA FencedInit == Init => FenceInv
<1> SUFFICES ASSUME Init PROVE FenceInv
  OBVIOUS
<1>1. /\ op.gen = 0
      /\ \A w \in Worker : run[w].claim = 0 /\ pc[w] = "idle"
  BY DEF Init, Blank, NotDriving, Actor
<1>2. Published = {}
  BY DEF Init, Published
<1>3. ClaimsIssued /\ NewestInStep
  BY <1>1 DEF ClaimsIssued, NewestInStep, InStep, Claiming
<1>4. TurnsIssued /\ GenerationsOrdered
  BY <1>2 DEF TurnsIssued, GenerationsOrdered
<1> QED BY <1>3, <1>4 DEF FenceInv

\* Fencing: however many processes and workers drive the operation, lose their
\* lease, crash or come back late, a published turn is never replaced, none
\* follows one that ended the run, and none of an older lease follows one of a
\* newer, as long as no write takes the lease generation back.
THEOREM LogIsFenced ==
    Spec /\ GenerationGrows => TurnLogAppendOnly /\ []GenerationsOrdered
<1> DEFINE Inv == IInv /\ FenceInv
<1>1. Init => Inv
  BY IInvInit, FencedInit
<1>2. Inv /\ [Next]_vars /\ [op'.gen >= op.gen]_vars => IInv' /\ Fenced
  <2> SUFFICES ASSUME Inv, [Next]_vars, [op'.gen >= op.gen]_vars
               PROVE  IInv' /\ Fenced
    OBVIOUS
  <2>1. IInv'
    BY IInvNext
  <2>2. op'.gen >= op.gen
    <3>1. op.gen \in Nat
      BY GenerationsTyped DEF IInv, TypeOK
    <3>2. CASE UNCHANGED vars
      BY <3>1, <3>2 DEF vars
    <3> QED BY <3>2
  <2>3. Fenceable
    BY <2>1, <2>2 DEF Fenceable, IInv, TypeOK, TurnInv
  <2> QED BY <2>1, <2>3, FencedNext
<1>3. Inv /\ [Next]_vars /\ [op'.gen >= op.gen]_vars => Inv'
  BY <1>2 DEF Fenced
<1>4. Inv /\ [Next]_vars /\ [op'.gen >= op.gen]_vars =>
        [/\ \A i \in Published : turns'[i] = turns[i]
         /\ Decided => turns' = turns]_vars
  BY <1>2 DEF Fenced, LogGrows
<1>5. Inv => GenerationsOrdered
  BY DEF FenceInv
<1> HIDE DEF Inv
<1> QED BY <1>1, <1>3, <1>4, <1>5, PTL
        DEF Spec, GenerationGrows, TurnLogAppendOnly

-----------------------------------------------------------------------------
(* Fencing: what takes the generation back *)

\* Persisting a row keeps the generation of the one on disk.
LEMMA PersistSameGen ==
    ASSUME Shapes, NEW a, NEW mine, Persist(a, mine)
    PROVE  op'.gen = op.gen
BY DEF Shapes, Row, Persist, Merge

\* transitionOp keeps the generation.
LEMMA TransitionSameGen ==
    ASSUME Shapes, NEW a, NEW to, NEW next, NEW illegal,
           TransitionOp(a, to, next, illegal)
    PROVE  op'.gen = op.gen
BY PersistSameGen DEF TransitionOp

\* A worker keeps the generation or takes the next, unless it clears a signal.
LEMMA DrivesGrowGen ==
    ASSUME Shapes, NEW w \in Worker, Drives(w), ~ClearSignal(w)
    PROVE  op'.gen >= op.gen
<1>a. op.gen \in Nat
  BY GenerationsTyped
<1>1. CASE \/ EnterDrive(w) \/ Refresh(w) \/ BeginTurn(w) \/ TurnEnds(w)
           \/ Commit(w) \/ LeaveLost(w) \/ AwaitAbort(w) \/ AwaitFailover(w)
           \/ LeaveDone(w) \/ BoundaryCancel(w) \/ NextTurn(w) \/ Rearm(w)
           \/ FinalizeCancel(w) \/ BoundaryAborted(w) \/ Settle(w)
           \/ FailoverDeclined(w)
  <2>1. UNCHANGED op
    BY <1>1 DEF FailoverDeclined, EnterDrive, Refresh, BeginTurn, TurnEnds, Commit, LeaveLost,
                AwaitAbort, AwaitFailover, LeaveDone, BoundaryCancel, NextTurn,
                Rearm, FinalizeCancel, BoundaryAborted, Settle
  <2> QED BY <1>a, <2>1
<1>2. CASE \/ Begin(w) \/ StopAtTop(w) \/ FinishOnWallClock(w) \/ Suspend(w)
           \/ PerTurnStop(w) \/ PauseLands(w) \/ Requeue(w) \/ GiveUp(w)
           \/ CloseCancelled(w) \/ BoundaryCancelling(w)
  <2>1. \E to, next, illegal : TransitionOp(w, to, next, illegal)
    BY <1>2 DEF Begin, StopAtTop, FinishOnWallClock, Suspend, PerTurnStop,
                PauseLands, Requeue, GiveUp, CloseCancelled,
                BoundaryCancelling
  <2> QED BY <1>a, <2>1, TransitionSameGen
<1>3. CASE Throw(w)
  <2>1. UNCHANGED op \/ TransitionOp(w, "failed", "exit", "exit")
    BY <1>3 DEF Throw
  <2> QED BY <1>a, <2>1, TransitionSameGen
<1>4. CASE AdapterRetries(w) \/ AdapterExhausted(w)
  <2>1. \E mine : Persist(w, mine)
    BY <1>4 DEF AdapterRetries, AdapterExhausted
  <2> QED BY <1>a, <2>1, PersistSameGen
<1>5. CASE Acquire(w)
  <2>1. op'.gen = op.gen \/ op'.gen = op.gen + 1
    BY <1>5 DEF Acquire, Shapes, Row
  <2> QED BY <1>a, <2>1
<1>6. CASE Reconcile(w) \/ Project(w)
  <2>1. UNCHANGED op \/ \E outcome : op' = ProjectTo(outcome)
    BY <1>6 DEF Reconcile, Project
  <2>2. \A outcome : ProjectTo(outcome).gen = op.gen
    BY DEF ProjectTo, Shapes, Row
  <2> QED BY <1>a, <2>1, <2>2
<1>7. CASE BoundaryPause(w)
  BY <1>a, <1>7 DEF BoundaryPause, Snapshot, Shapes, Row
<1>8. CASE Exit(w)
  BY <1>a, <1>8 DEF Exit, Released, Shapes, Row
<1> QED BY <1>1, <1>2, <1>3, <1>4, <1>5, <1>6, <1>7, <1>8 DEF Drives

\* So does every other step.
LEMMA OnlyClearingGoesBack ==
    ASSUME Shapes, [Next]_vars, ~\E a \in Actor : ClearSignal(a)
    PROVE  op'.gen >= op.gen
<1>a. op.gen \in Nat
  BY GenerationsTyped
<1>1. ASSUME NEW w \in Worker, Drives(w) PROVE op'.gen >= op.gen
  <2>1. ~ClearSignal(w)
    BY DEF Actor
  <2> QED BY <1>1, <2>1, DrivesGrowGen
<1>2. ASSUME NEW w \in Worker, Falters(w) \/ Heartbeat(w)
      PROVE  op'.gen >= op.gen
  <2>1. CASE FactoryFails(w)
    BY <1>a, <2>1 DEF FactoryFails, Shapes, Row
  <2>2. CASE FailoverSwitches(w)
    BY <1>a, <2>2 DEF FailoverSwitches, Shapes, Row
  <2>3. CASE ~FactoryFails(w) /\ ~FailoverSwitches(w)
    <3>1. UNCHANGED op
      BY <1>2, <2>3 DEF Falters, Heartbeat, AcquireFails, TurnThrows,
                        ProjectFails, ReleaseFails, HeartbeatGivesUp,
                        FailoverFails, FenceFails, HeartbeatOK,
                        HeartbeatClaimLost
    <3> QED BY <1>a, <3>1
  <2> QED BY <2>1, <2>2, <2>3
<1>3. ASSUME NEW p \in Proc, Schedules(p) \/ Answers(p)
      PROVE  op'.gen >= op.gen
  <2>1. CASE Schedules(p) \/ CancelReturns(p)
    <3>1. UNCHANGED op
      BY <2>1 DEF Schedules, Launch, PumpCancel, TimerFires, CancelReturns
    <3> QED BY <1>a, <3>1
  <2>2. CASE ResumeLands(p)
    BY <1>a, <2>2, TransitionSameGen DEF ResumeLands
  <2>3. CASE CloseCancelled(p)
    BY <1>a, <2>3, TransitionSameGen DEF CloseCancelled
  <2>4. CASE WriteCancelSignal(p)
    BY <1>a, <2>4 DEF WriteCancelSignal, Shapes, Row
  <2>5. CASE \E w \in Worker : DeliverCancel(p, w)
    BY <1>a, <2>5, PersistSameGen DEF DeliverCancel
  <2>6. ~ClearSignal(p)
    BY DEF Actor
  <2> QED BY <1>3, <2>1, <2>2, <2>3, <2>4, <2>5, <2>6 DEF Answers
<1>4. ASSUME NEW p \in Proc, Calls(p) PROVE op'.gen >= op.gen
  BY <1>a, <1>4 DEF Calls, OpPause, ResumeWithdraws, OpResume, OpCancel,
                    Shapes, Row
<1>5. ASSUME NEW p \in Proc, Recovers(p) PROVE op'.gen >= op.gen
  <2>1. op'.gen = op.gen
    BY <1>5 DEF Recovers, RecoverPublished, RecoverStaleOp, Shapes, Row
  <2> QED BY <1>a, <2>1
<1>6. CASE LeaseExpires \/ UNCHANGED vars \/ \E p \in Proc : Crash(p)
  <2>1. UNCHANGED op
    BY <1>6 DEF LeaseExpires, vars, Crash
  <2> QED BY <1>a, <2>1
<1> QED BY <1>1, <1>2, <1>3, <1>4, <1>5, <1>6 DEF Next

\* Only a bare write of a row read earlier takes the lease generation back: the
\* one that clears a cancel signal.  Every other write goes through the row on
\* disk.
THEOREM OnlyClearingRewinds ==
    Spec => [][op'.gen < op.gen => \E a \in Actor : ClearSignal(a)]_vars
<1>1. Shapes /\ Shapes' /\ [Next]_vars =>
        [op'.gen < op.gen => \E a \in Actor : ClearSignal(a)]_vars
  <2> SUFFICES ASSUME Shapes, Shapes', [Next]_vars, op'.gen < op.gen,
                      ~\E a \in Actor : ClearSignal(a)
               PROVE  FALSE
    OBVIOUS
  <2>1. op'.gen >= op.gen
    BY OnlyClearingGoesBack
  <2>2. \A n \in 0..MaxGen : n \in Nat
    OBVIOUS
  <2>3. op.gen \in Nat /\ op'.gen \in Nat
    BY <2>2 DEF Shapes, Row
  <2> QED BY <2>1, <2>3
<1> QED BY <1>1, ShapesCorrect, PTL DEF Spec

-----------------------------------------------------------------------------
(* Fencing: operations nobody cancels *)

\* Where an actor stands only on account of a cancel.
Signalling == {"signal", "deliver", "clear", "close", "cancelling",
               "boundary", "abort"}

\* Nobody asked for a cancel, and nobody believes somebody did.
NoSignal ==
    /\ op.cancel = FALSE /\ op.state # "cancelling"
    /\ \A a \in Actor : mem[a].state # "cancelling" /\ pc[a] \notin Signalling
    /\ \A w \in Worker : run[w].tracker # "cancelled"

\* An actor moves elsewhere.
LEMMA SilentMove ==
    ASSUME Shapes, NoSignal, NEW a \in Actor, NEW there,
           there \notin Signalling, Goto(a, there)
    PROVE  \A b \in Actor : pc'[b] \notin Signalling
BY DEF Shapes, NoSignal, Goto

\* An actor moves elsewhere and changes nothing but its locals.
LEMMA SilentStep ==
    ASSUME Shapes, NoSignal, NEW a \in Actor, NEW there,
           there \notin Signalling, Goto(a, there), UNCHANGED <<op, mem, run>>
    PROVE  NoSignal'
BY SilentMove DEF NoSignal

\* Persisting a row that is not cancelling raises no signal.
LEMMA SilentPersist ==
    ASSUME Shapes, NoSignal, NEW a \in Actor, NEW mine, Persist(a, mine),
           mine.state # "cancelling"
    PROVE  /\ op'.cancel = FALSE /\ op'.state # "cancelling"
           /\ \A b \in Actor : mem'[b].state # "cancelling"
<1>1. /\ Merge(mine, op).state = mine.state
      /\ Merge(mine, op).cancel = op.cancel
  BY DEF Shapes, Row, Merge
<1>2. op' = Merge(mine, op) /\ mem' = [mem EXCEPT ![a] = Merge(mine, op)]
  BY DEF Persist
<1>3. \A b \in Actor : mem'[b] = mem[b] \/ mem'[b] = Merge(mine, op)
  BY <1>2 DEF Shapes
<1> QED BY <1>1, <1>2, <1>3 DEF NoSignal

\* Nor does a transition to another state.
LEMMA SilentTransition ==
    ASSUME Shapes, NoSignal, NEW a \in Actor,
           NEW to \in State \ {"cancelling"}, NEW next, NEW illegal,
           next \notin Signalling, illegal \notin Signalling,
           TransitionOp(a, to, next, illegal), UNCHANGED run
    PROVE  NoSignal'
<1>1. \A b \in Actor : pc'[b] \notin Signalling
  BY SilentMove DEF TransitionOp
<1>2. CASE UNCHANGED <<op, mem>>
  BY <1>1, <1>2 DEF NoSignal
<1>3. CASE Persist(a, [mem[a] EXCEPT !.state = to])
  <2>1. [mem[a] EXCEPT !.state = to].state # "cancelling"
    BY DEF Shapes, Row
  <2> QED BY <1>1, <1>3, <2>1, SilentPersist DEF NoSignal
<1> QED BY <1>2, <1>3 DEF TransitionOp

\* An actor takes over a row without a signal.
LEMMA SilentCopy ==
    ASSUME Shapes, NoSignal, NEW a \in Actor, NEW row,
           row.state # "cancelling", mem' = [mem EXCEPT ![a] = row]
    PROVE  \A b \in Actor : mem'[b].state # "cancelling"
BY DEF Shapes, NoSignal

\* A worker changes its locals, but for its tracker.
LEMMA SilentLocals ==
    ASSUME Shapes, NoSignal, NEW w \in Worker, NEW d,
           d.tracker # "cancelled", run' = [run EXCEPT ![w] = d]
    PROVE  \A v \in Worker : run'[v].tracker # "cancelled"
BY DEF Shapes, NoSignal

\* The worker's own code.
LEMMA SilentDrives ==
    ASSUME Shapes, NoSignal, NEW w \in Worker, Drives(w)
    PROVE  NoSignal'
<1>a. w \in Actor
  BY DEF Actor
<1>b. pc[w] \notin Signalling
  BY <1>a DEF NoSignal
<1>1. CASE EnterDrive(w)
  BY <1>a, <1>1, SilentStep DEF EnterDrive, NoSignal, Signalling
<1>2. CASE Acquire(w)
  <2>1. op'.cancel = FALSE /\ op'.state # "cancelling"
    BY <1>2 DEF Acquire, NoSignal, Shapes, Row
  <2>2. \A b \in Actor : pc'[b] \notin Signalling
    BY <1>a, <1>2, SilentMove DEF Acquire, Signalling
  <2>3. \A v \in Worker : run'[v].tracker # "cancelled"
    BY <1>2 DEF Acquire, NoSignal, Shapes, Drive
  <2>4. UNCHANGED mem
    BY <1>2 DEF Acquire
  <2> QED BY <2>1, <2>2, <2>3, <2>4 DEF NoSignal
<1>3. CASE Refresh(w)
  <2>1. \A b \in Actor : mem'[b].state # "cancelling"
    BY <1>a, <1>3, SilentCopy DEF Refresh, NoSignal
  <2>2. \A b \in Actor : pc'[b] \notin Signalling
    BY <1>a, <1>3, SilentMove DEF Refresh, Signalling
  <2>3. \A v \in Worker : run'[v].tracker # "cancelled"
    BY <1>3 DEF Refresh, NoSignal, Shapes, Drive
  <2>4. UNCHANGED op
    BY <1>3 DEF Refresh
  <2> QED BY <2>1, <2>2, <2>3, <2>4 DEF NoSignal
<1>4. CASE Begin(w)
  BY <1>a, <1>4, SilentTransition DEF Begin, Signalling, State
<1>5. CASE Reconcile(w)
  <2>1. \A b \in Actor : pc'[b] \notin Signalling
    BY <1>a, <1>5, SilentMove DEF Reconcile, Signalling
  <2>2. \A v \in Worker : run'[v].tracker # "cancelled"
    BY <1>5 DEF Reconcile, NoSignal, Shapes, Drive
  <2>3. CASE UNCHANGED <<op, mem>>
    BY <2>1, <2>2, <2>3 DEF NoSignal
  <2>4. CASE /\ \E outcome : op' = ProjectTo(outcome)
             /\ mem' = [mem EXCEPT ![w] = op']
    <3>1. op'.cancel = FALSE /\ op'.state # "cancelling"
      BY <2>4 DEF NoSignal, Shapes, Row, ProjectTo, StateOf
    <3>2. \A b \in Actor : mem'[b].state # "cancelling"
      BY <1>a, <2>4, <3>1, SilentCopy
    <3> QED BY <2>1, <2>2, <3>1, <3>2 DEF NoSignal
  <2> QED BY <1>5, <2>3, <2>4 DEF Reconcile
<1>6. CASE BeginTurn(w)
  BY <1>a, <1>6, SilentStep DEF BeginTurn, Signalling
<1>7. CASE StopAtTop(w)
  BY <1>a, <1>7, SilentTransition DEF StopAtTop, Signalling, State
<1>8. CASE TurnEnds(w)
  <2>1. \A b \in Actor : pc'[b] \notin Signalling
    BY <1>a, <1>8, SilentMove DEF TurnEnds, Signalling
  <2>2. \A v \in Worker : run'[v].tracker # "cancelled"
    BY <1>8 DEF TurnEnds, NoSignal, Shapes, Drive
  <2>3. UNCHANGED <<op, mem>>
    BY <1>8 DEF TurnEnds
  <2> QED BY <2>1, <2>2, <2>3 DEF NoSignal
<1>9. CASE Commit(w)
  BY <1>a, <1>9, SilentStep DEF Commit, Signalling
<1>10. CASE Project(w)
  <2>1. \A b \in Actor : pc'[b] \notin Signalling
    BY <1>a, <1>10, SilentMove DEF Project, Signalling
  <2>2. UNCHANGED run
    BY <1>10 DEF Project
  <2>3. CASE UNCHANGED <<op, mem>>
    BY <2>1, <2>2, <2>3 DEF NoSignal
  <2>4. CASE /\ \E outcome : op' = ProjectTo(outcome)
             /\ mem' = [mem EXCEPT ![w] = op']
    <3>1. op'.cancel = FALSE /\ op'.state # "cancelling"
      BY <2>4 DEF NoSignal, Shapes, Row, ProjectTo, StateOf
    <3>2. \A b \in Actor : mem'[b].state # "cancelling"
      BY <1>a, <2>4, <3>1, SilentCopy
    <3> QED BY <2>1, <2>2, <3>1, <3>2 DEF NoSignal
  <2> QED BY <1>10, <2>3, <2>4 DEF Project
<1>11. CASE LeaveLost(w)
  BY <1>a, <1>11, SilentStep DEF LeaveLost, Signalling
<1>12. CASE AwaitAbort(w)
  BY <1>12 DEF AwaitAbort, NoSignal
<1>13. CASE FinishOnWallClock(w)
  BY <1>a, <1>13, SilentTransition DEF FinishOnWallClock, Signalling, State
<1>14. CASE AwaitFailover(w)
  BY <1>a, <1>14, SilentStep DEF AwaitFailover, Signalling
<1>15. CASE Suspend(w)
  BY <1>a, <1>15, SilentTransition DEF Suspend, Signalling, State
<1>16. CASE LeaveDone(w)
  BY <1>a, <1>16, SilentStep DEF LeaveDone, Signalling
<1>17. CASE PerTurnStop(w)
  BY <1>a, <1>17, SilentTransition DEF PerTurnStop, Signalling, State
<1>18. CASE BoundaryCancel(w)
  BY <1>18 DEF BoundaryCancel, NoSignal
<1>19. CASE BoundaryPause(w)
  <2>1. op'.cancel = FALSE /\ op'.state # "cancelling"
    BY <1>19 DEF BoundaryPause, Snapshot, NoSignal, Shapes, Row
  <2>2. \A b \in Actor : mem'[b].state # "cancelling"
    BY <1>a, <1>19, <2>1, SilentCopy DEF BoundaryPause
  <2>3. \A b \in Actor : pc'[b] \notin Signalling
    BY <1>a, <1>19, SilentMove DEF BoundaryPause, Signalling
  <2>4. UNCHANGED run
    BY <1>19 DEF BoundaryPause
  <2> QED BY <2>1, <2>2, <2>3, <2>4 DEF NoSignal
<1>20. CASE PauseLands(w)
  BY <1>a, <1>20, SilentTransition DEF PauseLands, Signalling, State
<1>21. CASE NextTurn(w)
  <2>1. \A b \in Actor : pc'[b] \notin Signalling
    BY <1>a, <1>21, SilentMove DEF NextTurn, Signalling
  <2>2. \A v \in Worker : run'[v].tracker # "cancelled"
    BY <1>21 DEF NextTurn, NoSignal, Shapes, Drive
  <2>3. UNCHANGED <<op, mem>>
    BY <1>21 DEF NextTurn
  <2> QED BY <2>1, <2>2, <2>3 DEF NoSignal
<1>22. CASE AdapterRetries(w) \/ AdapterExhausted(w)
  <2>1. PICK mine : Persist(w, mine) /\ mine.state # "cancelling"
    <3>1. mem[w] \in Row /\ mem[w].state # "cancelling"
      BY <1>a DEF Shapes, NoSignal
    <3>2. [mem[w] EXCEPT !.attempts = @ + 1].state # "cancelling"
      BY <3>1 DEF Row
    <3> QED BY <1>22, <3>1, <3>2 DEF AdapterRetries, AdapterExhausted
  <2>2. \A b \in Actor : pc'[b] \notin Signalling
    BY <1>a, <1>22, SilentMove DEF AdapterRetries, AdapterExhausted, Signalling
  <2>3. UNCHANGED run
    BY <1>22 DEF AdapterRetries, AdapterExhausted
  <2> QED BY <1>a, <2>1, <2>2, <2>3, SilentPersist DEF NoSignal
<1>23. CASE Requeue(w) \/ GiveUp(w)
  BY <1>a, <1>23, SilentTransition DEF Requeue, GiveUp, Signalling, State
<1>24. CASE Rearm(w)
  BY <1>a, <1>24, SilentStep DEF Rearm, Signalling
<1>25. CASE \/ FinalizeCancel(w) \/ ClearSignal(w) \/ CloseCancelled(w)
            \/ BoundaryCancelling(w) \/ BoundaryAborted(w)
  BY <1>b, <1>25 DEF FinalizeCancel, ClearSignal, CloseCancelled,
                     BoundaryCancelling, BoundaryAborted, Runs, Resumes,
                     Signalling
<1>26. CASE Throw(w)
  <2>1. mem[w].state # "cancelling"
    BY <1>a DEF NoSignal
  <2>2. CASE UNCHANGED <<op, mem>> /\ Goto(w, "exit")
    BY <1>a, <1>26, <2>2, SilentStep DEF Throw, Signalling
  <2>3. CASE TransitionOp(w, "failed", "exit", "exit")
    BY <1>a, <1>26, <2>3, SilentTransition DEF Throw, Signalling, State
  <2> QED BY <1>26, <2>1, <2>2, <2>3 DEF Throw
<1>27. CASE Exit(w)
  <2>1. op'.cancel = FALSE /\ op'.state # "cancelling"
    BY <1>27 DEF Exit, Released, NoSignal, Shapes, Row
  <2>2. \A b \in Actor : pc'[b] \notin Signalling
    BY <1>a, <1>27, SilentMove DEF Exit, Signalling
  <2>3. \A v \in Worker : run'[v].tracker # "cancelled"
    BY <1>27 DEF Exit, NoSignal, Shapes, Drive
  <2>4. UNCHANGED mem
    BY <1>27 DEF Exit
  <2> QED BY <2>1, <2>2, <2>3, <2>4 DEF NoSignal
<1>28. CASE Settle(w)
  <2>1. \A b \in Actor : mem'[b].state # "cancelling"
    BY <1>a, <1>28, SilentCopy DEF Settle, Blank
  <2>2. \A b \in Actor : pc'[b] \notin Signalling
    BY <1>a, <1>28, SilentMove DEF Settle, Signalling
  <2>3. \A v \in Worker : run'[v].tracker # "cancelled"
    BY <1>28, SilentLocals DEF Settle, NotDriving
  <2>4. UNCHANGED op
    BY <1>28 DEF Settle
  <2> QED BY <2>1, <2>2, <2>3, <2>4 DEF NoSignal
<1>29. CASE FailoverDeclined(w)
  BY <1>a, <1>29, SilentStep DEF FailoverDeclined, Signalling
<1> QED BY <1>1, <1>2, <1>3, <1>4, <1>5, <1>6, <1>7, <1>8, <1>9, <1>10,
           <1>11, <1>12, <1>13, <1>14, <1>15, <1>16, <1>17, <1>18, <1>19,
           <1>20, <1>21, <1>22, <1>23, <1>24, <1>25, <1>26, <1>27, <1>28,
           <1>29 DEF Drives

\* The faults of a worker and its heartbeat.
LEMMA SilentFaults ==
    ASSUME Shapes, NoSignal, NEW w \in Worker, Falters(w) \/ Heartbeat(w)
    PROVE  NoSignal'
<1>a. w \in Actor
  BY DEF Actor
<1>1. CASE FactoryFails(w)
  <2>1. op'.cancel = FALSE /\ op'.state # "cancelling"
    BY <1>1 DEF FactoryFails, NoSignal, Shapes, Row
  <2>2. \A b \in Actor : mem'[b].state # "cancelling"
    BY <1>a, <1>1, SilentCopy DEF FactoryFails, Blank
  <2>3. \A b \in Actor : pc'[b] \notin Signalling
    BY <1>a, <1>1, SilentMove DEF FactoryFails, Signalling
  <2>4. UNCHANGED run
    BY <1>1 DEF FactoryFails
  <2> QED BY <2>1, <2>2, <2>3, <2>4 DEF NoSignal
<1>2. CASE AcquireFails(w)
  BY <1>a, <1>2, SilentStep DEF AcquireFails, Signalling
<1>3. CASE TurnThrows(w)
  BY <1>a, <1>3, SilentStep DEF TurnThrows, Signalling
<1>4. CASE ProjectFails(w)
  BY <1>a, <1>4, SilentStep DEF ProjectFails, Signalling
<1>5. CASE FailoverSwitches(w)
  <2>1. op'.cancel = FALSE /\ op'.state # "cancelling"
    BY <1>5 DEF FailoverSwitches, NoSignal, Shapes, Row
  <2>2. \A b \in Actor : mem'[b].state # "cancelling"
    BY <1>a, <1>5, <2>1, SilentCopy DEF FailoverSwitches
  <2>3. \A b \in Actor : pc'[b] \notin Signalling
    BY <1>a, <1>5, SilentMove DEF FailoverSwitches, Signalling
  <2>4. UNCHANGED run
    BY <1>5 DEF FailoverSwitches
  <2> QED BY <2>1, <2>2, <2>3, <2>4 DEF NoSignal
<1>6. CASE ReleaseFails(w)
  <2>1. \A b \in Actor : pc'[b] \notin Signalling
    BY <1>a, <1>6, SilentMove DEF ReleaseFails, Signalling
  <2>2. \A v \in Worker : run'[v].tracker # "cancelled"
    BY <1>6 DEF ReleaseFails, NoSignal, Shapes, Drive
  <2>3. UNCHANGED <<op, mem>>
    BY <1>6 DEF ReleaseFails
  <2> QED BY <2>1, <2>2, <2>3 DEF NoSignal
<1>7. CASE HeartbeatGivesUp(w) \/ HeartbeatClaimLost(w) \/ HeartbeatOK(w)
  <2>1. \A v \in Worker : run'[v].tracker # "cancelled"
    BY <1>7 DEF HeartbeatGivesUp, HeartbeatClaimLost, HeartbeatOK, NoSignal,
                Shapes, Drive
  <2>2. UNCHANGED <<op, mem, pc>>
    BY <1>7 DEF HeartbeatGivesUp, HeartbeatClaimLost, HeartbeatOK
  <2> QED BY <2>1, <2>2 DEF NoSignal
<1>8. CASE FailoverFails(w) \/ FenceFails(w)
  BY <1>a, <1>8, SilentStep DEF FailoverFails, FenceFails, Signalling
<1> QED BY <1>1, <1>2, <1>3, <1>4, <1>5, <1>6, <1>7, <1>8
        DEF Falters, Heartbeat

\* The scheduler, the control API and recovery, when nobody may cancel.
LEMMA SilentProcess ==
    ASSUME Shapes, NoSignal, "cancel" \notin Disturbance, NEW p \in Proc,
           Schedules(p) \/ Answers(p) \/ Calls(p) \/ Recovers(p)
    PROVE  NoSignal'
<1>a. p \in Actor
  BY DEF Actor
<1>b. pc[p] \notin Signalling
  BY <1>a DEF NoSignal
<1>1. CASE \E w \in Worker : Launch(p, w)
  <2>1. PICK w \in Worker : Launch(p, w)
    BY <1>1
  <2>2. w \in Actor
    BY DEF Actor
  <2>3. \A b \in Actor : mem'[b].state # "cancelling"
    BY <2>1, <2>2, SilentCopy DEF Launch, NoSignal
  <2>4. \A b \in Actor : pc'[b] \notin Signalling
    BY <2>1, <2>2, SilentMove DEF Launch, Signalling
  <2>5. UNCHANGED <<op, run>>
    BY <2>1 DEF Launch
  <2> QED BY <2>3, <2>4, <2>5 DEF NoSignal
<1>2. CASE PumpCancel(p)
  BY <1>2 DEF PumpCancel, NoSignal
<1>3. CASE TimerFires(p)
  BY <1>3 DEF TimerFires, NoSignal
<1>4. CASE ResumeLands(p)
  BY <1>a, <1>4, SilentTransition DEF ResumeLands, Signalling, State
<1>5. CASE \/ WriteCancelSignal(p) \/ CancelReturns(p) \/ ClearSignal(p)
           \/ CloseCancelled(p) \/ \E w \in Worker : DeliverCancel(p, w)
  BY <1>b, <1>5 DEF WriteCancelSignal, CancelReturns, ClearSignal,
                    CloseCancelled, DeliverCancel, Runs, Signalling
<1>6. CASE OpPause(p) \/ ResumeWithdraws(p) \/ RecoverPublished(p)
           \/ RecoverStaleOp(p)
  <2>1. op'.cancel = FALSE /\ op'.state # "cancelling"
    BY <1>6 DEF OpPause, ResumeWithdraws, RecoverPublished, RecoverStaleOp,
                StateOf, NoSignal, Shapes, Row
  <2>2. UNCHANGED <<mem, pc, run>>
    BY <1>6 DEF OpPause, ResumeWithdraws, RecoverPublished, RecoverStaleOp
  <2> QED BY <2>1, <2>2 DEF NoSignal
<1>7. CASE OpResume(p)
  <2>1. \A b \in Actor : mem'[b].state # "cancelling"
    BY <1>a, <1>7, SilentCopy DEF OpResume, NoSignal
  <2>2. \A b \in Actor : pc'[b] \notin Signalling
    BY <1>a, <1>7, SilentMove DEF OpResume, Signalling
  <2>3. UNCHANGED <<op, run>>
    BY <1>7 DEF OpResume
  <2> QED BY <2>1, <2>2, <2>3 DEF NoSignal
<1>8. CASE OpCancel(p)
  BY <1>8 DEF OpCancel, Disturb
<1> QED BY <1>1, <1>2, <1>3, <1>4, <1>5, <1>6, <1>7, <1>8
        DEF Schedules, Answers, Calls, Recovers

\* No step of a run in which nobody may cancel raises a signal.
LEMMA SilentNext ==
    ASSUME "cancel" \notin Disturbance
    PROVE  Shapes /\ NoSignal /\ [Next]_vars => NoSignal'
<1> SUFFICES ASSUME Shapes, NoSignal, [Next]_vars PROVE NoSignal'
  OBVIOUS
<1>1. ASSUME NEW w \in Worker, Drives(w) \/ Falters(w) \/ Heartbeat(w)
      PROVE  NoSignal'
  BY <1>1, SilentDrives, SilentFaults
<1>2. ASSUME NEW p \in Proc,
             Schedules(p) \/ Answers(p) \/ Calls(p) \/ Recovers(p)
      PROVE  NoSignal'
  BY <1>2, SilentProcess
<1>3. ASSUME NEW p \in Proc, Crash(p)
      PROVE  NoSignal'
  BY <1>3 DEF Crash, NoSignal, Blank, NotDriving, Signalling
<1>4. CASE LeaseExpires \/ UNCHANGED vars
  BY <1>4 DEF LeaseExpires, vars, NoSignal
<1> QED BY <1>1, <1>2, <1>3, <1>4 DEF Next

\* An operation nobody cancels keeps its turn log, whatever else happens to it:
\* any number of processes and workers, crashes, expired and lost leases, late
\* heartbeats, failed locks, pauses, resumes and retries.
THEOREM LogIsFencedWithoutCancel ==
    ASSUME "cancel" \notin Disturbance
    PROVE  Spec => TurnLogAppendOnly /\ []GenerationsOrdered
<1>1. Init => NoSignal
  BY DEF Init, NoSignal, Blank, NotDriving, Signalling
<1>2. Shapes /\ NoSignal /\ [Next]_vars => NoSignal'
  BY SilentNext
<1>3. Shapes /\ NoSignal /\ [Next]_vars => [op'.gen >= op.gen]_vars
  <2> SUFFICES ASSUME Shapes, NoSignal, [Next]_vars
               PROVE  op'.gen >= op.gen
    OBVIOUS
  <2>1. ~\E a \in Actor : ClearSignal(a)
    BY DEF NoSignal, Signalling, ClearSignal, Runs
  <2> QED BY <2>1, OnlyClearingGoesBack
<1>4. Spec => GenerationGrows
  BY <1>1, <1>2, <1>3, ShapesCorrect, PTL DEF Spec, GenerationGrows
<1> QED BY <1>4, LogIsFenced
=============================================================================
