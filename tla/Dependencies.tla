----------------------------- MODULE Dependencies -----------------------------
(***************************************************************************)
(* Operations that wait for others (dependencies.ts), batches of them that *)
(* are admitted together (dependency-batch.ts) and the coordinator between *)
(* the two and the scheduler (dependency-scheduler.ts), in one process.    *)
(*                                                                         *)
(* Rows and the manifest are on disk; waiter index and queue die with the  *)
(* process.  A handler is synchronous, so only a crash falls between two   *)
(* writes of an admission, and the observers of a terminal operation       *)
(* (`due`) run before anything else does.                                  *)
(***************************************************************************)
EXTENDS Naturals, Sequences, SequencesExt

CONSTANTS Ops,
          DependsOn,    \* DependsOn[o]: the prerequisites o names
          Batch,        \* the operations of the batch, in admission order
          MaxDepFaults  \* bound: crashes and failed writes

ASSUME DepConstants == /\ DependsOn \in [Ops -> SUBSET Ops]
                       /\ Batch \in Seq(Ops) /\ MaxDepFaults \in Nat

VARIABLES opState,    \* opState[o]: canonical.state, or "none"
          manifest,   \* the batch manifest is in place
          staging,    \* rows of the batch written by the admission under way
          waiters,    \* waiters[p]: registerDependencyWaiter
          runQueue,   \* the scheduler's queue
          due,        \* <<p, w>>: p ended, w is still to be gated again
          cancelAsked,
          depFaults

depVars == <<opState, manifest, staging, waiters, runQueue, due, cancelAsked,
             depFaults>>

BatchOps == ToSet(Batch)
Ended == {"succeeded", "failed", "cancelled"}
NoStaging == Len(Batch) + 1
NobodyWaits == [p \in Ops |-> {}]
Pending(o) == opState[o] \notin Ended \cup {"none"}

\* The event loop is free: no admission and no observer is on the stack.
Quiescent == staging = NoStaging /\ due = {}

DepInit ==
    /\ opState = [o \in Ops |-> "none"]
    /\ manifest = FALSE /\ staging = NoStaging
    /\ waiters = NobodyWaits /\ runQueue = {} /\ due = {}
    /\ cancelAsked = {} /\ depFaults = 0

DepTypeOK ==
    /\ opState \in [Ops -> {"none", "queued", "running"} \cup Ended]
    /\ manifest \in BOOLEAN /\ staging \in 0..NoStaging
    /\ waiters \in [Ops -> SUBSET Ops] /\ runQueue \subseteq Ops
    /\ due \subseteq Ops \X Ops /\ cancelAsked \subseteq Ops
    /\ depFaults \in 0..MaxDepFaults

-----------------------------------------------------------------------------
(* The gate, and what its verdict does.                                    *)

\* Mutant: a row is enough.
Admitted_ByRow(o) == opState[o] # "none"

\* dependencyBatchAdmissionError
Admitted(o) == o \in BatchOps => manifest

\* Mutant: what has ended no longer blocks.
Verdict_Ended(o) ==
    LET prerequisite == {opState[p] : p \in DependsOn[o]}
    IN  IF ~Admitted(o) \/ "none" \in prerequisite THEN "failed"
        ELSE IF prerequisite \subseteq Ended THEN "runnable"
        ELSE "blocked"

\* evaluateDependencyReadiness, behind the admission check of gate()
Verdict(o) ==
    LET prerequisite == {opState[p] : p \in DependsOn[o]}
    IN  IF ~Admitted(o) \/ prerequisite \cap {"failed", "none"} # {} THEN "failed"
        ELSE IF "cancelled" \in prerequisite THEN "cancelled"
        ELSE IF prerequisite \subseteq {"succeeded"} THEN "runnable"
        ELSE "blocked"

Unregistered(o) == [p \in Ops |-> waiters[p] \ {o}]
\* Mutant: only the first blocking prerequisite is registered with.
Registered_One(o) ==
    LET first == CHOOSE p \in DependsOn[o] : TRUE
    IN  [p \in Ops |-> IF DependsOn[o] # {} /\ p = first THEN waiters[p] \cup {o}
                       ELSE waiters[p] \ {o}]

Registered(o) == [p \in Ops |-> IF p \in DependsOn[o] THEN waiters[p] \cup {o}
                                ELSE waiters[p] \ {o}]

\* transitionOp to a terminal state calls coordinator.terminal().
Ends(o, state, index, pairs) ==
    /\ opState' = [opState EXCEPT ![o] = state]
    /\ waiters' = index
    /\ due' = pairs \cup {<<o, w>> : w \in waiters[o]}

\* gate(), called with a queued operation and the observers still to run.
Gate(o, pairs) ==
    \/ /\ Verdict(o) = "runnable" /\ waiters' = Unregistered(o)
       /\ due' = pairs /\ UNCHANGED opState
    \/ /\ Verdict(o) = "blocked" /\ waiters' = Registered(o)
       /\ due' = pairs /\ UNCHANGED opState
    \/ /\ Verdict(o) \in Ended
       /\ Ends(o, Verdict(o), Unregistered(o), pairs)

Requeued(o) == IF Verdict(o) = "runnable" THEN runQueue \cup {o} ELSE runQueue

-----------------------------------------------------------------------------
(* Admission.                                                              *)

\* canonicalLoopEntry; validateOpDependencies wants every prerequisite to exist.
Submit(o) ==
    /\ Quiescent /\ o \notin BatchOps /\ opState[o] = "none"
    /\ \A p \in DependsOn[o] : opState[p] # "none"
    /\ opState' = [opState EXCEPT ![o] = "queued"]
    /\ waiters' = Registered(o) /\ runQueue' = runQueue \cup {o}
    /\ UNCHANGED <<manifest, staging, due, cancelAsked, depFaults>>

StartAdmission ==
    /\ Quiescent /\ \A o \in BatchOps : opState[o] = "none"
    /\ \A o \in BatchOps : \A p \in DependsOn[o] \ BatchOps : opState[p] # "none"
    /\ staging' = 0
    /\ UNCHANGED <<opState, manifest, waiters, runQueue, due, cancelAsked, depFaults>>

WriteRow ==
    /\ staging < Len(Batch)
    /\ opState' = [opState EXCEPT ![Batch[staging + 1]] = "queued"]
    /\ staging' = staging + 1
    /\ UNCHANGED <<manifest, waiters, runQueue, due, cancelAsked, depFaults>>

\* commitManifest: the rename makes every row of the batch valid at once.
CommitManifest ==
    /\ staging = Len(Batch) /\ ~manifest /\ manifest' = TRUE
    /\ UNCHANGED <<opState, staging, waiters, runQueue, due, cancelAsked, depFaults>>

\* Only now are the rows registered and queued.
Announce ==
    /\ staging = Len(Batch) /\ manifest
    /\ staging' = NoStaging
    /\ waiters' = [p \in Ops |-> waiters[p] \cup {o \in BatchOps : p \in DependsOn[o]}]
    /\ runQueue' = runQueue \cup BatchOps
    /\ UNCHANGED <<opState, manifest, due, cancelAsked, depFaults>>

\* A row or the manifest cannot be written: removeStaged.
AdmissionFails ==
    /\ staging # NoStaging /\ ~manifest
    /\ depFaults < MaxDepFaults /\ depFaults' = depFaults + 1
    /\ staging' = NoStaging
    /\ opState' = [o \in Ops |-> IF o \in BatchOps THEN "none" ELSE opState[o]]
    /\ UNCHANGED <<manifest, waiters, runQueue, due, cancelAsked>>

-----------------------------------------------------------------------------
(* Scheduler, workers, cancel.                                             *)

\* pumpScheduler: a cancel first, then the gate; a runnable one is launched.
PumpOne(o) ==
    /\ Quiescent /\ o \in runQueue /\ runQueue' = runQueue \ {o}
    /\ UNCHANGED <<manifest, staging, cancelAsked, depFaults>>
    /\ \/ opState[o] # "queued" /\ UNCHANGED <<opState, waiters, due>>
       \/ /\ opState[o] = "queued" /\ o \in cancelAsked
          /\ Ends(o, "cancelled", waiters, due)
       \/ /\ opState[o] = "queued" /\ o \notin cancelAsked
          /\ Verdict(o) = "runnable" /\ waiters' = Unregistered(o)
          /\ opState' = [opState EXCEPT ![o] = "running"] /\ UNCHANGED due
       \/ /\ opState[o] = "queued" /\ o \notin cancelAsked
          /\ Verdict(o) # "runnable" /\ Gate(o, due)

WorkerEnds(o) ==
    /\ Quiescent /\ opState[o] = "running"
    /\ \E state \in IF o \in cancelAsked THEN Ended ELSE Ended \ {"cancelled"} :
          Ends(o, state, waiters, due)
    /\ UNCHANGED <<manifest, staging, runQueue, cancelAsked, depFaults>>

\* A retry or a recovery puts a running operation back, through the same gate.
Requeue(o) ==
    /\ Quiescent /\ opState[o] = "running"
    /\ depFaults < MaxDepFaults /\ depFaults' = depFaults + 1
    /\ opState' = [opState EXCEPT ![o] = "queued"]
    /\ runQueue' = runQueue \cup {o}
    /\ UNCHANGED <<manifest, staging, waiters, due, cancelAsked>>

\* coordinator.terminal(), one waiter of its snapshot at a time.
Observe(p, w) ==
    /\ staging = NoStaging /\ <<p, w>> \in due
    /\ LET rest == due \ {<<p, w>>}
       IN  IF opState[w] = "queued"
             THEN Gate(w, rest) /\ runQueue' = Requeued(w)
             ELSE due' = rest /\ UNCHANGED <<opState, waiters, runQueue>>
    /\ UNCHANGED <<manifest, staging, cancelAsked, depFaults>>

\* opCancel: a queued operation is woken so that the pump meets the signal.
AskCancel(o) ==
    /\ Quiescent /\ Pending(o) /\ cancelAsked' = cancelAsked \cup {o}
    /\ runQueue' = IF opState[o] = "queued" THEN runQueue \cup {o} ELSE runQueue
    /\ UNCHANGED <<opState, manifest, staging, waiters, due, depFaults>>

-----------------------------------------------------------------------------
(* Crash and boot: the index is rebuilt and what is left is queued again.  *)

\* rebuildDependencyWaiterIndex, then the sweep over every pending row: a
\* queued one goes to the queue, where the gate meets it; so does an orphan.
BootState == [o \in Ops |-> IF opState[o] = "running" THEN "queued" ELSE opState[o]]
Rebuilt == [p \in Ops |-> {o \in Ops : p \in DependsOn[o] /\ Pending(o)}]

CrashAndBoot ==
    /\ depFaults < MaxDepFaults /\ depFaults' = depFaults + 1
    /\ staging' = NoStaging /\ due' = {}
    /\ opState' = BootState /\ waiters' = Rebuilt
    /\ runQueue' = {o \in Ops : Pending(o)}
    /\ UNCHANGED <<manifest, cancelAsked>>

DepNext ==
    \/ \E o \in Ops : \/ Submit(o) \/ PumpOne(o) \/ WorkerEnds(o) \/ Requeue(o)
                      \/ AskCancel(o) \/ \E w \in Ops : Observe(o, w)
    \/ StartAdmission \/ WriteRow \/ CommitManifest \/ Announce \/ AdmissionFails
    \/ CrashAndBoot

DepSpec == DepInit /\ [][DepNext]_depVars

-----------------------------------------------------------------------------
Started(o) == opState[o] \in {"running", "succeeded"}

\* An operation runs only after everything it named has succeeded, on its first
\* launch, after a retry and after a restart, and nothing un-succeeds behind it.
RunsAfterPrerequisites ==
    \A o \in Ops : Started(o) => \A p \in DependsOn[o] : opState[p] = "succeeded"

\* All of a batch or none of it: while one of its operations has run, each of
\* them has its row; after a crash between two rows nobody runs.
BatchIsAtomic ==
    (\E o \in BatchOps : Started(o)) => \A o \in BatchOps : opState[o] # "none"

\* No lost wake-up: when the stack is empty a queued operation is in the queue,
\* or registered with a prerequisite that is still to end.
QueuedIsAwaited ==
    Quiescent => \A o \in Ops : opState[o] = "queued" =>
        o \in runQueue \/ \E p \in DependsOn[o] : Pending(p) /\ o \in waiters[p]
=============================================================================
