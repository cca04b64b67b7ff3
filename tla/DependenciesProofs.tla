-------------------------- MODULE DependenciesProofs --------------------------
(***************************************************************************)
(* Three promises of the dependency scheduler, for every set of operations, *)
(* every acyclic or cyclic choice of prerequisites and every batch: nobody  *)
(* runs before its prerequisites have succeeded, a batch runs whole or not  *)
(* at all, and no wake-up is lost.  The first two rest on the same facts,   *)
(* that a success is never taken back and that the manifest is there before *)
(* any of the batch runs; the third on who holds a queued operation while   *)
(* an admission or an observer is on the stack.                             *)
(***************************************************************************)
EXTENDS Dependencies, TLAPS

DepTyped == /\ opState \in [Ops -> {"none", "queued", "running"} \cup Ended]
            /\ manifest \in BOOLEAN /\ staging \in 0..NoStaging

\* While rows are being written the batch is not committed, and none of its
\* operations has started; the rows written so far are there.
StagedRows ==
    staging # NoStaging =>
        /\ staging < Len(Batch) => ~manifest
        /\ \A i \in 1..staging : opState[Batch[i]] # "none"

\* The manifest is the last write of an admission.
ManifestIsLast == manifest => \A o \in BatchOps : opState[o] # "none"

\* An operation of the batch starts only under the manifest.
StartsUnderManifest == \A o \in BatchOps : Started(o) => manifest

DepInv == /\ DepTyped /\ StagedRows /\ ManifestIsLast /\ StartsUnderManifest
          /\ RunsAfterPrerequisites

-----------------------------------------------------------------------------
\* The batch's operations are what its sequence holds.
LEMMA BatchMembers ==
    /\ BatchOps = {Batch[i] : i \in 1..Len(Batch)}
    /\ BatchOps \subseteq Ops /\ Len(Batch) \in Nat
    /\ \A i \in 1..Len(Batch) : Batch[i] \in BatchOps
BY DepConstants DEF DepConstants, BatchOps, ToSet

\* gate() finds an operation runnable only behind its manifest and successes.
LEMMA RunnableMeans ==
    ASSUME NEW o, Verdict(o) = "runnable"
    PROVE  /\ o \in BatchOps => manifest
           /\ \A p \in DependsOn[o] : opState[p] = "succeeded"
<1> DEFINE prerequisite == {opState[p] : p \in DependsOn[o]}
<1>1. Admitted(o) /\ prerequisite \subseteq {"succeeded"}
  BY Zenon DEF Verdict
<1>2. \A p \in DependsOn[o] : opState[p] \in prerequisite  OBVIOUS
<1> QED BY <1>1, <1>2 DEF Admitted

\* ... and otherwise it ends the operation in failure or as cancelled, or not.
LEMMA Verdicts == \A o : Verdict(o) \in {"failed", "cancelled", "runnable", "blocked"}
BY DEF Verdict

\* A step that leaves manifest and staging alone and takes nothing that has
\* succeeded away keeps the invariant, if what it starts was found runnable.
LEMMA StateMoves ==
    ASSUME DepInv, UNCHANGED <<manifest, staging>>,
           NEW o \in Ops, NEW to \in {"queued", "running"} \cup Ended,
           opState' = [opState EXCEPT ![o] = to],
           opState[o] # "succeeded",
           Started(o)' => Started(o) \/ Verdict(o) = "runnable"
    PROVE  DepInv'
<1> USE DEF DepInv
<1>1. opState \in [Ops -> {"none", "queued", "running"} \cup Ended]  BY DEF DepTyped
<1>2. DepTyped'  BY <1>1 DEF DepTyped
<1>3. \A p \in Ops : opState[p] # "none" => opState'[p] # "none"  BY <1>1 DEF Ended
<1>4. \A p \in Ops : opState[p] = "succeeded" => opState'[p] = "succeeded"  BY <1>1
<1>5. StagedRows'
  <2>1. \A i \in 1..staging : staging # NoStaging => Batch[i] \in Ops
    BY BatchMembers DEF DepTyped, NoStaging
  <2> QED BY <2>1, <1>3 DEF StagedRows, NoStaging
<1>6. ManifestIsLast'  BY <1>3, BatchMembers DEF ManifestIsLast, BatchOps
<1>7. \A p \in Ops \ {o} : Started(p)' => Started(p)  BY <1>1 DEF Started
<1>8. \A p \in Ops : Started(p)' => Started(p) \/ (p = o /\ Verdict(o) = "runnable")
  BY <1>7
<1>9. StartsUnderManifest'
  BY <1>8, RunnableMeans, BatchMembers DEF StartsUnderManifest, BatchOps
<1>10. RunsAfterPrerequisites'
  BY <1>8, <1>4, RunnableMeans, DepConstants DEF RunsAfterPrerequisites, DepConstants
<1> QED BY <1>2, <1>5, <1>6, <1>9, <1>10

\* A step that leaves rows, manifest and admission alone keeps the invariant.
LEMMA NothingMoves ==
    ASSUME DepInv, UNCHANGED <<opState, manifest, staging>> PROVE DepInv'
BY DEF DepInv, DepTyped, StagedRows, ManifestIsLast, StartsUnderManifest,
       RunsAfterPrerequisites, Started

LEMMA DepInvInit == ASSUME DepInit PROVE DepInv
<1>1. /\ opState = [o \in Ops |-> "none"] /\ manifest = FALSE
      /\ staging = NoStaging
  BY DEF DepInit
<1>2. DepTyped
  <2>1. NoStaging \in 0..NoStaging  BY BatchMembers DEF NoStaging
  <2>2. opState \in [Ops -> {"none", "queued", "running"} \cup Ended]  BY <1>1
  <2> QED BY <1>1, <2>1, <2>2 DEF DepTyped
<1>3. \A o \in Ops : ~Started(o)  BY <1>1 DEF Started
<1> QED BY <1>1, <1>2, <1>3, BatchMembers DEF DepInv, StagedRows, ManifestIsLast,
           StartsUnderManifest, RunsAfterPrerequisites

\* The gate ends a queued operation or leaves it queued.
LEMMA GateKeeps ==
    ASSUME DepInv, UNCHANGED <<manifest, staging>>,
           NEW o \in Ops, opState[o] = "queued", NEW pairs, Gate(o, pairs)
    PROVE  DepInv'
<1>1. CASE UNCHANGED opState  BY <1>1, NothingMoves
<1>2. CASE Verdict(o) \in Ended /\ Ends(o, Verdict(o), Unregistered(o), pairs)
  <2>1. Verdict(o) \in {"failed", "cancelled"}  BY <1>2, Verdicts DEF Ended
  <2>2. opState' = [opState EXCEPT ![o] = Verdict(o)]  BY <1>2 DEF Ends
  <2>3. ~Started(o)'  BY <2>1, <2>2 DEF Started, DepInv, DepTyped
  <2> QED BY <2>1, <2>2, <2>3, StateMoves DEF Ended
<1> QED BY <1>1, <1>2 DEF Gate

-----------------------------------------------------------------------------
LEMMA DepInvStep ==
    ASSUME DepInv, [DepNext]_depVars PROVE DepInv'
<1> USE DEF DepInv
<1>t. opState \in [Ops -> {"none", "queued", "running"} \cup Ended]  BY DEF DepTyped
<1>1. ASSUME NEW o \in Ops, Submit(o) PROVE DepInv'
  BY <1>1, <1>t, StateMoves DEF Submit, Started
<1>2. CASE StartAdmission
  <2>1. ~manifest \/ BatchOps = {}  BY <1>2 DEF StartAdmission, ManifestIsLast
  <2>2. StagedRows'
    <3>1. Len(Batch) \in Nat /\ (BatchOps = {} => 1 \notin 1..Len(Batch))
      BY BatchMembers
    <3>2. ~manifest \/ ~(0 < Len(Batch))  BY <2>1, <3>1
    <3> QED BY <1>2, <3>2 DEF StartAdmission, StagedRows
  <2> QED BY <1>2, <2>2, BatchMembers DEF StartAdmission, DepTyped, ManifestIsLast,
             StartsUnderManifest, RunsAfterPrerequisites, Started, NoStaging, BatchOps
<1>3. CASE WriteRow
  <2> DEFINE o == Batch[staging + 1]
  <2>1. /\ staging \in Nat /\ staging + 1 \in 1..Len(Batch)
        /\ o \in BatchOps /\ o \in Ops /\ ~manifest
    BY <1>3, BatchMembers DEF WriteRow, StagedRows, DepTyped, NoStaging
  <2>2. opState' = [opState EXCEPT ![o] = "queued"] /\ manifest' = manifest
        /\ staging' = staging + 1
    BY <1>3 DEF WriteRow
  <2>3. ~Started(o)  BY <2>1 DEF StartsUnderManifest
  <2>4. \A p \in Ops : /\ Started(p)' <=> Started(p)
                       /\ opState[p] = "succeeded" => opState'[p] = "succeeded"
                       /\ opState[p] # "none" => opState'[p] # "none"
    BY <2>1, <2>2, <2>3, <1>t DEF Started
  <2>5. DepTyped'
    BY <2>1, <2>2, <1>t, BatchMembers DEF DepTyped, NoStaging, BatchOps
  <2>6. opState'[o] # "none"  BY <2>1, <2>2, <1>t
  <2>7. \A i \in 1..staging' : i \in 1..staging \/ i = staging + 1  BY <2>1, <2>2
  <2>8. \A i \in 1..staging : opState'[Batch[i]] # "none"
    BY SMTT(30), <2>1, <2>4, BatchMembers DEF StagedRows, NoStaging
  <2>9. StagedRows'  BY <2>1, <2>2, <2>6, <2>7, <2>8 DEF StagedRows
  <2>10. ManifestIsLast' /\ StartsUnderManifest'
    BY <2>1, <2>2, <2>4, BatchMembers DEF ManifestIsLast, StartsUnderManifest, BatchOps
  <2>11. RunsAfterPrerequisites'
    BY <2>4, DepConstants DEF RunsAfterPrerequisites, DepConstants
  <2> QED BY <2>5, <2>9, <2>10, <2>11
<1>4. CASE CommitManifest
  <2>1. /\ staging = Len(Batch) /\ manifest' /\ UNCHANGED <<opState, staging>>
        /\ staging # NoStaging
    BY <1>4, BatchMembers DEF CommitManifest, NoStaging
  <2>2. ManifestIsLast'  BY <2>1, BatchMembers DEF StagedRows, ManifestIsLast, BatchOps
  <2> QED BY <2>1, <2>2, BatchMembers DEF DepTyped, StagedRows, StartsUnderManifest,
             RunsAfterPrerequisites, Started, NoStaging
<1>5. CASE Announce
  BY <1>5, BatchMembers DEF Announce, DepTyped, StagedRows, ManifestIsLast, StartsUnderManifest,
     RunsAfterPrerequisites, Started, NoStaging
<1>6. CASE AdmissionFails
  <2>1. /\ ~manifest /\ manifest' = manifest /\ staging' = NoStaging
        /\ opState' = [o \in Ops |-> IF o \in BatchOps THEN "none" ELSE opState[o]]
    BY <1>6 DEF AdmissionFails
  <2>2. \A o \in Ops : /\ Started(o)' => Started(o) /\ o \notin BatchOps
                       /\ o \notin BatchOps => opState'[o] = opState[o]
    BY <2>1 DEF Started
  <2>3. \A o \in BatchOps : opState[o] # "succeeded"
    BY <2>1 DEF StartsUnderManifest, Started
  <2>4. DepTyped'  BY <2>1, <1>t, BatchMembers DEF DepTyped, NoStaging
  <2>5. StagedRows' /\ ManifestIsLast'
    BY <2>1 DEF StagedRows, ManifestIsLast, NoStaging
  <2>6. StartsUnderManifest'
    BY <2>2, BatchMembers DEF StartsUnderManifest, BatchOps
  <2>7. RunsAfterPrerequisites'
    BY <2>2, <2>3, DepConstants DEF RunsAfterPrerequisites, DepConstants
  <2> QED BY <2>4, <2>5, <2>6, <2>7
<1>7. ASSUME NEW o \in Ops, PumpOne(o) PROVE DepInv'
  <2>1. UNCHANGED <<manifest, staging>>  BY <1>7 DEF PumpOne
  <2>2. CASE UNCHANGED opState  BY <2>1, <2>2, NothingMoves
  <2>3. CASE opState[o] = "queued" /\ Ends(o, "cancelled", waiters, due)
    BY <2>1, <2>3, <1>t, StateMoves DEF Ends, Started, Ended
  <2>4. CASE /\ opState[o] = "queued" /\ Verdict(o) = "runnable"
             /\ opState' = [opState EXCEPT ![o] = "running"]
    BY <2>1, <2>4, StateMoves
  <2>5. CASE opState[o] = "queued" /\ Gate(o, due)  BY <2>1, <2>5, GateKeeps
  <2> QED BY <1>7, <2>2, <2>3, <2>4, <2>5 DEF PumpOne
<1>8. ASSUME NEW o \in Ops, WorkerEnds(o) PROVE DepInv'
  <2>1. PICK state \in Ended : Ends(o, state, waiters, due)
    BY <1>8 DEF WorkerEnds
  <2>2. opState[o] = "running" /\ UNCHANGED <<manifest, staging>>
    BY <1>8 DEF WorkerEnds
  <2> QED BY <2>1, <2>2, StateMoves DEF Ends, Started
<1>9. ASSUME NEW o \in Ops, Requeue(o) PROVE DepInv'
  BY <1>9, <1>t, StateMoves DEF Requeue, Started
<1>10. ASSUME NEW p \in Ops, NEW w \in Ops, Observe(p, w) PROVE DepInv'
  BY <1>10, GateKeeps, NothingMoves DEF Observe
<1>11. ASSUME NEW o \in Ops, AskCancel(o) PROVE DepInv'
  BY <1>11, NothingMoves DEF AskCancel
<1>12. CASE CrashAndBoot
  <2>1. /\ manifest' = manifest /\ staging' = NoStaging
        /\ opState' = [o \in Ops |-> IF opState[o] = "running" THEN "queued" ELSE opState[o]]
    BY <1>12 DEF CrashAndBoot, BootState
  <2>2. \A o \in Ops : /\ Started(o)' => Started(o)
                       /\ opState[o] = "succeeded" => opState'[o] = "succeeded"
                       /\ opState[o] # "none" => opState'[o] # "none"
    BY <2>1 DEF Started
  <2>3. DepTyped'  BY <2>1, <1>t, BatchMembers DEF DepTyped, NoStaging
  <2>4. StagedRows'  BY <2>1 DEF StagedRows, NoStaging
  <2>5. ManifestIsLast' /\ StartsUnderManifest'
    BY <2>1, <2>2, BatchMembers DEF ManifestIsLast, StartsUnderManifest, BatchOps
  <2>6. RunsAfterPrerequisites'
    BY <2>2, DepConstants DEF RunsAfterPrerequisites, DepConstants
  <2> QED BY <2>3, <2>4, <2>5, <2>6
<1>13. CASE UNCHANGED depVars
  BY <1>13, NothingMoves DEF depVars
<1> QED BY <1>1, <1>2, <1>3, <1>4, <1>5, <1>6, <1>7, <1>8, <1>9, <1>10, <1>11,
           <1>12, <1>13 DEF DepNext

-----------------------------------------------------------------------------
\* Admission, wake-ups, launches, ends, crashes and boots all keep DepInv.
THEOREM DepInvariance == DepSpec => []DepInv
<1>1. DepInit => DepInv  BY DepInvInit
<1>2. DepInv /\ [DepNext]_depVars => DepInv'  BY DepInvStep
<1> QED BY <1>1, <1>2, PTL DEF DepSpec

\* evaluateDependencyReadiness, retries, recoveries and reboots: nothing runs, and
\* nothing has run, whose prerequisites have not all succeeded.
THEOREM NobodyRunsEarly ==
    DepSpec => []RunsAfterPrerequisites
<1>1. DepInv => RunsAfterPrerequisites  BY DEF DepInv
<1> QED BY <1>1, DepInvariance, PTL

\* admitDependencyBatch with a crash anywhere: once one operation of a batch has
\* run, each of them has its row.
THEOREM BatchesAreWhole ==
    DepSpec => []BatchIsAtomic
<1>1. DepInv => BatchIsAtomic
  BY DEF DepInv, BatchIsAtomic, StartsUnderManifest, ManifestIsLast
<1> QED BY <1>1, DepInvariance, PTL

-----------------------------------------------------------------------------
(* No lost wake-up.  Between two steps of the event loop a queued operation *)
(* may also be waiting for an observer of `due`, or for Announce to put the *)
(* rows of its batch in the queue.                                          *)

Awaited(o) ==
    \/ o \in runQueue
    \/ \E p \in DependsOn[o] : Pending(p) /\ o \in waiters[p]
    \/ \E p \in Ops : <<p, o>> \in due
    \/ staging # NoStaging /\ o \in BatchOps

\* validateOpDependencies: whoever came in alone names operations that exist.
PrerequisitesExist ==
    \A o \in Ops \ BatchOps : opState[o] # "none" =>
        \A p \in DependsOn[o] : opState[p] # "none"

\* ... so none of them names a row that a failed admission takes away again.
NobodyNamesStaged ==
    staging # NoStaging =>
        \A o \in Ops \ BatchOps : opState[o] # "none" => DependsOn[o] \cap BatchOps = {}

AwaitInv == /\ DepInv /\ PrerequisitesExist /\ NobodyNamesStaged
            /\ \A o \in Ops : opState[o] = "queued" => Awaited(o)

-----------------------------------------------------------------------------
\* A prerequisite that ends hands its waiters to the observers.
LEMMA AwaitedStays ==
    ASSUME NEW w \in Ops, Awaited(w), UNCHANGED staging,
           w \in runQueue => w \in runQueue',
           \A p \in Ops : w \in waiters[p] => w \in waiters'[p],
           \A p \in Ops : <<p, w>> \in due => <<p, w>> \in due',
           \A p \in Ops : Pending(p) /\ w \in waiters[p] => Pending(p)' \/ <<p, w>> \in due'
    PROVE  Awaited(w)'
BY DepConstants DEF DepConstants, Awaited

\* A blocked operation has a prerequisite that is still to end.
LEMMA BlockedMeans ==
    ASSUME DepTyped, NEW o \in Ops, Verdict(o) = "blocked"
    PROVE  \E p \in DependsOn[o] : Pending(p)
<1> DEFINE prerequisite == {opState[p] : p \in DependsOn[o]}
<1>1. /\ prerequisite \cap {"failed", "none"} = {} /\ "cancelled" \notin prerequisite
      /\ ~(prerequisite \subseteq {"succeeded"})
  BY Zenon DEF Verdict
<1>2. PICK p \in DependsOn[o] : opState[p] # "succeeded"  BY <1>1
<1>3. opState[p] \in prerequisite  BY <1>2
<1> QED BY <1>1, <1>2, <1>3 DEF Pending, Ended

\* The gate's effect on its operation and on everybody else's registration.
LEMMA GateAwaits ==
    ASSUME AwaitInv, NEW o \in Ops, opState[o] = "queued", NEW pairs,
           Gate(o, pairs), UNCHANGED staging,
           runQueue \ {o} \subseteq runQueue',
           Verdict(o) = "runnable" => o \in runQueue',
           \A p \in Ops : \A w \in Ops \ {o} : <<p, w>> \in due => <<p, w>> \in pairs
    PROVE  \A w \in Ops : opState'[w] = "queued" => Awaited(w)'
<1> SUFFICES ASSUME NEW w \in Ops, opState'[w] = "queued" PROVE Awaited(w)'
  OBVIOUS
<1>t. opState \in [Ops -> {"none", "queued", "running"} \cup Ended] /\ DepTyped
  BY DEF AwaitInv, DepInv, DepTyped
<1>1. CASE Verdict(o) = "runnable" /\ waiters' = Unregistered(o) /\ due' = pairs
           /\ UNCHANGED opState
  <2>1. CASE w = o  BY <1>1, <2>1 DEF Awaited
  <2>2. CASE w # o
    BY <1>1, <2>2, AwaitedStays DEF AwaitInv, Unregistered, Pending
  <2> QED BY <2>1, <2>2
<1>2. CASE Verdict(o) = "blocked" /\ waiters' = Registered(o) /\ due' = pairs
           /\ UNCHANGED opState
  <2>1. CASE w = o
    <3>1. PICK p \in DependsOn[o] : Pending(p)  BY <1>t, <1>2, BlockedMeans
    <3>2. o \in waiters'[p]  BY <1>2, <3>1, DepConstants DEF DepConstants, Registered
    <3> QED BY <1>2, <2>1, <3>1, <3>2 DEF Awaited, Pending
  <2>2. CASE w # o
    BY <1>2, <2>2, AwaitedStays DEF AwaitInv, Registered, Pending
  <2> QED BY <2>1, <2>2
<1>3. CASE Verdict(o) \in Ended /\ Ends(o, Verdict(o), Unregistered(o), pairs)
  <2>1. opState' = [opState EXCEPT ![o] = Verdict(o)] /\ waiters' = Unregistered(o)
        /\ due' = pairs \cup {<<o, v>> : v \in waiters[o]}
    BY <1>3 DEF Ends
  <2>2. w # o /\ opState[w] = "queued"
    BY <1>t, <1>3, <2>1 DEF Ended
  <2>3. \A p \in Ops \ {o} : opState'[p] = opState[p]  BY <1>t, <2>1
  <2> QED BY <2>1, <2>2, <2>3, AwaitedStays DEF AwaitInv, Unregistered, Pending
<1> QED BY <1>1, <1>2, <1>3 DEF Gate

\* An operation that ends leaves the others awaited.
LEMMA EndsAwaits ==
    ASSUME AwaitInv, NEW o \in Ops, NEW state \in Ended, Ends(o, state, waiters, due),
           UNCHANGED staging, runQueue \ {o} \subseteq runQueue'
    PROVE  \A w \in Ops : opState'[w] = "queued" => Awaited(w)'
<1> SUFFICES ASSUME NEW w \in Ops, opState'[w] = "queued" PROVE Awaited(w)'
  OBVIOUS
<1>t. opState \in [Ops -> {"none", "queued", "running"} \cup Ended]
  BY DEF AwaitInv, DepInv, DepTyped
<1>1. opState' = [opState EXCEPT ![o] = state] /\ waiters' = waiters
      /\ due' = due \cup {<<o, v>> : v \in waiters[o]}
  BY DEF Ends
<1>2. w # o /\ opState[w] = "queued"  BY <1>t, <1>1 DEF Ended
<1>3. \A p \in Ops \ {o} : opState'[p] = opState[p]  BY <1>t, <1>1
<1> QED BY <1>1, <1>2, <1>3, AwaitedStays DEF AwaitInv, Pending

-----------------------------------------------------------------------------
\* Rows come in behind their prerequisites, and only a failed admission takes
\* rows away: its own, which nobody else names.
LEMMA NamesStep ==
    ASSUME AwaitInv, DepNext PROVE PrerequisitesExist' /\ NobodyNamesStaged'
<1>t. /\ opState \in [Ops -> {"none", "queued", "running"} \cup Ended]
      /\ DepTyped /\ PrerequisitesExist /\ NobodyNamesStaged
  BY DEF AwaitInv, DepInv, DepTyped
<1>d. DependsOn \in [Ops -> SUBSET Ops]  BY DepConstants DEF DepConstants
<1> DEFINE Older == /\ \A o \in Ops : opState[o] # "none" => opState'[o] # "none"
                    /\ \A o \in Ops \ BatchOps : opState'[o] # "none" => opState[o] # "none"
<1>1. CASE Older /\ (staging' = staging \/ staging' = NoStaging)
  BY <1>1, <1>t, <1>d DEF PrerequisitesExist, NobodyNamesStaged, NoStaging
<1>2. ASSUME NEW o \in Ops, Submit(o) PROVE PrerequisitesExist' /\ NobodyNamesStaged'
  <2>1. /\ staging' = NoStaging /\ opState' = [opState EXCEPT ![o] = "queued"]
        /\ \A p \in DependsOn[o] : opState[p] # "none"
    BY <1>2 DEF Submit, Quiescent, NoStaging
  <2>2. /\ \A w \in Ops : opState[w] # "none" => opState'[w] # "none"
        /\ \A w \in Ops \ {o} : opState'[w] # "none" => opState[w] # "none"
    BY <1>t, <2>1
  <2>3. PrerequisitesExist'  BY <1>t, <1>d, <2>1, <2>2 DEF PrerequisitesExist
  <2> QED BY <2>1, <2>3 DEF NobodyNamesStaged, NoStaging
<1>3. CASE StartAdmission
  <2>1. opState' = opState /\ \A o \in BatchOps : opState[o] = "none"
    BY <1>3 DEF StartAdmission
  <2>2. NobodyNamesStaged'
    BY <1>t, <2>1 DEF PrerequisitesExist, NobodyNamesStaged
  <2> QED BY <1>t, <2>1, <2>2 DEF PrerequisitesExist
<1>4. CASE WriteRow
  <2> DEFINE b == Batch[staging + 1]
  <2>1. opState' = [opState EXCEPT ![b] = "queued"] /\ staging # NoStaging
        /\ staging + 1 \in 1..Len(Batch)
    BY <1>4, <1>t, BatchMembers DEF WriteRow, DepTyped, NoStaging
  <2>2. b \in BatchOps /\ b \in Ops  BY <2>1, BatchMembers
  <2>3. Older  BY <1>t, <2>1, <2>2
  <2> QED BY <1>t, <1>d, <2>1, <2>3 DEF PrerequisitesExist, NobodyNamesStaged
<1>5. CASE AdmissionFails
  <2>1. /\ staging # NoStaging /\ staging' = NoStaging
        /\ opState' = [o \in Ops |-> IF o \in BatchOps THEN "none" ELSE opState[o]]
    BY <1>5 DEF AdmissionFails, NoStaging
  <2>2. \A o \in Ops \ BatchOps : opState'[o] = opState[o]  BY <2>1
  <2>3. PrerequisitesExist'
    BY <1>t, <1>d, <2>1, <2>2 DEF PrerequisitesExist, NobodyNamesStaged, BatchOps
  <2> QED BY <2>1, <2>3 DEF NobodyNamesStaged, NoStaging
<1>6. CASE CrashAndBoot
  <2>1. Older  BY <1>t, <1>6 DEF CrashAndBoot, BootState
  <2> QED BY <1>1, <1>6, <2>1 DEF CrashAndBoot
<1>7. CASE CommitManifest \/ Announce
  BY <1>1, <1>7 DEF CommitManifest, Announce
<1>8. ASSUME NEW o \in Ops, NEW pairs, Gate(o, pairs), opState[o] = "queued"
      PROVE  Older
  <2>1. CASE UNCHANGED opState  BY <2>1
  <2>2. CASE Verdict(o) \in Ended /\ opState' = [opState EXCEPT ![o] = Verdict(o)]
    BY <1>8, <1>t, <2>2 DEF Ended
  <2> QED BY <1>8, <2>1, <2>2 DEF Gate, Ends
<1>9. ASSUME NEW o \in Ops, PumpOne(o) PROVE PrerequisitesExist' /\ NobodyNamesStaged'
  <2>1. Older
    BY <1>8, <1>9, <1>t DEF PumpOne, Ends
  <2> QED BY <1>1, <1>9, <2>1 DEF PumpOne
<1>10. ASSUME NEW o \in Ops, WorkerEnds(o) \/ Requeue(o) \/ AskCancel(o)
       PROVE  PrerequisitesExist' /\ NobodyNamesStaged'
  <2>1. Older  BY <1>10, <1>t DEF WorkerEnds, Requeue, AskCancel, Ends, Ended
  <2> QED BY <1>1, <1>10, <2>1 DEF WorkerEnds, Requeue, AskCancel
<1>11. ASSUME NEW p \in Ops, NEW w \in Ops, Observe(p, w)
       PROVE  PrerequisitesExist' /\ NobodyNamesStaged'
  <2>1. Older  BY <1>8, <1>11 DEF Observe
  <2> QED BY <1>1, <1>11, <2>1 DEF Observe
<1> QED BY <1>2, <1>3, <1>4, <1>5, <1>6, <1>7, <1>9, <1>10, <1>11 DEF DepNext

-----------------------------------------------------------------------------
\* Every step leaves each queued operation awaited by somebody.
LEMMA AwaitedStep ==
    ASSUME AwaitInv, DepNext
    PROVE  \A w \in Ops : opState'[w] = "queued" => Awaited(w)'
<1> DEFINE Goal == \A w \in Ops : opState'[w] = "queued" => Awaited(w)'
<1>t. /\ opState \in [Ops -> {"none", "queued", "running"} \cup Ended]
      /\ DepTyped /\ NobodyNamesStaged
      /\ \A w \in Ops : opState[w] = "queued" => Awaited(w)
  BY DEF AwaitInv, DepInv, DepTyped
<1>d. DependsOn \in [Ops -> SUBSET Ops]  BY DepConstants DEF DepConstants
<1>1. ASSUME NEW o \in Ops, Submit(o) PROVE Goal
  <2> SUFFICES ASSUME NEW w \in Ops, opState'[w] = "queued" PROVE Awaited(w)'
    OBVIOUS
  <2>1. /\ opState' = [opState EXCEPT ![o] = "queued"] /\ opState[o] = "none"
        /\ waiters' = Registered(o) /\ runQueue' = runQueue \cup {o}
        /\ UNCHANGED <<staging, due>>
    BY <1>1 DEF Submit
  <2>2. CASE w = o  BY <2>1, <2>2 DEF Awaited
  <2>3. CASE w # o
    <3>1. opState[w] = "queued" /\ \A p \in Ops : Pending(p) => Pending(p)'
      BY <1>t, <2>1, <2>3 DEF Pending, Ended
    <3> QED BY <1>t, <2>1, <2>3, <3>1, AwaitedStays DEF Registered
  <2> QED BY <2>2, <2>3
<1>2. CASE StartAdmission
  <2>1. UNCHANGED <<opState, waiters, runQueue, due>> /\ staging = NoStaging
    BY <1>2 DEF StartAdmission, Quiescent
  <2> QED BY <1>t, <2>1 DEF Awaited, Pending
<1>3. CASE WriteRow
  <2> DEFINE b == Batch[staging + 1]
  <2>1. /\ opState' = [opState EXCEPT ![b] = "queued"] /\ staging + 1 \in 1..Len(Batch)
        /\ staging # NoStaging /\ staging' # NoStaging
        /\ UNCHANGED <<waiters, runQueue, due>>
    BY <1>3, <1>t, BatchMembers DEF WriteRow, DepTyped, NoStaging
  <2>2. b \in BatchOps  BY <2>1, BatchMembers
  <2>3. \A p \in Ops : Pending(p) => Pending(p)'  BY <1>t, <2>1 DEF Pending, Ended
  <2>4. NoStaging' = NoStaging /\ BatchOps' = BatchOps  BY DEF NoStaging, BatchOps
  <2>5. \A w \in Ops : opState'[w] = "queued" => opState[w] = "queued" \/ w = b
    BY <1>t, <2>1
  <2> QED BY <1>t, <1>d, <2>1, <2>2, <2>3, <2>4, <2>5 DEF Awaited
<1>4. CASE CommitManifest
  BY <1>4, <1>t DEF CommitManifest, Awaited, Pending
<1>5. CASE Announce
  <2>1. /\ UNCHANGED <<opState, due>> /\ runQueue' = runQueue \cup BatchOps
        /\ \A p \in Ops : waiters[p] \subseteq waiters'[p]
    BY <1>5 DEF Announce
  <2> QED BY <1>t, <1>d, <2>1 DEF Awaited, Pending
<1>6. CASE AdmissionFails
  <2>1. /\ staging # NoStaging /\ UNCHANGED <<waiters, runQueue, due>>
        /\ opState' = [o \in Ops |-> IF o \in BatchOps THEN "none" ELSE opState[o]]
    BY <1>6 DEF AdmissionFails
  <2> SUFFICES ASSUME NEW w \in Ops, opState'[w] = "queued" PROVE Awaited(w)'
    OBVIOUS
  <2>2. w \notin BatchOps /\ opState[w] = "queued"  BY <2>1
  <2>3. \A p \in DependsOn[w] : opState'[p] = opState[p]
    BY <1>t, <1>d, <2>1, <2>2 DEF NobodyNamesStaged
  <2>4. Awaited(w)  BY <1>t, <2>2
  <2> QED BY <1>d, <2>1, <2>2, <2>3, <2>4 DEF Awaited, Pending
<1>7. ASSUME NEW o \in Ops, PumpOne(o) PROVE Goal
  <2>1. staging' = staging /\ runQueue' = runQueue \ {o}  BY <1>7 DEF PumpOne
  <2>2. CASE opState[o] # "queued" /\ UNCHANGED <<opState, waiters, due>>
    <3> SUFFICES ASSUME NEW w \in Ops, opState'[w] = "queued" PROVE Awaited(w)'
      OBVIOUS
    <3>1. w # o /\ opState[w] = "queued"  BY <2>2
    <3> QED BY <1>t, <2>1, <2>2, <3>1, AwaitedStays DEF Pending
  <2>3. CASE Ends(o, "cancelled", waiters, due)
    BY <2>1, <2>3, EndsAwaits DEF Ended
  <2>4. CASE waiters' = Unregistered(o) /\ opState' = [opState EXCEPT ![o] = "running"]
             /\ opState[o] = "queued" /\ due' = due
    <3> SUFFICES ASSUME NEW w \in Ops, opState'[w] = "queued" PROVE Awaited(w)'
      OBVIOUS
    <3>1. w # o /\ opState[w] = "queued" /\ \A p \in Ops : Pending(p) => Pending(p)'
      BY <1>t, <2>4 DEF Pending, Ended
    <3> QED BY <1>t, <2>1, <2>4, <3>1, AwaitedStays DEF Unregistered
  <2>5. CASE opState[o] = "queued" /\ Verdict(o) # "runnable" /\ Gate(o, due)
    BY <2>1, <2>5, GateAwaits
  <2> QED BY <1>7, <2>2, <2>3, <2>4, <2>5 DEF PumpOne
<1>8. ASSUME NEW o \in Ops, WorkerEnds(o) PROVE Goal
  <2>1. PICK state \in Ended : Ends(o, state, waiters, due)  BY <1>8 DEF WorkerEnds
  <2> QED BY <1>8, <2>1, EndsAwaits DEF WorkerEnds
<1>9. ASSUME NEW o \in Ops, Requeue(o) \/ AskCancel(o) PROVE Goal
  <2> SUFFICES ASSUME NEW w \in Ops, opState'[w] = "queued" PROVE Awaited(w)'
    OBVIOUS
  <2>1. /\ UNCHANGED <<waiters, due, staging>> /\ runQueue \subseteq runQueue'
        /\ opState[w] = "queued" \/ w \in runQueue'
        /\ \A p \in Ops : Pending(p) => Pending(p)'
    BY <1>9, <1>t DEF Requeue, AskCancel, Pending, Ended
  <2>2. CASE w \in runQueue'  BY <2>2 DEF Awaited
  <2>3. CASE opState[w] = "queued"  BY <1>t, <2>1, <2>3, AwaitedStays
  <2> QED BY <2>1, <2>2, <2>3
<1>10. ASSUME NEW p \in Ops, NEW o \in Ops, Observe(p, o) PROVE Goal
  <2> DEFINE rest == due \ {<<p, o>>}
  <2>1. staging' = staging /\ \A q \in Ops : \A w \in Ops \ {o} :
            <<q, w>> \in due => <<q, w>> \in rest
    BY <1>10 DEF Observe
  <2>2. CASE opState[o] = "queued"
    <3>1. Gate(o, rest) /\ runQueue' = Requeued(o)  BY <1>10, <2>2 DEF Observe
    <3>2. runQueue \ {o} \subseteq runQueue' /\ (Verdict(o) = "runnable" => o \in runQueue')
      BY <3>1 DEF Requeued
    <3> QED BY <2>1, <2>2, <3>1, <3>2, GateAwaits
  <2>3. CASE opState[o] # "queued"
    <3>1. due' = rest /\ UNCHANGED <<opState, waiters, runQueue>>
      BY <1>10, <2>3 DEF Observe
    <3> SUFFICES ASSUME NEW w \in Ops, opState'[w] = "queued" PROVE Awaited(w)'
      OBVIOUS
    <3>2. w # o /\ opState[w] = "queued"  BY <2>3, <3>1
    <3> QED BY <1>t, <2>1, <3>1, <3>2, AwaitedStays DEF Pending
  <2> QED BY <2>2, <2>3
<1>11. CASE CrashAndBoot
  <2>1. /\ opState' = BootState /\ runQueue' = {o \in Ops : Pending(o)}
    BY <1>11 DEF CrashAndBoot
  <2>2. \A w \in Ops : opState'[w] = "queued" => w \in runQueue'
    BY <1>t, <2>1 DEF BootState, Pending, Ended
  <2> QED BY <2>2 DEF Awaited
<1> QED BY <1>1, <1>2, <1>3, <1>4, <1>5, <1>6, <1>7, <1>8, <1>9, <1>10, <1>11
        DEF DepNext

\* Admissions, wake-ups, launches, ends, cancels and crashes keep AwaitInv.
LEMMA AwaitInvStep == ASSUME AwaitInv, [DepNext]_depVars PROVE AwaitInv'
<1>1. DepInv'  BY DepInvStep DEF AwaitInv
<1>2. CASE DepNext  BY <1>1, <1>2, NamesStep, AwaitedStep DEF AwaitInv
<1>3. CASE UNCHANGED depVars
  BY <1>1, <1>3 DEF depVars, AwaitInv, PrerequisitesExist, NobodyNamesStaged, Awaited,
     Pending
<1> QED BY <1>2, <1>3

\* registerDependencyWaiter, terminal() and the pump: whatever ends, is cancelled,
\* fails to be admitted or is requeued, and wherever the process crashes, an
\* operation left queued is in the queue or registered with a live prerequisite.
THEOREM NoWakeUpIsLost == DepSpec => []QueuedIsAwaited
<1>1. DepInit => AwaitInv
  BY DepInvInit DEF DepInit, AwaitInv, PrerequisitesExist, NobodyNamesStaged
<1>2. AwaitInv /\ [DepNext]_depVars => AwaitInv'  BY AwaitInvStep
<1>3. AwaitInv => QueuedIsAwaited
  <2> SUFFICES ASSUME AwaitInv, Quiescent, NEW o \in Ops, opState[o] = "queued"
               PROVE  o \in runQueue \/ \E p \in DependsOn[o] : Pending(p) /\ o \in waiters[p]
    BY DEF QueuedIsAwaited
  <2> QED BY DEF AwaitInv, Awaited, Quiescent
<1> QED BY <1>1, <1>2, <1>3, PTL DEF DepSpec

-----------------------------------------------------------------------------
(* Types.  The index and the queue hold operations only: what is announced *)
(* comes from the batch, what is registered from DependsOn.                *)

\* The index, the queue and the observers to run are about operations.
DepIndexed == /\ waiters \in [Ops -> SUBSET Ops] /\ runQueue \subseteq Ops
              /\ due \subseteq Ops \X Ops /\ cancelAsked \subseteq Ops
              /\ depFaults \in 0..MaxDepFaults

\* A registration leaves an index of operations.
LEMMA IndexStays ==
    ASSUME DepIndexed, NEW o \in Ops
    PROVE  /\ Registered(o) \in [Ops -> SUBSET Ops]
           /\ Unregistered(o) \in [Ops -> SUBSET Ops]
BY DEF DepIndexed, Registered, Unregistered

\* Whoever ends is observed by the operations that waited for it.
LEMMA EndsIndexes ==
    ASSUME DepIndexed, NEW o \in Ops, NEW state, NEW index \in [Ops -> SUBSET Ops],
           NEW pairs \in SUBSET (Ops \X Ops), Ends(o, state, index, pairs)
    PROVE  waiters' \in [Ops -> SUBSET Ops] /\ due' \subseteq Ops \X Ops
BY DEF Ends, DepIndexed

\* So is the gate's verdict.
LEMMA GateIndexes ==
    ASSUME DepIndexed, NEW o \in Ops, NEW pairs \in SUBSET (Ops \X Ops), Gate(o, pairs)
    PROVE  waiters' \in [Ops -> SUBSET Ops] /\ due' \subseteq Ops \X Ops
BY IndexStays, EndsIndexes DEF Gate

\* Admissions, wake-ups, launches, ends, cancels and boots file operations.
LEMMA DepIndexedStep == ASSUME DepIndexed, [DepNext]_depVars PROVE DepIndexed'
<1>d. /\ waiters \in [Ops -> SUBSET Ops] /\ runQueue \subseteq Ops
      /\ due \subseteq Ops \X Ops /\ due \in SUBSET (Ops \X Ops)
      /\ cancelAsked \subseteq Ops /\ depFaults \in 0..MaxDepFaults
      /\ MaxDepFaults \in Nat
  BY DepConstants DEF DepIndexed, DepConstants
<1>f. depFaults < MaxDepFaults => depFaults + 1 \in 0..MaxDepFaults  BY <1>d
<1>1. ASSUME NEW o \in Ops, Submit(o) PROVE DepIndexed'
  BY <1>1, <1>d, IndexStays DEF Submit, DepIndexed
<1>2. CASE StartAdmission  BY <1>2, <1>d DEF StartAdmission, DepIndexed
<1>3. CASE WriteRow  BY <1>3, <1>d DEF WriteRow, DepIndexed
<1>4. CASE CommitManifest  BY <1>4, <1>d DEF CommitManifest, DepIndexed
<1>5. CASE Announce
  BY <1>5, <1>d, BatchMembers DEF Announce, DepIndexed
<1>6. CASE AdmissionFails  BY <1>6, <1>d, <1>f DEF AdmissionFails, DepIndexed
<1>7. ASSUME NEW o \in Ops, PumpOne(o) PROVE DepIndexed'
  <2>1. /\ runQueue' = runQueue \ {o}
        /\ UNCHANGED <<cancelAsked, depFaults>>
    BY <1>7 DEF PumpOne
  <2>2. waiters' \in [Ops -> SUBSET Ops] /\ due' \subseteq Ops \X Ops
    <3>1. CASE UNCHANGED <<opState, waiters, due>>  BY <1>d, <3>1
    <3>2. CASE Ends(o, "cancelled", waiters, due)  BY <1>d, <3>2, EndsIndexes
    <3>3. CASE waiters' = Unregistered(o) /\ UNCHANGED due
      BY <1>d, <3>3, IndexStays
    <3>4. CASE Gate(o, due)  BY <1>d, <3>4, GateIndexes
    <3> QED BY <1>7, <3>1, <3>2, <3>3, <3>4 DEF PumpOne
  <2> QED BY <1>d, <2>1, <2>2 DEF DepIndexed
<1>8. ASSUME NEW o \in Ops, WorkerEnds(o) PROVE DepIndexed'
  <2>1. PICK state : Ends(o, state, waiters, due)  BY <1>8 DEF WorkerEnds
  <2>2. waiters' \in [Ops -> SUBSET Ops] /\ due' \subseteq Ops \X Ops
    BY <1>d, <2>1, EndsIndexes
  <2> QED BY <1>8, <1>d, <2>2 DEF WorkerEnds, DepIndexed
<1>9. ASSUME NEW o \in Ops, Requeue(o) PROVE DepIndexed'
  BY <1>9, <1>d, <1>f DEF Requeue, DepIndexed
<1>10. ASSUME NEW p \in Ops, NEW w \in Ops, Observe(p, w) PROVE DepIndexed'
  <2> DEFINE rest == due \ {<<p, w>>}
  <2>1. rest \in SUBSET (Ops \X Ops)  BY <1>d
  <2>2. UNCHANGED <<cancelAsked, depFaults>>  BY <1>10 DEF Observe
  <2>3. CASE Gate(w, rest) /\ runQueue' = Requeued(w)
    BY <1>d, <2>1, <2>2, <2>3, GateIndexes DEF Requeued, DepIndexed
  <2>4. CASE due' = rest /\ UNCHANGED <<opState, waiters, runQueue>>
    BY <1>d, <2>1, <2>2, <2>4 DEF DepIndexed
  <2> QED BY <1>10, <2>3, <2>4 DEF Observe
<1>11. ASSUME NEW o \in Ops, AskCancel(o) PROVE DepIndexed'
  BY <1>11, <1>d DEF AskCancel, DepIndexed
<1>12. CASE CrashAndBoot
  BY <1>12, <1>d, <1>f DEF CrashAndBoot, Rebuilt, DepIndexed
<1>13. CASE UNCHANGED depVars  BY <1>13, <1>d DEF depVars, DepIndexed
<1> QED BY <1>1, <1>2, <1>3, <1>4, <1>5, <1>6, <1>7, <1>8, <1>9, <1>10, <1>11,
           <1>12, <1>13 DEF DepNext

\* dependencies.ts and dependency-batch.ts, for every choice of prerequisites and
\* batch: rows, index, queue and observers keep their types.
THEOREM DepTypeCorrect == DepSpec => []DepTypeOK
<1>1. DepInit => DepIndexed
  BY DepConstants DEF DepInit, DepIndexed, DepConstants, NobodyWaits
<1>2. DepIndexed /\ [DepNext]_depVars => DepIndexed'  BY DepIndexedStep
<1>3. DepInv /\ DepIndexed => DepTypeOK
  BY Zenon DEF DepInv, DepTyped, DepIndexed, DepTypeOK
<1> QED BY <1>1, <1>2, <1>3, DepInvariance, PTL DEF DepSpec
=============================================================================
