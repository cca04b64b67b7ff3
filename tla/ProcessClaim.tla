----------------------------- MODULE ProcessClaim -----------------------------
(***************************************************************************)
(* One operation driven by a child process: the durable claim file         *)
(* (process-execution-claim.ts), the handoff between the server that       *)
(* spawns the child and the child (process-execution-backend.ts,           *)
(* process-worker-entry.ts, execution-worker-runtime.ts), and the recovery *)
(* that takes over from a child whose server died.                         *)
(*                                                                         *)
(* Children are generations: the identity of a claim (token, pid, start    *)
(* time) is equal only for the same child.  Heartbeats are not part of it. *)
(***************************************************************************)
EXTENDS Naturals

CONSTANTS Children,   \* 1..n, spawned in this order
          MaxServerCrashes

\* No child has the number that stands for none.
ASSUME ClaimConstants == 0 \notin Children /\ MaxServerCrashes \in Nat

VARIABLES child,      \* child[k]: where a child process stands
          inHandoff,  \* the child the server waits for, 0 if none
          claim,      \* the child the claim file names, 0 if there is none
          beat,       \* how old the claim's heartbeat is
          observed,   \* recovery's reading of the claim, between two locks
          overdue,    \* history: children past the ceiling while they lived
          serverCrashes

claimVars == <<child, inHandoff, claim, beat, observed, overdue, serverCrashes>>

Ages == {"fresh", "stale", "ancient"}
Exists(k) == child[k] \in {"ready", "started", "driving"}
Nobody == 0
NothingSeen == Nobody

ClaimInit ==
    /\ child = [k \in Children |-> "unborn"]
    /\ inHandoff = Nobody /\ claim = Nobody /\ beat = "fresh"
    /\ observed = NothingSeen /\ overdue = {} /\ serverCrashes = 0

ClaimTypeOK ==
    /\ child \in [Children -> {"unborn", "ready", "started", "driving", "gone"}]
    /\ {inHandoff, claim, observed} \subseteq Children \cup {Nobody}
    /\ beat \in Ages /\ overdue \subseteq Children
    /\ serverCrashes \in 0..MaxServerCrashes

-----------------------------------------------------------------------------
\* ownerEvidence: the pid is the proof of death; a silent pid is one only when
\* it has been silent for ten minutes.
OwnerEvidence == IF ~Exists(claim) THEN "dead"
                 ELSE CASE beat = "fresh" -> "alive"
                        [] beat = "stale" -> "unknown"
                        [] OTHER -> "dead"

\* Mutant: the claim file is removed without a look at whose it is.
RemoveClaimOf_Whoever(k) == claim' = Nobody

\* removeProcessExecutionClaim: only the claim of the expected identity goes.
RemoveClaimOf(k) == claim' = IF claim = k THEN Nobody ELSE claim
\* ... or nothing does, where a busy lock makes the caller give up.
TriesToRemove(k) == RemoveClaimOf(k) \/ UNCHANGED claim

Gone(k) == child' = [child EXCEPT ![k] = "gone"]

-----------------------------------------------------------------------------
(* The server: spawn, claim, wait.                                         *)

\* startWithoutAdapter; reclaimDeadClaim has found no claim.
Spawn(k) ==
    /\ inHandoff = Nobody /\ claim = Nobody
    /\ child[k] = "unborn" /\ \A j \in Children : j < k => child[j] # "unborn"
    /\ child' = [child EXCEPT ![k] = "ready"]
    /\ inHandoff' = k
    /\ UNCHANGED <<claim, beat, observed, overdue, serverCrashes>>

\* The child says ready: the claim is written and "start" sent, or it is killed.
HandOff(k) ==
    /\ inHandoff = k /\ child[k] = "ready"
    /\ IF claim = Nobody
         THEN /\ claim' = k /\ beat' = "fresh"
              /\ child' = [child EXCEPT ![k] = "started"]
              /\ UNCHANGED inHandoff
         ELSE Gone(k) /\ inHandoff' = Nobody /\ UNCHANGED <<claim, beat>>
    /\ UNCHANGED <<observed, overdue, serverCrashes>>

\* fail(): the handoff timed out or "start" could not be sent.  The claim goes
\* before the child is killed, and the child may have begun; the kill is taken
\* to be immediate.
HandOffFails(k) ==
    /\ inHandoff = k /\ Exists(k)
    /\ TriesToRemove(k) /\ Gone(k) /\ inHandoff' = Nobody
    /\ UNCHANGED <<beat, observed, overdue, serverCrashes>>

\* onExit: fail() or complete(), which both drop the claim.
SeesExit(k) ==
    /\ inHandoff = k /\ child[k] = "gone"
    /\ TriesToRemove(k) /\ inHandoff' = Nobody
    /\ UNCHANGED <<child, beat, observed, overdue, serverCrashes>>

ServerDies ==
    /\ serverCrashes < MaxServerCrashes /\ serverCrashes' = serverCrashes + 1
    /\ inHandoff' = Nobody /\ observed' = NothingSeen
    /\ UNCHANGED <<child, claim, beat, overdue>>

-----------------------------------------------------------------------------
(* The child.                                                              *)

\* runClaimedExecutionWorker: the durable claim must be ours still.
StartDriving(k) ==
    /\ child[k] = "started"
    /\ child' = [child EXCEPT ![k] = IF claim = k THEN "driving" ELSE "gone"]
    /\ UNCHANGED <<inHandoff, claim, beat, observed, overdue, serverCrashes>>

\* heartbeatProcessExecutionClaim; a claim that is no longer ours ends us.
Beat(k) ==
    /\ child[k] = "driving"
    /\ IF claim = k THEN beat' = "fresh" /\ UNCHANGED child
                    ELSE Gone(k) /\ UNCHANGED beat
    /\ UNCHANGED <<inHandoff, claim, observed, overdue, serverCrashes>>

\* Done, disconnected from its server, or the heartbeat could not have the lock.
Leaves(k) ==
    /\ Exists(k)
    /\ TriesToRemove(k) /\ Gone(k)
    /\ UNCHANGED <<inHandoff, beat, observed, overdue, serverCrashes>>

Dies(k) ==
    /\ Exists(k) /\ Gone(k)
    /\ UNCHANGED <<inHandoff, claim, beat, observed, overdue, serverCrashes>>

\* Time without a heartbeat: the child is starved, or there is none.
GrowsOld ==
    /\ claim # Nobody /\ beat # "ancient"
    /\ beat' = IF beat = "fresh" THEN "stale" ELSE "ancient"
    /\ overdue' = IF beat = "stale" /\ Exists(claim) THEN overdue \cup {claim}
                  ELSE overdue
    /\ UNCHANGED <<child, inHandoff, claim, observed, serverCrashes>>

-----------------------------------------------------------------------------
\* checkProcessExecutionRecoveryOwnership and reclaimDeadClaim: the claim is
\* read and judged, then removed under the lock if it is the same one.
ReadsClaim ==
    /\ observed = NothingSeen /\ claim # Nobody /\ OwnerEvidence = "dead"
    /\ observed' = claim
    /\ UNCHANGED <<child, inHandoff, claim, beat, overdue, serverCrashes>>

RemovesClaim ==
    /\ observed # NothingSeen
    /\ TriesToRemove(observed) /\ observed' = NothingSeen
    /\ UNCHANGED <<child, inHandoff, beat, overdue, serverCrashes>>

ClaimNext ==
    \/ \E k \in Children : \/ Spawn(k) \/ HandOff(k) \/ HandOffFails(k) \/ SeesExit(k)
                           \/ StartDriving(k) \/ Beat(k) \/ Leaves(k) \/ Dies(k)
    \/ ServerDies \/ GrowsOld \/ ReadsClaim \/ RemovesClaim

ClaimSpec == ClaimInit /\ [][ClaimNext]_claimVars

-----------------------------------------------------------------------------
\* A child that drives the operation has the claim on disk until it ends: no
\* handoff, late cleanup or recovery of another child takes it, unless ten
\* minutes of silence had made its pid worthless as evidence.
DriverHoldsClaim ==
    \A k \in Children \ overdue : child[k] = "driving" => claim = k
=============================================================================
