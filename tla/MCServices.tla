----------------------------- MODULE MCServices -----------------------------
(* One instance for TLC of each of the seven components around the loop.    *)
(* They share no variable: a behaviour is about the component its part      *)
(* names, and the variables of the other six stay as they begin.            *)
EXTENDS OpLock, TurnCommit, MCApprovals, EventLog, Dependencies, ProcessClaim,
        UpdateRollback

\* OpLock: two processes with a call each.
CONSTANTS p1, p2
MCMaxCalls == [p \in Procs |-> 1]

\* Dependencies: a batch of three behind an operation submitted on its own.
CONSTANTS o1, o2, o3, o4
MCDependsOn == [o \in Ops |-> CASE o = o1 -> {} [] o = o2 -> {o1}
                                [] o = o3 -> {o2} [] o = o4 -> {o1, o3}]
MCBatch == <<o2, o3, o4>>

VARIABLE part    \* the component whose behaviour this is

Parts == {"lock", "turn", "card", "log", "dep", "claim", "update"}
serviceVars == <<vars, turnVars, cardVars, logVars, depVars, claimVars, updateVars,
                 part>>

ServicesInit ==
    /\ part \in Parts
    /\ Init /\ TurnInit /\ CardInit /\ LogInit /\ DepInit /\ ClaimInit
    /\ UpdateInit

\* A step of one part: everything else stays.
Only(p) ==
    /\ part = p /\ UNCHANGED part
    /\ IF p = "lock" THEN TRUE ELSE UNCHANGED vars
    /\ IF p = "turn" THEN TRUE ELSE UNCHANGED turnVars
    /\ IF p = "card" THEN TRUE ELSE UNCHANGED cardVars
    /\ IF p = "log" THEN TRUE ELSE UNCHANGED logVars
    /\ IF p = "dep" THEN TRUE ELSE UNCHANGED depVars
    /\ IF p = "claim" THEN TRUE ELSE UNCHANGED claimVars
    /\ IF p = "update" THEN TRUE ELSE UNCHANGED updateVars

LockStep == Only("lock") /\ Next
TurnStep == Only("turn") /\ TurnNext
CardStep == Only("card") /\ CardNext
LogStep == Only("log") /\ LogNext
DepStep == Only("dep") /\ DepNext
ClaimStep == Only("claim") /\ ClaimNext
UpdateStep == Only("update") /\ UpdateNext

ServicesNext == \/ LockStep \/ TurnStep \/ CardStep \/ LogStep
                \/ DepStep \/ ClaimStep \/ UpdateStep

\* The fairness of each part, as its own module states it.  A behaviour is about
\* one part, so a clause may name a step of each: only one of them can be enabled.
ServicesFairness ==
    /\ WF_serviceVars(\/ Only("lock") /\ Run(p1)
                      \/ Only("turn") /\ Drives
                      \/ Only("card") /\ ClockTick)
    /\ WF_serviceVars(\/ Only("lock") /\ Run(p2)
                      \/ Only("turn") /\ LoseTurn /\ row.state = "cancelling"
                      \/ Only("card") /\ \E id \in Ids : TimesOut(id))
    /\ WF_serviceVars(\/ Only("lock") /\ Expire(p1)
                      \/ Only("turn") /\ Throws /\ Illegal)
    /\ WF_serviceVars(\/ Only("lock") /\ Expire(p2)
                      \/ Only("turn") /\ StartRecovery)
    /\ WF_serviceVars(Only("turn") /\ TakeOver)
ServicesSpec == ServicesInit /\ [][ServicesNext]_serviceVars /\ ServicesFairness

TypesOK == /\ TypeOK /\ TurnTypeOK /\ CardTypeOK
           /\ LogTypeOK /\ DepTypeOK /\ ClaimTypeOK /\ UpdateTypeOK
=============================================================================
