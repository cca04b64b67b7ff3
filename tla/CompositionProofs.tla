-------------------------- MODULE CompositionProofs --------------------------
(***************************************************************************)
(* The seven components around the loop side by side, as the run Services  *)
(* checks them: every behaviour of the composition is, for each component, *)
(* a behaviour of that component's own specification, so that whatever is  *)
(* proved of a component holds of the composition.                         *)
(***************************************************************************)
EXTENDS MCServices, OpLockProofs, TurnCommitProofs, DependenciesProofs, ServiceProofs

\* A step belongs to one component and leaves the variables of the others alone.
LEMMA OnlyOneMoves ==
    ASSUME [ServicesNext]_serviceVars
    PROVE  /\ [Next]_vars /\ [TurnNext]_turnVars /\ [CardNext]_cardVars
           /\ [LogNext]_logVars /\ [DepNext]_depVars /\ [ClaimNext]_claimVars
           /\ [UpdateNext]_updateVars
<1>1. CASE LockStep
  <2>1. /\ Next
        /\ UNCHANGED turnVars /\ UNCHANGED cardVars /\ UNCHANGED logVars
        /\ UNCHANGED depVars /\ UNCHANGED claimVars /\ UNCHANGED updateVars
    BY <1>1 DEF LockStep, Only
  <2> QED BY <2>1
<1>2. CASE TurnStep
  <2>1. /\ TurnNext
        /\ UNCHANGED vars /\ UNCHANGED cardVars /\ UNCHANGED logVars
        /\ UNCHANGED depVars /\ UNCHANGED claimVars /\ UNCHANGED updateVars
    BY <1>2 DEF TurnStep, Only
  <2> QED BY <2>1
<1>3. CASE CardStep
  <2>1. /\ CardNext
        /\ UNCHANGED vars /\ UNCHANGED turnVars /\ UNCHANGED logVars
        /\ UNCHANGED depVars /\ UNCHANGED claimVars /\ UNCHANGED updateVars
    BY <1>3 DEF CardStep, Only
  <2> QED BY <2>1
<1>4. CASE LogStep
  <2>1. /\ LogNext
        /\ UNCHANGED vars /\ UNCHANGED turnVars /\ UNCHANGED cardVars
        /\ UNCHANGED depVars /\ UNCHANGED claimVars /\ UNCHANGED updateVars
    BY <1>4 DEF LogStep, Only
  <2> QED BY <2>1
<1>5. CASE DepStep
  <2>1. /\ DepNext
        /\ UNCHANGED vars /\ UNCHANGED turnVars /\ UNCHANGED cardVars
        /\ UNCHANGED logVars /\ UNCHANGED claimVars /\ UNCHANGED updateVars
    BY <1>5 DEF DepStep, Only
  <2> QED BY <2>1
<1>6. CASE ClaimStep
  <2>1. /\ ClaimNext
        /\ UNCHANGED vars /\ UNCHANGED turnVars /\ UNCHANGED cardVars
        /\ UNCHANGED logVars /\ UNCHANGED depVars /\ UNCHANGED updateVars
    BY <1>6 DEF ClaimStep, Only
  <2> QED BY <2>1
<1>7. CASE UpdateStep
  <2>1. /\ UpdateNext
        /\ UNCHANGED vars /\ UNCHANGED turnVars /\ UNCHANGED cardVars
        /\ UNCHANGED logVars /\ UNCHANGED depVars /\ UNCHANGED claimVars
    BY <1>7 DEF UpdateStep, Only
  <2> QED BY <2>1
<1>8. CASE UNCHANGED serviceVars
  <2>1. /\ UNCHANGED vars /\ UNCHANGED turnVars /\ UNCHANGED cardVars
        /\ UNCHANGED logVars /\ UNCHANGED depVars /\ UNCHANGED claimVars
        /\ UNCHANGED updateVars
    BY <1>8 DEF serviceVars
  <2> QED BY <2>1
<1> QED BY <1>1, <1>2, <1>3, <1>4, <1>5, <1>6, <1>7, <1>8 DEF ServicesNext

\* All seven begin where their own specifications do.
LEMMA EachPartIsItself ==
    ServicesSpec => /\ Spec /\ TurnSpec /\ CardSpec /\ LogSpec /\ DepSpec /\ ClaimSpec
                    /\ UpdateSpec
<1>1. ServicesInit => /\ Init /\ TurnInit /\ CardInit /\ LogInit /\ DepInit /\ ClaimInit
                      /\ UpdateInit
  BY DEF ServicesInit
<1>2. [ServicesNext]_serviceVars =>
         /\ [Next]_vars /\ [TurnNext]_turnVars /\ [CardNext]_cardVars
         /\ [LogNext]_logVars /\ [DepNext]_depVars /\ [ClaimNext]_claimVars
         /\ [UpdateNext]_updateVars
  BY OnlyOneMoves
<1> QED BY <1>1, <1>2, PTL DEF ServicesSpec, Spec, TurnSpec, CardSpec, LogSpec, DepSpec,
           ClaimSpec, UpdateSpec

-----------------------------------------------------------------------------
\* Op lock, turn commits, approvals, event log, dependencies, process claim and
\* updates, for any number of actors each: every variable keeps its type.
THEOREM ServicesTypeCorrect == ServicesSpec => []TypesOK
<1>1. TypeOK /\ TurnTypeOK /\ CardTypeOK /\ LogTypeOK /\ DepTypeOK /\ ClaimTypeOK
        /\ UpdateTypeOK => TypesOK
  BY DEF TypesOK
<1> QED BY <1>1, EachPartIsItself, LockTypeCorrect, TurnTypeCorrect, CardTypeCorrect,
           LogTypeCorrect, DepTypeCorrect, ClaimTypeCorrect, UpdateTypeCorrect, PTL

\* Everything the run Services checks but its types, its liveness and the redirect
\* column, of the composition it checks it on, for all constants.
THEOREM ServicesAreSafe ==
    ServicesSpec =>
        /\ [](HoldersExclude /\ EvidenceOnce /\ SucceededIsTold /\ NewestAskIsDurable)
        /\ [](LogSequenced /\ ReceivedInOrder /\ DriverHoldsClaim /\ UpdateIsAtomic)
        /\ [](RunsAfterPrerequisites /\ BatchIsAtomic /\ QueuedIsAwaited)
        /\ LockedUpdatesKept /\ OutcomesAreTheUsers
BY EachPartIsItself, LockExcludes, UpdatesSurvive, ReplaysRecordOnce,
   SuccessIsBacked, NewestAskSurvives, NobodySpeaksForTheUser, EventsAreNumbered,
   ClientsMissNothing, DriversHoldTheirClaims, UpdateAtomicity,
   NobodyRunsEarly, BatchesAreWhole, NoWakeUpIsLost, PTL
=============================================================================
