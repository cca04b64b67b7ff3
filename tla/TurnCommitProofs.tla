-------------------------- MODULE TurnCommitProofs --------------------------
(***************************************************************************)
(* Whatever the number of turns, redirects and faults: replayed evidence   *)
(* is never recorded twice, and an operation that reads succeeded has all  *)
(* the evidence of all its turns on disk.  The second needs to know what a *)
(* worker that goes on to another turn leaves behind: a turn that is fully *)
(* told and did not end the operation.  As long as the window of ingress   *)
(* keys is not outrun, the redirect column implements RedirectBox, and no  *)
(* redirect is applied by two turns.                                       *)
(***************************************************************************)
EXTENDS TurnCommit, SequenceTheorems, FiniteSetTheorems, TLAPS

TurnTyped ==
    /\ row \in [state : States, turn : Nat,
                redirect : Instr \cup {NoInstr}, control : BOOLEAN]
    /\ published \in Seq(Envelope) /\ Len(published) <= MaxTurns
    /\ told \in [1..MaxTurns -> [Evidence -> Nat]]
    /\ driver \in Drivers
    /\ cursor \in [turn : Nat, step : 1..7]
    /\ inHand \in Instr \cup {NoInstr}

\* A projection is of a published turn, outside recovery of the last one, and
\* a turn in flight has room.
InRange == /\ driver \in Projecting => cursor.turn \in Turns
           /\ driver \in {"commit", "reconcile"} => cursor.turn = Len(published)
           /\ driver = "turn" => Len(published) < MaxTurns

\* Nothing is on record of a turn that is not published.
UnpublishedUntold ==
    \A i \in 1..MaxTurns : i > Len(published) => \A e \in Evidence : told[i][e] = 0

\* Turn i has all its evidence and did not end the operation.
Closed(i) == FullyTold(i) /\ published[i].end = "none"

\* Only the last published turn may be open, and while a worker is at a turn
\* boundary or in the next turn, not even that one.
EarlierClosed ==
    \A i \in Turns : (i < Len(published) \/ driver \in {"top", "turn"}) => Closed(i)

\* A terminal operation is not driven any further.
DrivenIsOpen == driver \in {"top", "turn"} => row.state \notin Terminal

\* Behind the cursor the evidence is there, and the state is settled.
ToldSoFar ==
    driver \in Projecting =>
        /\ \A k \in 1..(cursor.step - 1) :
              ProjectionSteps[k] \in NeededEvidence(cursor.turn)
                => told[cursor.turn][ProjectionSteps[k]] = 1
        /\ (cursor.step = 7 /\ driver # "recovery" /\ Settles) => row.state = Outcome

TurnInv == /\ TurnTyped /\ InRange /\ UnpublishedUntold /\ EarlierClosed
           /\ DrivenIsOpen /\ ToldSoFar /\ EvidenceOnce /\ SucceededIsTold

-----------------------------------------------------------------------------
LEMMA TurnInvInit == ASSUME TurnInit PROVE TurnInv
<1>1. /\ row = [state |-> "queued", turn |-> 0, redirect |-> NoInstr,
                control |-> FALSE]
      /\ published = <<>> /\ driver = "none" /\ inHand = NoInstr
      /\ cursor = [turn |-> 0, step |-> 1]
      /\ told = [i \in 1..MaxTurns |-> [e \in Evidence |-> 0]]
  BY DEF TurnInit, NoCursor
<1>2. TurnTyped  BY <1>1, TurnConstants DEF TurnConstants, TurnTyped, States, Drivers
<1>3. Turns = {}  BY <1>1 DEF Turns
<1>4. UnpublishedUntold  BY <1>1 DEF UnpublishedUntold
<1> QED BY <1>1, <1>2, <1>3, <1>4
        DEF TurnInv, InRange, EarlierClosed, DrivenIsOpen, ToldSoFar,
            EvidenceOnce, SucceededIsTold, Projecting

\* The evidence of a turn depends on its envelope and its records only.
LEMMA ToldFrame ==
    ASSUME UNCHANGED <<published, told>>
    PROVE  /\ Turns' = Turns
           /\ \A i : (FullyTold(i)' <=> FullyTold(i)) /\ (Closed(i)' <=> Closed(i))
           /\ \A i : NeededEvidence(i)' = NeededEvidence(i)
BY DEF Turns, FullyTold, Closed, NeededEvidence

\* A step that publishes and tells nothing and starts no projection keeps the
\* invariant, if the states and drivers it moves to are allowed.
LEMMA QuietStep ==
    ASSUME TurnInv, UNCHANGED <<published, told>>, TurnTyped',
           driver' \notin Projecting,
           driver' = "turn" => Len(published) < MaxTurns,
           driver' \in {"top", "turn"} =>
               driver \in {"top", "turn"} \/ published = <<>>,
           driver' \in {"top", "turn"} => row'.state \notin Terminal,
           row'.state = "succeeded" =>
               row.state = "succeeded" \/ driver \in {"top", "turn"}
    PROVE  TurnInv'
<1> USE DEF TurnInv
<1>1. InRange' /\ UnpublishedUntold'  BY DEF InRange, UnpublishedUntold, Projecting
<1>2. EarlierClosed'
  BY ToldFrame DEF EarlierClosed, Turns
<1>3. DrivenIsOpen' /\ ToldSoFar'  BY DEF DrivenIsOpen, ToldSoFar
<1>4. EvidenceOnce'  BY ToldFrame DEF EvidenceOnce
<1>5. SucceededIsTold'
  BY ToldFrame DEF SucceededIsTold, EarlierClosed, Closed
<1> QED BY <1>1, <1>2, <1>3, <1>4, <1>5

\* A projection starts at its first step, with nothing to show yet.
LEMMA ProjectionBegins ==
    ASSUME TurnInv, UNCHANGED <<published, told>>, TurnTyped',
           driver' \in Projecting, cursor'.step = 1, cursor'.turn \in Turns,
           driver' # "recovery" => cursor'.turn = Len(published),
           row'.state # "succeeded"
    PROVE  TurnInv'
<1> USE DEF TurnInv
<1>1. InRange' /\ UnpublishedUntold'
  BY ToldFrame DEF InRange, UnpublishedUntold, Projecting
<1>2. EarlierClosed' /\ DrivenIsOpen'
  BY ToldFrame DEF EarlierClosed, DrivenIsOpen, Turns, Projecting
<1>3. ToldSoFar' /\ EvidenceOnce' /\ SucceededIsTold'
  BY ToldFrame DEF ToldSoFar, EvidenceOnce, SucceededIsTold
<1> QED BY <1>1, <1>2, <1>3

-----------------------------------------------------------------------------
LEMMA LeaseKeeps == ASSUME TurnInv, Lease PROVE TurnInv'
<1> USE DEF Lease, Moves, Begin, PassesTo, NoCursor
<1>t. TurnTyped /\ published \in Seq(Envelope) /\ Len(published) \in Nat
  BY DEF TurnInv, TurnTyped
<1>1. TurnTyped'
  <2>1. driver' \in Drivers /\ cursor' \in [turn : Nat, step : 1..7]
    BY <1>t DEF Drivers, Projecting
  <2>2. row' \in [state : States, turn : Nat,
                  redirect : Instr \cup {NoInstr}, control : BOOLEAN]
    BY <1>t DEF TurnTyped, States
  <2> QED BY <1>t, <2>1, <2>2 DEF TurnTyped
<1>2. row'.state = "running"  BY <1>t DEF TurnTyped
<1>3. CASE published = <<>>
  BY <1>1, <1>2, <1>3, QuietStep DEF Projecting, Terminal
<1>4. CASE published # <<>>
  <2>1. Len(published) \in Turns  BY <1>t, <1>4 DEF Turns
  <2> QED BY <1>1, <1>2, <1>4, <2>1, ProjectionBegins DEF Projecting
<1> QED BY <1>3, <1>4

LEMMA StartTurnKeeps == ASSUME TurnInv, StartTurn PROVE TurnInv'
<1> USE DEF StartTurn, PassesTo, NoCursor
<1>1. TurnTyped'  BY DEF TurnInv, TurnTyped, Drivers
<1> QED BY <1>1, QuietStep DEF Projecting, Terminal

LEMMA BoundaryKeeps == ASSUME TurnInv, LeaveAtBoundary \/ LoseTurn PROVE TurnInv'
<1> USE DEF PassesTo, NoCursor, Moves
<1>t. TurnTyped  BY DEF TurnInv
<1>1. TurnTyped'
  <2>1. row' \in [state : States, turn : Nat,
                  redirect : Instr \cup {NoInstr}, control : BOOLEAN]
    BY <1>t DEF LeaveAtBoundary, LoseTurn, TurnTyped, States
  <2>2. /\ driver' \in Drivers /\ cursor' \in [turn : Nat, step : 1..7]
        /\ inHand' \in Instr \cup {NoInstr} /\ UNCHANGED <<published, told>>
    BY <1>t DEF LeaveAtBoundary, LoseTurn, TurnTyped, Drivers
  <2> QED BY <1>t, <2>1, <2>2 DEF TurnTyped
<1>2. driver' = "none" /\ UNCHANGED <<published, told>> /\ driver \in {"top", "turn"}
  BY DEF LeaveAtBoundary, LoseTurn
<1> QED BY <1>1, <1>2, QuietStep DEF Projecting

LEMMA ThrowsKeeps == ASSUME TurnInv, Throws PROVE TurnInv'
<1> USE DEF Throws, PassesTo, NoCursor, Moves
<1>1. TurnTyped'  BY DEF TurnInv, TurnTyped, States, Drivers
<1>2. row'.state = "succeeded" => row.state = "succeeded"
  BY DEF TurnInv, TurnTyped
<1> QED BY <1>1, <1>2, QuietStep DEF Projecting

LEMMA RecoveryKeeps ==
    ASSUME TurnInv, StartRecovery \/ TakeOver \/ ServerCrash PROVE TurnInv'
<1> USE DEF PassesTo, Begin, NoCursor, Moves
<1>t. TurnTyped /\ published \in Seq(Envelope) /\ Len(published) \in Nat
  BY DEF TurnInv, TurnTyped
<1>1. TurnTyped'
  BY <1>t DEF StartRecovery, TakeOver, ServerCrash, TurnTyped, States, Drivers, Projecting
<1>2. CASE ServerCrash \/ TakeOver
  <2>1. row'.state = "succeeded" => row.state = "succeeded"
    BY <1>2, <1>t DEF ServerCrash, TakeOver, TurnTyped
  <2> QED BY <1>1, <1>2, <2>1, QuietStep DEF ServerCrash, TakeOver, Projecting
<1>3. CASE StartRecovery
  <2>1. CASE PassesTo("takeover")
    BY <1>1, <1>3, <2>1, QuietStep DEF StartRecovery, Projecting
  <2>2. CASE published # <<>> /\ Begin("recovery", 1)
    <3>1. 1 \in Turns  BY <1>t, <2>2 DEF Turns
    <3> QED BY <1>1, <1>3, <2>2, <3>1, ProjectionBegins DEF StartRecovery, Projecting
  <2> QED BY <1>3, <2>1, <2>2 DEF StartRecovery
<1> QED BY <1>2, <1>3

LEMMA ControlKeeps ==
    ASSUME TurnInv, (\E i \in Instr : OpRedirect(i)) \/ OpCancel \/ OpPause \/ OpResume
    PROVE  TurnInv'
<1> USE DEF Moves
<1>t. TurnTyped  BY DEF TurnInv
<1>1. TurnTyped'
  BY <1>t DEF OpRedirect, OpCancel, OpPause, OpResume, TurnTyped, States
<1>2. /\ UNCHANGED <<published, told, driver, cursor>>
      /\ row'.state = "succeeded" => row.state = "succeeded"
      /\ row'.state \in Terminal => row.state \in Terminal \/ driver = "none"
  BY <1>t DEF OpRedirect, OpCancel, OpPause, OpResume, TurnTyped, Terminal
<1>3. CASE driver \notin Projecting
  BY <1>1, <1>2, <1>3, QuietStep DEF TurnInv, InRange, DrivenIsOpen
<1>4. CASE driver \in Projecting
  <2>1. OpResume  BY <1>4 DEF OpRedirect, OpCancel, OpPause, Unlocked
  <2>2. row.state = "paused" /\ row'.state = "queued"
    BY <1>t, <2>1 DEF OpResume, TurnTyped
  <2>3. Settles' = Settles /\ Outcome' = Outcome /\ Outcome \in {"succeeded", "failed"}
    BY <1>2 DEF Settles, Outcome, Shown
  <2>4. InRange' /\ UnpublishedUntold' /\ EarlierClosed' /\ DrivenIsOpen'
    BY <1>2, <1>4, ToldFrame
    DEF TurnInv, InRange, UnpublishedUntold, EarlierClosed, DrivenIsOpen, Projecting
  <2>5. ToldSoFar' /\ EvidenceOnce' /\ SucceededIsTold'
    BY <1>2, <2>2, <2>3, ToldFrame DEF TurnInv, ToldSoFar, EvidenceOnce, SucceededIsTold
  <2> QED BY <1>1, <2>4, <2>5 DEF TurnInv
<1> QED BY <1>3, <1>4

-----------------------------------------------------------------------------
\* publishTurnCommit: the turns before are closed, the new one has no records.
LEMMA PublishKeeps ==
    ASSUME TurnInv, NEW end \in TurnEnds, Publish(end) PROVE TurnInv'
<1> DEFINE n == Len(published)
           new == [instr |-> inHand, end |-> end]
<1>1. /\ published \in Seq(Envelope) /\ n \in Nat /\ n < MaxTurns /\ TurnTyped
      /\ new \in Envelope
  BY DEF TurnInv, TurnTyped, InRange, Publish, Envelope
<1>2. /\ published' = Append(published, new) /\ UNCHANGED <<row, told>>
      /\ driver' = "commit" /\ cursor' = [turn |-> n + 1, step |-> 1]
      /\ inHand' = NoInstr /\ driver = "turn"
  BY DEF Publish, Begin
<1>3. /\ published' \in Seq(Envelope) /\ Len(published') = n + 1
      /\ \A i \in 1..n : published'[i] = published[i]
  BY <1>1, <1>2
<1>4. TurnTyped'
  BY <1>1, <1>2, <1>3, TurnConstants DEF TurnTyped, TurnConstants, Drivers, Projecting
<1>5. InRange' /\ UnpublishedUntold'
  BY <1>1, <1>2, <1>3 DEF TurnInv, InRange, UnpublishedUntold, Turns
<1>6. \A i \in 1..n : Closed(i)'
  <2>1. \A i \in 1..n : Closed(i)
    BY <1>1, <1>2 DEF TurnInv, EarlierClosed, Turns
  <2> QED BY <2>1, <1>1, <1>2, <1>3 DEF Closed, FullyTold, Turns, NeededEvidence
<1>7. EarlierClosed' /\ DrivenIsOpen' /\ ToldSoFar'
  BY <1>1, <1>2, <1>3, <1>6 DEF EarlierClosed, DrivenIsOpen, ToldSoFar, Turns
<1>8. EvidenceOnce'
  <2>1. \A e \in Evidence : told[n + 1][e] = 0
    BY <1>1, TurnConstants DEF TurnConstants, TurnInv, UnpublishedUntold
  <2>2. \A i \in 1..n : \A e \in Evidence : told[i][e] <= 1
    BY DEF TurnInv, EvidenceOnce, Turns
  <2> QED BY <1>1, <1>2, <1>3, <2>1, <2>2 DEF EvidenceOnce, Turns
<1>9. SucceededIsTold'
  BY <1>2 DEF TurnInv, DrivenIsOpen, Terminal, SucceededIsTold
<1> QED BY <1>4, <1>5, <1>7, <1>8, <1>9 DEF TurnInv

-----------------------------------------------------------------------------
(* projectTurnCommit, one durable write at a time.                         *)

\* From the transition on, the turn is fully told.
LEMMA BehindTheTransition ==
    ASSUME TurnInv, driver \in Projecting, cursor.step \in {6, 7}
    PROVE  FullyTold(cursor.turn)
<1>1. \A k \in 2..5 : ProjectionSteps[k] \in NeededEvidence(cursor.turn)
                        => told[cursor.turn][ProjectionSteps[k]] = 1
  BY DEF TurnInv, ToldSoFar, TurnTyped
<1>2. /\ ProjectionSteps[2] = "message_appended" /\ ProjectionSteps[3] = "turn_committed"
      /\ ProjectionSteps[4] = "ledger" /\ ProjectionSteps[5] = "redirect_applied"
  BY DEF ProjectionSteps
<1>3. NeededEvidence(cursor.turn) \subseteq
        {ProjectionSteps[2], ProjectionSteps[3], ProjectionSteps[4], ProjectionSteps[5]}
  BY <1>2 DEF NeededEvidence
<1> QED BY <1>1, <1>3 DEF TurnInv, InRange, FullyTold

\* What is published fits the bound.
LEMMA TurnsFit ==
    ASSUME TurnInv
    PROVE  Len(published) \in Nat /\ Turns \subseteq 1..MaxTurns
BY TurnConstants DEF TurnConstants, TurnInv, TurnTyped, Turns

\* A write of the projection takes no evidence away and adds none twice.
LEMMA RecordsGrow ==
    ASSUME TurnInv, Project
    PROVE  /\ told' \in [1..MaxTurns -> [Evidence -> Nat]]
           /\ \A i \in Turns, e \in Evidence :
                 /\ told[i][e] = 1 => told'[i][e] = 1
                 /\ told'[i][e] <= 1
           /\ \A i \in 1..MaxTurns : i # cursor.turn => told'[i] = told[i]
<1>1. /\ told \in [1..MaxTurns -> [Evidence -> Nat]] /\ cursor.turn \in Turns
      /\ Turns \subseteq 1..MaxTurns
  BY TurnsFit DEF TurnInv, TurnTyped, InRange, Project
<1>2. \A i \in Turns, e \in Evidence : told[i][e] <= 1  BY DEF TurnInv, EvidenceOnce
<1>3. CASE UNCHANGED told  BY <1>1, <1>2, <1>3
<1>4. CASE ~Recorded(Step) /\ Step \in Evidence
           /\ told' = [told EXCEPT ![cursor.turn][Step] = @ + 1]
  <2>1. told[cursor.turn] \in [Evidence -> Nat]  BY <1>1
  <2>2. told[cursor.turn][Step] = 0  BY <1>4, <2>1 DEF Recorded
  <2>3. told' = [told EXCEPT ![cursor.turn] = [@ EXCEPT ![Step] = 1]]
    BY <1>1, <1>4, <2>1, <2>2
  <2>4. told' \in [1..MaxTurns -> [Evidence -> Nat]]  BY <1>1, <2>1, <2>3
  <2>5. ASSUME NEW i \in Turns, NEW e \in Evidence
        PROVE  (told[i][e] = 1 => told'[i][e] = 1) /\ told'[i][e] <= 1
    BY <1>1, <1>2, <2>1, <2>2, <2>3
  <2> QED BY <1>1, <2>3, <2>4, <2>5
<1> QED BY <1>3, <1>4 DEF Project, Checkpoint, Tell, Transition

\* The write a step is for is on disk after it.
LEMMA StepTells ==
    ASSUME TurnInv, Project, Step \in NeededEvidence(cursor.turn)
    PROVE  told'[cursor.turn][Step] = 1
<1>1. /\ told \in [1..MaxTurns -> [Evidence -> Nat]] /\ cursor.turn \in Turns
      /\ cursor.turn \in 1..MaxTurns /\ Step \in Evidence
  BY TurnsFit DEF TurnInv, TurnTyped, InRange, Project, NeededEvidence, Evidence
<1>2. Tell
  BY DEF Project, Checkpoint, Transition, NeededEvidence
<1>3. ~(Step = "redirect_applied" /\ Shown.instr = NoInstr) /\ Step # "state_changed"
  BY DEF NeededEvidence, Shown
<1>4. told[cursor.turn][Step] \in {0, 1}
  <2>1. told[cursor.turn] \in [Evidence -> Nat]  BY <1>1
  <2> QED BY <1>1, <2>1 DEF TurnInv, EvidenceOnce
<1>5. IF told[cursor.turn][Step] > 0 THEN UNCHANGED told
      ELSE told' = [told EXCEPT ![cursor.turn][Step] = @ + 1]
  BY <1>2, <1>3 DEF Tell, Recorded
<1>6. CASE told[cursor.turn][Step] = 1  BY <1>5, <1>6
<1>7. CASE told[cursor.turn][Step] = 0
  <2>1. told' = [told EXCEPT ![cursor.turn][Step] = 1]  BY <1>5, <1>7
  <2> QED BY <1>1, <2>1
<1> QED BY <1>4, <1>6, <1>7

\* What a projection step leaves of the row and where it leads.
LEMMA StepsOfARow ==
    ASSUME TurnInv, Project
    PROVE  /\ row' \in [state : States, turn : Nat,
                        redirect : Instr \cup {NoInstr}, control : BOOLEAN]
           /\ row'.state = row.state \/ (Transition /\ Transitions /\ row'.state = Outcome)
           /\ UNCHANGED <<published, inHand>>
<1>1. /\ row \in [state : States, turn : Nat,
                  redirect : Instr \cup {NoInstr}, control : BOOLEAN]
      /\ cursor.turn \in Nat
  BY DEF TurnInv, TurnTyped
<1>2. CASE Checkpoint  BY <1>1, <1>2 DEF Checkpoint, Project
<1>3. CASE Tell  BY <1>1, <1>3 DEF Tell, Project
<1>4. CASE Transition
  BY <1>1, <1>4 DEF Transition, Moves, Project, Outcome, States
<1> QED BY <1>2, <1>3, <1>4 DEF Project

\* A turn that ended the operation is the last one published.
LEMMA SettlingIsLast ==
    ASSUME TurnInv, driver \in Projecting, Settles
    PROVE  cursor.turn = Len(published)
BY TurnsFit DEF TurnInv, InRange, EarlierClosed, Closed, Settles, Shown, Turns

LEMMA ProjectKeeps == ASSUME TurnInv, Project PROVE TurnInv'
<1>1. /\ TurnTyped /\ cursor.turn \in Turns /\ driver \in Projecting
      /\ Len(published) \in Nat /\ cursor.step \in 1..7
      /\ cursor \in [turn : Nat, step : 1..7]
  BY TurnsFit DEF TurnInv, TurnTyped, InRange, Project
<1>2. /\ UNCHANGED <<published, inHand>> /\ Turns' = Turns
      /\ \A i : published'[i] = published[i] /\ NeededEvidence(i)' = NeededEvidence(i)
  BY StepsOfARow DEF Turns, NeededEvidence
<1>3. \A i \in Turns : FullyTold(i) => FullyTold(i)'
  <2>1. \A i : NeededEvidence(i) \subseteq Evidence  BY DEF NeededEvidence, Evidence
  <2> QED BY <1>2, <2>1, RecordsGrow DEF FullyTold
<1>4. \A i \in Turns : Closed(i) => Closed(i)'  BY <1>2, <1>3 DEF Closed
<1>5. LastStep <=> cursor.step = 7  BY <1>1 DEF LastStep, ProjectionSteps
<1>6. UnpublishedUntold'
  <2>1. \A i \in 1..MaxTurns : i > Len(published) => i # cursor.turn
    BY <1>1 DEF Turns
  <2> QED BY <1>2, <2>1, RecordsGrow DEF TurnInv, UnpublishedUntold
<1>7. EvidenceOnce'  BY <1>2, RecordsGrow DEF EvidenceOnce
<1>8. CASE ~LastStep
  <2>1. /\ cursor' = [cursor EXCEPT !.step = @ + 1] /\ driver' = driver
        /\ cursor.step \in 1..6
    BY <1>1, <1>5, <1>8 DEF Project, Onwards
  <2>2. /\ cursor'.step = cursor.step + 1 /\ cursor'.turn = cursor.turn
        /\ cursor' \in [turn : Nat, step : 1..7]
    BY <1>1, <2>1
  <2>3. TurnTyped'
    BY <1>1, <1>2, <2>1, <2>2, StepsOfARow, RecordsGrow DEF TurnTyped
  <2>4. InRange' /\ DrivenIsOpen'
    BY <1>1, <1>2, <2>1, <2>2 DEF TurnInv, InRange, DrivenIsOpen, Projecting
  <2>5. EarlierClosed'
    BY <1>1, <1>2, <1>4, <2>1 DEF TurnInv, EarlierClosed, Projecting
  <2>6. \A k \in 1..cursor.step :
           ProjectionSteps[k] \in NeededEvidence(cursor.turn)
             => told'[cursor.turn][ProjectionSteps[k]] = 1
    <3>1. \A k \in 1..(cursor.step - 1) :
             ProjectionSteps[k] \in NeededEvidence(cursor.turn)
               => told'[cursor.turn][ProjectionSteps[k]] = 1
      <4>1. NeededEvidence(cursor.turn) \subseteq Evidence
        BY DEF NeededEvidence, Evidence
      <4> QED BY <1>1, <4>1, RecordsGrow DEF TurnInv, ToldSoFar
    <3> QED BY <1>1, <3>1, StepTells DEF Step
  <2>7. (cursor.step = 6 /\ driver # "recovery" /\ Settles) => row'.state = Outcome
    <3>1. cursor.step = 6 => Step = "transition"  BY DEF Step, ProjectionSteps
    <3> SUFFICES ASSUME Transition, driver # "recovery", Settles
                 PROVE  row'.state = Outcome
      BY <3>1 DEF Project, Checkpoint, Tell, Evidence
    <3> QED BY <1>1 DEF Transition, Transitions, MayTransition, Moves, TurnTyped
  <2>8. Settles' = Settles /\ Outcome' = Outcome
    BY <1>2, <2>2 DEF Settles, Outcome, Shown
  <2>9. ToldSoFar'
    BY <1>1, <1>2, <2>1, <2>2, <2>6, <2>7, <2>8 DEF ToldSoFar
  <2>10. SucceededIsTold'
    <3> SUFFICES ASSUME row'.state = "succeeded" PROVE \A i \in Turns : FullyTold(i)
      BY <1>2, <1>3 DEF SucceededIsTold
    <3>1. CASE row.state = "succeeded"  BY <3>1 DEF TurnInv, SucceededIsTold
    <3>2. CASE Transition /\ Transitions
      <4>1. cursor.step = 6
        BY <1>1, <3>2 DEF Transition, Step, ProjectionSteps
      <4>2. cursor.turn = Len(published)
        BY <1>1, <3>2, SettlingIsLast DEF Transitions
      <4> QED BY <1>1, <4>1, <4>2, BehindTheTransition
              DEF TurnInv, EarlierClosed, Closed, Turns
    <3> QED BY <3>1, <3>2, StepsOfARow
  <2> QED BY <2>3, <2>4, <2>5, <1>6, <1>7, <2>9, <2>10 DEF TurnInv
<1>9. CASE LastStep
  <2>1. /\ Step = "state_changed" /\ Step \in Evidence /\ Tell
        /\ row' = row /\ cursor.step = 7 /\ FullyTold(cursor.turn)
    <3>1. Step = "state_changed" /\ Step \in Evidence
      BY <1>5, <1>9 DEF Step, ProjectionSteps, Evidence
    <3> QED BY <1>1, <1>5, <1>9, <3>1, BehindTheTransition
            DEF Project, Checkpoint, Transition, Tell
  <2>2. SucceededIsTold'  BY <1>2, <1>3, <2>1 DEF TurnInv, SucceededIsTold
  <2>3. CASE driver = "recovery" /\ cursor.turn < Len(published)
    <3>1. driver' = "recovery" /\ cursor' = [turn |-> cursor.turn + 1, step |-> 1]
      BY <1>9, <2>3 DEF Project, Onwards, Begin
    <3>2. TurnTyped'
      BY <1>1, <1>2, <3>1, StepsOfARow, RecordsGrow DEF TurnTyped, Drivers, Projecting
    <3>3. InRange' /\ DrivenIsOpen' /\ ToldSoFar'
      BY <1>1, <1>2, <2>3, <3>1 DEF InRange, DrivenIsOpen, ToldSoFar, Turns
    <3>4. EarlierClosed'
      BY <1>2, <1>4, <3>1 DEF TurnInv, EarlierClosed
    <3> QED BY <1>6, <1>7, <2>2, <3>2, <3>3, <3>4 DEF TurnInv
  <2>4. CASE ~(driver = "recovery" /\ cursor.turn < Len(published))
    <3>1. /\ driver' \in {"takeover", "none", "top"} /\ cursor' = [turn |-> 0, step |-> 1]
          /\ driver' = "top" => driver # "recovery" /\ row.state \notin Terminal
      BY <1>9, <2>1, <2>4 DEF Project, Onwards, PassesTo, NoCursor
    <3>2. TurnTyped'
      BY <1>1, <1>2, <3>1, StepsOfARow, RecordsGrow DEF TurnTyped, Drivers
    <3>3. InRange' /\ DrivenIsOpen' /\ ToldSoFar'
      BY <2>1, <3>1 DEF InRange, DrivenIsOpen, ToldSoFar, Projecting
    <3>4. ASSUME driver' = "top" PROVE Closed(Len(published))
      <4>1. driver \in {"commit", "reconcile"} /\ cursor.turn = Len(published)
        BY <1>1, <3>1, <3>4 DEF TurnInv, InRange, Projecting
      <4>2. ~Settles
        BY <1>1, <2>1, <3>1, <3>4 DEF TurnInv, ToldSoFar, Outcome, Terminal
      <4> QED BY <2>1, <4>1, <4>2 DEF Closed, Settles, Shown
    <3>5. EarlierClosed'
      BY <1>1, <1>2, <1>4, <3>1, <3>4 DEF TurnInv, EarlierClosed, Turns
    <3> QED BY <1>6, <1>7, <2>2, <3>2, <3>3, <3>5 DEF TurnInv
  <2> QED BY <2>3, <2>4
<1> QED BY <1>8, <1>9

-----------------------------------------------------------------------------
LEMMA TurnInvStep == ASSUME TurnInv, [TurnNext]_turnVars PROVE TurnInv'
<1>1. CASE UNCHANGED turnVars
  <2>1. UNCHANGED <<row, published, told, driver, cursor, inHand>>
    BY <1>1 DEF turnVars
  <2>2. InRange' /\ UnpublishedUntold' /\ EarlierClosed' /\ DrivenIsOpen' /\ TurnTyped'
    BY <2>1, ToldFrame
    DEF TurnInv, TurnTyped, InRange, UnpublishedUntold, EarlierClosed, DrivenIsOpen
  <2>3. ToldSoFar' /\ EvidenceOnce' /\ SucceededIsTold'
    BY <2>1, ToldFrame
    DEF TurnInv, ToldSoFar, Settles, Outcome, Shown, EvidenceOnce, SucceededIsTold
  <2> QED BY <2>2, <2>3 DEF TurnInv
<1> QED BY <1>1, LeaseKeeps, StartTurnKeeps, BoundaryKeeps, PublishKeeps, ProjectKeeps,
           ThrowsKeeps, RecoveryKeeps, ControlKeeps DEF TurnNext, Drives

LEMMA TurnInvariance == TurnSpec => []TurnInv
<1>1. TurnInit => TurnInv  BY TurnInvInit
<1>2. TurnInv /\ [TurnNext]_turnVars => TurnInv'  BY TurnInvStep
<1> QED BY <1>1, <1>2, PTL DEF TurnSpec

\* emitOnce, appendActionLedgerOnce: however often a projection is cut short
\* and replayed, no evidence of a turn is recorded twice.
THEOREM ReplaysRecordOnce == TurnSpec => []EvidenceOnce
<1>1. TurnInv => EvidenceOnce  BY DEF TurnInv
<1> QED BY <1>1, TurnInvariance, PTL

\* projectTurnCommit writes the state behind the evidence: an operation that
\* reads succeeded has all the evidence of all its turns on disk.
THEOREM SuccessIsBacked == TurnSpec => []SucceededIsTold
<1>1. TurnInv => SucceededIsTold  BY DEF TurnInv
<1> QED BY <1>1, TurnInvariance, PTL

-----------------------------------------------------------------------------
(* The redirect column implements RedirectBox, as long as the window of    *)
(* ingress keys forgets none: once it has, a redirect that is delivered    *)
(* again is taken for a new one.                                           *)

Remembered == /\ KeyWindow \in Nat /\ IsFiniteSet(Instr)
              /\ Cardinality(Instr) <= KeyWindow

\* The window has a key for every instruction ever accepted, and no other.
KeysKept ==
    /\ ingress \in Seq(Instr) /\ accepted \subseteq Instr
    /\ \A i \in accepted : Contains(ingress, i)
    /\ Len(ingress) = Cardinality(accepted)

\* Nothing is in the column, in hand or in a published turn that was not accepted.
FromAccepted ==
    /\ row.redirect \in accepted \cup {NoInstr} /\ inHand \in accepted \cup {NoInstr}
    /\ \A k \in Turns : published[k].instr \in accepted \cup {NoInstr}

\* Only a turn in flight has an instruction in hand, one no turn has published.
HandIsNew ==
    /\ driver # "turn" => inHand = NoInstr
    /\ inHand # NoInstr => \A k \in Turns : published[k].instr # inHand

\* The column still holds a published instruction only if it is the last turn's,
\* and then no worker gets to the next turn before its checkpoint clears it.
ConsumedIsLast ==
    row.redirect # NoInstr =>
        \A k \in Turns : published[k].instr = row.redirect =>
            /\ k = Len(published) /\ driver \notin {"top", "turn"}
            /\ driver \in {"commit", "reconcile"} => cursor.step = 1

PublishedOnce ==
    \A j, k \in Turns :
        published[j].instr = published[k].instr /\ published[j].instr # NoInstr => j = k

ColumnInv == KeysKept /\ FromAccepted /\ HandIsNew /\ ConsumedIsLast /\ PublishedOnce

-----------------------------------------------------------------------------
\* In the beginning nothing is accepted, in hand or published.
LEMMA ColumnInvInit == ASSUME TurnInit PROVE ColumnInv
<1>1. /\ row.redirect = NoInstr /\ published = <<>> /\ inHand = NoInstr
      /\ ingress = <<>> /\ accepted = {}
  BY DEF TurnInit
<1>2. Turns = {}  BY <1>1 DEF Turns
<1>3. Len(ingress) = Cardinality(accepted)  BY <1>1, FS_EmptySet
<1> QED BY <1>1, <1>2, <1>3
        DEF ColumnInv, KeysKept, FromAccepted, HandIsNew, ConsumedIsLast, PublishedOnce

\* A step that neither publishes nor touches the column keeps the invariant if it
\* empties the hand and does not let a worker past an uncleared column.
LEMMA ColumnStays ==
    ASSUME ColumnInv, UNCHANGED <<published, ingress, accepted>>,
           row'.redirect \in {row.redirect, NoInstr},
           inHand' = NoInstr \/ (inHand' = inHand /\ driver' = "turn"),
           row'.redirect # NoInstr => \A k \in Turns :
               published[k].instr = row'.redirect =>
                  /\ driver' \in {"top", "turn"} => driver \in {"top", "turn"}
                  /\ driver' \in {"commit", "reconcile"} => cursor'.step = 1
    PROVE  ColumnInv'
<1>1. Turns' = Turns  BY DEF Turns
<1>2. KeysKept' /\ PublishedOnce'
  BY <1>1 DEF ColumnInv, KeysKept, PublishedOnce, Contains
<1>3. FromAccepted' /\ HandIsNew'
  BY <1>1 DEF ColumnInv, FromAccepted, HandIsNew
<1>4. ConsumedIsLast'
  BY <1>1 DEF ColumnInv, ConsumedIsLast
<1> QED BY <1>2, <1>3, <1>4 DEF ColumnInv

\* applyRedirect accepts what the window does not know, and that is new.
LEMMA RedirectIsNew ==
    ASSUME Remembered, ColumnInv, NEW i \in Instr, ~Contains(ingress, i)
    PROVE  /\ i \notin accepted /\ Len(ingress) < KeyWindow
           /\ \A k \in Turns : published[k].instr # i
           /\ Cardinality(accepted \cup {i}) = Len(ingress) + 1
<1>1. i \notin accepted /\ accepted \subseteq Instr /\ Len(ingress) = Cardinality(accepted)
  BY DEF ColumnInv, KeysKept
<1>2. IsFiniteSet(accepted) /\ IsFiniteSet(accepted \cup {i})
  BY <1>1, FS_Subset, FS_AddElement DEF Remembered
<1>3. Cardinality(accepted \cup {i}) = Cardinality(accepted) + 1
  BY <1>1, <1>2, FS_AddElement
<1>4. Cardinality(accepted \cup {i}) <= Cardinality(Instr)
  BY <1>1, FS_Subset DEF Remembered
<1>5. Cardinality(accepted) \in Nat /\ Cardinality(Instr) \in Nat
  BY <1>2, FS_CardinalityType DEF Remembered
<1>6. \A k \in Turns : published[k].instr # i
  BY <1>1, TurnConstants DEF TurnConstants, ColumnInv, FromAccepted
<1> QED BY <1>1, <1>3, <1>4, <1>5, <1>6 DEF Remembered

LEMMA RedirectKeeps ==
    ASSUME Remembered, TurnInv, ColumnInv, NEW i \in Instr, OpRedirect(i)
    PROVE  ColumnInv'
<1>1. UNCHANGED <<published, driver, cursor, inHand>> /\ Turns' = Turns
  BY DEF OpRedirect, Turns
<1>2. CASE UNCHANGED <<row, ingress, accepted>>
  BY <1>1, <1>2 DEF ColumnInv, KeysKept, FromAccepted, HandIsNew, ConsumedIsLast,
                    PublishedOnce, Contains
<1>3. CASE ~Contains(ingress, i)
  <2>1. /\ i \notin accepted /\ Len(ingress) < KeyWindow
        /\ \A k \in Turns : published[k].instr # i
        /\ Cardinality(accepted \cup {i}) = Len(ingress) + 1
    BY <1>3, RedirectIsNew
  <2>2. /\ row' = [row EXCEPT !.redirect = i] /\ ingress' = Append(ingress, i)
        /\ accepted' = accepted \cup {i}
    BY <1>3, <2>1 DEF OpRedirect
  <2>3. row'.redirect = i  BY <2>2 DEF TurnInv, TurnTyped
  <2>4. KeysKept'
    <3>1. ingress \in Seq(Instr) /\ accepted \subseteq Instr  BY DEF ColumnInv, KeysKept
    <3>2. /\ ingress' \in Seq(Instr) /\ Len(ingress') = Len(ingress) + 1
          /\ ingress'[Len(ingress) + 1] = i
          /\ \A k \in 1..Len(ingress) : ingress'[k] = ingress[k]
      BY <2>2, <3>1
    <3>3. ASSUME NEW a \in accepted PROVE Contains(ingress', a)
      <4>1. PICK k \in 1..Len(ingress) : ingress[k] = a
        BY DEF ColumnInv, KeysKept, Contains
      <4> QED BY <3>1, <3>2, <4>1 DEF Contains
    <3>4. Contains(ingress', i)  BY <3>1, <3>2 DEF Contains
    <3>5. \A a \in accepted' : Contains(ingress', a)  BY <2>2, <3>3, <3>4
    <3>6. Len(ingress') = Cardinality(accepted')  BY <2>1, <2>2, <3>2
    <3>7. accepted' \subseteq Instr  BY <2>2, <3>1
    <3> QED BY <3>2, <3>5, <3>6, <3>7 DEF KeysKept, Contains
  <2>5. FromAccepted'  BY <1>1, <2>2, <2>3 DEF ColumnInv, FromAccepted
  <2>6. HandIsNew' /\ PublishedOnce'
    BY <1>1 DEF ColumnInv, HandIsNew, PublishedOnce
  <2>7. ConsumedIsLast'  BY <1>1, <2>1, <2>3 DEF ConsumedIsLast
  <2> QED BY <2>4, <2>5, <2>6, <2>7 DEF ColumnInv
<1> QED BY <1>2, <1>3 DEF OpRedirect

\* publishTurnCommit publishes what no turn has published before.
LEMMA PublishOnce ==
    ASSUME TurnInv, ColumnInv, NEW end \in TurnEnds, Publish(end) PROVE ColumnInv'
<1> DEFINE n == Len(published)
           new == [instr |-> inHand, end |-> end]
<1>1. /\ published \in Seq(Envelope) /\ n \in Nat /\ new \in Envelope
  BY DEF TurnInv, TurnTyped, Envelope
<1>2. /\ published' = Append(published, new) /\ inHand' = NoInstr
      /\ UNCHANGED <<row, ingress, accepted>>
      /\ driver = "turn" /\ driver' = "commit" /\ cursor' = [turn |-> n + 1, step |-> 1]
  BY DEF Publish, Begin
<1>3. /\ Len(published') = n + 1 /\ published'[n + 1] = new
      /\ \A k \in 1..n : published'[k] = published[k]
  BY <1>1, <1>2
<1>4. /\ Turns = 1..n /\ Turns' = 1..(n + 1) /\ new.instr = inHand
      /\ \A k \in Turns' : k \in Turns \/ k = n + 1
  BY <1>1, <1>3 DEF Turns
<1>5. KeysKept'  BY <1>2 DEF ColumnInv, KeysKept, Contains
<1>6. FromAccepted'  BY <1>2, <1>3, <1>4 DEF ColumnInv, FromAccepted
<1>7. HandIsNew'  BY <1>2 DEF HandIsNew
<1>8. ConsumedIsLast'
  BY <1>2, <1>3, <1>4 DEF ColumnInv, ConsumedIsLast
<1>9. PublishedOnce'
  BY <1>1, <1>3, <1>4 DEF ColumnInv, HandIsNew, PublishedOnce
<1> QED BY <1>5, <1>6, <1>7, <1>8, <1>9 DEF ColumnInv

\* projectTurnCommit clears the column in its first step, before it hands the
\* operation to a worker again.
LEMMA ProjectClears ==
    ASSUME TurnInv, ColumnInv, Project PROVE ColumnInv'
<1>1. /\ UNCHANGED <<published, inHand, ingress, accepted>> /\ inHand = NoInstr
      /\ driver \in Projecting /\ cursor.turn \in Turns /\ cursor.step \in 1..7
      /\ driver \in {"commit", "reconcile"} => cursor.turn = Len(published)
      /\ cursor \in [turn : Nat, step : 1..7]
      /\ row \in [state : States, turn : Nat,
                  redirect : Instr \cup {NoInstr}, control : BOOLEAN]
  BY DEF Project, Projecting, ColumnInv, HandIsNew, TurnInv, TurnTyped, InRange
<1>2. row'.redirect = row.redirect \/ (Checkpoint /\ row'.redirect = NoInstr)
  BY <1>1 DEF Project, Checkpoint, Tell, Transition, Moves
<1>3. ASSUME row'.redirect # NoInstr, NEW k \in Turns, published[k].instr = row'.redirect,
             driver \in {"commit", "reconcile"}
      PROVE  FALSE
  <2>1. row'.redirect = row.redirect  BY <1>2, <1>3
  <2>2. k = Len(published) /\ cursor.step = 1
    BY <1>3, <2>1 DEF ColumnInv, ConsumedIsLast
  <2>3. Step = "checkpoint"  BY <2>2 DEF Step, ProjectionSteps
  <2>4. Checkpoint  BY <2>3 DEF Project, Tell, Transition, Evidence
  <2>5. Shown.instr = row.redirect  BY <1>1, <1>3, <2>1, <2>2 DEF Shown
  <2>6. row'.redirect = NoInstr
    BY <1>1, <1>3, <2>1, <2>4, <2>5 DEF Checkpoint, ClearRedirect
  <2> QED BY <1>3, <2>6
<1>4. driver = "recovery" => driver' \in {"recovery", "takeover"}
  BY DEF Project, Onwards, Begin, PassesTo
<1>5. driver' # "turn"  BY <1>1 DEF Project, Onwards, Begin, PassesTo, Projecting
<1>6. \A k \in Turns : row'.redirect # NoInstr /\ published[k].instr = row'.redirect
         => driver' \notin {"top", "turn", "commit", "reconcile"}
  BY <1>1, <1>3, <1>4 DEF Projecting
<1> QED BY <1>1, <1>2, <1>6, ColumnStays

LEMMA ColumnInvStep ==
    ASSUME Remembered, TurnInv, ColumnInv, [TurnNext]_turnVars PROVE ColumnInv'
<1> USE DEF Moves, Begin, PassesTo, NoCursor
<1>t. /\ row \in [state : States, turn : Nat,
                  redirect : Instr \cup {NoInstr}, control : BOOLEAN]
      /\ driver # "turn" => inHand = NoInstr
  BY DEF TurnInv, TurnTyped, ColumnInv, HandIsNew
<1>1. CASE Lease
  <2>1. /\ inHand' = NoInstr /\ row'.redirect = row.redirect
        /\ UNCHANGED <<published, ingress, accepted>>
        /\ driver' \notin {"turn", "commit"} /\ (published # <<>> => driver' # "top")
        /\ driver' = "reconcile" => cursor'.step = 1
    BY <1>1, <1>t DEF Lease
  <2>2. published = <<>> => Turns = {}  BY DEF Turns
  <2> QED BY <2>1, <2>2, ColumnStays
<1>2. CASE StartTurn
  <2>1. /\ UNCHANGED <<row, published, ingress, accepted>> /\ Turns' = Turns
        /\ inHand' = row.redirect /\ driver = "top" /\ driver' = "turn"
    BY <1>2 DEF StartTurn, Turns
  <2>2. row.redirect # NoInstr => \A k \in Turns : published[k].instr # row.redirect
    BY <2>1 DEF ColumnInv, ConsumedIsLast
  <2> QED BY <2>1, <2>2 DEF ColumnInv, KeysKept, FromAccepted, HandIsNew, ConsumedIsLast,
             PublishedOnce, Contains
<1>3. ASSUME NEW end \in TurnEnds, Publish(end) PROVE ColumnInv'
  BY <1>3, PublishOnce
<1>4. CASE Project  BY <1>4, ProjectClears
<1>5. ASSUME NEW i \in Instr, OpRedirect(i) PROVE ColumnInv'
  BY <1>5, RedirectKeeps
<1>6. CASE LeaveAtBoundary \/ LoseTurn \/ Throws \/ TakeOver \/ ServerCrash
  <2>1. /\ UNCHANGED <<published, ingress, accepted>> /\ row'.redirect = row.redirect
        /\ driver' \in {"none", "takeover"}
    BY <1>6, <1>t DEF LeaveAtBoundary, LoseTurn, Throws, TakeOver, ServerCrash
  <2>2. inHand' = NoInstr
    BY <1>6, <1>t DEF LeaveAtBoundary, LoseTurn, Throws, TakeOver, ServerCrash, Projecting
  <2> QED BY <2>1, <2>2, ColumnStays
<1>7. CASE StartRecovery
  <2>1. /\ UNCHANGED <<row, published, ingress, accepted>>
        /\ driver' \in {"recovery", "takeover"} /\ inHand' = NoInstr
    BY <1>7, <1>t DEF StartRecovery
  <2> QED BY <2>1, ColumnStays
<1>8. CASE OpCancel \/ OpPause \/ OpResume \/ UNCHANGED turnVars
  <2>1. /\ UNCHANGED <<published, ingress, accepted, driver, cursor, inHand>>
        /\ row'.redirect = row.redirect
    BY <1>8, <1>t DEF OpCancel, OpPause, OpResume, turnVars
  <2> QED BY <2>1 DEF ColumnInv, KeysKept, FromAccepted, HandIsNew, ConsumedIsLast,
             PublishedOnce, Contains, Turns
<1> QED BY <1>1, <1>2, <1>3, <1>4, <1>5, <1>6, <1>7, <1>8 DEF TurnNext, Drives

-----------------------------------------------------------------------------
(* Every step of TurnCommit is a step of the box or leaves it alone.       *)

\* The box as TurnCommit keeps it.
BoxNow == IF Consumed THEN NoInstr ELSE row.redirect

\* A step that publishes nothing and leaves the column alone leaves the box alone.
LEMMA BoxUntouched ==
    ASSUME UNCHANGED published, row'.redirect = row.redirect
    PROVE  BoxNow' = BoxNow /\ Applied' = Applied
BY DEF BoxNow, Consumed, Applied, Turns

\* projectTurnCommit clears the column of what the box has given away already.
LEMMA ProjectIsSilent ==
    ASSUME TurnInv, ColumnInv, Project
    PROVE  BoxNow' = BoxNow /\ Applied' = Applied /\ UNCHANGED <<inHand, accepted>>
<1>1. /\ UNCHANGED <<published, inHand, accepted>> /\ cursor.turn \in Turns
      /\ row \in [state : States, turn : Nat,
                  redirect : Instr \cup {NoInstr}, control : BOOLEAN]
  BY DEF Project, TurnInv, InRange, TurnTyped
<1>2. CASE row'.redirect = row.redirect  BY <1>1, <1>2, BoxUntouched
<1>3. CASE row'.redirect # row.redirect
  <2>1. Checkpoint /\ ClearRedirect /\ row'.redirect = NoInstr
    BY <1>1, <1>3 DEF Project, Checkpoint, Tell, Transition, Moves
  <2>2. Consumed  BY <1>1, <2>1 DEF ClearRedirect, Shown, Consumed
  <2>3. BoxNow = NoInstr /\ BoxNow' = NoInstr  BY <2>1, <2>2 DEF BoxNow
  <2> QED BY <1>1, <2>3 DEF Applied, Turns
<1> QED BY <1>2, <1>3

\* A function on an initial interval is a sequence.
LEMMA IsSequence ==
    ASSUME NEW S, NEW n \in Nat, NEW f \in [1..n -> S]
    PROVE  f \in Seq(S) /\ Len(f) = n
OBVIOUS

\* What Append returns, element by element.
LEMMA AppendAsFunction ==
    ASSUME NEW S, NEW s \in Seq(S), NEW e \in S
    PROVE  Append(s, e) = [k \in 1..(Len(s) + 1) |-> IF k <= Len(s) THEN s[k] ELSE e]
<1> DEFINE f == [k \in 1..(Len(s) + 1) |-> IF k <= Len(s) THEN s[k] ELSE e]
<1>1. Len(s) \in Nat  OBVIOUS
<1>2. /\ Append(s, e) \in Seq(S) /\ Len(Append(s, e)) = Len(s) + 1
      /\ \A k \in 1..Len(s) : Append(s, e)[k] = s[k]
      /\ Append(s, e)[Len(s) + 1] = e
  OBVIOUS
<1>3. \A k \in 1..(Len(s) + 1) : f[k] \in S  BY <1>1
<1>4. f \in Seq(S) /\ Len(f) = Len(s) + 1  BY <1>1, <1>3, IsSequence
<1>5. \A k \in 1..(Len(s) + 1) : f[k] = Append(s, e)[k]  BY <1>1, <1>2
<1> HIDE DEF f
<1>6. f = Append(s, e)  BY <1>1, <1>2, <1>4, <1>5, SeqEqual
<1> QED BY <1>6 DEF f

\* Publication applies what is in hand and takes it out of the box.
LEMMA PublishApplies ==
    ASSUME TurnInv, ColumnInv, NEW end \in TurnEnds, Publish(end)
    PROVE  /\ Applied' = Append(Applied, inHand)
           /\ BoxNow' = IF BoxNow = inHand THEN NoInstr ELSE BoxNow
           /\ inHand' = NoInstr /\ UNCHANGED accepted
<1> DEFINE n == Len(published)
           new == [instr |-> inHand, end |-> end]
<1>1. published \in Seq(Envelope) /\ n \in Nat /\ new \in Envelope
  BY DEF TurnInv, TurnTyped, Envelope
<1>2. published' = Append(published, new) /\ inHand' = NoInstr
      /\ UNCHANGED <<row, accepted>>
  BY DEF Publish
<1>3. /\ Len(published') = n + 1 /\ published'[n + 1] = new
      /\ \A k \in 1..n : published'[k] = published[k]
      /\ new.instr = inHand
  BY <1>1, <1>2
<1>4. Turns = 1..n /\ Turns' = 1..(n + 1)  BY <1>1, <1>3 DEF Turns
<1>5. Applied' = Append(Applied, inHand)
  <2>1. Applied' = [k \in 1..(n + 1) |-> published'[k].instr]  BY <1>4 DEF Applied
  <2>2. Applied = [k \in 1..n |-> published[k].instr]  BY <1>4 DEF Applied
  <2>3. Applied \in Seq(Instr \cup {NoInstr}) /\ Len(Applied) = n
    <3>0. \A k \in 1..n : published[k] \in Envelope  BY <1>1
    <3>1. \A k \in 1..n : published[k].instr \in Instr \cup {NoInstr}
      BY <3>0 DEF Envelope
    <3>2. Applied \in [1..n -> Instr \cup {NoInstr}]  BY <2>2, <3>1
    <3> QED BY <1>1, <3>2, IsSequence
  <2>4. \A k \in 1..(n + 1) : published'[k].instr = IF k <= n THEN Applied[k] ELSE inHand
    BY <1>1, <1>3, <2>2
  <2>5. Append(Applied, inHand) = [k \in 1..(n + 1) |-> IF k <= n THEN Applied[k] ELSE inHand]
    <3>1. inHand \in Instr \cup {NoInstr}  BY <1>1 DEF Envelope
    <3> QED BY <2>3, <3>1, AppendAsFunction
  <2> QED BY <2>1, <2>4, <2>5
<1>6. Consumed' <=> Consumed \/ row.redirect = inHand
  BY <1>1, <1>2, <1>3, <1>4 DEF Consumed
<1> QED BY <1>2, <1>5, <1>6 DEF BoxNow

LEMMA BoxStep ==
    ASSUME Remembered, TurnInv, ColumnInv, [TurnNext]_turnVars
    PROVE  [Box!BoxNext]_(Box!boxVars)
<1> USE DEF Moves, Begin, PassesTo, NoCursor
<1>t. /\ row \in [state : States, turn : Nat,
                  redirect : Instr \cup {NoInstr}, control : BOOLEAN]
      /\ driver # "turn" => inHand = NoInstr
  BY DEF TurnInv, TurnTyped, ColumnInv, HandIsNew
<1>s. ASSUME BoxNow' = BoxNow, Applied' = Applied, UNCHANGED <<inHand, accepted>>
      PROVE  UNCHANGED Box!boxVars
  BY <1>s DEF Box!boxVars, BoxNow
<1>1. CASE StartTurn
  <2>1. /\ UNCHANGED <<row, published, accepted>> /\ inHand' = row.redirect
        /\ driver = "top"
    BY <1>1 DEF StartTurn
  <2>2. BoxNow = row.redirect
    BY <2>1 DEF BoxNow, Consumed, ColumnInv, ConsumedIsLast
  <2>3. BoxNow' = BoxNow /\ Applied' = Applied  BY <2>1, BoxUntouched
  <2>4. Box!Take  BY <1>t, <2>1, <2>2, <2>3 DEF Box!Take, BoxNow
  <2> QED BY <2>4 DEF Box!BoxNext
<1>2. ASSUME NEW end \in TurnEnds, Publish(end) PROVE [Box!BoxNext]_(Box!boxVars)
  <2>1. Box!Apply  BY <1>2, PublishApplies DEF Box!Apply, BoxNow
  <2> QED BY <2>1 DEF Box!BoxNext
<1>3. CASE Project  BY <1>3, <1>s, ProjectIsSilent
<1>4. ASSUME NEW i \in Instr, OpRedirect(i) PROVE [Box!BoxNext]_(Box!boxVars)
  <2>1. UNCHANGED <<published, inHand>>  BY <1>4 DEF OpRedirect
  <2>2. CASE UNCHANGED <<row, accepted>>  BY <1>s, <2>1, <2>2, BoxUntouched
  <2>3. CASE ~Contains(ingress, i)
    <3>1. i \notin accepted /\ \A k \in Turns : published[k].instr # i
      BY <2>3, RedirectIsNew
    <3>2. row'.redirect = i /\ accepted' = accepted \cup {i}
      BY <1>4, <1>t, <2>3 DEF OpRedirect
    <3>3. BoxNow' = i /\ Applied' = Applied
      BY <2>1, <3>1, <3>2 DEF BoxNow, Consumed, Applied, Turns
    <3>4. Box!Receive(i)  BY <2>1, <3>1, <3>2, <3>3 DEF Box!Receive, BoxNow
    <3> QED BY <3>4 DEF Box!BoxNext
  <2> QED BY <1>4, <2>2, <2>3 DEF OpRedirect
<1>5. CASE Lease \/ LeaveAtBoundary \/ LoseTurn \/ Throws \/ StartRecovery
           \/ TakeOver \/ ServerCrash \/ OpCancel \/ OpPause \/ OpResume
           \/ UNCHANGED turnVars
  <2>1. /\ row'.redirect = row.redirect /\ UNCHANGED <<published, accepted>>
        /\ inHand' = inHand \/ inHand' = NoInstr
    BY <1>5, <1>t DEF Lease, LeaveAtBoundary, LoseTurn, Throws, StartRecovery,
       TakeOver, ServerCrash, OpCancel, OpPause, OpResume, turnVars
  <2>2. BoxNow' = BoxNow /\ Applied' = Applied  BY <2>1, BoxUntouched
  <2>3. CASE inHand' = inHand  BY <1>s, <2>1, <2>2, <2>3
  <2>4. CASE inHand' = NoInstr
    <3>1. Box!PutBack  BY <2>1, <2>2, <2>4 DEF Box!PutBack, BoxNow
    <3> QED BY <3>1 DEF Box!BoxNext
  <2> QED BY <2>1, <2>3, <2>4
<1> QED BY <1>1, <1>2, <1>3, <1>4, <1>5 DEF TurnNext, Drives

\* While the window forgets no key, the column's invariant holds.
LEMMA ColumnInvariance == ASSUME Remembered PROVE TurnSpec => []ColumnInv
<1>1. TurnInit => ColumnInv  BY ColumnInvInit
<1>2. TurnInv /\ ColumnInv /\ [TurnNext]_turnVars => ColumnInv'  BY ColumnInvStep
<1> QED BY <1>1, <1>2, TurnInvariance, PTL DEF TurnSpec

\* applyRedirect, the turn that takes the column's instruction, and the clearing
\* in projectTurnCommit: for any number of turns, redirects, deliveries and faults
\* an accepted redirect is replaced by a newer one or applied by the one turn that
\* publishes it, provided the window of ingress keys forgets none.
THEOREM ColumnIsABox == ASSUME Remembered PROVE TurnSpec => ImplementsRedirectBox
<1>1. TurnInit => Box!BoxInit
  <2> SUFFICES ASSUME TurnInit PROVE Box!BoxInit
    OBVIOUS
  <2>1. /\ row.redirect = NoInstr /\ published = <<>> /\ inHand = NoInstr
        /\ accepted = {}
    BY DEF TurnInit
  <2>2. Turns = {} /\ Applied = <<>>  BY <2>1 DEF Turns, Applied
  <2> QED BY <2>1, <2>2 DEF Box!BoxInit
<1>2. TurnInv /\ ColumnInv /\ [TurnNext]_turnVars => [Box!BoxNext]_(Box!boxVars)
  BY BoxStep
<1>3. TurnSpec => []TurnInv /\ []ColumnInv  BY TurnInvariance, ColumnInvariance
<1> QED BY <1>1, <1>2, <1>3, PTL DEF TurnSpec, ImplementsRedirectBox, Box!BoxSpec

\* ... and no instruction is applied by two published turns.
THEOREM RedirectsAppliedOnce == ASSUME Remembered PROVE TurnSpec => []Box!AppliedOnce
<1>1. ColumnInv => Box!AppliedOnce
  BY DEF ColumnInv, PublishedOnce, Box!AppliedOnce, Applied
<1> QED BY <1>1, ColumnInvariance, PTL
-----------------------------------------------------------------------------
(* Types.  The bounds the code relies on are the window of ingress keys,   *)
(* which never grows past its size, and the row's turn index, which never  *)
(* passes the last turn published.                                         *)

Bounded ==
    /\ row.turn \in 0..MaxTurns /\ cursor.turn \in 0..MaxTurns
    /\ ingress \in Seq(Instr) /\ Len(ingress) <= KeyWindow
    /\ accepted \subseteq Instr
    /\ sends \in [Instr -> 0..MaxSends] /\ faults \in 0..MaxFaults

\* A sequence that is no longer than n is one of the bounded sequences.
LEMMA ShortIsBounded ==
    ASSUME NEW S, NEW n \in Nat, NEW s \in Seq(S), Len(s) <= n
    PROVE  s \in BoundedSeq(S, n)
<1>1. s \in [1..Len(s) -> S] /\ Len(s) \in 0..n  OBVIOUS
<1> QED BY <1>1 DEF BoundedSeq, SeqOf

\* A key that does not fit drops the oldest.
LEMMA WindowKeepsItsSize ==
    ASSUME NEW s \in Seq(Instr), Len(s) <= KeyWindow, NEW i \in Instr
    PROVE  LET t == Append(IF Len(s) < KeyWindow THEN s ELSE Tail(s), i)
           IN  t \in Seq(Instr) /\ Len(t) <= KeyWindow
<1>1. CASE Len(s) < KeyWindow
  BY <1>1, TurnConstants DEF TurnConstants
<1>2. CASE ~(Len(s) < KeyWindow)
  <2>1. Len(s) = KeyWindow /\ s # <<>>
    BY <1>2, TurnConstants DEF TurnConstants
  <2>2. Tail(s) \in Seq(Instr) /\ Len(Tail(s)) = Len(s) - 1
    BY <2>1
  <2> QED BY <1>2, <2>1, <2>2, TurnConstants DEF TurnConstants
<1> QED BY <1>1, <1>2

\* Only a projection moves the row's turn index, to the turn it projects, and
\* only a delivery touches the keys.
LEMMA BoundedStep ==
    ASSUME TurnInv, Bounded, [TurnNext]_turnVars PROVE Bounded'
<1> USE TurnConstants DEF TurnConstants, Bounded
<1>t. /\ TurnTyped /\ Len(published) \in 0..MaxTurns
      /\ row \in [state : States, turn : Nat,
                  redirect : Instr \cup {NoInstr}, control : BOOLEAN]
      /\ cursor \in [turn : Nat, step : 1..7]
  BY TurnsFit DEF TurnInv, TurnTyped
<1> DEFINE Kept == UNCHANGED <<ingress, accepted, sends>>
           Counted == faults' = faults \/ Fault
           Placed == row'.turn = row.turn /\ cursor'.turn \in 0..MaxTurns
<1>q. ASSUME Kept, Counted, Placed PROVE Bounded'
  BY <1>q DEF Fault
<1>1. CASE Lease \/ StartTurn \/ LeaveAtBoundary \/ LoseTurn
  <2>1. Placed
    <3>1. cursor'.turn \in 0..MaxTurns
      BY <1>t, <1>1 DEF Lease, StartTurn, LeaveAtBoundary, LoseTurn, Begin, PassesTo,
                        NoCursor
    <3>2. row'.turn = row.turn
      BY <1>t, <1>1 DEF Lease, StartTurn, LeaveAtBoundary, LoseTurn, Moves
    <3> QED BY <3>1, <3>2
  <2> QED BY <1>1, <1>q, <2>1 DEF Lease, StartTurn, LeaveAtBoundary, LoseTurn
<1>2. ASSUME NEW end \in TurnEnds, Publish(end) PROVE Bounded'
  <2>1. Len(published) < MaxTurns  BY <1>2 DEF TurnInv, InRange, Publish
  <2> QED BY <1>t, <1>2, <1>q, <2>1 DEF Publish, Begin
<1>3. CASE Project
  <2>1. cursor.turn \in 1..MaxTurns /\ Turns = 1..Len(published)
    BY <1>3, TurnsFit DEF TurnInv, InRange, Project, Turns
  <2>2. row'.turn \in 0..MaxTurns
    BY <1>t, <1>3, <2>1 DEF Project, Checkpoint, Tell, Transition, Moves
  <2>3. cursor'.turn \in 0..MaxTurns
    BY <1>t, <1>3, <2>1 DEF Project, Onwards, Begin, PassesTo, NoCursor
  <2> QED BY <1>3, <2>2, <2>3 DEF Project
<1>4. CASE Throws \/ StartRecovery \/ TakeOver \/ ServerCrash
  <2>1. Placed
    <3>1. published # <<>> => 1 \in 0..MaxTurns
      BY <1>t DEF TurnTyped
    <3>2. CASE Throws  BY <1>t, <3>2 DEF Throws, Moves, PassesTo, NoCursor
    <3>3. CASE StartRecovery
      BY <1>t, <3>1, <3>3 DEF StartRecovery, Begin, PassesTo, NoCursor
    <3>4. CASE TakeOver \/ ServerCrash
      BY <1>t, <3>4 DEF TakeOver, ServerCrash, Moves, PassesTo, NoCursor
    <3> QED BY <1>4, <3>2, <3>3, <3>4
  <2> QED BY <1>4, <1>q, <2>1 DEF Throws, StartRecovery, TakeOver, ServerCrash
<1>5. ASSUME NEW i \in Instr, OpRedirect(i) PROVE Bounded'
  <2>1. row'.turn = row.turn /\ cursor' = cursor /\ faults' = faults
    BY <1>t, <1>5 DEF OpRedirect
  <2>2. sends' \in [Instr -> 0..MaxSends]  BY <1>5 DEF OpRedirect
  <2>3. ingress' \in Seq(Instr) /\ Len(ingress') <= KeyWindow /\ accepted' \subseteq Instr
    BY <1>5, WindowKeepsItsSize DEF OpRedirect
  <2> QED BY <2>1, <2>2, <2>3
<1>6. CASE OpCancel \/ OpPause \/ OpResume
  <2>1. Placed  BY <1>t, <1>6 DEF OpCancel, OpPause, OpResume, Moves
  <2> QED BY <1>6, <1>q, <2>1 DEF OpCancel, OpPause, OpResume
<1>7. CASE UNCHANGED turnVars  BY <1>7 DEF turnVars
<1> QED BY <1>1, <1>2, <1>3, <1>4, <1>5, <1>6, <1>7 DEF TurnNext, Drives

\* Row, envelopes, evidence, cursor and ingress keys keep their types: the window
\* of keys its size, and the row's turn index never passes the turns there can be.
THEOREM TurnTypeCorrect == TurnSpec => []TurnTypeOK
<1>1. TurnInit => TurnInv /\ Bounded
  <2> SUFFICES ASSUME TurnInit PROVE Bounded
    BY TurnInvInit
  <2> QED BY TurnConstants DEF TurnInit, Bounded, TurnConstants, NoCursor
<1>2. TurnInv /\ Bounded /\ [TurnNext]_turnVars => TurnInv' /\ Bounded'
  BY TurnInvStep, BoundedStep
<1>3. TurnInv /\ Bounded => TurnTypeOK
  <2> SUFFICES ASSUME TurnInv, Bounded PROVE TurnTypeOK
    OBVIOUS
  <2>1. /\ published \in BoundedSeq(Envelope, MaxTurns)
        /\ ingress \in BoundedSeq(Instr, KeyWindow)
    BY ShortIsBounded, TurnConstants DEF TurnConstants, TurnInv, TurnTyped, Bounded
  <2>2. Len(ProjectionSteps) = 7  BY DEF ProjectionSteps
  <2>3. row \in [state : States, turn : 0..MaxTurns,
                 redirect : Instr \cup {NoInstr}, control : BOOLEAN]
    BY DEF TurnInv, TurnTyped, Bounded
  <2>4. cursor \in [turn : 0..MaxTurns, step : 1..7]
    BY DEF TurnInv, TurnTyped, Bounded
  <2> QED BY <2>1, <2>2, <2>3, <2>4 DEF TurnInv, TurnTyped, Bounded, TurnTypeOK
<1> QED BY <1>1, <1>2, <1>3, PTL DEF TurnSpec
=============================================================================
