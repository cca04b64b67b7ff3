----------------------------- MODULE TurnCommit -----------------------------
(***************************************************************************)
(* How a finished turn becomes durable (checkpoint.ts): the envelope is    *)
(* published by one rename, then projected, one durable write at a time,   *)
(* onto the operation's row, its event log and the session's ledger.  A    *)
(* crash or a failed write stops the projection anywhere; the replacement  *)
(* worker replays the latest envelope under its own lease, and recovery    *)
(* replays all of them.  The redirect column is part of the projection.    *)
(*                                                                         *)
(* Projection runs inside the op lock, so no other writer of the row       *)
(* interleaves with one of its steps.                                      *)
(***************************************************************************)
EXTENDS Integers, Sequences, FiniteSets, SequencesExt

CONSTANTS Instr,       \* instructions, each with an ingress key of its own
          NoInstr,     \* an empty redirect column
          MaxTurns,    \* bound: turns of one operation
          MaxFaults,   \* bound: crashes, failed writes and busy locks
          KeyWindow,   \* redirectIngressKeys keeps this many keys (256)
          MaxSends     \* bound: deliveries of one instruction

\* An empty column is no instruction, and the window remembers at least a key.
ASSUME TurnConstants == /\ MaxTurns \in Nat /\ NoInstr \notin Instr
                        /\ KeyWindow \in Nat \ {0}
                        /\ MaxFaults \in Nat /\ MaxSends \in Nat

VARIABLES row,         \* operation.json: state, turn index, redirect, control
          published,   \* the turn envelopes, by turn
          told,        \* told[i][e]: how often evidence e of turn i is on disk
          driver,      \* what drives the operation
          cursor,      \* the projection under way: turn and step
          inHand,      \* the redirect the turn in flight was given
          ingress,     \* redirectIngressKeys, oldest first
          accepted,    \* history: the instructions the column has held
          sends,       \* deliveries so far of each instruction
          faults       \* faults so far

turnVars == <<row, published, told, driver, cursor, inHand, ingress, accepted,
          sends, faults>>

States == {"queued", "running", "paused", "cancelling",
           "cancelled", "succeeded", "failed"}
Terminal == {"cancelled", "succeeded", "failed"}
TurnEnds == {"none", "done", "error"}
Evidence == {"message_appended", "turn_committed", "ledger",
             "redirect_applied", "state_changed"}

\* Mutant: the state is written right after the checkpoint.
ProjectionSteps_StateFirst ==
    <<"checkpoint", "transition", "message_appended", "turn_committed",
      "ledger", "redirect_applied", "state_changed">>

\* projectTurnCommit, in the order of its durable writes.
ProjectionSteps == <<"checkpoint", "message_appended", "turn_committed",
                     "ledger", "redirect_applied", "transition",
                     "state_changed">>
Projecting == {"commit", "reconcile", "recovery"}
Drivers == {"none", "top", "turn", "takeover"} \cup Projecting

Turns == 1..Len(published)
Envelope == [instr : Instr \cup {NoInstr}, end : TurnEnds]
NoCursor == [turn |-> 0, step |-> 1]

TurnInit ==
    /\ row = [state |-> "queued", turn |-> 0, redirect |-> NoInstr,
              control |-> FALSE]
    /\ published = <<>>
    /\ told = [i \in 1..MaxTurns |-> [e \in Evidence |-> 0]]
    /\ driver = "none" /\ cursor = NoCursor /\ inHand = NoInstr
    /\ ingress = <<>> /\ accepted = {}
    /\ sends = [i \in Instr |-> 0] /\ faults = 0

TurnTypeOK ==
    /\ row \in [state : States, turn : 0..MaxTurns,
                redirect : Instr \cup {NoInstr}, control : BOOLEAN]
    /\ published \in BoundedSeq(Envelope, MaxTurns)
    /\ told \in [1..MaxTurns -> [Evidence -> Nat]]
    /\ driver \in Drivers
    /\ cursor \in [turn : 0..MaxTurns, step : 1..Len(ProjectionSteps)]
    /\ inHand \in Instr \cup {NoInstr}
    /\ ingress \in BoundedSeq(Instr, KeyWindow) /\ accepted \subseteq Instr
    /\ sends \in [Instr -> 0..MaxSends] /\ faults \in 0..MaxFaults

Fault == faults < MaxFaults /\ faults' = faults + 1
Moves(state) == row' = [row EXCEPT !.state = state]
Begin(who, i) == driver' = who /\ cursor' = [turn |-> i, step |-> 1]
PassesTo(who) == driver' = who /\ cursor' = NoCursor

-----------------------------------------------------------------------------
(* The worker: lease, replay of the latest envelope, turns, commits.       *)

Lease ==
    /\ driver = "none" /\ row.state = "queued"
    /\ Moves("running")
    /\ IF published = <<>> THEN PassesTo("top")
                           ELSE Begin("reconcile", Len(published))
    /\ UNCHANGED <<published, told, inHand, ingress, accepted, sends, faults>>

\* The redirect is read before turn_started, so one that arrives during the
\* turn waits for the next.
StartTurn ==
    /\ driver = "top" /\ row.state = "running" /\ ~row.control
    /\ Len(published) < MaxTurns
    /\ inHand' = row.redirect
    /\ PassesTo("turn")
    /\ UNCHANGED <<row, published, told, ingress, accepted, sends, faults>>

\* What the worker does at a turn boundary instead of another turn.
LeaveAtBoundary ==
    /\ driver = "top"
    /\ \/ row.state = "cancelling" /\ Moves("cancelled")
       \/ /\ row.state = "running" /\ row.control
          /\ row' = [row EXCEPT !.state = "paused", !.control = FALSE]
       \/ /\ row.state = "running" /\ Len(published) = MaxTurns
          /\ Moves("succeeded")
    /\ PassesTo("none")
    /\ UNCHANGED <<published, told, inHand, ingress, accepted, sends, faults>>

\* publishTurnCommit: the rename is the commit point.
Publish(end) ==
    /\ driver = "turn"
    /\ published' = Append(published, [instr |-> inHand, end |-> end])
    /\ inHand' = NoInstr
    /\ Begin("commit", Len(published) + 1)
    /\ UNCHANGED <<row, told, ingress, accepted, sends, faults>>

\* A turn that throws or is cancelled publishes nothing.
LoseTurn ==
    /\ driver = "turn" /\ inHand' = NoInstr
    /\ \/ row.state = "cancelling" /\ Moves("cancelled") /\ UNCHANGED faults
       \/ row.state = "running" /\ Moves("failed") /\ Fault
    /\ PassesTo("none")
    /\ UNCHANGED <<published, told, ingress, accepted, sends>>

-----------------------------------------------------------------------------
(* projectTurnCommit.                                                      *)

Step == ProjectionSteps[cursor.step]
Shown == published[cursor.turn]
Outcome == IF Shown.end = "done" THEN "succeeded" ELSE "failed"
Settles == Shown.end # "none"

\* Mutant: the column is cleared whatever it holds by now.
ClearRedirect_Newer == Shown.instr # NoInstr

\* diskRedirectMatches: a newer instruction stays in the column.
ClearRedirect == Shown.instr # NoInstr /\ row.redirect = Shown.instr

Checkpoint ==
    /\ Step = "checkpoint"
    /\ row' = [row EXCEPT !.turn = IF @ < cursor.turn THEN cursor.turn ELSE @,
                          !.redirect = IF ClearRedirect THEN NoInstr ELSE @]
    /\ UNCHANGED told

\* Mutants: the entry is not looked for; a replay trusts the row's turn index.
Recorded_Never(e) == FALSE
Recorded_ByIndex(e) ==
    told[cursor.turn][e] > 0 \/ (driver # "commit" /\ row.turn = cursor.turn)

\* emitOnce and appendActionLedgerOnce look for the entry before they write.
Recorded(e) == told[cursor.turn][e] > 0

Tell ==
    /\ Step \in Evidence
    /\ IF \/ Step = "redirect_applied" /\ Shown.instr = NoInstr
          \/ Step = "state_changed" /\ ~(Settles /\ row.state = Outcome)
          \/ Recorded(Step)
         THEN UNCHANGED told
         ELSE told' = [told EXCEPT ![cursor.turn][Step] = @ + 1]
    /\ UNCHANGED row

\* Recovery never overrides pause, cancel or approval control.
MayTransition == driver # "recovery" \/ (row.state = "running" /\ ~row.control)
Transitions == Settles /\ row.state # Outcome /\ MayTransition
Illegal == Transitions /\ row.state = "cancelling"

Transition ==
    /\ Step = "transition" /\ ~Illegal
    /\ IF Transitions THEN Moves(Outcome) ELSE UNCHANGED row
    /\ UNCHANGED told

LastStep == cursor.step = Len(ProjectionSteps)

\* Where a finished projection leads.
Onwards ==
    IF ~LastStep THEN cursor' = [cursor EXCEPT !.step = @ + 1] /\ UNCHANGED driver
    ELSE IF driver = "recovery"
      THEN IF cursor.turn < Len(published) THEN Begin("recovery", cursor.turn + 1)
                                           ELSE PassesTo("takeover")
      ELSE PassesTo(IF row.state \in Terminal THEN "none" ELSE "top")

Project ==
    /\ driver \in Projecting
    /\ Checkpoint \/ Tell \/ Transition
    /\ Onwards
    /\ UNCHANGED <<published, inHand, ingress, accepted, sends, faults>>

\* An exception in the projection.  After a commit the row is left for
\* recovery; in the replay at the start of drive() it fails the operation.
Throws ==
    /\ driver \in Projecting
    /\ IF Illegal /\ Step = "transition" THEN UNCHANGED faults ELSE Fault
    /\ IF driver = "reconcile" /\ row.state \notin Terminal
         THEN Moves(IF row.state = "cancelling" THEN "cancelled" ELSE "failed")
         ELSE UNCHANGED row
    /\ PassesTo(IF driver = "recovery" THEN "takeover" ELSE "none")
    /\ UNCHANGED <<published, told, inHand, ingress, accepted, sends>>

-----------------------------------------------------------------------------
(* Recovery of an operation nobody drives.                                 *)

\* The sweep replays every envelope first; a busy op lock skips the replay.
StartRecovery ==
    /\ driver = "none" /\ row.state \in {"running", "cancelling", "queued"}
    /\ row.state = "queued" => published # <<>>
    /\ \/ /\ published # <<>> /\ Begin("recovery", 1) /\ UNCHANGED faults
       \/ /\ published = <<>> /\ PassesTo("takeover") /\ UNCHANGED faults
       \/ /\ published # <<>> /\ PassesTo("takeover") /\ Fault
    /\ UNCHANGED <<row, published, told, inHand, ingress, accepted, sends>>

\* recoverStaleOp: a cancel wins, a spent retry policy fails the operation.
TakeOver ==
    /\ driver = "takeover"
    /\ \/ row.state = "cancelling" /\ Moves("cancelled")
       \/ row.state = "running" /\ Moves("queued")
       \/ row.state = "running" /\ faults = MaxFaults /\ Moves("failed")
       \/ row.state \notin {"cancelling", "running"} /\ UNCHANGED row
    /\ PassesTo("none")
    /\ UNCHANGED <<published, told, inHand, ingress, accepted, sends, faults>>

ServerCrash ==
    /\ driver # "none" /\ Fault
    /\ PassesTo("none") /\ inHand' = NoInstr
    /\ UNCHANGED <<row, published, told, ingress, accepted, sends>>

-----------------------------------------------------------------------------
(* The control API.                                                        *)

Unlocked == driver \notin Projecting

\* opRedirectOnce: a key the column remembers is acknowledged and dropped.
OpRedirect(i) ==
    /\ Unlocked /\ row.state \notin Terminal
    /\ sends[i] < MaxSends /\ sends' = [sends EXCEPT ![i] = @ + 1]
    /\ IF Contains(ingress, i) THEN UNCHANGED <<row, ingress, accepted>>
         ELSE /\ row' = [row EXCEPT !.redirect = i]
              /\ ingress' = Append(IF Len(ingress) < KeyWindow THEN ingress
                                                      ELSE Tail(ingress), i)
              /\ accepted' = accepted \cup {i}
    /\ UNCHANGED <<published, told, driver, cursor, inHand, faults>>

OpCancel ==
    /\ Unlocked
    /\ \/ row.state \in {"queued", "paused"} /\ driver = "none" /\ Moves("cancelled")
       \/ row.state = "running" /\ driver # "takeover" /\ Moves("cancelling")
    /\ UNCHANGED <<published, told, driver, cursor, inHand, ingress, accepted,
                   sends, faults>>

\* A pause request or an open approval; one is enough for the bound.
OpPause ==
    /\ Unlocked /\ row.state = "running" /\ ~row.control /\ Fault
    /\ row' = [row EXCEPT !.control = TRUE]
    /\ UNCHANGED <<published, told, driver, cursor, inHand, ingress, accepted,
                   sends>>

OpResume ==
    /\ row.state = "paused" /\ Moves("queued")
    /\ UNCHANGED <<published, told, driver, cursor, inHand, ingress, accepted,
                   sends, faults>>

Drives == Lease \/ StartTurn \/ LeaveAtBoundary \/ (\E e \in TurnEnds : Publish(e))
            \/ Project
TurnNext ==
    \/ Drives \/ LoseTurn \/ Throws \/ ServerCrash
    \/ StartRecovery \/ TakeOver
    \/ (\E i \in Instr : OpRedirect(i)) \/ OpCancel \/ OpPause \/ OpResume

TurnSpec == TurnInit /\ [][TurnNext]_turnVars

\* The scheduler pumps, a worker keeps driving, the janitor keeps sweeping.
TurnFairness ==
    /\ WF_turnVars(Drives) /\ WF_turnVars(LoseTurn /\ row.state = "cancelling")
    /\ WF_turnVars(Throws /\ Illegal)
    /\ WF_turnVars(StartRecovery) /\ WF_turnVars(TakeOver)
TurnFairSpec == TurnSpec /\ TurnFairness

-----------------------------------------------------------------------------
NeededEvidence(i) ==
    {"message_appended", "turn_committed", "ledger"}
      \cup (IF published[i].instr = NoInstr THEN {} ELSE {"redirect_applied"})
FullyTold(i) == i \in Turns /\ \A e \in NeededEvidence(i) : told[i][e] = 1

\* A projection that is cut short and replayed, by a replacement worker or by
\* recovery, never records the same evidence of a turn twice.
EvidenceOnce == \A i \in Turns, e \in Evidence : told[i][e] <= 1

\* An operation is marked succeeded only when the evidence of every turn it
\* published is on disk, wherever the projection was interrupted before.
SucceededIsTold ==
    row.state = "succeeded" => \A i \in Turns : FullyTold(i)

\* A published turn's evidence reaches the disk, unless the operation was
\* failed or cancelled before the projection could be repaired.
EveryTurnTold ==
    \A i \in 1..MaxTurns :
        i \in Turns ~> (FullyTold(i) \/ row.state \in {"failed", "cancelled"})

\* What the published turns carry, and whether the column's instruction is among
\* it: published, but not cleared yet.
Applied == [k \in Turns |-> published[k].instr]
Consumed == \E k \in Turns : published[k].instr = row.redirect

Box == INSTANCE RedirectBox WITH
           Instructions <- Instr, NoInstruction <- NoInstr,
           box <- IF Consumed THEN NoInstr ELSE row.redirect,
           hand <- inHand, applied <- Applied, received <- accepted

\* The column implements the box: a crash between the publication of a turn
\* and the write that clears the column neither loses nor repeats a redirect.
ImplementsRedirectBox == Box!BoxSpec

\* A turn that ended the operation is followed by its state_changed event:
\* recovery skips terminal operations because "a terminal state proves finalize
\* completed, so those projections need no crash repair".
TerminalIsAnnounced ==
    \A i \in 1..MaxTurns :
        (i \in Turns /\ published[i].end = "done" /\ row.state = "succeeded")
            ~> told[i]["state_changed"] = 1
=============================================================================
