----------------------------- MODULE RedirectBox -----------------------------
(***************************************************************************)
(* What the redirect column of an operation promises the user who steers   *)
(* it: a box that holds the newest instruction, a turn that may take it in *)
(* hand, and the instructions that published turns have applied.           *)
(* TurnCommit is shown to implement this: the instruction is applied and   *)
(* leaves the box in the one step that publishes the turn.  Most turns are *)
(* given none; those apply NoInstruction.                                  *)
(***************************************************************************)
EXTENDS Sequences

CONSTANTS Instructions, NoInstruction

VARIABLES box,        \* the instruction waiting for a turn
          hand,       \* the instruction the turn in flight was given
          applied,    \* what each published turn applied, in order
          received    \* every instruction ever accepted

boxVars == <<box, hand, applied, received>>

BoxInit == /\ box = NoInstruction /\ hand = NoInstruction
           /\ applied = <<>> /\ received = {}

\* A newer instruction replaces an older one that no turn has applied.
Receive(i) ==
    /\ i \notin received
    /\ box' = i /\ received' = received \cup {i}
    /\ UNCHANGED <<hand, applied>>

Take ==
    /\ hand = NoInstruction /\ hand' = box
    /\ UNCHANGED <<box, applied, received>>

Apply ==
    /\ applied' = Append(applied, hand)
    /\ box' = IF box = hand THEN NoInstruction ELSE box
    /\ hand' = NoInstruction
    /\ UNCHANGED received

\* A turn that ends unpublished leaves the box as it is.
PutBack == hand' = NoInstruction /\ UNCHANGED <<box, applied, received>>

BoxNext == (\E i \in Instructions : Receive(i)) \/ Take \/ Apply \/ PutBack

BoxSpec == BoxInit /\ [][BoxNext]_boxVars

\* An instruction is applied by one published turn at most.
AppliedOnce ==
    \A i, j \in DOMAIN applied :
        applied[i] = applied[j] /\ applied[i] # NoInstruction => i = j
=============================================================================
