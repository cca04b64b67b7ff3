---------------------------- MODULE OpLifecycle ----------------------------
(***************************************************************************)
(* What an operation promises its users, whoever drives it: the states it  *)
(* moves through and what a cancel request does to them.  CanonicalLoop    *)
(* implements this module.                                                 *)
(***************************************************************************)

VARIABLES state,   \* the canonical state
          cancel   \* a cancel was requested and has not been carried out

vars == <<state, cancel>>

Terminal == {"cancelled", "succeeded", "failed"}

Init == state = "queued" /\ cancel = FALSE

Move(from, to) == state = from /\ state' = to /\ UNCHANGED cancel

Start == Move("queued", "running")
Requeue == Move("running", "queued") \/ Move("paused", "queued")

\* A pause never overtakes a cancel, and neither does success.
Park == ~cancel /\ Move("running", "paused")
Succeed == ~cancel /\ Move("running", "succeeded")
Fail == Move("running", "failed") \/ Move("queued", "failed")

\* Asking for a cancel; it stays asked for until the operation is terminal.
Request ==
    /\ state \notin Terminal \cup {"cancelling"}
    /\ ~cancel
    /\ cancel' = TRUE
    /\ UNCHANGED state

\* A worker aborts its adapter first.
Abort == cancel /\ Move("running", "cancelling")

\* Nothing is in flight: cancelled at once, or once the abort is over.
Cancelled ==
    /\ cancel
    /\ state \in {"queued", "paused", "cancelling"}
    /\ state' = "cancelled"
    /\ cancel' = FALSE

Next == Start \/ Requeue \/ Park \/ Succeed \/ Fail \/ Request \/ Abort \/ Cancelled

Spec == Init /\ [][Next]_vars
=============================================================================
