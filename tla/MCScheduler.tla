---------------------------- MODULE MCScheduler ----------------------------
(* An instance of Scheduler for TLC: two operations share a lane of one     *)
(* slot, and one of them needs the resource a third one in another lane     *)
(* needs, and a second resource besides.                                    *)
EXTENDS Scheduler

CONSTANTS a, b, c, L1, L2, gpu, disk, k1, k2, k3, k4

MCLaneOf == [o \in Op |-> IF o = b THEN L2 ELSE L1]
MCLocksOf ==
    [o \in Op |-> IF o = a THEN {gpu, disk} ELSE IF o = b THEN {gpu} ELSE {}]
MCLaneCap == [l \in Lane |-> IF l = L1 THEN 1 ELSE 2]
=============================================================================
