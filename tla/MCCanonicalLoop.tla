-------------------------- MODULE MCCanonicalLoop --------------------------
(* Instances of CanonicalLoop for TLC. *)
EXTENDS CanonicalLoop

CONSTANTS p1, p2, w1, w2

\* One server process with room for a worker and its replacement.
OneProc == {p1}
OneHome == [w \in {w1, w2} |-> p1]

\* Two server processes on one operations directory, a worker each.
TwoProc == {p1, p2}
TwoHome == [w \in {w1, w2} |-> IF w = w1 THEN p1 ELSE p2]

\* The two processes are alike: exchange them together with their workers.
Exchange ==
    {[x \in {p1, p2, w1, w2} |->
        CASE x = p1 -> p2 [] x = p2 -> p1 [] x = w1 -> w2 [] x = w2 -> w1]}

\* What is left of a state without the values nobody reads again: of its copy of
\* the row an actor uses the state and the attempts (all of it when it writes it
\* back whole), and a worker the result of a turn up to its boundary.
Carried(a) ==
    CASE pc[a] = "clear" -> mem[a]
      [] pc[a] \in {"idle", "exit", "settle", "acquire", "refresh"} -> Blank
      [] OTHER -> [Blank EXCEPT !.state = mem[a].state,
                                !.attempts = mem[a].attempts]
Driven(w) ==
    IF pc[w] \in {"commit", "project", "after"} \/ run[w].result = "boundary"
    THEN run[w]
    ELSE [run[w] EXCEPT !.result = "none"]
Alive == <<op, live, turns, opLock, [a \in Actor |-> Carried(a)], pc, cpu,
           [w \in Worker |-> Driven(w)], sched, budget>>
=============================================================================
