------------------------------- MODULE EventLog -------------------------------
(***************************************************************************)
(* The event log of one operation (store.ts, event-emitter.ts), shared by  *)
(* the processes of one data directory, and the subscriptions that replay  *)
(* it and then follow the bus of their own process (control-api.ts).       *)
(*                                                                         *)
(* An emit is two steps, because another process may move in between: the  *)
(* look at the file under the op lock, and the append with the synchronous *)
(* publication.  The file is its frames and whether a torn tail follows    *)
(* them; the byte size the cache is keyed to is that pair.                 *)
(***************************************************************************)
EXTENDS Naturals, Sequences, FiniteSets

CONSTANTS Writers,    \* server processes
          Clients,    \* subscriptions, each of one socket and operation
          MaxEvents,  \* bound: frames in the log
          MaxMishaps  \* bound: failed appends and crashes

\* A client's home tells whether it is attached.
ASSUME NoneIsNoWriter == "none" \notin Writers

ASSUME LogConstants == MaxEvents \in Nat /\ MaxMishaps \in Nat

VARIABLES log,      \* the frames: their number, and who could not hear them
          torn,     \* the bytes of an unfinished frame follow
          seqCache, \* seqCache[p]: next number, and the size it holds for
          writing,  \* writing[p]: "idle", or how p will append
          client,   \* client[c]: its process, what it has seen and received
          burnt,    \* history: numbers published for frames that never landed
          mishaps

logVars == <<log, torn, seqCache, writing, client, burnt, mishaps>>

Seqs == 0..MaxEvents
NoCache == [next |-> 0, size |-> <<0, TRUE>>]
Nowhere == [home |-> "none", seen |-> {}, since |-> 0, received |-> <<>>]

Size == <<Len(log), torn>>
Numbers == {log[i].seq : i \in DOMAIN log}
Sequenced == \A i \in DOMAIN log : log[i].seq = i - 1
LogLockFree == \A p \in Writers : writing[p] = "idle"
\* Mutant: a process trusts its cache although another one appends too.
CacheHolds_Once(p) == seqCache[p] # NoCache

CacheHolds(p) == seqCache[p].size = Size
Listening(c, p) == client[c].home = p

LogInit ==
    /\ log = <<>> /\ torn = FALSE
    /\ seqCache = [p \in Writers |-> NoCache]
    /\ writing = [p \in Writers |-> "idle"]
    /\ client = [c \in Clients |-> Nowhere]
    /\ burnt = {} /\ mishaps = 0

LogTypeOK ==
    /\ log \in Seq([seq : Seqs, unheard : SUBSET Clients]) /\ Len(log) <= MaxEvents
    /\ torn \in BOOLEAN
    /\ seqCache \in [Writers -> [next : Seqs, size : Seqs \X BOOLEAN]]
    /\ writing \in [Writers -> {"idle", "cached", "reseed"}]
    /\ \A c \in Clients :
          /\ client[c].home \in Writers \cup {"none"}
          /\ client[c].seen \subseteq Seqs /\ client[c].since \in 0..(MaxEvents + 1)
          /\ client[c].received \in Seq(Seqs)
    /\ burnt \subseteq Seqs /\ mishaps \in 0..MaxMishaps

-----------------------------------------------------------------------------
(* appendCanonicalEventWithMode, then projectCanonicalEvent.               *)

\* The cache is trusted while the file has the size it was left at.
Look(p) ==
    /\ LogLockFree /\ Len(log) < MaxEvents
    /\ writing' = [writing EXCEPT ![p] = IF CacheHolds(p) THEN "cached" ELSE "reseed"]
    /\ UNCHANGED <<log, torn, seqCache, client, burnt, mishaps>>

\* The number: the cached one, or one past the last frame of a valid log.
NextNumber(p) == IF writing[p] = "cached" THEN seqCache[p].next ELSE Len(log)

\* The bus of p: whoever has not seen the number takes it.
Published(p, n, lands) ==
    [c \in Clients |->
       IF Listening(c, p) /\ n \notin client[c].seen
         THEN [client[c] EXCEPT !.seen = @ \cup {n},
                 !.received = IF lands THEN Append(@, n) ELSE @]
         ELSE client[c]]

\* A reseed repairs the tail first; a cached append goes to the end as it is.
AppendFrame(p) ==
    /\ writing[p] = "cached" \/ (writing[p] = "reseed" /\ Sequenced)
    /\ LET n == NextNumber(p)
       IN  /\ log' = Append(log, [seq |-> n, unheard |->
                        {c \in Clients : client[c].home \in Writers \ {p}}])
           /\ torn' = FALSE
           /\ seqCache' = [seqCache EXCEPT ![p] =
                             [next |-> n + 1, size |-> <<Len(log) + 1, FALSE>>]]
           /\ client' = Published(p, n, TRUE)
    /\ writing' = [writing EXCEPT ![p] = "idle"]
    /\ UNCHANGED <<burnt, mishaps>>

\* A write that fails, before or after its first bytes.  emitStrict throws;
\* emit publishes all the same, with the number it had so far.
AppendFails(p) ==
    /\ writing[p] # "idle"
    /\ mishaps < MaxMishaps /\ mishaps' = mishaps + 1
    /\ torn' \in BOOLEAN
    /\ writing' = [writing EXCEPT ![p] = "idle"]
    /\ \/ UNCHANGED <<client, burnt>>
       \/ \E n \in {NextNumber(p)} \cup (IF writing[p] = "cached" THEN {} ELSE {0}) :
             client' = Published(p, n, FALSE) /\ burnt' = burnt \cup {n}
    /\ UNCHANGED <<log, seqCache>>

\* The frame is there but fsync fails: emitStrict throws and tells nobody, emit
\* tells; the cache keeps a size that no longer matches.
SyncFails(p) ==
    /\ writing[p] = "cached" \/ (writing[p] = "reseed" /\ Sequenced)
    /\ mishaps < MaxMishaps /\ mishaps' = mishaps + 1
    /\ torn' = FALSE
    /\ writing' = [writing EXCEPT ![p] = "idle"]
    /\ \E heard \in BOOLEAN :
          /\ log' = Append(log, [seq |-> NextNumber(p), unheard |->
                {c \in Clients : client[c].home \in
                                    (IF heard THEN Writers \ {p} ELSE Writers)}])
          /\ client' = IF heard THEN Published(p, NextNumber(p), TRUE) ELSE client
    /\ UNCHANGED <<seqCache, burnt>>

\* The process dies, perhaps with a frame half written; its sockets close.
WriterDies(p) ==
    /\ mishaps < MaxMishaps /\ mishaps' = mishaps + 1
    /\ torn' \in IF writing[p] = "idle" THEN {torn} ELSE BOOLEAN
    /\ seqCache' = [seqCache EXCEPT ![p] = NoCache]
    /\ writing' = [writing EXCEPT ![p] = "idle"]
    /\ client' = [c \in Clients |->
                    IF Listening(c, p) THEN [client[c] EXCEPT !.home = "none"]
                    ELSE client[c]]
    /\ UNCHANGED <<log, burnt>>

-----------------------------------------------------------------------------
(* reconnectOp: subscribe, replay what is past `since`, follow the bus.    *)

\* One past the largest number the client was given; 0 is FROM_BEGINNING.
LastSeen(c) == LET given == {client[c].since} \cup {n + 1 : n \in client[c].seen}
               IN  CHOOSE n \in given : \A k \in given : k <= n

\* Mutant: `since` is taken for the last number seen, not the next one wanted.
Since_After(n) == SelectSeq([i \in DOMAIN log |-> log[i].seq], LAMBDA s : s > n)

\* readCanonicalEventsSince: the numbers from n on, frame by frame.
Since(n) ==
    LET Kept[i \in 0..Len(log)] ==
          IF i = 0 THEN <<>>
          ELSE Kept[i - 1] \o (IF log[i].seq >= n THEN <<log[i].seq>> ELSE <<>>)
    IN  Kept[Len(log)]

\* The reader repairs the tail.  A client that starts over forgets what it had.
Reconnect(c, p) ==
    /\ writing[p] = "idle"
    /\ \E n \in {0, LastSeen(c)} :
          client' = [client EXCEPT ![c] =
             [home |-> p, since |-> n, seen |-> {s \in Numbers : s >= n},
              received |-> (IF n = 0 THEN <<>> ELSE client[c].received) \o Since(n)]]
    /\ torn' = FALSE
    /\ UNCHANGED <<log, seqCache, writing, burnt, mishaps>>

Detach(c) ==
    /\ client[c].home # "none"
    /\ client' = [client EXCEPT ![c].home = "none"]
    /\ UNCHANGED <<log, torn, seqCache, writing, burnt, mishaps>>

LogNext ==
    \/ \E p \in Writers : Look(p) \/ AppendFrame(p) \/ AppendFails(p)
                         \/ SyncFails(p) \/ WriterDies(p)
    \/ \E c \in Clients : Detach(c) \/ \E p \in Writers : Reconnect(c, p)

LogSpec == LogInit /\ [][LogNext]_logVars

-----------------------------------------------------------------------------
\* The n-th frame has number n, whatever caches, torn tails, failed appends and
\* restarts came before it: no number is handed out twice and none is skipped.
LogSequenced == Sequenced

\* What a client has received is in order and without doubles, over reconnects,
\* and an attached client lacks nothing but the frames another process appended
\* while it listened here, those whose emit failed after the write, and those
\* whose number a failed append had used up.
ReceivedInOrder ==
    \A c \in Clients :
        LET r == client[c].received
            Lacks == {i \in DOMAIN log : log[i].seq \notin {r[k] : k \in DOMAIN r}}
        IN  /\ \A i, k \in DOMAIN r : i < k => r[i] < r[k]
            /\ client[c].home # "none" =>
                  \A i \in Lacks : c \in log[i].unheard \/ log[i].seq \in burnt
=============================================================================
