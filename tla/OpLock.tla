------------------------------- MODULE OpLock -------------------------------
(***************************************************************************)
(* The lock that serialises read-modify-write sequences on one operation's *)
(* operation.json across processes (src/src/ops/op-store.ts): an exclusive *)
(* directory that holds its owner's token file.  Every file-system call is *)
(* a step of its own, so the calls of two processes interleave freely, and *)
(* a process may crash between any two of them.                            *)
(*                                                                         *)
(* tryWithOpLock and withOpLock differ in one place: when the wait for the *)
(* lock is over, the first skips its body and the second runs it unlocked. *)
(* The body reads the row, then writes it back with one update of its own. *)
(***************************************************************************)
EXTENDS Naturals, FiniteSets

CONSTANTS Procs,      \* processes that share one data directory
          MaxCalls,   \* bound: MaxCalls[p] calls of the lock by process p
          MaxCrashes  \* bound: processes that crash in one behaviour

ASSUME LockConstants == MaxCalls \in [Procs -> Nat]

VARIABLES
    lockThere,   \* the lock directory exists
    entries,     \* the token files in it
    filled,      \* those whose content has been written
    lockAge,     \* 0: within the empty-lock grace, 1: past it, 2: stale
    lockPc,      \* lockPc[p]: where p is in its call
    calls,       \* calls[p]: calls made so far; each has a token of its own
    buried,      \* buried[p]: the calls made by p's crashed predecessors
    expired,     \* the processes whose wait for the lock is over
    seenAge,     \* seenAge[p]: the age p read before it looked inside
    seen,        \* seen[p]: the tokens p observed in a stale directory
    unread,      \* unread[p]: those p has not judged yet
    opRow,       \* the updates operation.json carries
    rowCopy,     \* rowCopy[p]: the row as p's body read it
    misjudged         \* history: a live caller's token was judged reclaimable

lockVars == <<lockThere, entries, filled, lockAge>>
reclaimVars == <<seenAge, seen, unread>>
rowVars == <<opRow, rowCopy>>
vars == <<lockThere, entries, filled, lockAge, lockPc, calls, buried, expired,
          seenAge, seen, unread, opRow, rowCopy, misjudged>>

Tokens == UNION {{p} \X (1..MaxCalls[p]) : p \in Procs}
Updates == [token : Tokens, locked : BOOLEAN]

\* A process holds one token at a time; a call of a crashed process is dead.
Token(p) == <<p, calls[p]>>
Alive(t) == t[2] > buried[t[1]]

Holding == {"read", "write"}
OpenBody == {"openRead", "openWrite"}
LockPcs == {"idle", "mkdir", "open", "fill", "sole", "undo", "undoDir",
            "release", "releaseDir", "stat", "list", "judge", "erase",
            "rmdir", "denied"} \cup Holding \cup OpenBody

Init ==
    /\ lockThere = FALSE /\ entries = {} /\ filled = {} /\ lockAge = 0
    /\ lockPc = [p \in Procs |-> "idle"]
    /\ calls = [p \in Procs |-> 0] /\ buried = [p \in Procs |-> 0]
    /\ expired = {}
    /\ seenAge = [p \in Procs |-> 0]
    /\ seen = [p \in Procs |-> {}] /\ unread = [p \in Procs |-> {}]
    /\ opRow = {} /\ rowCopy = [p \in Procs |-> {}]
    /\ misjudged = FALSE

Goto(p, pc) == lockPc' = [lockPc EXCEPT ![p] = pc]
At(p, pc) == lockPc[p] = pc

-----------------------------------------------------------------------------
(* Claiming: mkdir, the token file (created, then written), the check.     *)

Call(p) ==
    /\ At(p, "idle") /\ calls[p] < MaxCalls[p]
    /\ calls' = [calls EXCEPT ![p] = @ + 1]
    /\ Goto(p, "mkdir")
    /\ UNCHANGED <<lockVars, buried, expired, reclaimVars, rowVars, misjudged>>

MakeDir(p) ==
    /\ At(p, "mkdir")
    /\ IF lockThere
         THEN Goto(p, "stat") /\ UNCHANGED lockVars
         ELSE /\ lockThere' = TRUE /\ lockAge' = 0
              /\ Goto(p, "open")
              /\ UNCHANGED <<entries, filled>>
    /\ UNCHANGED <<calls, buried, expired, reclaimVars, rowVars, misjudged>>

\* ENOENT, the directory was reclaimed meanwhile: again, unless time is up.
CreateToken(p) ==
    /\ At(p, "open")
    /\ IF lockThere
         THEN /\ entries' = entries \cup {Token(p)} /\ lockAge' = 0
              /\ Goto(p, "fill")
         ELSE /\ Goto(p, IF p \in expired THEN "undo" ELSE "mkdir")
              /\ UNCHANGED <<entries, lockAge>>
    /\ UNCHANGED <<lockThere, filled, calls, buried, expired, reclaimVars,
                   rowVars, misjudged>>

\* Mutant: writing the content brings a removed token file back half.
FillToken_Orphan(p) ==
    /\ At(p, "fill")
    /\ filled' = filled \cup {Token(p)}
    /\ Goto(p, "sole")
    /\ UNCHANGED <<lockThere, entries, lockAge, calls, buried, expired,
                   reclaimVars, rowVars, misjudged>>

FillToken(p) ==
    /\ At(p, "fill")
    /\ filled' = filled \cup ({Token(p)} \cap entries)
    /\ Goto(p, "sole")
    /\ UNCHANGED <<lockThere, entries, lockAge, calls, buried, expired,
                   reclaimVars, rowVars, misjudged>>

\* Mutant: a claim whose own token is in the directory is taken for the lock.
SoleClaim_Shared(p) == Token(p) \in entries

\* The lock is held only by a token that is alone in the directory.
SoleClaim(p) == entries = {Token(p)}

CheckClaim(p) ==
    /\ At(p, "sole")
    /\ Goto(p, IF SoleClaim(p) THEN "read" ELSE "undo")
    /\ expired' = IF SoleClaim(p) THEN expired \ {p} ELSE expired
    /\ UNCHANGED <<lockVars, calls, buried, reclaimVars, rowVars, misjudged>>

-----------------------------------------------------------------------------
(* cleanupOwnedLock: remove the token, then the directory if it is empty.  *)
(* The removal of the directory may be refused (a scanner has it open).    *)

RemoveToken(p) ==
    /\ lockPc[p] \in {"undo", "release"}
    /\ entries' = entries \ {Token(p)}
    /\ filled' = filled \ {Token(p)}
    /\ lockAge' = IF Token(p) \in entries THEN 0 ELSE lockAge
    /\ Goto(p, IF At(p, "undo") THEN "undoDir" ELSE "releaseDir")
    /\ UNCHANGED <<lockThere, calls, buried, expired, reclaimVars, rowVars, misjudged>>

\* Mutant: the directory is removed with whatever is in it.
RemovedOrRefused_Recursive ==
    /\ lockThere' = FALSE /\ lockAge' = 0 /\ entries' = {} /\ filled' = {}

\* rmdir removes nothing but an empty directory.
RemovedOrRefused ==
    /\ lockThere' \in (IF lockThere /\ entries = {} THEN BOOLEAN ELSE {lockThere})
    /\ lockAge' = IF lockThere' THEN lockAge ELSE 0
    /\ UNCHANGED <<entries, filled>>

\* Mutant: the wait has no deadline.
AfterLost_Again(p) == "mkdir"

\* After a lost claim the wait goes on until the deadline.
AfterLost(p) == IF p \in expired THEN "denied" ELSE "mkdir"

RemoveDir(p) ==
    /\ lockPc[p] \in {"undoDir", "releaseDir"}
    /\ RemovedOrRefused
    /\ Goto(p, IF At(p, "undoDir") THEN AfterLost(p) ELSE "idle")
    /\ UNCHANGED <<calls, buried, expired, reclaimVars, rowVars, misjudged>>

-----------------------------------------------------------------------------
(* reclaimStaleLock: the age is read first, then the entries, then each    *)
(* entry's owner; what was judged dead is removed, then the directory.     *)

StatLock(p) ==
    /\ At(p, "stat")
    /\ seenAge' = [seenAge EXCEPT ![p] = lockAge]
    /\ Goto(p, IF lockThere THEN "list" ELSE "mkdir")
    /\ UNCHANGED <<lockVars, calls, buried, expired, seen, unread, rowVars, misjudged>>

\* An empty directory is judged by the grace, a claimed one by staleness.
OldEnough(p) == seenAge[p] > (IF entries = {} THEN 0 ELSE 1)

ListEntries(p) ==
    /\ At(p, "list")
    /\ seen' = [seen EXCEPT ![p] = IF lockThere /\ OldEnough(p) THEN entries ELSE {}]
    /\ unread' = [unread EXCEPT ![p] = seen'[p]]
    /\ seenAge' = [seenAge EXCEPT ![p] = 0]
    /\ Goto(p, CASE ~lockThere -> "mkdir"
                 [] lockThere /\ OldEnough(p) -> "judge"
                 [] OTHER -> AfterLost(p))
    /\ UNCHANGED <<lockVars, calls, buried, expired, rowVars, misjudged>>

\* A token whose file is gone or still empty does not parse: reclaimable.
NamesLiveOwner(t) == t \in filled /\ Alive(t)

StopJudging(p) == /\ seen' = [seen EXCEPT ![p] = {}]
                  /\ unread' = [unread EXCEPT ![p] = {}]

JudgeEntry(p) ==
    /\ At(p, "judge")
    /\ \/ \E t \in unread[p] :
            /\ IF NamesLiveOwner(t) THEN StopJudging(p)
                 ELSE UNCHANGED seen /\ unread' = [unread EXCEPT ![p] = @ \ {t}]
            /\ misjudged' = (misjudged \/ (Alive(t) /\ ~NamesLiveOwner(t)))
            /\ Goto(p, IF NamesLiveOwner(t) THEN AfterLost(p) ELSE "judge")
       \/ /\ unread[p] = {} /\ Goto(p, "erase")
          /\ UNCHANGED <<unread, seen, misjudged>>
    /\ UNCHANGED <<lockVars, calls, buried, expired, seenAge, rowVars>>

EraseEntry(p) ==
    /\ At(p, "erase")
    /\ \/ \E t \in seen[p] :
            /\ seen' = [seen EXCEPT ![p] = @ \ {t}]
            /\ entries' = entries \ {t} /\ filled' = filled \ {t}
            /\ lockAge' = IF t \in entries THEN 0 ELSE lockAge
            /\ UNCHANGED lockPc
       \/ /\ seen[p] = {} /\ Goto(p, "rmdir")
          /\ UNCHANGED <<entries, filled, lockAge, seen>>
    /\ UNCHANGED <<lockThere, calls, buried, expired, seenAge, unread, rowVars, misjudged>>

ReclaimDir(p) ==
    /\ At(p, "rmdir")
    /\ RemovedOrRefused
    /\ Goto(p, IF lockThere /\ ~lockThere' THEN "mkdir" ELSE AfterLost(p))
    /\ UNCHANGED <<calls, buried, expired, reclaimVars, rowVars, misjudged>>

-----------------------------------------------------------------------------
(* The bodies, the deadline, time and crashes.                             *)

Land(p, locked) ==
    /\ rowCopy' = [rowCopy EXCEPT ![p] = {}]
    /\ opRow' = rowCopy[p] \cup {[token |-> Token(p), locked |-> locked]}

Body(p) ==
    \/ /\ At(p, "read") /\ Goto(p, "write")
       /\ rowCopy' = [rowCopy EXCEPT ![p] = opRow] /\ UNCHANGED opRow
    \/ /\ At(p, "write") /\ Goto(p, "release")
       /\ Land(p, TRUE)

LockedBody(p) ==
    /\ Body(p)
    /\ UNCHANGED <<lockVars, calls, buried, expired, reclaimVars, misjudged>>

\* tryWithOpLock reports the failure; withOpLock proceeds unlocked.
Denied(p) ==
    /\ At(p, "denied")
    /\ \/ Goto(p, "idle")
       \/ Goto(p, "openRead")
    /\ expired' = expired \ {p}
    /\ UNCHANGED <<lockVars, calls, buried, reclaimVars, rowVars, misjudged>>

OpenBodyStep(p) ==
    /\ \/ /\ At(p, "openRead") /\ Goto(p, "openWrite")
          /\ rowCopy' = [rowCopy EXCEPT ![p] = opRow] /\ UNCHANGED opRow
       \/ /\ At(p, "openWrite") /\ Goto(p, "idle")
          /\ Land(p, FALSE)
    /\ UNCHANGED <<lockVars, calls, buried, expired, reclaimVars, misjudged>>

\* LOCK_WAIT_MS is over for p; whether it matters is up to where p is.
Expire(p) ==
    /\ lockPc[p] \notin {"idle", "denied", "release", "releaseDir"}
                          \cup Holding \cup OpenBody
    /\ p \notin expired
    /\ expired' = expired \cup {p}
    /\ UNCHANGED <<lockVars, lockPc, calls, buried, reclaimVars, rowVars, misjudged>>

Crash(p) ==
    /\ ~At(p, "idle")
    /\ Cardinality({q \in Procs : buried[q] > 0}) < MaxCrashes
    /\ buried' = [buried EXCEPT ![p] = calls[p]]
    /\ Goto(p, "idle")
    /\ expired' = expired \ {p}
    /\ seenAge' = [seenAge EXCEPT ![p] = 0]
    /\ StopJudging(p)
    /\ rowCopy' = [rowCopy EXCEPT ![p] = {}]
    /\ UNCHANGED <<lockVars, calls, opRow, misjudged>>

\* Time passes while somebody waits on the lock: nobody else looks at its age.
Tick ==
    /\ lockThere /\ lockAge < 2
    /\ \E p \in Procs : At(p, "stat")
    /\ lockAge' = lockAge + 1
    /\ UNCHANGED <<lockThere, entries, filled, lockPc, calls, buried, expired,
                   reclaimVars, rowVars, misjudged>>

Claim(p) == MakeDir(p) \/ CreateToken(p) \/ FillToken(p) \/ CheckClaim(p)
Cleanup(p) == RemoveToken(p) \/ RemoveDir(p)
Reclaim(p) == StatLock(p) \/ ListEntries(p) \/ JudgeEntry(p)
                \/ EraseEntry(p) \/ ReclaimDir(p)
Run(p) == Claim(p) \/ Cleanup(p) \/ Reclaim(p) \/ LockedBody(p)
            \/ Denied(p) \/ OpenBodyStep(p)

Next == Tick \/ \E p \in Procs : Call(p) \/ Run(p) \/ Expire(p) \/ Crash(p)

Spec == Init /\ [][Next]_vars

\* A call is synchronous code and its clock runs: neither stops for ever.
Fairness == \A p \in Procs : WF_vars(Run(p)) /\ WF_vars(Expire(p))
FairSpec == Spec /\ Fairness

-----------------------------------------------------------------------------
TypeOK ==
    /\ lockThere \in BOOLEAN /\ misjudged \in BOOLEAN
    /\ entries \in SUBSET Tokens /\ filled \in SUBSET entries
    /\ lockAge \in 0..2
    /\ lockPc \in [Procs -> LockPcs]
    /\ calls \in [Procs -> Nat]
    /\ buried \in [Procs -> Nat]
    /\ expired \in SUBSET Procs
    /\ seenAge \in [Procs -> 0..2]
    /\ seen \in [Procs -> SUBSET Tokens] /\ unread \in [Procs -> SUBSET Tokens]
    /\ opRow \in SUBSET Updates /\ rowCopy \in [Procs -> SUBSET Updates]

Owners == {p \in Procs : lockPc[p] \in Holding \cup {"release"}}

\* Two bodies run under the lock at once only after a reclaimer judged a live
\* caller's token reclaimable, because it read the file before its content was
\* written or after it was withdrawn (a lost claim withdraws its token and then
\* creates it again): tryWithOpLock and reclaimStaleLock.
HoldersExclude == misjudged \/ \A p, q \in Owners : p = q

\* An update made under the lock leaves the row only in a write that also adds
\* or loses one of a body that withOpLock ran without it: as long as every body
\* that writes holds the lock, none loses what another has written.
LockedUpdatesKept ==
    [][\A u \in opRow :
         (u.locked /\ ~misjudged /\ u \notin opRow') =>
             \E v \in (opRow \ opRow') \cup (opRow' \ opRow) : ~v.locked]_vars

\* Every call of tryWithOpLock and withOpLock returns, whatever the other
\* processes do with the directory and wherever they crash.
EveryCallReturns == \A p \in Procs : lockPc[p] # "idle" ~> lockPc[p] = "idle"
=============================================================================
