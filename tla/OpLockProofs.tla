---------------------------- MODULE OpLockProofs ----------------------------
(***************************************************************************)
(* The op lock excludes, for any number of processes, calls and crashes,   *)
(* as long as no reclaimer takes a live caller's token for a dead one.     *)
(* The protocol has no atomic test-and-set across the directory and the    *)
(* token in it: a holder's only claim is its token file, which any other   *)
(* process may remove.  The invariant says why none does: what a reclaimer *)
(* has judged stays dead, so it erases only the tokens of dead callers.    *)
(* On the exclusion rests what the lock is for: no body under it loses what *)
(* another body under it has written.                                      *)
(***************************************************************************)
EXTENDS OpLock, TLAPS

\* Between the creation of its token and the removal of it.
Claimant(p) == lockPc[p] \in {"fill", "sole", "release"} \cup Holding

LockTyped == /\ lockPc \in [Procs -> LockPcs]
             /\ calls \in [Procs -> Nat] /\ buried \in [Procs -> Nat]
             /\ seen \in [Procs -> SUBSET (Procs \X Nat)]
             /\ unread \in [Procs -> SUBSET (Procs \X Nat)]
             /\ entries \subseteq Procs \X Nat

\* A call in progress is younger than any crash of its process.
RunningIsAlive == \A p \in Procs : /\ buried[p] <= calls[p]
                                   /\ lockPc[p] # "idle" => Alive(Token(p))

\* What a reclaimer has looked at and kept is the token of a dead caller.
JudgedAreDead ==
    \A p \in Procs : \A t \in seen[p] : t \in unread[p] \/ ~Alive(t)

\* Nothing is erased before everything observed has been judged.
EraseAfterJudging == \A p \in Procs : lockPc[p] = "erase" => unread[p] = {}

\* Nobody takes a claimant's token away.
ClaimStands == \A p \in Procs : Claimant(p) => Token(p) \in entries

LockInv == /\ LockTyped /\ RunningIsAlive /\ EraseAfterJudging
           /\ ~misjudged => JudgedAreDead /\ ClaimStands
           /\ HoldersExclude

-----------------------------------------------------------------------------
LEMMA LockInvInit == ASSUME Init PROVE LockInv
BY DEF Init, LockInv, LockTyped, RunningIsAlive, EraseAfterJudging,
       JudgedAreDead, ClaimStands, HoldersExclude, Owners, Claimant, Holding, LockPcs, OpenBody

\* Two processes never share a token.
LEMMA TokensDiffer == ASSUME NEW p, NEW q, p # q PROVE Token(p) # Token(q)
BY DEF Token

-----------------------------------------------------------------------------
LEMMA LockTypedStep == ASSUME LockTyped, Next PROVE LockTyped'
<1> USE DEF LockTyped, LockPcs, Holding, OpenBody, Goto, At
<1>1. ASSUME NEW p \in Procs, Call(p) \/ MakeDir(p) \/ CreateToken(p)
      PROVE  LockTyped'
  BY <1>1 DEF Call, MakeDir, CreateToken, Token, lockVars, reclaimVars
<1>2. ASSUME NEW p \in Procs, FillToken(p) \/ CheckClaim(p) \/ RemoveToken(p)
      PROVE  LockTyped'
  BY <1>2 DEF FillToken, CheckClaim, RemoveToken, lockVars, reclaimVars
<1>3. ASSUME NEW p \in Procs, RemoveDir(p) \/ ReclaimDir(p) PROVE LockTyped'
  BY <1>3 DEF RemoveDir, ReclaimDir, RemovedOrRefused, AfterLost, reclaimVars
<1>4. ASSUME NEW p \in Procs, StatLock(p) \/ EraseEntry(p) PROVE LockTyped'
  BY <1>4 DEF StatLock, EraseEntry, lockVars
<1>5. ASSUME NEW p \in Procs, ListEntries(p) PROVE LockTyped'
  BY <1>5 DEF ListEntries, AfterLost, lockVars
<1>6. ASSUME NEW p \in Procs, JudgeEntry(p) PROVE LockTyped'
  BY <1>6 DEF JudgeEntry, StopJudging, AfterLost, lockVars
<1>7. ASSUME NEW p \in Procs, LockedBody(p) \/ OpenBodyStep(p) PROVE LockTyped'
  BY <1>7 DEF LockedBody, Body, OpenBodyStep, lockVars, reclaimVars
<1>8. ASSUME NEW p \in Procs, Denied(p) \/ Expire(p) PROVE LockTyped'
  BY <1>8 DEF Denied, Expire, lockVars, reclaimVars
<1>9. ASSUME NEW p \in Procs, Crash(p) PROVE LockTyped'
  BY <1>9 DEF Crash, StopJudging, lockVars
<1>10. CASE Tick  BY <1>10 DEF Tick, reclaimVars
<1> QED BY <1>1, <1>2, <1>3, <1>4, <1>5, <1>6, <1>7, <1>8, <1>9, <1>10
        DEF Next, Run, Claim, Cleanup, Reclaim

LEMMA RunningIsAliveStep ==
    ASSUME LockTyped, RunningIsAlive, Next PROVE RunningIsAlive'
<1> USE DEF RunningIsAlive, LockTyped, Goto, At, Token, Alive
<1>1. ASSUME NEW p \in Procs, Call(p) PROVE RunningIsAlive'
  BY <1>1 DEF Call
<1>2. ASSUME NEW p \in Procs, Crash(p) PROVE RunningIsAlive'
  BY <1>2 DEF Crash
<1>3. ASSUME NEW p \in Procs, lockPc[p] # "idle", UNCHANGED <<calls, buried>>,
             \A q \in Procs \ {p} : lockPc'[q] = lockPc[q]
      PROVE  RunningIsAlive'
  BY <1>3
<1>4. ASSUME NEW p \in Procs, Claim(p) \/ Cleanup(p) \/ Reclaim(p)
      PROVE  RunningIsAlive'
  BY <1>3, <1>4
  DEF Claim, Cleanup, Reclaim, MakeDir, CreateToken, FillToken, CheckClaim,
      RemoveToken, RemoveDir, StatLock, ListEntries, JudgeEntry, EraseEntry,
      ReclaimDir
<1>5. ASSUME NEW p \in Procs,
             LockedBody(p) \/ Denied(p) \/ OpenBodyStep(p) \/ Expire(p)
      PROVE  RunningIsAlive'
  BY <1>3, <1>5 DEF LockedBody, Body, Denied, OpenBodyStep, Expire
<1>6. CASE Tick  BY <1>6 DEF Tick
<1> QED BY <1>1, <1>2, <1>4, <1>5, <1>6 DEF Next, Run

LEMMA EraseAfterJudgingStep ==
    ASSUME LockTyped, EraseAfterJudging, Next PROVE EraseAfterJudging'
<1> USE DEF EraseAfterJudging, LockTyped, Goto, At
<1>1. ASSUME NEW p \in Procs, ListEntries(p) PROVE EraseAfterJudging'
  <2>1. lockPc'[p] # "erase" /\ \A q \in Procs \ {p} : lockPc'[q] = lockPc[q]
    BY <1>1 DEF ListEntries, AfterLost
  <2> QED BY <1>1, <2>1 DEF ListEntries
<1>2. ASSUME NEW p \in Procs, JudgeEntry(p) PROVE EraseAfterJudging'
  BY <1>2 DEF JudgeEntry, StopJudging, AfterLost
<1>3. ASSUME NEW p \in Procs, Crash(p) PROVE EraseAfterJudging'
  BY <1>3 DEF Crash, StopJudging
<1>4. ASSUME NEW p \in Procs, UNCHANGED unread,
             lockPc'[p] = "erase" => lockPc[p] = "erase",
             \A q \in Procs \ {p} : lockPc'[q] = lockPc[q]
      PROVE  EraseAfterJudging'
  BY <1>4
<1>5. ASSUME NEW p \in Procs,
             \/ Call(p) \/ Claim(p) \/ Cleanup(p) \/ StatLock(p)
             \/ EraseEntry(p) \/ ReclaimDir(p)
      PROVE  EraseAfterJudging'
  BY <1>4, <1>5
  DEF Call, Claim, Cleanup, MakeDir, CreateToken, FillToken, CheckClaim,
      RemoveToken, RemoveDir, AfterLost, StatLock, EraseEntry, ReclaimDir,
      reclaimVars
<1>6. ASSUME NEW p \in Procs,
             LockedBody(p) \/ Denied(p) \/ OpenBodyStep(p) \/ Expire(p)
      PROVE  EraseAfterJudging'
  BY <1>4, <1>6 DEF LockedBody, Body, Denied, OpenBodyStep, Expire, reclaimVars
<1>7. CASE Tick  BY <1>7 DEF Tick, reclaimVars
<1> QED BY <1>1, <1>2, <1>3, <1>5, <1>6, <1>7 DEF Next, Run, Reclaim

-----------------------------------------------------------------------------
\* A reclaimer's mistake is not forgotten.
LEMMA MistakesStand == ASSUME Next, misjudged PROVE misjudged'
BY DEF Next, Tick, Call, Run, Claim, Cleanup, Reclaim, MakeDir, CreateToken,
       FillToken, CheckClaim, RemoveToken, RemoveDir, StatLock, ListEntries,
       JudgeEntry, EraseEntry, ReclaimDir, LockedBody, Denied, OpenBodyStep,
       Expire, Crash

\* A crash only makes more tokens dead.
LEMMA CrashBuries ==
    ASSUME LockTyped, RunningIsAlive, NEW p \in Procs, Crash(p)
    PROVE  \A t \in Procs \X Nat : Alive(t)' => Alive(t)
BY DEF LockTyped, RunningIsAlive, Crash, Alive

LEMMA JudgedAreDeadStep ==
    ASSUME LockTyped, RunningIsAlive, JudgedAreDead, Next, ~misjudged'
    PROVE  JudgedAreDead'
<1> USE DEF JudgedAreDead, LockTyped
<1>1. ASSUME NEW p \in Procs, ListEntries(p) PROVE JudgedAreDead'
  BY <1>1 DEF ListEntries, Alive
<1>2. ASSUME NEW p \in Procs, JudgeEntry(p) PROVE JudgedAreDead'
  <2>1. CASE UNCHANGED <<unread, seen>>  BY <1>2, <2>1 DEF JudgeEntry, Alive
  <2>2. CASE StopJudging(p)  BY <1>2, <2>2 DEF JudgeEntry, StopJudging, Alive
  <2>3. ASSUME NEW t \in unread[p], UNCHANGED seen, ~Alive(t),
               unread' = [unread EXCEPT ![p] = @ \ {t}]
        PROVE  JudgedAreDead'
    BY <1>2, <2>3 DEF JudgeEntry, Alive
  <2> QED BY <1>2, <2>1, <2>2, <2>3 DEF JudgeEntry
<1>3. ASSUME NEW p \in Procs, EraseEntry(p) PROVE JudgedAreDead'
  BY <1>3 DEF EraseEntry, Alive
<1>4. ASSUME NEW p \in Procs, Crash(p) PROVE JudgedAreDead'
  <2>1. \A q \in Procs : seen'[q] \subseteq seen[q]
                         /\ (seen'[q] # {} => unread'[q] = unread[q])
    BY <1>4 DEF Crash, StopJudging
  <2> QED BY <2>1, <1>4, CrashBuries
<1>5. CASE UNCHANGED <<seen, unread, buried>>  BY <1>5 DEF Alive
<1> QED
  BY <1>1, <1>2, <1>3, <1>4, <1>5
  DEF Next, Tick, Call, Run, Claim, Cleanup, Reclaim, MakeDir, CreateToken,
      FillToken, CheckClaim, RemoveToken, RemoveDir, StatLock, ReclaimDir,
      LockedBody, Denied, OpenBodyStep, Expire, reclaimVars

-----------------------------------------------------------------------------
\* What a reclaimer erases is not the token of a call in progress.
LEMMA EraseSpares ==
    ASSUME LockInv, ~misjudged, NEW p \in Procs, NEW q \in Procs,
           lockPc[q] = "erase", NEW t \in seen[q], lockPc[p] # "idle"
    PROVE  t # Token(p)
BY DEF LockInv, JudgedAreDead, EraseAfterJudging, RunningIsAlive

LEMMA ClaimStandsStep ==
    ASSUME LockInv, Next, ~misjudged' PROVE ClaimStands'
<1> USE DEF LockTyped, ClaimStands
<1>1. ~misjudged /\ LockTyped /\ ClaimStands  BY MistakesStand DEF LockInv
<1>2. ASSUME NEW p \in Procs, CreateToken(p) PROVE ClaimStands'
  BY <1>1, <1>2 DEF CreateToken, Goto, At, Claimant, Holding, Token
<1>3. ASSUME NEW p \in Procs, RemoveToken(p) PROVE ClaimStands'
  BY <1>1, <1>3, TokensDiffer
  DEF RemoveToken, Goto, At, Claimant, Holding, Token
<1>4. ASSUME NEW q \in Procs, EraseEntry(q) PROVE ClaimStands'
  <2>1. ASSUME NEW p \in Procs, Claimant(p)' PROVE Token(p) \in entries'
    <3>1. Claimant(p) /\ lockPc[p] # "idle"
      BY <1>1, <1>4, <2>1 DEF EraseEntry, Goto, At, Claimant, Holding
    <3>2. Token(p) \in entries  BY <1>1, <3>1
    <3>3. lockPc[q] = "erase"  BY <1>4 DEF EraseEntry, At
    <3> QED BY <1>1, <1>4, <3>1, <3>2, <3>3, EraseSpares DEF EraseEntry
  <2> QED BY <1>4, <2>1 DEF EraseEntry, Token
<1>5. ASSUME NEW p \in Procs, Call(p) PROVE ClaimStands'
  BY <1>1, <1>5 DEF Call, Goto, At, Claimant, Holding, Token, lockVars
<1>6. ASSUME NEW p \in Procs, Crash(p) PROVE ClaimStands'
  BY <1>1, <1>6 DEF Crash, Goto, Claimant, Holding, Token, lockVars
<1>7. ASSUME NEW p \in Procs,
             \/ MakeDir(p) \/ FillToken(p) \/ CheckClaim(p) \/ RemoveDir(p)
             \/ StatLock(p) \/ ListEntries(p) \/ JudgeEntry(p) \/ ReclaimDir(p)
      PROVE  ClaimStands'
  BY <1>1, <1>7
  DEF MakeDir, FillToken, CheckClaim, RemoveDir, RemovedOrRefused, StatLock,
      ListEntries, JudgeEntry, ReclaimDir, AfterLost, Goto, At, Claimant,
      Holding, Token, lockVars
<1>8. ASSUME NEW p \in Procs, LockedBody(p) \/ Denied(p) \/ OpenBodyStep(p) \/ Expire(p)
      PROVE  ClaimStands'
  BY <1>1, <1>8 DEF LockedBody, Body, Denied, OpenBodyStep, Expire, Goto, At,
                    Claimant, Holding, Token, lockVars
<1>9. CASE Tick  BY <1>1, <1>9 DEF Tick, Claimant, Token
<1> QED BY <1>2, <1>3, <1>4, <1>5, <1>6, <1>7, <1>8, <1>9
        DEF Next, Run, Claim, Cleanup, Reclaim

\* CheckClaim is the only way to become an owner.
LEMMA NewOwner ==
    ASSUME LockTyped, Next, NEW r \in Procs,
           lockPc'[r] \in Holding \cup {"release"},
           lockPc[r] \notin Holding \cup {"release"}
    PROVE  CheckClaim(r) /\ SoleClaim(r)
<1> USE DEF LockTyped, Goto, At, Holding
<1>1. ASSUME NEW p \in Procs,
             \/ Call(p) \/ MakeDir(p) \/ CreateToken(p) \/ FillToken(p)
             \/ RemoveToken(p) \/ RemoveDir(p) \/ StatLock(p) \/ JudgeEntry(p)
             \/ EraseEntry(p) \/ ReclaimDir(p)
      PROVE  FALSE
  BY <1>1 DEF Call, MakeDir, CreateToken, FillToken, RemoveToken, RemoveDir,
              StatLock, JudgeEntry, EraseEntry, ReclaimDir, AfterLost
<1>2. ASSUME NEW p \in Procs, ListEntries(p) PROVE FALSE
  BY <1>2 DEF ListEntries, AfterLost
<1>3. ASSUME NEW p \in Procs,
             LockedBody(p) \/ Denied(p) \/ OpenBodyStep(p) \/ Expire(p) \/ Crash(p)
      PROVE  FALSE
  BY <1>3 DEF LockedBody, Body, Denied, OpenBodyStep, Expire, Crash
<1>4. ~Tick  BY DEF Tick
<1>5. PICK p \in Procs : CheckClaim(p)
  BY <1>1, <1>2, <1>3, <1>4 DEF Next, Run, Claim, Cleanup, Reclaim
<1> QED BY <1>5 DEF CheckClaim

\* The lock is taken only by a caller whose token is alone, and then every
\* other claimant would have its token there too.
LEMMA HoldersExcludeStep ==
    ASSUME LockInv, Next PROVE HoldersExclude'
<1> SUFFICES ASSUME ~misjudged', NEW p \in Procs, NEW q \in Procs,
                    lockPc'[p] \in Holding \cup {"release"},
                    lockPc'[q] \in Holding \cup {"release"}, p # q
             PROVE  FALSE
  BY DEF HoldersExclude, Owners
<1>1. ~misjudged /\ LockTyped /\ ClaimStands /\ HoldersExclude
  BY MistakesStand DEF LockInv
<1>2. ~(lockPc[p] \in Holding \cup {"release"} /\ lockPc[q] \in Holding \cup {"release"})
  BY <1>1 DEF HoldersExclude, Owners
<1>3. ASSUME NEW r \in Procs, NEW s \in Procs, r # s,
             lockPc'[r] \in Holding \cup {"release"},
             lockPc[r] \notin Holding \cup {"release"},
             lockPc'[s] \in Holding \cup {"release"}
      PROVE  FALSE
  <2>1. CheckClaim(r) /\ SoleClaim(r)
    BY <1>3, NewOwner, <1>1
  <2>2. lockPc[s] = lockPc'[s]
    BY <1>1, <1>3, <2>1 DEF CheckClaim, Goto, LockTyped
  <2>3. Token(s) \in entries
    BY <1>1, <1>3, <2>2 DEF ClaimStands, Claimant
  <2> QED BY <2>1, <2>3, <1>3, TokensDiffer DEF SoleClaim
<1> QED BY <1>2, <1>3

LEMMA LockInvStep == ASSUME LockInv, [Next]_vars PROVE LockInv'
<1>1. CASE Next
  <2>1. LockTyped' /\ RunningIsAlive' /\ EraseAfterJudging' /\ HoldersExclude'
    BY <1>1, LockTypedStep, RunningIsAliveStep, EraseAfterJudgingStep,
       HoldersExcludeStep DEF LockInv
  <2>2. ASSUME ~misjudged' PROVE JudgedAreDead' /\ ClaimStands'
    BY <1>1, <2>2, MistakesStand, JudgedAreDeadStep, ClaimStandsStep DEF LockInv
  <2> QED BY <2>1, <2>2 DEF LockInv
<1>2. CASE UNCHANGED vars
  BY <1>2 DEF vars, LockInv, LockTyped, RunningIsAlive, EraseAfterJudging,
     JudgedAreDead, ClaimStands, HoldersExclude, Owners, Claimant, Token, Alive
<1> QED BY <1>1, <1>2

\* tryWithOpLock and withOpLock: however many processes contend, crash and
\* reclaim, no two bodies run under the lock unless a live caller's token was
\* judged reclaimable.
THEOREM LockExcludes == Spec => []HoldersExclude
<1>1. Init => LockInv  BY LockInvInit
<1>2. LockInv /\ [Next]_vars => LockInv'  BY LockInvStep
<1>3. LockInv => HoldersExclude  BY DEF LockInv
<1> QED BY <1>1, <1>2, <1>3, PTL DEF Spec

-----------------------------------------------------------------------------
(* What the lock is for: a locked body never loses what another wrote.     *)

\* Between its calls, or past the write of its body.
Landed == {"idle", "release", "releaseDir"}

RowTyped == /\ opRow \subseteq [token : Procs \X Nat, locked : BOOLEAN]
            /\ rowCopy \in [Procs -> SUBSET [token : Procs \X Nat, locked : BOOLEAN]]

\* An update is of a call that has been made; one that is still on its way to
\* its write has left none.
Past(u) == \A p \in Procs : u.token[1] = p =>
               /\ u.token[2] <= calls[p]
               /\ lockPc[p] \notin Landed => u.token[2] # calls[p]

NothingUnwritten == /\ \A u \in opRow : Past(u)
                    /\ \A p \in Procs : \A u \in rowCopy[p] : Past(u)

\* What has reached the row since p read it under the lock comes from bodies
\* without the lock: the last of them has left its update there.
OnlyOpenBodiesSince(p) ==
    opRow \subseteq rowCopy[p] \/ \E v \in opRow \ rowCopy[p] : ~v.locked

CopiesAreCurrent ==
    ~misjudged => \A p \in Procs : lockPc[p] = "write" => OnlyOpenBodiesSince(p)

RowInv == LockInv /\ RowTyped /\ NothingUnwritten /\ CopiesAreCurrent

-----------------------------------------------------------------------------
\* Only the bodies touch the row, and a crash forgets a copy.
LEMMA RowSteps ==
    ASSUME Next
    PROVE  \/ UNCHANGED rowVars
           \/ \E p \in Procs : LockedBody(p) \/ OpenBodyStep(p) \/ Crash(p)
BY DEF Next, Tick, Call, Run, Claim, Cleanup, Reclaim, MakeDir, CreateToken,
       FillToken, CheckClaim, RemoveToken, RemoveDir, StatLock, ListEntries,
       JudgeEntry, EraseEntry, ReclaimDir, Denied, Expire

\* Only a read under the lock goes to a write under it.
LEMMA WriteSteps ==
    ASSUME LockTyped, Next, NEW p \in Procs, lockPc'[p] = "write",
           lockPc[p] # "write"
    PROVE  lockPc[p] = "read" /\ LockedBody(p)
<1> USE DEF LockTyped, Goto, At
<1>1. ASSUME NEW q \in Procs, q # p, ~(LockedBody(p) /\ lockPc[p] = "read"),
             Call(q) \/ Run(q) \/ Expire(q) \/ Crash(q)
      PROVE  FALSE
  BY <1>1 DEF Call, Run, Claim, Cleanup, Reclaim, MakeDir, CreateToken,
       FillToken, CheckClaim, RemoveToken, RemoveDir, StatLock, ListEntries,
       JudgeEntry, EraseEntry, ReclaimDir, LockedBody, Body, Denied,
       OpenBodyStep, Expire, Crash
<1>2. ASSUME Call(p) \/ Claim(p) \/ Cleanup(p) \/ Reclaim(p) PROVE FALSE
  BY <1>2 DEF Call, Claim, Cleanup, Reclaim, MakeDir, CreateToken,
       FillToken, CheckClaim, RemoveToken, RemoveDir, StatLock, ListEntries,
       JudgeEntry, EraseEntry, ReclaimDir, AfterLost
<1>3. ASSUME Denied(p) \/ OpenBodyStep(p) \/ Expire(p) \/ Crash(p) PROVE FALSE
  BY <1>3 DEF Denied, OpenBodyStep, Expire, Crash
<1>4. LockedBody(p) => lockPc[p] = "read"  BY DEF LockedBody, Body
<1>5. ~Tick  BY DEF Tick
<1> QED BY <1>1, <1>2, <1>3, <1>4, <1>5 DEF Next, Run

\* The row and its copies hold updates of calls.
LEMMA RowTypedStep ==
    ASSUME LockTyped, RowTyped, Next PROVE RowTyped'
<1> USE DEF RowTyped, LockTyped
<1>1. \A p \in Procs : Token(p) \in Procs \X Nat  BY DEF Token
<1>2. ASSUME NEW p \in Procs, LockedBody(p) \/ OpenBodyStep(p) PROVE RowTyped'
  <2>1. CASE UNCHANGED opRow /\ rowCopy' = [rowCopy EXCEPT ![p] = opRow]
    BY <2>1
  <2>2. ASSUME NEW locked \in BOOLEAN, Land(p, locked) PROVE RowTyped'
    BY <1>1, <2>2 DEF Land
  <2> QED BY <1>2, <2>1, <2>2 DEF LockedBody, Body, OpenBodyStep
<1>3. ASSUME NEW p \in Procs, Crash(p) PROVE RowTyped'
  BY <1>3 DEF Crash
<1> QED BY <1>2, <1>3, RowSteps DEF rowVars

\* A call leaves the state of having landed for a call of a new number only.
LEMMA PastStays ==
    ASSUME LockTyped, Next, NEW u \in [token : Procs \X Nat, locked : BOOLEAN],
           Past(u)
    PROVE  Past(u)'
<1> USE DEF LockTyped, Goto, At, Past, Landed
<1>0. u.token[1] \in Procs /\ u.token[2] \in Nat  OBVIOUS
<1>1. ASSUME NEW p \in Procs, Call(p) PROVE Past(u)'
  BY <1>0, <1>1 DEF Call
<1>2. ASSUME NEW p \in Procs, UNCHANGED calls,
             lockPc'[p] \notin Landed => lockPc[p] \notin Landed,
             \A q \in Procs \ {p} : lockPc'[q] = lockPc[q]
      PROVE  Past(u)'
  BY <1>2
<1>3. ASSUME NEW p \in Procs,
             \/ Claim(p) \/ Reclaim(p) \/ LockedBody(p) \/ Denied(p)
             \/ OpenBodyStep(p) \/ Expire(p) \/ Crash(p)
      PROVE  Past(u)'
  BY <1>2, <1>3
  DEF Claim, Reclaim, MakeDir, CreateToken, FillToken, CheckClaim, StatLock,
      ListEntries, JudgeEntry, EraseEntry, ReclaimDir, LockedBody, Body, Denied,
      OpenBodyStep, Expire, Crash
<1>4. ASSUME NEW p \in Procs, Cleanup(p) PROVE Past(u)'
  BY <1>2, <1>4 DEF Cleanup, RemoveToken, RemoveDir
<1>5. CASE Tick  BY <1>5 DEF Tick
<1> QED BY <1>1, <1>3, <1>4, <1>5 DEF Next, Run

\* A body writes the update of the call it is in, and no call writes twice.
LEMMA NothingUnwrittenStep ==
    ASSUME LockTyped, RowTyped, NothingUnwritten, Next PROVE NothingUnwritten'
<1> USE DEF RowTyped, LockTyped, NothingUnwritten
<1>1. /\ \A u \in opRow : Past(u)'
      /\ \A p \in Procs : \A u \in rowCopy[p] : Past(u)'
  BY PastStays
<1>2. ASSUME NEW p \in Procs, LockedBody(p) \/ OpenBodyStep(p)
      PROVE  NothingUnwritten'
  <2>1. CASE UNCHANGED opRow /\ rowCopy' = [rowCopy EXCEPT ![p] = opRow]
    BY <1>1, <2>1
  <2>2. ASSUME NEW locked \in BOOLEAN, Land(p, locked), lockPc'[p] \in Landed,
               UNCHANGED calls
        PROVE  NothingUnwritten'
    <3> DEFINE new == [token |-> Token(p), locked |-> locked]
    <3>1. \A u : u = new => Past(u)'  BY <2>2 DEF Past, Token
    <3>2. \A u \in opRow' : u \in rowCopy[p] \/ u = new  BY <2>2 DEF Land
    <3>3. \A q \in Procs : rowCopy'[q] \subseteq rowCopy[q]  BY <2>2 DEF Land
    <3> QED BY <1>1, <3>1, <3>2, <3>3
  <2> QED BY <1>2, <2>1, <2>2 DEF LockedBody, Body, OpenBodyStep, Goto, Landed
<1>3. ASSUME NEW p \in Procs, Crash(p) PROVE NothingUnwritten'
  BY <1>1, <1>3 DEF Crash
<1>4. CASE UNCHANGED rowVars  BY <1>1, <1>4 DEF rowVars
<1> QED BY <1>2, <1>3, <1>4, RowSteps

\* Nobody holds the lock between p's read and p's write but p.
LEMMA CopiesAreCurrentStep ==
    ASSUME RowInv, Next PROVE CopiesAreCurrent'
<1> SUFFICES ASSUME ~misjudged', NEW p \in Procs, lockPc'[p] = "write"
             PROVE  OnlyOpenBodiesSince(p)'
  BY DEF CopiesAreCurrent
<1> USE DEF LockTyped, RowTyped
<1>1. ~misjudged /\ LockTyped /\ RowTyped /\ HoldersExclude /\ NothingUnwritten
  BY MistakesStand DEF LockInv, RowInv
<1>2. CASE lockPc[p] # "write"
  <2>1. lockPc[p] = "read" /\ LockedBody(p)  BY <1>1, <1>2, WriteSteps
  <2>2. opRow' = rowCopy'[p]
    BY <1>1, <2>1 DEF LockedBody, Body, At
  <2> QED BY <2>2 DEF OnlyOpenBodiesSince
<1>3. CASE lockPc[p] = "write"
  <2>1. OnlyOpenBodiesSince(p)  BY <1>1, <1>3 DEF RowInv, CopiesAreCurrent
  <2>2. CASE UNCHANGED <<opRow, rowCopy>>  BY <2>1, <2>2 DEF OnlyOpenBodiesSince
  <2>3. ASSUME NEW q \in Procs, Crash(q) PROVE OnlyOpenBodiesSince(p)'
    <3>1. q # p  BY <1>1, <2>3 DEF Crash, Goto
    <3> QED BY <1>1, <2>1, <2>3, <3>1 DEF Crash, OnlyOpenBodiesSince
  <2>4. ASSUME NEW q \in Procs, LockedBody(q) PROVE OnlyOpenBodiesSince(p)'
    <3>1. q = p
      BY <1>1, <1>3, <2>4 DEF LockedBody, Body, At, HoldersExclude, Owners, Holding
    <3> QED BY <1>1, <1>3, <2>4, <3>1 DEF LockedBody, Body, At, Goto
  <2>5. ASSUME NEW q \in Procs, OpenBodyStep(q) PROVE OnlyOpenBodiesSince(p)'
    <3>1. q # p /\ rowCopy'[p] = rowCopy[p]
      BY <1>1, <1>3, <2>5 DEF OpenBodyStep, At, Goto, Land
    <3>2. CASE UNCHANGED opRow  BY <2>1, <3>1, <3>2 DEF OnlyOpenBodiesSince
    <3>3. CASE At(q, "openWrite") /\ Land(q, FALSE)
      <4> DEFINE new == [token |-> Token(q), locked |-> FALSE]
      <4>1. ~Past(new)  BY <1>1, <3>3 DEF Past, Token, At, Landed
      <4>2. new \notin rowCopy[p]  BY <1>1, <4>1 DEF NothingUnwritten
      <4> QED BY <3>1, <3>3, <4>2 DEF Land, OnlyOpenBodiesSince
    <3> QED BY <2>5, <3>2, <3>3 DEF OpenBodyStep
  <2> QED BY <2>2, <2>3, <2>4, <2>5, RowSteps DEF rowVars
<1> QED BY <1>2, <1>3

\* Every step keeps the invariant of lock and row.
LEMMA RowInvStep == ASSUME RowInv, [Next]_vars PROVE RowInv'
<1>1. CASE Next
  <2>1. LockInv'  BY <1>1, LockInvStep DEF RowInv
  <2>2. RowTyped' /\ NothingUnwritten'
    BY <1>1, RowTypedStep, NothingUnwrittenStep DEF RowInv, LockInv
  <2> QED BY <1>1, <2>1, <2>2, CopiesAreCurrentStep DEF RowInv
<1>2. CASE UNCHANGED vars
  <2>1. LockInv'  BY <1>2, LockInvStep DEF RowInv
  <2> QED BY <1>2, <2>1 DEF vars, RowInv, RowTyped, NothingUnwritten, Past,
             CopiesAreCurrent, OnlyOpenBodiesSince
<1> QED BY <1>1, <1>2

\* What a write takes away from the row has a body without the lock behind it.
LEMMA LossesExplained ==
    ASSUME RowInv, [Next]_vars, NEW u \in opRow, u.locked, ~misjudged,
           u \notin opRow'
    PROVE  \E v \in (opRow \ opRow') \cup (opRow' \ opRow) : ~v.locked
<1> USE DEF LockTyped, RowTyped
<1>1. LockTyped /\ RowTyped /\ NothingUnwritten /\ CopiesAreCurrent
  BY DEF RowInv, LockInv
<1>2. opRow' # opRow  OBVIOUS
<1>3. PICK p \in Procs : LockedBody(p) \/ OpenBodyStep(p)
  BY <1>2, RowSteps DEF vars, rowVars, Crash
<1>4. CASE LockedBody(p)
  <2>1. /\ At(p, "write")
        /\ opRow' = rowCopy[p] \cup {[token |-> Token(p), locked |-> TRUE]}
    BY <1>2, <1>4 DEF LockedBody, Body, Land
  <2>2. OnlyOpenBodiesSince(p)  BY <1>1, <2>1 DEF CopiesAreCurrent, At
  <2> QED BY <2>1, <2>2 DEF OnlyOpenBodiesSince
<1>5. CASE OpenBodyStep(p)
  <2> DEFINE new == [token |-> Token(p), locked |-> FALSE]
  <2>1. At(p, "openWrite") /\ new \in opRow'
    BY <1>2, <1>5 DEF OpenBodyStep, Land
  <2>2. ~Past(new)  BY <1>1, <2>1 DEF Past, Token, At, Landed
  <2>3. new \notin opRow  BY <1>1, <2>2 DEF NothingUnwritten
  <2> QED BY <2>1, <2>3
<1> QED BY <1>3, <1>4, <1>5

\* withOpLock and its bodies: reads and writes of operation.json under the lock
\* never lose an update made under it, unless a body that gave up waiting, and ran
\* without the lock, has written in between.
THEOREM UpdatesSurvive == Spec => LockedUpdatesKept
<1>1. Init => RowInv
  BY LockInvInit DEF Init, RowInv, RowTyped, NothingUnwritten, CopiesAreCurrent
<1>2. RowInv /\ [Next]_vars => RowInv'  BY RowInvStep
<1> DEFINE Kept == \A u \in opRow :
                     (u.locked /\ ~misjudged /\ u \notin opRow') =>
                       \E v \in (opRow \ opRow') \cup (opRow' \ opRow) : ~v.locked
<1>3. RowInv /\ [Next]_vars => [Kept]_vars  BY LossesExplained
<1> QED BY <1>1, <1>2, <1>3, PTL DEF Spec, LockedUpdatesKept
-----------------------------------------------------------------------------
(* Types.  A token file, and the token of an update, is the one of a call  *)
(* that its process has made: a process between two calls creates none.    *)

CallsAreNumbered ==
    \A p \in Procs : /\ calls[p] <= MaxCalls[p]
                     /\ lockPc[p] # "idle" => calls[p] >= 1

\* A process inside a call has a token to name.
LEMMA TokenTyped ==
    ASSUME TypeOK, CallsAreNumbered, NEW p \in Procs, lockPc[p] # "idle"
    PROVE  Token(p) \in Tokens
<1>1. calls[p] \in 1..MaxCalls[p]
  BY LockConstants DEF TypeOK, CallsAreNumbered
<1> QED BY <1>1 DEF Token, Tokens

\* Only a call gives a number, and only a call leaves "idle".
LEMMA CallsAreNumberedStep ==
    ASSUME TypeOK, CallsAreNumbered, Next PROVE CallsAreNumbered'
<1> USE LockConstants DEF TypeOK, CallsAreNumbered, Goto, At
<1>1. ASSUME NEW p \in Procs, Call(p) PROVE CallsAreNumbered'
  BY <1>1 DEF Call
<1>2. ASSUME NEW p \in Procs, Crash(p) PROVE CallsAreNumbered'
  BY <1>2 DEF Crash
<1>3. ASSUME NEW p \in Procs, lockPc[p] # "idle", UNCHANGED calls,
             \A q \in Procs \ {p} : lockPc'[q] = lockPc[q]
      PROVE  CallsAreNumbered'
  BY <1>3
<1>4. ASSUME NEW p \in Procs, Claim(p) \/ Cleanup(p) \/ Reclaim(p)
      PROVE  CallsAreNumbered'
  BY <1>3, <1>4
  DEF Claim, Cleanup, Reclaim, MakeDir, CreateToken, FillToken, CheckClaim,
      RemoveToken, RemoveDir, StatLock, ListEntries, JudgeEntry, EraseEntry,
      ReclaimDir
<1>5. ASSUME NEW p \in Procs,
             LockedBody(p) \/ Denied(p) \/ OpenBodyStep(p) \/ Expire(p)
      PROVE  CallsAreNumbered'
  BY <1>3, <1>5 DEF LockedBody, Body, Denied, OpenBodyStep, Expire
<1>6. CASE Tick  BY <1>6 DEF Tick
<1> QED BY <1>1, <1>2, <1>4, <1>5, <1>6 DEF Next, Run

\* The directory and the reclaimers hold tokens, the row and its copies updates.
LEMMA LockTypeStep ==
    ASSUME TypeOK, CallsAreNumbered, Next PROVE TypeOK'
<1>0. \A p \in Procs : lockPc[p] # "idle" => Token(p) \in Tokens
  BY TokenTyped
<1> USE DEF TypeOK, LockPcs, Holding, OpenBody, Goto, At
<1>1. ASSUME NEW p \in Procs, Call(p) PROVE TypeOK'
  BY <1>1 DEF Call, lockVars, reclaimVars, rowVars
<1>14. ASSUME NEW p \in Procs, MakeDir(p) PROVE TypeOK'
  <2>1. CASE lockThere
    BY <1>14, <2>1 DEF MakeDir, lockVars, reclaimVars, rowVars
  <2>2. CASE ~lockThere
    BY <1>14, <2>2 DEF MakeDir, reclaimVars, rowVars
  <2> QED BY <2>1, <2>2
<1>2. ASSUME NEW p \in Procs, CreateToken(p) PROVE TypeOK'
  BY <1>0, <1>2 DEF CreateToken, reclaimVars, rowVars
<1>3. ASSUME NEW p \in Procs, FillToken(p) \/ CheckClaim(p) PROVE TypeOK'
  BY <1>3 DEF FillToken, CheckClaim, lockVars, reclaimVars, rowVars
<1>4. ASSUME NEW p \in Procs, RemoveToken(p) PROVE TypeOK'
  BY <1>4 DEF RemoveToken, reclaimVars, rowVars
<1>5. ASSUME NEW p \in Procs, RemoveDir(p) \/ ReclaimDir(p) PROVE TypeOK'
  BY <1>5 DEF RemoveDir, ReclaimDir, RemovedOrRefused, AfterLost, reclaimVars, rowVars
<1>6. ASSUME NEW p \in Procs, StatLock(p) PROVE TypeOK'
  BY <1>6 DEF StatLock, lockVars, rowVars
<1>7. ASSUME NEW p \in Procs, ListEntries(p) PROVE TypeOK'
  BY <1>7 DEF ListEntries, AfterLost, lockVars, rowVars
<1>8. ASSUME NEW p \in Procs, JudgeEntry(p) PROVE TypeOK'
  <2>1. seen' \in [Procs -> SUBSET Tokens] /\ unread' \in [Procs -> SUBSET Tokens]
    BY <1>8 DEF JudgeEntry, StopJudging
  <2>2. misjudged' \in BOOLEAN
    BY <1>8 DEF JudgeEntry, Alive, NamesLiveOwner
  <2>3. lockPc' \in [Procs -> LockPcs]
    BY <1>8 DEF JudgeEntry, AfterLost
  <2> QED BY <1>8, <2>1, <2>2, <2>3 DEF JudgeEntry, lockVars, rowVars
<1>9. ASSUME NEW p \in Procs, EraseEntry(p) PROVE TypeOK'
  BY <1>9 DEF EraseEntry, rowVars
<1>10. ASSUME NEW p \in Procs, LockedBody(p) \/ OpenBodyStep(p) PROVE TypeOK'
  <2>1. Token(p) \in Tokens
    BY <1>0, <1>10 DEF LockedBody, Body, OpenBodyStep
  <2>2. ASSUME NEW locked \in BOOLEAN, Land(p, locked)
        PROVE  opRow' \in SUBSET Updates /\ rowCopy' \in [Procs -> SUBSET Updates]
    BY <2>1, <2>2 DEF Land, Updates
  <2>3. opRow' \in SUBSET Updates /\ rowCopy' \in [Procs -> SUBSET Updates]
    BY <1>10, <2>2 DEF LockedBody, Body, OpenBodyStep
  <2> QED BY <1>10, <2>3 DEF LockedBody, Body, OpenBodyStep, lockVars, reclaimVars
<1>11. ASSUME NEW p \in Procs, Denied(p) \/ Expire(p) PROVE TypeOK'
  BY <1>11 DEF Denied, Expire, lockVars, reclaimVars, rowVars
<1>12. ASSUME NEW p \in Procs, Crash(p) PROVE TypeOK'
  BY <1>12 DEF Crash, StopJudging, lockVars
<1>13. CASE Tick  BY <1>13 DEF Tick, reclaimVars, rowVars
<1> QED BY <1>1, <1>2, <1>3, <1>4, <1>5, <1>6, <1>7, <1>8, <1>9, <1>10, <1>11,
           <1>12, <1>13, <1>14
        DEF Next, Run, Claim, Cleanup, Reclaim

\* Every variable of the lock and of the row it guards keeps its type.
THEOREM LockTypeCorrect == Spec => []TypeOK
<1>1. Init => TypeOK /\ CallsAreNumbered
  <2> SUFFICES ASSUME Init PROVE TypeOK /\ CallsAreNumbered
    OBVIOUS
  <2>1. TypeOK
    <3>1. lockThere \in BOOLEAN /\ misjudged \in BOOLEAN
      BY Zenon DEF Init
    <3>5. /\ lockAge \in 0..2
          /\ entries = {} /\ filled = {} /\ opRow = {} /\ expired = {}
      BY DEF Init
    <3>2. lockPc \in [Procs -> LockPcs]  BY DEF Init, LockPcs
    <3>3. /\ calls \in [Procs -> Nat] /\ buried \in [Procs -> Nat]
          /\ seenAge \in [Procs -> 0..2]
      BY DEF Init
    <3>4. /\ seen \in [Procs -> SUBSET Tokens] /\ unread \in [Procs -> SUBSET Tokens]
          /\ rowCopy \in [Procs -> SUBSET Updates]
      BY DEF Init
    <3> QED BY <3>1, <3>2, <3>3, <3>4, <3>5 DEF TypeOK
  <2>2. CallsAreNumbered
    BY LockConstants DEF Init, CallsAreNumbered
  <2> QED BY <2>1, <2>2
<1>2. TypeOK /\ CallsAreNumbered /\ [Next]_vars => TypeOK' /\ CallsAreNumbered'
  <2>1. CASE Next  BY <2>1, LockTypeStep, CallsAreNumberedStep
  <2>2. CASE UNCHANGED vars  BY <2>2 DEF vars, TypeOK, CallsAreNumbered
  <2> QED BY <2>1, <2>2
<1> QED BY <1>1, <1>2, PTL DEF Spec
=============================================================================
