# Local Agent X: the canonical loop, modelled and checked

Local Agent X is a TypeScript agent server. Every unit of agent work (a chat
answer, a delegated agent, a background job) is an *operation* that the
canonical loop (`src/canonical-loop/`) queues, leases to a worker, drives turn by
turn, pauses, resumes, cancels, retries and recovers after a crash. Everything
else in the repository either submits operations to this loop or is called from
inside a turn. This directory holds TLA+ models of that loop, the instances TLC
checks, and theorems TLAPS proves for every instance.

Paths below are relative to the repository root, so `src/canonical-loop/worker.ts`
is the server's own source. `PROJECT.json` maps every definition to the lines it
translates.

## 1. The system

### 1.1 Inventory

| Component | State it keeps | Operations | Talks to |
|---|---|---|---|
| Worker and turn loop (`canonical-loop/worker.ts`, `turn-loop.ts`, `state-machine.ts`, `worker-adapter-retry.ts`, `runtime-failover.ts`, `worker-suspension.ts`, `worker-wall-clock.ts`) | the worker's copy of the row, its turn index, its cancel tracker | `drive()`: acquire, start, reconcile, turns, boundary decisions, adapter retry and failover, finish, release | row on disk, bus, lease, turn store, scheduler |
| Lease and heartbeat (`lease.ts`, `worker-heartbeat.ts`) | `leaseOwner`, `leaseGeneration`, expiry in the row; armed heartbeats in memory | acquire, renew, release, exact-claim fence | row on disk, recovery |
| Control API and cancel (`control-api.ts`, `cancel-handler.ts`, `signals.ts`, `bus.ts`) | pause and cancel timestamps in the row; bus subscribers | `opPause`, `opResume`, `opCancel`, boundary, pre-lease and mid-turn cancel | worker (bus), scheduler (`wakeQueuedOp`, `enqueueOp`) |
| Recovery and janitor (`recovery.ts`, `recovery-sweep.ts`, `recovery-janitor.ts`) | attempts in the row | `recoverStaleOp`, published-turn reconciliation | row on disk, scheduler (`evictWorker`, `enqueueOp`), heartbeat registry |
| Scheduler and resource locks (`scheduler.ts`, `resource-locks.ts`, `execution-launch-recovery.ts`) | queue, `launching`, `active`, `activeByLane`, `activeLocks`, held locks, retry timers | enqueue, pump, launch and its `finally`, retry timer, evict | worker, recovery, control API |
| Turn commits (`checkpoint.ts`, `turn-commit-store.ts`) | one exclusive artifact per turn, its projections | publish under the fence, project, reconcile | row on disk, event log |
| Operations store (`ops/op-store.ts`, `ops/heartbeat.ts`, `op-persist.ts`) | `operation.json`, the lock directory | read, write, merge signals and lease on write, lock, reclaim | every process on the data directory |
| Redirect (`control-api-redirect.ts`) | instruction and ingress keys in the row | deliver, fold into a turn, clear with its projection | row, turn commits |
| Event log and reconnect (`store.ts`, `event-emitter.ts`, `bus.ts`, `control-api.ts`, `persistence/durable-jsonl.ts`) | one JSONL file per operation; a sequence cache per process; a subscription per client | append with the next number, publish, replay past a number, follow the bus, repair a torn tail | every process on the data directory, clients |
| Approvals (`approval-manager.ts`, `approval-durable-record.ts`, `control-api-approvals.ts`) | live cards, coalescing slots, refusals in memory; `pendingApproval` in the row | ask, click, time out, reply in chat, record an answer after a restart, ask again | a tool call in a turn, recovery, the user |
| Dependencies (`dependencies.ts`, `dependency-batch.ts`, `dependency-scheduler.ts`) | waiter index in memory; rows and batch manifest on disk | submit, admit a batch, gate, observe an end, rebuild at boot | scheduler, state machine |
| Process execution (`process-execution-backend.ts`, `process-execution-claim.ts`, `execution-worker-runtime.ts`, `process-worker-entry.ts`) | a claim file; the handoff in memory | spawn, hand off, claim, beat, remove, reclaim | child process, recovery, op lock |
| Rolling update (`update-rollback.ts`, `ota-update.ts`, `update-pipeline.ts`, `update-recovery.ts`) | the install's files; anchor, journal and backups; the receipt of the installed commit; a failure counter | back up, copy, mark, confirm, roll back, recover at boot or at the next update, repair a streak of failures | file system, self-edit lock, server boot |
| Everything else (server boot, providers, tools, security, memory, cron, sync, autopilot, voice, desktop, ...) | own stores | callers of the loop or callees of a turn | listed one by one in `PROJECT.json` |

### 1.2 How the parts interact

A process is one JavaScript event loop. A handler runs without interruption from
one `await` to the next; inside such a block everything it reads stays what it
was, *except the disk*, which another process may write. `drive()` awaits the
adapter's turn, the abort of an adapter, the runtime failover and one dynamic
import; between these points the pump, the control API, timers, heartbeats and
the janitor run. Workers and the control API meet in three places: the row on
disk, the synchronous in-process bus, and the scheduler's maps.

A second server process is the exception. `datadir-lock.ts` refuses to start it,
but proceeds without its lock when the port is taken or cannot be bound, and the
store and the control API are written with that case in mind. The models
therefore come in one-process and two-process instances, and the text says which
property holds where.

### 1.3 What is hard, and what makes it correct

* **Leases.** The expiry is a wall-clock guess, the armed heartbeat is the
  evidence. A starved worker must not be robbed (`ArmedOwnsLease`), a dead one
  must be replaced (`EventuallySettles`), a zombie must be fenced
  (`GenerationsOrdered`, `TurnLogAppendOnly`).
* **Stale copies.** A worker writes back its own copy of state and attempts after
  every await; only the control signals and the lease are merged from disk
  (`OnlyLegalMoves`, `AttemptsNeverRefunded`).
* **Two writes for one decision.** The signal is cleared, then the state moved; the
  turn is published, then the row projected (`PublishedOutcomeStands`,
  `CancelNeverDropped`, `NoTurnGap`).
* **Cancel, pause and resume against everything** (`ImplementsLifecycle`,
  `NoCancelParked`, `CancelCompletes`, `QueuedCancelCompletes`).
* **Slots, locks and queues.** A slot can end five ways (factory rejection,
  settlement, eviction, replacement, a settlement after eviction), and each
  must release exactly once and wake whoever waits (`SlotsBalanced`,
  `LocksBalanced`, `NoDoubleLaunch`, `WorkConserving`, `QueueMoves`).

* **A row, a log and a ledger for one turn.** A turn is published once and then told in
  five to seven durable writes, any of which may be the last before a crash
  (`EvidenceOnce`, `SucceededIsTold`, `EveryTurnTold`, `ImplementsRedirectBox`).
* **A lock made of a directory.** Its `mkdir`, its token and its removal are separate
  calls, and a reclaimer looks at it between any two (`HoldersExclude`,
  `LockedUpdatesKept`, `EveryCallReturns`).
* **Numbers out of a cache.** The event log is appended to by several processes, repaired
  by readers and read back by clients that come and go (`LogSequenced`,
  `ReceivedInOrder`).
* **A question to the user that outlives its process** (`OutcomesAreTheUsers`,
  `NewestAskIsDurable`, `EveryAskSettles`).
* **Waiting for others**: wake-ups, and batches that a crash cuts in half
  (`QueuedIsAwaited`, `RunsAfterPrerequisites`, `BatchIsAtomic`).
* **Two processes that both think they drive** (`DriverHoldsClaim`).
* **Replacing the program while it can die**: an update is journalled in two places and undone
  by whoever comes next, however often the undoing is itself cut short (`UpdateIsAtomic`).

`PROJECT.json` lists the hazards at their lines with the properties that would
catch each.

## 2. The modules

| Module | What it is |
|---|---|
| `OpLifecycle` | the promise: states an operation moves through, and what a cancel request does |
| `CanonicalLoop` | one operation, any number of processes and workers; row, leases, turns, control flow |
| `CanonicalLoopProofs` | theorems about `CanonicalLoop`, for any number of processes |
| `OneProcessProofs` | theorems about `CanonicalLoop` with one server process, and that it implements `OpLifecycle` |
| `MCCanonicalLoop` | its TLC instances: one process with two workers, or two with one each |
| `Scheduler` | many operations in one process: queue, slots, locks, launches, eviction |
| `MCScheduler` | its TLC instance |
| `OpLock` | the lock directory of one operation, one file-system call per step, with crashes |
| `RedirectBox` | the promise of the redirect column: the newest instruction, applied by one turn at most |
| `TurnCommit` | one operation's turns from publication to the last projected write, with crash and replay |
| `EventLog` | the event file, the sequence caches of its writers and the subscriptions of its clients |
| `Approvals` | the approval cards of one operation and their durable column |
| `Dependencies` | operations that wait for others, and batches admitted together |
| `ProcessClaim` | the claim file of an operation that a child process drives |
| `UpdateRollback` | a rolling update of the install, write by write, with its journal, rollback and recovery |
| `MCApprovals` | the calls of the `Approvals` instances: two edits that share a preview, and a third call |
| `MCServices` | one TLC instance of each of the seven components from `OpLock` on |
| `SchedulerProofs`, `OpLockProofs`, `TurnCommitProofs`, `DependenciesProofs` | theorems about the module in the name |
| `ServiceProofs` | theorems about `Approvals`, `EventLog`, `ProcessClaim` and `UpdateRollback` |
| `CompositionProofs` | theorems about the composition of `MCServices` |

`CanonicalLoop` keeps one bit of scheduler per process (queued, timer, active), so
that control, recovery and launch interleave with `drive()`. `Scheduler` is the
complement: it keeps all of the scheduler and reduces `drive()` to "begins, ends, is
replaced". The two are checked separately because their product is out of reach.

### 2.1 CanonicalLoop

| Variable | In the code |
|---|---|
| `op` | the columns of `operation.json` that control reads: state, pause and cancel signal, lease owner and generation, recovery attempts |
| `live` | the generations whose `leaseExpiresAt` is in the future; the clock is the action `LeaseExpires` |
| `turns` | the exclusive turn artifacts, by index, with the generation and outcome they record |
| `opLock` | the op lock, while a section makes more than one write (publish, then project) |
| `mem[a]` | an actor's own copy of the row: the `op` a worker or a handler holds |
| `pc[a]`, `cpu[p]` | where each actor stands, and who is inside a synchronous block of each process |
| `run[w]` | the locals of `drive()`: claim, armed heartbeat, `leaseLost`, cancel tracker, turn index, result |
| `sched[p]` | queued, retry timer, active worker |
| `budget` | environment events left (a bound, see section 3) |

Each action is one access to the disk together with the synchronous code around it;
`Goto` to a place of `Awaiting` gives the event loop back, `Goto` to a place of
`Running` keeps it. In one process a block is therefore atomic; with two, the
other process can step in between any two disk accesses. `Persist` is
`persistOpKeepingSignals`: state and attempts from memory, signals and lease from
disk. `TransitionOp` is `transitionOp` with the route its exception takes.

Worker ids are slots with the claim's generation: the code's random
`workerId` is compared only for equality, and a slot is reused only after its
`drive()` returned, under a new generation.

Abstractions, beyond the two just named:

* A turn is its outcome (continue, done, error, deadline, retry, suspend, thrown).
  Middlewares, tool dispatch, budgets and the transcript decide *which*, and the
  model leaves that open, so every property holds whatever they decide. The stop
  checks (wall clock, checkpoint budget, interactive answer) are likewise open.
* The adapter call eventually returns. The provider layer has its own timeouts;
  only the liveness properties use this.
* A turn that failed in the adapter may first look for another runtime (`AwaitFailover`; which one, and
  whether there is one, is left open). `FailoverSwitches` is `persistSwitch`: it rereads the row under the op lock, is
  refused where a cancel or a pause came in during the await, writes one more attempt *without comparing it
  with the budget* (`runtime-failover.ts:213`), and the row it wrote becomes the worker's copy. `FailoverDeclined`
  stands for the refusal and for `persistWaiting`; both leave the worker's copy as it was before the await, and
  `FailoverFails` is a lock that cannot be had or a target that changed. An ordinary retry is two writes,
  `AdapterRetries` (the attempt) and `Requeue` (the state); so is giving up, `AdapterExhausted` and `GiveUp`.
* The circuit breaker of recovery is a nondeterministic choice to fail; the
  retry delay is a timer that fires at some time.
* A contended op lock is a wait (`Unlocked` is a guard). Where the code handles a
  lock that cannot be had as an outcome (`acquireLease`, `releaseLease`, the
  heartbeat, the failover, and a reconciliation or a commit, `FenceFails`), that outcome is an action of its own. The fail-open path of
  `withOpLock` is in `OpLock`.
* The boundary's reread and `applyBoundaryCancel`'s reread are one step, and so are
  `opPause`'s check and write; only a second process could tell them apart.
* `clearAdapterRetryState`'s rewrite, redirects, approvals, events, container and
  process routing are not in this module.

### 2.2 OpLifecycle and the refinement

`OpLifecycle` has two variables, the canonical state and "a cancel was asked for and
has not been carried out". `CanonicalLoop` implements it with
`state <- op.state` and `cancel <- PendingCancel`, where a cancel is pending while
its signal stands, while the operation is cancelling, and between the write that
clears the signal and the write that closes the row. The refinement is what
makes "pause never overtakes a cancel", "a success never follows an accepted
cancel" and "a cancel stays until the operation is terminal" one statement. It is proved for
one process of any number of workers (section 4.2).

### 2.3 Scheduler

`queue`, `launching`, `active`, `inUse`, `held`, `slotLocks` and `timer` are the maps of
`scheduler.ts` under shorter names. `call` is the closure of each `launch()` in
flight; it outlives its slot, which is how a late settlement meets its
replacement. `pumpScheduler` is one synchronous pass and is modelled one queue
entry per step, with `pumpAt` blocking everything else, so each `continue`,
`break` and removal of the pass is an action of its own. Row and cancel signal are
reduced to what the scheduler reads. Dependency gating, execution placement and
hot-reloaded caps are left out; caps are constants.

### 2.4 OpLock

`lockThere`, `entries` and `filled` are the directory `operation.lock`, its token files and
those whose JSON has been written; `lockAge` is the age of its modification time in
three classes (within `EMPTY_LOCK_GRACE_MS`, past it, past `LOCK_STALE_MS`). `lockPc[p]` is
where process `p` stands in `tryWithOpLock`, `cleanupOwnedLock` or `reclaimStaleLock`, one
place per file-system call. `opRow` is the set of updates that have reached
`operation.json`: a body reads it, then writes what it read plus its own update, so
that a lost update is visible. A call that is denied returns (`tryWithOpLock`) or runs
its body unlocked (`withOpLock`). A crash leaves directory and token as they are and
makes the pid dead. Left out: reentrancy, which takes no step, the reuse of a pid, and a
plain file in the directory's place.

The lock is not exclusive, and the model says exactly when: a reclaimer that reads a
token file before its content is there, or after the claim was withdrawn, judges it
reclaimable and may remove it although its owner lives and is about to hold the lock
(`misjudged`). `HoldersExclude` and `LockedUpdatesKept` say that this is the only way.

A body that was denied the lock and runs all the same writes what it read long ago, so an update
made under the lock may be lost to it, or reappear. `LockedUpdatesKept` says what is left: an
update made under the lock leaves the row only in a write that also adds or takes away the update
of an unlocked body; locked bodies alone never lose one. (That a locked update is lost only *while* an
unlocked body writes is too strong: with three processes an unlocked body first writes back an old row,
and a locked one, which had read the newer row before, then carries the update in and the next one out.
TLC finds this with calls 2, 1 and 1.)

### 2.5 TurnCommit and RedirectBox

`row` is what projection reads and writes of `operation.json`; `published` the envelopes;
`told[i][e]` how many times evidence `e` of turn `i` has been written to the event log or the
ledger. `driver` says who acts (a worker at the top of its loop, a turn in flight, a
commit, a replay by a replacement worker, recovery), and `cursor` the projection under way.
Each step of `Project` is one durable write of `projectTurnCommit`, and `Throws` or `Crash`
may come instead of any of them. Messages of one turn are one piece of evidence, for they are
written by one loop with one test. The op lock is taken to exclude, and the lease too:
what happens without them is `OpLock`'s and `CanonicalLoop`'s subject.

`TurnCommit` implements `RedirectBox`, whose `Apply` takes the instruction out of the box in
the step that publishes the turn; `applied` has one entry per published turn, `NoInstruction` for a turn
that was given none. This holds as long as an operation remembers the key of every
redirect it accepted (`ingress`, of `KeyWindow` keys, 256 in the code): a key that has been pushed out is
accepted again when it is delivered again, and its instruction applied twice. The refinement mapping reads the column as empty once
the instruction in it is carried by a published turn, for the column itself is cleared one
or more writes later, perhaps by another process; that nothing ever takes the
instruction in between is what the check establishes. Staging files and the quarantine of
invalid artifacts are left out.

### 2.6 EventLog

`log` is the file's frames, `torn` whether bytes of an unfinished frame follow them, and the
byte size that the cache is keyed to is the pair. `Look` and `AppendFrame` are two steps, for
another process can act between them only where the code lets it; `AppendFails` is a write that
stops before or after its first bytes, `SyncFails` an `fsync` that fails after the frame is
there, `WriterDies` a crash. `emitStrict` throws where `emit` publishes all the same; both are
branches of those actions. A client is a subscription: its process, what it has marked as seen, what
it was given. Each frame remembers in `unheard` which attached clients could not have heard it.
Stream chunks, which are never replayed, and the relay are left out; the JSONL file's own lock is
taken to exclude.

### 2.7 Approvals

A caller asks, may ride another's card or get a stored refusal, waits for the durable bridge
(the one `await`), and then puts up a card or consumes a recorded answer. `column` is
`pendingApproval`; a restart keeps it and forgets everything else. Time is a counter to which window
and suppression are compared.

The code identifies a call in two ways, and so does the model. A member of `Calls` is what `exactKey` tells apart:
the tool and all its arguments. Coalescing and suppression go by it. The column keeps the tool and the first 500 characters of
the arguments, `PreviewOf`, and `Matches` compares only these: a recorded answer may reach another call with the
same preview (finding `PreviewCollision`). `said` remembers of every card what the user last answered, whether it
was clicked on the live card, recorded on the column after a restart, or since applied, and when. "Always allow", grants from the inbox, and
`clearSession`, which nothing calls, are left out.

### 2.8 Dependencies

Rows and manifest are on disk; `waiters`, `runQueue` and `due` are the process's. Admission is one step
per row, so that a crash can fall between two; the observers of a terminal operation run one
waiter at a time, before anything else, and may themselves end operations and so enlarge `due`.
`CrashAndBoot` is the rebuild of the index and the sweep that queues every pending row. One
server process: an end written by another is seen by the janitor's next sweep.

### 2.9 ProcessClaim

Children are generations, because a claim's token, pid and start time together are equal for
one child only. `beat` is the age of the claim's heartbeat: fresh, stale, past the ten-minute
ceiling. A removal that cannot have the lock is a removal that does not happen. `observed` is
what recovery read of the claim before it takes the lock to remove it. A kill is taken to be
immediate; containers, placement and the relay are left out.

### 2.10 UpdateRollback

`install` and `backup` are contents by file: a version, absent, or torn. `anchor` is the journal in the
install with the commitment to the one before it, `journal` the copy beside the backups; `persist`
writes the anchor first, and `read` rolls the copy forward (`RollForward`). `phase` is where the one
process is, `why` on whose behalf it undoes (boot, the next update, a failed copy, a failed
confirmation), which decides where a throw lands. `UpdateThrows` and `UpdateDies` may come between any
two writes, and leave the file being written torn; the second loses the phase and the next step is `Boot`,
whose own failures are caught and logged as in `server/index.ts`. `Restore` verifies every
backup before it touches a file, as `restore` does, and gives up if one is not what the journal says.

Versions are numbers and only add files, for the copy never removes one; a candidate is one that passed its
validation. Left out: the git path and self-edits (which share the lock but not the journal), the
archive of a superseded install, the update history, and the check that a path became a link. `UpdateFails` takes the failure count, the removal of
`update-rollback` and the mark that the repair was tried as one step, though the code writes them one after another.
The desktop shell heals the journal before it starts the server; that code is in the desktop package and is not modelled.

Two ways out of the guarantee exist in the code and are recorded in `undermined`, so that the property says
there is no third (section 5).

### 2.11 MCServices

The seven components share no variable, and TLC checks them in one run: `part`, chosen in the
initial state, names the component a behaviour is about, and the others stay as they begin. The
state space is therefore the sum of the seven, not their product. The module extends all seven, so that
the run and the proofs speak of the same definitions. Since only one component moves in a behaviour, one
fairness clause of `ServicesFairness` names a step of several: it is the conjunction of their own clauses.

## 3. What is checked

All runs set `CHECK_DEADLOCK FALSE`, because an ended operation has nothing left
to do: a system whose operations are all terminal stops, as it should.

| Run | Instance | Properties | States |
|---|---|---|---|
| `OneProcess` | 1 process, 2 workers, no crash | `TypeOK`, `NoCancelParked`, `ImplementsLifecycle`, `CancelCompletes` | 401 k |
| `OneProcessCrash` | plus crashes | `OneWorkerPerOp`, `NoLeakedLease`, `OnlyLegalMoves`, `AttemptsNeverRefunded`, `PublishedOutcomeStands`, `EventuallySettles` | 461 k |
| `OneProcessZombie` | plus heartbeats given up | `ArmedOwnsLease`, `GenerationsOrdered` | 1.4 M |
| `TwoProcessTurns` | 2 processes, 1 worker each, a cancel | `NoTurnGap`, `TurnLogAppendOnly` | 2.7 M |
| `Scheduler` | 3 operations, 2 lanes, 2 locks | `TypeOK`, `NoDoubleLaunch`, `SlotsBalanced`, `LocksBalanced`, `WorkConserving` | 178 k |
| `SchedulerLiveness` | 2 operations, fair | `LocksBalanced`, `QueueMoves`, `QueuedCancelCompletes` | 5 k |
| `Services` | the seven components of `MCServices` | `TypesOK`; `HoldersExclude`, `LockedUpdatesKept`, `EveryCallReturns` (lock); `EvidenceOnce`, `SucceededIsTold`, `EveryTurnTold`, `ImplementsRedirectBox` (turn); `NewestAskIsDurable`, `OutcomesAreTheUsers`, `EveryAskSettles` (card); `LogSequenced`, `ReceivedInOrder` (log); `RunsAfterPrerequisites`, `BatchIsAtomic`, `QueuedIsAwaited` (dep); `DriverHoldsClaim` (claim); `UpdateIsAtomic` (update) | 285 k |
| `HeartbeatResurrects`, `CrossProcessTakeover`, `CrashDropsCancel`, `TurnUnannounced`, `PreviewCollision` | see section 5 | one violated property each | stops at the trace |

**Which run is the home of a property, and why.** `ImplementsLifecycle` and
`CancelCompletes` are checked without crashes because a crash can lose a cancel
(finding `CrashDropsCancel`). `OnlyLegalMoves` and `AttemptsNeverRefunded` are checked
without a heartbeat that gives up, because that breaks them (finding
`HeartbeatResurrects`); the properties of `OneProcessZombie` are those that must hold
even then. `ArmedOwnsLease` says nothing of the heartbeat a rejected `drive()` leaves behind: with three
workers and two heartbeats given up there is one, and it is robbed (section 5). `NoLeakedLease`, `NoCancelParked` and `ArmedOwnsLease` are properties of
one process; with two, counterexamples exist (section 5 and the hazards).

### 3.1 Bounds

* `MaxDisturbances` (3 in the one-process runs): how many environment events, of the
  kinds in `Disturbance`, a behaviour contains: pause, resume, cancel, throw,
  failover, failed lock, failed factory, crash, heartbeat given up. Lease expiry,
  heartbeats, recovery and timers are *not* bounded. Three events cover every
  pair of faults around a user's request; the findings need one or two.
* `MaxTurns = 2`: one turn that continues and one after it, the smallest log that has
  an order, a gap and a last turn. Past it the stop check at the top of the loop ends
  the run, as the checkpoint budget does.
* `MaxAttempts = 1`, the policy's maximum: a first recovery and the one that gives up. Failover switches may
  pass it; there are as many as there are disturbances (`SwitchesSoFar`).
* `MaxGen`: 8 in the one-process instances, above what the events allow; 2 and 4 in
  the two-process ones, where the clock alone drives takeovers and the refusal at the
  largest generation does fire.
* Two workers per process: one driving and its replacement. A slot returns to
  the pool when its `drive()` settles, so a third would only wait, except in `OneProcessZombie`: two workers
  that gave their heartbeats up can both be about while a third drives. That instance, with one turn and
  `MaxAttempts = 2`, was explored apart; it is what `ArmedOwnsLease` owes its exception to, and what it
  still leaves to say is proved for any number of workers (section 4.2).
* `TwoProcessTurns` has one disturbance, a cancel asked for in either process: the only
  way a worker meets a cancel at its turn boundary rather than on its own bus. What
  else two processes add, takeovers at every disk access, needs no disturbance. The
  instance passes ten million states as it stands, so it is reduced twice: by the symmetry that
  exchanges the processes together with their workers, and by the view `Alive`, which
  drops values no action reads before they are overwritten (a copy of the row in an
  idle actor, the result of a turn after its boundary). Both are sound for the
  safety properties of that run and no other run uses them.
* `Scheduler`: three operations; two share a lane of one slot, two in different lanes
  share a resource of which one needs a second as well, and the global cap is 2, so
  that lane, lock and global cap each stop the pump somewhere. `MaxEvents = 2` bounds
  retries, resumes, refused or lost leases and rejected factories. Four launch
  identities let a settled launch, its replacement and two others coexist.
* `SchedulerLiveness` uses two operations, because strong fairness over three is
  out of the time limit; the two need the same lock from different lanes.

* `Services`: two processes with one call of the lock each and one crash: enough for a
  holder, a waiter that reclaims, and a token left by the dead. (A second call of one of them
  was explored apart, with the same result.) Two turns, two instructions delivered
  up to twice, an ingress memory of two keys (256 in the code) and one crash, failed write or busy lock
  between any two steps. Two callers, three calls of which two share a preview, two cards, two ticks, a window of
  two, a suppression of one and a restart: a card and the ask that replaces it, an identical ask and one that only
  looks identical, an answer in and out of the window, before and after the restart. (Three ticks, with which a fresh ask may follow
  one that ran out, were explored apart: 633 k states, the same result.) Three frames, one failure and a client that moves between two processes. A batch of
  three rows behind an operation of its own and two crashes. Three children and two server crashes.
  An update of two files, one of which the first version lacks, over three versions, with three faults: one that
  cuts the update short, one that cuts its undoing short, and one more for the undoing of that, or for the second
  failure that triggers the repair.

### 3.2 Fairness

`CanonicalLoop`: weak fairness of each worker's own steps (every await settles and
the event loop runs what is ready), of the pump and timers, of a control call once
begun, of the janitor (it is an interval), and of a lease nobody renews running
out. No fairness is assumed of faults, of user calls, or of a heartbeat.

`Scheduler`: weak fairness of the pump (a pass is synchronous code), and strong
fairness of a factory or worker settling, of each timer, and of recovery for each
operation. Strong rather than weak, because a pump pass disables the others while it
runs; Node serves its task queues in order, so a ready callback is not passed over for
ever.

`OpLock`: a call runs on and its clock runs. `TurnCommit`: the scheduler pumps, a worker keeps driving,
the janitor keeps sweeping; no fairness of faults or of the user. `Approvals`: timers fire and
time passes; nobody has to answer.

### 3.3 Mutants

Operators named `<definition>_<What>` are mutated forms of the definition that follows
them, each a mistake one could make in that code (a dropped guard, an unread row, an
index too far). Substituting one makes the run named in `PROJECT.json` violate its
property. No specification uses them.

## 4. What is proved

### 4.1 The loop

`CanonicalLoopProofs` proves, for every set of processes and workers, every placement
of workers and every value of the bounds:

* **`TypeCorrect`**, `Spec => []TypeOK`. The content beyond types is that attempts,
  in the row and in every copy of it, never exceed the retry budget by more than the failover switches there were
  (recovery compares the row with the budget, an adapter retry its own copy, a switch nothing), that
  generations stay in range, and that nothing is committed without an outcome.
* **`TurnsWithoutGap`**, `Spec => []NoTurnGap`. It needs neither the lease nor the
  fence nor fairness: however many zombies and processes commit, no turn is
  published before the one below it.
* **`Invariance`**, the inductive invariant `IInv` that both rest on.
* **`LogIsFenced`**, `Spec /\ GenerationGrows => TurnLogAppendOnly /\ []GenerationsOrdered`: fencing, for any number of
  processes. `GenerationGrows` says that no step takes the lease generation of the row back.
* **`OnlyClearingRewinds`**: exactly one step of the system can, `ClearSignal`, the bare `writeOp` of a row read
  earlier with which a cancel clears its signal (`cancel-handler.ts:86`, `:74`, `:139`).
* **`LogIsFencedWithoutCancel`**: where nobody cancels, the turn log is safe with no hypothesis, for any number of
  processes and workers and every other fault.

Assumptions: `ConstantsAssumption` (workers have homes, processes and workers are
distinct, bounds are naturals) and `NoneIsNoArtifact`. TLC evaluates both in every run.

The argument. `NoTurnGap` is not inductive: a worker at index 5 could publish
over an empty log. `IInv` adds what the code maintains: `PublishedBehind`, every turn below
a worker's index is published (the index is read from the log by `Reconcile`, and then
moves by one); `PublishedHere`, a worker that went through the commit has its turn in the
log (so `NextTurn` may move on); and `CommitReady`, a worker at the fence holds an
outcome. Publishing never removes a turn, so another worker's commit disturbs none of
this. Every other step is `Quiet`: it publishes nothing and advances no one, and
`QuietTurnInv` disposes of it; each action has one step that says so. The
type half has one step per action as well; the operators shared by the actions (`Goto`,
`Persist`, `TransitionOp`, `Merge`, `Enqueue`, `Evict`, ...) each have a lemma.
`IInv` was model-checked on the one-process crash instance and on the two-process
instance before it was proved.

The fencing theorems add `FenceInv`: every claim was issued, by a generation the row has reached (`ClaimsIssued`); so was every
published turn's (`TurnsIssued`); and a worker that holds the *newest* claim is in step with the log
(`NewestInStep`): its index is the next one, its predecessor went on, and a commit or a projection it has under way
is that of the last turn. Workers with older claims may stand anywhere: `Owns` keeps them from publishing. A new
claim is newer than all of these only because the generation never falls, and that is the one hypothesis. It is
needed: with two processes and a cancel the invariant breaks in ten steps, when the pump of one
reads the row, a worker of the other takes the lease, and the pump writes the row back with the lease before.
`FenceInv` was model-checked with the rewinding steps taken out on instances of two processes with two and three workers.

### 4.2 One server process

`OneProcessProofs` is about the deployment that `datadir-lock.ts` is there to enforce. Its theorems hold for any number
of workers and every bound, under assumptions that the findings show to be needed:

* `OneProcess`: with two, `ArmedOwnsLease` fails at the first takeover (`CrossProcessTakeover`), and with it most of the rest.
* `NoGivingUp`: no heartbeat gives up under a worker that still runs. One that does leads to
  `HeartbeatResurrects`. Crashes, failed locks, throws and failovers are all allowed.
* `NoCrash`, for the last group only: a crash between two writes loses a cancel (`CrashDropsCancel`).

| Theorem | States | Assumes |
|---|---|---|
| `TurnsInLeaseOrder`, `TurnsOnlyAppended` | `[]GenerationsOrdered`, `TurnLogAppendOnly` | `OneProcess` |
| `ArmedWorkersOwn` | `[]ArmedOwnsLease` | `OneProcess` |
| `OneWorkerInFlight`, `NoLeaseLeaks` | `[]OneWorkerPerOp`, `[]NoLeakedLease` | and `NoGivingUp` |
| `MovesAreLegal`, `AttemptsGrow`, `EndsAsPublished` | `OnlyLegalMoves`, `AttemptsNeverRefunded`, `PublishedOutcomeStands` | and `NoGivingUp` |
| `NoCancelIsParked`, `CancelIsKept`, `LoopImplementsLifecycle` | `[]NoCancelParked`, `CancelNeverDropped`, `ImplementsLifecycle` | and `NoCrash` |

The first three rest on `Blocks`: an actor's place is inside a synchronous block exactly when the
process's event loop is its own. With one process nobody else is then in a block (`Alone`), so a row that is written back
whole was read in the same block and has the lease that is on disk (`ClearReadsLease`; `RowsReadAreCurrent`). So the
generation never falls, and the turn log is safe by `LogIsFenced`.

`ArmedWorkersOwn` adds `DutyInv`: nothing is queued behind a worker in flight (`QueuedAlone`), a worker is in flight from its slot to
its heartbeat, and an armed one holds both the lease and the slot (`OnDuty`). Three steps change the owner of the
row. A worker leases it only in flight, so nobody else is armed; a worker releases only what it owns; and recovery
passes over an armed owner of its own process. Everything else keeps lease and slots (`ServesOn`). Workers that gave their heartbeats up are
unarmed, so nothing is said of them, and nothing they write touches the lease.

The middle group rests on the invariant `Before` (`OneProcessInvariance`). None of its five properties is inductive,
for each depends on what a worker remembers across an `await`. For every worker, `Before` says which claim goes with
its place (`ClaimAt`), when it owns the row and is the one in flight (`LeaseAt`), what of its copy still agrees
with the row (`CopyAt`: state and attempts while it is armed, the lease too where it is written back whole), which states the row can be in while it drives
(`StateAt`), that no turn has ended the run while it goes on to another (`UndecidedAt`), and where its turn index stands
(`IndexAt`). For every process: what is queued while a worker is in flight (`QueueAt`), and what a control call has read
(`CallAt`). The lease is the hinge: recovery passes over an operation whose heartbeat is armed, so between two blocks of an
armed worker only signals change, and its copy stays true of everything `Persist` writes.

The last group adds the invariant `Calm`: whoever clears a signal is the one that closes the operation (`Closing`), a signal
on a running operation is being delivered, and turns into an abort where the worker awaits, so that its turn boundary finds none (`Course`), a paused operation with a signal is one that a
control call is cancelling at that moment (`Asked`), and a cancelling operation has the worker that aborts it (`Attended`). The refinement is then one lemma per action,
each a step of `OpLifecycle` or none (`LifeStep`). Both invariants were model-checked with four disturbances before they were
proved.

### 4.3 The scheduler

`SchedulerProofs`, for any operations, lanes, resources, caps and launches:

* **`SchedulerTypes`**, `Spec => []TypeOK`: beyond types, no lane counter passes its cap.
* **`LaunchedOnce`**, `Spec => []NoDoubleLaunch`.
* **`LocksAreBalanced`**, `Spec => []LocksBalanced`.
* **`SlotsAreBalanced`**, `Spec => []SlotsBalanced`, if the operations are finitely many and every row can
  be read (`Unreadable = {}`). Without the second it is false (section 5).
* **`SchedulerConservesWork`**, `Spec => []WorkConserving`, for finitely many operations.

Assumption: `SchedulerAssumption`, on the constants. The argument: the maps `launching`, `active`, `activeByLane`,
`held` and `activeLocks` are five records of one fact, which `launch()` calls in flight own a slot. `BooksInv` ties
them together: a slot's operation has one call that has not been evicted, that call's locks are those the slot
holds, no two slots hold one resource, and a call that was evicted owns nothing, so that its late `finally`
gives nothing back. `SlotsBalanced` needs cardinalities on top of that: a lane's counter is the number of
its slots, and each action adds or removes exactly one element. `WorkConserving` needs `PassedOver`: every entry
the pass under way has gone by cannot run, and stays so until the pass ends.

### 4.4 The components around it

* **`LockExcludes`** (`OpLockProofs`), `Spec => []HoldersExclude`, for any number of processes, calls and
  crashes. The invariant is about time: what a reclaimer has judged dead stays dead, unless the judgement was one
  of those `misjudged` records; so an erase that comes late takes nobody's lock away.
* **`UpdatesSurvive`** (`OpLockProofs`), `Spec => LockedUpdatesKept`. `RowInv` adds to the exclusion what a body has
  in hand: a copy that is the row, or a row that only unlocked bodies have changed since (`CopiesAreCurrent`), and no
  update that its caller has yet to write (`NothingUnwritten`).
* **`ReplaysRecordOnce`** and **`SuccessIsBacked`** (`TurnCommitProofs`), `TurnSpec => []EvidenceOnce` and
  `TurnSpec => []SucceededIsTold`, for any number of turns, instructions and faults. The invariant: a worker that
  goes on to another turn leaves behind a turn that is fully told and does not end the operation, and the turn
  that settles the operation is the last one published.
* **`ColumnIsABox`** and **`RedirectsAppliedOnce`** (`TurnCommitProofs`), `TurnSpec => ImplementsRedirectBox` and
  `TurnSpec => []Box!AppliedOnce`, if every redirect fits among the remembered keys (`Remembered`). `ColumnInv`
  says why nobody takes an instruction twice: the column holds a published instruction only between the publication of the
  last turn and the checkpoint that clears it, and in between no worker reaches the top of the loop
  (`ConsumedIsLast`); what is in hand, or comes in with a new key, no published turn carries. Then each action is one step of the box, or none:
  `StartTurn` is `Take`, `Publish` is `Apply`, `OpRedirect` is `Receive`, a lost turn is `PutBack`, and the projection is silent
  (`ProjectIsSilent`).
* **`NobodyRunsEarly`** and **`BatchesAreWhole`** (`DependenciesProofs`), `DepSpec => []RunsAfterPrerequisites` and
  `DepSpec => []BatchIsAtomic`, for any prerequisites, cyclic ones too, and any batch; `DepInvariance` is the
  invariant: a success is never taken back, and the manifest is there before anything of the batch starts.
* **`NoWakeUpIsLost`** (`DependenciesProofs`), `DepSpec => []QueuedIsAwaited`. `AwaitInv` says of every queued
  operation where it is looked after (`Awaited`): in the queue, registered with a prerequisite that has not ended,
  among the waiters the observers have yet to serve, or in the batch under admission. The case that needs more is
  a failed admission that takes rows away: nobody outside the batch names one of them (`PrerequisitesExist`, `NobodyNamesStaged`).
* **`NewestAskSurvives`** and **`NobodySpeaksForTheUser`** (`ServiceProofs`), `CardSpec => []NewestAskIsDurable` and
  `CardSpec => OutcomesAreTheUsers`, for any callers, calls, previews, cards and restarts. The property has three ways to be
  told an answer: on the click (`ByClick`), from the record, which is the newest ask's and is applied once, in its window
  (`ByRecord`), and by a fresh no to the same call (`ByReplay`). `ApprovalInv` ties the two records that
  outlive a card to what the user said: a decision in the column is the answer recorded on the newest card and not
  yet applied, and a refusal that is replayed as the user's is a no clicked on a card that is over, so that no later click
  turns it into a yes (`RefusalsAreOnRecord`).
* **`RecordedForWholePreviews`** (`ServiceProofs`): if no two calls share a preview, `CardSpec => RecordedForThisAsk`. So the
  cut of the preview is the whole cause of `PreviewCollision`.
* **`EventsAreNumbered`** (`ServiceProofs`), `LogSpec => []LogSequenced`, for any processes and mishaps. `LogInv`
  says that a cache is right about every file of the size it was left at (`CachesCount`) and that nobody has appended
  since a writer trusted its cache (`CachedIsNext`).
* **`ClientsMissNothing`** (`ServiceProofs`), `LogSpec => []ReceivedInOrder`, for any clients. `ClientInv` is about detached
  clients too: what the next replay of a client will pass over, it has received or is excused from (`NothingSkipped`);
  and a number it has marked as seen without a frame is one a failed append used up (`OnlyGivenOut`). The replay is a
  recursive function of the log. Induction theorems are out of the provers' reach, so `SinceIsTail` gives that function in closed form,
  shows that the form satisfies the recursion, and that two solutions agree: the indices up to which they agree
  hold 0 and successors, and a least exception would be a minimal set in a well-founded order (`UpTo`).
* **`DriversHoldTheirClaims`** (`ServiceProofs`), `ClaimSpec => []DriverHoldsClaim`, for any children.
* **`UpdateAtomicity`** (`ServiceProofs`), `UpdateSpec => []UpdateIsAtomic`, for any files, versions and
  faults, and **`UpdateTypeCorrect`**. `Promised` says what the status in the journal promises about files, backups
  and receipt; `Reached` adds what the phase knows. A fault erases the second and must keep the first:
  `InterruptedKeeps` is that argument, and the only place where torn files matter.

* **`LockTypeCorrect`**, **`TurnTypeCorrect`**, **`CardTypeCorrect`**, **`LogTypeCorrect`**, **`DepTypeCorrect`**,
  **`ClaimTypeCorrect`**: the type invariant of each component, with the bounds its variables respect.
* **`ServicesTypeCorrect`** and **`ServicesAreSafe`** (`CompositionProofs`): `ServicesSpec => []TypesOK`, and every safety
  property above of the composition that `Services` checks. A behaviour of the composition is a behaviour
  of each component's own specification (`EachPartIsItself`), since a step belongs to one and leaves the variables of the others
  alone (`OnlyOneMoves`).

Assumptions: `LockConstants`, `TurnConstants`, `ApprovalConstants`, `LogConstants`, `DepConstants`, `ClaimConstants` (no child is
numbered 0), `UpdateConstants`, `NoneIsNoWriter` and `Remembered` where it is named; all but the last are in the
module they are about and evaluated by TLC in the `Services` run, whose instance satisfies the last.

### 4.5 Model-checked only

* Liveness, for fairness is outside the prover: `CancelCompletes`, `EventuallySettles`, `QueueMoves`,
  `QueuedCancelCompletes`, `EveryCallReturns`, `EveryTurnTold`, `EveryAskSettles`.
* With two processes and cancels: `TurnLogAppendOnly` in `TwoProcessTurns`. `LogIsFenced` leaves it to the one
  write that can take the lease back. On that instance, and with three workers as far as a search of 38 steps
  went, no such write reaches the log; for more processes the theorem gives no answer, and the proof cannot
  do without its hypothesis.

## 5. What the runs found

Each is the subject of a run that TLC ends with a counterexample.

* **`HeartbeatResurrects`**: during a runtime failover await the heartbeat may give up and recovery
  may end the operation; the worker then writes its own copy over the terminal state: `running` with the
  attempt (`worker-adapter-retry.ts:58`), then `queued`.
  `handleAdapterRetry` never asks whether its lease still stands, against "terminal
  states are absorbing".
* **`CrossProcessTakeover`**: `hasArmedHeartbeat` is evidence of life in its own process only;
  the janitor of a second process takes the operation of a stalled worker, against
  "this can NEVER race a live worker".
* **`CrashDropsCancel`**: a crash between clearing the signal and closing the row loses a
  cancel that `opCancel` calls durable.
* **`TurnUnannounced`**: a fault between the terminal row and its `state_changed` event loses the
  event for good, against "a terminal state proves finalize completed".
* **`PreviewCollision`**: a decision recorded after a restart is matched by the tool and the first 500 characters of the
  arguments, so it is applied to a call that differs only past them, against "for THIS exact ask"
  (`approval-manager.ts:216`).

Known from the models, kept inside the properties as named exceptions:

* A lease with an armed heartbeat is taken in one process after all, where two earlier workers of the
  operation gave their heartbeats up during a failover (`OneProcessZombie` with three workers): the first writes a terminal state while the
  replacement is being launched, whose transition to `running` is then refused, so `drive()` rejects with its lease held and its
  heartbeat armed, and its slot is given back; the second writes `queued` over it and sets the retry timer; and when the
  lease of the rejected worker runs out, the next worker takes it. Both writes are the one of `HeartbeatResurrects`.
* The op lock is held twice after a misjudged token (`OpLock`), against
  "serialize" at `op-store.ts:172` and "can never hand out the same seq" at `store.ts:17`.
* An attached client does miss events (`EventLog`): the number of a failed `emit` is published and given
  again to the next event, which the client then drops; a frame whose `fsync` failed in
  `emitStrict` is told to nobody; a foreign process's frames never reach this process's bus. Each
  is against "callers never see a duplicate or a gap" (`control-api.ts:146`); a reconnect heals them.
* Two identical asks that both pass the coalescing check before the bridge is loaded put up two
  cards (`Approvals`), against `approval-manager.ts:195`.
* A child silent for ten minutes counts as dead although its pid exists, and is replaced while it
  drives (`ProcessClaim`).
* The second failed update in a row deletes the backups of a transaction that may have to be undone
  (`UpdateRollback`): the journal is republished from the anchor, every later restore finds its backups gone, and
  no update succeeds again, against "retry should start clean" (`update-pipeline.ts:317`) and "nothing in flight is
  worth preserving" (`update-recovery.ts:72`).
* When the confirmation of an update fails after its anchor says verified, and the rollback this triggers is cut
  short, the next recovery believes the anchor and drops the backups of a half restored install, against "the install
  is known good on two paths" (`ota-update.ts:261`).
* `evictWorker` decrements the lane only if the row can be read again (`scheduler.ts:349`), and nothing else gives that
  slot back: with an unreadable row `SlotsBalanced` fails, so the `Scheduler` run and the theorem assume readable ones.
* A failover switch counts as an attempt but is not compared with `maxRecoveryAttempts`
  (`runtime-failover.ts:213`), so an operation that switches often passes its budget.
* Two overlapping reconnects of one socket both subscribe (`chat-ws/reconnect-op.ts:49`, not
  modelled), against "keeps the socket at exactly one" at line 28.

Known and recorded as hazards: `applyPreLeaseCancel` does not look at the lease, so
the pump of one process may cancel an operation the worker of another has just
leased, which then publishes a turn of a cancelled operation (and its bare write is the only one that can rewind the lease
generation, `OnlyClearingRewinds`); an operation answered while a pause is pending, whose
projection is lost in a crash, is reported failed when its attempts are used up; two
processes can park an operation with a cancel, or leave `drive()` rejected with its
lease held, because the transition to `running` is outside the `try`.

## 6. Plan

The core came first because every other part reads or writes its row; the components
around it followed. What is left, in order:

1. Composition: `OpLock` under `EventLog` (numbers handed out under a lock held twice), and
   `ProcessClaim` with the lease of `CanonicalLoop` (a child replaced while it drives).
2. Containers: launch intents, their fencing by stopping the container, and the relay of
   control and output with its cursors.
3. A second server process in `Approvals` and `Dependencies`.
4. Beyond the loop, where control state is small and hazards real: cron (a job deleted while its run is
   in flight is armed again when the run ends; toggling it during a run leaves two timers), local runtimes
   (start, health, eviction), worktrees, the git path of the update and self-edits under the same lock, inbox
   delivery.

Theorems: every safety and action property of the passing runs is a theorem, for every value of the constants, but for the
two-process case of section 4.5. Next are theorems about the composition of item 1, and an account of when
the write that clears a cancel signal can reach the turn log of a second process. Runs stay few.

## 7. Not modelled, and why

`PROJECT.json` lists every component. In short: providers, transports and device I/O
(outside the program's control state); prompt assembly, memory, context and the guards'
heuristics (data, not control); sandboxing (operating-system mechanisms); the desktop
shell (packaging). Parts marked as candidates keep control state of their own and are
item 4 of the plan.
