--------------------------- MODULE UpdateRollback ---------------------------
(***************************************************************************)
(* A rolling update of an install without git: the journal of what it      *)
(* replaces, the backups, the copy, and the undoing of what was left half  *)
(* done, by the update that failed, by the next one, or at boot.           *)
(*                                                                         *)
(* The journal is kept twice: as the anchor, in the install, and beside    *)
(* the backups, in the data directory.  The anchor is written first.       *)
(*                                                                         *)
(* One durable write is one step; between any two a fault may throw or the *)
(* process may die, and a file being copied is then torn.  The machine-    *)
(* wide lock of applyRollingUpdate keeps other updates out, and boot runs  *)
(* before any update can be asked for.                                     *)
(***************************************************************************)
EXTENDS Naturals

CONSTANTS Files,        \* the files updates overwrite
          Arrives,      \* those that version 0 does not have
          MaxVersion,   \* bound: versions published
          Absent, Torn, \* no file; a file with part of its bytes
          NoJournal,
          MaxUpdateFaults     \* bound: failed steps and crashes

Versions == 0..MaxVersion
ContentOf(v, f) == IF v = 0 /\ f \in Arrives THEN Absent ELSE v
Tree(v) == [f \in Files |-> ContentOf(v, f)]

Statuses == {"backing-up", "active", "applied", "verified", "restored"}
Journal == [status : Statuses, entries : [Files -> Versions \cup {Absent, Torn}],
            previous : Versions, target : Versions]

ASSUME UpdateConstants ==
    /\ MaxVersion \in Nat /\ MaxUpdateFaults \in Nat
    /\ NoJournal \notin Journal

VARIABLES install,    \* the files of the install
          backup,     \* update-rollback/artifacts
          anchor,     \* the journal in the install, and the one it replaces
          journal,    \* update-rollback/transaction.json
          receipt,    \* installed-source.json
          health,     \* failures in a row, and whether they led to a repair
          phase,      \* what the process is doing, "up" or "down"
          why,        \* on whose behalf
          to,         \* the status being published
          left,       \* the files not yet copied
          updFaults,  \* faults so far
          undermined  \* history: the journal no longer describes the install

updateVars == <<install, backup, anchor, journal, receipt, health, phase, why,
                to, left, updFaults, undermined>>
disk == <<install, backup, anchor, journal, receipt, health>>

NoAnchor == [journal |-> NoJournal, was |-> NoJournal]
NoBackups == [f \in Files |-> Absent]

UpdateTypeOK ==
    /\ install \in [Files -> Versions \cup {Absent, Torn}]
    /\ backup \in [Files -> Versions \cup {Absent, Torn}]
    /\ anchor \in [journal : Journal \cup {NoJournal}, was : Journal \cup {NoJournal}]
    /\ journal \in Journal \cup {NoJournal}
    /\ receipt \in Versions
    /\ health \in [failures : Nat, repaired : BOOLEAN]
    /\ phase \in {"up", "down", "recover", "restore", "putback", "receipt", "clear",
                  "fetch", "backup", "copy", "report", "land", "mark",
                  "marked", "fail"}
    /\ why \in {"boot", "update", "copy", "verify"}
    /\ to \in Statuses /\ left \subseteq Files
    /\ updFaults \in 0..MaxUpdateFaults /\ undermined \in BOOLEAN

UpdateInit ==
    /\ install = Tree(0) /\ backup = NoBackups
    /\ anchor = NoAnchor /\ journal = NoJournal
    /\ receipt = 0 /\ health = [failures |-> 0, repaired |-> FALSE]
    /\ phase = "down" /\ why = "boot" /\ to = "backing-up" /\ left = {}
    /\ updFaults = 0 /\ undermined = FALSE

UpdatePending == anchor # NoAnchor
Status == anchor.journal.status
Entries == anchor.journal.entries
\* Some of its files may have been replaced: the backups are needed.
Undoable == UpdatePending /\ Status \in {"active", "applied"}
\* It is journalled as verified and is being undone all the same.
Disbelieved(files) == /\ UpdatePending /\ Status = "verified"
                      /\ files # Tree(anchor.journal.target)
Existed == {f \in Files : Entries[f] # Absent}

\* assertBound: both copies of the journal say the same.
Bound == UpdatePending /\ journal = anchor.journal

Goes(p) == phase' = p /\ UNCHANGED <<why, to, left>>
Calm == UNCHANGED <<updFaults, undermined>>

-----------------------------------------------------------------------------
(* The journal *)

\* read: the anchor's journal is republished over the one before it.
RollForward ==
    /\ phase \in {"recover", "restore"}
    /\ UpdatePending /\ journal \in {NoJournal, anchor.was} \ {anchor.journal}
    /\ journal' = anchor.journal
    /\ UNCHANGED <<install, backup, anchor, receipt, health, phase, why, to, left>>
    /\ Calm

\* persist and transition.
Marks(status) == phase' = "mark" /\ to' = status

PublishAnchor ==
    /\ phase = "mark" /\ Bound
    /\ anchor' = [journal |-> [anchor.journal EXCEPT !.status = to], was |-> journal]
    /\ Goes("marked") /\ Calm
    /\ UNCHANGED <<install, backup, journal, receipt, health>>

PublishJournal ==
    /\ phase = "marked"
    /\ journal' = anchor.journal
    /\ phase' = CASE to = "backing-up" -> "backup"
                  [] to = "active" -> "copy"
                  [] to = "applied" -> "report"
                  [] to = "verified" -> "up"
                  [] to = "restored" -> IF why = "copy" THEN "fail" ELSE "receipt"
    /\ left' = CASE to = "backing-up" -> Existed [] to = "active" -> Files [] OTHER -> {}
    /\ health' = IF to = "verified" THEN [failures |-> 0, repaired |-> FALSE] ELSE health
    /\ UNCHANGED <<install, backup, anchor, receipt, why, to>> /\ Calm

-----------------------------------------------------------------------------
(* recoverPendingUpdate *)

Boot == phase = "down" /\ phase' = "recover" /\ why' = "boot"
          /\ UNCHANGED <<disk, to, left>> /\ Calm
StartUpdate == phase = "up" /\ phase' = "recover" /\ why' = "update"
          /\ UNCHANGED <<disk, to, left>> /\ Calm

\* The install holds what the update brought.  Mutated form: it does as soon as
\* everything is copied.
KnownGood_Applied(status) == status \in {"applied", "verified"}
KnownGood(status) == status = "verified"

Recover ==
    /\ phase = "recover"
    /\ UpdatePending => Bound
    /\ Goes(CASE ~UpdatePending -> IF why = "boot" THEN "up" ELSE "fetch"
              [] UpdatePending /\ KnownGood(Status) -> "clear"
              [] UpdatePending /\ Status = "restored" -> "receipt"
              [] OTHER -> "restore")
    /\ UNCHANGED disk /\ Calm

\* The receipt names the version the files are back at.
PutBackReceipt ==
    /\ phase = "receipt" /\ Bound
    /\ receipt' = anchor.journal.previous
    /\ Goes(IF why = "verify" THEN "fail" ELSE "clear") /\ Calm
    /\ UNCHANGED <<install, backup, anchor, journal, health>>

\* clear: the data directory's half, in whatever order, then the anchor.
RemoveBackups ==
    /\ phase = "clear" /\ backup # NoBackups
    /\ backup' = NoBackups
    /\ UNCHANGED <<install, anchor, journal, receipt, health, phase, why, to, left>>
    /\ Calm
RemoveJournal ==
    /\ phase = "clear" /\ journal # NoJournal
    /\ journal' = NoJournal
    /\ UNCHANGED <<install, backup, anchor, receipt, health, phase, why, to, left>>
    /\ Calm
RemoveAnchor ==
    /\ phase = "clear" /\ backup = NoBackups /\ journal = NoJournal
    /\ anchor' = NoAnchor
    /\ Goes("recover") /\ Calm
    /\ UNCHANGED <<install, backup, journal, receipt, health>>

-----------------------------------------------------------------------------
(* restore *)

\* A transaction still backing up has replaced nothing.
NothingReplaced(status) == status = "backing-up"

BackupsHold == \A f \in Existed : backup[f] = Entries[f]

Restore ==
    /\ phase = "restore" /\ Bound
    /\ \/ /\ Status = "restored"
          /\ Goes(IF why = "copy" THEN "fail" ELSE "receipt")
       \/ /\ NothingReplaced(Status)
          /\ Marks("restored") /\ UNCHANGED <<why, left>>
       \/ /\ Status # "restored" /\ ~NothingReplaced(Status) /\ BackupsHold
          /\ phase' = "putback" /\ left' = Files /\ UNCHANGED <<why, to>>
       \/ /\ Status # "restored" /\ ~NothingReplaced(Status) /\ ~BackupsHold
          /\ Goes(IF why = "boot" THEN "up" ELSE "fail")
    /\ UNCHANGED disk /\ Calm

\* An entry that existed is copied back, one that did not is removed.
PutBack(f) ==
    /\ phase = "putback" /\ f \in left
    /\ install' = [install EXCEPT ![f] = Entries[f]]
    /\ left' = left \ {f}
    /\ UNCHANGED <<backup, anchor, journal, receipt, health, phase, why, to>> /\ Calm

FinishRestore ==
    /\ phase = "putback" /\ left = {}
    /\ Marks("restored")
    /\ UNCHANGED <<disk, why, left>> /\ Calm

-----------------------------------------------------------------------------
(* applyRollingUpdate, applyUpdate *)

UpToDate ==
    /\ phase = "fetch"
    /\ health' = [failures |-> 0, repaired |-> FALSE]
    /\ Goes("up") /\ Calm
    /\ UNCHANGED <<install, backup, anchor, journal, receipt>>

\* begin: a validated candidate of a later version.  Versions only add files;
\* the copy never removes one.
BeginUpdate(v) ==
    /\ phase = "fetch" /\ ~UpdatePending /\ v > receipt
    /\ anchor' = [journal |-> [status |-> "backing-up", entries |-> install,
                               previous |-> receipt, target |-> v],
                  was |-> NoJournal]
    /\ phase' = "marked" /\ to' = "backing-up" /\ UNCHANGED <<why, left>>
    /\ UNCHANGED <<install, backup, journal, receipt, health>> /\ Calm

BackUp(f) ==
    /\ phase = "backup" /\ f \in left
    /\ backup' = [backup EXCEPT ![f] = install[f]]
    /\ left' = left \ {f}
    /\ UNCHANGED <<install, anchor, journal, receipt, health, phase, why, to>> /\ Calm

Copy(f) ==
    /\ phase = "copy" /\ f \in left
    /\ install' = [install EXCEPT ![f] = ContentOf(anchor.journal.target, f)]
    /\ left' = left \ {f}
    /\ UNCHANGED <<backup, anchor, journal, receipt, health, phase, why, to>> /\ Calm

\* Every file is there: begin goes on to active, the copy to applied.
AllThere ==
    /\ left = {}
    /\ \/ phase = "backup" /\ Marks("active")
       \/ phase = "copy" /\ Marks("applied")
    /\ UNCHANGED <<disk, why, left>> /\ Calm

\* The update history.
ReportUpdate == phase = "report" /\ Goes("land") /\ UNCHANGED disk /\ Calm

\* Dependencies are synced, then the receipt is written, then confirmUpdate.
LandUpdate ==
    /\ phase = "land"
    /\ receipt' = anchor.journal.target
    /\ Marks("verified") /\ UNCHANGED <<why, left>> /\ Calm
    /\ UNCHANGED <<install, backup, anchor, journal, health>>

\* A failed update is counted, and the second in a row clears what it takes for
\* stale.  Failures count to REPAIR_THRESHOLD.
UpdateFails ==
    /\ phase = "fail"
    /\ IF health.failures >= 1 /\ ~health.repaired
       THEN /\ backup' = NoBackups /\ journal' = NoJournal
            /\ health' = [failures |-> 2, repaired |-> TRUE]
            /\ undermined' = (undermined \/ Undoable)
       ELSE /\ health' = [health EXCEPT !.failures = IF @ = 2 THEN 2 ELSE @ + 1]
            /\ UNCHANGED <<backup, journal, undermined>>
    /\ Goes("up")
    /\ UNCHANGED <<install, anchor, receipt, updFaults>>

-----------------------------------------------------------------------------
(* Faults *)

\* A fault leaves a file that was being written torn, or has not begun it.
Interrupted ==
    /\ updFaults < MaxUpdateFaults /\ updFaults' = updFaults + 1
    /\ \/ UNCHANGED <<install, backup>>
       \/ /\ phase \in {"copy", "putback"}
          /\ \E f \in left : install' = [install EXCEPT ![f] = Torn]
          /\ UNCHANGED backup
       \/ /\ phase = "backup"
          /\ \E f \in left : backup' = [backup EXCEPT ![f] = Torn]
          /\ UNCHANGED install
    /\ undermined' = (undermined \/ Disbelieved(install'))
    /\ UNCHANGED <<anchor, journal, receipt, health, to, left>>

Publishing(status) == phase \in {"mark", "marked"} /\ to = status

\* Who catches a throw: boot, which goes on without; the copy and the landing,
\* which undo; or the update, which fails.
UpdateThrows ==
    /\ phase \notin {"up", "down", "fail"}
    /\ \/ why = "boot" /\ phase' = "up" /\ UNCHANGED why
       \/ /\ why = "update"
          /\ phase \in {"copy", "report"} \/ Publishing("applied")
          /\ phase' = "restore" /\ why' = "copy"
       \/ /\ why = "update"
          /\ phase = "land" \/ Publishing("verified")
          /\ phase' = "restore" /\ why' = "verify"
       \/ /\ \/ why \in {"copy", "verify"}
             \/ /\ phase \notin {"copy", "report", "land"}
                /\ why = "update" /\ ~Publishing("applied") /\ ~Publishing("verified")
          /\ phase' = "fail" /\ UNCHANGED why
    /\ Interrupted

UpdateDies == phase \notin {"up", "down"} /\ phase' = "down" /\ UNCHANGED why /\ Interrupted

Shutdown == phase = "up" /\ Goes("down") /\ UNCHANGED disk /\ Calm

-----------------------------------------------------------------------------
UpdateNext ==
    \/ Boot \/ StartUpdate \/ Recover \/ RollForward \/ PublishAnchor \/ PublishJournal
    \/ PutBackReceipt \/ RemoveBackups \/ RemoveJournal \/ RemoveAnchor
    \/ Restore \/ FinishRestore
    \/ UpToDate \/ AllThere \/ ReportUpdate \/ LandUpdate \/ UpdateFails
    \/ \E v \in Versions : BeginUpdate(v)
    \/ \E f \in Files : PutBack(f) \/ BackUp(f) \/ Copy(f)
    \/ UpdateThrows \/ UpdateDies \/ Shutdown

UpdateSpec == UpdateInit /\ [][UpdateNext]_updateVars

-----------------------------------------------------------------------------
(* Properties *)

\* Nothing is left to undo, or the undoing has not begun.
Settled ==
    /\ phase \in {"up", "down"}
    /\ UpdatePending => Status \in {"backing-up", "verified"}

\* An update happens as a whole or not at all.  Whenever the server runs or is
\* down with nothing to undo, its files are one version and the receipt names
\* it; and as long as there is something to undo, the backups can undo it.  Two
\* ways out of this are known (undermined): the repair of repeated failures
\* deletes the backups of a transaction it cannot undo, and a verified update
\* whose confirmation failed is believed after its rollback was cut short.
UpdateIsAtomic ==
    ~undermined =>
      /\ Settled => install = Tree(receipt)
      /\ Undoable => Entries = Tree(anchor.journal.previous) /\ BackupsHold
=============================================================================
