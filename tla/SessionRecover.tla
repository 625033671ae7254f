--------------------------- MODULE SessionRecover ---------------------------
(***************************************************************************)
(* `session recover` and the servers it excludes.  session.db and its      *)
(* write-ahead log are damaged; recover copies what can still be read into *)
(* session.recover-tmp, moves the damaged family to session.db.bak-<ts>    *)
(* member by member, renames the copy into place and removes its marker.   *)
(* It keeps no record of its progress: a run that was cut short is resumed *)
(* by the next one from the files it finds.                                *)
(*                                                                         *)
(* A file is the set of event rows it holds.  The -shm member carries no   *)
(* row and is left out; for recover-tmp the presence of side files is kept.*)
(***************************************************************************)
EXTENDS Integers

CONSTANTS
    Rows,        \* rows of session_events and sessions
    Servers,     \* processes that open the session (servers and hooks)
    None,        \* no file
    MaxBackups,  \* bound: backup timestamps
    MaxFaults    \* bound: crashes, error returns and misjudgements

ASSUME RecoverAssumption ==
    /\ \A S \in SUBSET Rows : S # None
    /\ MaxBackups \in Nat /\ MaxFaults \in Nat

VARIABLES
    main,        \* session.db
    wal,         \* session.db-wal
    tmp,         \* session.recover-tmp
    tmpSide,     \* recover-tmp has side files or no schema yet
    bakMain,     \* session.db.bak-<ts>
    bakWal,      \* session.db.bak-<ts>-wal
    lastTs,      \* the latest timestamp given to a backup
    marker,      \* session.recover-pending exists
    pc,          \* where recover is; it holds session.lock unless "idle"
    server,      \* the shared leases on session.lock
    unreadable,  \* rows on damaged pages
    acked,       \* history: rows whose append was acknowledged
    faults,      \* history: faults so far
    partial,     \* history: a rescue returned an error half-way
    misjudged,   \* history: a complete copy was passed over, or was lost
                 \* while the log was split from its database
    restoreCut   \* history: a restore was cut between a log and its database
                 \* and has not been completed since

family == <<main, wal>>
copy   == <<tmp, tmpSide>>
backup == <<bakMain, bakWal, lastTs>>
ghost  == <<partial, misjudged, restoreCut>>
vars   == <<family, copy, backup, marker, pc, server, unreadable, acked, faults, ghost>>

File == (SUBSET Rows) \cup {None}

RowsIn(f) == IF f = None THEN {} ELSE f

Steps == {"idle", "mark", "judge", "complete", "restoreWal", "restoreMain", "clear",
          "rescue", "verify", "backupWal", "backupMain", "publish", "sweep", "unmark"}

TypeOK ==
    /\ main \in File /\ wal \in File /\ tmp \in File
    /\ tmpSide \in BOOLEAN
    /\ bakMain \in [1..MaxBackups -> File]
    /\ bakWal \in [1..MaxBackups -> File]
    /\ lastTs \in 0..MaxBackups
    /\ marker \in BOOLEAN
    /\ pc \in Steps
    /\ server \in [Servers -> {"off", "leased", "open"}]
    /\ unreadable \subseteq Rows /\ acked \subseteq Rows
    /\ faults \in 0..MaxFaults
    /\ partial \in BOOLEAN /\ misjudged \in BOOLEAN /\ restoreCut \in BOOLEAN

Init ==
    /\ main = None /\ wal = None /\ tmp = None /\ tmpSide = FALSE
    /\ bakMain = [t \in 1..MaxBackups |-> None]
    /\ bakWal = [t \in 1..MaxBackups |-> None]
    /\ lastTs = 0
    /\ marker = FALSE
    /\ pc = "idle"
    /\ server = [s \in Servers |-> "off"]
    /\ unreadable = {} /\ acked = {}
    /\ faults = 0
    /\ partial = FALSE /\ misjudged = FALSE /\ restoreCut = FALSE

(* What SQLite makes of session.db and its log. *)
Stored == RowsIn(main) \cup RowsIn(wal)
Readable == Stored \ unreadable
Corrupt == main # None /\ Stored \cap unreadable # {}

BackedUpMain == \E t \in 1..MaxBackups : bakMain[t] # None

(* A log in the backups whose database was not moved with it. *)
Orphan(t) == bakMain[t] = None /\ bakWal[t] # None
SplitBackup == \E t \in 1..MaxBackups : Orphan(t)

Fault == faults < MaxFaults /\ faults' = faults + 1

-----------------------------------------------------------------------------
(* Servers and hooks: Open, appendEvent, Close. *)

(* acquireSharedLease does not wait. *)
OpenLease(s) ==
    /\ server[s] = "off"
    /\ pc = "idle"
    /\ server' = [server EXCEPT ![s] = "leased"]
    /\ UNCHANGED <<family, copy, backup, marker, pc, unreadable, acked, faults, ghost>>

(* Mutant: the marker is not looked for. *)
OpenDBIgnoresMarker(s) ==
    /\ server[s] = "leased"
    /\ server' = [server EXCEPT ![s] = "open"]
    /\ main' = IF main = None THEN {} ELSE main
    /\ UNCHANGED <<wal, copy, backup, marker, pc, unreadable, acked, faults, ghost>>

(* checkRecoverMarker, then the database is created or opened; quickCheck  *)
(* lets an undecided check pass, so a damaged database may be opened.      *)
OpenDB(s) ==
    /\ server[s] = "leased"
    /\ ~marker
    /\ server' = [server EXCEPT ![s] = "open"]
    /\ main' = IF main = None THEN {} ELSE main
    /\ UNCHANGED <<wal, copy, backup, marker, pc, unreadable, acked, faults, ghost>>

(* ErrRecoverPending, ErrCorrupt, or any other error of Open: the deferred *)
(* release gives the lease back.                                           *)
OpenRefused(s) ==
    /\ server[s] = "leased"
    /\ server' = [server EXCEPT ![s] = "off"]
    /\ UNCHANGED <<family, copy, backup, marker, pc, unreadable, acked, faults, ghost>>

appendEvent(s) ==
    /\ server[s] = "open"
    /\ \E e \in Rows \ acked :
         /\ wal' = RowsIn(wal) \cup {e}
         /\ acked' = acked \cup {e}
    /\ UNCHANGED <<main, copy, backup, marker, pc, server, unreadable, faults, ghost>>

(* Close checkpoints and truncates the log and gives the lease back; a     *)
(* crash leaves the log as it is.                                          *)
Close(s) ==
    /\ server[s] = "open"
    /\ main' = RowsIn(main) \cup RowsIn(wal)
    /\ wal' = None
    /\ server' = [server EXCEPT ![s] = "off"]
    /\ UNCHANGED <<copy, backup, marker, pc, unreadable, acked, faults, ghost>>

ServerCrash(s) ==
    /\ server[s] # "off"
    /\ server' = [server EXCEPT ![s] = "off"]
    /\ UNCHANGED <<family, copy, backup, marker, pc, unreadable, acked, faults, ghost>>

(* Pages of the live family go bad. *)
Damage ==
    /\ pc = "idle" /\ ~marker
    /\ \E D \in SUBSET Stored : D # {} /\ unreadable' = unreadable \cup D
    /\ Fault
    /\ UNCHANGED <<family, copy, backup, marker, pc, server, acked, ghost>>

-----------------------------------------------------------------------------
(* Recover. *)

Goto(step) == pc' = step

(* The exclusive lock is not waited for.  A healthy (or undecided) database *)
(* without a marker is a no-op.                                            *)
RecoverStart ==
    /\ pc = "idle"
    /\ \A s \in Servers : server[s] = "off"
    /\ marker \/ Corrupt
    /\ Goto(IF marker THEN "judge" ELSE "mark")
    /\ UNCHANGED <<family, copy, backup, marker, server, unreadable, acked, faults, ghost>>

CreateMarker ==
    /\ pc = "mark"
    /\ marker' = TRUE
    /\ Goto("clear")
    /\ UNCHANGED <<family, copy, backup, server, unreadable, acked, faults, ghost>>

(* Mutant: the copy is resumed from only once session.db is gone. *)
TmpHealthyWithoutDB == tmp # None /\ ~tmpSide /\ main = None

TmpIsHealthy == tmp # None /\ ~tmpSide

(* A healthy copy is published before anything else is considered; what is *)
(* left of the original is backed up first.                                *)
ResumePublishFromTmp ==
    /\ pc = "judge"
    /\ TmpIsHealthy
    /\ Goto(IF main # None THEN "backupWal" ELSE "publish")
    /\ UNCHANGED <<family, copy, backup, marker, server, unreadable, acked, faults, ghost>>

TmpNotHealthy ==
    /\ pc = "judge"
    /\ ~TmpIsHealthy
    /\ Goto("complete")
    /\ UNCHANGED <<family, copy, backup, marker, server, unreadable, acked, faults, ghost>>

(* Any error while the copy is opened or checked, and side files that an   *)
(* earlier read left behind, count as not healthy.                         *)
TmpMisjudged ==
    /\ pc = "judge"
    /\ TmpIsHealthy
    /\ Fault
    /\ misjudged' = TRUE
    /\ Goto("complete")
    /\ UNCHANGED <<family, copy, backup, marker, server, unreadable, acked, partial, restoreCut>>

(* publishAlreadyComplete: only the marker is left to remove. *)
PublishAlreadyComplete ==
    /\ pc = "complete"
    /\ main # None /\ ~Corrupt /\ BackedUpMain
    /\ Goto("unmark")
    /\ UNCHANGED <<family, copy, backup, marker, server, unreadable, acked, faults, ghost>>

(* Mutant: no restore when session.db is missing. *)
PublishIncompleteNoRestore ==
    /\ pc = "complete"
    /\ main # None
    /\ Goto("clear")
    /\ UNCHANGED <<family, copy, backup, marker, server, unreadable, acked, faults, ghost>>

(* The strict check is negative or undecided. *)
PublishIncomplete ==
    /\ pc = "complete"
    /\ main # None \/ BackedUpMain
    /\ Goto(IF main = None THEN "restoreWal" ELSE "clear")
    /\ UNCHANGED <<family, copy, backup, marker, server, unreadable, acked, faults, ghost>>

IsLatestMain(t) ==
    /\ bakMain[t] # None
    /\ \A u \in 1..MaxBackups : bakMain[u] # None => u <= t

(* restoreLatestBackup: the log first, the database last. *)
RestoreWal ==
    /\ pc = "restoreWal"
    /\ \E t \in 1..MaxBackups :
         /\ IsLatestMain(t)
         /\ wal' = IF bakWal[t] = None THEN wal ELSE bakWal[t]
         /\ bakWal' = [bakWal EXCEPT ![t] = None]
    /\ Goto("restoreMain")
    /\ UNCHANGED <<main, copy, bakMain, lastTs, marker, server, unreadable, acked, faults, ghost>>

RestoreMain ==
    /\ pc = "restoreMain"
    /\ \E t \in 1..MaxBackups :
         /\ IsLatestMain(t)
         /\ main' = bakMain[t]
         /\ bakMain' = [bakMain EXCEPT ![t] = None]
    /\ restoreCut' = FALSE
    /\ Goto("clear")
    /\ UNCHANGED <<wal, copy, bakWal, lastTs, marker, server, unreadable, acked, faults,
                   partial, misjudged>>

(* rescueAll: the old copy is removed and a new one created with side files, *)
(* then every readable row is copied and the connection closed.            *)
RescueBegin ==
    /\ pc = "clear"
    /\ tmp' = {} /\ tmpSide' = TRUE
    /\ Goto("rescue")
    /\ UNCHANGED <<family, backup, marker, server, unreadable, acked, faults, ghost>>

(* Mutant: the original is read without its log. *)
RescueWithoutLog ==
    /\ pc = "rescue"
    /\ tmp' = RowsIn(main) \ unreadable /\ tmpSide' = FALSE
    /\ Goto("verify")
    /\ UNCHANGED <<family, backup, marker, server, unreadable, acked, faults, ghost>>

RescueAll ==
    /\ pc = "rescue"
    /\ tmp' = Readable /\ tmpSide' = FALSE
    /\ Goto("verify")
    /\ UNCHANGED <<family, backup, marker, server, unreadable, acked, faults, ghost>>

(* An error that is not "malformed" (a busy or failing read, a row that    *)
(* cannot be scanned or inserted) ends the rescue; the deferred Close      *)
(* still folds what was copied into a single healthy file.                 *)
RescueError ==
    /\ pc = "rescue"
    /\ Fault
    /\ \E S \in SUBSET Readable : S # Readable /\ tmp' = S
    /\ tmpSide' = FALSE
    /\ partial' = TRUE
    /\ Goto("idle")
    /\ UNCHANGED <<family, backup, marker, server, unreadable, acked, misjudged, restoreCut>>

VerifyRescued ==
    /\ pc = "verify"
    /\ tmpSide' = FALSE
    /\ Goto("backupWal")
    /\ UNCHANGED <<family, tmp, backup, marker, server, unreadable, acked, faults, ghost>>

(* Mutant: the log is left where it is. *)
BackupSkipsLog ==
    /\ pc = "backupWal"
    /\ lastTs < MaxBackups
    /\ lastTs' = lastTs + 1
    /\ Goto("backupMain")
    /\ UNCHANGED <<family, bakMain, bakWal, copy, marker, server, unreadable, acked, faults, ghost>>

(* backupOriginal: a new timestamp, the log first, the database last. *)
BackupWal ==
    /\ pc = "backupWal"
    /\ lastTs < MaxBackups
    /\ lastTs' = lastTs + 1
    /\ bakWal' = [bakWal EXCEPT ![lastTs + 1] = wal]
    /\ wal' = None
    /\ Goto("backupMain")
    /\ UNCHANGED <<main, bakMain, copy, marker, server, unreadable, acked, faults, ghost>>

BackupMain ==
    /\ pc = "backupMain"
    /\ bakMain' = [bakMain EXCEPT ![lastTs] = main]
    /\ main' = None
    /\ Goto("publish")
    /\ UNCHANGED <<wal, copy, bakWal, lastTs, marker, server, unreadable, acked, faults, ghost>>

(* finishPublish: rename, then sweepOrphanBackups. *)
FinishPublish ==
    /\ pc = "publish"
    /\ main' = tmp /\ tmp' = None
    /\ Goto("sweep")
    /\ UNCHANGED <<wal, tmpSide, backup, marker, server, unreadable, acked, faults, ghost>>

SweepOrphanBackups ==
    /\ pc = "sweep"
    /\ bakWal' = [t \in 1..MaxBackups |-> IF Orphan(t) THEN None ELSE bakWal[t]]
    /\ Goto("unmark")
    /\ UNCHANGED <<family, copy, bakMain, lastTs, marker, server, unreadable, acked, faults, ghost>>

RemoveMarker ==
    /\ pc = "unmark"
    /\ marker' = FALSE
    /\ Goto("idle")
    /\ UNCHANGED <<family, copy, backup, server, unreadable, acked, faults, ghost>>

(* recover dies or a step of it returns an error; the lock is released. *)
RecoverStops ==
    /\ pc # "idle"
    /\ Fault
    /\ Goto("idle")
    /\ restoreCut' = (restoreCut \/ (pc = "restoreMain" /\ wal # None))
    /\ UNCHANGED <<family, copy, backup, marker, server, unreadable, acked, partial, misjudged>>

(* The copy disappears between two runs (the case restoreLatestBackup is for). *)
TmpLost ==
    /\ pc = "idle" /\ marker /\ tmp # None
    /\ Fault
    /\ tmp' = None /\ tmpSide' = FALSE
    /\ misjudged' = IF SplitBackup THEN TRUE ELSE misjudged
    /\ UNCHANGED <<family, backup, marker, pc, server, unreadable, acked, partial, restoreCut>>

RecoverStep ==
    \/ CreateMarker \/ ResumePublishFromTmp \/ TmpNotHealthy
    \/ PublishAlreadyComplete \/ PublishIncomplete
    \/ RestoreWal \/ RestoreMain
    \/ RescueBegin \/ RescueAll \/ VerifyRescued
    \/ BackupWal \/ BackupMain
    \/ FinishPublish \/ SweepOrphanBackups \/ RemoveMarker

RecoverFault == RescueError \/ TmpMisjudged \/ RecoverStops \/ TmpLost

ServerStep(s) ==
    \/ OpenLease(s) \/ OpenDB(s) \/ OpenRefused(s)
    \/ appendEvent(s) \/ Close(s) \/ ServerCrash(s)

Next ==
    \/ \E s \in Servers : ServerStep(s)
    \/ Damage
    \/ RecoverStart \/ RecoverStep
    \/ RecoverFault

Spec == Init /\ [][Next]_vars

(* A started recover runs on; the command is repeated until it finds the   *)
(* lock free; an Open that found the marker returns.                       *)
FairSpec ==
    /\ Spec
    /\ SF_vars(RecoverStart)
    /\ WF_vars(RecoverStep)
    /\ \A s \in Servers : WF_vars(OpenRefused(s))

-----------------------------------------------------------------------------
(* Properties. *)

Survives(kept) == acked \ unreadable \subseteq kept

InBackups == UNION {RowsIn(bakMain[t]) \cup RowsIn(bakWal[t]) : t \in 1..MaxBackups}

(* Once recovery is over, and before it starts, session.db and its log     *)
(* hold every acknowledged row that is not on a damaged page, wherever the *)
(* runs before were cut; the exceptions are a rescue that returned half-way *)
(* and a complete copy that was passed over.  (Recover.)                   *)
NoReadableRowLost == ~marker /\ ~partial /\ ~misjudged => Survives(Stored)

(* With the same exceptions a readable row is always in some file, also    *)
(* between any two steps of a recovery that is under way or was cut short. *)
(* (Recover moves the original and deletes only what it has elsewhere.)    *)
EvidenceKept ==
    ~partial /\ ~misjudged => Survives(Stored \cup RowsIn(tmp) \cup InBackups)

(* While the marker stands no server has the session open, so the family   *)
(* is only read.  (Open takes the lease before it looks for the marker;    *)
(* Recover holds the lock exclusively when it writes the marker.)          *)
MarkerKeepsServersOut ==
    \A s \in Servers : server[s] = "open" => ~marker /\ main # None

(* The published copy comes to lie beside the log of the database it        *)
(* replaces in one case only: a restore was cut after it put that log back  *)
(* and before it put its database back, and was never completed.  However   *)
(* often recovery was killed or misjudged a copy otherwise, the log is gone *)
(* first.  (backupOriginal moves the log before the database.)              *)
NoForeignLog == pc = "sweep" /\ wal # None => restoreCut

(* A recovery that was begun is finished by later runs, whatever its       *)
(* earlier runs left behind: servers are not locked out for good.          *)
RecoveryFinishes == marker ~> ~marker

-----------------------------------------------------------------------------
(* What comments of recover.go claim and the code does not give. *)

(* A healthy copy found under the marker is complete, so publishing it     *)
(* loses no readable row.                                                  *)
HealthyTmpIsComplete == ~marker /\ ~misjudged => Survives(Stored)

(* A restore that was cut is completed by the next run before anything is  *)
(* published, so a copy is not published beside the log it put back.       *)
CutRestoreIsCompleted == restoreCut => pc # "publish"

=============================================================================
