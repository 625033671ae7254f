-------------------------- MODULE MaintenanceProofs --------------------------
(***************************************************************************)
(* The commands a user repairs and empties a store with, recover and       *)
(* purge, the one that takes the hooks out of his settings, and the logs   *)
(* that doctor tells him of purges from.                                   *)
(*                                                                         *)
(* Recovery is safe for any set of rows and servers and any number of      *)
(* faults.  The inductive invariant has a part on who may act (ControlInv),*)
(* one on which files exist at each step (FilesInv, and LogInv as long as  *)
(* no copy was misjudged) and one on where the readable rows are (RowsInv).*)
(*                                                                         *)
(* Purge is truthful for any projects, worktrees and requests.  Its        *)
(* invariant has a part on what led the command to where it is (Route),    *)
(* one on what it may have deleted (NothingUnasked) and one on what it     *)
(* still has to do (Progress).                                             *)
(*                                                                         *)
(* Uninstalling spares the user for settings files with any number of      *)
(* groups: the invariant is the shape of a file (SettingsFile), the rest   *)
(* is a fact about what is left of one (LeftIs, OthersStay, ClassesAddUp). *)
(*                                                                         *)
(* Doctor reports what was written for logs of any length, whatever each   *)
(* append was cut to: the invariant is about the cells around a status in  *)
(* a line (LineInv), and each record keeps it (RecordKeepsLine).           *)
(***************************************************************************)
EXTENDS SessionRecover, PurgeCommand, MCAlgorithms, FiniteSetTheorems, WellFoundedInduction, TLAPS

Alive == acked \ unreadable

(* The family left in place, or the latest backup (with a log that is      *)
(* already on its way back), holds every readable row.                     *)
FamilyHolds(t) ==
    Alive \subseteq RowsIn(bakMain[t]) \cup RowsIn(bakWal[t]) \cup RowsIn(wal)

OriginalWhole ==
    \/ main # None /\ Alive \subseteq Stored
    \/ main = None /\ \E t \in 1..MaxBackups : IsLatestMain(t) /\ FamilyHolds(t)

ControlInv ==
    /\ pc # "idle" => \A s \in Servers : server[s] = "off"
    /\ MarkerKeepsServersOut
    /\ pc \notin {"idle", "mark"} => marker
    /\ pc = "mark" => ~marker /\ main # None
    /\ pc = "backupMain" => lastTs > 0
    /\ \A t \in 1..MaxBackups : t > lastTs => bakMain[t] = None /\ bakWal[t] = None

FilesInv ==
    /\ pc \in {"verify", "backupWal", "backupMain", "publish"} => TmpIsHealthy
    /\ pc \in {"clear", "rescue", "verify", "backupWal", "backupMain", "sweep", "unmark"}
         => main # None
    /\ pc \in {"restoreWal", "restoreMain", "publish"} => main = None
    /\ pc = "backupMain" => wal = None
    /\ marker /\ main = None /\ wal # None => pc = "restoreMain" \/ restoreCut
    /\ pc = "sweep" /\ wal # None => restoreCut

LogInv ==
    ~misjudged =>
        /\ ~marker => ~TmpIsHealthy
        /\ pc \in {"complete", "restoreWal", "restoreMain", "clear", "rescue", "sweep", "unmark"}
             => ~TmpIsHealthy
        /\ pc \in {"publish", "sweep"} => wal = None
        /\ TmpIsHealthy /\ main = None => wal = None

RowsInv ==
    ~misjudged /\ ~partial =>
        /\ ~marker => Alive \subseteq Stored
        /\ TmpIsHealthy => Alive \subseteq tmp
        /\ marker => TmpIsHealthy \/ OriginalWhole
        /\ marker => SplitBackup \/ OriginalWhole
        /\ pc = "backupMain" =>
             \/ \E t \in 1..MaxBackups : t # lastTs /\ Orphan(t)
             \/ Alive \subseteq RowsIn(main) \cup RowsIn(bakWal[lastTs])
        /\ marker /\ main = None /\ wal # None =>
             \A t \in 1..MaxBackups : IsLatestMain(t) => bakWal[t] = None
        /\ pc = "restoreMain" =>
             \A t \in 1..MaxBackups : IsLatestMain(t) => bakWal[t] = None

(* The state of recover stays well typed. *)
THEOREM RecoverTypeCorrect == Spec => []TypeOK
<1>1. Init => TypeOK
  <2> SUFFICES ASSUME Init PROVE TypeOK
    OBVIOUS
  <2>1. lastTs \in 0..MaxBackups /\ faults \in 0..MaxFaults
    BY RecoverAssumption DEF Init
  <2>2. bakMain \in [1..MaxBackups -> File] /\ bakWal \in [1..MaxBackups -> File]
    BY DEF Init, File
  <2> QED BY <2>1, <2>2 DEF Init, TypeOK, File, Steps
<1>2. TypeOK /\ [Next]_vars => TypeOK'
  <2> SUFFICES ASSUME TypeOK, [Next]_vars PROVE TypeOK'
    OBVIOUS
  <2> USE RecoverAssumption DEF TypeOK, File, Steps, RowsIn
  <2>1. ASSUME NEW s \in Servers, ServerStep(s) PROVE TypeOK'
    <3>1. CASE OpenLease(s) BY <3>1 DEF OpenLease, family, copy, backup, ghost
    <3>2. CASE OpenDB(s) BY <3>2 DEF OpenDB, family, copy, backup, ghost
    <3>3. CASE OpenRefused(s) BY <3>3 DEF OpenRefused, family, copy, backup, ghost
    <3>4. CASE appendEvent(s) BY <3>4 DEF appendEvent, family, copy, backup, ghost
    <3>5. CASE Close(s) BY <3>5 DEF Close, family, copy, backup, ghost
    <3>6. CASE ServerCrash(s) BY <3>6 DEF ServerCrash, family, copy, backup, ghost
    <3> QED BY <2>1, <3>1, <3>2, <3>3, <3>4, <3>5, <3>6 DEF ServerStep
  <2>2. CASE Damage
    BY <2>2 DEF Damage, Fault, Stored, family, copy, backup, ghost
  <2>3. CASE RecoverStart
    BY <2>3 DEF RecoverStart, Goto, family, copy, backup, ghost
  <2>4. CASE RecoverStep
    <3> USE DEF Goto, family, copy, backup, ghost
    <3>1. CASE CreateMarker BY <3>1 DEF CreateMarker
    <3>2. CASE ResumePublishFromTmp BY <3>2 DEF ResumePublishFromTmp
    <3>3. CASE TmpNotHealthy BY <3>3 DEF TmpNotHealthy
    <3>4. CASE PublishAlreadyComplete BY <3>4 DEF PublishAlreadyComplete
    <3>5. CASE PublishIncomplete BY <3>5 DEF PublishIncomplete
    <3>6. CASE RestoreWal BY <3>6 DEF RestoreWal
    <3>7. CASE RestoreMain BY <3>7 DEF RestoreMain
    <3>8. CASE RescueBegin BY <3>8 DEF RescueBegin
    <3>9. CASE RescueAll BY <3>9 DEF RescueAll, Readable, Stored
    <3>10. CASE VerifyRescued BY <3>10 DEF VerifyRescued
    <3>11. CASE BackupWal BY <3>11 DEF BackupWal
    <3>12. CASE BackupMain BY <3>12 DEF BackupMain
    <3>13. CASE FinishPublish BY <3>13 DEF FinishPublish
    <3>14. CASE SweepOrphanBackups BY <3>14 DEF SweepOrphanBackups
    <3>15. CASE RemoveMarker BY <3>15 DEF RemoveMarker
    <3> QED
      BY <2>4, <3>1, <3>2, <3>3, <3>4, <3>5, <3>6, <3>7, <3>8, <3>9, <3>10, <3>11,
         <3>12, <3>13, <3>14, <3>15 DEF RecoverStep
  <2>5. CASE RecoverFault
    <3> USE DEF Goto, Fault, family, copy, backup, ghost
    <3>1. CASE RescueError
      <4>1. tmp' \in File
        BY <3>1 DEF RescueError, Readable, Stored
      <4>2. faults' \in 0..MaxFaults
        BY <3>1 DEF RescueError
      <4> QED BY <3>1, <4>1, <4>2 DEF RescueError
    <3>2. CASE TmpMisjudged BY <3>2 DEF TmpMisjudged
    <3>3. CASE RecoverStops BY <3>3 DEF RecoverStops
    <3>4. CASE TmpLost
      <4>1. misjudged' \in BOOLEAN
        <5>1. CASE SplitBackup BY <3>4, <5>1 DEF TmpLost
        <5>2. CASE ~SplitBackup BY <3>4, <5>2 DEF TmpLost
        <5> QED BY <5>1, <5>2
      <4>2. faults' \in 0..MaxFaults
        BY <3>4 DEF TmpLost
      <4> QED BY <3>4, <4>1, <4>2 DEF TmpLost
    <3> QED BY <2>5, <3>1, <3>2, <3>3, <3>4 DEF RecoverFault
  <2>6. CASE UNCHANGED vars
    BY <2>6 DEF vars, family, copy, backup, ghost
  <2> QED BY <2>1, <2>2, <2>3, <2>4, <2>5, <2>6 DEF Next
<1> QED BY <1>1, <1>2, PTL DEF Spec

(* Locks and the marker: who may act. *)
LEMMA ControlStep ==
    ASSUME TypeOK, ControlInv, [Next]_vars
    PROVE  ControlInv'
<1> USE RecoverAssumption DEF TypeOK, ControlInv, MarkerKeepsServersOut, File, RowsIn, Goto,
            family, copy, backup, ghost
<1>1. ASSUME NEW s \in Servers, ServerStep(s) PROVE ControlInv'
  <2>1. CASE OpenLease(s)
    BY <2>1 DEF OpenLease
  <2>2. CASE OpenDB(s)
    BY <2>2 DEF OpenDB
  <2>3. CASE OpenRefused(s)
    BY <2>3 DEF OpenRefused
  <2>4. CASE appendEvent(s)
    BY <2>4 DEF appendEvent
  <2>5. CASE Close(s)
    BY <2>5 DEF Close
  <2>6. CASE ServerCrash(s)
    BY <2>6 DEF ServerCrash
  <2> QED BY <1>1, <2>1, <2>2, <2>3, <2>4, <2>5, <2>6 DEF ServerStep
<1>2. CASE Damage
  BY <1>2 DEF Damage
<1>3. CASE RecoverStart
  BY <1>3 DEF RecoverStart, Corrupt
<1>4. CASE RecoverStep
  <2>1. CASE CreateMarker
    BY <2>1 DEF CreateMarker
  <2>2. CASE ResumePublishFromTmp
    BY <2>2 DEF ResumePublishFromTmp
  <2>3. CASE TmpNotHealthy
    BY <2>3 DEF TmpNotHealthy
  <2>4. CASE PublishAlreadyComplete
    BY <2>4 DEF PublishAlreadyComplete
  <2>5. CASE PublishIncomplete
    BY <2>5 DEF PublishIncomplete
  <2>6. CASE RestoreWal
    BY <2>6 DEF RestoreWal
  <2>7. CASE RestoreMain
    BY <2>7 DEF RestoreMain
  <2>8. CASE RescueBegin
    BY <2>8 DEF RescueBegin
  <2>9. CASE RescueAll
    BY <2>9 DEF RescueAll
  <2>10. CASE VerifyRescued
    BY <2>10 DEF VerifyRescued
  <2>11. CASE BackupWal
    BY <2>11 DEF BackupWal
  <2>12. CASE BackupMain
    BY <2>12 DEF BackupMain
  <2>13. CASE FinishPublish
    BY <2>13 DEF FinishPublish
  <2>14. CASE SweepOrphanBackups
    BY <2>14 DEF SweepOrphanBackups
  <2>15. CASE RemoveMarker
    BY <2>15 DEF RemoveMarker
  <2> QED
    BY <1>4, <2>1, <2>2, <2>3, <2>4, <2>5, <2>6, <2>7, <2>8, <2>9, <2>10, <2>11, <2>12, <2>13, <2>14, <2>15
    DEF RecoverStep
<1>5. CASE RecoverFault
  <2>1. CASE RescueError
    BY <2>1 DEF RescueError
  <2>2. CASE TmpMisjudged
    BY <2>2 DEF TmpMisjudged
  <2>3. CASE RecoverStops
    BY <2>3 DEF RecoverStops
  <2>4. CASE TmpLost
    BY <2>4 DEF TmpLost
  <2> QED BY <1>5, <2>1, <2>2, <2>3, <2>4 DEF RecoverFault
<1>6. CASE UNCHANGED vars
  BY <1>6 DEF vars
<1> QED BY <1>1, <1>2, <1>3, <1>4, <1>5, <1>6 DEF Next

(* Which files exist at each step, whatever was misjudged before. *)
LEMMA FilesStep ==
    ASSUME TypeOK, ControlInv, FilesInv, [Next]_vars
    PROVE  FilesInv'
<1> USE RecoverAssumption DEF TypeOK, ControlInv, MarkerKeepsServersOut, FilesInv, TmpIsHealthy, File, RowsIn, Goto,
            family, copy, backup, ghost
<1>1. ASSUME NEW s \in Servers, ServerStep(s) PROVE FilesInv'
  <2>1. CASE OpenLease(s)
    BY <2>1 DEF OpenLease
  <2>2. CASE OpenDB(s)
    BY <2>2 DEF OpenDB
  <2>3. CASE OpenRefused(s)
    BY <2>3 DEF OpenRefused
  <2>4. CASE appendEvent(s)
    BY <2>4 DEF appendEvent
  <2>5. CASE Close(s)
    BY <2>5 DEF Close
  <2>6. CASE ServerCrash(s)
    BY <2>6 DEF ServerCrash
  <2> QED BY <1>1, <2>1, <2>2, <2>3, <2>4, <2>5, <2>6 DEF ServerStep
<1>2. CASE Damage
  BY <1>2 DEF Damage
<1>3. CASE RecoverStart
  BY <1>3 DEF RecoverStart, Corrupt
<1>4. CASE RecoverStep
  <2>1. CASE CreateMarker
    BY <2>1 DEF CreateMarker
  <2>2. CASE ResumePublishFromTmp
    BY <2>2 DEF ResumePublishFromTmp
  <2>3. CASE TmpNotHealthy
    BY <2>3 DEF TmpNotHealthy
  <2>4. CASE PublishAlreadyComplete
    BY <2>4 DEF PublishAlreadyComplete
  <2>5. CASE PublishIncomplete
    BY <2>5 DEF PublishIncomplete
  <2>6. CASE RestoreWal
    BY <2>6 DEF RestoreWal
  <2>7. CASE RestoreMain
    BY <2>7 DEF RestoreMain, IsLatestMain
  <2>8. CASE RescueBegin
    BY <2>8 DEF RescueBegin
  <2>9. CASE RescueAll
    BY <2>9 DEF RescueAll, Readable, Stored
  <2>10. CASE VerifyRescued
    BY <2>10 DEF VerifyRescued
  <2>11. CASE BackupWal
    BY <2>11 DEF BackupWal
  <2>12. CASE BackupMain
    BY <2>12 DEF BackupMain
  <2>13. CASE FinishPublish
    BY <2>13 DEF FinishPublish
  <2>14. CASE SweepOrphanBackups
    BY <2>14 DEF SweepOrphanBackups
  <2>15. CASE RemoveMarker
    BY <2>15 DEF RemoveMarker
  <2> QED
    BY <1>4, <2>1, <2>2, <2>3, <2>4, <2>5, <2>6, <2>7, <2>8, <2>9, <2>10, <2>11, <2>12, <2>13, <2>14, <2>15
    DEF RecoverStep
<1>5. CASE RecoverFault
  <2>1. CASE RescueError
    BY <2>1 DEF RescueError
  <2>2. CASE TmpMisjudged
    BY <2>2 DEF TmpMisjudged
  <2>3. CASE RecoverStops
    BY <2>3 DEF RecoverStops
  <2>4. CASE TmpLost
    BY <2>4 DEF TmpLost
  <2> QED BY <1>5, <2>1, <2>2, <2>3, <2>4 DEF RecoverFault
<1>6. CASE UNCHANGED vars
  BY <1>6 DEF vars
<1> QED BY <1>1, <1>2, <1>3, <1>4, <1>5, <1>6 DEF Next

(* Which copy exists at each step when none was misjudged. *)
LEMMA LogStep ==
    ASSUME TypeOK, ControlInv, FilesInv, LogInv, [Next]_vars
    PROVE  LogInv'
<1> USE RecoverAssumption DEF TypeOK, ControlInv, MarkerKeepsServersOut, FilesInv, LogInv, TmpIsHealthy, File, RowsIn, Goto,
            family, copy, backup, ghost
<1>1. ASSUME NEW s \in Servers, ServerStep(s) PROVE LogInv'
  <2>1. CASE OpenLease(s)
    BY <2>1 DEF OpenLease
  <2>2. CASE OpenDB(s)
    BY <2>2 DEF OpenDB
  <2>3. CASE OpenRefused(s)
    BY <2>3 DEF OpenRefused
  <2>4. CASE appendEvent(s)
    BY <2>4 DEF appendEvent
  <2>5. CASE Close(s)
    BY <2>5 DEF Close
  <2>6. CASE ServerCrash(s)
    BY <2>6 DEF ServerCrash
  <2> QED BY <1>1, <2>1, <2>2, <2>3, <2>4, <2>5, <2>6 DEF ServerStep
<1>2. CASE Damage
  BY <1>2 DEF Damage
<1>3. CASE RecoverStart
  BY <1>3 DEF RecoverStart, Corrupt
<1>4. CASE RecoverStep
  <2>1. CASE CreateMarker
    BY <2>1 DEF CreateMarker
  <2>2. CASE ResumePublishFromTmp
    BY <2>2 DEF ResumePublishFromTmp
  <2>3. CASE TmpNotHealthy
    BY <2>3 DEF TmpNotHealthy
  <2>4. CASE PublishAlreadyComplete
    BY <2>4 DEF PublishAlreadyComplete
  <2>5. CASE PublishIncomplete
    BY <2>5 DEF PublishIncomplete
  <2>6. CASE RestoreWal
    BY <2>6 DEF RestoreWal
  <2>7. CASE RestoreMain
    BY <2>7 DEF RestoreMain, IsLatestMain
  <2>8. CASE RescueBegin
    BY <2>8 DEF RescueBegin
  <2>9. CASE RescueAll
    BY <2>9 DEF RescueAll, Readable, Stored
  <2>10. CASE VerifyRescued
    BY <2>10 DEF VerifyRescued
  <2>11. CASE BackupWal
    BY <2>11 DEF BackupWal
  <2>12. CASE BackupMain
    BY <2>12 DEF BackupMain
  <2>13. CASE FinishPublish
    BY <2>13 DEF FinishPublish
  <2>14. CASE SweepOrphanBackups
    BY <2>14 DEF SweepOrphanBackups
  <2>15. CASE RemoveMarker
    BY <2>15 DEF RemoveMarker
  <2> QED
    BY <1>4, <2>1, <2>2, <2>3, <2>4, <2>5, <2>6, <2>7, <2>8, <2>9, <2>10, <2>11, <2>12, <2>13, <2>14, <2>15
    DEF RecoverStep
<1>5. CASE RecoverFault
  <2>1. CASE RescueError
    BY <2>1 DEF RescueError
  <2>2. CASE TmpMisjudged
    BY <2>2 DEF TmpMisjudged
  <2>3. CASE RecoverStops
    BY <2>3 DEF RecoverStops
  <2>4. CASE TmpLost
    BY <2>4 DEF TmpLost
  <2> QED BY <1>5, <2>1, <2>2, <2>3, <2>4 DEF RecoverFault
<1>6. CASE UNCHANGED vars
  BY <1>6 DEF vars
<1> QED BY <1>1, <1>2, <1>3, <1>4, <1>5, <1>6 DEF Next

(* Where the readable rows are. *)
LEMMA RowsStep ==
    ASSUME TypeOK, ControlInv, FilesInv, LogInv, RowsInv, [Next]_vars
    PROVE  RowsInv'
<1> USE RecoverAssumption DEF TypeOK, ControlInv, MarkerKeepsServersOut, FilesInv, LogInv, RowsInv, TmpIsHealthy,
            File, RowsIn, Goto, Alive, Stored, OriginalWhole, FamilyHolds, IsLatestMain,
            SplitBackup, Orphan, family, copy, backup, ghost
<1>1. ASSUME NEW s \in Servers, ServerStep(s) PROVE RowsInv'
  <2>1. CASE OpenLease(s)
    BY <2>1 DEF OpenLease
  <2>2. CASE OpenDB(s)
    BY <2>2 DEF OpenDB
  <2>3. CASE OpenRefused(s)
    BY <2>3 DEF OpenRefused
  <2>4. CASE appendEvent(s)
    BY <2>4 DEF appendEvent
  <2>5. CASE Close(s)
    BY <2>5 DEF Close
  <2>6. CASE ServerCrash(s)
    BY <2>6 DEF ServerCrash
  <2> QED BY <1>1, <2>1, <2>2, <2>3, <2>4, <2>5, <2>6 DEF ServerStep
<1>2. CASE Damage
  BY <1>2 DEF Damage
<1>3. CASE RecoverStart
  BY <1>3 DEF RecoverStart, Corrupt
<1>4. CASE RecoverStep
  <2>1. CASE CreateMarker
    BY <2>1 DEF CreateMarker
  <2>2. CASE ResumePublishFromTmp
    BY <2>2 DEF ResumePublishFromTmp
  <2>3. CASE TmpNotHealthy
    BY <2>3 DEF TmpNotHealthy
  <2>4. CASE PublishAlreadyComplete
    BY <2>4 DEF PublishAlreadyComplete
  <2>5. CASE PublishIncomplete
    BY <2>5 DEF PublishIncomplete
  <2>6. CASE RestoreWal
    BY <2>6 DEF RestoreWal
  <2>7. CASE RestoreMain
    BY <2>7 DEF RestoreMain
  <2>8. CASE RescueBegin
    BY <2>8 DEF RescueBegin
  <2>9. CASE RescueAll
    BY <2>9 DEF RescueAll, Readable
  <2>10. CASE VerifyRescued
    BY <2>10 DEF VerifyRescued
  <2>11. CASE BackupWal
    BY <2>11 DEF BackupWal
  <2>12. CASE BackupMain
    <3> SUFFICES ASSUME ~misjudged, ~partial PROVE RowsInv'
      BY <2>12 DEF BackupMain
    <3>1. main # None /\ wal = None /\ TmpIsHealthy /\ Alive \subseteq tmp
      BY <2>12 DEF BackupMain
    <3>2. lastTs \in 1..MaxBackups => bakMain'[lastTs] = main
      BY <2>12 DEF BackupMain
    <3>3. \A t \in 1..MaxBackups : t # lastTs => bakMain'[t] = bakMain[t]
      BY <2>12 DEF BackupMain
    <3>4. TmpIsHealthy' /\ (Alive \subseteq tmp)' /\ wal' = None /\ main' = None /\ pc' = "publish" /\ marker'
      BY <2>12, <3>1 DEF BackupMain
    <3>5. ASSUME ~SplitBackup' PROVE OriginalWhole'
      <4>1. lastTs \in 1..MaxBackups
        BY <2>12 DEF BackupMain
      <4>2. ~\E t \in 1..MaxBackups : t # lastTs /\ Orphan(t)
        BY <2>12, <3>3, <3>5 DEF BackupMain
      <4>3. Alive \subseteq RowsIn(main) \cup RowsIn(bakWal[lastTs])
        BY <2>12, <4>2 DEF BackupMain
      <4>4. IsLatestMain(lastTs)'
        BY <2>12, <3>1, <3>2, <3>3, <4>1 DEF BackupMain
      <4>5. FamilyHolds(lastTs)'
        BY <2>12, <3>2, <4>1, <4>3 DEF BackupMain
      <4> QED BY <2>12, <3>4, <4>1, <4>4, <4>5 DEF BackupMain
    <3> QED BY <3>4, <3>5
  <2>13. CASE FinishPublish
    BY <2>13 DEF FinishPublish
  <2>14. CASE SweepOrphanBackups
    BY <2>14 DEF SweepOrphanBackups
  <2>15. CASE RemoveMarker
    BY <2>15 DEF RemoveMarker
  <2> QED
    BY <1>4, <2>1, <2>2, <2>3, <2>4, <2>5, <2>6, <2>7, <2>8, <2>9, <2>10, <2>11, <2>12, <2>13, <2>14, <2>15
    DEF RecoverStep
<1>5. CASE RecoverFault
  <2>1. CASE RescueError
    BY <2>1 DEF RescueError
  <2>2. CASE TmpMisjudged
    BY <2>2 DEF TmpMisjudged
  <2>3. CASE RecoverStops
    BY <2>3 DEF RecoverStops
  <2>4. CASE TmpLost
    BY <2>4 DEF TmpLost
  <2> QED BY <1>5, <2>1, <2>2, <2>3, <2>4 DEF RecoverFault
<1>6. CASE UNCHANGED vars
  BY <1>6 DEF vars
<1> QED BY <1>1, <1>2, <1>3, <1>4, <1>5, <1>6 DEF Next

RecoverInv == TypeOK /\ ControlInv /\ FilesInv /\ LogInv /\ RowsInv

(* The inductive invariant holds in every reachable state. *)
THEOREM RecoverInvariant == Spec => []RecoverInv
<1>1. Init => ControlInv /\ FilesInv /\ LogInv /\ RowsInv
  BY RecoverAssumption
  DEF Init, ControlInv, MarkerKeepsServersOut, FilesInv, LogInv, RowsInv, TmpIsHealthy, Alive, Stored,
      RowsIn
<1>2. TypeOK /\ ControlInv /\ FilesInv /\ LogInv /\ RowsInv /\ [Next]_vars
        => ControlInv' /\ FilesInv' /\ LogInv' /\ RowsInv'
  BY ControlStep, FilesStep, LogStep, RowsStep
<1> QED BY <1>1, <1>2, RecoverTypeCorrect, PTL DEF Spec, RecoverInv

(* Outside of a recovery session.db and its log hold every readable        *)
(* acknowledged row, wherever Recover was cut short.                       *)
THEOREM RecoverLosesNothing == Spec => []NoReadableRowLost
<1>1. RecoverInv => NoReadableRowLost
  BY DEF RecoverInv, RowsInv, NoReadableRowLost, Survives, Alive
<1> QED BY <1>1, RecoverInvariant, PTL

(* At every moment of a recovery a readable row is in some file. *)
THEOREM RecoverKeepsEvidence == Spec => []EvidenceKept
<1>1. RecoverInv => EvidenceKept
  <2> SUFFICES ASSUME RecoverInv, ~partial, ~misjudged
               PROVE  Alive \subseteq Stored \cup RowsIn(tmp) \cup InBackups
    BY DEF EvidenceKept, Survives, Alive
  <2>1. CASE ~marker BY <2>1 DEF RecoverInv, RowsInv
  <2>2. CASE TmpIsHealthy BY <2>2 DEF RecoverInv, RowsInv, TmpIsHealthy, RowsIn
  <2>3. CASE OriginalWhole
    <3>1. CASE Alive \subseteq Stored BY <3>1
    <3>2. CASE \E t \in 1..MaxBackups : IsLatestMain(t) /\ FamilyHolds(t)
      <4>1. PICK t \in 1..MaxBackups : FamilyHolds(t) BY <3>2
      <4>2. RowsIn(bakMain[t]) \cup RowsIn(bakWal[t]) \subseteq InBackups
        BY DEF InBackups
      <4> QED BY <4>1, <4>2 DEF FamilyHolds, Stored
    <3> QED BY <2>3, <3>1, <3>2 DEF OriginalWhole
  <2> QED BY <2>1, <2>2, <2>3 DEF RecoverInv, RowsInv
<1> QED BY <1>1, RecoverInvariant, PTL

(* Under the marker no server has the session open. *)
THEOREM MarkerExcludesServers == Spec => []MarkerKeepsServersOut
<1>1. RecoverInv => MarkerKeepsServersOut
  BY DEF RecoverInv, ControlInv
<1> QED BY <1>1, RecoverInvariant, PTL

(* The published copy lies beside the log of the old database only where a *)
(* restore was cut between the two: FilesInv makes no exception for a copy *)
(* that was misjudged or a rescue that failed.  (backupOriginal.)          *)
THEOREM PublishedWithoutForeignLog == Spec => []NoForeignLog
<1>1. RecoverInv => NoForeignLog
  BY DEF RecoverInv, FilesInv, NoForeignLog
<1> QED BY <1>1, RecoverInvariant, PTL

-----------------------------------------------------------------------------
(* purge: what the command's own variables can be. *)

Working == {"open", "rows", "listworktrees", "sessions", "removesession", "gc",
            "merge", "vacuum", "close", "removeall"}
Answered == Working \cup {"loop", "finish"}
Points   == Answered \cup {"hookestimate", "confirm", "exit"}

Command == [pc : Points, req : Requests, status : {"error", "ok", "killed"},
            confirmed : BOOLEAN, ids : SUBSET Projects, targets : SUBSET Projects,
            present : SUBSET Worktrees, p : Projects \cup {"none", "all"},
            how : {"dir", "partial"}, ws : SUBSET Worktrees, w : Worktrees \cup {"none"},
            err : BOOLEAN, vacuumFailed : BOOLEAN, mergeFailed : BOOLEAN,
            diskAbort : BOOLEAN]

Shape ==
    /\ \/ cmd = [pc |-> "idle"] /\ deleted = {}
       \/ cmd \in Command
    /\ dir \subseteq Projects /\ wdir \subseteq Worktrees
    /\ lease \in [Worktrees -> {"free", "server", "recover", "purge"}]
    /\ content \in [Projects -> SUBSET Parts]

(* What brought the command where it is. *)
Route ==
    cmd \in Command =>
      /\ cmd.ids \subseteq cmd.targets
      /\ cmd.pc # "exit" => ~Refused(r)
      /\ cmd.pc \in Answered => cmd.confirmed \/ GcOnly(r)
      /\ cmd.pc \in Working => cmd.p \in cmd.targets
      /\ cmd.pc \in {"hookestimate", "confirm"} /\ r.hookOnly => cmd.targets = {r.project}
      /\ cmd.pc \in {"loop", "removeall", "listworktrees", "sessions", "removesession", "gc"} => ~r.hookOnly
      /\ cmd.pc = "hookestimate" => r.hookOnly
      /\ r.hookOnly /\ cmd.pc \in Working \cup {"finish"} => cmd.targets = {cmd.p}
      /\ cmd.pc \in {"open", "rows"} => r.older \/ r.hookOnly
      /\ cmd.pc \in {"listworktrees", "sessions", "removesession"} => r.sessions
      /\ cmd.pc \in {"sessions", "removesession"} => cmd.ws \subseteq InProject(cmd.p)
      /\ cmd.pc = "removesession" => cmd.w \in InProject(cmd.p) /\ lease[cmd.w] = "purge"
      /\ cmd.pc = "gc" => r.gc
      /\ cmd.pc = "removeall" =>
           \/ cmd.how = "dir" /\ ~(r.older \/ r.sessions \/ r.gc \/ r.hookOnly)
           \/ cmd.how = "partial" /\ r.project = "all" /\ ~r.older

(* What the request wants of a target, and what has become of it. *)
Tags == {"dir", "old", "hook", "orphan", "tombstone", "free"}

Wants(tag) ==
    \/ tag = "dir" /\ ~(r.older \/ r.sessions \/ r.gc \/ r.hookOnly)
    \/ tag = "old" /\ r.older
    \/ tag = "hook" /\ r.hookOnly
    \/ tag = "orphan" /\ r.gc
    \/ tag \in {"tombstone", "free"} /\ (r.vacuum \/ r.hookOnly)

Gone(p) == <<"dir", p>> \in done \/ <<"nodb", p>> \in told

Failed == cmd.vacuumFailed \/ cmd.mergeFailed

Settled(tag, p) ==
    <<tag, p>> \in done \/ Gone(p) \/ (tag \in {"tombstone", "free"} /\ Failed)

SettledSession(w) == <<"session", w>> \in done \cup told \/ Gone(ProjectOf[w])

(* What is still to come: the projects the loop has not reached, and of    *)
(* the one at hand what its later steps do.                                *)
ToCome(p) == p \in cmd.ids /\ ~(r.hookOnly /\ cmd.pc \in Working \cup {"finish"})

Ahead(tag) ==
    \/ cmd.pc \in {"open", "rows", "removeall"}
    \/ cmd.pc \in {"listworktrees", "sessions", "removesession", "gc"} /\ tag \in {"orphan", "tombstone", "free"}
    \/ cmd.pc = "merge" /\ tag \in {"tombstone", "free"}
    \/ cmd.pc = "vacuum" /\ tag = "free"
    \/ cmd.pc = "close" /\ cmd.err

AheadSession(w) ==
    \/ cmd.pc \in {"open", "rows", "removeall", "listworktrees"}
    \/ cmd.pc = "close" /\ cmd.err
    \/ cmd.pc \in {"sessions", "removesession"} /\ w \in cmd.ws
    \/ cmd.pc = "removesession" /\ w = cmd.w

PendingTag(tag, p) == cmd.pc # "exit" /\ (ToCome(p) \/ (p = cmd.p /\ Ahead(tag)))

PendingSession(w) ==
    /\ cmd.pc # "exit"
    /\ ToCome(ProjectOf[w]) \/ (ProjectOf[w] = cmd.p /\ AheadSession(w))

(* Nothing a command that may still succeed was asked for is forgotten.    *)
Progress ==
    cmd \in Command /\ (cmd.pc = "exit" => cmd.status = "ok") =>
      /\ cmd.diskAbort => Failed
      /\ cmd.pc = "exit" => ~Failed
      /\ cmd.pc = "finish" => r.hookOnly \/ cmd.ids = {}
      /\ cmd.pc # "exit" => \A w \in cmd.present : w \in wdir \/ Gone(ProjectOf[w])
      /\ \A p \in cmd.targets, tag \in Tags :
           Wants(tag) => Settled(tag, p) \/ PendingTag(tag, p)
      /\ r.sessions => \A w \in cmd.present :
           ProjectOf[w] \in cmd.targets => SettledSession(w) \/ PendingSession(w)

PurgeInv == Shape /\ Route /\ NothingUnasked /\ Progress

-----------------------------------------------------------------------------
(* What a step does to the command's variables. *)

Stays == cmd'.req = cmd.req /\ cmd'.targets = cmd.targets /\ cmd'.present = cmd.present

SameFlags == /\ cmd'.err = cmd.err /\ cmd'.vacuumFailed = cmd.vacuumFailed
             /\ cmd'.mergeFailed = cmd.mergeFailed /\ cmd'.diskAbort = cmd.diskAbort

SamePlace == /\ cmd'.ids = cmd.ids /\ cmd'.p = cmd.p /\ cmd'.how = cmd.how
             /\ cmd'.ws = cmd.ws /\ cmd'.w = cmd.w

Moves(at) == cmd' \in Command /\ cmd'.pc = at /\ Stays

LEMMA GoMoves ==
    ASSUME cmd \in Command, NEW at \in Points, Go(at)
    PROVE  Moves(at) /\ SameFlags /\ SamePlace /\ cmd'.confirmed = cmd.confirmed
                     /\ cmd'.status = cmd.status
  BY DEF Go, Command, Moves, Stays, SameFlags, SamePlace

LEMMA ExitMoves ==
    ASSUME cmd \in Command, NEW s \in {"error", "ok", "killed"}, Exit(s)
    PROVE  Moves("exit") /\ SameFlags /\ SamePlace /\ cmd'.confirmed = cmd.confirmed
                         /\ cmd'.status = s
  BY DEF Exit, Command, Moves, Stays, SameFlags, SamePlace, Points

LEMMA FailMoves ==
    ASSUME cmd \in Command, Fail
    PROVE  /\ Moves("close") /\ SamePlace /\ cmd'.confirmed = cmd.confirmed /\ cmd'.err
           /\ cmd'.vacuumFailed = cmd.vacuumFailed /\ cmd'.mergeFailed = cmd.mergeFailed
           /\ cmd'.diskAbort = cmd.diskAbort
  BY DEF Fail, Command, Moves, Stays, SamePlace, Points, Answered, Working

(* Only Start looks at a command that is not there yet. *)
LEMMA Begun ==
    ASSUME Shape, NEW at, cmd.pc = at, at # "idle"
    PROVE  cmd \in Command
  BY DEF Shape

LEMMA RequestType ==
    ASSUME cmd \in Command
    PROVE  /\ r \in Requests
           /\ r.project \in Projects \cup {"all"}
           /\ \A f \in {r.older, r.gc, r.sessions, r.vacuum, r.hookOnly} : f \in BOOLEAN
  <1>1. r \in Requests
    BY DEF Command, r
  <1> QED BY <1>1, PurgeAssumption

-----------------------------------------------------------------------------
(* How the parts of the invariant are kept. *)

Allowed(d) ==
    /\ (IF d.of \in Worktrees THEN ProjectOf[d.of] ELSE d.of) \in cmd.targets
    /\ d.how = "partial" => r.project = "all" /\ ~r.older
    /\ d.how # "partial" =>
         /\ cmd.confirmed /\ ~GcOnly(r)
         /\ \/ d.how = "rows" /\ ((d.what = "old" /\ r.older) \/ (d.what = "hook" /\ r.hookOnly))
            \/ d.how = "sessions" /\ d.what = "session" /\ r.sessions /\ ~d.leased
            \/ d.how = "dir" /\ ~(r.older \/ r.sessions \/ r.gc \/ r.hookOnly)

LEMMA UnaskedKept ==
    ASSUME NothingUnasked, Stays, cmd.confirmed => cmd'.confirmed,
           \A d \in deleted' \ deleted : Allowed(d)'
    PROVE  NothingUnasked'
  <1>1. r' = r /\ GcOnly(r)' = GcOnly(r)
    BY DEF r, Stays, GcOnly
  <1>2. \A d \in deleted : Allowed(d)
    BY DEF NothingUnasked, Allowed
  <1>3. \A d \in deleted : Allowed(d)'
    BY <1>1, <1>2 DEF Allowed, Stays
  <1>4. \A d \in deleted' : Allowed(d)'
    BY <1>3
  <1> QED BY <1>4 DEF NothingUnasked, Allowed

LEMMA ProgressKept ==
    ASSUME Progress, cmd \in Command, Stays, cmd.pc # "exit",
           done \subseteq done', told \subseteq told',
           Failed => Failed', cmd'.diskAbort => Failed', cmd'.pc = "exit" => ~Failed',
           cmd'.pc = "finish" => cmd.req.hookOnly \/ cmd'.ids = {},
           \A w \in wdir \ wdir' : Gone(ProjectOf[w])',
           \A p \in cmd.targets, tag \in Tags :
             Wants(tag) /\ PendingTag(tag, p) => Settled(tag, p)' \/ PendingTag(tag, p)',
           r.sessions => \A w \in cmd.present :
             PendingSession(w) => SettledSession(w)' \/ PendingSession(w)'
    PROVE  Progress'
  <1>1. r' = r /\ \A tag : Wants(tag)' <=> Wants(tag)
    BY DEF r, Stays, Wants
  <1>2. \A p : Gone(p) => Gone(p)'
    BY DEF Gone
  <1>3. \A p, tag : Settled(tag, p) => Settled(tag, p)'
    BY <1>2 DEF Settled
  <1>4. \A w : SettledSession(w) => SettledSession(w)'
    BY <1>2 DEF SettledSession
  <1> QED BY <1>1, <1>2, <1>3, <1>4 DEF Progress, Stays, r

(* A command that ends with an error has nothing to account for. *)
LEMMA ErrorExit ==
    ASSUME Shape, Route, NEW s \in {"error", "killed"}, cmd \in Command, Exit(s)
    PROVE  /\ Moves("exit") /\ cmd'.confirmed = cmd.confirmed
           /\ Route' /\ Progress'
  <1>1. Moves("exit") /\ SamePlace /\ cmd'.status = s /\ cmd'.confirmed = cmd.confirmed
    BY ExitMoves
  <1>2. Route'
    BY <1>1 DEF Route, Moves, Stays, SamePlace, Answered, Working, r
  <1>3. Progress'
    BY <1>1 DEF Progress, Moves
  <1> QED BY <1>1, <1>2, <1>3

(* Steps of the others, and steps of nobody. *)
LEMMA OthersKeep ==
    ASSUME PurgeInv, Shape', UNCHANGED <<cmd, deleted, done, told>>, wdir \subseteq wdir',
           \A w \in Worktrees : lease[w] = "purge" => lease'[w] = "purge"
    PROVE  PurgeInv'
  <1>1. Route'
    <2>1. cmd \in Command /\ cmd.pc = "removesession" => cmd.w \in Worktrees
      BY DEF PurgeInv, Route, InProject
    <2> QED BY <2>1 DEF PurgeInv, Route, r, InProject
  <1>2. NothingUnasked'
    BY DEF PurgeInv, NothingUnasked, r
  <1>3. Progress'
    <2>1. /\ \A p, tag : /\ Settled(tag, p)' = Settled(tag, p)
                         /\ PendingTag(tag, p)' = PendingTag(tag, p)
          /\ \A w : /\ SettledSession(w)' = SettledSession(w)
                    /\ PendingSession(w)' = PendingSession(w)
          /\ \A tag : Wants(tag)' = Wants(tag)
          /\ \A p : Gone(p)' = Gone(p)
          /\ Failed' = Failed /\ r' = r
      BY DEF Settled, PendingTag, SettledSession, PendingSession, Wants, Gone, Failed,
             r, ToCome, Ahead, AheadSession
    <2> QED BY <2>1 DEF PurgeInv, Progress
  <1> QED BY <1>1, <1>2, <1>3 DEF PurgeInv

LEMMA OthersStep ==
    ASSUME PurgeInv,
           \/ \E w \in Worktrees : ServerOpens(w) \/ ServerCloses(w) \/ HookRecords(w)
           \/ \E w \in Worktrees, outcome \in {"nothing", "published", "broken"} :
                RecoverEnds(w, outcome)
           \/ \E p \in Projects, entry \in Worktrees \cup {"none"} : SessionRecover(p, entry)
           \/ UNCHANGED purgeVars
    PROVE  PurgeInv'
  <1>s. Shape
    BY DEF PurgeInv
  <1>1. UNCHANGED <<cmd, deleted, done, told>>
    BY DEF ServerOpens, ServerCloses, HookRecords, RecoverEnds, SessionRecover, Other, purgeVars
  <1>2. /\ wdir \subseteq wdir' /\ wdir' \subseteq Worktrees /\ dir' \subseteq Projects
        /\ lease' \in [Worktrees -> {"free", "server", "recover", "purge"}]
        /\ content' \in [Projects -> SUBSET Parts]
        /\ \A w \in Worktrees : lease[w] = "purge" => lease'[w] = "purge"
    <2>1. CASE \E w \in Worktrees : ServerOpens(w)
      <3>1. PICK w \in Worktrees : ServerOpens(w)
        BY <2>1
      <3>2. ProjectOf[w] \in Projects
        BY PurgeAssumption
      <3> QED BY <1>s, <3>1, <3>2 DEF Shape, ServerOpens, MakeSession, Parts
    <2>2. CASE \E w \in Worktrees : ServerCloses(w)
      BY <1>s, <2>2 DEF Shape, ServerCloses, disk
    <2>3. CASE \E w \in Worktrees : HookRecords(w)
      <3>1. PICK w \in Worktrees : HookRecords(w)
        BY <2>3
      <3>2. ProjectOf[w] \in Projects
        BY PurgeAssumption
      <3> QED BY <1>s, <3>1, <3>2 DEF Shape, HookRecords, MakeSession
    <2>4. CASE \E w \in Worktrees, outcome \in {"nothing", "published", "broken"} :
                 RecoverEnds(w, outcome)
      BY <1>s, <2>4 DEF Shape, RecoverEnds
    <2>5. CASE \E p \in Projects, entry \in Worktrees \cup {"none"} : SessionRecover(p, entry)
      BY <1>s, <2>5 DEF Shape, SessionRecover, disk
    <2>6. CASE UNCHANGED purgeVars
      BY <1>s, <2>6 DEF Shape, purgeVars, disk, others
    <2> QED BY <2>1, <2>2, <2>3, <2>4, <2>5, <2>6
  <1>3. Shape'
    <2>1. Command' = Command
      BY DEF Command
    <2> QED BY <1>s, <1>1, <1>2, <2>1 DEF Shape
  <1> QED BY <1>1, <1>2, <1>3, OthersKeep

LEMMA ShapeKept ==
    ASSUME Shape, cmd' \in Command, dir' \subseteq dir, wdir' \subseteq wdir,
           lease' \in [Worktrees -> {"free", "server", "recover", "purge"}],
           content' \in [Projects -> SUBSET Parts]
    PROVE  Shape'
  <1>1. Command' = Command
    BY DEF Command
  <1> QED BY <1>1 DEF Shape

(* A step that touches nothing but the command's own variables. *)
LEMMA QuietKept ==
    ASSUME PurgeInv, Stays, cmd' \in Command, Nothing, cmd.confirmed => cmd'.confirmed,
           Route', Progress'
    PROVE  PurgeInv'
  <1>1. UNCHANGED <<dir, wdir, content, session, assets, lease, turns, deleted, done, told>>
    BY DEF Nothing, Mine, disk, others
  <1>2. Shape'
    BY <1>1, ShapeKept DEF PurgeInv, Shape
  <1>3. NothingUnasked'
    BY <1>1, UnaskedKept DEF PurgeInv
  <1> QED BY <1>2, <1>3 DEF PurgeInv

LEMMA StartKeeps ==
    ASSUME PurgeInv, NEW q \in Requests, Start(q)
    PROVE  PurgeInv'
  <1> DEFINE ids == IF q.project = "all" THEN dir ELSE {q.project}
  <1> DEFINE at == IF Refused(q) \/ ids = {} THEN "exit" ELSE IF q.hookOnly THEN "hookestimate"
                   ELSE IF GcOnly(q) THEN "loop" ELSE "confirm"
  <1>0. /\ Shape /\ deleted = {} /\ cmd.pc = "idle"
        /\ UNCHANGED <<dir, wdir, content, session, assets, lease, turns, deleted, done, told>>
    <2>1. "idle" \notin Points
      BY DEF Points, Answered, Working
    <2> QED BY <2>1 DEF Start, PurgeInv, Shape, Command, Nothing, Mine, disk, others
  <1>1. cmd' = [pc |-> at, req |-> q, status |-> "error", confirmed |-> FALSE,
                ids |-> ids, targets |-> ids, present |-> wdir,
                p |-> "none", how |-> "dir", ws |-> {}, w |-> "none",
                err |-> FALSE, vacuumFailed |-> FALSE, mergeFailed |-> FALSE, diskAbort |-> FALSE]
    BY DEF Start
  <1>2. ids \subseteq Projects /\ wdir \subseteq Worktrees
    BY <1>0, PurgeAssumption DEF Shape
  <1>3. at \in {"exit", "hookestimate", "loop", "confirm"} /\ at \in Points
    BY DEF Points, Answered
  <1>4. /\ at # "exit" => ~Refused(q) /\ ids # {}
        /\ at = "loop" => GcOnly(q) /\ ~q.hookOnly
        /\ at = "hookestimate" => q.hookOnly
        /\ q.hookOnly /\ ~Refused(q) => ids = {q.project}
    BY DEF Refused
  <1> HIDE DEF ids, at
  <1>5. cmd' \in Command
    BY <1>1, <1>2, <1>3 DEF Command
  <1>6. /\ cmd'.pc = at /\ cmd'.req = q /\ cmd'.ids = ids /\ cmd'.targets = ids
        /\ cmd'.present = wdir /\ cmd'.status = "error" /\ ~cmd'.diskAbort
        /\ ~cmd'.vacuumFailed /\ ~cmd'.mergeFailed
    BY <1>1
  <1>7. Shape'
    BY <1>0, <1>5, ShapeKept DEF Shape
  <1>8. Route'
    BY <1>3, <1>4, <1>6 DEF Route, r, Answered, Working
  <1>9. NothingUnasked'
    BY <1>0 DEF NothingUnasked
  <1>10. Progress'
    <2> SUFFICES ASSUME cmd'.pc # "exit" PROVE Progress'
      BY <1>6 DEF Progress
    <2>1. /\ \A p \in cmd'.targets, tag \in Tags : PendingTag(tag, p)'
          /\ \A w \in cmd'.present : ProjectOf[w] \in cmd'.targets => PendingSession(w)'
      BY <1>3, <1>6 DEF PendingTag, PendingSession, ToCome, Working
    <2>2. cmd'.pc # "finish" /\ wdir' = wdir
      BY <1>0, <1>3, <1>6
    <2> QED BY <1>6, <2>1, <2>2 DEF Progress
  <1> QED BY <1>7, <1>8, <1>9, <1>10 DEF PurgeInv

(* The steps whose errors end the command at once, and only that. *)
LEMMA ErrorKeeps ==
    ASSUME PurgeInv, cmd \in Command, NEW s \in {"error", "killed"}, Exit(s),
           UNCHANGED <<dir, wdir, content, deleted>>,
           lease' \in [Worktrees -> {"free", "server", "recover", "purge"}]
    PROVE  PurgeInv'
  <1>1. Moves("exit") /\ cmd'.confirmed = cmd.confirmed /\ Route' /\ Progress'
    BY ErrorExit DEF PurgeInv
  <1>2. Shape'
    BY <1>1, ShapeKept DEF PurgeInv, Shape, Moves
  <1>3. NothingUnasked'
    BY <1>1, UnaskedKept DEF PurgeInv, Moves
  <1> QED BY <1>1, <1>2, <1>3 DEF PurgeInv

LEMMA NothingMeans ==
    ASSUME Shape, Nothing
    PROVE  /\ UNCHANGED <<dir, wdir, content, session, assets, lease, turns, deleted, done, told>>
           /\ lease' \in [Worktrees -> {"free", "server", "recover", "purge"}]
  BY DEF Nothing, Mine, disk, others, Shape

(* Before the loop: the estimate, the confirmation. *)
LEMMA AskingKeeps ==
    ASSUME PurgeInv, HookEstimate \/ \E yes \in BOOLEAN : confirmPurge(yes)
    PROVE  PurgeInv'
  <1>0. Shape /\ Route /\ Progress /\ Nothing /\ cmd \in Command
    BY Begun DEF PurgeInv, HookEstimate, confirmPurge
  <1>n. /\ UNCHANGED <<dir, wdir, content, session, assets, lease, turns, deleted, done, told>>
        /\ lease' \in [Worktrees -> {"free", "server", "recover", "purge"}]
    BY <1>0, NothingMeans
  <1>1. CASE Exit("error")
    BY <1>0, <1>1, <1>n, ErrorKeeps
  <1>2. CASE cmd.pc = "hookestimate" /\ Go("confirm")
    <2>1. Moves("confirm") /\ SameFlags /\ SamePlace /\ cmd'.confirmed = cmd.confirmed
      BY <1>0, <1>2, GoMoves DEF Points
    <2>2. Route'
      BY <1>0, <1>2, <2>1 DEF Route, Moves, Stays, SamePlace, r, Answered, Working
    <2>3. \A tag, p : PendingTag(tag, p) => PendingTag(tag, p)'
      BY <1>2, <2>1 DEF PendingTag, ToCome, Ahead, Moves, Stays, SamePlace, r, Working
    <2>4. \A w : PendingSession(w) => PendingSession(w)'
      BY <1>2, <2>1 DEF PendingSession, ToCome, AheadSession, Moves, Stays, SamePlace, r, Working
    <2>5. Progress'
      BY <1>0, <1>2, <1>n, <2>1, <2>3, <2>4, ProgressKept
      DEF Moves, SameFlags, Failed, Progress
    <2> QED BY <1>0, <2>1, <2>2, <2>5, QuietKept DEF Moves
  <1>3. ASSUME cmd.pc = "confirm",
               cmd' = [cmd EXCEPT !.confirmed = TRUE, !.p = r.project,
                                  !.pc = IF r.hookOnly THEN "open" ELSE "loop"]
        PROVE  PurgeInv'
    <2> DEFINE at == IF r.hookOnly THEN "open" ELSE "loop"
    <2>0. at \in {"open", "loop"} /\ at \in Points /\ r.project \in Projects \cup {"all"}
      BY <1>0, RequestType DEF Points, Answered, Working
    <2>a. cmd' = [cmd EXCEPT !.confirmed = TRUE, !.p = r.project, !.pc = at]
      BY <1>3
    <2>b. (at = "open" /\ r.hookOnly) \/ (at = "loop" /\ ~r.hookOnly)
      OBVIOUS
    <2> HIDE DEF at
    <2>1. /\ Moves(at) /\ SameFlags /\ cmd'.confirmed /\ cmd'.p = r.project
          /\ cmd'.ids = cmd.ids
      BY <1>0, <2>0, <2>a DEF Command, Moves, Stays, SameFlags
    <2>2. r.hookOnly => cmd.targets = {r.project}
      BY <1>0, <1>3 DEF Route
    <2>3. Route'
      BY <1>0, <1>3, <2>1, <2>2, <2>b DEF Route, Moves, Stays, r, Answered, Working
    <2>4. cmd.ids \subseteq cmd.targets
      BY <1>0 DEF Route
    <2>5. \A p, tag : PendingTag(tag, p) => PendingTag(tag, p)'
      BY <1>3, <2>1, <2>2, <2>4, <2>b
      DEF PendingTag, ToCome, Ahead, Moves, Stays, r, Working
    <2>6. \A w : PendingSession(w) => PendingSession(w)'
      BY <1>3, <2>1, <2>2, <2>4, <2>b
      DEF PendingSession, ToCome, AheadSession, Moves, Stays, r, Working
    <2>7. Progress'
      BY <1>0, <1>3, <1>n, <2>0, <2>1, <2>5, <2>6, ProgressKept
      DEF Moves, SameFlags, Failed, Progress
    <2> QED BY <1>0, <2>1, <2>3, <2>7, QuietKept DEF Moves
  <1> QED BY <1>0, <1>1, <1>2, <1>3 DEF HookEstimate, confirmPurge

-----------------------------------------------------------------------------
(* The loop over the projects. *)

LEMMA LoopErrorKeeps ==
    ASSUME PurgeInv, \/ Cancelled
                     \/ \E p \in Projects : NoContent(p) /\ Exit("error")
    PROVE  PurgeInv'
  <1>0. cmd.pc = "loop" /\ Exit("error") /\ UNCHANGED <<dir, wdir, content, deleted, lease>>
    <2>1. CASE Cancelled
      BY <2>1 DEF Cancelled, Nothing, Mine, disk, others
    <2>2. CASE \E p \in Projects : NoContent(p) /\ Exit("error")
      <3>1. PICK p \in Projects : NoContent(p) /\ Exit("error")
        BY <2>2
      <3>2. cmd.pc = "loop" /\ UNCHANGED <<disk, deleted>> /\ Mine
        BY <3>1, ZenonT(60) DEF NoContent
      <3> QED BY <3>1, <3>2 DEF Mine, disk, others
    <2> QED BY <2>1, <2>2
  <1>1. cmd \in Command
    BY <1>0, Begun DEF PurgeInv
  <1>2. lease' \in [Worktrees -> {"free", "server", "recover", "purge"}]
    BY <1>0 DEF PurgeInv, Shape
  <1> QED BY <1>0, <1>1, <1>2, ErrorKeeps

(* What is true of every step from the loop to one project. *)
LEMMA TakenUp ==
    ASSUME PurgeInv, cmd \in Command, NEW p \in cmd.ids, cmd.pc = "loop",
           NEW at \in {"removeall", "gc", "open", "listworktrees"}, Moves(at),
           SameFlags, cmd'.p = p, cmd'.ids = cmd.ids \ {p},
           cmd'.confirmed = cmd.confirmed,
           at = "gc" => GcOnly(r), at = "open" => r.older,
           at = "listworktrees" => r.sessions /\ ~r.older,
           at = "removeall" =>
               \/ cmd'.how = "dir" /\ ~(r.older \/ r.sessions \/ r.gc \/ r.hookOnly)
               \/ cmd'.how = "partial" /\ r.project = "all" /\ ~r.older,
           Nothing
    PROVE  PurgeInv'
  <1>0. Route /\ Progress /\ ~r.hookOnly /\ p \in cmd.targets
    BY DEF PurgeInv, Route
  <1>n. UNCHANGED <<dir, wdir, content, session, assets, lease, turns, deleted, done, told>>
    BY NothingMeans DEF PurgeInv
  <1>1. Route'
    BY <1>0 DEF Route, Moves, Stays, r, Answered, Working, GcOnly
  <1>2. \A q \in cmd.targets, tag \in Tags : Wants(tag) /\ PendingTag(tag, q) => PendingTag(tag, q)'
    <2>1. ~Refused(r)
      BY <1>0 DEF Route
    <2>2. ASSUME NEW tag \in Tags, Wants(tag) PROVE Ahead(tag)'
      BY <1>0, <2>1, <2>2 DEF Wants, Ahead, Tags, Moves, GcOnly, Refused
    <2> QED BY <1>0, <2>2 DEF PendingTag, ToCome, Ahead, Moves, Stays, r, Working
  <1>3. r.sessions => \A w \in cmd.present : PendingSession(w) => PendingSession(w)'
    BY <1>0 DEF PendingSession, ToCome, AheadSession, Moves, Stays, r, Working, GcOnly
  <1>4. Progress'
    BY <1>0, <1>n, <1>2, <1>3, ProgressKept DEF Moves, SameFlags, Failed, Progress
  <1> QED BY <1>1, <1>4, QuietKept DEF Moves

LEMMA NextProjectKeeps ==
    ASSUME PurgeInv, NEW p \in Projects, NextProject(p)
    PROVE  PurgeInv'
  <1> DEFINE at == IF GcOnly(r) THEN "gc" ELSE IF Selective THEN "open"
                   ELSE IF r.sessions THEN "listworktrees" ELSE "removeall"
  <1>1. cmd \in Command /\ Nothing /\ cmd.pc = "loop" /\ p \in cmd.ids
    BY Begun DEF PurgeInv, NextProject
  <1>2. cmd' = [cmd EXCEPT !.ids = @ \ {p}, !.p = p, !.how = "dir", !.pc = at]
    BY DEF NextProject
  <1>3. ~r.hookOnly
    BY <1>1 DEF PurgeInv, Route
  <1>4. /\ at \in {"removeall", "gc", "open", "listworktrees"}
        /\ at = "gc" => GcOnly(r)
        /\ at = "open" => r.older
        /\ at = "listworktrees" => r.sessions /\ ~r.older
        /\ at = "removeall" => ~(r.older \/ r.sessions \/ r.gc \/ r.hookOnly)
    BY <1>3 DEF Selective, GcOnly
  <1> HIDE DEF at
  <1>5. /\ Moves(at) /\ SameFlags /\ cmd'.p = p /\ cmd'.ids = cmd.ids \ {p}
        /\ cmd'.how = "dir" /\ cmd'.confirmed = cmd.confirmed
    BY <1>1, <1>2, <1>4 DEF Command, Moves, Stays, SameFlags, Points, Answered, Working
  <1> QED BY <1>1, <1>4, <1>5, TakenUp

LEMMA NoContentKeeps ==
    ASSUME PurgeInv, NEW p \in Projects, NoContent(p)
    PROVE  PurgeInv'
  <1>0. /\ cmd \in Command /\ cmd.pc = "loop" /\ p \in cmd.ids
        /\ Shape /\ Route /\ Progress /\ ~r.hookOnly
        /\ UNCHANGED <<dir, wdir, content, session, assets, lease, turns, deleted, done>>
    BY Begun DEF PurgeInv, NoContent, Mine, disk, others, Route
  <1>1. CASE Exit("error")
    BY <1>1, LoopErrorKeeps
  <1>2. ASSUME Selective, cmd' = [cmd EXCEPT !.ids = @ \ {p}],
               told' = told \cup {<<"nodb", p>>}
        PROVE  PurgeInv'
    <2>1. /\ Moves("loop") /\ SameFlags /\ cmd'.ids = cmd.ids \ {p} /\ cmd'.p = cmd.p
          /\ cmd'.confirmed = cmd.confirmed
      BY <1>0, <1>2 DEF Command, Moves, Stays, SameFlags
    <2>2. Route'
      BY <1>0, <2>1 DEF Route, Moves, Stays, r, Answered, Working
    <2>3. Gone(p)'
      BY <1>2 DEF Gone
    <2>4. \A q \in cmd.targets, tag \in Tags :
            Wants(tag) /\ PendingTag(tag, q) => Settled(tag, q)' \/ PendingTag(tag, q)'
      BY <1>0, <2>1, <2>3 DEF PendingTag, ToCome, Ahead, Moves, Stays, r, Settled
    <2>5. \A w \in cmd.present : PendingSession(w) => SettledSession(w)' \/ PendingSession(w)'
      BY <1>0, <2>1, <2>3 DEF PendingSession, ToCome, AheadSession, Moves, Stays, r, SettledSession
    <2>6. Progress'
      BY <1>0, <1>2, <2>1, <2>4, <2>5, ProgressKept DEF Moves, SameFlags, Failed, Progress
    <2>7. Shape'
      BY <1>0, <2>1, ShapeKept DEF Shape, Moves
    <2>8. NothingUnasked'
      BY <1>0, <2>1, UnaskedKept DEF PurgeInv, Moves
    <2> QED BY <2>2, <2>6, <2>7, <2>8 DEF PurgeInv
  <1>3. ASSUME r.project = "all", ~Selective, UNCHANGED told,
               cmd' = [cmd EXCEPT !.ids = @ \ {p}, !.p = p, !.how = "partial", !.pc = "removeall"]
        PROVE  PurgeInv'
    <2>1. /\ Moves("removeall") /\ SameFlags /\ cmd'.p = p /\ cmd'.ids = cmd.ids \ {p}
          /\ cmd'.how = "partial" /\ cmd'.confirmed = cmd.confirmed
      BY <1>0, <1>3 DEF Command, Moves, Stays, SameFlags, Points, Answered, Working
    <2>2. Nothing
      BY <1>0, <1>3 DEF Nothing, Mine, disk, others
    <2>3. ~r.older
      BY <1>3 DEF Selective
    <2> QED BY <1>0, <1>3, <2>1, <2>2, <2>3, TakenUp
  <1> QED BY <1>1, <1>2, <1>3 DEF NoContent

(* os.RemoveAll *)
LEMMA RemoveAllKeeps ==
    ASSUME PurgeInv, NEW complete \in BOOLEAN, RemoveAll(complete)
    PROVE  PurgeInv'
  <1>p. PICK p : p = cmd.p
    OBVIOUS
  <1> DEFINE ws == InProject(p)
  <1>0. /\ cmd \in Command /\ cmd.pc = "removeall" /\ Shape /\ Route /\ Progress
        /\ p = cmd.p /\ p \in cmd.targets /\ p \in Projects /\ ~r.hookOnly
        /\ cmd.confirmed \/ GcOnly(r)
        /\ \/ cmd.how = "dir" /\ ~(r.older \/ r.sessions \/ r.gc \/ r.hookOnly)
           \/ cmd.how = "partial" /\ r.project = "all" /\ ~r.older
    <2>1. cmd \in Command
      BY Begun DEF PurgeInv, RemoveAll
    <2> QED BY <1>p, <2>1 DEF PurgeInv, Route, RemoveAll, Command, Answered, Working
  <1>1. /\ content' \in [Projects -> SUBSET Parts] /\ UNCHANGED <<lease, told>>
        /\ lease' \in [Worktrees -> {"free", "server", "recover", "purge"}]
    BY <1>0 DEF RemoveAll, Shape, Mine, others, NoDB
  <1>2. \A d \in deleted' \ deleted :
          /\ d.how = cmd.how
          /\ (IF d.of \in Worktrees THEN ProjectOf[d.of] ELSE d.of) = p
    <2>1. \A what, of : Deletion(what, of, cmd.how).how = cmd.how /\ Deletion(what, of, cmd.how).of = of
      BY DEF Deletion
    <2>2. \A w \in ws : w \in Worktrees /\ ProjectOf[w] = p
      BY DEF InProject
    <2>3. p \notin Worktrees
      BY <1>0, PurgeAssumption
    <2> QED BY <1>0, <2>1, <2>2, <2>3 DEF RemoveAll
  <1>3. CASE Exit("error") /\ UNCHANGED <<dir, wdir>>
    <2>1. Moves("exit") /\ cmd'.confirmed = cmd.confirmed /\ Route' /\ Progress'
      BY <1>0, <1>3, ErrorExit
    <2>2. Shape'
      BY <1>0, <1>1, <1>3, <2>1, ShapeKept DEF Moves
    <2>3. \A d \in deleted' \ deleted : Allowed(d)'
      BY <1>0, <1>2, <2>1 DEF Allowed, Moves, Stays, r, GcOnly
    <2>4. NothingUnasked'
      BY <2>1, <2>3, UnaskedKept DEF PurgeInv, Moves
    <2> QED BY <2>1, <2>2, <2>4 DEF PurgeInv
  <1>4. ASSUME Go("loop"), dir' = dir \ {p}, wdir' = wdir \ ws,
               done' = done \cup {<<"dir", p>>}
        PROVE  PurgeInv'
    <2>1. Moves("loop") /\ SameFlags /\ SamePlace /\ cmd'.confirmed = cmd.confirmed
      BY <1>0, <1>4, GoMoves DEF Points, Answered
    <2>2. Route'
      BY <1>0, <2>1 DEF Route, Moves, Stays, SamePlace, r, Answered, Working
    <2>3. Gone(p)'
      BY <1>4 DEF Gone
    <2>4. \A q \in cmd.targets, tag \in Tags :
            Wants(tag) /\ PendingTag(tag, q) => Settled(tag, q)' \/ PendingTag(tag, q)'
      BY <1>0, <2>1, <2>3
      DEF PendingTag, ToCome, Ahead, Moves, Stays, SamePlace, r, Settled, Working
    <2>5. \A w \in cmd.present : PendingSession(w) => SettledSession(w)' \/ PendingSession(w)'
      BY <1>0, <2>1, <2>3
      DEF PendingSession, ToCome, AheadSession, Moves, Stays, SamePlace, r, SettledSession, Working
    <2>6. \A w \in wdir \ wdir' : Gone(ProjectOf[w])'
      BY <1>4, <2>3 DEF InProject
    <2>7. Progress'
      BY <1>0, <1>1, <1>4, <2>1, <2>4, <2>5, <2>6, ProgressKept
      DEF Moves, SameFlags, Failed, Progress
    <2>8. Shape'
      BY <1>0, <1>1, <1>4, <2>1, ShapeKept DEF Moves
    <2>9. \A d \in deleted' \ deleted : Allowed(d)'
      BY <1>0, <1>2, <2>1 DEF Allowed, Moves, Stays, r, GcOnly
    <2>10. NothingUnasked'
      BY <2>1, <2>9, UnaskedKept DEF PurgeInv, Moves
    <2> QED BY <2>2, <2>7, <2>8, <2>10 DEF PurgeInv
  <1> QED BY <1>0, <1>3, <1>4 DEF RemoveAll

-----------------------------------------------------------------------------
(* The steps within one project. *)

LEMMA StepKept ==
    ASSUME PurgeInv, cmd \in Command, cmd' \in Command, cmd.pc # "exit", Stays,
           cmd'.confirmed = cmd.confirmed, UNCHANGED <<dir, wdir, deleted>>,
           lease' \in [Worktrees -> {"free", "server", "recover", "purge"}],
           content' \in [Projects -> SUBSET Parts],
           done \subseteq done', told \subseteq told',
           Failed => Failed', cmd'.diskAbort => Failed', cmd'.pc = "exit" => ~Failed',
           cmd'.pc = "finish" => r.hookOnly \/ cmd'.ids = {},
           Route',
           \A p \in cmd.targets, tag \in Tags :
             Wants(tag) /\ PendingTag(tag, p) => Settled(tag, p)' \/ PendingTag(tag, p)',
           r.sessions => \A w \in cmd.present :
             PendingSession(w) => SettledSession(w)' \/ PendingSession(w)'
    PROVE  PurgeInv'
  <1>1. Shape' /\ NothingUnasked'
    BY ShapeKept, UnaskedKept DEF PurgeInv, Shape
  <1>2. Progress'
    BY ProgressKept DEF PurgeInv, r
  <1> QED BY <1>1, <1>2 DEF PurgeInv

(* An error on the way leads to the end without a success. *)
LEMMA FailKept ==
    ASSUME PurgeInv, cmd \in Command, Fail, cmd.pc \in Working, UNCHANGED <<dir, wdir>>,
           lease' \in [Worktrees -> {"free", "server", "recover", "purge"}],
           content' \in [Projects -> SUBSET Parts],
           done \subseteq done', told \subseteq told',
           \A d \in deleted' \ deleted : Allowed(d)'
    PROVE  PurgeInv'
  <1>0. Route /\ Progress /\ Shape /\ cmd.pc # "exit"
    BY DEF PurgeInv, Working
  <1>1. /\ Moves("close") /\ SamePlace /\ cmd'.confirmed = cmd.confirmed /\ cmd'.err
        /\ Failed' = Failed /\ cmd'.diskAbort = cmd.diskAbort
    BY FailMoves DEF Failed
  <1>2. Route'
    BY <1>0, <1>1 DEF Route, Moves, Stays, SamePlace, r, Answered, Working
  <1>3. /\ \A p, tag : PendingTag(tag, p) => PendingTag(tag, p)'
        /\ \A w : PendingSession(w) => PendingSession(w)'
    BY <1>0, <1>1 DEF PendingTag, PendingSession, ToCome, Ahead, AheadSession, Moves,
                      Stays, SamePlace, r, Working
  <1>4. Progress'
    BY <1>0, <1>1, <1>3, ProgressKept DEF Moves, Progress
  <1>5. Shape' /\ NothingUnasked'
    BY <1>0, <1>1, ShapeKept, UnaskedKept DEF PurgeInv, Moves
  <1> QED BY <1>2, <1>4, <1>5 DEF PurgeInv

LEMMA OpenStoreKeeps ==
    ASSUME PurgeInv, NEW ok \in BOOLEAN, OpenStore(ok)
    PROVE  PurgeInv'
  <1>0. cmd \in Command /\ cmd.pc = "open" /\ Nothing /\ Shape /\ Route /\ Progress
    BY Begun DEF PurgeInv, OpenStore
  <1>n. /\ UNCHANGED <<dir, wdir, content, session, assets, lease, turns, deleted, done, told>>
        /\ lease' \in [Worktrees -> {"free", "server", "recover", "purge"}]
    BY <1>0, NothingMeans
  <1>1. CASE Exit("error")
    BY <1>0, <1>1, <1>n, ErrorKeeps
  <1>2. CASE Go("rows")
    <2>1. Moves("rows") /\ SameFlags /\ SamePlace /\ cmd'.confirmed = cmd.confirmed
      BY <1>0, <1>2, GoMoves DEF Points, Answered, Working
    <2>2. Route'
      BY <1>0, <2>1 DEF Route, Moves, Stays, SamePlace, r, Answered, Working
    <2>3. /\ \A p, tag : PendingTag(tag, p) => PendingTag(tag, p)'
          /\ \A w : PendingSession(w) => PendingSession(w)'
      BY <1>0, <2>1 DEF PendingTag, PendingSession, ToCome, Ahead, AheadSession, Moves,
                        Stays, SamePlace, r, Working
    <2>4. Progress'
      BY <1>0, <1>n, <2>1, <2>3, ProgressKept DEF Moves, SameFlags, Failed, Progress
    <2> QED BY <1>0, <2>1, <2>2, <2>4, QuietKept DEF Moves
  <1> QED BY <1>1, <1>2 DEF OpenStore

(* Where a project's steps go on, and what the request leaves out then. *)
LEMMA NextSteps ==
    ASSUME cmd \in Command, ~Refused(r), ~r.hookOnly
    PROVE  /\ AfterGc \in {"merge", "close"}
           /\ AfterGc = "close" => ~r.vacuum
           /\ AfterSessions \in {"gc", "merge", "close", "loop"}
           /\ AfterSessions = "gc" => r.gc
           /\ AfterSessions # "gc" => ~r.gc
           /\ AfterSessions \in {"close", "loop"} => ~r.vacuum
  BY DEF AfterGc, AfterSessions, Selective, Refused

LEMMA PurgeRowsKeeps ==
    ASSUME PurgeInv, NEW commit \in BOOLEAN, NEW ok \in BOOLEAN, PurgeRows(commit, ok)
    PROVE  PurgeInv'
  <1>p. PICK p : p = cmd.p
    OBVIOUS
  <1>t. PICK part : part = IF r.hookOnly THEN "hook" ELSE "old"
    OBVIOUS
  <1>0. /\ cmd \in Command /\ cmd.pc = "rows" /\ Shape /\ Route /\ Progress
        /\ p = cmd.p /\ p \in cmd.targets /\ p \in Projects
        /\ cmd.confirmed \/ GcOnly(r)
        /\ r.older \/ r.hookOnly
        /\ ~Refused(r)
        /\ r.hookOnly => cmd.targets = {p} /\ ~r.older /\ ~r.gc /\ ~r.sessions /\ ~r.vacuum
        /\ UNCHANGED <<dir, wdir, session, assets, told, lease>>
        /\ lease' \in [Worktrees -> {"free", "server", "recover", "purge"}]
    <2>1. cmd \in Command
      BY Begun DEF PurgeInv, PurgeRows
    <2> QED
      BY <1>p, <2>1 DEF PurgeInv, Route, PurgeRows, Command, Answered, Working, Refused,
                        Mine, others, Shape
  <1>1. content' \in [Projects -> SUBSET Parts]
    BY <1>0 DEF PurgeRows, Shape, Parts
  <1>2. \A d \in deleted' \ deleted :
          /\ d.how = "rows" /\ d.what = part
          /\ (IF d.of \in Worktrees THEN ProjectOf[d.of] ELSE d.of) = p
    <2>1. /\ Deletion(part, p, "rows").how = "rows" /\ Deletion(part, p, "rows").of = p
          /\ Deletion(part, p, "rows").what = part
      BY DEF Deletion
    <2>2. p \notin Worktrees
      BY <1>0, PurgeAssumption
    <2> QED BY <1>0, <1>t, <2>1, <2>2 DEF PurgeRows
  <1>3. ASSUME Stays, cmd'.confirmed = cmd.confirmed
        PROVE  \A d \in deleted' \ deleted : Allowed(d)'
    BY <1>0, <1>2, <1>3, <1>t DEF Allowed, Stays, r, GcOnly
  <1>4. CASE Fail /\ UNCHANGED done
    <2>1. Stays /\ cmd'.confirmed = cmd.confirmed
      BY <1>0, <1>4, FailMoves DEF Moves
    <2> QED BY <1>0, <1>1, <1>3, <1>4, <2>1, FailKept DEF Working
  <1>5. ASSUME done' = done \cup {<<part, p>>},
               Go(IF r.hookOnly THEN "merge" ELSE IF r.sessions THEN "listworktrees" ELSE AfterSessions)
        PROVE  PurgeInv'
    <2>a. PICK at : at = IF r.hookOnly THEN "merge"
                         ELSE IF r.sessions THEN "listworktrees" ELSE AfterSessions
      OBVIOUS
    <2>b. /\ at \in {"merge", "listworktrees", "gc", "close", "loop"} /\ Go(at)
          /\ r.hookOnly => at = "merge"
          /\ ~r.hookOnly /\ r.sessions => at = "listworktrees"
          /\ at = "listworktrees" => r.sessions /\ ~r.hookOnly
          /\ at = "gc" => r.gc /\ ~r.hookOnly
          /\ at \in {"merge", "close", "loop"} => ~r.gc \/ r.hookOnly
          /\ at \in {"close", "loop"} => ~r.vacuum /\ ~r.hookOnly
      BY <1>0, <1>5, <2>a, NextSteps
    <2>1. Moves(at) /\ SameFlags /\ SamePlace /\ cmd'.confirmed = cmd.confirmed
      BY <1>0, <2>b, GoMoves DEF Points, Answered, Working
    <2>2. Route'
      BY <1>0, <2>b, <2>1 DEF Route, Moves, Stays, SamePlace, r, Answered, Working
    <2>3. Settled(part, p)'
      BY <1>5 DEF Settled
    <2>4. ASSUME NEW tag \in Tags, Wants(tag) PROVE tag = part \/ Ahead(tag)'
      BY <1>0, <1>t, <2>b, <2>1, <2>4 DEF Wants, Tags, Ahead, Moves
    <2>5. \A q \in cmd.targets, tag \in Tags :
            Wants(tag) /\ PendingTag(tag, q) => Settled(tag, q)' \/ PendingTag(tag, q)'
      BY <1>0, <2>b, <2>1, <2>3, <2>4
      DEF PendingTag, ToCome, Moves, Stays, SamePlace, r, Working
    <2>6. r.sessions => \A w \in cmd.present : PendingSession(w) => PendingSession(w)'
      BY <1>0, <2>b, <2>1
      DEF PendingSession, ToCome, AheadSession, Moves, Stays, SamePlace, r, Working
    <2>7. Progress'
      BY <1>0, <1>5, <2>b, <2>1, <2>5, <2>6, ProgressKept
      DEF Moves, SameFlags, Failed, Progress
    <2>8. Shape' /\ NothingUnasked'
      BY <1>0, <1>1, <1>3, <2>1, ShapeKept, UnaskedKept DEF PurgeInv, Moves
    <2> QED BY <2>2, <2>7, <2>8 DEF PurgeInv
  <1> QED BY <1>0, <1>t, <1>4, <1>5 DEF PurgeRows

LEMMA ListWorktreesKeeps ==
    ASSUME PurgeInv, NEW ok \in BOOLEAN, ListWorktrees(ok)
    PROVE  PurgeInv'
  <1>0. cmd \in Command /\ cmd.pc = "listworktrees" /\ Nothing /\ Shape /\ Route /\ Progress
    BY Begun DEF PurgeInv, ListWorktrees
  <1>n. /\ UNCHANGED <<dir, wdir, content, session, assets, lease, turns, deleted, done, told>>
        /\ lease' \in [Worktrees -> {"free", "server", "recover", "purge"}]
    BY <1>0, NothingMeans
  <1>1. CASE Fail \/ Exit("error")
    BY <1>0, <1>n, <1>1, FailKept, ErrorKeeps DEF Working, Shape
  <1>2. ASSUME cmd' = [cmd EXCEPT !.pc = "sessions", !.ws = InProject(cmd.p) \cap wdir]
        PROVE  PurgeInv'
    <2>w. PICK ws : ws = InProject(cmd.p) \cap wdir
      OBVIOUS
    <2>1. ws \subseteq Worktrees /\ cmd' = [cmd EXCEPT !.pc = "sessions", !.ws = ws]
      BY <1>2, <2>w DEF InProject
    <2>2. /\ Moves("sessions") /\ SameFlags /\ cmd'.ids = cmd.ids /\ cmd'.p = cmd.p
          /\ cmd'.ws = ws /\ cmd'.confirmed = cmd.confirmed
      BY <1>0, <2>1 DEF Command, Moves, Stays, SameFlags, Points, Answered, Working
    <2>3. Route'
      BY <1>0, <2>2, <2>w DEF Route, Moves, Stays, r, Answered, Working, InProject
    <2>4. \A p \in cmd.targets, tag \in Tags : Wants(tag) /\ PendingTag(tag, p) => PendingTag(tag, p)'
      BY <1>0, <2>2 DEF PendingTag, ToCome, Ahead, Moves, Stays, r, Working
    <2>5. \A w \in cmd.present : w \in wdir \/ Gone(ProjectOf[w])
      BY <1>0 DEF Progress
    <2>6. \A w \in cmd.present : w \in Worktrees
      BY <1>0 DEF Command
    <2>7. \A w \in cmd.present : PendingSession(w) => SettledSession(w)' \/ PendingSession(w)'
      <3>1. ASSUME NEW w \in cmd.present, ProjectOf[w] = cmd.p, w \in wdir PROVE AheadSession(w)'
        BY <2>2, <2>6, <2>w, <3>1 DEF AheadSession, Moves, InProject
      <3>2. \A q : Gone(q)' = Gone(q)
        BY <1>n DEF Gone
      <3>3. ASSUME NEW w \in cmd.present, Gone(ProjectOf[w]) PROVE SettledSession(w)'
        BY <3>2, <3>3 DEF SettledSession
      <3>4. ASSUME NEW w \in cmd.present, ToCome(ProjectOf[w]) PROVE ToCome(ProjectOf[w])'
        BY <1>0, <2>2, <3>4 DEF ToCome, Moves, Stays, r, Working
      <3>5. cmd'.pc # "exit" /\ cmd'.p = cmd.p
        BY <2>2 DEF Moves
      <3> SUFFICES ASSUME NEW w \in cmd.present, PendingSession(w)
                   PROVE  SettledSession(w)' \/ PendingSession(w)'
        OBVIOUS
      <3>6. CASE ToCome(ProjectOf[w])
        BY <3>4, <3>5, <3>6 DEF PendingSession
      <3>7. CASE ProjectOf[w] = cmd.p /\ ~Gone(ProjectOf[w])
        BY <2>5, <3>1, <3>5, <3>7 DEF PendingSession
      <3> QED BY <3>3, <3>6, <3>7 DEF PendingSession
    <2>8. Progress'
      BY <1>0, <1>n, <2>2, <2>4, <2>7, ProgressKept DEF Moves, SameFlags, Failed, Progress
    <2> QED BY <1>0, <2>2, <2>3, <2>8, QuietKept DEF Moves
  <1> QED BY <1>1, <1>2 DEF ListWorktrees, GiveUp

LEMMA LockWorktreeKeeps ==
    ASSUME PurgeInv, NEW w \in Worktrees, NEW ok \in BOOLEAN, LockWorktree(w, ok)
    PROVE  PurgeInv'
  <1>0. /\ cmd \in Command /\ cmd.pc = "sessions" /\ w \in cmd.ws /\ Shape /\ Route /\ Progress
        /\ UNCHANGED <<dir, wdir, content, session, assets, deleted, done>>
        /\ lease' \in [Worktrees -> {"free", "server", "recover", "purge"}]
        /\ w \in InProject(cmd.p)
    <2>1. cmd \in Command
      BY Begun DEF PurgeInv, LockWorktree
    <2> QED BY <2>1 DEF PurgeInv, Route, LockWorktree, disk, Shape
  <1>1. ASSUME lease' = [lease EXCEPT ![w] = "purge"], UNCHANGED told,
               cmd' = [cmd EXCEPT !.pc = "removesession", !.ws = @ \ {w}, !.w = w]
        PROVE  PurgeInv'
    <2>1. /\ Moves("removesession") /\ SameFlags /\ cmd'.ids = cmd.ids /\ cmd'.p = cmd.p
          /\ cmd'.ws = cmd.ws \ {w} /\ cmd'.w = w /\ cmd'.confirmed = cmd.confirmed
      BY <1>0, <1>1 DEF Command, Moves, Stays, SameFlags, Points, Answered, Working
    <2>2. lease'[w] = "purge"
      BY <1>0, <1>1 DEF Shape
    <2>3. Route'
      BY <1>0, <2>1, <2>2 DEF Route, Moves, Stays, r, Answered, Working, InProject
    <2>4. \A p, tag : PendingTag(tag, p) => PendingTag(tag, p)'
      BY <1>0, <2>1 DEF PendingTag, ToCome, Ahead, Moves, Stays, r, Working
    <2>5. \A x : PendingSession(x) => PendingSession(x)'
      BY <1>0, <2>1 DEF PendingSession, ToCome, AheadSession, Moves, Stays, r, Working
    <2> QED BY <1>0, <1>1, <2>1, <2>3, <2>4, <2>5, StepKept
            DEF Moves, SameFlags, Failed, Progress, Shape
  <1>2. ASSUME told' = told \cup {<<"session", w>>}, cmd' = [cmd EXCEPT !.ws = @ \ {w}],
               UNCHANGED lease
        PROVE  PurgeInv'
    <2>1. /\ Moves("sessions") /\ SameFlags /\ cmd'.ids = cmd.ids /\ cmd'.p = cmd.p
          /\ cmd'.ws = cmd.ws \ {w} /\ cmd'.w = cmd.w /\ cmd'.confirmed = cmd.confirmed
      BY <1>0, <1>2 DEF Command, Moves, Stays, SameFlags
    <2>2. Route'
      BY <1>0, <2>1 DEF Route, Moves, Stays, r, Answered, Working, InProject
    <2>3. \A p, tag : PendingTag(tag, p) => PendingTag(tag, p)'
      BY <1>0, <2>1 DEF PendingTag, ToCome, Ahead, Moves, Stays, r, Working
    <2>4. SettledSession(w)'
      BY <1>2 DEF SettledSession
    <2>5. \A x : x # w /\ PendingSession(x) => PendingSession(x)'
      BY <1>0, <2>1 DEF PendingSession, ToCome, AheadSession, Moves, Stays, r, Working
    <2> QED BY <1>0, <1>2, <2>1, <2>2, <2>3, <2>4, <2>5, StepKept
            DEF Moves, SameFlags, Failed, Progress, Shape
  <1> QED BY <1>1, <1>2 DEF LockWorktree

LEMMA RemoveSessionKeeps ==
    ASSUME PurgeInv, NEW first \in BOOLEAN, NEW ok \in BOOLEAN, removeSessionDBFiles(first, ok)
    PROVE  PurgeInv'
  <1>w. PICK w : w = cmd.w
    OBVIOUS
  <1>0. /\ cmd \in Command /\ cmd.pc = "removesession" /\ Shape /\ Route /\ Progress
        /\ w = cmd.w /\ w \in InProject(cmd.p) /\ w \in Worktrees /\ lease[w] = "purge"
        /\ ProjectOf[w] = cmd.p /\ cmd.p \in cmd.targets
        /\ cmd.confirmed \/ GcOnly(r)
        /\ r.sessions
        /\ UNCHANGED <<dir, wdir, content, assets, told>>
    <2>1. cmd \in Command
      BY Begun DEF PurgeInv, removeSessionDBFiles
    <2> QED BY <1>w, <2>1 DEF PurgeInv, Route, removeSessionDBFiles, InProject, Answered, Working
  <1>1. /\ lease' \in [Worktrees -> {"free", "server", "recover", "purge"}]
        /\ content' \in [Projects -> SUBSET Parts]
    BY <1>0 DEF removeSessionDBFiles, Shape
  <1>2. ASSUME NEW d \in deleted' \ deleted
        PROVE  d.how = "sessions" /\ d.what = "session" /\ ~d.leased /\ d.of = w
    <2>1. d = [Deletion("session", w, "sessions") EXCEPT !.leased = lease[w] # "purge"]
      BY <1>0, <1>2 DEF removeSessionDBFiles
    <2>2. d = [what |-> "session", of |-> w, how |-> "sessions", leased |-> lease[w] # "purge"]
      BY <2>1 DEF Deletion
    <2> QED BY <1>0, <2>2
  <1>3. ASSUME Stays, cmd'.confirmed = cmd.confirmed
        PROVE  \A d \in deleted' \ deleted : Allowed(d)'
    BY <1>0, <1>2, <1>3 DEF Allowed, Stays, r, GcOnly
  <1>4. CASE Fail /\ UNCHANGED done
    <2>1. Stays /\ cmd'.confirmed = cmd.confirmed
      BY <1>0, <1>4, FailMoves DEF Moves
    <2> QED BY <1>0, <1>1, <1>3, <1>4, <2>1, FailKept DEF Working
  <1>5. CASE Exit("error")
    <2>1. Moves("exit") /\ cmd'.confirmed = cmd.confirmed /\ Route' /\ Progress'
      BY <1>0, <1>5, ErrorExit
    <2>2. Shape' /\ NothingUnasked'
      BY <1>0, <1>1, <1>3, <2>1, ShapeKept, UnaskedKept DEF PurgeInv, Moves
    <2> QED BY <2>1, <2>2 DEF PurgeInv
  <1>6. ASSUME done' = done \cup {<<"session", w>>}, Go("sessions")
        PROVE  PurgeInv'
    <2>1. Moves("sessions") /\ SameFlags /\ SamePlace /\ cmd'.confirmed = cmd.confirmed
      BY <1>0, <1>6, GoMoves DEF Points, Answered, Working
    <2>2. Route'
      BY <1>0, <2>1 DEF Route, Moves, Stays, SamePlace, r, Answered, Working
    <2>3. \A p, tag : PendingTag(tag, p) => PendingTag(tag, p)'
      BY <1>0, <2>1 DEF PendingTag, ToCome, Ahead, Moves, Stays, SamePlace, r, Working
    <2>4. SettledSession(w)'
      BY <1>6 DEF SettledSession
    <2>5. \A x : x # w /\ PendingSession(x) => PendingSession(x)'
      BY <1>0, <2>1 DEF PendingSession, ToCome, AheadSession, Moves, Stays, SamePlace, r, Working
    <2>6. Progress'
      BY <1>0, <1>6, <2>1, <2>3, <2>4, <2>5, ProgressKept DEF Moves, SameFlags, Failed, Progress
    <2>7. \A d \in deleted' \ deleted : Allowed(d)'
      BY <1>3, <2>1 DEF Moves
    <2>9. Shape' /\ NothingUnasked'
      BY <1>0, <1>1, <2>1, <2>7, ShapeKept, UnaskedKept DEF PurgeInv, Moves
    <2> QED BY <2>2, <2>6, <2>9 DEF PurgeInv
  <1> QED BY <1>0, <1>4, <1>5, <1>6 DEF removeSessionDBFiles, GiveUp

LEMMA SessionsDoneKeeps ==
    ASSUME PurgeInv, SessionsDone
    PROVE  PurgeInv'
  <1>0. cmd \in Command /\ cmd.pc = "sessions" /\ cmd.ws = {} /\ Nothing /\ Shape /\ Route /\ Progress
    BY Begun DEF PurgeInv, SessionsDone
  <1>n. UNCHANGED <<dir, wdir, content, session, assets, lease, turns, deleted, done, told>>
    BY <1>0, NothingMeans
  <1>1. ~Refused(r) /\ ~r.hookOnly
    BY <1>0 DEF Route
  <1>2. PICK at : at = AfterSessions
    OBVIOUS
  <1>3. /\ at \in {"gc", "merge", "close", "loop"} /\ Go(at)
        /\ at = "gc" => r.gc
        /\ at # "gc" => ~r.gc
        /\ at \in {"close", "loop"} => ~r.vacuum
    BY <1>0, <1>1, <1>2, NextSteps DEF SessionsDone
  <1>4. Moves(at) /\ SameFlags /\ SamePlace /\ cmd'.confirmed = cmd.confirmed
    BY <1>0, <1>3, GoMoves DEF Points, Answered, Working
  <1>5. Route'
    BY <1>0, <1>1, <1>3, <1>4 DEF Route, Moves, Stays, SamePlace, r, Answered, Working
  <1>6. \A p, tag : Wants(tag) /\ PendingTag(tag, p) => PendingTag(tag, p)'
    <2>1. ASSUME NEW tag, Wants(tag), Ahead(tag) PROVE Ahead(tag)'
      BY <1>0, <1>1, <1>3, <1>4, <2>1 DEF Wants, Ahead, Moves
    <2> QED BY <1>0, <1>1, <1>3, <1>4, <2>1 DEF PendingTag, ToCome, Moves, Stays, SamePlace, r
  <1>7. \A w : PendingSession(w) => PendingSession(w)'
    BY <1>0, <1>1, <1>3, <1>4 DEF PendingSession, ToCome, AheadSession, Moves, Stays, SamePlace, r
  <1>8. Progress'
    BY <1>0, <1>n, <1>3, <1>4, <1>6, <1>7, ProgressKept DEF Moves, SameFlags, Failed, Progress
  <1> QED BY <1>0, <1>4, <1>5, <1>8, QuietKept DEF Moves

LEMMA CollectOrphansKeeps ==
    ASSUME PurgeInv, NEW ok \in BOOLEAN, CollectOrphans(ok)
    PROVE  PurgeInv'
  <1>p. PICK p : p = cmd.p
    OBVIOUS
  <1>0. /\ cmd \in Command /\ cmd.pc = "gc" /\ Shape /\ Route /\ Progress
        /\ p = cmd.p /\ p \in cmd.targets
        /\ ~Refused(r) /\ ~r.hookOnly /\ r.gc
        /\ UNCHANGED <<dir, wdir, session, assets, deleted, told, lease>>
        /\ lease' \in [Worktrees -> {"free", "server", "recover", "purge"}]
        /\ content' \in [Projects -> SUBSET Parts]
    <2>1. cmd \in Command
      BY Begun DEF PurgeInv, CollectOrphans
    <2> QED BY <1>p, <2>1 DEF PurgeInv, Route, CollectOrphans, Mine, others, Shape, Working
  <1>1. CASE UNCHANGED <<content, done>> /\ (Fail \/ Exit("error"))
    BY <1>0, <1>1, FailKept, ErrorKeeps DEF Working
  <1>2. ASSUME done' = done \cup {<<"orphan", p>>}, Go(IF Selective THEN AfterGc ELSE "loop")
        PROVE  PurgeInv'
    <2>1. PICK at : at = IF Selective THEN AfterGc ELSE "loop"
      OBVIOUS
    <2>2. /\ at \in {"merge", "close", "loop"} /\ Go(at)
          /\ at \in {"close", "loop"} => ~r.vacuum
      BY <1>0, <1>2, <2>1, NextSteps DEF Selective, Refused
    <2>3. Moves(at) /\ SameFlags /\ SamePlace /\ cmd'.confirmed = cmd.confirmed
      BY <1>0, <2>2, GoMoves DEF Points, Answered, Working
    <2>4. Route'
      BY <1>0, <2>2, <2>3 DEF Route, Moves, Stays, SamePlace, r, Answered, Working
    <2>5. Settled("orphan", p)'
      BY <1>2 DEF Settled
    <2>6. \A q, tag : Wants(tag) /\ PendingTag(tag, q) => Settled(tag, q)' \/ PendingTag(tag, q)'
      <3>1. ASSUME NEW tag, Wants(tag), Ahead(tag) PROVE tag = "orphan" \/ Ahead(tag)'
        BY <1>0, <2>2, <2>3, <3>1 DEF Wants, Ahead, Moves
      <3> QED BY <1>0, <2>2, <2>3, <2>5, <3>1 DEF PendingTag, ToCome, Moves, Stays, SamePlace, r
    <2>7. \A w : PendingSession(w) => PendingSession(w)'
      BY <1>0, <2>2, <2>3 DEF PendingSession, ToCome, AheadSession, Moves, Stays, SamePlace, r
    <2> QED BY <1>0, <1>2, <2>2, <2>3, <2>4, <2>6, <2>7, StepKept
            DEF Moves, SameFlags, Failed, Progress
  <1> QED BY <1>0, <1>1, <1>2 DEF CollectOrphans, GiveUp

(* What merge and VACUUM leave undone, the exit status tells. *)
LEMMA ReclaimKeeps ==
    ASSUME PurgeInv,
           \/ SkipReclaim
           \/ \E outcome \in {"ok", "busy", "disk"} : MergeFTS(outcome) \/ vacuumReclaim(outcome)
    PROVE  PurgeInv'
  <1>p. PICK p : p = cmd.p
    OBVIOUS
  <1>0. /\ cmd \in Command /\ cmd.pc \in {"merge", "vacuum"} /\ Shape /\ Route /\ Progress
        /\ p = cmd.p
        /\ UNCHANGED <<dir, wdir, deleted, lease>>
        /\ lease' \in [Worktrees -> {"free", "server", "recover", "purge"}]
        /\ content' \in [Projects -> SUBSET Parts]
        /\ cmd.diskAbort => Failed
    <2>1. cmd \in Command
      BY Begun DEF PurgeInv, SkipReclaim, MergeFTS, vacuumReclaim
    <2>2. cmd.pc \in {"merge", "vacuum"}
      BY DEF SkipReclaim, MergeFTS, vacuumReclaim
    <2>3. cmd.diskAbort => Failed
      BY <2>1, <2>2 DEF PurgeInv, Progress
    <2>4. UNCHANGED <<dir, wdir, deleted, lease>>
      BY DEF SkipReclaim, MergeFTS, vacuumReclaim, Mine, others, disk
    <2>5. content' \in [Projects -> SUBSET Parts]
      BY DEF PurgeInv, SkipReclaim, MergeFTS, vacuumReclaim, disk, Shape
    <2> QED BY <1>p, <2>1, <2>2, <2>3, <2>4, <2>5 DEF PurgeInv, Shape
  <1>1. ASSUME NEW at \in {"vacuum", "close"}, at = "vacuum" <=> cmd.pc = "merge",
               Moves(at), SamePlace, cmd'.confirmed = cmd.confirmed,
               done \subseteq done', told \subseteq told', Failed => Failed',
               cmd'.diskAbort => Failed', cmd'.err = cmd.err,
               Failed' \/ (cmd.pc = "merge" /\ <<"tombstone", p>> \in done')
                       \/ (cmd.pc = "vacuum" /\ <<"free", p>> \in done')
        PROVE  PurgeInv'
    <2>1. Route'
      BY <1>0, <1>1 DEF Route, Moves, Stays, SamePlace, r, Answered, Working
    <2>2. \A q, tag : Wants(tag) /\ PendingTag(tag, q) => Settled(tag, q)' \/ PendingTag(tag, q)'
      <3>1. ASSUME NEW tag, Ahead(tag) PROVE Settled(tag, p)' \/ Ahead(tag)'
        BY <1>0, <1>1, <3>1 DEF Ahead, Moves, Settled
      <3>2. \A q : ToCome(q) => ToCome(q)'
        BY <1>0, <1>1 DEF ToCome, Moves, Stays, SamePlace, r, Working
      <3>3. cmd'.pc # "exit" /\ cmd'.p = p
        BY <1>0, <1>1 DEF Moves, SamePlace
      <3> QED BY <1>0, <3>1, <3>2, <3>3 DEF PendingTag
    <2>3. \A w : PendingSession(w) => PendingSession(w)'
      BY <1>0, <1>1 DEF PendingSession, ToCome, AheadSession, Moves, Stays, SamePlace, r, Working
    <2> QED BY <1>0, <1>1, <2>1, <2>2, <2>3, StepKept DEF Moves
  <1>2. CASE SkipReclaim
    <2>1. cmd.pc = "merge" /\ cmd.diskAbort /\ Go("close") /\ told \subseteq told' /\ done' = done
      BY <1>2 DEF SkipReclaim
    <2>2. Moves("close") /\ SameFlags /\ SamePlace /\ cmd'.confirmed = cmd.confirmed
      BY <1>0, <2>1, GoMoves DEF Points, Answered, Working
    <2>3. Failed /\ Failed'
      BY <1>0, <2>1, <2>2 DEF Failed, SameFlags
    <2>4. Route'
      BY <1>0, <2>1, <2>2 DEF Route, Moves, Stays, SamePlace, r, Answered, Working
    <2>5. \A q, tag : Wants(tag) /\ PendingTag(tag, q) => Settled(tag, q)' \/ PendingTag(tag, q)'
      BY <1>0, <2>1, <2>2, <2>3
      DEF PendingTag, ToCome, Ahead, Settled, Moves, Stays, SamePlace, r, Working
    <2>6. \A w : PendingSession(w) => PendingSession(w)'
      BY <1>0, <2>1, <2>2 DEF PendingSession, ToCome, AheadSession, Moves, Stays, SamePlace, r, Working
    <2> QED BY <1>0, <2>1, <2>2, <2>3, <2>4, <2>5, <2>6, StepKept DEF Moves, SameFlags
  <1>3. ASSUME NEW outcome \in {"ok", "busy", "disk"}, MergeFTS(outcome) PROVE PurgeInv'
    <2>0. cmd.pc = "merge" /\ UNCHANGED told
      BY <1>3 DEF MergeFTS
    <2>1. CASE outcome = "ok"
      <3>1. Go("vacuum") /\ done' = done \cup {<<"tombstone", p>>}
        BY <1>0, <1>3, <2>1 DEF MergeFTS
      <3>2. Moves("vacuum") /\ SameFlags /\ SamePlace /\ cmd'.confirmed = cmd.confirmed
        BY <1>0, <3>1, GoMoves DEF Points, Answered, Working
      <3> QED BY <1>0, <1>1, <2>0, <3>1, <3>2 DEF SameFlags, Failed
    <2>2. CASE outcome # "ok"
      <3>1. /\ cmd' = [cmd EXCEPT !.pc = "vacuum", !.mergeFailed = TRUE, !.diskAbort = outcome = "disk"]
            /\ UNCHANGED done
        BY <1>3, <2>2 DEF MergeFTS
      <3>a. PICK full \in BOOLEAN : full = (outcome = "disk")
        OBVIOUS
      <3>b. cmd' = [cmd EXCEPT !.pc = "vacuum", !.mergeFailed = TRUE, !.diskAbort = full]
        BY <3>1, <3>a
      <3>2. /\ Moves("vacuum") /\ SamePlace /\ cmd'.confirmed = cmd.confirmed
            /\ cmd'.mergeFailed /\ cmd'.err = cmd.err
        BY <1>0, <3>b DEF Command, Moves, Stays, SamePlace, Points, Answered, Working
      <3> QED BY <1>0, <1>1, <2>0, <3>1, <3>2 DEF Failed
    <2> QED BY <2>1, <2>2
  <1>4. ASSUME NEW outcome \in {"ok", "busy", "disk"}, vacuumReclaim(outcome) PROVE PurgeInv'
    <2>0. cmd.pc = "vacuum" /\ UNCHANGED told
      BY <1>4 DEF vacuumReclaim
    <2>1. CASE outcome = "ok"
      <3>1. Go("close") /\ done' = done \cup {<<"free", p>>}
        BY <1>0, <1>4, <2>1 DEF vacuumReclaim
      <3>2. Moves("close") /\ SameFlags /\ SamePlace /\ cmd'.confirmed = cmd.confirmed
        BY <1>0, <3>1, GoMoves DEF Points, Answered, Working
      <3> QED BY <1>0, <1>1, <2>0, <3>1, <3>2 DEF SameFlags, Failed
    <2>2. CASE outcome # "ok"
      <3>1. PICK full \in BOOLEAN : full = (cmd.diskAbort \/ outcome = "disk")
        OBVIOUS
      <3>2. /\ cmd' = [cmd EXCEPT !.pc = "close", !.vacuumFailed = TRUE, !.diskAbort = full]
            /\ UNCHANGED done
        BY <1>4, <2>2, <3>1 DEF vacuumReclaim
      <3>3. /\ Moves("close") /\ SamePlace /\ cmd'.confirmed = cmd.confirmed
            /\ cmd'.vacuumFailed /\ cmd'.err = cmd.err
        BY <1>0, <3>2 DEF Command, Moves, Stays, SamePlace, Points, Answered, Working
      <3> QED BY <1>0, <1>1, <2>0, <3>2, <3>3 DEF Failed
    <2> QED BY <2>1, <2>2
  <1> QED BY <1>2, <1>3, <1>4

(* Close; the end of the loop. *)
LEMMA ClosingKeeps ==
    ASSUME PurgeInv, AllSeen \/ \E ok \in BOOLEAN : CloseStore(ok)
    PROVE  PurgeInv'
  <1>0. cmd \in Command /\ Nothing /\ Shape /\ Route /\ Progress /\ cmd.pc \in {"loop", "close"}
    BY Begun DEF PurgeInv, AllSeen, CloseStore
  <1>n. /\ UNCHANGED <<dir, wdir, content, session, assets, lease, turns, deleted, done, told>>
        /\ lease' \in [Worktrees -> {"free", "server", "recover", "purge"}]
    BY <1>0, NothingMeans
  <1>1. CASE Exit("error")
    BY <1>0, <1>1, <1>n, ErrorKeeps
  <1>2. ASSUME NEW at \in {"finish", "loop"}, Go(at),
               at = "finish" => r.hookOnly \/ cmd.ids = {},
               \/ cmd.pc = "close" /\ ~cmd.err /\ (at = "finish" <=> r.hookOnly)
               \/ cmd.pc = "loop" /\ at = "finish" /\ cmd.ids = {}
        PROVE  PurgeInv'
    <2>1. Moves(at) /\ SameFlags /\ SamePlace /\ cmd'.confirmed = cmd.confirmed
      BY <1>0, <1>2, GoMoves DEF Points, Answered, Working
    <2>2. Route'
      BY <1>0, <1>2, <2>1 DEF Route, Moves, Stays, SamePlace, r, Answered, Working
    <2>3. /\ \A p, tag : PendingTag(tag, p) => PendingTag(tag, p)'
          /\ \A w : PendingSession(w) => PendingSession(w)'
      BY <1>0, <1>2, <2>1 DEF PendingTag, PendingSession, ToCome, Ahead, AheadSession, Moves,
                              Stays, SamePlace, r, Working
    <2>4. Progress'
      BY <1>0, <1>2, <1>n, <2>1, <2>3, ProgressKept DEF Moves, SameFlags, SamePlace, Failed, Progress, r
    <2> QED BY <1>0, <2>1, <2>2, <2>4, QuietKept DEF Moves
  <1>3. CASE AllSeen
    BY <1>2, <1>3 DEF AllSeen
  <1>4. ASSUME NEW ok \in BOOLEAN, CloseStore(ok) PROVE PurgeInv'
    BY <1>1, <1>2, <1>4 DEF CloseStore
  <1> QED BY <1>3, <1>4

LEMMA FinishKeeps ==
    ASSUME PurgeInv, Finish
    PROVE  PurgeInv'
  <1>0. cmd \in Command /\ cmd.pc = "finish" /\ Nothing /\ Shape /\ Route /\ Progress
    BY Begun DEF PurgeInv, Finish
  <1>n. /\ UNCHANGED <<dir, wdir, content, session, assets, lease, turns, deleted, done, told>>
        /\ lease' \in [Worktrees -> {"free", "server", "recover", "purge"}]
    BY <1>0, NothingMeans
  <1>1. CASE Exit("error")
    BY <1>0, <1>1, <1>n, ErrorKeeps
  <1>2. CASE Exit("ok") /\ ~Failed
    <2>1. Moves("exit") /\ SameFlags /\ SamePlace /\ cmd'.confirmed = cmd.confirmed
      BY <1>0, <1>2, ExitMoves
    <2>2. Route'
      BY <1>0, <2>1 DEF Route, Moves, Stays, SamePlace, r, Answered, Working
    <2>3. r.hookOnly \/ cmd.ids = {}
      BY <1>0 DEF Progress
    <2>4. /\ \A p, tag : ~PendingTag(tag, p)
          /\ \A w : ~PendingSession(w)
      BY <1>0, <2>3 DEF PendingTag, PendingSession, ToCome, Ahead, AheadSession
    <2>5. Progress'
      BY <1>0, <1>2, <1>n, <2>1, <2>4, ProgressKept DEF Moves, SameFlags, Failed, Progress
    <2> QED BY <1>0, <2>1, <2>2, <2>5, QuietKept DEF Moves
  <1> QED BY <1>1, <1>2 DEF Finish, Failed

LEMMA KillKeeps ==
    ASSUME PurgeInv, Kill
    PROVE  PurgeInv'
  <1>0. /\ cmd \in Command /\ Exit("killed")
        /\ UNCHANGED <<dir, wdir, content, deleted>>
    BY Begun DEF PurgeInv, Shape, Kill, disk
  <1>1. lease' \in [Worktrees -> {"free", "server", "recover", "purge"}]
    BY DEF PurgeInv, Shape, Kill
  <1> QED BY <1>0, <1>1, ErrorKeeps

-----------------------------------------------------------------------------

LEMMA PurgeInvInit == PurgeInit => PurgeInv
  <1> SUFFICES ASSUME PurgeInit PROVE PurgeInv
    OBVIOUS
  <1>1. cmd = [pc |-> "idle"] /\ deleted = {} /\ cmd \notin Command
    BY DEF PurgeInit, Command, Points, Answered, Working
  <1>2. /\ dir \subseteq Projects /\ wdir \subseteq Worktrees
        /\ lease \in [Worktrees -> {"free", "server", "recover", "purge"}]
        /\ content \in [Projects -> SUBSET Parts]
    BY PurgeAssumption DEF PurgeInit, NoDB, Parts
  <1> QED BY <1>1, <1>2 DEF PurgeInv, Shape, Route, NothingUnasked, Progress

LEMMA PurgeInvStep == PurgeInv /\ [PurgeNext]_purgeVars => PurgeInv'
  <1> SUFFICES ASSUME PurgeInv, [PurgeNext]_purgeVars PROVE PurgeInv'
    OBVIOUS
  <1>1. CASE UNCHANGED purgeVars
    BY <1>1, OthersStep
  <1>2. ASSUME NEW w \in Worktrees,
               \/ ServerOpens(w) \/ ServerCloses(w) \/ HookRecords(w)
               \/ \E ok \in BOOLEAN : LockWorktree(w, ok)
        PROVE  PurgeInv'
    BY <1>2, OthersStep, LockWorktreeKeeps
  <1>3. ASSUME NEW w \in Worktrees, NEW outcome \in {"nothing", "published", "broken"},
               RecoverEnds(w, outcome)
        PROVE  PurgeInv'
    BY <1>3, OthersStep
  <1>4. ASSUME NEW p \in Projects, NEW entry \in Worktrees \cup {"none"}, SessionRecover(p, entry)
        PROVE  PurgeInv'
    BY <1>4, OthersStep
  <1>5. ASSUME NEW q \in Requests, Start(q) PROVE PurgeInv'
    BY <1>5, StartKeeps
  <1>6. ASSUME NEW p \in Projects, NoContent(p) \/ NextProject(p) PROVE PurgeInv'
    BY <1>6, NoContentKeeps, NextProjectKeeps
  <1>7. ASSUME NEW ok \in BOOLEAN,
               \/ confirmPurge(ok) \/ RemoveAll(ok) \/ OpenStore(ok) \/ ListWorktrees(ok)
               \/ CollectOrphans(ok) \/ CloseStore(ok)
               \/ \E half \in BOOLEAN : PurgeRows(half, ok) \/ removeSessionDBFiles(half, ok)
        PROVE  PurgeInv'
    BY <1>7, AskingKeeps, RemoveAllKeeps, OpenStoreKeeps, ListWorktreesKeeps, RemoveSessionKeeps,
       CollectOrphansKeeps, ClosingKeeps, PurgeRowsKeeps
  <1>8. ASSUME NEW outcome \in {"ok", "busy", "disk"}, MergeFTS(outcome) \/ vacuumReclaim(outcome)
        PROVE  PurgeInv'
    BY <1>8, ReclaimKeeps
  <1>9. ASSUME \/ HookEstimate \/ Cancelled \/ SessionsDone \/ SkipReclaim
               \/ AllSeen \/ Finish \/ Kill
        PROVE  PurgeInv'
    BY <1>9, AskingKeeps, LoopErrorKeeps, SessionsDoneKeeps, ReclaimKeeps,
       ClosingKeeps, FinishKeeps, KillKeeps
  <1> QED
    BY <1>1, <1>2, <1>3, <1>4, <1>5, <1>6, <1>7, <1>8, <1>9 DEF PurgeNext

(* In a project whose content.db it found the purge command deletes only   *)
(* what the flags name and only after the confirmation; one without        *)
(* content.db it touches only under --all without --older-than: for any    *)
(* projects, worktrees and requests, wherever a step fails or the command  *)
(* is killed, and whatever servers, hooks and recoveries do beside it.     *)
THEOREM PurgeDeletesNothingUnasked == PurgeSpec => []NothingUnasked
  <1>1. PurgeInv => NothingUnasked
    BY DEF PurgeInv
  <1> QED BY <1>1, PurgeInvInit, PurgeInvStep, PTL DEF PurgeSpec

(* A purge that ends without an error has done everything it was asked for *)
(* or has said what it left out.                                           *)
THEOREM PurgeExitIsTruthful == PurgeSpec => []ExitTellsTheTruth
  <1>1. PurgeInv => ExitTellsTheTruth
    <2> SUFFICES ASSUME PurgeInv, cmd.pc = "exit", cmd.status = "ok", NEW a \in Asked
                 PROVE  LET p == IF a[2] \in Worktrees THEN ProjectOf[a[2]] ELSE a[2]
                        IN  \/ a \in done \/ <<"dir", p>> \in done \/ <<"nodb", p>> \in told
                            \/ a[1] = "session" /\ a \in told
      BY DEF ExitTellsTheTruth
    <2>1. cmd \in Command
      BY Begun DEF PurgeInv
    <2>2. /\ ~Failed
          /\ \A p \in cmd.targets, tag \in Tags : Wants(tag) => Settled(tag, p)
          /\ r.sessions => \A w \in cmd.present :
               ProjectOf[w] \in cmd.targets => SettledSession(w)
      BY <2>1 DEF PurgeInv, Progress, PendingTag, PendingSession
    <2>3. \/ \E p \in cmd.targets, tag \in Tags : a = <<tag, p>> /\ Wants(tag)
          \/ /\ r.sessions
             /\ \E w \in cmd.present : ProjectOf[w] \in cmd.targets /\ a = <<"session", w>>
      BY DEF Asked, Wants, Tags
    <2>4. ASSUME NEW p \in cmd.targets, NEW tag \in Tags, a = <<tag, p>>, Wants(tag)
          PROVE  /\ a[2] = p /\ p \notin Worktrees
                 /\ a \in done \/ <<"dir", p>> \in done \/ <<"nodb", p>> \in told
      <3>1. p \in Projects
        BY <2>1 DEF Command
      <3> QED BY <2>2, <2>4, <3>1, PurgeAssumption DEF Settled, Gone
    <2>5. ASSUME NEW w \in cmd.present, ProjectOf[w] \in cmd.targets, a = <<"session", w>>, r.sessions
          PROVE  /\ a[2] = w /\ w \in Worktrees /\ a[1] = "session"
                 /\ \/ a \in done \/ a \in told
                    \/ <<"dir", ProjectOf[w]>> \in done \/ <<"nodb", ProjectOf[w]>> \in told
      <3>1. w \in Worktrees
        BY <2>1 DEF Command
      <3> QED BY <2>2, <2>5, <3>1 DEF SettledSession, Gone
    <2> QED BY <2>3, <2>4, <2>5
  <1> QED BY <1>1, PurgeInvInit, PurgeInvStep, PTL DEF PurgeSpec

-----------------------------------------------------------------------------
(* Settings files (removeHookGroups and the group predicates).             *)

SettingsFile ==
    [state: States, notarray: SUBSET Events, hooks: UNION {[S -> Seq(Groups)] : S \in SUBSET Events}]

(* A group of ours has only entries that run our command, and the classes  *)
(* that doctor counts are the groups that have one.                        *)
LEMMA ClassesAre ==
    ASSUME NEW host \in Hosts, NEW g
    PROVE  /\ IsOurs(host, g) => ~g.garbled /\ g.hooks # {} /\ \A e \in g.hooks : IsCommandToken(host, e)
           /\ IsOurs(host, g) <=> ClassOf(host, g) = "count"
           /\ ClassOf(host, g) \in {"count", "held", "manual"}
                <=> ~g.garbled /\ \E e \in g.hooks : IsCommandToken(host, e)
<1>1. IsOurs(host, g) => ~g.garbled /\ g.hooks # {} /\ \A e \in g.hooks : IsCommandToken(host, e)
  BY DEF Hosts, IsOurs, isOurHookGroup, isOurCodexGroup, IsOurCodexEntry
<1>2. IsOurs(host, g) \/ IsHeld(host, g) \/ IsManual(host, g)
        <=> ~g.garbled /\ \E e \in g.hooks : IsCommandToken(host, e)
  <2>1. CASE host = "claude"
    BY <2>1 DEF IsOurs, IsHeld, IsManual, isOurHookGroup, heldHookGroup, manualHookGroup
  <2>2. CASE host = "codex"
    BY <2>2 DEF IsOurs, IsHeld, IsManual, isOurCodexGroup, heldCodexGroup, manualCodexGroup, IsOurCodexEntry
  <2> QED
    BY <2>1, <2>2 DEF Hosts
<1>3. /\ IsOurs(host, g) => ClassOf(host, g) = "count"
      /\ ~IsOurs(host, g) /\ IsHeld(host, g) => ClassOf(host, g) = "held"
      /\ ~IsOurs(host, g) /\ ~IsHeld(host, g) /\ IsManual(host, g) => ClassOf(host, g) = "manual"
      /\ ~IsOurs(host, g) /\ ~IsHeld(host, g) /\ ~IsManual(host, g) => ClassOf(host, g) = "none"
  BY DEF ClassOf
<1> QED
  BY <1>1, <1>2, <1>3

LEMMA PlacesAre ==
    ASSUME NEW f
    PROVE  /\ \A e \in Events : \A i \in DOMAIN GroupsIn(f, e) :
                 <<e, i>> \in Places(f) /\ GroupAt(f, <<e, i>>) = GroupsIn(f, e)[i]
           /\ \A p \in Places(f) : \E e \in Events : \E i \in DOMAIN GroupsIn(f, e) : p = <<e, i>>
  BY DEF Places, GroupAt

LEMMA PlacesAreFinite ==
    ASSUME NEW f \in SettingsFile
    PROVE  IsFiniteSet(Places(f))
<1>1. \A e \in Events : IsFiniteSet(DOMAIN GroupsIn(f, e))
  <2>1. TAKE e \in Events
  <2>2. CASE e \in DOMAIN f.hooks
    <3>1. f.hooks[e] \in Seq(Groups)
      BY <2>2 DEF SettingsFile
    <3>2. Len(f.hooks[e]) \in Nat /\ DOMAIN f.hooks[e] = 1..Len(f.hooks[e])
      BY <3>1
    <3> QED
      BY <2>2, <3>2, FS_Interval DEF GroupsIn
  <2>3. CASE e \notin DOMAIN f.hooks
    <3>1. DOMAIN GroupsIn(f, e) = {}
      BY <2>3 DEF GroupsIn
    <3> QED
      BY <3>1, FS_EmptySet
  <2> QED
    BY <2>2, <2>3
<1>2. \A e \in Events : IsFiniteSet({e} \X DOMAIN GroupsIn(f, e))
  BY <1>1, FS_Product, FS_Singleton
<1>3. PICK A : A = {"SessionStart"} \X DOMAIN GroupsIn(f, "SessionStart")
  OBVIOUS
<1>4. PICK B : B = {"SubagentStop"} \X DOMAIN GroupsIn(f, "SubagentStop")
  OBVIOUS
<1>5. PICK C : C = {"Stop"} \X DOMAIN GroupsIn(f, "Stop")
  OBVIOUS
<1>6. Places(f) = (A \cup B) \cup C
  BY <1>3, <1>4, <1>5 DEF Places, Events
<1>7. IsFiniteSet(A) /\ IsFiniteSet(B) /\ IsFiniteSet(C)
  BY <1>2, <1>3, <1>4, <1>5 DEF Events
<1>8. IsFiniteSet(A \cup B)
  BY <1>7, FS_Union
<1>9. IsFiniteSet((A \cup B) \cup C)
  BY <1>7, <1>8, FS_Union
<1> QED
  BY <1>6, <1>9

LEMMA DisjointUnion ==
    ASSUME NEW S, IsFiniteSet(S), NEW T, IsFiniteSet(T), S \cap T = {}
    PROVE  Cardinality(S \cup T) = Cardinality(S) + Cardinality(T)
<1>1. Cardinality(S) \in Nat /\ Cardinality(T) \in Nat /\ Cardinality({}) = 0
  BY FS_CardinalityType, FS_EmptySet
<1>2. Cardinality(S \cup T) = Cardinality(S) + Cardinality(T) - Cardinality({})
  BY FS_Union
<1> QED
  BY <1>1, <1>2

(* Doctor's three classes share out the groups that run a command of ours. *)
LEMMA ClassesAddUp ==
    ASSUME NEW f \in SettingsFile, NEW host \in Hosts
    PROVE  Cardinality(InClass(host, f, "count")) + Cardinality(InClass(host, f, "held"))
             + Cardinality(InClass(host, f, "manual")) = Cardinality(PlacesOf(host, f))
<1> DEFINE In(c) == InClass(host, f, c)
<1>1. \A c : IsFiniteSet(In(c)) /\ Cardinality(In(c)) \in Nat
  <2>1. \A c : In(c) \in SUBSET Places(f)
    BY DEF InClass
  <2> QED
    BY <2>1, PlacesAreFinite, FS_Subset, FS_CardinalityType
<1>2. In("count") \cap In("held") = {} /\ (In("count") \cup In("held")) \cap In("manual") = {}
  BY DEF InClass
<1>3. PlacesOf(host, f) = (In("count") \cup In("held")) \cup In("manual")
  <2>1. \A p : p \in PlacesOf(host, f)
                 <=> p \in Places(f) /\ ClassOf(host, GroupAt(f, p)) \in {"count", "held", "manual"}
    BY ClassesAre DEF PlacesOf
  <2> QED
    BY <2>1 DEF InClass
<1> HIDE DEF In
<1>4. Cardinality(In("count") \cup In("held")) = Cardinality(In("count")) + Cardinality(In("held"))
  BY <1>1, <1>2, DisjointUnion
<1>5. Cardinality(PlacesOf(host, f)) = Cardinality(In("count") \cup In("held")) + Cardinality(In("manual"))
  <2>1. IsFiniteSet(In("count") \cup In("held"))
    BY <1>1, FS_Union
  <2> QED
    BY <1>1, <1>2, <1>3, <2>1, DisjointUnion
<1> QED
  BY <1>1, <1>4, <1>5 DEF In

(* What removing leaves: every group that is not ours, where it was.       *)
LEMMA LeftIs ==
    ASSUME NEW f \in SettingsFile, NEW host \in Hosts
    PROVE  \E rest :
            /\ rest = RemoveOurs(host, f).file
            /\ rest.state = f.state /\ rest.notarray = f.notarray
            /\ \A e \in Events : \A i :
                  /\ i \in DOMAIN GroupsIn(rest, e) <=>
                        /\ i \in DOMAIN GroupsIn(f, e)
                        /\ e \in Registrations(host) => ~IsOurs(host, GroupsIn(f, e)[i])
                  /\ i \in DOMAIN GroupsIn(rest, e) => GroupsIn(rest, e)[i] = GroupsIn(f, e)[i]
<1> DEFINE stay(e) == {i \in DOMAIN GroupsIn(f, e) : ~IsOurs(host, GroupsIn(f, e)[i])}
           left    == {e \in DOMAIN f.hooks : e \in Registrations(host) => stay(e) # {}}
           hooks   == [e \in left |-> IF e \in Registrations(host) THEN Restrict(f.hooks[e], stay(e)) ELSE f.hooks[e]]
<1>0. PICK rest : rest = RemoveOurs(host, f).file
  OBVIOUS
<1>1. rest = [f EXCEPT !.hooks = hooks]
  BY <1>0 DEF RemoveOurs, removeHookGroups
<1>2. rest.state = f.state /\ rest.notarray = f.notarray /\ rest.hooks = hooks
  <2> HIDE DEF hooks
  <2> QED
    BY <1>1 DEF SettingsFile
<1>3. ASSUME NEW e \in Events
      PROVE  /\ DOMAIN GroupsIn(rest, e) = {i \in DOMAIN GroupsIn(f, e) :
                   e \in Registrations(host) => ~IsOurs(host, GroupsIn(f, e)[i])}
             /\ \A i \in DOMAIN GroupsIn(rest, e) : GroupsIn(rest, e)[i] = GroupsIn(f, e)[i]
  <2>1. DOMAIN hooks = left
    OBVIOUS
  <2>2. CASE e \notin DOMAIN f.hooks
    <3>1. GroupsIn(f, e) = <<>> /\ GroupsIn(rest, e) = <<>>
      BY <1>2, <2>1, <2>2 DEF GroupsIn
    <3> QED
      BY <3>1
  <2>3. CASE e \in DOMAIN f.hooks /\ e \notin Registrations(host)
    <3>1. e \in left /\ hooks[e] = f.hooks[e]
      BY <2>3
    <3>2. GroupsIn(f, e) = f.hooks[e] /\ GroupsIn(rest, e) = f.hooks[e]
      BY <1>2, <2>1, <2>3, <3>1 DEF GroupsIn
    <3> QED
      BY <2>3, <3>2
  <2>4. CASE e \in DOMAIN f.hooks /\ e \in Registrations(host) /\ stay(e) # {}
    <3>1. e \in left /\ hooks[e] = Restrict(f.hooks[e], stay(e))
      BY <2>4
    <3>2. GroupsIn(f, e) = f.hooks[e] /\ GroupsIn(rest, e) = Restrict(f.hooks[e], stay(e))
      BY <1>2, <2>1, <2>4, <3>1 DEF GroupsIn
    <3>3. /\ DOMAIN GroupsIn(rest, e) = stay(e)
          /\ \A i \in stay(e) : GroupsIn(rest, e)[i] = GroupsIn(f, e)[i]
      BY <3>2 DEF Restrict
    <3> QED
      BY <2>4, <3>3
  <2>5. CASE e \in DOMAIN f.hooks /\ e \in Registrations(host) /\ stay(e) = {}
    <3>1. e \notin left
      BY <2>5
    <3>2. GroupsIn(rest, e) = <<>>
      BY <1>2, <2>1, <3>1 DEF GroupsIn
    <3>3. DOMAIN GroupsIn(rest, e) = {}
      BY <3>2
    <3> QED
      BY <2>5, <3>3
  <2> QED
    BY <2>2, <2>3, <2>4, <2>5
<1>4. ASSUME NEW e \in Events, NEW i
      PROVE  /\ i \in DOMAIN GroupsIn(rest, e) <=>
                   /\ i \in DOMAIN GroupsIn(f, e)
                   /\ e \in Registrations(host) => ~IsOurs(host, GroupsIn(f, e)[i])
             /\ i \in DOMAIN GroupsIn(rest, e) => GroupsIn(rest, e)[i] = GroupsIn(f, e)[i]
  BY <1>3
<1> QED
  BY <1>0, <1>2, <1>4

LEMMA ErrIs ==
    ASSUME NEW f, NEW host
    PROVE  /\ RemoveOurs(host, f).err <=> f.state # "ok" \/ Registrations(host) \cap f.notarray # {}
           /\ RemoveOurs(host, f).removed
                <=> \E e \in Registrations(host) : \E i \in DOMAIN GroupsIn(f, e) : IsOurs(host, GroupsIn(f, e)[i])
<1>1. RemoveOurs(host, f).err <=> f.state # "ok" \/ Registrations(host) \cap f.notarray # {}
  BY DEF RemoveOurs, removeHookGroups
<1>2. RemoveOurs(host, f).removed
        <=> \E e \in Registrations(host) :
               {i \in DOMAIN GroupsIn(f, e) : ~IsOurs(host, GroupsIn(f, e)[i])} # DOMAIN GroupsIn(f, e)
  BY DEF RemoveOurs, removeHookGroups
<1>3. \A e : {i \in DOMAIN GroupsIn(f, e) : ~IsOurs(host, GroupsIn(f, e)[i])} # DOMAIN GroupsIn(f, e)
              <=> \E i \in DOMAIN GroupsIn(f, e) : IsOurs(host, GroupsIn(f, e)[i])
  OBVIOUS
<1> QED
  BY <1>1, <1>2, <1>3

(* The outcomes of an uninstall.                                           *)
LEMMA UninstallIs ==
    ASSUME NEW f, NEW host, NEW writeFails \in BOOLEAN
    PROVE  LET rest == RemoveOurs(host, f)
               u == runHookUninstall(host, f, writeFails)
           IN  /\ f.state # "ok" => u = [file |-> f, ok |-> f.state = "absent"]
               /\ f.state = "ok" /\ rest.err => u = [file |-> f, ok |-> FALSE]
               /\ f.state = "ok" /\ ~rest.err /\ ~rest.removed => u = [file |-> f, ok |-> TRUE]
               /\ f.state = "ok" /\ ~rest.err /\ rest.removed /\ writeFails => u = [file |-> f, ok |-> FALSE]
               /\ f.state = "ok" /\ ~rest.err /\ rest.removed /\ ~writeFails => u = [file |-> rest.file, ok |-> TRUE]
<1> DEFINE rest == RemoveOurs(host, f)
           u == runHookUninstall(host, f, writeFails)
<1>1. f.state # "ok" => rest.err
  BY ErrIs
<1>2. u = CASE f.state = "absent"     -> [file |-> f, ok |-> TRUE]
            [] f.state # "absent" /\ rest.err -> [file |-> f, ok |-> FALSE]
            [] f.state = "ok" /\ ~rest.err /\ ~rest.removed -> [file |-> f, ok |-> TRUE]
            [] f.state = "ok" /\ ~rest.err /\ rest.removed  ->
                  [file |-> IF writeFails THEN f ELSE rest.file, ok |-> ~writeFails]
  BY DEF runHookUninstall
<1> HIDE DEF rest, u
<1>3. f.state # "ok" => u = [file |-> f, ok |-> f.state = "absent"]
  <2>1. CASE f.state = "absent"
    BY <1>2, <2>1
  <2>2. CASE f.state # "absent" /\ f.state # "ok"
    BY <1>1, <1>2, <2>2
  <2> QED
    BY <2>1, <2>2
<1>4. f.state = "ok" /\ rest.err => u = [file |-> f, ok |-> FALSE]
  BY <1>2
<1>5. f.state = "ok" /\ ~rest.err /\ ~rest.removed => u = [file |-> f, ok |-> TRUE]
  BY <1>2
<1>6. f.state = "ok" /\ ~rest.err /\ rest.removed =>
        u = [file |-> IF writeFails THEN f ELSE rest.file, ok |-> ~writeFails]
  BY <1>2
<1> QED
  BY <1>3, <1>4, <1>5, <1>6 DEF rest, u

(* Only groups of class "count" go.                                        *)
LEMMA OthersStay ==
    ASSUME NEW f \in SettingsFile, NEW host \in Hosts, NEW rest,
           \A e \in Events : \A i :
              /\ i \in DOMAIN GroupsIn(rest, e) <=>
                    /\ i \in DOMAIN GroupsIn(f, e)
                    /\ e \in Registrations(host) => ~IsOurs(host, GroupsIn(f, e)[i])
              /\ i \in DOMAIN GroupsIn(rest, e) => GroupsIn(rest, e)[i] = GroupsIn(f, e)[i]
    PROVE  /\ \A e \in Events : Foreign(host, rest, e) = Foreign(host, f, e)
           /\ InClass(host, rest, "held") = InClass(host, f, "held")
           /\ InClass(host, rest, "manual") = InClass(host, f, "manual")
<1>1. ASSUME NEW e \in Events PROVE Foreign(host, rest, e) = Foreign(host, f, e)
  <2> DEFINE foreign(g) == g.garbled \/ g.hooks = {} \/ \E x \in g.hooks : ~IsCommandToken(host, x)
             inF == {i \in DOMAIN GroupsIn(f, e) : foreign(GroupsIn(f, e)[i])}
             inR == {i \in DOMAIN GroupsIn(rest, e) : foreign(GroupsIn(rest, e)[i])}
  <2>1. \A g : foreign(g) => ~IsOurs(host, g)
    BY ClassesAre
  <2>2. \A i : i \in DOMAIN GroupsIn(rest, e) <=> i \in DOMAIN GroupsIn(f, e)
                  /\ (e \in Registrations(host) => ~IsOurs(host, GroupsIn(f, e)[i]))
    OBVIOUS
  <2>3. \A i \in DOMAIN GroupsIn(rest, e) : GroupsIn(rest, e)[i] = GroupsIn(f, e)[i]
    OBVIOUS
  <2>4. Foreign(host, f, e) = [i \in inF |-> GroupsIn(f, e)[i]]
    BY DEF Foreign, Restrict
  <2>5. Foreign(host, rest, e) = [i \in inR |-> GroupsIn(rest, e)[i]]
    BY DEF Foreign, Restrict
  <2> HIDE DEF foreign
  <2>6. inR = inF
    BY <2>1, <2>2, <2>3
  <2>7. \A i \in inR : GroupsIn(rest, e)[i] = GroupsIn(f, e)[i]
    BY <2>3
  <2> HIDE DEF inF, inR
  <2> QED
    BY <2>4, <2>5, <2>6, <2>7
<1>2. ASSUME NEW c \in {"held", "manual"} PROVE InClass(host, rest, c) = InClass(host, f, c)
  <2>1. \A e \in Events : \A i : i \in DOMAIN GroupsIn(rest, e) <=> i \in DOMAIN GroupsIn(f, e)
                  /\ (e \in Registrations(host) => ~IsOurs(host, GroupsIn(f, e)[i]))
    OBVIOUS
  <2>2. \A e \in Events : \A i \in DOMAIN GroupsIn(rest, e) : GroupsIn(rest, e)[i] = GroupsIn(f, e)[i]
    OBVIOUS
  <2>3. ASSUME NEW p \in InClass(host, rest, c) PROVE p \in InClass(host, f, c)
    <3>1. p \in Places(rest) /\ ClassOf(host, GroupAt(rest, p)) = c
      BY DEF InClass
    <3>2. PICK e \in Events : \E i \in DOMAIN GroupsIn(rest, e) : p = <<e, i>>
      BY <3>1, PlacesAre
    <3>10. PICK i \in DOMAIN GroupsIn(rest, e) : p = <<e, i>>
      BY <3>2
    <3>3. i \in DOMAIN GroupsIn(f, e) /\ GroupsIn(rest, e)[i] = GroupsIn(f, e)[i]
      BY <2>1, <2>2
    <3>4. GroupAt(rest, p) = GroupsIn(f, e)[i] /\ GroupAt(f, p) = GroupsIn(f, e)[i] /\ p \in Places(f)
      BY <3>10, <3>3, PlacesAre
    <3> QED
      BY <3>1, <3>4 DEF InClass
  <2>4. ASSUME NEW p \in InClass(host, f, c) PROVE p \in InClass(host, rest, c)
    <3>1. p \in Places(f) /\ ClassOf(host, GroupAt(f, p)) = c
      BY DEF InClass
    <3>2. PICK e \in Events : \E i \in DOMAIN GroupsIn(f, e) : p = <<e, i>>
      BY <3>1, PlacesAre
    <3>10. PICK i \in DOMAIN GroupsIn(f, e) : p = <<e, i>>
      BY <3>2
    <3>3. GroupAt(f, p) = GroupsIn(f, e)[i]
      BY <3>10, PlacesAre
    <3>4. ~IsOurs(host, GroupsIn(f, e)[i])
      BY <3>1, <3>3, ClassesAre
    <3>5. i \in DOMAIN GroupsIn(rest, e) /\ GroupsIn(rest, e)[i] = GroupsIn(f, e)[i]
      BY <2>1, <2>2, <3>4
    <3>6. GroupAt(rest, p) = GroupAt(f, p) /\ p \in Places(rest)
      BY <3>10, <3>3, <3>5, PlacesAre
    <3> QED
      BY <3>1, <3>6 DEF InClass
  <2> QED
    BY <2>3, <2>4
<1> QED
  BY <1>1, <1>2

LEMMA UninstallSpares ==
    ASSUME NEW f \in SettingsFile
    PROVE  UninstallSparesOthers(f)
<1> SUFFICES ASSUME NEW host \in Hosts, NEW writeFails \in BOOLEAN,
                    NEW u, u = runHookUninstall(host, f, writeFails)
             PROVE  /\ \A e \in Events : Foreign(host, u.file, e) = Foreign(host, f, e)
                    /\ f.state = "ok" =>
                          scanRegisteredHooks(host, f)["count"] + scanRegisteredHooks(host, f)["held"]
                            + scanRegisteredHooks(host, f)["manual"] = Cardinality(PlacesOf(host, f))
                    /\ ~u.ok \/ scanRegisteredHooks(host, f)["count"] = 0 => u.file = f
                    /\ scanRegisteredHooks(host, u.file)["held"] = scanRegisteredHooks(host, f)["held"]
                    /\ scanRegisteredHooks(host, u.file)["manual"] = scanRegisteredHooks(host, f)["manual"]
                    /\ u.ok => /\ runHookUninstall(host, u.file, writeFails) = u
                               /\ f.state = "ok" =>
                                    \A e \in Registrations(host) : \A i \in DOMAIN GroupsIn(u.file, e) :
                                       ~IsOurs(host, GroupsIn(u.file, e)[i])
  BY DEF UninstallSparesOthers
<1> DEFINE rest == RemoveOurs(host, f)
<1>1. Registrations(host) \subseteq Events
  BY DEF Registrations, Events
<1>2. f.state = "ok" =>
        scanRegisteredHooks(host, f)["count"] + scanRegisteredHooks(host, f)["held"]
          + scanRegisteredHooks(host, f)["manual"] = Cardinality(PlacesOf(host, f))
  BY ClassesAddUp DEF scanRegisteredHooks
<1>3. CASE u.file = f /\ ~u.ok
  BY <1>2, <1>3
<1>4. CASE f.state # "ok"
  <2>1. u = [file |-> f, ok |-> f.state = "absent"]
    BY <1>4, UninstallIs
  <2>2. u.file = f
    BY <2>1
  <2> QED
    BY <1>2, <1>4, <2>2
<1>5. CASE f.state = "ok" /\ ~rest.err /\ ~rest.removed
  <2>1. u = [file |-> f, ok |-> TRUE]
    BY <1>5, UninstallIs
  <2>2. u.file = f
    BY <2>1
  <2>3. \A e \in Registrations(host) : \A i \in DOMAIN GroupsIn(f, e) : ~IsOurs(host, GroupsIn(f, e)[i])
    BY <1>5, ErrIs
  <2> QED
    BY <1>2, <2>2, <2>3
<1>6. CASE f.state = "ok" /\ ~rest.err /\ rest.removed /\ ~writeFails
  <2>1. u = [file |-> rest.file, ok |-> TRUE]
    BY <1>6, UninstallIs
  <2>2. PICK g :
           /\ g = rest.file
           /\ g.state = f.state /\ g.notarray = f.notarray
           /\ \A e \in Events : \A i :
                 /\ i \in DOMAIN GroupsIn(g, e) <=>
                       /\ i \in DOMAIN GroupsIn(f, e)
                       /\ e \in Registrations(host) => ~IsOurs(host, GroupsIn(f, e)[i])
                 /\ i \in DOMAIN GroupsIn(g, e) => GroupsIn(g, e)[i] = GroupsIn(f, e)[i]
    BY LeftIs
  <2>3. u.file = g /\ u.ok = TRUE /\ u = [file |-> g, ok |-> TRUE]
    BY <2>1, <2>2
  <2>4. /\ g.state = "ok" /\ g.notarray = f.notarray
        /\ \A e \in Registrations(host) : \A i \in DOMAIN GroupsIn(g, e) : ~IsOurs(host, GroupsIn(g, e)[i])
    <3>2. ASSUME NEW e \in Registrations(host), NEW i \in DOMAIN GroupsIn(g, e)
          PROVE  ~IsOurs(host, GroupsIn(g, e)[i])
      <4>1. GroupsIn(g, e)[i] = GroupsIn(f, e)[i] /\ ~IsOurs(host, GroupsIn(f, e)[i])
        BY <1>1, <2>2, <3>2
      <4> QED
        BY <4>1
    <3> QED
      BY <1>6, <2>2, <3>2
  <2>5. runHookUninstall(host, g, writeFails) = u
    <3>1. ~RemoveOurs(host, g).err /\ ~RemoveOurs(host, g).removed
      BY <1>6, <2>4, ErrIs
    <3> QED
      BY <2>3, <2>4, <3>1, UninstallIs
  <2>6. scanRegisteredHooks(host, f)["count"] # 0
    <3>1. PICK e \in Registrations(host) : \E i \in DOMAIN GroupsIn(f, e) : IsOurs(host, GroupsIn(f, e)[i])
      BY <1>6, ErrIs
    <3>10. PICK i \in DOMAIN GroupsIn(f, e) : IsOurs(host, GroupsIn(f, e)[i])
      BY <3>1
    <3>6. e \in Events /\ <<e, i>> \in Places(f) /\ GroupAt(f, <<e, i>>) = GroupsIn(f, e)[i]
      BY <1>1, PlacesAre
    <3>7. ClassOf(host, GroupsIn(f, e)[i]) = "count"
      BY <3>10, ClassesAre
    <3>2. <<e, i>> \in InClass(host, f, "count")
      BY <3>6, <3>7 DEF InClass
    <3>3. IsFiniteSet(InClass(host, f, "count"))
      <4>1. InClass(host, f, "count") \in SUBSET Places(f)
        BY DEF InClass
      <4> QED
        BY <4>1, PlacesAreFinite, FS_Subset
    <3>4. Cardinality(InClass(host, f, "count")) # 0
      BY <3>2, <3>3, FS_EmptySet
    <3> QED
      BY <1>6, <3>4 DEF scanRegisteredHooks
  <2>7. /\ \A e \in Events : Foreign(host, g, e) = Foreign(host, f, e)
        /\ InClass(host, g, "held") = InClass(host, f, "held")
        /\ InClass(host, g, "manual") = InClass(host, f, "manual")
    BY <1>6, <2>2, OthersStay
  <2>8. /\ scanRegisteredHooks(host, g)["held"] = scanRegisteredHooks(host, f)["held"]
        /\ scanRegisteredHooks(host, g)["manual"] = scanRegisteredHooks(host, f)["manual"]
    BY <1>6, <2>4, <2>7 DEF scanRegisteredHooks
  <2> QED
    BY <1>2, <2>3, <2>4, <2>5, <2>6, <2>7, <2>8
<1>7. f.state = "ok" /\ (rest.err \/ (rest.removed /\ writeFails)) => u.file = f /\ ~u.ok
  <2> SUFFICES ASSUME f.state = "ok", rest.err \/ (rest.removed /\ writeFails) PROVE u.file = f /\ ~u.ok
    OBVIOUS
  <2>1. u = [file |-> f, ok |-> FALSE]
    BY UninstallIs
  <2> QED
    BY <2>1
<1> HIDE DEF rest
<1> QED
  BY <1>3, <1>4, <1>5, <1>6, <1>7

SettingsInv == settings \in SettingsFile

LEMMA SettingsInit == InputInit => SettingsInv
<1> SUFFICES ASSUME InputInit PROVE settings \in SettingsFile
  BY DEF SettingsInv
<1>1. NoHooks \in [{} -> Seq(Groups)]
  BY DEF NoHooks
<1>2. NoHooks \in UNION {[S -> Seq(Groups)] : S \in SUBSET Events}
  BY <1>1
<1>3. EmptySettings = [state |-> "ok", notarray |-> {}, hooks |-> NoHooks]
  BY DEF EmptySettings
<1>4. PICK s \in States : settings = [EmptySettings EXCEPT !.state = s]
  BY DEF InputInit
<1>5. settings = [state |-> s, notarray |-> {}, hooks |-> NoHooks]
  BY <1>3, <1>4
<1> QED
  BY <1>2, <1>5 DEF SettingsFile

LEMMA SettingsStep == SettingsInv /\ [InputNext]_inputVars => SettingsInv'
<1> SUFFICES ASSUME settings \in SettingsFile, [InputNext]_inputVars PROVE settings' \in SettingsFile
  BY DEF SettingsInv
<1>1. settings.state \in States /\ settings.notarray \in SUBSET Events
  BY DEF SettingsFile
<1>2. PICK S \in SUBSET Events : settings.hooks \in [S -> Seq(Groups)]
  BY DEF SettingsFile
<1>3. CASE WriteGroup
  <2>1. PICK e \in Events \ settings.notarray, g \in Groups :
          settings' = [settings EXCEPT !.hooks =
                         [x \in DOMAIN @ \cup {e} |-> IF x = e THEN Append(GroupsIn(settings, e), g) ELSE @[x]]]
    BY <1>3 DEF WriteGroup
  <2>2. GroupsIn(settings, e) \in Seq(Groups)
    BY <1>2 DEF GroupsIn
  <2>3. PICK one : one = Append(GroupsIn(settings, e), g)
    OBVIOUS
  <2>4. one \in Seq(Groups)
    BY <2>2, <2>3
  <2>5. PICK new : new = [x \in S \cup {e} |-> IF x = e THEN one ELSE settings.hooks[x]]
    OBVIOUS
  <2>6. new \in [S \cup {e} -> Seq(Groups)] /\ S \cup {e} \in SUBSET Events
    BY <1>2, <2>4, <2>5
  <2>7. settings' = [settings EXCEPT !.hooks = new]
    BY <1>2, <2>1, <2>3, <2>5
  <2>8. new \in UNION {[T -> Seq(Groups)] : T \in SUBSET Events}
    BY <2>6
  <2> QED
    BY <2>7, <2>8 DEF SettingsFile
<1>4. CASE SpoilEvent
  BY <1>4 DEF SpoilEvent, SettingsFile
<1>5. CASE WriteRune \/ WriteLine \/ WriteLog \/ UNCHANGED inputVars
  <2>1. settings' = settings
    BY <1>5 DEF WriteRune, WriteLine, WriteLog, Only, inputVars
  <2> QED
    BY <2>1
<1> QED
  BY <1>3, <1>4, <1>5 DEF InputNext

(* `hook uninstall` takes only groups all of whose entries are ours out of *)
(* a user's settings file, leaves a file it cannot read or write, or that  *)
(* holds nothing of ours, as it was, and doctor's counts share out the     *)
(* groups that run our command: for files of any size (removeHookGroups,   *)
(* scanRegisteredHooks).                                                   *)
THEOREM UninstallSparesTheUser == InputSpec => []SettingsAreSpared
<1>1. SettingsInv => SettingsAreSpared
  BY UninstallSpares DEF SettingsInv, SettingsAreSpared
<1> QED
  BY <1>1, SettingsInit, SettingsStep, PTL DEF InputSpec

-----------------------------------------------------------------------------
(* A set of natural numbers that is not empty has a least element.         *)
LEMMA LeastNumber ==
    ASSUME NEW T, T \subseteq Nat, T # {}
    PROVE  \E m \in T : \A k \in T : m <= k
<1> DEFINE R == OpToRel(<, Nat)
<1>1. IsWellFoundedOn(R, Nat)
  BY NatLessThanWellFounded
<1>2. R = {ss \in Nat \X Nat : ss[1] < ss[2]}
  BY DEF OpToRel
<1> HIDE DEF R
<1>3. PICK x \in T : \A y \in T : ~(<<y, x>> \in R)
  BY <1>1, WFMin
<1>4. \A y \in T : ~(y < x)
  BY <1>3, <1>2
<1> QED
  BY <1>4


(* Induction, for a set of numbers: the smallest one that is missing can   *)
(* be neither 0 nor the successor of another.                              *)
LEMMA Induction ==
    ASSUME NEW S, 0 \in S, \A n \in Nat : n \in S => n + 1 \in S
    PROVE  Nat \subseteq S
<1> SUFFICES ASSUME Nat \ S # {} PROVE FALSE
  OBVIOUS
<1>1. PICK m \in Nat \ S : \A k \in Nat \ S : m <= k
  <2>1. Nat \ S \subseteq Nat
    OBVIOUS
  <2> QED
    BY <2>1, LeastNumber
<1>2. m - 1 \in Nat /\ ~(m <= m - 1) /\ (m - 1) + 1 = m
  OBVIOUS
<1> QED
  BY <1>1, <1>2

-----------------------------------------------------------------------------
(* The sidecar logs.  An append is of a kind and stops somewhere; a log    *)
(* holds drops or purges.                                                  *)
Kinds == PurgeKinds \cup {"drop"}

IsAppend(a) == a.kind \in Kinds /\ a.cut \in Cuts(a.kind)

Logged ==
    {x \in Seq(UNION {[kind : {s}, cut : Cuts(s)] : s \in Kinds}) :
        \A i \in 1..Len(x) : IsAppend(x[i]) /\ (x[i].kind = "drop" <=> x[1].kind = "drop")}

(* The fields of a record.                                                 *)
LEMMA LayoutIs ==
    /\ \A s \in PurgeKinds :
          /\ Len(Layout(s)) = 9
          /\ Layout(s)[1] = "ts" /\ Layout(s)[2] = "path"
          /\ Layout(s)[3] \in {"dash", "policy"} /\ Layout(s)[4] \in {"dash", "ts"}
          /\ Layout(s)[5] = "status" /\ Layout(s)[6] = "int"
          /\ \A d \in 7..9 : Layout(s)[d] \in {"int", "dash"}
    /\ Len(Layout("drop")) = 5 /\ Layout("drop")[1] = "ts" /\ Layout("drop")[2] = "reason"
    /\ \A d \in 3..5 : Layout("drop")[d] = "text"
<1>1. ASSUME NEW s \in PurgeKinds
      PROVE  \E p \in {"dash", "policy"}, c \in {"dash", "ts"}, n \in {"dash", "int"} :
                Layout(s) = <<"ts", "path", p, c, "status", "int", n, n, n>>
  BY DEF Layout, PurgeKinds
<1>2. \A d \in 7..9 : d = 7 \/ d = 8 \/ d = 9
  OBVIOUS
<1>3. Layout("drop") = <<"ts", "reason", "text", "text", "text">>
  BY DEF Layout
<1>4. \A d \in 3..5 : Layout("drop")[d] = "text"
  <2>1. \A d \in 3..5 : d = 3 \/ d = 4 \/ d = 5
    OBVIOUS
  <2> QED
    BY <1>3, <2>1
<1>5. ASSUME NEW s \in PurgeKinds
      PROVE  /\ Len(Layout(s)) = 9
             /\ Layout(s)[1] = "ts" /\ Layout(s)[2] = "path"
             /\ Layout(s)[3] \in {"dash", "policy"} /\ Layout(s)[4] \in {"dash", "ts"}
             /\ Layout(s)[5] = "status" /\ Layout(s)[6] = "int"
             /\ \A d \in 7..9 : Layout(s)[d] \in {"int", "dash"}
  <2>1. PICK p \in {"dash", "policy"}, c \in {"dash", "ts"}, n \in {"dash", "int"} :
                Layout(s) = <<"ts", "path", p, c, "status", "int", n, n, n>>
    BY <1>1
  <2>2. \A d \in 7..9 : Layout(s)[d] = n
    BY <1>2, <2>1
  <2> QED
    BY <2>1, <2>2
<1> QED
  BY <1>3, <1>4, <1>5

(* Where an append stops.                                                  *)
LEMMA CutIsWithin ==
    ASSUME NEW a, IsAppend(a)
    PROVE  /\ Len(Layout(a.kind)) = IF a.kind = "drop" THEN 5 ELSE 9
           /\ a.cut.n \in 0..Len(Layout(a.kind))
           /\ a.cut.at \in {"tab", "short", "long", "end"}
           /\ a.cut.at = "end" <=> a.cut.n = Len(Layout(a.kind))
           /\ a.cut.at = "tab" => a.cut.n >= 1
<1>1. Len(Layout(a.kind)) = IF a.kind = "drop" THEN 5 ELSE 9
  BY LayoutIs DEF IsAppend, Kinds
<1>2. PICK m \in {5, 9} : m = Len(Layout(a.kind))
  BY <1>1
<1>3. a.cut \in [at: {"tab"}, n: 1..(m - 1)] \cup [at: {"short", "long"}, n: 0..(m - 1)]
                  \cup [at: {"end"}, n: {m}]
  BY <1>2 DEF IsAppend, Cuts
<1>4. CASE a.cut \in [at: {"tab"}, n: 1..(m - 1)]
  BY <1>1, <1>2, <1>4
<1>5. CASE a.cut \in [at: {"short", "long"}, n: 0..(m - 1)]
  BY <1>1, <1>2, <1>5
<1>6. CASE a.cut \in [at: {"end"}, n: {m}]
  BY <1>1, <1>2, <1>6
<1> QED
  BY <1>3, <1>4, <1>5, <1>6

(* The cells an append leaves: its whole fields, and one more that is      *)
(* empty, is what is left of a field, or is a field without its tab.       *)
LEMMA RecordIs ==
    ASSUME NEW a, IsAppend(a), NEW i, NEW y, y = AppendRecord(i, a)
    PROVE  /\ Len(y) = IF a.cut.at = "end" THEN a.cut.n ELSE a.cut.n + 1
           /\ Len(y) \in 1..Len(Layout(a.kind))
           /\ \A d \in 1..a.cut.n : y[d] = Cell(i, Layout(a.kind)[d])
           /\ a.cut.at = "tab" => y[a.cut.n + 1] = Empty
           /\ a.cut.at \in {"short", "long"} =>
                 y[a.cut.n + 1] = CutCell(i, Layout(a.kind)[a.cut.n + 1], a.cut.at)
<1>1. PICK n \in 0..9 : n = a.cut.n
  BY CutIsWithin
<1>2. PICK m \in 0..10 : m = IF a.cut.at = "end" THEN n ELSE n + 1
  BY <1>1
<1>3. y = [k \in 1..m |->
             IF k <= n THEN Cell(i, Layout(a.kind)[k])
             ELSE IF a.cut.at = "tab" THEN Empty ELSE CutCell(i, Layout(a.kind)[k], a.cut.at)]
  BY <1>1, <1>2 DEF AppendRecord
<1>4. Len(y) = m
  BY <1>3
<1>5. m \in 1..Len(Layout(a.kind))
  BY <1>1, <1>2, CutIsWithin
<1>6. \A d \in 1..n : y[d] = Cell(i, Layout(a.kind)[d])
  <2>1. TAKE d \in 1..n
  <2>2. d \in 1..m /\ d <= n
    BY <1>1, <1>2
  <2> QED
    BY <1>3, <2>2
<1>7. ASSUME a.cut.at # "end"
      PROVE  y[n + 1] = IF a.cut.at = "tab" THEN Empty ELSE CutCell(i, Layout(a.kind)[n + 1], a.cut.at)
  <2>1. n + 1 \in 1..m /\ ~(n + 1 <= n)
    BY <1>1, <1>2, <1>7
  <2> QED
    BY <1>3, <2>1
<1> QED
  BY <1>1, <1>2, <1>4, <1>5, <1>6, <1>7

(* An integer of ten digits, or what is left of one, is first.             *)
LEMMA FirstCell ==
    ASSUME NEW a, IsAppend(a), NEW i
    PROVE  AppendRecord(i, a)[1].is \in {"ts", "int"}
<1>1. PICK y : y = AppendRecord(i, a)
  OBVIOUS
<1>2. Layout(a.kind)[1] = "ts"
  BY LayoutIs DEF IsAppend, Kinds
<1>3. CASE a.cut.n >= 1
  <2>1. 1 \in 1..a.cut.n
    BY <1>3, CutIsWithin
  <2>2. y[1] = Cell(i, Layout(a.kind)[1])
    BY <1>1, <2>1, RecordIs
  <2> QED
    BY <1>1, <1>2, <2>2 DEF Cell
<1>4. CASE a.cut.n = 0
  <2>1. a.cut.at \in {"short", "long"} /\ a.cut.n + 1 = 1
    BY <1>4, CutIsWithin
  <2>2. y[1] = CutCell(i, "ts", a.cut.at)
    BY <1>1, <1>2, <2>1, RecordIs
  <2> QED
    BY <1>1, <2>2 DEF CutCell, Cell
<1> QED
  BY <1>3, <1>4, CutIsWithin

(* Only a field that is whole but for its tab says so.                     *)
LEMMA CutCellIs ==
    ASSUME NEW i, NEW s, NEW t \in {"short", "long"}, CutCell(i, s, t).is \in {"status"}
    PROVE  s = "status" /\ CutCell(i, s, t) = Cell(i, "status")
BY DEF CutCell, Cell

(* A cell that ran into a timestamp is no status.                          *)
LEMMA MergeIsNoStatus ==
    ASSUME NEW x, NEW y, y.is \in {"ts", "int"}
    PROVE  Merge(x, y).is # "status"
<1>1. CASE x.is = "empty"
  BY <1>1 DEF Merge
<1>2. CASE x.is \in {"int", "dash"}
  BY <1>2 DEF Merge, Cell
<1>3. CASE x.is = "ts"
  BY <1>3 DEF Merge, Cell
<1>4. CASE x.is = "policy"
  BY <1>4 DEF Merge, Cell
<1>5. CASE x.is \notin {"empty", "int", "dash", "ts", "policy"}
  BY <1>5 DEF Merge, Cell
<1> QED
  BY <1>1, <1>2, <1>3, <1>4, <1>5

(* The cells of a line that goes on.                                       *)
LEMMA JoinedIs ==
    ASSUME NEW x, NEW y, Len(x) \in Nat \ {0}, Len(y) \in Nat \ {0}
    PROVE  /\ Len(Joined(x, y)) = Len(x) + Len(y) - 1
           /\ \A c \in 1..(Len(x) - 1) : Joined(x, y)[c] = x[c]
           /\ Joined(x, y)[Len(x)] = Merge(x[Len(x)], y[1])
           /\ \A e \in 2..Len(y) : Joined(x, y)[Len(x) + e - 1] = y[e]
<1>1. PICK p \in Nat \ {0} : p = Len(x)
  OBVIOUS
<1>2. PICK q \in Nat \ {0} : q = Len(y)
  OBVIOUS
<1>3. PICK j : j = Joined(x, y)
  OBVIOUS
<1>4. j = [c \in 1..(p + q - 1) |->
             IF c < p THEN x[c] ELSE IF c = p THEN Merge(x[c], y[1]) ELSE y[c - p + 1]]
  BY <1>1, <1>2, <1>3 DEF Joined
<1>5. p + q - 1 \in Nat
  OBVIOUS
<1>6. Len(j) = p + q - 1
  BY <1>4, <1>5
<1>7. \A c \in 1..(p - 1) : j[c] = x[c]
  BY <1>4
<1>8. j[p] = Merge(x[p], y[1])
  BY <1>4
<1>9. \A e \in 2..q : j[p + e - 1] = y[e]
  <2>1. TAKE e \in 2..q
  <2>2. PICK c : c = p + e - 1
    OBVIOUS
  <2>3. c \in 1..(p + q - 1) /\ ~(c < p) /\ c # p /\ c - p + 1 = e
    BY <2>2
  <2> QED
    BY <1>4, <2>2, <2>3
<1> QED
  BY <1>1, <1>2, <1>3, <1>6, <1>7, <1>8, <1>9

(* The lines are there, and each is the one before it, or a new one, and   *)
(* the next record.                                                        *)
Before(at, x, i) == IF i = 1 \/ x[i - 1].cut.at = "end" THEN <<Empty>> ELSE at[i - 1]

IsLines(at, x, n) == at = [i \in 1..n |-> Joined(Before(at, x, i), AppendRecord(i, x[i]))]

LEMMA LinesExist ==
    ASSUME NEW x, NEW n \in Nat
    PROVE  \E at : IsLines(at, x, n)
<1> DEFINE S == {m \in Nat : \E at : IsLines(at, x, m)}
<1>1. 0 \in S
  <2>1. IsLines([i \in 1..0 |-> i], x, 0)
    BY DEF IsLines
  <2> QED
    BY <2>1
<1>2. ASSUME NEW m \in Nat, m \in S PROVE m + 1 \in S
  <2>1. PICK t : IsLines(t, x, m)
    BY <1>2
  <2>2. t = [i \in 1..m |-> Joined(Before(t, x, i), AppendRecord(i, x[i]))]
    BY <2>1 DEF IsLines
  <2>3. PICK new : new = Joined(Before(t, x, m + 1), AppendRecord(m + 1, x[m + 1]))
    OBVIOUS
  <2>4. PICK u : u = [i \in 1..(m + 1) |-> IF i = m + 1 THEN new ELSE t[i]]
    OBVIOUS
  <2>5. ASSUME NEW i \in 1..(m + 1) PROVE Before(u, x, i) = Before(t, x, i)
    <3>1. CASE i = 1
      BY <3>1 DEF Before
    <3>2. CASE i # 1
      <4>1. i - 1 \in 1..(m + 1) /\ i - 1 # m + 1
        BY <3>2
      <4>2. u[i - 1] = t[i - 1]
        BY <2>4, <4>1
      <4> QED
        BY <4>2 DEF Before
    <3> QED
      BY <3>1, <3>2
  <2>6. ASSUME NEW i \in 1..(m + 1) PROVE u[i] = Joined(Before(u, x, i), AppendRecord(i, x[i]))
    <3>1. CASE i = m + 1
      <4>1. u[i] = new
        BY <2>4, <3>1
      <4> QED
        BY <2>3, <2>5, <3>1, <4>1
    <3>2. CASE i # m + 1
      <4>1. i \in 1..m
        BY <3>2
      <4>2. u[i] = t[i]
        BY <2>4, <3>2
      <4>3. t[i] = Joined(Before(t, x, i), AppendRecord(i, x[i]))
        BY <2>2, <4>1
      <4> QED
        BY <2>5, <4>2, <4>3
    <3> QED
      BY <3>1, <3>2
  <2>7. u = [i \in 1..(m + 1) |-> u[i]]
    BY <2>4
  <2>8. IsLines(u, x, m + 1)
    BY <2>6, <2>7 DEF IsLines
  <2> QED
    BY <2>8
<1> HIDE DEF S
<1>3. Nat \subseteq S
  BY <1>1, <1>2, Induction
<1> QED
  BY <1>3 DEF S

LEMMA LineAtIs ==
    ASSUME NEW x, Len(x) \in Nat
    PROVE  \A i \in 1..Len(x) : LineAt(x)[i] = Joined(Before(LineAt(x), x, i), AppendRecord(i, x[i]))
<1>1. PICK n \in Nat : n = Len(x)
  OBVIOUS
<1> DEFINE at == CHOOSE at : at = [i \in 1..n |->
                     Joined(IF i = 1 \/ x[i - 1].cut.at = "end" THEN <<Empty>> ELSE at[i - 1], AppendRecord(i, x[i]))]
<1>2. LineAt(x) = at
  BY <1>1 DEF LineAt
<1>3. \E t : t = [i \in 1..n |->
                     Joined(IF i = 1 \/ x[i - 1].cut.at = "end" THEN <<Empty>> ELSE t[i - 1], AppendRecord(i, x[i]))]
  <2>1. PICK t : IsLines(t, x, n)
    BY LinesExist
  <2> QED
    BY <2>1 DEF IsLines, Before
<1>4. at = [i \in 1..n |->
              Joined(IF i = 1 \/ x[i - 1].cut.at = "end" THEN <<Empty>> ELSE at[i - 1], AppendRecord(i, x[i]))]
  BY <1>3
<1> HIDE DEF at
<1>5. \A i \in 1..n : at[i] = Joined(Before(at, x, i), AppendRecord(i, x[i]))
  BY <1>4 DEF Before
<1> QED
  BY <1>1, <1>2, <1>5

(* The invariant of a line, after the first i appends.  Around a status    *)
(* stand the fields of the append that wrote it: four up to it, those      *)
(* behind it as far as the append came to their end (and then something    *)
(* follows, or the line has ended), and, at the start of a line, its time, *)
(* unless the append before it stopped inside its own, which is the only   *)
(* way to leave a line of one cell that goes on.                           *)
StatusAt(x, i, w, c) ==
    /\ c >= 5
    /\ \E k \in 1..i :
          /\ \A d \in 2..5 : w[c - 5 + d] = Cell(k, Layout(x[k].kind)[d])
          /\ \A d \in 6..9 : \/ x[k].cut.n < d
                            \/ /\ w[c - 5 + d] = Cell(k, Layout(x[k].kind)[d])
                               /\ c - 5 + d < Len(w) \/ x[i].cut.at = "end"
          /\ c = 5 => w[1] = Cell(k, Layout(x[k].kind)[1]) \/ (k > 1 /\ x[k - 1].cut.n = 0)

LineInv(x, i, w) ==
    /\ Len(w) \in Nat \ {0}
    /\ \A c \in 1..Len(w) : w[c].is = "status" => StatusAt(x, i, w, c)
    /\ Len(w) = 1 => i = 0 \/ x[i].cut.at = "end" \/ x[i].cut.n = 0

(* Nothing was written to the line, or the last append left it open.       *)
Open(x, i, w) == w = <<Empty>> \/ (i \in Nat \ {0} /\ x[i].cut.at # "end")

(* A line nothing was written to. *)
LEMMA NewLine ==
    ASSUME NEW x, NEW i, i = 0 \/ x[i].cut.at = "end"
    PROVE  LineInv(x, i, <<Empty>>)
<1>1. Len(<<Empty>>) = 1 /\ <<Empty>>[1] = Empty
  OBVIOUS
<1>2. \A c \in 1..1 : c = 1
  OBVIOUS
<1>3. Empty.is # "status"
  BY DEF Empty
<1> QED
  BY <1>1, <1>2, <1>3 DEF LineInv

(* A record holds a status only where its layout does, with its fields     *)
(* before it.                                                              *)
LEMMA StatusOfRecord ==
    ASSUME NEW a, IsAppend(a), NEW i, NEW y, y = AppendRecord(i, a),
           NEW e \in 1..Len(y), y[e].is = "status"
    PROVE  e = 5 /\ \A d \in 1..5 : y[d] = Cell(i, Layout(a.kind)[d])
<1>1. PICK n \in 0..9 : n = a.cut.n
  BY CutIsWithin
<1>2. /\ Len(y) = IF a.cut.at = "end" THEN n ELSE n + 1
      /\ Len(y) \in 1..Len(Layout(a.kind))
      /\ \A d \in 1..n : y[d] = Cell(i, Layout(a.kind)[d])
      /\ a.cut.at = "tab" => y[n + 1] = Empty
      /\ a.cut.at \in {"short", "long"} => y[n + 1] = CutCell(i, Layout(a.kind)[n + 1], a.cut.at)
  BY <1>1, RecordIs
<1>3. Len(Layout(a.kind)) \in {5, 9} /\ a.cut.at \in {"tab", "short", "long", "end"}
  BY CutIsWithin
<1>4. e \in 1..9 /\ (e \in 1..n \/ (e = n + 1 /\ a.cut.at # "end"))
  <2>1. PICK b \in {5, 9} : b = Len(Layout(a.kind))
    BY <1>3
  <2>2. PICK q : q = Len(y)
    OBVIOUS
  <2>3. q \in 1..b /\ e \in 1..q /\ q = IF a.cut.at = "end" THEN n ELSE n + 1
    BY <1>2, <2>1, <2>2
  <2>4. e \in 1..9
    <3>1. b <= 9 /\ b \in Nat
      OBVIOUS
    <3>2. q \in Int /\ q <= 9
      BY <2>3, <3>1
    <3> QED
      BY <2>3, <3>2
  <2>5. CASE a.cut.at = "end"
    BY <2>3, <2>4, <2>5
  <2>6. CASE a.cut.at # "end"
    BY <2>3, <2>4, <2>6
  <2> QED
    BY <2>5, <2>6
<1>5. Layout(a.kind)[e] = "status" /\ y[e] = Cell(i, Layout(a.kind)[e])
  <2>1. CASE e \in 1..n
    BY <1>2, <2>1 DEF Cell
  <2>2. CASE e = n + 1 /\ a.cut.at # "end"
    <3>1. a.cut.at # "tab"
      BY <1>2, <2>2 DEF Empty
    <3>2. y[e] = CutCell(i, Layout(a.kind)[e], a.cut.at) /\ a.cut.at \in {"short", "long"}
      BY <1>2, <1>3, <2>2, <3>1
    <3>3. CutCell(i, Layout(a.kind)[e], a.cut.at).is \in {"status"}
      BY <3>2
    <3> QED
      BY <3>2, <3>3, CutCellIs
  <2> QED
    BY <1>4, <2>1, <2>2
<1>6. e = 5
  <2>1. \A f \in 1..9 : f = 1 \/ f = 2 \/ f = 3 \/ f = 4 \/ f = 5 \/ f = 6 \/ f = 7 \/ f = 8 \/ f = 9
    OBVIOUS
  <2>2. CASE a.kind \in PurgeKinds
    <3>1. /\ Layout(a.kind)[1] = "ts" /\ Layout(a.kind)[2] = "path"
          /\ Layout(a.kind)[3] \in {"dash", "policy"} /\ Layout(a.kind)[4] \in {"dash", "ts"}
          /\ Layout(a.kind)[6] = "int" /\ \A d \in 7..9 : Layout(a.kind)[d] \in {"int", "dash"}
      BY <2>2, LayoutIs
    <3>2. e # 1 /\ e # 2 /\ e # 3 /\ e # 4 /\ e # 6 /\ e \notin 7..9
      BY <1>5, <3>1
    <3> QED
      BY <1>4, <2>1, <2>2, <3>2
  <2>3. CASE a.kind = "drop"
    <3>1. Layout("drop")[1] = "ts" /\ Layout("drop")[2] = "reason" /\ \A d \in 3..5 : Layout("drop")[d] = "text"
      BY LayoutIs
    <3>2. e \in 1..5
      <4>1. Len(Layout(a.kind)) = 5
        BY <2>3, LayoutIs
      <4>2. PICK q : q = Len(y)
        OBVIOUS
      <4>3. q \in 1..5 /\ e \in 1..q
        BY <1>2, <4>1, <4>2
      <4> QED
        BY <4>3
    <3>3. e # 1 /\ e # 2 /\ e \notin 3..5
      BY <1>5, <2>3, <3>1
    <3> QED
      BY <3>2, <3>3
  <2> QED
    BY <2>2, <2>3 DEF IsAppend, Kinds
<1>7. \A d \in 1..5 : y[d] = Cell(i, Layout(a.kind)[d])
  <2>1. TAKE d \in 1..5
  <2>2. CASE d = 5
    BY <1>5, <1>6, <2>2
  <2>3. CASE d # 5
    <3>1. d \in 1..n
      BY <1>4, <1>6, <2>3
    <3> QED
      BY <1>2, <3>1
  <2> QED
    BY <2>2, <2>3
<1> QED
  BY <1>6, <1>7

(* A field the append came to the end of is there, and not the last cell   *)
(* unless the record is whole.                                             *)
LEMMA FieldOfRecord ==
    ASSUME NEW a, IsAppend(a), NEW i, NEW y, y = AppendRecord(i, a), NEW d \in 1..9, ~(a.cut.n < d)
    PROVE  y[d] = Cell(i, Layout(a.kind)[d]) /\ (d < Len(y) \/ (d = Len(y) /\ a.cut.at = "end"))
<1>1. PICK n \in 0..9 : n = a.cut.n
  BY CutIsWithin
<1>2. Len(y) = (IF a.cut.at = "end" THEN n ELSE n + 1) /\ \A c \in 1..n : y[c] = Cell(i, Layout(a.kind)[c])
  BY <1>1, RecordIs
<1>3. d \in 1..n
  BY <1>1
<1>4. a.cut.at = "end" => n = Len(Layout(a.kind)) /\ n = Len(y)
  BY <1>1, <1>2, CutIsWithin
<1>5. CASE a.cut.at = "end"
  <2>1. d <= Len(y)
    BY <1>2, <1>3, <1>5
  <2> QED
    BY <1>2, <1>3, <1>5, <2>1
<1>6. CASE a.cut.at # "end"
  BY <1>2, <1>3, <1>6
<1> QED
  BY <1>5, <1>6

(* An append that leaves one cell stopped in its time.                     *)
LEMMA OneCell ==
    ASSUME NEW a, IsAppend(a), NEW i, a.cut.at # "end", Len(AppendRecord(i, a)) = 1
    PROVE  a.cut.n = 0
<1>1. PICK n \in 0..9 : n = a.cut.n
  BY CutIsWithin
<1>2. PICK y : y = AppendRecord(i, a)
  OBVIOUS
<1>3. Len(y) = n + 1
  BY <1>1, <1>2, RecordIs
<1> QED
  BY <1>1, <1>2, <1>3

(* The next record keeps the invariant of its line.                        *)
LEMMA RecordKeepsLine ==
    ASSUME NEW x, NEW i \in Nat \ {0}, IsAppend(x[i]), NEW w,
           LineInv(x, i - 1, w), Open(x, i - 1, w)
    PROVE  LineInv(x, i, Joined(w, AppendRecord(i, x[i])))
<1>1. PICK p \in Nat \ {0} : p = Len(w)
  BY DEF LineInv
<1>2. PICK y : y = AppendRecord(i, x[i])
  OBVIOUS
<1>3. PICK q \in 1..9 : q = Len(y)
  <2>1. Len(y) \in 1..Len(Layout(x[i].kind)) /\ Len(Layout(x[i].kind)) \in {5, 9}
    BY <1>2, RecordIs, CutIsWithin
  <2>2. PICK b \in {5, 9} : b = Len(Layout(x[i].kind))
    BY <2>1
  <2>3. PICK q : q = Len(y)
    OBVIOUS
  <2>4. q \in 1..b
    BY <2>1, <2>2, <2>3
  <2>5. q \in 1..9
    BY <2>4
  <2> QED
    BY <2>3, <2>5
<1>4. PICK j : j = Joined(w, y)
  OBVIOUS
<1>5. /\ Len(j) = p + q - 1
      /\ \A c \in 1..(p - 1) : j[c] = w[c]
      /\ j[p] = Merge(w[p], y[1])
      /\ \A e \in 2..q : j[p + e - 1] = y[e]
  <2>1. Len(w) \in Nat \ {0} /\ Len(y) \in Nat \ {0}
    BY <1>1, <1>3
  <2>2. /\ Len(Joined(w, y)) = Len(w) + Len(y) - 1
        /\ \A c \in 1..(Len(w) - 1) : Joined(w, y)[c] = w[c]
        /\ Joined(w, y)[Len(w)] = Merge(w[Len(w)], y[1])
        /\ \A e \in 2..Len(y) : Joined(w, y)[Len(w) + e - 1] = y[e]
    BY <2>1, JoinedIs
  <2> QED
    BY <1>1, <1>3, <1>4, <2>2
<1>6. ASSUME NEW c \in 1..(p + q - 1), j[c].is = "status" PROVE StatusAt(x, i, j, c)
  <2>1. CASE c < p
    <3>1. c \in 1..(p - 1) /\ c \in 1..p
      BY <2>1
    <3>2. w[c].is = "status"
      BY <1>5, <1>6, <3>1
    <3>3. StatusAt(x, i - 1, w, c)
      BY <1>1, <3>1, <3>2 DEF LineInv
    <3>4. c >= 5
      BY <3>3 DEF StatusAt
    <3>5. PICK k \in 1..(i - 1) :
            /\ \A d \in 2..5 : w[c - 5 + d] = Cell(k, Layout(x[k].kind)[d])
            /\ \A d \in 6..9 : \/ x[k].cut.n < d
                              \/ /\ w[c - 5 + d] = Cell(k, Layout(x[k].kind)[d])
                                 /\ c - 5 + d < p \/ x[i - 1].cut.at = "end"
            /\ c = 5 => w[1] = Cell(k, Layout(x[k].kind)[1]) \/ (k > 1 /\ x[k - 1].cut.n = 0)
      BY <1>1, <3>3 DEF StatusAt
    <3>6. \A d \in 2..5 : j[c - 5 + d] = Cell(k, Layout(x[k].kind)[d])
      <4>1. TAKE d \in 2..5
      <4>2. PICK f : f = c - 5 + d
        OBVIOUS
      <4>3. f \in 1..(p - 1)
        BY <2>1, <3>4, <4>2
      <4> QED
        BY <1>5, <3>5, <4>2, <4>3
    <3>7. x[i - 1].cut.at # "end"
      <4>1. Len(<<Empty>>) = 1
        OBVIOUS
      <4>2. w # <<Empty>>
        BY <1>1, <2>1, <3>1, <4>1
      <4> QED
        BY <4>2 DEF Open
    <3>8. ASSUME NEW d \in 6..9, ~(x[k].cut.n < d)
          PROVE  j[c - 5 + d] = Cell(k, Layout(x[k].kind)[d]) /\ c - 5 + d < p + q - 1
      <4>1. w[c - 5 + d] = Cell(k, Layout(x[k].kind)[d]) /\ c - 5 + d < p
        BY <3>5, <3>7, <3>8
      <4>2. PICK f : f = c - 5 + d
        OBVIOUS
      <4>3. f \in 1..(p - 1) /\ f < p + q - 1
        BY <3>4, <4>1, <4>2
      <4> QED
        BY <1>5, <4>1, <4>2, <4>3
    <3>9. c = 5 => j[1] = Cell(k, Layout(x[k].kind)[1]) \/ (k > 1 /\ x[k - 1].cut.n = 0)
      <4>1. c = 5 => 1 \in 1..(p - 1)
        BY <2>1
      <4> QED
        BY <1>5, <3>5, <4>1
    <3>10. k \in 1..i
      OBVIOUS
    <3> QED
      BY <1>5, <3>4, <3>6, <3>8, <3>9, <3>10 DEF StatusAt
  <2>2. CASE c = p
    <3>1. y[1].is \in {"ts", "int"}
      BY <1>2, FirstCell
    <3>2. Merge(w[p], y[1]).is # "status"
      BY <3>1, MergeIsNoStatus
    <3> QED
      BY <1>5, <1>6, <2>2, <3>2
  <2>3. CASE c > p
    <3>1. PICK e \in 2..q : c = p + e - 1
      <4>1. c - p + 1 \in 2..q /\ c = p + (c - p + 1) - 1
        BY <2>3
      <4> QED
        BY <4>1
    <3>2. e \in 1..Len(y) /\ y[e].is = "status"
      BY <1>3, <1>5, <1>6, <3>1
    <3>3. e = 5 /\ \A d \in 1..5 : y[d] = Cell(i, Layout(x[i].kind)[d])
      <4>1. PICK a : a = x[i]
        OBVIOUS
      <4>2. IsAppend(a) /\ y = AppendRecord(i, a)
        BY <1>2, <4>1
      <4>3. e = 5 /\ \A d \in 1..5 : y[d] = Cell(i, Layout(a.kind)[d])
        BY <3>2, <4>2, StatusOfRecord
      <4> QED
        BY <4>1, <4>3
    <3>4. c = p + 4 /\ c >= 5 /\ q >= 5
      BY <3>1, <3>3
    <3>5. \A d \in 2..5 : j[c - 5 + d] = Cell(i, Layout(x[i].kind)[d])
      <4>1. TAKE d \in 2..5
      <4>2. d \in 2..q /\ c - 5 + d = p + d - 1
        BY <3>4
      <4>3. j[p + d - 1] = y[d]
        BY <1>5, <4>2
      <4> QED
        BY <3>3, <4>2, <4>3
    <3>6. ASSUME NEW d \in 6..9, ~(x[i].cut.n < d)
          PROVE  /\ j[c - 5 + d] = Cell(i, Layout(x[i].kind)[d])
                 /\ c - 5 + d < p + q - 1 \/ x[i].cut.at = "end"
      <4>1. y[d] = Cell(i, Layout(x[i].kind)[d]) /\ (d < q \/ (d = q /\ x[i].cut.at = "end"))
        <5>1. PICK a : a = x[i]
          OBVIOUS
        <5>2. IsAppend(a) /\ y = AppendRecord(i, a) /\ d \in 1..9 /\ ~(a.cut.n < d)
          BY <1>2, <3>6, <5>1
        <5>3. y[d] = Cell(i, Layout(a.kind)[d]) /\ (d < Len(y) \/ (d = Len(y) /\ a.cut.at = "end"))
          BY <5>2, FieldOfRecord
        <5> QED
          BY <1>3, <5>1, <5>3
      <4>2. d \in 2..q /\ c - 5 + d = p + d - 1
        BY <3>4, <4>1
      <4>3. j[p + d - 1] = y[d]
        BY <1>5, <4>2
      <4> QED
        BY <4>1, <4>2, <4>3
    <3>7. ASSUME c = 5
          PROVE  j[1] = Cell(i, Layout(x[i].kind)[1]) \/ (i > 1 /\ x[i - 1].cut.n = 0)
      <4>1. p = 1 /\ j[1] = Merge(w[1], y[1])
        BY <1>5, <3>4, <3>7
      <4>2. CASE w = <<Empty>>
        <5>1. w[1].is = "empty"
          BY <4>2 DEF Empty
        <5> QED
          BY <3>3, <4>1, <5>1 DEF Merge
      <4>3. CASE i - 1 \in Nat \ {0} /\ x[i - 1].cut.at # "end"
        BY <1>1, <4>1, <4>3 DEF LineInv
      <4> QED
        BY <4>2, <4>3 DEF Open
    <3>8. i \in 1..i
      OBVIOUS
    <3> QED
      BY <1>5, <3>4, <3>5, <3>6, <3>7, <3>8 DEF StatusAt
  <2> QED
    BY <2>1, <2>2, <2>3
<1>7. Len(j) \in Nat \ {0}
  BY <1>5
<1>8. Len(j) = 1 => x[i].cut.at = "end" \/ x[i].cut.n = 0
  <2>1. SUFFICES ASSUME Len(j) = 1, x[i].cut.at # "end" PROVE x[i].cut.n = 0
    OBVIOUS
  <2>2. Len(j) = p + q - 1
    BY <1>5
  <2>3. q = 1
    BY <2>1, <2>2
  <2>4. PICK a : a = x[i]
    OBVIOUS
  <2>5. IsAppend(a) /\ a.cut.at # "end" /\ Len(AppendRecord(i, a)) = 1
    BY <1>2, <1>3, <2>1, <2>3, <2>4
  <2>6. a.cut.n = 0
    BY <2>5, OneCell
  <2> QED
    BY <2>4, <2>6
<1> QED
  BY <1>2, <1>4, <1>5, <1>6, <1>7, <1>8 DEF LineInv

(* All lines of a log have it, before a record and behind it.              *)
LEMMA LinesAlwaysInv ==
    ASSUME NEW x \in Logged
    PROVE  \A i \in 1..Len(x) :
              LineInv(x, i - 1, Before(LineAt(x), x, i)) /\ LineInv(x, i, LineAt(x)[i])
<1>1. Len(x) \in Nat /\ \A i \in 1..Len(x) : IsAppend(x[i])
  BY DEF Logged
<1>2. PICK at : at = LineAt(x)
  OBVIOUS
<1>3. \A i \in 1..Len(x) : at[i] = Joined(Before(at, x, i), AppendRecord(i, x[i]))
  BY <1>1, <1>2, LineAtIs
<1> DEFINE Holds(m) == LineInv(x, m - 1, Before(at, x, m)) /\ LineInv(x, m, at[m])
           S == {m \in Nat : m \in 1..Len(x) => Holds(m)}
<1>4. 0 \in S
  OBVIOUS
<1>5. ASSUME NEW m \in Nat, m \in S PROVE m + 1 \in S
  <2> SUFFICES ASSUME m + 1 \in 1..Len(x) PROVE Holds(m + 1)
    OBVIOUS
  <2>1. PICK i \in Nat \ {0} : i = m + 1 /\ i - 1 = m /\ i \in 1..Len(x)
    OBVIOUS
  <2>2. LineInv(x, i - 1, Before(at, x, i)) /\ Open(x, i - 1, Before(at, x, i))
    <3>1. CASE i = 1 \/ x[i - 1].cut.at = "end"
      <4>1. i - 1 = 0 \/ x[i - 1].cut.at = "end"
        BY <3>1
      <4>2. LineInv(x, i - 1, <<Empty>>)
        BY <4>1, NewLine
      <4> QED
        BY <3>1, <4>2 DEF Before, Open
    <3>2. CASE ~(i = 1 \/ x[i - 1].cut.at = "end")
      <4>1. m \in 1..Len(x)
        BY <1>1, <2>1, <3>2
      <4>2. LineInv(x, m, at[m])
        BY <1>5, <4>1
      <4>3. m \in Nat \ {0} /\ x[m].cut.at # "end"
        BY <2>1, <3>2, <4>1
      <4> QED
        BY <2>1, <3>2, <4>2, <4>3 DEF Before, Open
    <3> QED
      BY <3>1, <3>2
  <2>3. LineInv(x, i, at[i])
    BY <1>1, <1>3, <2>1, <2>2, RecordKeepsLine
  <2> QED
    BY <2>1, <2>2, <2>3
<1> HIDE DEF S
<1>6. Nat \subseteq S
  BY <1>4, <1>5, Induction
<1>7. ASSUME NEW i \in 1..Len(x) PROVE Holds(i)
  <2>1. i \in S
    BY <1>1, <1>6
  <2> QED
    BY <2>1 DEF S
<1> QED
  BY <1>2, <1>7

-----------------------------------------------------------------------------
(* The lines doctor reads.                                                 *)
LEMMA PurgesAre ==
    ASSUME NEW x \in Logged, Len(x) > 0, x[1].kind # "drop"
    PROVE  EntriesAreWritten(x)
<1>1. \A i \in 1..Len(x) : LineInv(x, i, LineAt(x)[i])
  BY LinesAlwaysInv
<1>2. PICK at : at = LineAt(x)
  OBVIOUS
<1>3. PICK shown : shown = purgeLogTail(x, TailLength).entries
  OBVIOUS
<1>4. \A i \in shown : i \in 1..Len(x) /\ Parses(at[i])
  BY <1>2, <1>3 DEF purgeLogTail, LineEnds
<1>5. ASSUME NEW i \in shown
      PROVE  \E k \in 1..i : \A c \in 1..9 :
                \/ at[i][c] = Cell(k, Layout(x[k].kind)[c])
                \/ c > 5 /\ x[k].cut.n < c
                \/ c = 1 /\ k > 1 /\ x[k - 1].cut.n = 0
  <2>1. PICK w : w = at[i]
    OBVIOUS
  <2>2. LineInv(x, i, w) /\ Len(w) >= 9 /\ w[5].is = "status"
    BY <1>1, <1>2, <1>4, <2>1 DEF Parses
  <2>3. 5 \in 1..Len(w)
    BY <2>2 DEF LineInv
  <2>4. StatusAt(x, i, w, 5)
    BY <2>2, <2>3 DEF LineInv
  <2>5. PICK k \in 1..i :
          /\ \A d \in 2..5 : w[5 - 5 + d] = Cell(k, Layout(x[k].kind)[d])
          /\ \A d \in 6..9 : x[k].cut.n < d \/ w[5 - 5 + d] = Cell(k, Layout(x[k].kind)[d])
          /\ w[1] = Cell(k, Layout(x[k].kind)[1]) \/ (k > 1 /\ x[k - 1].cut.n = 0)
    BY <2>4 DEF StatusAt
  <2>6. ASSUME NEW c \in 1..9
        PROVE  \/ w[c] = Cell(k, Layout(x[k].kind)[c])
               \/ c > 5 /\ x[k].cut.n < c
               \/ c = 1 /\ k > 1 /\ x[k - 1].cut.n = 0
    <3>1. 5 - 5 + c = c /\ (c = 1 \/ c \in 2..5 \/ c \in 6..9)
      OBVIOUS
    <3>2. CASE c = 1
      BY <2>5, <3>2
    <3>3. CASE c \in 2..5
      BY <2>5, <3>1, <3>3
    <3>4. CASE c \in 6..9
      BY <2>5, <3>1, <3>4
    <3> QED
      BY <3>1, <3>2, <3>3, <3>4
  <2> QED
    BY <2>1, <2>6
<1> QED
  BY <1>2, <1>3, <1>5 DEF EntriesAreWritten

(* A record on a line of its own is its line.                              *)
LEMMA WholeLineIs ==
    ASSUME NEW x \in Logged, NEW i \in 1..Len(x), IsWhole(x, i), NEW w, w = LineAt(x)[i]
    PROVE  /\ Len(w) = Len(Layout(x[i].kind))
           /\ \A c \in 1..Len(w) : w[c] = Cell(i, Layout(x[i].kind)[c])
<1>1. Len(x) \in Nat /\ IsAppend(x[i])
  BY DEF Logged
<1>2. PICK y : y = AppendRecord(i, x[i])
  OBVIOUS
<1>3. w = Joined(Before(LineAt(x), x, i), y)
  BY <1>1, <1>2, LineAtIs
<1>4. Before(LineAt(x), x, i) = <<Empty>>
  BY DEF Before, IsWhole
<1>5. PICK q \in {5, 9} : q = Len(Layout(x[i].kind))
  BY <1>1, CutIsWithin
<1>6. x[i].cut.at = "end" /\ x[i].cut.n = q
  BY <1>1, <1>5, CutIsWithin DEF IsWhole
<1>7. Len(y) = q /\ \A d \in 1..q : y[d] = Cell(i, Layout(x[i].kind)[d])
  BY <1>1, <1>2, <1>6, RecordIs
<1>8. PICK o : o = <<Empty>>
  OBVIOUS
<1>9. Len(o) = 1 /\ o[1] = Empty
  BY <1>8
<1>10. /\ Len(Joined(o, y)) = Len(o) + Len(y) - 1
       /\ Joined(o, y)[Len(o)] = Merge(o[Len(o)], y[1])
       /\ \A e \in 2..Len(y) : Joined(o, y)[Len(o) + e - 1] = y[e]
  <2>1. Len(o) \in Nat \ {0} /\ Len(y) \in Nat \ {0}
    BY <1>7, <1>9
  <2> QED
    BY <2>1, JoinedIs
<1>11. w = Joined(o, y)
  BY <1>3, <1>4, <1>8
<1>12. Len(w) = q
  BY <1>7, <1>9, <1>10, <1>11
<1>13. w[1] = y[1]
  BY <1>9, <1>10, <1>11 DEF Merge, Empty
<1>14. \A e \in 2..q : w[e] = y[e]
  <2>1. TAKE e \in 2..q
  <2>2. Len(o) + e - 1 = e
    BY <1>9
  <2> QED
    BY <1>7, <1>10, <1>11, <2>2
<1>15. ASSUME NEW c \in 1..q PROVE w[c] = Cell(i, Layout(x[i].kind)[c])
  <2>1. c = 1 \/ c \in 2..q
    OBVIOUS
  <2> QED
    BY <1>7, <1>13, <1>14, <2>1
<1> QED
  BY <1>5, <1>12, <1>15

LEMMA WholePurgesAre ==
    ASSUME NEW x \in Logged, Len(x) > 0, x[1].kind # "drop"
    PROVE  WholeEntriesAreShown(x)
<1>1. Len(x) \in Nat
  BY DEF Logged
<1>2. PICK at : at = LineAt(x)
  OBVIOUS
<1>3. PICK all : all = {i \in LineEnds(x) : Parses(at[i])}
  OBVIOUS
<1>4. purgeLogTail(x, TailLength).entries = {i \in all : Cardinality({j \in all : j > i}) < TailLength}
  BY <1>2, <1>3 DEF purgeLogTail
<1>5. ASSUME NEW i \in 1..Len(x), IsWhole(x, i), Len(x) - i < TailLength
      PROVE  /\ i \in purgeLogTail(x, TailLength).entries
             /\ \A c \in 1..9 : at[i][c].by = i
  <2>1. x[i].kind \in PurgeKinds
    BY <1>1 DEF Logged, IsAppend, Kinds
  <2>2. PICK w : w = at[i]
    OBVIOUS
  <2>3. Len(w) = 9 /\ \A c \in 1..9 : w[c] = Cell(i, Layout(x[i].kind)[c])
    <3>1. Len(Layout(x[i].kind)) = 9
      BY <2>1, LayoutIs
    <3>2. w = LineAt(x)[i]
      BY <1>2, <2>2
    <3>3. /\ Len(w) = Len(Layout(x[i].kind))
          /\ \A c \in 1..Len(w) : w[c] = Cell(i, Layout(x[i].kind)[c])
      BY <1>5, <3>2, WholeLineIs
    <3> QED
      BY <3>1, <3>3
  <2>4. /\ w[1].is = "ts" /\ w[2].is = "path" /\ w[5].is = "status" /\ w[6].is = "int"
        /\ w[4].is \in {"dash", "ts"} /\ \A d \in 7..9 : w[d].is \in {"dash", "int"}
    BY <2>1, <2>3, LayoutIs DEF Cell
  <2>5. Parses(w)
    BY <2>3, <2>4 DEF Parses, IsInt, isDashOrInt
  <2>6. i \in all
    BY <1>3, <1>5, <2>2, <2>5 DEF LineEnds, IsWhole
  <2>7. PICK newer : newer = {j \in all : j > i}
    OBVIOUS
  <2>8. newer \subseteq (i + 1)..Len(x)
    BY <1>1, <1>3, <2>7 DEF LineEnds
  <2>9. /\ IsFiniteSet((i + 1)..Len(x))
        /\ Cardinality((i + 1)..Len(x)) = IF i + 1 > Len(x) THEN 0 ELSE Len(x) - (i + 1) + 1
    <3>1. i + 1 \in Int /\ Len(x) \in Int
      BY <1>1
    <3> QED
      BY <3>1, FS_Interval
  <2>10. Cardinality(newer) <= Len(x) - i /\ Cardinality(newer) \in Nat
    <3>1. IsFiniteSet(newer) /\ Cardinality(newer) <= Cardinality((i + 1)..Len(x))
      BY <2>8, <2>9, FS_Subset
    <3>2. Cardinality((i + 1)..Len(x)) = Len(x) - i
      BY <1>1, <2>9
    <3>3. Cardinality(newer) \in Nat
      BY <3>1, FS_CardinalityType
    <3> QED
      BY <3>1, <3>2, <3>3
  <2>11. Cardinality(newer) < TailLength
    BY <1>1, <1>5, <2>10, LogAssumption
  <2>12. i \in purgeLogTail(x, TailLength).entries
    BY <1>4, <2>6, <2>7, <2>11
  <2>13. \A c \in 1..9 : at[i][c].by = i
    BY <2>2, <2>3 DEF Cell
  <2> QED
    BY <2>12, <2>13
<1> QED
  BY <1>2, <1>5 DEF WholeEntriesAreShown

(* The lines of drops.                                                     *)
LEMMA DropsAre ==
    ASSUME NEW x \in Logged, Len(x) > 0, x[1].kind = "drop"
    PROVE  ReasonsAreWritten(x) /\ WholeReasonsCount(x)
<1>1. Len(x) \in Nat /\ \A i \in 1..Len(x) : IsAppend(x[i]) /\ x[i].kind = "drop"
  BY DEF Logged
<1>2. PICK at : at = LineAt(x)
  OBVIOUS
<1>3. PICK all : all = {i \in LineEnds(x) : ReasonLine(at[i])}
  OBVIOUS
<1>4. PICK reasons : reasons = dropsByReason(x).reasons
  OBVIOUS
<1>5. reasons = [i \in all |-> at[i][2]]
  BY <1>2, <1>3, <1>4 DEF dropsByReason
<1>6. Layout("drop")[2] = "reason" /\ Len(Layout("drop")) = 5
  BY LayoutIs
<1>7. ASSUME NEW i \in DOMAIN reasons
      PROVE  (\E k \in 1..i : reasons[i] = Cell(k, "reason")) \/ (i = Len(x) /\ x[i].cut.at # "end")
  <2>1. i \in all /\ i \in 1..Len(x) /\ ReasonLine(at[i]) /\ (i = Len(x) \/ x[i].cut.at = "end")
    BY <1>3, <1>5, <1>7 DEF LineEnds
  <2> SUFFICES ASSUME x[i].cut.at = "end" PROVE \E k \in 1..i : reasons[i] = Cell(k, "reason")
    BY <2>1
  <2>2. PICK w : w = Before(at, x, i)
    OBVIOUS
  <2>3. PICK y : y = AppendRecord(i, x[i])
    OBVIOUS
  <2>4. at[i] = Joined(w, y)
    BY <1>1, <1>2, <2>1, <2>2, <2>3, LineAtIs
  <2>5. Len(y) = 5 /\ y[2] = Cell(i, "reason")
    <3>1. IsAppend(x[i]) /\ x[i].cut.n = 5
      BY <1>1, <1>6, <2>1, CutIsWithin
    <3>2. 2 \in 1..x[i].cut.n
      BY <3>1
    <3>3. /\ Len(y) = IF x[i].cut.at = "end" THEN x[i].cut.n ELSE x[i].cut.n + 1
          /\ \A d \in 1..x[i].cut.n : y[d] = Cell(i, Layout(x[i].kind)[d])
      <4>1. PICK a : a = x[i]
        OBVIOUS
      <4>2. IsAppend(a) /\ y = AppendRecord(i, a)
        BY <2>3, <3>1, <4>1
      <4>3. /\ Len(y) = IF a.cut.at = "end" THEN a.cut.n ELSE a.cut.n + 1
            /\ \A d \in 1..a.cut.n : y[d] = Cell(i, Layout(a.kind)[d])
        BY <4>2, RecordIs
      <4> QED
        BY <4>1, <4>3
    <3>4. x[i].kind = "drop"
      BY <1>1, <2>1
    <3> QED
      BY <1>6, <3>1, <3>2, <3>3, <3>4
  <2>6. PICK p \in Nat \ {0} : p = Len(w)
    BY <1>2, <2>1, <2>2, LinesAlwaysInv DEF LineInv
  <2>7. /\ Len(Joined(w, y)) = p + 5 - 1
        /\ \A e \in 2..5 : Joined(w, y)[p + e - 1] = y[e]
    <3>1. Len(w) \in Nat \ {0} /\ Len(y) \in Nat \ {0}
      BY <2>5, <2>6
    <3>2. /\ Len(Joined(w, y)) = Len(w) + Len(y) - 1
          /\ \A e \in 2..Len(y) : Joined(w, y)[Len(w) + e - 1] = y[e]
      BY <3>1, JoinedIs
    <3> QED
      BY <2>5, <2>6, <3>2
  <2>8. p = 1
    BY <2>1, <2>4, <2>7 DEF ReasonLine
  <2>9. at[i][2] = Cell(i, "reason")
    <3>1. 2 \in 2..5 /\ p + 2 - 1 = 2
      BY <2>8
    <3>2. Joined(w, y)[p + 2 - 1] = y[2]
      BY <2>7, <3>1
    <3> QED
      BY <2>4, <2>5, <3>1, <3>2
  <2> QED
    BY <1>5, <2>1, <2>9
<1>8. ASSUME NEW i \in 1..Len(x), IsWhole(x, i)
      PROVE  i \in DOMAIN reasons /\ reasons[i] = Cell(i, "reason")
  <2>1. PICK w : w = at[i]
    OBVIOUS
  <2>2. Len(w) = 5 /\ \A c \in 1..5 : w[c] = Cell(i, Layout("drop")[c])
    <3>1. w = LineAt(x)[i] /\ x[i].kind = "drop"
      BY <1>1, <1>2, <1>8, <2>1
    <3>2. /\ Len(w) = Len(Layout(x[i].kind))
          /\ \A c \in 1..Len(w) : w[c] = Cell(i, Layout(x[i].kind)[c])
      BY <1>8, <3>1, WholeLineIs
    <3> QED
      BY <1>6, <3>1, <3>2
  <2>3. w[1].is = "ts" /\ w[2] = Cell(i, "reason")
    BY <1>6, <2>2, LayoutIs DEF Cell
  <2>4. ReasonLine(w)
    BY <2>2, <2>3 DEF ReasonLine, isUnixTS, Cell
  <2>5. i \in all
    BY <1>3, <1>8, <2>1, <2>4 DEF LineEnds, IsWhole
  <2> QED
    BY <1>5, <2>1, <2>3, <2>5
<1> QED
  BY <1>4, <1>7, <1>8 DEF ReasonsAreWritten, WholeReasonsCount

LEMMA LogsInventNothing ==
    ASSUME NEW x \in Logged
    PROVE  TornLinesInventNothing(x)
<1>1. x # <<>> => Len(x) > 0
  BY DEF Logged
<1> QED
  BY <1>1, PurgesAre, WholePurgesAre, DropsAre DEF TornLinesInventNothing

LogsInv == log \in Logged

LEMMA LogsInit == InputInit => LogsInv
BY DEF InputInit, LogsInv, Logged

LEMMA LogsStep == LogsInv /\ [InputNext]_inputVars => LogsInv'
<1> SUFFICES ASSUME log \in Logged, [InputNext]_inputVars PROVE log' \in Logged
  BY DEF LogsInv
<1>1. CASE WriteLog
  <2>1. PICK kind \in {"startup", "gc", "drop"}, torn \in BOOLEAN :
          /\ log # <<>> => (log[1].kind = "drop" <=> kind = "drop")
          /\ \E cut \in {c \in Cuts(kind) : torn <=> c.at # "end"} :
                log' = Append(log, [kind |-> kind, cut |-> cut])
    BY <1>1 DEF WriteLog
  <2>2. PICK cut \in Cuts(kind) : log' = Append(log, [kind |-> kind, cut |-> cut])
    BY <2>1
  <2>3. PICK one : one = [kind |-> kind, cut |-> cut]
    OBVIOUS
  <2>4. one \in UNION {[kind : {s}, cut : Cuts(s)] : s \in Kinds} /\ IsAppend(one) /\ one.kind = kind
    <3>1. one \in [kind : {kind}, cut : Cuts(kind)] /\ kind \in Kinds
      BY <2>3 DEF Kinds, PurgeKinds
    <3> QED
      BY <2>3, <3>1 DEF IsAppend
  <2>5. /\ log \in Seq(UNION {[kind : {s}, cut : Cuts(s)] : s \in Kinds})
        /\ \A i \in 1..Len(log) : IsAppend(log[i]) /\ (log[i].kind = "drop" <=> log[1].kind = "drop")
    BY DEF Logged
  <2>6. PICK new : new = Append(log, one)
    OBVIOUS
  <2>7. PICK n \in Nat : n = Len(log)
    BY <2>5
  <2>8. /\ new \in Seq(UNION {[kind : {s}, cut : Cuts(s)] : s \in Kinds})
        /\ Len(new) = n + 1 /\ new[n + 1] = one
        /\ \A i \in 1..n : new[i] = log[i]
    BY <2>4, <2>5, <2>6, <2>7
  <2>9. ASSUME NEW i \in 1..(n + 1) PROVE IsAppend(new[i]) /\ (new[i].kind = "drop" <=> new[1].kind = "drop")
    <3>1. CASE n = 0
      BY <2>4, <2>8, <3>1
    <3>2. CASE n > 0
      <4>1. 1 \in 1..n /\ new[1] = log[1] /\ (log[1].kind = "drop" <=> kind = "drop")
        BY <2>1, <2>5, <2>7, <2>8, <3>2
      <4>2. CASE i = n + 1
        BY <2>4, <2>8, <4>1, <4>2
      <4>3. CASE i \in 1..n
        BY <2>5, <2>7, <2>8, <4>1, <4>3
      <4> QED
        BY <4>2, <4>3
    <3> QED
      BY <3>1, <3>2
  <2>10. new \in Logged
    BY <2>8, <2>9 DEF Logged
  <2> QED
    BY <2>2, <2>3, <2>6, <2>10
<1>2. CASE WriteRune \/ WriteLine \/ WriteGroup \/ SpoilEvent \/ UNCHANGED inputVars
  <2>1. log' = log
    BY <1>2 DEF WriteRune, WriteLine, WriteGroup, SpoilEvent, Only, inputVars
  <2> QED
    BY <2>1
<1> QED
  BY <1>1, <1>2 DEF InputNext

(* Whatever the appends to purge.log and session.drops.log were cut to and *)
(* however many there are, doctor reports no purge that no append wrote    *)
(* (but for the count of one torn at its count) and no reason but a torn   *)
(* last one's that no append wrote, and every record on a line of its own  *)
(* that it was asked for (purgeLogTail, dropsByReason).                    *)
THEOREM LogsReportWhatWasWritten == InputSpec => []LogInventsNothing
<1>1. LogsInv => LogInventsNothing
  BY LogsInventNothing DEF LogsInv, LogInventsNothing
<1> QED
  BY <1>1, LogsInit, LogsStep, PTL DEF InputSpec
=============================================================================
