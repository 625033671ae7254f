---------------------------- MODULE ServerProofs ----------------------------
(***************************************************************************)
(* The server process, the searches it answers, and the texts it cuts for  *)
(* them.                                                                   *)
(*                                                                         *)
(* The lifecycle is safe for any number of servers and any intervals.  The *)
(* searches are right for any contents, queries and budgets, and however   *)
(* often the rows change between two of their statements.  Their invariant *)
(* has a part on the rows (RowsInv: artifact ids are never issued twice,   *)
(* a chunk lies in its artifact), one on the search in progress (CallInv:  *)
(* what the ranked rows and the hits hold, what the ids of a hit name, how *)
(* much of the budget is left) and one on a fetch between its two reads    *)
(* (FetchInv).  What the others do to the rows is RowsChange.              *)
(*                                                                         *)
(* The cuts are exact for texts of any length.  What a text is, byte by    *)
(* byte, is its invariant (TextsInv); what the recursive functions that    *)
(* cut it compute is shown by induction (StartsAreWhere, StartsAre).       *)
(***************************************************************************)
EXTENDS ServerLifecycle, Search, MCAlgorithms, WellFoundedInduction, SequenceTheorems,
        FiniteSetTheorems, TLAPS


-----------------------------------------------------------------------------
(* What a merge loop waits for lies within one Interval. *)
LEMMA NextLookBounds ==
    ASSUME NEW a \in Age
    PROVE  /\ NextLook(a) \in 0..Interval
           /\ a # None /\ a >= 0 /\ a < Interval => NextLook(a) = Interval - a
           /\ FTSMergeDueIn(a) > 0 => a # None /\ a >= 0 /\ a < Interval
  <1>1. CASE a = None
    BY <1>1, LifecycleAssumption DEF NextLook, FTSMergeDueIn
  <1>2. CASE a # None
    BY <1>2, LifecycleAssumption DEF NextLook, FTSMergeDueIn, Age
  <1> QED BY <1>1, <1>2

(* The stamp's age stays in its range when it is reset. *)
LEMMA ZeroIsAnAge == 0 \in Age
  BY LifecycleAssumption DEF Age

(* TypeOK is inductive. *)
LEMMA TypeInit == Init => TypeOK
  <1> SUFFICES ASSUME Init PROVE TypeOK
    OBVIOUS
  <1> QED BY LifecycleAssumption DEF Init, TypeOK, Batch, NoBatch, Age

LEMMA TypeStep == TypeOK /\ [Next]_vars => TypeOK'
  <1> SUFFICES ASSUME TypeOK, [Next]_vars PROVE TypeOK'
    OBVIOUS
  <1> USE LifecycleAssumption DEF TypeOK
  <1>1. ASSUME NEW s \in Servers, OpenStore(s) PROVE TypeOK'
    BY <1>1 DEF OpenStore, merging, purging, store
  <1>2. ASSUME NEW s \in Servers, StartServing(s) PROVE TypeOK'
    BY <1>2 DEF StartServing, store
  <1>3. ASSUME NEW s \in Servers, StartFails(s) PROVE TypeOK'
    BY <1>3 DEF StartFails, merging, purging, store
  <1>4. ASSUME NEW s \in Servers, Interrupt(s) PROVE TypeOK'
    BY <1>4 DEF Interrupt, Latched, store
  <1>5. ASSUME NEW s \in Servers, ServeReturns(s) PROVE TypeOK'
    BY <1>5 DEF ServeReturns, purging, store
  <1>6. ASSUME NEW s \in Servers, Kill(s) PROVE TypeOK'
    BY <1>6 DEF Kill, Forget, Batch, NoBatch
  <1>7. ASSUME NEW s \in Servers, BudgetSpent(s) PROVE TypeOK'
    BY <1>7 DEF BudgetSpent, merging, store
  <1>8. ASSUME NEW s \in Servers, PurgeRows(s) PROVE TypeOK'
    <2> DEFINE n == IF expired < MaxHashes THEN expired ELSE MaxHashes
    <2>1. n \in 0..MaxHashes /\ expired - n \in 0..MaxExpired
      OBVIOUS
    <2> HIDE DEF n
    <2> QED BY <1>8, <2>1 DEF PurgeRows, merging, Batch, n
  <1>9. ASSUME NEW s \in Servers, PurgeRowsFail(s) PROVE TypeOK'
    BY <1>9 DEF PurgeRowsFail, merging, store, Batch
  <1>10. ASSUME NEW s \in Servers, PurgeLock(s) PROVE TypeOK'
    BY <1>10 DEF PurgeLock, merging
  <1>11. ASSUME NEW s \in Servers, PurgeLockFail(s) PROVE TypeOK'
    BY <1>11 DEF PurgeLockFail, merging, store, Batch
  <1>12. ASSUME NEW s \in Servers, PurgeFile(s) PROVE TypeOK'
    BY <1>12 DEF PurgeFile, merging, store, Batch
  <1>13. ASSUME NEW s \in Servers, PurgeFilesEnd(s) PROVE TypeOK'
    <2> DEFINE e == batch[s].left > 0
    <2>1. e \in BOOLEAN
      OBVIOUS
    <2>2. /\ batch' = [batch EXCEPT ![s].err = e]
          /\ lock' = None
          /\ purge' = [purge EXCEPT ![s] = "status"]
          /\ UNCHANGED <<life, merge, mergeCtx, timer, missed, purgeCtx, line, expired, age>>
      BY <1>13 DEF PurgeFilesEnd, merging
    <2> HIDE DEF e
    <2> QED BY <2>1, <2>2 DEF Batch
  <1>14. ASSUME NEW s \in Servers, PurgeLogged(s) PROVE TypeOK'
    <2>1. \A e, c, b, k \in BOOLEAN, n \in 0..MaxHashes :
              PurgeStatus(e, n, c, b, k) \in Statuses
      BY DEF PurgeStatus, Statuses
    <2>2. batch[s] \in Batch
      OBVIOUS
    <2>3. /\ batch[s].err \in BOOLEAN /\ batch[s].hashes \in 0..MaxHashes
          /\ (purgeCtx[s] = "canceled") \in BOOLEAN
          /\ (purgeCtx[s] = "deadline") \in BOOLEAN
          /\ (batch[s].hashes = MaxHashes) \in BOOLEAN
      BY <2>2 DEF Batch
    <2> QED BY <1>14, <2>1, <2>3 DEF PurgeLogged, PurgeEnds, merging, store, Record
  <1>15. ASSUME NEW s \in Servers, PurgeNotLogged(s) PROVE TypeOK'
    BY <1>15 DEF PurgeNotLogged, PurgeEnds, merging, store
  <1>16. ASSUME NEW s \in Servers, MergeNotDue(s) PROVE TypeOK'
    BY <1>16, NextLookBounds DEF MergeNotDue, purging, store
  <1>17. ASSUME NEW s \in Servers, MergeDue(s) PROVE TypeOK'
    BY <1>17 DEF MergeDue, purging, store
  <1>18. ASSUME NEW s \in Servers, MergeFTS(s) PROVE TypeOK'
    BY <1>18 DEF MergeFTS, purging, store
  <1>19. ASSUME NEW s \in Servers, MergeFTSFails(s) PROVE TypeOK'
    BY <1>19, NextLookBounds DEF MergeFTSFails, purging, store
  <1>20. ASSUME NEW s \in Servers, MergeStamp(s) PROVE TypeOK'
    BY <1>20, NextLookBounds, ZeroIsAnAge DEF MergeStamp, purging
  <1>21. ASSUME NEW s \in Servers, MergeStampFails(s) PROVE TypeOK'
    BY <1>21, NextLookBounds, ZeroIsAnAge DEF MergeStampFails, purging
  <1>22. ASSUME NEW s \in Servers, MergeLoopEnds(s) PROVE TypeOK'
    BY <1>22 DEF MergeLoopEnds, purging, store
  <1>23. ASSUME NEW s \in Servers, JoinMerge(s) PROVE TypeOK'
    BY <1>23 DEF JoinMerge, Latched, merging, store
  <1>24. ASSUME NEW s \in Servers, JoinPurge(s) PROVE TypeOK'
    BY <1>24 DEF JoinPurge, merging, purging, store
  <1>25. ASSUME NEW s \in Servers, Close(s) PROVE TypeOK'
    BY <1>25 DEF Close, Forget, store, Batch, NoBatch
  <1>26. CASE Tick
    <2>1. age' \in Age
      BY <1>26 DEF Tick, Age
    <2> QED BY <1>26, <2>1 DEF Tick, purging
  <1>27. CASE ClockSetBack
    <2>1. age' \in Age
      BY <1>27 DEF ClockSetBack, Age
    <2> QED BY <1>27, <2>1 DEF ClockSetBack, merging, purging
  <1>28. CASE Expire
    BY <1>28 DEF Expire, merging, purging
  <1>29. CASE UNCHANGED vars
    BY <1>29 DEF vars, merging, purging, store
  <1> QED
    BY <1>1, <1>2, <1>3, <1>4, <1>5, <1>6, <1>7, <1>8, <1>9, <1>10, <1>11, <1>12,
       <1>13, <1>14, <1>15, <1>16, <1>17, <1>18, <1>19, <1>20, <1>21, <1>22,
       <1>23, <1>24, <1>25, <1>26, <1>27, <1>28, <1>29
    DEF Next, PurgeStep, MergeStep, ExitStep

(* Every variable of the model stays in its range, for every instance. *)
THEOREM LifecycleTypeCorrect == Spec => []TypeOK
  BY TypeInit, TypeStep, PTL DEF Spec

-----------------------------------------------------------------------------
(* Where the goroutines of a server can be, given where run is. *)
Control(s) ==
    /\ life[s] \in {"off", "open"} => merge[s] = "none" /\ purge[s] = "none"
    /\ life[s] = "joinPurge" => merge[s] = "done"
    /\ life[s] = "close" => /\ merge[s] \in {"none", "done"}
                            /\ purge[s] \in {"none", "done"}
    /\ lock = s <=> purge[s] = "files"

ControlInv == \A s \in Servers : Control(s)

LEMMA ControlStep == TypeOK /\ ControlInv /\ [Next]_vars => ControlInv'
  <1> SUFFICES ASSUME TypeOK, ControlInv, [Next]_vars PROVE ControlInv'
    OBVIOUS
  <1> USE LifecycleAssumption DEF TypeOK, ControlInv, Control, merging, purging, store
  <1>1. ASSUME NEW s \in Servers, OpenStore(s) PROVE ControlInv'
    BY <1>1 DEF OpenStore
  <1>2. ASSUME NEW s \in Servers, StartServing(s) PROVE ControlInv'
    BY <1>2 DEF StartServing
  <1>3. ASSUME NEW s \in Servers, StartFails(s) PROVE ControlInv'
    BY <1>3 DEF StartFails
  <1>4. ASSUME NEW s \in Servers, Interrupt(s) PROVE ControlInv'
    BY <1>4 DEF Interrupt, Latched
  <1>5. ASSUME NEW s \in Servers, ServeReturns(s) PROVE ControlInv'
    BY <1>5 DEF ServeReturns
  <1>6. ASSUME NEW s \in Servers, Kill(s) PROVE ControlInv'
    BY <1>6 DEF Kill, Forget
  <1>7. ASSUME NEW s \in Servers, BudgetSpent(s) PROVE ControlInv'
    BY <1>7 DEF BudgetSpent
  <1>8. ASSUME NEW s \in Servers, PurgeRows(s) PROVE ControlInv'
    BY <1>8 DEF PurgeRows
  <1>9. ASSUME NEW s \in Servers, PurgeRowsFail(s) PROVE ControlInv'
    BY <1>9 DEF PurgeRowsFail
  <1>10. ASSUME NEW s \in Servers, PurgeLock(s) PROVE ControlInv'
    BY <1>10 DEF PurgeLock
  <1>11. ASSUME NEW s \in Servers, PurgeLockFail(s) PROVE ControlInv'
    BY <1>11 DEF PurgeLockFail
  <1>12. ASSUME NEW s \in Servers, PurgeFile(s) PROVE ControlInv'
    BY <1>12 DEF PurgeFile
  <1>13. ASSUME NEW s \in Servers, PurgeFilesEnd(s) PROVE ControlInv'
    BY <1>13 DEF PurgeFilesEnd
  <1>14. ASSUME NEW s \in Servers, PurgeLogged(s) PROVE ControlInv'
    BY <1>14 DEF PurgeLogged, PurgeEnds
  <1>15. ASSUME NEW s \in Servers, PurgeNotLogged(s) PROVE ControlInv'
    BY <1>15 DEF PurgeNotLogged, PurgeEnds
  <1>16. ASSUME NEW s \in Servers, MergeNotDue(s) PROVE ControlInv'
    BY <1>16 DEF MergeNotDue
  <1>17. ASSUME NEW s \in Servers, MergeDue(s) PROVE ControlInv'
    BY <1>17 DEF MergeDue
  <1>18. ASSUME NEW s \in Servers, MergeFTS(s) PROVE ControlInv'
    BY <1>18 DEF MergeFTS
  <1>19. ASSUME NEW s \in Servers, MergeFTSFails(s) PROVE ControlInv'
    BY <1>19 DEF MergeFTSFails
  <1>20. ASSUME NEW s \in Servers, MergeStamp(s) PROVE ControlInv'
    BY <1>20 DEF MergeStamp
  <1>21. ASSUME NEW s \in Servers, MergeStampFails(s) PROVE ControlInv'
    BY <1>21 DEF MergeStampFails
  <1>22. ASSUME NEW s \in Servers, MergeLoopEnds(s) PROVE ControlInv'
    BY <1>22 DEF MergeLoopEnds
  <1>23. ASSUME NEW s \in Servers, JoinMerge(s) PROVE ControlInv'
    BY <1>23 DEF JoinMerge, Latched
  <1>24. ASSUME NEW s \in Servers, JoinPurge(s) PROVE ControlInv'
    BY <1>24 DEF JoinPurge
  <1>25. ASSUME NEW s \in Servers, Close(s) PROVE ControlInv'
    BY <1>25 DEF Close, Forget
  <1>26. CASE Tick
    BY <1>26 DEF Tick
  <1>27. CASE ClockSetBack
    BY <1>27 DEF ClockSetBack
  <1>28. CASE Expire
    BY <1>28 DEF Expire
  <1>29. CASE UNCHANGED vars
    BY <1>29 DEF vars
  <1> QED
    BY <1>1, <1>2, <1>3, <1>4, <1>5, <1>6, <1>7, <1>8, <1>9, <1>10, <1>11, <1>12,
       <1>13, <1>14, <1>15, <1>16, <1>17, <1>18, <1>19, <1>20, <1>21, <1>22, <1>23, <1>24,
       <1>25, <1>26, <1>27, <1>28, <1>29
    DEF Next, PurgeStep, MergeStep, ExitStep

LEMMA ControlInit == Init => ControlInv
  BY LifecycleAssumption DEF Init, ControlInv, Control

(* Once run closes the store and the session, neither goroutine uses them  *)
(* and the store's lock is not held: the deferred calls of run join the    *)
(* goroutines first.                                                       *)
THEOREM ClosedStoreIsUnused == Spec => []NoUseAfterClose
  <1>1. Spec => [](TypeOK /\ ControlInv)
    BY TypeInit, TypeStep, ControlInit, ControlStep, PTL DEF Spec
  <1>2. TypeOK /\ ControlInv => NoUseAfterClose
    BY DEF TypeOK, ControlInv, Control, NoUseAfterClose
  <1> QED BY <1>1, <1>2, PTL

-----------------------------------------------------------------------------
(* What the report holds at each step of the purge. *)
Report(s) ==
    /\ purge[s] \in {"none", "rows"} => batch[s] = NoBatch
    /\ purge[s] \in {"lock", "files"} => batch[s].hashes > 0 /\ ~batch[s].err
    /\ purge[s] \in {"status", "done"} /\ ~batch[s].err => batch[s].left = 0
    /\ batch[s].deleted = batch[s].hashes
    /\ purge[s] # "done" => line[s] = None

ReportInv == \A s \in Servers : Report(s)

LEMMA ReportStep == TypeOK /\ ControlInv /\ ReportInv /\ [Next]_vars => ReportInv'
  <1> SUFFICES ASSUME TypeOK, ControlInv, ReportInv, [Next]_vars PROVE ReportInv'
    OBVIOUS
  <1> USE LifecycleAssumption DEF TypeOK, ReportInv, Report, Batch, NoBatch,
                                  merging, purging, store
  <1>1. ASSUME NEW s \in Servers, OpenStore(s) PROVE ReportInv'
    BY <1>1 DEF OpenStore
  <1>2. ASSUME NEW s \in Servers, StartServing(s) PROVE ReportInv'
    BY <1>2 DEF StartServing, ControlInv, Control
  <1>3. ASSUME NEW s \in Servers, StartFails(s) PROVE ReportInv'
    BY <1>3 DEF StartFails
  <1>4. ASSUME NEW s \in Servers, Interrupt(s) PROVE ReportInv'
    BY <1>4 DEF Interrupt, Latched
  <1>5. ASSUME NEW s \in Servers, ServeReturns(s) PROVE ReportInv'
    BY <1>5 DEF ServeReturns
  <1>6. ASSUME NEW s \in Servers, Kill(s) PROVE ReportInv'
    BY <1>6 DEF Kill, Forget
  <1>7. ASSUME NEW s \in Servers, BudgetSpent(s) PROVE ReportInv'
    BY <1>7 DEF BudgetSpent
  <1>8. ASSUME NEW s \in Servers, PurgeRows(s) PROVE ReportInv'
    <2> DEFINE n == IF expired < MaxHashes THEN expired ELSE MaxHashes
    <2>1. n \in 0..MaxHashes
      OBVIOUS
    <2>2. /\ batch' = [batch EXCEPT ![s] = [hashes |-> n, left |-> n, err |-> FALSE,
                                            deleted |-> n]]
          /\ purge' = [purge EXCEPT ![s] = IF n = 0 THEN "status" ELSE "lock"]
          /\ purge[s] = "rows" /\ line' = line
      BY <1>8 DEF PurgeRows
    <2> HIDE DEF n
    <2> QED BY <2>1, <2>2
  <1>9. ASSUME NEW s \in Servers, PurgeRowsFail(s) PROVE ReportInv'
    BY <1>9 DEF PurgeRowsFail
  <1>10. ASSUME NEW s \in Servers, PurgeLock(s) PROVE ReportInv'
    BY <1>10 DEF PurgeLock
  <1>11. ASSUME NEW s \in Servers, PurgeLockFail(s) PROVE ReportInv'
    BY <1>11 DEF PurgeLockFail
  <1>12. ASSUME NEW s \in Servers, PurgeFile(s) PROVE ReportInv'
    <2>1. /\ batch' = [batch EXCEPT ![s].left = @ - 1]
          /\ purge[s] = "files" /\ purge' = purge /\ line' = line
      BY <1>12 DEF PurgeFile
    <2>2. ASSUME NEW t \in Servers, t # s PROVE Report(t)'
      <3>1. batch'[t] = batch[t]
        BY <2>1, <2>2
      <3> QED BY <2>1, <3>1
    <2>3. Report(s)'
      <3>1. batch'[s] = [batch[s] EXCEPT !.left = @ - 1]
        BY <2>1
      <3>2. batch'[s].err = batch[s].err
        BY <3>1
      <3>3. ~batch'[s].err
        BY <2>1, <3>2
      <3> QED BY <2>1, <3>1, <3>3
    <2> QED BY <2>2, <2>3
  <1>13. ASSUME NEW s \in Servers, PurgeFilesEnd(s) PROVE ReportInv'
    <2> DEFINE e == batch[s].left > 0
    <2>1. /\ batch' = [batch EXCEPT ![s].err = e]
          /\ purge' = [purge EXCEPT ![s] = "status"]
          /\ purge[s] = "files" /\ line' = line
      BY <1>13 DEF PurgeFilesEnd
    <2>2. ~e => batch[s].left = 0
      BY DEF Batch
    <2>3. e \in BOOLEAN
      OBVIOUS
    <2> HIDE DEF e
    <2> QED BY <2>1, <2>2, <2>3 DEF Batch
  <1>14. ASSUME NEW s \in Servers, PurgeLogged(s) PROVE ReportInv'
    BY <1>14 DEF PurgeLogged, PurgeEnds
  <1>15. ASSUME NEW s \in Servers, PurgeNotLogged(s) PROVE ReportInv'
    BY <1>15 DEF PurgeNotLogged, PurgeEnds
  <1>16. ASSUME NEW s \in Servers, MergeNotDue(s) PROVE ReportInv'
    BY <1>16 DEF MergeNotDue
  <1>17. ASSUME NEW s \in Servers, MergeDue(s) PROVE ReportInv'
    BY <1>17 DEF MergeDue
  <1>18. ASSUME NEW s \in Servers, MergeFTS(s) PROVE ReportInv'
    BY <1>18 DEF MergeFTS
  <1>19. ASSUME NEW s \in Servers, MergeFTSFails(s) PROVE ReportInv'
    BY <1>19 DEF MergeFTSFails
  <1>20. ASSUME NEW s \in Servers, MergeStamp(s) PROVE ReportInv'
    BY <1>20 DEF MergeStamp
  <1>21. ASSUME NEW s \in Servers, MergeStampFails(s) PROVE ReportInv'
    BY <1>21 DEF MergeStampFails
  <1>22. ASSUME NEW s \in Servers, MergeLoopEnds(s) PROVE ReportInv'
    BY <1>22 DEF MergeLoopEnds
  <1>23. ASSUME NEW s \in Servers, JoinMerge(s) PROVE ReportInv'
    BY <1>23 DEF JoinMerge, Latched
  <1>24. ASSUME NEW s \in Servers, JoinPurge(s) PROVE ReportInv'
    BY <1>24 DEF JoinPurge
  <1>25. ASSUME NEW s \in Servers, Close(s) PROVE ReportInv'
    BY <1>25 DEF Close, Forget
  <1>26. CASE Tick
    BY <1>26 DEF Tick
  <1>27. CASE ClockSetBack
    BY <1>27 DEF ClockSetBack
  <1>28. CASE Expire
    BY <1>28 DEF Expire
  <1>29. CASE UNCHANGED vars
    BY <1>29 DEF vars
  <1> QED
    BY <1>1, <1>2, <1>3, <1>4, <1>5, <1>6, <1>7, <1>8, <1>9, <1>10, <1>11, <1>12,
       <1>13, <1>14, <1>15, <1>16, <1>17, <1>18, <1>19, <1>20, <1>21, <1>22, <1>23, <1>24,
       <1>25, <1>26, <1>27, <1>28, <1>29
    DEF Next, PurgeStep, MergeStep, ExitStep

LEMMA ReportInit == Init => ReportInv
  BY DEF Init, ReportInv, Report, NoBatch

(* Every step but the one that writes the line leaves the truth of the     *)
(* lines alone: a line is written last, and what it speaks of is forgotten *)
(* only together with it.                                                  *)
LEMMA TruthStep ==
    TypeOK /\ ReportInv /\ LogTellsTheTruth /\ [Next]_vars => LogTellsTheTruth'
  <1> SUFFICES ASSUME TypeOK, ReportInv, LogTellsTheTruth, [Next]_vars
               PROVE  LogTellsTheTruth'
    OBVIOUS
  <1> USE DEF TypeOK, LogTellsTheTruth, merging, purging, store
  <1>1. ASSUME NEW s \in Servers, PurgeLogged(s) PROVE LogTellsTheTruth'
    <2> DEFINE b == batch[s]
               st == PurgeStatus(b.err, b.hashes, purgeCtx[s] = "canceled",
                                 purgeCtx[s] = "deadline", b.hashes = MaxHashes)
    <2>1. /\ b.err \in BOOLEAN /\ b.hashes \in Nat /\ b.left \in Nat
          /\ b.deleted = b.hashes /\ (~b.err => b.left = 0)
      BY <1>1, LifecycleAssumption DEF PurgeLogged, ReportInv, Report, Batch
    <2>2. /\ st \in {"cancelled", "budget", "failed"} => b.hashes = 0
          /\ st = "partial" => b.hashes > 0
          /\ st \in {"capped", "ok"} => ~b.err
      BY <2>1 DEF PurgeStatus
    <2>3. /\ line' = [line EXCEPT ![s] = [status |-> st, count |-> b.hashes]]
          /\ batch' = batch
      BY <1>1 DEF PurgeLogged
    <2> HIDE DEF st, b
    <2> QED BY <2>1, <2>2, <2>3 DEF b
  <1>2. ASSUME NEW s \in Servers, Kill(s) \/ Close(s) PROVE LogTellsTheTruth'
    BY <1>2 DEF Kill, Close, Forget
  <1>3. ASSUME NEW s \in Servers,
               \/ PurgeRows(s) \/ PurgeRowsFail(s) \/ PurgeLockFail(s)
               \/ PurgeFile(s) \/ PurgeFilesEnd(s)
        PROVE LogTellsTheTruth'
    <2>1. line' = line /\ line[s] = None
      BY <1>3 DEF PurgeRows, PurgeRowsFail, PurgeLockFail, PurgeFile, PurgeFilesEnd,
                  ReportInv, Report
    <2>2. \A t \in Servers \ {s} : batch'[t] = batch[t]
      BY <1>3 DEF PurgeRows, PurgeRowsFail, PurgeLockFail, PurgeFile, PurgeFilesEnd
    <2> QED BY <2>1, <2>2
  <1>4. CASE UNCHANGED <<line, batch>>
    BY <1>4
  <1> QED
    BY <1>1, <1>2, <1>3, <1>4
    DEF Next, PurgeStep, MergeStep, ExitStep, vars,
        OpenStore, StartServing, StartFails, Interrupt, ServeReturns, BudgetSpent,
        PurgeLock, PurgeNotLogged, MergeNotDue, MergeDue, MergeFTS, MergeFTSFails,
        MergeStamp, MergeStampFails, MergeLoopEnds, JoinMerge, JoinPurge,
        Tick, ClockSetBack, Expire

(* A line in the purge log can be believed, whatever ended the purge and   *)
(* whenever: PurgeStatus puts what was committed before why it stopped.    *)
THEOREM PurgeLogIsTruthful == Spec => []LogTellsTheTruth
  <1>1. Init => LogTellsTheTruth
    BY DEF Init, LogTellsTheTruth
  <1> QED BY <1>1, TypeInit, TypeStep, ControlInit, ControlStep, ReportInit, ReportStep,
             TruthStep, PTL DEF Spec

-----------------------------------------------------------------------------
(* A loop that has not started has not looked. *)
UnseenInv == \A s \in Servers : merge[s] = "none" => missed[s] = TRUE

LEMMA UnseenStep == TypeOK /\ UnseenInv /\ [Next]_vars => UnseenInv'
  BY DEF TypeOK, UnseenInv, Next, PurgeStep, MergeStep, ExitStep, vars, merging,
         OpenStore, StartServing, StartFails, Interrupt, ServeReturns, Kill, BudgetSpent,
         PurgeRows, PurgeRowsFail, PurgeLock, PurgeLockFail, PurgeFile, PurgeFilesEnd,
         PurgeLogged, PurgeNotLogged, MergeNotDue, MergeDue, MergeFTS, MergeFTSFails,
         MergeStamp, MergeStampFails, MergeLoopEnds, JoinMerge, JoinPurge, Close, Forget,
         Tick, ClockSetBack, Expire

(* A tick adds to the stamp's age what it takes from the timer. *)
LEMMA OverdueStep ==
    TypeOK /\ ControlInv /\ UnseenInv /\ MergeNotOverdue /\ [Next]_vars
        => MergeNotOverdue'
  <1> SUFFICES ASSUME TypeOK, ControlInv, UnseenInv, MergeNotOverdue, [Next]_vars
               PROVE  MergeNotOverdue'
    OBVIOUS
  <1> USE LifecycleAssumption DEF TypeOK, MergeNotOverdue, merging, purging, store
  <1>1. ASSUME NEW s \in Servers, MergeNotDue(s) PROVE MergeNotOverdue'
    BY <1>1, NextLookBounds DEF MergeNotDue, Age
  <1>2. ASSUME NEW s \in Servers, MergeStamp(s) PROVE MergeNotOverdue'
    <2>1. 0 \in Age /\ NextLook(0) = Interval
      BY ZeroIsAnAge, NextLookBounds
    <2> QED BY <1>2, <2>1 DEF MergeStamp
  <1>3. ASSUME NEW s \in Servers, MergeStampFails(s) PROVE MergeNotOverdue'
    BY <1>3 DEF MergeStampFails
  <1>4. ASSUME NEW s \in Servers,
               \/ Kill(s) \/ Close(s) \/ MergeDue(s) \/ MergeFTS(s)
               \/ MergeFTSFails(s) \/ MergeLoopEnds(s)
        PROVE MergeNotOverdue'
    BY <1>4 DEF Kill, Close, Forget, MergeDue, MergeFTS, MergeFTSFails, MergeLoopEnds
  <1>5. ASSUME NEW s \in Servers, StartServing(s) PROVE MergeNotOverdue'
    BY <1>5 DEF StartServing, ControlInv, Control, UnseenInv
  <1>6. CASE Tick
    BY <1>6 DEF Tick, Age
  <1>7. CASE ClockSetBack
    BY <1>7 DEF ClockSetBack, Age
  <1>8. CASE UNCHANGED <<merge, timer, missed, age>>
    BY <1>8
  <1> QED
    BY <1>1, <1>2, <1>3, <1>4, <1>5, <1>6, <1>7, <1>8
    DEF Next, PurgeStep, MergeStep, ExitStep, vars,
        OpenStore, StartFails, Interrupt, ServeReturns, BudgetSpent,
        PurgeRows, PurgeRowsFail, PurgeLock, PurgeLockFail, PurgeFile, PurgeFilesEnd,
        PurgeLogged, PurgeNotLogged, JoinMerge, JoinPurge, Expire

(* A running server looks at the merge stamp again before the stamp is     *)
(* older than the interval, whoever wrote it and however often the clock   *)
(* was set back: runFTSMergeLoop waits for what FTSMergeDueIn leaves.      *)
THEOREM MergeIsLookedAtInTime == Spec => []MergeNotOverdue
  <1>1. Init => MergeNotOverdue /\ UnseenInv
    BY DEF Init, MergeNotOverdue, UnseenInv
  <1> QED BY <1>1, TypeInit, TypeStep, ControlInit, ControlStep, UnseenStep,
             OverdueStep, PTL DEF Spec

-----------------------------------------------------------------------------
(* Numbers and running totals. *)

(* A set of natural numbers that is not empty has a least element.         *)
LEMMA LeastNumber ==
    ASSUME NEW T, T \subseteq Nat, T # {}
    PROVE  \E m \in T : \A k \in T : m <= k
<1> DEFINE R == OpToRel(<, Nat)
<1>1. IsWellFoundedOn(R, Nat)
  BY NatLessThanWellFounded
<1>2. R = {ss \in Nat \X Nat : ss[1] < ss[2]}
  BY DEF OpToRel
<1> HIDE DEF R
<1>3. PICK x \in T : \A y \in T : ~(<<y, x>> \in R)
  BY <1>1, WFMin
<1>4. \A y \in T : ~(y < x)
  BY <1>3, <1>2
<1> QED
  BY <1>4

(* So has one that is bounded a greatest: what Max returns.                *)
LEMMA MaxOfBounded ==
    ASSUME NEW b \in Nat, NEW T, T \subseteq 0..b, T # {}
    PROVE  Max(T) \in T /\ \A x \in T : Max(T) >= x
<1> DEFINE U == {b - x : x \in T}
<1>1. U \subseteq Nat /\ U # {}
  <2>1. PICK z : z \in T
    OBVIOUS
  <2>2. b - z \in U
    BY <2>1
  <2> QED
    BY <2>2
<1>2. PICK m \in U : \A k \in U : m <= k
  BY <1>1, LeastNumber
<1>3. PICK x \in T : m = b - x
  OBVIOUS
<1>4. \A y \in T : x >= y
  <2>1. TAKE y \in T
  <2>2. m <= b - y
    BY <1>2
  <2> QED
    BY <1>3, <2>2
<1>5. \E z \in T : \A y \in T : z >= y
  BY <1>4
<1> HIDE DEF U
<1> QED
  BY <1>5 DEF Max

(* Min returns the least.                                                  *)
LEMMA MinOfNumbers ==
    ASSUME NEW T, T \subseteq Nat, T # {}
    PROVE  Min(T) \in T /\ \A x \in T : Min(T) <= x
<1>1. \E z \in T : \A y \in T : z <= y
  BY LeastNumber
<1> QED
  BY <1>1 DEF Min

(* Induction, for a set of numbers: the smallest one that is missing can   *)
(* be neither 0 nor the successor of another.                              *)
LEMMA Induction ==
    ASSUME NEW S, 0 \in S, \A n \in Nat : n \in S => n + 1 \in S
    PROVE  Nat \subseteq S
<1> SUFFICES ASSUME Nat \ S # {} PROVE FALSE
  OBVIOUS
<1>1. PICK m \in Nat \ S : \A k \in Nat \ S : m <= k
  <2>1. Nat \ S \subseteq Nat
    OBVIOUS
  <2> QED
    BY <2>1, LeastNumber
<1>2. m - 1 \in Nat /\ ~(m <= m - 1) /\ (m - 1) + 1 = m
  OBVIOUS
<1> QED
  BY <1>1, <1>2

(* The function of a running total over 0..n is there, ...                 *)
IsTotal(t, f, n) == t = [k \in 0..n |-> IF k = 0 THEN 0 ELSE t[k - 1] + f[k]]

LEMMA TotalExists ==
    ASSUME NEW f, NEW n \in Nat
    PROVE  \E t : IsTotal(t, f, n)
<1> DEFINE S == {m \in Nat : \E t : IsTotal(t, f, m)}
<1>1. 0 \in S
  <2>1. IsTotal([k \in 0..0 |-> 0], f, 0)
    BY DEF IsTotal
  <2> QED
    BY <2>1
<1>2. ASSUME NEW m \in Nat, m \in S PROVE m + 1 \in S
  <2>1. PICK t : IsTotal(t, f, m)
    BY <1>2
  <2> DEFINE u == [k \in 0..(m + 1) |-> IF k = m + 1 THEN t[m] + f[m + 1] ELSE t[k]]
  <2>2. ASSUME NEW k \in 0..(m + 1)
        PROVE  u[k] = IF k = 0 THEN 0 ELSE u[k - 1] + f[k]
    <3>1. CASE k = m + 1
      <4>1. u[k] = t[m] + f[m + 1] /\ u[k - 1] = t[m] /\ k # 0
        BY <3>1
      <4> QED
        BY <3>1, <4>1
    <3>2. CASE k # m + 1 /\ k # 0
      <4>1. k \in 0..m /\ k - 1 \in 0..m /\ k - 1 # m + 1 /\ k - 1 \in 0..(m + 1)
        BY <3>2
      <4>2. u[k] = t[k] /\ u[k - 1] = t[k - 1]
        BY <3>2, <4>1
      <4>3. t[k] = t[k - 1] + f[k]
        BY <2>1, <3>2, <4>1 DEF IsTotal
      <4> QED
        BY <3>2, <4>2, <4>3
    <3>3. CASE k # m + 1 /\ k = 0
      <4>1. t[0] = 0
        BY <2>1 DEF IsTotal
      <4> QED
        BY <3>3, <4>1
    <3> QED
      BY <3>1, <3>2, <3>3
  <2>3. u = [k \in 0..(m + 1) |-> u[k]]
    OBVIOUS
  <2> HIDE DEF u
  <2>4. IsTotal(u, f, m + 1)
    BY <2>2, <2>3 DEF IsTotal
  <2> QED
    BY <2>4
<1> HIDE DEF S
<1>3. Nat \subseteq S
  BY <1>1, <1>2, Induction
<1> QED
  BY <1>3 DEF S

(* ... and there is only one: two agree as far as both go.                 *)
LEMMA TotalsAgree ==
    ASSUME NEW f, NEW g, NEW n \in Nat, NEW m \in Nat, NEW t, NEW u,
           IsTotal(t, f, n), IsTotal(u, g, m), \A k \in 1..n : f[k] = g[k], n <= m
    PROVE  t[n] = u[n]
<1> DEFINE S == {k \in Nat : k <= n => t[k] = u[k]}
<1>1. 0 \in S
  BY DEF IsTotal
<1>2. ASSUME NEW k \in Nat, k \in S PROVE k + 1 \in S
  <2> SUFFICES ASSUME k + 1 <= n PROVE t[k + 1] = u[k + 1]
    OBVIOUS
  <2>1. k + 1 \in 0..n /\ k + 1 \in 0..m /\ k + 1 # 0 /\ (k + 1) - 1 = k /\ k + 1 \in 1..n
    OBVIOUS
  <2>2. t[k + 1] = t[k] + f[k + 1] /\ u[k + 1] = u[k] + g[k + 1]
    BY <2>1 DEF IsTotal
  <2> QED
    BY <1>2, <2>1, <2>2
<1> HIDE DEF S
<1>3. n \in S
  BY <1>1, <1>2, Induction
<1> QED
  BY <1>3 DEF S

LEMMA TotalIs ==
    ASSUME NEW f, NEW n \in Nat
    PROVE  \E t : IsTotal(t, f, n) /\ Total(f, n) = t[n]
<1> DEFINE t == CHOOSE u : u = [k \in 0..n |-> IF k = 0 THEN 0 ELSE u[k - 1] + f[k]]
<1>1. \E u : u = [k \in 0..n |-> IF k = 0 THEN 0 ELSE u[k - 1] + f[k]]
  BY TotalExists DEF IsTotal
<1>2. t = [k \in 0..n |-> IF k = 0 THEN 0 ELSE t[k - 1] + f[k]]
  BY <1>1
<1>3. Total(f, n) = t[n]
  BY DEF Total
<1> HIDE DEF t
<1> QED
  BY <1>2, <1>3 DEF IsTotal

(* What Total computes.                                                    *)
LEMMA TotalOfSame ==
    ASSUME NEW f, NEW g, NEW n \in Nat, \A k \in 1..n : f[k] = g[k]
    PROVE  Total(f, n) = Total(g, n)
<1>1. PICK t : IsTotal(t, f, n) /\ Total(f, n) = t[n]
  BY TotalIs
<1>2. PICK u : IsTotal(u, g, n) /\ Total(g, n) = u[n]
  BY TotalIs
<1> QED
  BY <1>1, <1>2, TotalsAgree

LEMMA TotalOfNone == \A f : Total(f, 0) = 0
<1> TAKE f
<1>1. PICK t : IsTotal(t, f, 0) /\ Total(f, 0) = t[0]
  BY TotalIs
<1> QED
  BY <1>1 DEF IsTotal

LEMMA TotalOfOneMore ==
    ASSUME NEW f, NEW n \in Nat
    PROVE  Total(f, n + 1) = Total(f, n) + f[n + 1]
<1>1. PICK t : IsTotal(t, f, n) /\ Total(f, n) = t[n]
  BY TotalIs
<1>2. PICK u : IsTotal(u, f, n + 1) /\ Total(f, n + 1) = u[n + 1]
  BY TotalIs
<1>3. t[n] = u[n]
  BY <1>1, <1>2, TotalsAgree
<1>4. n + 1 \in 0..(n + 1) /\ n + 1 # 0 /\ (n + 1) - 1 = n
  OBVIOUS
<1>5. u[n + 1] = u[n] + f[n + 1]
  BY <1>2, <1>4 DEF IsTotal
<1> QED
  BY <1>1, <1>2, <1>3, <1>5

LEMMA TotalIsNat ==
    ASSUME NEW f, NEW n \in Nat, \A k \in 1..n : f[k] \in Nat
    PROVE  Total(f, n) \in Nat
<1> DEFINE S == {k \in Nat : k <= n => Total(f, k) \in Nat}
<1>1. 0 \in S
  BY TotalOfNone
<1>2. ASSUME NEW k \in Nat, k \in S PROVE k + 1 \in S
  <2> SUFFICES ASSUME k + 1 <= n PROVE Total(f, k + 1) \in Nat
    OBVIOUS
  <2>1. Total(f, k) \in Nat /\ f[k + 1] \in Nat
    BY <1>2
  <2> QED
    BY <2>1, TotalOfOneMore
<1> HIDE DEF S
<1>3. n \in S
  BY <1>1, <1>2, Induction
<1> QED
  BY <1>3 DEF S

-----------------------------------------------------------------------------
(* The rows a search reads. *)

Texts == DOMAIN Size

(* Artifact ids are issued from the watermark, a chunk belongs to an arti- *)
(* fact that is there and lies in it, a source names one that is there.    *)
RowsInv ==
    /\ watermark \in Nat /\ DOMAIN artifacts \subseteq 1..watermark
    /\ \A a \in DOMAIN artifacts : artifacts[a] \in Contents
    /\ \E b \in Nat : DOMAIN chunks \subseteq 0..b
    /\ \E b \in Nat : DOMAIN events \subseteq 0..b
    /\ \A c \in DOMAIN chunks :
          /\ chunks[c].artifact \in DOMAIN artifacts
          /\ chunks[c].ordinal \in 1..Len(artifacts[chunks[c].artifact])
    /\ \A u \in DOMAIN sources : sources[u] \in DOMAIN artifacts
    /\ \A i \in DOMAIN events : events[i] \in EventTexts

(* What the others do to the rows of a search: one that is there keeps its *)
(* text or is noted as given out again, and then its artifact is younger   *)
(* than every one before.                                                  *)
RowsChange ==
    /\ UNCHANGED <<call, fetch>> /\ reissued \subseteq reissued' /\ watermark <= watermark'
    /\ \A a \in DOMAIN artifacts' :
          (a \in DOMAIN artifacts /\ artifacts'[a] = artifacts[a]) \/ a > watermark
    /\ \A c \in DOMAIN chunks' :
          \/ c \in DOMAIN chunks /\ chunks'[c] = chunks[c]
          \/ <<c, "content">> \in reissued' /\ chunks'[c].artifact > watermark
    /\ \A i \in DOMAIN events' :
          (i \in DOMAIN events /\ events'[i] = events[i]) \/ <<i, "events">> \in reissued'

(* INTEGER PRIMARY KEY gives an id larger than all.                        *)
LEMMA NextRowIsNew ==
    ASSUME NEW table, NEW b \in Nat, DOMAIN table \subseteq 0..b
    PROVE  NextRow(table) \in Nat \ {0} /\ \A c \in DOMAIN table : c < NextRow(table)
<1> DEFINE T == {0} \cup DOMAIN table
<1>1. T \subseteq 0..b /\ T # {}
  OBVIOUS
<1>2. Max(T) \in T /\ \A x \in T : Max(T) >= x
  BY <1>1, MaxOfBounded
<1>3. NextRow(table) = 1 + Max(T)
  BY DEF NextRow
<1>4. Max(T) \in 0..b
  BY <1>1, <1>2
<1> QED
  BY <1>2, <1>3, <1>4

LEMMA NextArtifactIsNew ==
    ASSUME RowsInv PROVE nextArtifactID = watermark + 1
<1> DEFINE T == {watermark} \cup DOMAIN artifacts
<1>1. T \subseteq 0..watermark /\ T # {} /\ watermark \in Nat /\ watermark \in T
  BY DEF RowsInv
<1>2. Max(T) \in T /\ \A x \in T : Max(T) >= x
  BY <1>1, MaxOfBounded
<1>3. nextArtifactID = 1 + Max(T)
  BY DEF nextArtifactID
<1>4. Max(T) \in 0..watermark /\ Max(T) >= watermark
  BY <1>1, <1>2
<1> QED
  BY <1>1, <1>3, <1>4

LEMMA RegisterChanges ==
    ASSUME RowsInv, NEW uri \in URIs, NEW content \in Contents, Register(uri, content)
    PROVE  RowsInv' /\ RowsChange
<1> DEFINE same == Known(content)
           first == NextRow(chunks)
           new == IF same = {} THEN first..(first + Len(content) - 1) ELSE {}
<1>1. PICK id \in IdsFor(content) :
          /\ artifacts' = [a \in DOMAIN artifacts \cup {id} |-> IF a = id THEN content ELSE artifacts[a]]
          /\ watermark' = IF id \in DOMAIN artifacts THEN watermark ELSE id
          /\ chunks' = [c \in DOMAIN chunks \cup new |->
                          IF c \in new THEN [artifact |-> id, ordinal |-> c - first + 1] ELSE chunks[c]]
          /\ sources' = [u \in DOMAIN sources \cup {uri} |-> IF u = uri THEN id ELSE sources[u]]
          /\ reissued' = reissued \cup (new \X {"content"})
          /\ UNCHANGED <<events, call, fetch>>
  BY DEF Register, SaveAs, Change
<1>2. PICK b \in Nat : DOMAIN chunks \subseteq 0..b
  BY DEF RowsInv
<1>3. first \in Nat \ {0} /\ \A c \in DOMAIN chunks : c < first
  BY <1>2, NextRowIsNew
<1>4. Len(content) \in Nat
  BY SearchAssumption
<1>5. watermark \in Nat /\ DOMAIN artifacts \subseteq 1..watermark
  BY DEF RowsInv
<1>6. /\ same = {} => id = watermark + 1
      /\ same # {} => id \in DOMAIN artifacts /\ artifacts[id] = content
  BY NextArtifactIsNew DEF IdsFor, Known
<1> HIDE DEF same, first
<1>7. watermark' = IF same = {} THEN watermark + 1 ELSE watermark
  BY <1>1, <1>5, <1>6
<1>8. \A a \in DOMAIN artifacts : a \in DOMAIN artifacts' /\ artifacts'[a] = artifacts[a]
  BY <1>1, <1>5, <1>6
<1>9. /\ DOMAIN artifacts' = DOMAIN artifacts \cup {id}
      /\ artifacts'[id] = content
      /\ \A a \in DOMAIN artifacts' : a \in DOMAIN artifacts \/ (a = id /\ same = {})
  BY <1>1, <1>6
<1>10. /\ DOMAIN chunks' = DOMAIN chunks \cup new
       /\ \A c \in DOMAIN chunks \ new : chunks'[c] = chunks[c]
       /\ \A c \in new : chunks'[c].artifact = id /\ chunks'[c].ordinal = c - first + 1
  BY <1>1
<1>11. \A c \in new : c \in Nat /\ c - first + 1 \in 1..Len(content) /\ same = {} /\ c \notin DOMAIN chunks
  BY <1>3, <1>4
<1>12. RowsInv'
  <2>1. watermark' \in Nat /\ DOMAIN artifacts' \subseteq 1..watermark'
    BY <1>5, <1>6, <1>7, <1>9
  <2>2. \A a \in DOMAIN artifacts' : artifacts'[a] \in Contents
    BY <1>8, <1>9 DEF RowsInv
  <2>3. \E d \in Nat : DOMAIN chunks' \subseteq 0..d
    <3>1. DOMAIN chunks' \subseteq 0..(b + first + Len(content))
      <4> SUFFICES ASSUME NEW c \in DOMAIN chunks' PROVE c \in 0..(b + first + Len(content))
        OBVIOUS
      <4>1. CASE c \in DOMAIN chunks
        BY <1>2, <1>3, <1>4, <4>1
      <4>2. CASE c \in new
        <5>1. c \in first..(first + Len(content) - 1)
          BY <4>2
        <5> QED
          BY <1>3, <1>4, <5>1
      <4> QED
        BY <1>10, <4>1, <4>2
    <3>2. b + first + Len(content) \in Nat
      BY <1>3, <1>4
    <3> QED
      BY <3>1, <3>2
  <2>4. ASSUME NEW c \in DOMAIN chunks'
        PROVE  /\ chunks'[c].artifact \in DOMAIN artifacts'
               /\ chunks'[c].ordinal \in 1..Len(artifacts'[chunks'[c].artifact])
    <3>1. CASE c \in new
      BY <1>9, <1>10, <1>11, <3>1
    <3>2. CASE c \notin new
      <4>1. c \in DOMAIN chunks /\ chunks'[c] = chunks[c]
        BY <1>10, <3>2
      <4> QED
        BY <1>8, <4>1 DEF RowsInv
    <3> QED
      BY <3>1, <3>2
  <2>5. \A u \in DOMAIN sources' : sources'[u] \in DOMAIN artifacts'
    BY <1>1, <1>9 DEF RowsInv
  <2> QED
    BY <1>1, <2>1, <2>2, <2>3, <2>4, <2>5 DEF RowsInv
<1>13. RowsChange
  <2>1. \A a \in DOMAIN artifacts' :
            (a \in DOMAIN artifacts /\ artifacts'[a] = artifacts[a]) \/ a > watermark
    BY <1>5, <1>6, <1>8, <1>9
  <2>2. \A c \in DOMAIN chunks' :
            \/ c \in DOMAIN chunks /\ chunks'[c] = chunks[c]
            \/ <<c, "content">> \in reissued' /\ chunks'[c].artifact > watermark
    <3>1. \A c \in new : <<c, "content">> \in reissued'
      BY <1>1
    <3>2. \A c \in new : chunks'[c].artifact > watermark
      BY <1>5, <1>6, <1>10, <1>11
    <3> QED
      BY <1>10, <3>1, <3>2
  <2>3. watermark <= watermark'
    BY <1>5, <1>7
  <2> QED
    BY <1>1, <2>1, <2>2, <2>3 DEF RowsChange
<1> QED
  BY <1>12, <1>13

(* Both purges: what is left of the artifacts keeps its content, what is   *)
(* left of the chunks its artifact.                                        *)
LEMMA LessChanges ==
    ASSUME RowsInv, NEW left, left \subseteq DOMAIN artifacts,
           artifacts' = Restrict(artifacts, left), KeepChunksOf(left), UNCHANGED watermark,
           \A u \in DOMAIN sources' : sources'[u] \in left, UNCHANGED <<call, fetch>>
    PROVE  RowsInv' /\ RowsChange
<1> DEFINE kept == {c \in DOMAIN chunks : chunks[c].artifact \in left}
<1>1. /\ artifacts' = [a \in left |-> artifacts[a]]
      /\ chunks' = [c \in kept |-> chunks[c]]
      /\ UNCHANGED <<watermark, events, reissued, call, fetch>>
  BY DEF KeepChunksOf, Restrict
<1>2. /\ DOMAIN artifacts' = left /\ \A a \in left : artifacts'[a] = artifacts[a]
      /\ DOMAIN chunks' = kept /\ kept \subseteq DOMAIN chunks /\ \A c \in kept : chunks'[c] = chunks[c]
      /\ \A c \in kept : chunks[c].artifact \in left
  BY <1>1
<1> HIDE DEF kept
<1>3. watermark \in Nat
  BY DEF RowsInv
<1>4. RowsInv'
  <2>1. \E b \in Nat : DOMAIN chunks' \subseteq 0..b
    BY <1>2 DEF RowsInv
  <2>2. \A c \in DOMAIN chunks' :
            /\ chunks'[c].artifact \in DOMAIN artifacts'
            /\ chunks'[c].ordinal \in 1..Len(artifacts'[chunks'[c].artifact])
    BY <1>2 DEF RowsInv
  <2> QED
    BY <1>1, <1>2, <2>1, <2>2 DEF RowsInv
<1>5. RowsChange
  BY <1>1, <1>2, <1>3 DEF RowsChange
<1> QED
  BY <1>4, <1>5

LEMMA PurgeChanges ==
    ASSUME RowsInv, NEW S, PurgeOlderThan(S) \/ PurgeHookRows(S)
    PROVE  RowsInv' /\ RowsChange
<1>1. CASE PurgeOlderThan(S)
  <2> DEFINE left == {sources[u] : u \in DOMAIN sources \ S}
  <2>1. sources' = [u \in DOMAIN sources \ S |-> sources[u]]
    BY <1>1 DEF PurgeOlderThan, PurgeSources, Restrict
  <2>2. Range(sources') = left
    BY <2>1 DEF Range
  <2>3. left \subseteq DOMAIN artifacts /\ \A u \in DOMAIN sources' : sources'[u] \in left
    BY <2>1 DEF RowsInv
  <2>4. artifacts' = Restrict(artifacts, left) /\ UNCHANGED <<watermark, call, fetch>>
    BY <1>1, <2>2 DEF PurgeOlderThan, PurgeSources, Change
  <2>5. DOMAIN artifacts' = left
    BY <2>4 DEF Restrict
  <2>6. KeepChunksOf(left)
    BY <1>1, <2>5 DEF PurgeOlderThan
  <2> HIDE DEF left
  <2> QED
    BY <2>3, <2>4, <2>6, LessChanges
<1>2. CASE PurgeHookRows(S)
  <2> DEFINE left == DOMAIN artifacts \ S
  <2>1. sources' = [u \in {x \in DOMAIN sources : sources[x] \notin S} |-> sources[u]]
    BY <1>2 DEF PurgeHookRows, PurgeArtifacts, Restrict
  <2>2. \A u \in DOMAIN sources' : sources'[u] \in left
    BY <2>1 DEF RowsInv
  <2>3. artifacts' = Restrict(artifacts, left) /\ UNCHANGED <<watermark, call, fetch>>
    BY <1>2 DEF PurgeHookRows, PurgeArtifacts, Change
  <2>4. DOMAIN artifacts' = left /\ left \subseteq DOMAIN artifacts
    BY <2>3 DEF Restrict
  <2>5. KeepChunksOf(left)
    BY <1>2, <2>4 DEF PurgeHookRows
  <2> HIDE DEF left
  <2> QED
    BY <2>2, <2>3, <2>4, <2>5, LessChanges
<1> QED
  BY <1>1, <1>2

LEMMA EventsChange ==
    ASSUME RowsInv,
           (\E t \in EventTexts : AppendEvent(t)) \/ (\E i \in DOMAIN events : SweepEvent(i))
    PROVE  RowsInv' /\ RowsChange
<1>1. watermark \in Nat
  BY DEF RowsInv
<1>2. PICK b \in Nat : DOMAIN events \subseteq 0..b
  BY DEF RowsInv
<1>3. ASSUME NEW t \in EventTexts, AppendEvent(t) PROVE RowsInv' /\ RowsChange
  <2>1. PICK id : id = NextRow(events)
    OBVIOUS
  <2>2. id \in Nat
    BY <1>2, <2>1, NextRowIsNew
  <2>3. /\ events' = [i \in DOMAIN events \cup {id} |-> IF i = id THEN t ELSE events[i]]
        /\ reissued' = reissued \cup {<<id, "events">>}
        /\ UNCHANGED <<artifacts, watermark, chunks, sources, call, fetch>>
    BY <1>3, <2>1 DEF AppendEvent, Change, contentRows
  <2>4. DOMAIN events' \subseteq 0..(b + id) /\ b + id \in Nat
    BY <1>2, <2>2, <2>3
  <2>5. \A i \in DOMAIN events' : events'[i] \in EventTexts
    BY <2>3 DEF RowsInv
  <2>6. RowsInv'
    BY <2>3, <2>4, <2>5 DEF RowsInv
  <2> QED
    BY <1>1, <2>3, <2>6 DEF RowsChange
<1>4. ASSUME NEW i \in DOMAIN events, SweepEvent(i) PROVE RowsInv' /\ RowsChange
  <2>1. /\ events' = [x \in DOMAIN events \ {i} |-> events[x]]
        /\ UNCHANGED <<artifacts, watermark, chunks, sources, call, fetch, reissued>>
    BY <1>4 DEF SweepEvent, Change, Restrict, contentRows
  <2>2. RowsInv'
    BY <1>2, <2>1 DEF RowsInv
  <2> QED
    BY <1>1, <2>1, <2>2 DEF RowsChange
<1> QED
  BY <1>3, <1>4

-----------------------------------------------------------------------------
(* The tokens of a query. *)

RowsOf(table)    == IF table = "events" THEN DOMAIN events ELSE DOMAIN chunks
TextAt(table, r) == IF table = "events" THEN events[r] ELSE TextOf(chunks[r])

(* The row, if it is there and was not given out again, holds the tokens.  *)
Holds(r, table, tokens, index) ==
    <<r, table>> \in reissued \/ (r \in RowsOf(table) => tokens \subseteq index[TextAt(table, r)])

HitHolds(h, table, q) ==
    \/ q \subseteq Stems[h.text] \/ q \subseteq Literal[h.text]
    \/ <<h.row, table>> \in reissued

(* As long as a row is there and not given out again, it keeps its text.   *)
LEMMA TextStays ==
    ASSUME RowsInv, RowsInv', RowsChange, NEW table \in {"content", "events"}, NEW r, r \in RowsOf(table)'
    PROVE  \/ <<r, table>> \in reissued'
           \/ r \in RowsOf(table) /\ TextAt(table, r)' = TextAt(table, r)
<1>1. CASE table = "events"
  BY <1>1 DEF RowsOf, TextAt, RowsChange
<1>2. CASE table = "content" /\ <<r, table>> \notin reissued'
  <2>1. r \in DOMAIN chunks /\ chunks'[r] = chunks[r] /\ r \in DOMAIN chunks'
    BY <1>2 DEF RowsOf, RowsChange
  <2>2. PICK a : a = chunks[r].artifact
    OBVIOUS
  <2>3. /\ a \in DOMAIN artifacts /\ ~(a > watermark)
        /\ a \in DOMAIN artifacts'
    BY <2>1, <2>2 DEF RowsInv
  <2>4. artifacts'[a] = artifacts[a]
    BY <2>3 DEF RowsChange
  <2> QED
    BY <1>2, <2>1, <2>2, <2>4 DEF RowsOf, TextAt, TextOf
<1> QED
  BY <1>1, <1>2

LEMMA HoldsStays ==
    ASSUME RowsInv, RowsInv', RowsChange, NEW table \in {"content", "events"}, NEW r, NEW tokens, NEW index,
           Holds(r, table, tokens, index)
    PROVE  Holds(r, table, tokens, index)'
BY TextStays DEF Holds, RowsChange

-----------------------------------------------------------------------------
(* The call, and what each step makes of it. *)

CallFields == {"pc", "table", "i", "queries", "scope", "limit", "budget", "avail", "porter", "trigram",
               "top", "hits", "results"}
Running    == {"porter", "trigram", "filter", "load", "done"}

Hit    == [row: Nat, text: Texts, artifact: Nat]
Result == [table: {"content", "events"}, i: Nat, found: Seq(Hit), hits: Seq(Hit), truncated: BOOLEAN]

CallTyped ==
    /\ call.pc \in {"idle", "failed"} \cup Running
    /\ call.pc \in Running =>
         /\ call = [x \in CallFields |-> call[x]]
         /\ call.table \in {"content", "events"} /\ call.scope \in {"content", "events", "all"}
         /\ Len(call.queries) \in 1..8 /\ call.i \in 1..Len(call.queries)
         /\ call.budget \in Nat /\ call.avail \in Nat
         /\ call.hits \in Seq(Hit) /\ call.results \in Seq(Result)

OnlyIn(fields) ==
    /\ call' = [x \in CallFields |-> call'[x]]
    /\ \A x \in CallFields \ fields : call'[x] = call[x]
    /\ UNCHANGED <<rows, fetch, reissued>>

LEMMA StartIs ==
    ASSUME NEW c \in Calls, SearchStart(c)
    PROVE  /\ call' = [x \in CallFields |-> call'[x]] /\ UNCHANGED <<rows, fetch>> /\ fetch.pc = "idle"
           /\ call'.pc = "porter" /\ call'.i = 1 /\ call'.queries = c.queries
           /\ call'.table = IF c.scope = "events" THEN "events" ELSE "content"
           /\ call'.scope = c.scope /\ call'.budget = c.budget /\ call'.avail = c.budget
           /\ call'.hits = <<>> /\ call'.results = <<>>
BY DEF SearchStart, CallFields

LEMMA PorterIs ==
    ASSUME CallTyped, RankPorter
    PROVE  /\ OnlyIn({"pc", "porter"}) /\ call.pc = "porter" /\ call'.pc = "trigram"
           /\ \A r \in DOMAIN call'.porter :
                 r \in DOMAIN Seen(call.table) /\ PorterMatch(Seen(call.table)[r], Query)
<1> DEFINE found == {r \in DOMAIN Seen(call.table) : PorterMatch(Seen(call.table)[r], Query)}
<1>1. PICK rank \in Rankings(found) :
          Step([call EXCEPT !.pc = "trigram", !.porter = Take(rank, 4 * call.limit)])
  BY DEF RankPorter
<1>2. DOMAIN rank = found
  BY <1>1 DEF Rankings
<1>3. call.pc = "porter" /\ call = [x \in CallFields |-> call[x]]
  BY DEF RankPorter, CallTyped, Running
<1>4. PICK new : new = Take(rank, 4 * call.limit)
  OBVIOUS
<1>5. DOMAIN new \subseteq found
  BY <1>2, <1>4 DEF Take, Restrict
<1>6. call' = [call EXCEPT !.pc = "trigram", !.porter = new] /\ UNCHANGED <<rows, fetch, reissued>>
  BY <1>1, <1>4 DEF Step
<1> HIDE DEF found
<1>7. OnlyIn({"pc", "porter"}) /\ call'.pc = "trigram" /\ call'.porter = new
  BY <1>3, <1>6 DEF OnlyIn, CallFields
<1> QED
  BY <1>3, <1>5, <1>7 DEF found

LEMMA TrigramIs ==
    ASSUME CallTyped, RankTrigram
    PROVE  /\ OnlyIn({"pc", "trigram"}) /\ call.pc = "trigram" /\ call'.pc = "filter"
           /\ \A r \in DOMAIN call'.trigram :
                 r \in DOMAIN Seen(call.table) /\ TrigramMatch(Seen(call.table)[r], Query)
<1> DEFINE found == {r \in DOMAIN Seen(call.table) : TrigramMatch(Seen(call.table)[r], Query)}
<1>1. PICK rank \in Rankings(found) :
          Step([call EXCEPT !.pc = "filter", !.trigram = Take(rank, 4 * call.limit)])
  BY DEF RankTrigram
<1>2. DOMAIN rank = found
  BY <1>1 DEF Rankings
<1>3. call.pc = "trigram" /\ call = [x \in CallFields |-> call[x]]
  BY DEF RankTrigram, CallTyped, Running
<1>4. PICK new : new = Take(rank, 4 * call.limit)
  OBVIOUS
<1>5. DOMAIN new \subseteq found
  BY <1>2, <1>4 DEF Take, Restrict
<1>6. call' = [call EXCEPT !.pc = "filter", !.trigram = new] /\ UNCHANGED <<rows, fetch, reissued>>
  BY <1>1, <1>4 DEF Step
<1> HIDE DEF found
<1>7. OnlyIn({"pc", "trigram"}) /\ call'.pc = "filter" /\ call'.trigram = new
  BY <1>3, <1>6 DEF OnlyIn, CallFields
<1> QED
  BY <1>3, <1>5, <1>7 DEF found

LEMMA FilterIs ==
    ASSUME CallTyped, FilterAndMerge
    PROVE  /\ OnlyIn({"pc", "trigram", "top", "hits"}) /\ call.pc = "filter" /\ call'.pc = "load"
           /\ call'.hits = <<>>
           /\ call'.top \subseteq DOMAIN call.porter \cup DOMAIN filterShortTokenCandidates(call.trigram)
<1>1. PICK t : t = filterShortTokenCandidates(call.trigram)
  OBVIOUS
<1>2. PICK best : best = topN(call.porter, t, call.limit)
  OBVIOUS
<1>3. best \subseteq DOMAIN call.porter \cup DOMAIN t
  BY <1>2 DEF topN
<1>4. call.pc = "filter" /\ call = [x \in CallFields |-> call[x]]
  BY DEF FilterAndMerge, CallTyped, Running
<1>5. /\ call' = [call EXCEPT !.pc = "load", !.trigram = t, !.top = best, !.hits = <<>>]
      /\ UNCHANGED <<rows, fetch, reissued>>
  BY <1>1, <1>2 DEF FilterAndMerge, Step
<1>6. OnlyIn({"pc", "trigram", "top", "hits"}) /\ call'.pc = "load" /\ call'.hits = <<>> /\ call'.top = best
  BY <1>4, <1>5 DEF OnlyIn, CallFields
<1> QED
  BY <1>1, <1>3, <1>4, <1>6

LEMMA LoadIs ==
    ASSUME CallTyped, LoadHit
    PROVE  /\ OnlyIn({"top", "hits"}) /\ call.pc = "load"
           /\ \E r \in call.top :
                 /\ call'.top \subseteq call.top
                 /\ call'.hits = IF r \in DOMAIN Seen(call.table)
                                 THEN Append(call.hits,
                                        [row |-> r, text |-> Seen(call.table)[r],
                                         artifact |-> IF call.table = "content" THEN chunks[r].artifact ELSE 0])
                                 ELSE call.hits
<1>1. call.pc = "load" /\ call = [x \in CallFields |-> call[x]]
  BY DEF LoadHit, CallTyped, Running
<1>2. PICK r \in call.top :
          Step([call EXCEPT !.top = @ \ {r},
                            !.hits = IF r \in DOMAIN Seen(call.table)
                                     THEN Append(@, [row |-> r, text |-> Seen(call.table)[r],
                                            artifact |-> IF call.table = "content" THEN chunks[r].artifact ELSE 0])
                                     ELSE @])
  BY DEF LoadHit
<1>3. PICK new : new = IF r \in DOMAIN Seen(call.table)
                       THEN Append(call.hits, [row |-> r, text |-> Seen(call.table)[r],
                              artifact |-> IF call.table = "content" THEN chunks[r].artifact ELSE 0])
                       ELSE call.hits
  OBVIOUS
<1>4. call' = [call EXCEPT !.top = @ \ {r}, !.hits = new] /\ UNCHANGED <<rows, fetch, reissued>>
  BY <1>2, <1>3 DEF Step
<1>5. OnlyIn({"top", "hits"}) /\ call'.top \subseteq call.top /\ call'.hits = new
  BY <1>1, <1>4 DEF OnlyIn, CallFields
<1> QED
  BY <1>1, <1>3, <1>5

LEMMA DoneIs ==
    ASSUME CallTyped, QueryDone
    PROVE  LET kept   == applyBudget(call.hits, Share)
               result == [table |-> call.table, i |-> call.i, found |-> call.hits, hits |-> kept,
                          truncated |-> Len(kept) < Len(call.hits)]
           IN  /\ OnlyIn({"pc", "table", "i", "hits", "avail", "results"}) /\ call.pc = "load"
               /\ call'.hits = <<>> /\ call'.results = Append(call.results, result)
               /\ call'.avail = call.avail - contentBudgetUsed(kept)
               /\ \/ /\ call'.pc = "porter" /\ call'.table = call.table
                     /\ call'.i = call.i + 1 /\ call.i # Len(call.queries)
                  \/ call'.pc = "porter" /\ call'.table = "events" /\ call'.i = 1
                  \/ call'.pc = "done" /\ call'.table = call.table /\ call'.i = call.i
<1>1. call.pc = "load" /\ call = [x \in CallFields |-> call[x]]
  BY DEF QueryDone, CallTyped, Running
<1>2. PICK kept : kept = applyBudget(call.hits, Share)
  OBVIOUS
<1>3. PICK result : result = [table |-> call.table, i |-> call.i, found |-> call.hits, hits |-> kept,
                              truncated |-> Len(kept) < Len(call.hits)]
  OBVIOUS
<1>4. PICK left : left = call.avail - contentBudgetUsed(kept)
  OBVIOUS
<1>5. PICK all : all = Append(call.results, result)
  OBVIOUS
<1> DEFINE next == [call EXCEPT !.results = all, !.avail = left, !.hits = <<>>]
<1>6. /\ UNCHANGED <<rows, fetch, reissued>>
      /\ \/ call' = [next EXCEPT !.pc = "porter", !.i = @ + 1] /\ call.i # Len(call.queries)
         \/ call' = [next EXCEPT !.pc = "porter", !.i = 1, !.table = "events"]
         \/ call' = [next EXCEPT !.pc = "done"]
  BY <1>2, <1>3, <1>4, <1>5 DEF QueryDone, Step
<1>7. /\ OnlyIn({"pc", "table", "i", "hits", "avail", "results"})
      /\ call'.hits = <<>> /\ call'.results = all /\ call'.avail = left
      /\ \/ /\ call'.pc = "porter" /\ call'.table = call.table
            /\ call'.i = call.i + 1 /\ call.i # Len(call.queries)
         \/ call'.pc = "porter" /\ call'.table = "events" /\ call'.i = 1
         \/ call'.pc = "done" /\ call'.table = call.table /\ call'.i = call.i
  BY <1>1, <1>6 DEF OnlyIn, CallFields
<1> QED
  BY <1>1, <1>2, <1>3, <1>4, <1>5, <1>7

(* What a statement sees of a row is its text.                             *)
LEMMA SeenIs ==
    ASSUME RowsInv, NEW table \in {"content", "events"}, NEW r \in DOMAIN Seen(table)
    PROVE  /\ r \in RowsOf(table) /\ r \in Nat
           /\ Seen(table)[r] = TextAt(table, r) /\ Seen(table)[r] \in Texts
           /\ table = "content" => /\ r \in DOMAIN chunks /\ Seen(table)[r] = TextOf(chunks[r])
                                   /\ chunks[r].artifact \in Nat /\ chunks[r].artifact <= watermark
<1>1. CASE table = "events"
  BY <1>1, SearchAssumption DEF Seen, RowsOf, TextAt, RowsInv, Texts
<1>2. CASE table = "content"
  <2>1. r \in DOMAIN chunks /\ Seen(table)[r] = TextOf(chunks[r])
    BY <1>2 DEF Seen
  <2>2. PICK a : a = chunks[r].artifact
    OBVIOUS
  <2>3. PICK k : k = chunks[r].ordinal
    OBVIOUS
  <2>4. a \in DOMAIN artifacts /\ k \in 1..Len(artifacts[a])
    BY <2>1, <2>2, <2>3 DEF RowsInv
  <2>5. artifacts[a] \in Seq(Texts)
    BY <2>4, SearchAssumption DEF RowsInv, Texts
  <2>6. artifacts[a][k] \in Texts
    BY <2>4, <2>5
  <2>7. a \in Nat /\ a <= watermark /\ r \in Nat
    BY <2>1, <2>4 DEF RowsInv
  <2> QED
    BY <1>2, <2>1, <2>2, <2>3, <2>6, <2>7 DEF RowsOf, TextAt, TextOf
<1> QED
  BY <1>1, <1>2

LEMMA RowTextsIs ==
    ASSUME NEW r \in DOMAIN RowTexts
    PROVE  r \in RowsOf(call.table) /\ RowTexts[r] = TextAt(call.table, r)
BY DEF RowTexts, RowsOf, TextAt

-----------------------------------------------------------------------------
(* The budget. *)

LEMMA HitsHaveBytes ==
    ASSUME NEW hits \in Seq(Hit), NEW n \in 0..Len(hits)
    PROVE  BytesTo(hits, n) \in Nat
<1> DEFINE f == [k \in DOMAIN hits |-> Size[hits[k].text]]
<1>1. \A k \in 1..n : f[k] \in Nat
  <2>1. TAKE k \in 1..n
  <2>2. k \in 1..Len(hits) /\ k \in DOMAIN hits /\ hits[k] \in Hit
    OBVIOUS
  <2>3. hits[k].text \in DOMAIN Size
    BY <2>2 DEF Hit, Texts
  <2> QED
    BY <2>2, <2>3, SearchAssumption
<1> HIDE DEF f
<1>2. Total(f, n) \in Nat
  BY <1>1, TotalIsNat
<1> QED
  BY <1>2 DEF BytesTo, f

LEMMA OneHitMore ==
    ASSUME NEW hits \in Seq(Hit), NEW n \in 0..(Len(hits) - 1)
    PROVE  BytesTo(hits, n + 1) = BytesTo(hits, n) + Size[hits[n + 1].text]
<1> DEFINE f == [k \in DOMAIN hits |-> Size[hits[k].text]]
<1>1. f[n + 1] = Size[hits[n + 1].text]
  OBVIOUS
<1> HIDE DEF f
<1>2. Total(f, n + 1) = Total(f, n) + f[n + 1]
  BY TotalOfOneMore
<1> QED
  BY <1>1, <1>2 DEF BytesTo, f

(* What applyBudget keeps: the hits from the front that fit, and not one   *)
(* that could be added.                                                    *)
LEMMA KeptFit ==
    ASSUME NEW hits \in Seq(Hit), NEW share \in Nat
    PROVE  \E m \in 0..Len(hits) :
              /\ applyBudget(hits, share) = SubSeq(hits, 1, m)
              /\ contentBudgetUsed(SubSeq(hits, 1, m)) = BytesTo(hits, m)
              /\ BytesTo(hits, m) <= share
              /\ m < Len(hits) => BytesTo(hits, m) + Size[hits[m + 1].text] > share
<1> DEFINE fit == {k \in 0..Len(hits) : BytesTo(hits, k) <= share}
           K   == {k \in fit : \A j \in 0..k : j \in fit}
<1>1. Len(hits) \in Nat
  OBVIOUS
<1>2. 0 \in K
  <2>1. BytesTo(hits, 0) = 0
    BY TotalOfNone DEF BytesTo
  <2>2. 0 \in fit /\ \A j \in 0..0 : j = 0
    BY <1>1, <2>1
  <2> QED
    BY <2>2
<1>3. K \subseteq 0..Len(hits)
  OBVIOUS
<1>4. PICK m : m = Max(K)
  OBVIOUS
<1>5. applyBudget(hits, share) = SubSeq(hits, 1, m)
  BY <1>4 DEF applyBudget
<1>6. m \in K /\ \A k \in K : m >= k
  <2> HIDE DEF K
  <2> QED
    BY <1>1, <1>2, <1>3, <1>4, MaxOfBounded
<1>7. m \in 0..Len(hits) /\ BytesTo(hits, m) <= share /\ \A j \in 0..m : j \in fit
  BY <1>6
<1>8. ASSUME m < Len(hits) PROVE BytesTo(hits, m) + Size[hits[m + 1].text] > share
  <2>1. m + 1 \in 0..Len(hits) /\ m \in 0..(Len(hits) - 1) /\ ~(m >= m + 1)
    BY <1>1, <1>7, <1>8
  <2>2. m + 1 \notin K
    BY <1>6, <2>1
  <2>3. m + 1 \notin fit
    <3> SUFFICES ASSUME m + 1 \in fit PROVE FALSE
      OBVIOUS
    <3>1. \A j \in 0..(m + 1) : j \in 0..m \/ j = m + 1
      BY <1>7
    <3>2. \A j \in 0..(m + 1) : j \in fit
      BY <1>7, <3>1
    <3> QED
      BY <2>2, <3>2
  <2>4. BytesTo(hits, m + 1) > share
    BY <2>1, <2>3, HitsHaveBytes
  <2> QED
    BY <2>1, <2>4, OneHitMore
<1>9. contentBudgetUsed(SubSeq(hits, 1, m)) = BytesTo(hits, m)
  <2> DEFINE part == SubSeq(hits, 1, m)
             f == [k \in DOMAIN hits |-> Size[hits[k].text]]
             g == [k \in DOMAIN part |-> Size[part[k].text]]
  <2>1. part \in Seq(Hit) /\ Len(part) = m /\ \A k \in 1..m : part[k] = hits[k]
    BY <1>7
  <2>2. \A k \in 1..m : g[k] = f[k]
    BY <1>7, <2>1
  <2> HIDE DEF f, g
  <2>3. Total(g, m) = Total(f, m)
    BY <1>7, <2>2, TotalOfSame
  <2> HIDE DEF part
  <2>4. contentBudgetUsed(part) = Total(g, m)
    BY <2>1 DEF contentBudgetUsed, BytesTo, g
  <2>5. BytesTo(hits, m) = Total(f, m)
    BY DEF BytesTo, f
  <2> QED
    BY <2>3, <2>4, <2>5 DEF part
<1> QED
  BY <1>5, <1>7, <1>8, <1>9

-----------------------------------------------------------------------------
(* The inductive invariant. *)

(* What the ranked rows of the query in progress hold.                     *)
RankedHold ==
    /\ call.pc \in {"trigram", "filter"} =>
          \A r \in DOMAIN call.porter : Holds(r, call.table, Query, Stems)
    /\ call.pc = "filter" =>
          \A r \in DOMAIN call.trigram : Holds(r, call.table, Query \ ShortTokens, Literal)
    /\ call.pc = "load" =>
          \A r \in call.top : Holds(r, call.table, Query, Stems) \/ Holds(r, call.table, Query, Literal)

(* What its hits hold, and those of the queries before.                    *)
FoundHold ==
    call.pc = "load" => \A k \in 1..Len(call.hits) : HitHolds(call.hits[k], call.table, Query)

ResultsHold ==
    call.pc \in Running =>
        \A k \in 1..Len(call.results) : \A j \in 1..Len(call.results[k].hits) :
            HitHolds(call.results[k].hits[j], call.results[k].table, call.queries[call.results[k].i])

(* The ids of a hit name its text or nothing: its artifact was issued, and *)
(* a chunk with both ids has this text.                                    *)
Names(h) ==
    /\ h.artifact <= watermark
    /\ h.row \in DOMAIN chunks /\ chunks[h.row].artifact = h.artifact => TextOf(chunks[h.row]) = h.text

FoundName ==
    call.pc = "load" /\ call.table = "content" => \A k \in 1..Len(call.hits) : Names(call.hits[k])

ResultsName ==
    call.pc \in Running =>
        \A k \in 1..Len(call.results) :
            call.results[k].table = "content" =>
                \A j \in 1..Len(call.results[k].hits) : Names(call.results[k].hits[j])

(* A fetch between its two reads has the content of the hit's artifact, as *)
(* long as that is there.                                                  *)
FetchInv ==
    /\ fetch.pc \in {"idle", "chunk", "done"}
    /\ fetch.pc = "chunk" =>
          /\ fetch.hit.artifact \in Nat /\ Names(fetch.hit)
          /\ fetch.hit.artifact \in DOMAIN artifacts => fetch.content = artifacts[fetch.hit.artifact]
    /\ FetchReturnsTheHit

(* What the results before k have used, whether a cut was fair, and how    *)
(* much is left for the queries to come.                                   *)
Used(results, k) == Total([j \in DOMAIN results |-> contentBudgetUsed(results[j].hits)], k)

Fair(results, k, n, budget) ==
    LET res  == results[k]
        next == Size[res.found[Len(res.hits) + 1].text]
    IN  /\ res.truncated /\ res.table = "content" =>
              /\ contentBudgetUsed(res.hits) + next > budget \div n
              /\ res.i = n => Used(results, k) + next > budget
        /\ ~res.truncated => res.hits = res.found

BudgetInv ==
    call.pc \in Running =>
      LET n == Len(call.queries) IN
      /\ call.avail = call.budget - Used(call.results, Len(call.results))
      /\ call.pc # "done" /\ call.table = "content" =>
            /\ Len(call.results) = call.i - 1
            /\ call.avail >= (n - call.i + 1) * (call.budget \div n)
      /\ \A k \in 1..Len(call.results) : Fair(call.results, k, n, call.budget)

CallInv ==
    CallTyped /\ RankedHold /\ FoundHold /\ ResultsHold /\ FoundName /\ ResultsName /\ BudgetInv

-----------------------------------------------------------------------------
(* Nobody else disturbs the search.                                        *)

LEMMA NamesStays ==
    ASSUME RowsInv, RowsInv', RowsChange, NEW h, h.artifact \in Nat, Names(h)
    PROVE  Names(h)'
<1>1. h.artifact <= watermark'
  BY DEF RowsInv, RowsChange, Names
<1>2. ASSUME h.row \in DOMAIN chunks', chunks'[h.row].artifact = h.artifact
      PROVE  TextOf(chunks[h.row])' = h.text
  <2>1. PICK a : a = h.artifact
    OBVIOUS
  <2>2. a \in DOMAIN artifacts' /\ ~(a > watermark)
    BY <1>2, <2>1 DEF RowsInv, Names
  <2>3. h.row \in DOMAIN chunks /\ chunks'[h.row] = chunks[h.row] /\ artifacts'[a] = artifacts[a]
    BY <1>2, <2>1, <2>2 DEF RowsChange
  <2>4. TextOf(chunks[h.row]) = h.text
    BY <1>2, <2>3 DEF Names
  <2> QED
    BY <1>2, <2>1, <2>3, <2>4 DEF TextOf
<1> QED
  BY <1>1, <1>2 DEF Names

LEMMA OthersKeepSearch ==
    ASSUME RowsInv, RowsInv', RowsChange, CallInv, FetchInv
    PROVE  CallInv' /\ FetchInv'
<1> USE DEF CallInv
<1>1. call' = call /\ fetch' = fetch
  BY DEF RowsChange
<1>2. CallTyped'
  BY <1>1 DEF CallTyped
<1>3. BudgetInv'
  BY <1>1 DEF BudgetInv, Used, Fair, contentBudgetUsed, BytesTo
<1>4. Query' = Query
  BY <1>1 DEF Query
<1>5. RankedHold'
  <2>1. CASE call.pc \in Running
    <3>1. PICK table \in {"content", "events"} : table = call.table
      BY <2>1 DEF CallTyped
    <3>2. PICK q : q = Query
      OBVIOUS
    <3>3. \A r, tokens, index : Holds(r, table, tokens, index) => Holds(r, table, tokens, index)'
      BY HoldsStays
    <3> QED
      BY <1>1, <1>4, <3>1, <3>2, <3>3 DEF RankedHold
  <2>2. CASE call.pc \notin Running
    BY <1>1, <2>2 DEF RankedHold, Running
  <2> QED
    BY <2>1, <2>2
<1>6. FoundHold' /\ ResultsHold'
  <2>1. \A h, table, q : HitHolds(h, table, q) => HitHolds(h, table, q)'
    BY DEF HitHolds, RowsChange
  <2> QED
    BY <1>1, <1>4, <2>1 DEF FoundHold, ResultsHold
<1>7. FoundName' /\ ResultsName'
  <2>1. \A h \in Hit : Names(h) => Names(h)'
    BY NamesStays DEF Hit
  <2>2. call.pc = "load" => \A k \in 1..Len(call.hits) : call.hits[k] \in Hit
    BY DEF CallTyped, Running
  <2>3. ASSUME call.pc \in Running, NEW k \in 1..Len(call.results), NEW j \in 1..Len(call.results[k].hits)
        PROVE  call.results[k].hits[j] \in Hit
    <3>1. call.results[k] \in Result
      BY <2>3 DEF CallTyped
    <3> QED
      BY <2>3, <3>1 DEF Result
  <2> QED
    BY <1>1, <2>1, <2>2, <2>3 DEF FoundName, ResultsName
<1>8. FetchInv'
  <2>1. FetchReturnsTheHit'
    BY <1>1 DEF FetchInv, FetchReturnsTheHit
  <2>2. ASSUME fetch.pc = "chunk"
        PROVE  /\ Names(fetch.hit)'
               /\ fetch.hit.artifact \in DOMAIN artifacts' => fetch.content = artifacts'[fetch.hit.artifact]
    <3>1. PICK h : h = fetch.hit
      OBVIOUS
    <3>2. h.artifact \in Nat /\ Names(h) /\ (h.artifact \in DOMAIN artifacts => fetch.content = artifacts[h.artifact])
      BY <2>2, <3>1 DEF FetchInv
    <3>3. Names(h)'
      BY <3>2, NamesStays
    <3>4. fetch'.hit = h
      BY <1>1, <3>1
    <3>5. ~(h.artifact > watermark)
      BY <3>2 DEF Names, RowsInv
    <3> QED
      BY <1>1, <3>1, <3>2, <3>3, <3>4, <3>5 DEF RowsChange, Names
  <2> QED
    BY <1>1, <2>1, <2>2 DEF FetchInv
<1> QED
  BY <1>2, <1>3, <1>5, <1>6, <1>7, <1>8

-----------------------------------------------------------------------------
(* The steps of the search itself. *)

LEMMA RowsUntouched ==
    ASSUME UNCHANGED rows
    PROVE  /\ RowsInv => RowsInv'
           /\ UNCHANGED fetch /\ FetchInv => FetchInv'
           /\ \A h : Names(h) => Names(h)'
           /\ \A table : Seen(table)' = Seen(table)
           /\ UNCHANGED reissued =>
                 /\ \A r, table, tokens, index :
                       Holds(r, table, tokens, index) => Holds(r, table, tokens, index)'
                 /\ \A h, table, q : HitHolds(h, table, q) => HitHolds(h, table, q)'
<1>1. UNCHANGED <<artifacts, watermark, chunks, sources, events>>
  BY DEF rows, contentRows
<1>2. \A h : Names(h) => Names(h)'
  BY <1>1 DEF Names, TextOf
<1>3. \A table : Seen(table)' = Seen(table)
  BY <1>1 DEF Seen, HasSource, TextOf
<1>4. UNCHANGED fetch /\ FetchInv => FetchInv'
  BY <1>1, <1>2 DEF FetchInv, FetchReturnsTheHit
<1>5. ASSUME UNCHANGED reissued, NEW r, NEW table, NEW tokens, NEW index, Holds(r, table, tokens, index)
      PROVE  Holds(r, table, tokens, index)'
  BY <1>1, <1>5 DEF Holds, RowsOf, TextAt, TextOf
<1>6. UNCHANGED reissued => \A h, table, q : HitHolds(h, table, q) => HitHolds(h, table, q)'
  BY DEF HitHolds
<1>7. RowsInv => RowsInv'
  BY <1>1 DEF RowsInv
<1> QED
  BY <1>2, <1>3, <1>4, <1>5, <1>6, <1>7

(* A step that leaves results and budget alone.                            *)
LEMMA ResultsUntouched ==
    ASSUME CallInv, call.pc \in Running, call'.pc \in Running,
           NEW fields, OnlyIn(fields), fields \subseteq {"pc", "porter", "trigram", "top", "hits"},
           call'.pc # "done", call.pc # "done", call'.hits \in Seq(Hit)
    PROVE  CallTyped' /\ BudgetInv' /\ ResultsHold' /\ ResultsName'
<1>1. /\ call'.table = call.table /\ call'.i = call.i /\ call'.queries = call.queries
      /\ call'.scope = call.scope /\ call'.budget = call.budget /\ call'.avail = call.avail
      /\ call'.results = call.results /\ call' = [x \in CallFields |-> call'[x]]
  BY DEF OnlyIn, CallFields
<1>2. CallTyped'
  BY <1>1 DEF CallInv, CallTyped
<1>3. BudgetInv'
  BY <1>1 DEF CallInv, BudgetInv
<1>4. UNCHANGED <<rows, reissued>>
  BY DEF OnlyIn
<1>5. PICK results : results = call.results
  OBVIOUS
<1>6. PICK queries : queries = call.queries
  OBVIOUS
<1>7. \A k \in 1..Len(results) :
          /\ \A j \in 1..Len(results[k].hits) :
                HitHolds(results[k].hits[j], results[k].table, queries[results[k].i])
          /\ results[k].table = "content" => \A j \in 1..Len(results[k].hits) : Names(results[k].hits[j])
  BY <1>5, <1>6 DEF CallInv, ResultsHold, ResultsName
<1>8. \A k \in 1..Len(results) :
          /\ \A j \in 1..Len(results[k].hits) :
                HitHolds(results[k].hits[j], results[k].table, queries[results[k].i])'
          /\ results[k].table = "content" => \A j \in 1..Len(results[k].hits) : Names(results[k].hits[j])'
  BY <1>4, <1>7, RowsUntouched
<1>9. call'.results = results /\ call'.queries = queries
  BY <1>1, <1>5, <1>6
<1> QED
  BY <1>2, <1>3, <1>8, <1>9 DEF ResultsHold, ResultsName

LEMMA PorterKeeps ==
    ASSUME RowsInv, CallInv, RankPorter
    PROVE  CallInv'
<1>1. /\ OnlyIn({"pc", "porter"}) /\ call.pc = "porter" /\ call'.pc = "trigram"
      /\ \A r \in DOMAIN call'.porter :
            r \in DOMAIN Seen(call.table) /\ PorterMatch(Seen(call.table)[r], Query)
  BY PorterIs DEF CallInv
<1>2. /\ call'.table = call.table /\ call'.hits = call.hits /\ Query' = Query
      /\ UNCHANGED <<rows, reissued>>
  BY <1>1 DEF OnlyIn, CallFields, Query
<1>3. call.table \in {"content", "events"} /\ call.hits \in Seq(Hit)
  BY <1>1 DEF CallInv, CallTyped, Running
<1>4. \A r \in DOMAIN call'.porter : Holds(r, call.table, Query, Stems)
  BY <1>1, <1>3, SeenIs DEF Holds, PorterMatch
<1>5. RankedHold'
  <2>1. PICK q : q = Query
    OBVIOUS
  <2>2. PICK table : table = call.table
    OBVIOUS
  <2>3. \A r \in DOMAIN call'.porter : Holds(r, table, q, Stems)'
    BY <1>2, <1>4, <2>1, <2>2, RowsUntouched
  <2> QED
    BY <1>1, <1>2, <2>1, <2>2, <2>3 DEF RankedHold
<1>6. call.pc \in Running /\ call'.pc \in Running
  BY <1>1 DEF Running
<1> QED
  BY <1>1, <1>2, <1>3, <1>5, <1>6, ResultsUntouched DEF CallInv, FoundHold, FoundName

LEMMA TrigramKeeps ==
    ASSUME RowsInv, CallInv, RankTrigram
    PROVE  CallInv'
<1>1. /\ OnlyIn({"pc", "trigram"}) /\ call.pc = "trigram" /\ call'.pc = "filter"
      /\ \A r \in DOMAIN call'.trigram :
            r \in DOMAIN Seen(call.table) /\ TrigramMatch(Seen(call.table)[r], Query)
  BY TrigramIs DEF CallInv
<1>2. /\ call'.table = call.table /\ call'.hits = call.hits /\ call'.porter = call.porter
      /\ Query' = Query /\ UNCHANGED <<rows, reissued>>
  BY <1>1 DEF OnlyIn, CallFields, Query
<1>3. call.table \in {"content", "events"} /\ call.hits \in Seq(Hit)
  BY <1>1 DEF CallInv, CallTyped, Running
<1>4. /\ \A r \in DOMAIN call'.trigram : Holds(r, call.table, Query \ ShortTokens, Literal)
      /\ \A r \in DOMAIN call.porter : Holds(r, call.table, Query, Stems)
  BY <1>1, <1>3, SeenIs DEF Holds, TrigramMatch, CallInv, RankedHold
<1>5. RankedHold'
  <2>1. PICK q : q = Query
    OBVIOUS
  <2>2. PICK table : table = call.table
    OBVIOUS
  <2>3. /\ \A r \in DOMAIN call'.trigram : Holds(r, table, q \ ShortTokens, Literal)'
        /\ \A r \in DOMAIN call'.porter : Holds(r, table, q, Stems)'
    BY <1>2, <1>4, <2>1, <2>2, RowsUntouched
  <2> QED
    BY <1>1, <1>2, <2>1, <2>2, <2>3 DEF RankedHold
<1>6. call.pc \in Running /\ call'.pc \in Running
  BY <1>1 DEF Running
<1> QED
  BY <1>1, <1>2, <1>3, <1>5, <1>6, ResultsUntouched DEF CallInv, FoundHold, FoundName

LEMMA FilterKeeps ==
    ASSUME RowsInv, CallInv, FilterAndMerge
    PROVE  CallInv'
<1>1. /\ OnlyIn({"pc", "trigram", "top", "hits"}) /\ call.pc = "filter" /\ call'.pc = "load"
      /\ call'.hits = <<>>
      /\ call'.top \subseteq DOMAIN call.porter \cup DOMAIN filterShortTokenCandidates(call.trigram)
  BY FilterIs DEF CallInv
<1>2. /\ call'.table = call.table /\ Query' = Query /\ UNCHANGED <<rows, reissued>>
  BY <1>1 DEF OnlyIn, CallFields, Query
<1>3. call.table \in {"content", "events"}
  BY <1>1 DEF CallInv, CallTyped, Running
<1>4. ASSUME NEW r \in DOMAIN filterShortTokenCandidates(call.trigram)
      PROVE  Holds(r, call.table, Query, Literal)
  <2>1. \A x \in DOMAIN call.trigram : Holds(x, call.table, Query \ ShortTokens, Literal)
    BY <1>1 DEF CallInv, RankedHold
  <2>2. CASE Query \cap ShortTokens = {}
    BY <1>4, <2>1, <2>2 DEF filterShortTokenCandidates, Holds
  <2>3. CASE Query \cap ShortTokens # {}
    <3>1. /\ r \in DOMAIN call.trigram /\ r \in DOMAIN RowTexts
          /\ Query \cap ShortTokens \subseteq Literal[RowTexts[r]]
      BY <1>4, <2>3 DEF filterShortTokenCandidates
    <3> QED
      BY <2>1, <3>1, RowTextsIs DEF Holds
  <2> QED
    BY <2>2, <2>3
<1>5. \A r \in call'.top : Holds(r, call.table, Query, Stems) \/ Holds(r, call.table, Query, Literal)
  BY <1>1, <1>4 DEF CallInv, RankedHold
<1>6. RankedHold'
  <2>1. PICK q : q = Query
    OBVIOUS
  <2>2. PICK table : table = call.table
    OBVIOUS
  <2>3. \A r \in call'.top : Holds(r, table, q, Stems)' \/ Holds(r, table, q, Literal)'
    BY <1>2, <1>5, <2>1, <2>2, RowsUntouched
  <2> QED
    BY <1>1, <1>2, <2>1, <2>2, <2>3 DEF RankedHold
<1>7. call.pc \in Running /\ call'.pc \in Running /\ call'.hits \in Seq(Hit) /\ Len(call'.hits) = 0
  BY <1>1 DEF Running
<1> QED
  BY <1>1, <1>6, <1>7, ResultsUntouched DEF CallInv, FoundHold, FoundName

LEMMA LoadKeeps ==
    ASSUME RowsInv, CallInv, LoadHit
    PROVE  CallInv'
<1>1. OnlyIn({"top", "hits"}) /\ call.pc = "load"
  BY LoadIs DEF CallInv
<1>2. PICK r \in call.top :
         /\ call'.top \subseteq call.top
         /\ call'.hits = IF r \in DOMAIN Seen(call.table)
                         THEN Append(call.hits,
                                [row |-> r, text |-> Seen(call.table)[r],
                                 artifact |-> IF call.table = "content" THEN chunks[r].artifact ELSE 0])
                         ELSE call.hits
  BY LoadIs DEF CallInv
<1>3. /\ call'.pc = "load" /\ call'.table = call.table /\ Query' = Query /\ UNCHANGED <<rows, reissued>>
  BY <1>1 DEF OnlyIn, CallFields, Query
<1>4. call.table \in {"content", "events"} /\ call.hits \in Seq(Hit)
  BY <1>1 DEF CallInv, CallTyped, Running
<1>5. PICK table \in {"content", "events"} : table = call.table
  BY <1>4
<1>6. PICK q : q = Query
  OBVIOUS
<1>7. PICK h : h = [row |-> r, text |-> Seen(table)[r],
                    artifact |-> IF table = "content" THEN chunks[r].artifact ELSE 0]
  OBVIOUS
<1>8. ASSUME r \in DOMAIN Seen(table)
      PROVE  h \in Hit /\ HitHolds(h, table, q) /\ (table = "content" => Names(h))
  <2>1. /\ r \in RowsOf(table) /\ r \in Nat
        /\ Seen(table)[r] = TextAt(table, r) /\ Seen(table)[r] \in Texts
        /\ table = "content" => /\ r \in DOMAIN chunks /\ Seen(table)[r] = TextOf(chunks[r])
                                /\ chunks[r].artifact \in Nat /\ chunks[r].artifact <= watermark
    BY <1>8, SeenIs
  <2>2. h \in Hit
    BY <1>7, <2>1 DEF Hit
  <2>3. h.row = r /\ h.text = TextAt(table, r) /\ (table = "content" => h.artifact = chunks[r].artifact)
    BY <1>7, <2>1
  <2>4. Holds(r, table, q, Stems) \/ Holds(r, table, q, Literal)
    BY <1>1, <1>2, <1>5, <1>6 DEF CallInv, RankedHold
  <2>5. HitHolds(h, table, q)
    BY <2>1, <2>3, <2>4 DEF Holds, HitHolds
  <2>6. table = "content" => Names(h)
    BY <1>7, <2>1, <2>3 DEF Names
  <2> QED
    BY <2>2, <2>5, <2>6
<1>9. call'.hits = call.hits \/ (r \in DOMAIN Seen(table) /\ call'.hits = Append(call.hits, h))
  BY <1>2, <1>5, <1>7
<1>10. /\ call'.hits \in Seq(Hit)
       /\ \A k \in 1..Len(call'.hits) :
             (k \in 1..Len(call.hits) /\ call'.hits[k] = call.hits[k])
             \/ (call'.hits[k] = h /\ r \in DOMAIN Seen(table))
  <2>1. CASE call'.hits = call.hits
    BY <1>4, <2>1
  <2>2. CASE r \in DOMAIN Seen(table) /\ call'.hits = Append(call.hits, h)
    <3>1. h \in Hit
      BY <1>8, <2>2
    <3>2. /\ Append(call.hits, h) \in Seq(Hit) /\ Len(Append(call.hits, h)) = Len(call.hits) + 1
          /\ Append(call.hits, h)[Len(call.hits) + 1] = h
          /\ \A k \in 1..Len(call.hits) : Append(call.hits, h)[k] = call.hits[k]
      BY <1>4, <3>1, AppendProperties
    <3>3. \A k \in 1..(Len(call.hits) + 1) : k \in 1..Len(call.hits) \/ k = Len(call.hits) + 1
      BY <1>4
    <3> QED
      BY <2>2, <3>2, <3>3
  <2> QED
    BY <1>9, <2>1, <2>2
<1>11. \A k \in 1..Len(call'.hits) :
           HitHolds(call'.hits[k], table, q) /\ (table = "content" => Names(call'.hits[k]))
  BY <1>1, <1>5, <1>6, <1>8, <1>10 DEF CallInv, FoundHold, FoundName
<1>12. FoundHold' /\ FoundName'
  <2>1. PICK hits : hits = call'.hits
    OBVIOUS
  <2>2. \A k \in 1..Len(hits) :
            HitHolds(hits[k], table, q)' /\ (table = "content" => Names(hits[k])')
    BY <1>3, <1>11, <2>1, RowsUntouched
  <2> QED
    BY <1>3, <1>5, <1>6, <2>1, <2>2 DEF FoundHold, FoundName
<1>13. RankedHold'
  <2>1. \A x \in call'.top : Holds(x, table, q, Stems) \/ Holds(x, table, q, Literal)
    BY <1>1, <1>2, <1>5, <1>6 DEF CallInv, RankedHold
  <2>2. \A x \in call'.top : Holds(x, table, q, Stems)' \/ Holds(x, table, q, Literal)'
    BY <1>3, <2>1, RowsUntouched
  <2> QED
    BY <1>3, <1>5, <1>6, <2>2 DEF RankedHold
<1>14. call.pc \in Running /\ call'.pc \in Running
  BY <1>1, <1>3 DEF Running
<1> QED
  BY <1>1, <1>3, <1>10, <1>12, <1>13, <1>14, ResultsUntouched DEF CallInv

(* The arithmetic of the shares: 1 to 8 queries are still to come.         *)
LEMMA PartOf ==
    ASSUME NEW a \in Nat, NEW m \in 1..8
    PROVE  a \div m \in Nat /\ m * (a \div m) <= a /\ a \div m <= a
<1>1. m = 1 \/ m = 2 \/ m = 3 \/ m = 4 \/ m = 5 \/ m = 6 \/ m = 7 \/ m = 8
  OBVIOUS
<1> QED
  BY <1>1

LEMMA EvenParts ==
    ASSUME NEW a \in Nat, NEW m \in 1..8, NEW b \in Nat, a >= m * b
    PROVE  a \div m >= b /\ a - (a \div m) >= (m - 1) * b
<1>1. m = 1 \/ m = 2 \/ m = 3 \/ m = 4 \/ m = 5 \/ m = 6 \/ m = 7 \/ m = 8
  OBVIOUS
<1> QED
  BY <1>1

LEMMA UsedGrows ==
    ASSUME NEW results \in Seq(Result), NEW r \in Result
    PROVE  /\ \A k \in 0..Len(results) : Used(Append(results, r), k) = Used(results, k)
           /\ Used(Append(results, r), Len(results) + 1)
                = Used(results, Len(results)) + contentBudgetUsed(r.hits)
<1> DEFINE all == Append(results, r)
           f == [j \in DOMAIN results |-> contentBudgetUsed(results[j].hits)]
           g == [j \in DOMAIN all |-> contentBudgetUsed(all[j].hits)]
<1>1. /\ Len(results) \in Nat /\ DOMAIN results = 1..Len(results)
      /\ DOMAIN all = 1..(Len(results) + 1) /\ all[Len(results) + 1] = r
      /\ \A k \in 1..Len(results) : all[k] = results[k]
  OBVIOUS
<1> HIDE DEF all
<1>2. /\ \A k \in 1..Len(results) : g[k] = f[k]
      /\ g[Len(results) + 1] = contentBudgetUsed(r.hits)
  BY <1>1
<1>3. \A k \in 0..Len(results) : Used(results, k) = Total(f, k)
  BY DEF Used
<1>4. \A k \in 0..(Len(results) + 1) : Used(all, k) = Total(g, k)
  BY DEF Used
<1> HIDE DEF f, g
<1>5. \A k \in 0..Len(results) : Total(g, k) = Total(f, k)
  <2>1. TAKE k \in 0..Len(results)
  <2>2. k \in Nat /\ \A j \in 1..k : g[j] = f[j]
    BY <1>1, <1>2
  <2> QED
    BY <2>2, TotalOfSame
<1>6. Total(g, Len(results) + 1) = Total(g, Len(results)) + g[Len(results) + 1]
  BY <1>1, TotalOfOneMore
<1>7. \A k \in 0..Len(results) : Used(all, k) = Used(results, k)
  BY <1>1, <1>3, <1>4, <1>5
<1>8. Used(all, Len(results) + 1) = Used(results, Len(results)) + contentBudgetUsed(r.hits)
  BY <1>1, <1>2, <1>3, <1>4, <1>5, <1>6
<1> QED
  BY <1>7, <1>8 DEF all

LEMMA UsedIsNat ==
    ASSUME NEW results \in Seq(Result)
    PROVE  Used(results, Len(results)) \in Nat
<1> DEFINE f == [j \in DOMAIN results |-> contentBudgetUsed(results[j].hits)]
<1>1. ASSUME NEW j \in 1..Len(results) PROVE f[j] \in Nat
  <2>1. results[j] \in Result /\ j \in DOMAIN results
    OBVIOUS
  <2>2. results[j].hits \in Seq(Hit)
    BY <2>1 DEF Result
  <2>3. contentBudgetUsed(results[j].hits) \in Nat
    BY <2>2, HitsHaveBytes DEF contentBudgetUsed
  <2> QED
    BY <2>1, <2>3
<1>2. Len(results) \in Nat
  OBVIOUS
<1> HIDE DEF f
<1>3. Total(f, Len(results)) \in Nat
  BY <1>1, <1>2, TotalIsNat
<1> QED
  BY <1>3 DEF Used, f

LEMMA DoneKeeps ==
    ASSUME RowsInv, CallInv, QueryDone
    PROVE  CallInv'
<1> DEFINE n == Len(call.queries)
           part == n - call.i + 1
           b == call.budget \div n
           old == call.results
<1>1. PICK share : share = Share
  OBVIOUS
<1>2. PICK kept : kept = applyBudget(call.hits, share)
  OBVIOUS
<1>3. PICK res : res = [table |-> call.table, i |-> call.i, found |-> call.hits, hits |-> kept,
                        truncated |-> Len(kept) < Len(call.hits)]
  OBVIOUS
<1>4. /\ OnlyIn({"pc", "table", "i", "hits", "avail", "results"}) /\ call.pc = "load"
      /\ call'.hits = <<>> /\ call'.results = Append(old, res)
      /\ call'.avail = call.avail - contentBudgetUsed(kept)
      /\ \/ /\ call'.pc = "porter" /\ call'.table = call.table
            /\ call'.i = call.i + 1 /\ call.i # n
         \/ call'.pc = "porter" /\ call'.table = "events" /\ call'.i = 1
         \/ call'.pc = "done" /\ call'.table = call.table /\ call'.i = call.i
  BY <1>1, <1>2, <1>3, DoneIs DEF CallInv
<1>5. /\ call.table \in {"content", "events"} /\ n \in 1..8 /\ call.i \in 1..n
      /\ call.budget \in Nat /\ call.avail \in Nat
      /\ call.hits \in Seq(Hit) /\ old \in Seq(Result)
      /\ call.scope \in {"content", "events", "all"}
  BY <1>4 DEF CallInv, CallTyped, Running
<1>6. part \in 1..8 /\ b \in Nat
  <2>1. \A x \in 1..8 : \A i \in 1..x : x - i + 1 \in 1..8
    OBVIOUS
  <2>2. part \in 1..8
    BY <1>5, <2>1
  <2>3. b \in Nat
    BY <1>5, PartOf
  <2> QED
    BY <2>2, <2>3
<1>7. share = IF call.table = "events" THEN call.avail ELSE call.avail \div part
  BY <1>1 DEF Share
<1>8. share \in Nat /\ share <= call.avail
  BY <1>5, <1>6, <1>7, PartOf
<1>9. PICK m \in 0..Len(call.hits) :
         /\ kept = SubSeq(call.hits, 1, m)
         /\ contentBudgetUsed(kept) = BytesTo(call.hits, m)
         /\ BytesTo(call.hits, m) <= share
         /\ m < Len(call.hits) => BytesTo(call.hits, m) + Size[call.hits[m + 1].text] > share
  BY <1>2, <1>5, <1>8, KeptFit
<1>10. /\ kept \in Seq(Hit) /\ Len(kept) = m /\ \A k \in 1..m : kept[k] = call.hits[k]
       /\ m = Len(call.hits) => kept = call.hits
  BY <1>5, <1>9
<1>11. contentBudgetUsed(kept) \in Nat
  BY <1>5, <1>9, HitsHaveBytes
<1>12. res \in Result
  BY <1>3, <1>5, <1>10 DEF Result
<1>13. /\ call'.budget = call.budget /\ call'.queries = call.queries /\ call'.scope = call.scope
       /\ call' = [x \in CallFields |-> call'[x]] /\ UNCHANGED <<rows, reissued>>
  BY <1>4 DEF OnlyIn, CallFields
<1>14. /\ call'.results \in Seq(Result) /\ Len(call'.results) = Len(old) + 1
       /\ call'.results[Len(old) + 1] = res /\ \A k \in 1..Len(old) : call'.results[k] = old[k]
       /\ Len(old) \in Nat
  BY <1>4, <1>5, <1>12
<1>15. CallTyped'
  <2>1. call'.pc \in Running /\ call'.table \in {"content", "events"} /\ call'.i \in 1..n
    BY <1>4, <1>5 DEF Running
  <2>2. call'.avail \in Nat
    BY <1>4, <1>5, <1>8, <1>9, <1>11
  <2> QED
    BY <1>4, <1>5, <1>13, <1>14, <2>1, <2>2 DEF CallTyped
<1>16. PICK all : all = call'.results
  OBVIOUS
<1>17. /\ \A k \in 0..Len(old) : Used(all, k) = Used(old, k)
       /\ Used(all, Len(old) + 1) = Used(old, Len(old)) + contentBudgetUsed(kept)
  BY <1>3, <1>4, <1>5, <1>12, <1>16, UsedGrows
<1>18. call.avail = call.budget - Used(old, Len(old))
  BY <1>4 DEF CallInv, BudgetInv, Running
<1>19. call.table = "content" => Len(old) = call.i - 1 /\ call.avail >= part * b
  BY <1>4 DEF CallInv, BudgetInv, Running
<1>20. Used(old, Len(old)) \in Int
  BY <1>5, UsedIsNat
<1>21. BudgetInv'
  <2>1. call'.avail = call.budget - Used(all, Len(all))
    BY <1>4, <1>5, <1>11, <1>14, <1>16, <1>17, <1>18, <1>20
  <2>2. ASSUME call'.pc # "done", call'.table = "content"
        PROVE  Len(all) = call'.i - 1 /\ call'.avail >= (n - call'.i + 1) * b
    <3>1. call.table = "content" /\ call'.i = call.i + 1 /\ call.i # n
      BY <1>4, <2>2
    <3>2. call.avail - (call.avail \div part) >= (part - 1) * b
      BY <1>5, <1>6, <1>19, <3>1, EvenParts
    <3>3. call'.avail >= call.avail - (call.avail \div part)
      <4>1. call.avail \div part \in Nat
        BY <1>7, <1>8, <3>1
      <4> QED
        BY <1>4, <1>5, <1>7, <1>9, <1>11, <3>1, <4>1
    <3>4. n - call'.i + 1 = part - 1
      <4>1. \A x \in 1..8 : \A i \in 1..x : x - (i + 1) + 1 = (x - i + 1) - 1
        OBVIOUS
      <4> QED
        BY <1>5, <3>1, <4>1
    <3>5. (part - 1) * b \in Int /\ call.avail \div part \in Int /\ call'.avail \in Int
      <4>1. call.avail \div part \in Int
        BY <1>7, <1>8, <3>1
      <4>2. \A x \in 1..8 : \A y \in Nat : (x - 1) * y \in Int
        OBVIOUS
      <4>3. (part - 1) * b \in Int
        BY <1>6, <4>2
      <4>4. call'.avail \in Int
        BY <1>4, <1>5, <1>11
      <4> QED
        BY <4>1, <4>3, <4>4
    <3> HIDE DEF part, b
    <3>6. call'.avail >= (part - 1) * b
      BY <1>5, <3>2, <3>3, <3>5
    <3> QED
      BY <1>5, <1>14, <1>16, <1>19, <3>1, <3>4, <3>6
  <2>3. ASSUME NEW k \in 1..Len(all) PROVE Fair(all, k, n, call.budget)
    <3>1. CASE k \in 1..Len(old)
      <4>1. Fair(old, k, n, call.budget)
        BY <1>4, <3>1 DEF CallInv, BudgetInv, Running
      <4>2. all[k] = old[k] /\ Used(all, k) = Used(old, k)
        BY <1>14, <1>16, <1>17, <3>1
      <4> QED
        BY <4>1, <4>2 DEF Fair
    <3>2. CASE k = Len(old) + 1
      <4>1. all[k] = res /\ Used(all, k) = Used(old, Len(old)) + contentBudgetUsed(kept)
        BY <1>14, <1>16, <1>17, <3>2
      <4>2. ~res.truncated => res.hits = res.found
        <5>1. Len(kept) = m /\ res.truncated = (Len(kept) < Len(call.hits))
          BY <1>3, <1>10
        <5>2. m < Len(call.hits) \/ m = Len(call.hits)
          BY <1>5, <1>9
        <5> QED
          BY <1>3, <1>10, <5>1, <5>2
      <4>3. ASSUME res.truncated, res.table = "content"
            PROVE  /\ contentBudgetUsed(kept) + Size[call.hits[m + 1].text] > b
                   /\ res.i = n => Used(all, k) + Size[call.hits[m + 1].text] > call.budget
        <5>1. m < Len(call.hits) /\ call.table = "content"
          BY <1>3, <1>10, <4>3
        <5>2. Size[call.hits[m + 1].text] \in Nat
          <6>1. m + 1 \in 1..Len(call.hits) /\ call.hits[m + 1] \in Hit
            BY <1>5, <1>9, <5>1
          <6> QED
            BY <6>1, SearchAssumption DEF Hit, Texts
        <5>3. contentBudgetUsed(kept) + Size[call.hits[m + 1].text] > call.avail \div part
          BY <1>7, <1>9, <5>1
        <5>4. call.avail \div part >= b
          BY <1>5, <1>6, <1>19, <5>1, EvenParts
        <5>5. call.avail \div part \in Nat
          BY <1>5, <1>6, PartOf
        <5>6. ASSUME res.i = n PROVE Used(all, k) + Size[call.hits[m + 1].text] > call.budget
          <6>1. part = 1
            BY <1>3, <1>5, <5>6
          <6>2. call.avail \div part = call.avail
            BY <1>5, <6>1
          <6> HIDE DEF part
          <6> QED
            <7>1. /\ call.avail = call.budget - Used(old, Len(old))
                  /\ Used(all, k) = Used(old, Len(old)) + contentBudgetUsed(kept)
                  /\ contentBudgetUsed(kept) + Size[call.hits[m + 1].text] > call.avail
              BY <1>18, <4>1, <5>3, <6>2
            <7>2. PICK x \in Int : x = Used(old, Len(old))
              BY <1>20
            <7>3. PICK y \in Nat : y = contentBudgetUsed(kept)
              BY <1>11
            <7>4. PICK z \in Nat : z = Size[call.hits[m + 1].text]
              BY <5>2
            <7>5. PICK w \in Nat : w = call.budget
              BY <1>5
            <7>6. y + z > w - x
              BY <7>1, <7>2, <7>3, <7>4, <7>5
            <7>7. (x + y) + z > w
              BY <7>6
            <7> QED
              BY <7>1, <7>2, <7>3, <7>4, <7>5, <7>7
        <5> HIDE DEF part, b
        <5>7. contentBudgetUsed(kept) + Size[call.hits[m + 1].text] > b
          BY <1>6, <1>11, <5>2, <5>3, <5>4, <5>5
        <5> QED
          BY <5>6, <5>7
      <4>4. res.hits = kept /\ res.found = call.hits /\ Len(kept) = m
        BY <1>3, <1>10
      <4> QED
        BY <4>1, <4>2, <4>3, <4>4 DEF Fair
    <3> QED
      BY <1>14, <1>16, <3>1, <3>2
  <2> QED
    BY <1>13, <1>16, <2>1, <2>2, <2>3 DEF BudgetInv
<1>22. RankedHold' /\ FoundHold' /\ FoundName'
  BY <1>4 DEF RankedHold, FoundHold, FoundName
<1>23. ResultsHold' /\ ResultsName'
  <2>1. PICK queries : queries = call.queries
    OBVIOUS
  <2>2. ASSUME NEW k \in 1..Len(all), NEW j \in 1..Len(all[k].hits)
        PROVE  /\ HitHolds(all[k].hits[j], all[k].table, queries[all[k].i])
               /\ all[k].table = "content" => Names(all[k].hits[j])
    <3>1. CASE k \in 1..Len(old)
      BY <1>4, <1>14, <1>16, <2>1, <2>2, <3>1 DEF CallInv, ResultsHold, ResultsName, Running
    <3>2. CASE k = Len(old) + 1
      <4>1. all[k] = res /\ res.hits = kept /\ res.table = call.table /\ res.i = call.i
        BY <1>3, <1>14, <1>16, <3>2
      <4>2. j \in 1..Len(call.hits) /\ all[k].hits[j] = call.hits[j]
        BY <1>5, <1>9, <1>10, <2>2, <4>1
      <4> QED
        BY <1>4, <2>1, <4>1, <4>2 DEF CallInv, FoundHold, FoundName, Query
    <3> QED
      BY <1>14, <1>16, <3>1, <3>2
  <2>3. \A k \in 1..Len(all) : \A j \in 1..Len(all[k].hits) :
            /\ HitHolds(all[k].hits[j], all[k].table, queries[all[k].i])'
            /\ all[k].table = "content" => Names(all[k].hits[j])'
    BY <1>13, <2>2, RowsUntouched
  <2> QED
    BY <1>13, <1>16, <2>1, <2>3 DEF ResultsHold, ResultsName
<1> QED
  BY <1>15, <1>21, <1>22, <1>23 DEF CallInv

LEMMA StartKeeps ==
    ASSUME NEW c \in Calls, SearchStart(c)
    PROVE  CallInv'
<1>1. /\ call' = [x \in CallFields |-> call'[x]]
      /\ call'.pc = "porter" /\ call'.i = 1 /\ call'.queries = c.queries
      /\ call'.table = IF c.scope = "events" THEN "events" ELSE "content"
      /\ call'.scope = c.scope /\ call'.budget = c.budget /\ call'.avail = c.budget
      /\ call'.hits = <<>> /\ call'.results = <<>>
  BY StartIs
<1>2. c.budget \in Nat /\ Len(c.queries) \in 1..8 /\ c.scope \in {"content", "events", "all"}
  BY SearchAssumption
<1>3. CallTyped'
  <2>1. call'.table \in {"content", "events"} /\ call'.pc \in Running
    BY <1>1 DEF Running
  <2>2. \A m \in 1..8 : 1 \in 1..m
    OBVIOUS
  <2>3. call'.i \in 1..Len(call'.queries) /\ Len(call'.queries) \in 1..8
    BY <1>1, <1>2, <2>2
  <2>4. call'.hits \in Seq(Hit) /\ call'.results \in Seq(Result)
    BY <1>1
  <2> QED
    BY <1>1, <1>2, <2>1, <2>3, <2>4 DEF CallTyped
<1>4. PICK n \in 1..8 : n = Len(c.queries)
  BY <1>2
<1>5. Used(<<>>, 0) = 0
  BY TotalOfNone DEF Used
<1>6. c.budget - 0 = c.budget /\ n - 1 + 1 = n /\ 1 - 1 = 0
  BY <1>2
<1>7. n * (c.budget \div n) <= c.budget /\ c.budget \div n \in Nat
  BY <1>2, PartOf
<1>8. c.budget >= n * (c.budget \div n)
  <2>1. PICK part \in Nat : part = c.budget \div n
    BY <1>7
  <2>2. n * part <= c.budget /\ n * part \in Int
    BY <1>7, <2>1
  <2>3. c.budget >= n * part
    BY <1>2, <2>2
  <2> QED
    BY <2>1, <2>3
<1>9. BudgetInv'
  BY <1>1, <1>4, <1>5, <1>6, <1>8 DEF BudgetInv
<1> QED
  BY <1>1, <1>3, <1>9 DEF CallInv, RankedHold, FoundHold, ResultsHold, FoundName, ResultsName

LEMMA FailKeeps ==
    ASSUME CallInv, SearchFails
    PROVE  CallInv'
<1>1. call' = [call EXCEPT !.pc = "failed", !.results = <<>>]
  BY DEF SearchFails, Step
<1>2. call.pc \in Running
  BY DEF SearchFails, Running
<1>3. call'.pc = "failed"
  BY <1>1, <1>2 DEF CallInv, CallTyped, CallFields
<1> QED
  BY <1>3 DEF CallInv, CallTyped, RankedHold, FoundHold, ResultsHold, FoundName, ResultsName, BudgetInv, Running

-----------------------------------------------------------------------------
(* The fetch.                                                              *)

LEMMA FetchKeepsCall ==
    ASSUME CallInv, UNCHANGED <<rows, call, reissued>>
    PROVE  CallInv'
<1>1. Query' = Query
  BY DEF Query
<1>2. CallTyped' /\ BudgetInv'
  BY DEF CallInv, CallTyped, BudgetInv
<1>3. RankedHold'
  <2>1. PICK q : q = Query
    OBVIOUS
  <2>2. PICK table : table = call.table
    OBVIOUS
  <2>3. \A r, tokens, index : Holds(r, table, tokens, index) => Holds(r, table, tokens, index)'
    BY RowsUntouched
  <2> QED
    BY <1>1, <2>1, <2>2, <2>3 DEF CallInv, RankedHold
<1>4. FoundHold' /\ ResultsHold'
  BY <1>1, RowsUntouched DEF CallInv, FoundHold, ResultsHold
<1>5. FoundName' /\ ResultsName'
  BY RowsUntouched DEF CallInv, FoundName, ResultsName
<1> QED
  BY <1>2, <1>3, <1>4, <1>5 DEF CallInv

LEMMA FetchArtifactKeeps ==
    ASSUME CallInv, NEW hit, FetchArtifact(hit)
    PROVE  FetchInv'
<1>1. /\ call.pc = "done" /\ hit \in ContentHits
      /\ \/ /\ fetch'.pc = "chunk" /\ fetch'.hit = hit /\ fetch'.content = artifacts[hit.artifact]
         \/ /\ fetch'.pc = "done" /\ fetch'.hit = hit /\ fetch'.text = "not found"
      /\ UNCHANGED <<artifacts, watermark, chunks, sources, events>>
  BY DEF FetchArtifact, rows, contentRows
<1>2. call.pc \in Running /\ call.results \in Seq(Result)
  BY <1>1 DEF Running, CallInv, CallTyped
<1>3. PICK k \in 1..Len(call.results) : call.results[k].table = "content" /\ hit \in Range(call.results[k].hits)
  <2>1. DOMAIN call.results = 1..Len(call.results)
    BY <1>2
  <2>2. PICK S : /\ hit \in S
                 /\ S \in {Range(call.results[k].hits) :
                              k \in {j \in DOMAIN call.results : call.results[j].table = "content"}}
    BY <1>1 DEF ContentHits
  <2>3. PICK k \in {j \in DOMAIN call.results : call.results[j].table = "content"} :
            S = Range(call.results[k].hits)
    BY <2>2
  <2> QED
    BY <2>1, <2>2, <2>3
<1>4. call.results[k].hits \in Seq(Hit)
  <2>1. call.results[k] \in Result
    BY <1>2, <1>3
  <2> QED
    BY <2>1 DEF Result
<1>5. PICK j \in 1..Len(call.results[k].hits) : hit = call.results[k].hits[j]
  BY <1>3, <1>4 DEF Range
<1>6. hit \in Hit
  BY <1>4, <1>5
<1>7. Names(hit)
  BY <1>2, <1>3, <1>5 DEF CallInv, ResultsName
<1>8. hit.artifact \in Nat /\ Names(hit)'
  BY <1>1, <1>6, <1>7, RowsUntouched DEF Hit, rows, contentRows
<1> QED
  BY <1>1, <1>8 DEF FetchInv, FetchReturnsTheHit

LEMMA FetchChunkKeeps ==
    ASSUME RowsInv, FetchInv, FetchChunk \/ FetchFails \/ FetchEnd
    PROVE  FetchInv'
<1>1. CASE FetchChunk
  <2>1. PICK h : h = fetch.hit
    OBVIOUS
  <2>2. /\ fetch.pc = "chunk" /\ fetch'.pc = "done" /\ fetch'.hit = h
        /\ fetch'.text = IF h.row \notin DOMAIN chunks THEN "not found"
                         ELSE IF chunks[h.row].artifact # h.artifact THEN "invalid selector"
                         ELSE fetch.content[chunks[h.row].ordinal]
    BY <1>1, <2>1 DEF FetchChunk
  <2>3. ASSUME h.row \in DOMAIN chunks, chunks[h.row].artifact = h.artifact
        PROVE  fetch'.text = h.text
    <3>1. PICK a : a = h.artifact
      OBVIOUS
    <3>2. a \in DOMAIN artifacts /\ chunks[h.row].artifact = a
      BY <2>3, <3>1 DEF RowsInv
    <3>3. fetch.content = artifacts[a] /\ TextOf(chunks[h.row]) = h.text
      BY <2>1, <2>2, <2>3, <3>1, <3>2 DEF FetchInv, Names
    <3> QED
      BY <2>2, <2>3, <3>2, <3>3 DEF TextOf
  <2> QED
    BY <2>2, <2>3 DEF FetchInv, FetchReturnsTheHit
<1>2. CASE FetchFails
  BY <1>2 DEF FetchFails, FetchInv, FetchReturnsTheHit
<1>3. CASE FetchEnd
  BY <1>3 DEF FetchEnd, NoFetch, FetchInv, FetchReturnsTheHit
<1> QED
  BY <1>1, <1>2, <1>3

-----------------------------------------------------------------------------
SearchInv == RowsInv /\ CallInv /\ FetchInv

LEMMA SearchInvInit == SearchInit => SearchInv
<1> SUFFICES ASSUME SearchInit PROVE SearchInv
  OBVIOUS
<1>1. RowsInv
  <2>1. DOMAIN chunks \subseteq 0..0 /\ DOMAIN events \subseteq 0..0 /\ 0 \in Nat
    BY DEF SearchInit
  <2> QED
    BY <2>1 DEF SearchInit, RowsInit, RowsInv
<1>2. call.pc = "idle" /\ fetch.pc = "idle"
  BY DEF SearchInit, NoCall, NoFetch
<1> QED
  BY <1>1, <1>2 DEF SearchInv, CallInv, CallTyped, RankedHold, FoundHold, ResultsHold, FoundName, ResultsName,
                    BudgetInv, FetchInv, FetchReturnsTheHit, Running

LEMMA SearchInvStep == SearchInv /\ [SearchNext]_searchVars => SearchInv'
<1> SUFFICES ASSUME RowsInv, CallInv, FetchInv, [SearchNext]_searchVars PROVE SearchInv'
  BY DEF SearchInv
<1>1. ASSUME RowsInv', RowsChange PROVE SearchInv'
  BY <1>1, OthersKeepSearch DEF SearchInv
<1>2. ASSUME UNCHANGED rows, UNCHANGED fetch, CallInv' PROVE SearchInv'
  BY <1>2, RowsUntouched DEF SearchInv
<1>3. ASSUME UNCHANGED rows, FetchInv', CallInv' PROVE SearchInv'
  BY <1>3, RowsUntouched DEF SearchInv
<1>4. ASSUME NEW u \in URIs, NEW c \in Contents, Register(u, c) PROVE SearchInv'
  BY <1>1, <1>4, RegisterChanges
<1>5. ASSUME NEW S, PurgeOlderThan(S) \/ PurgeHookRows(S) PROVE SearchInv'
  BY <1>1, <1>5, PurgeChanges
<1>6. ASSUME (\E t \in EventTexts : AppendEvent(t)) \/ (\E i \in DOMAIN events : SweepEvent(i)) PROVE SearchInv'
  BY <1>1, <1>6, EventsChange
<1>7. ASSUME NEW c \in Calls, SearchStart(c) PROVE SearchInv'
  BY <1>2, <1>7, StartIs, StartKeeps
<1>8. CASE RankPorter
  BY <1>2, <1>8, PorterKeeps DEF RankPorter, Step
<1>9. CASE RankTrigram
  BY <1>2, <1>9, TrigramKeeps DEF RankTrigram, Step
<1>10. CASE FilterAndMerge
  BY <1>2, <1>10, FilterKeeps DEF FilterAndMerge, Step
<1>11. CASE LoadHit
  BY <1>2, <1>11, LoadKeeps DEF LoadHit, Step
<1>12. CASE QueryDone
  BY <1>2, <1>12, DoneKeeps DEF QueryDone, Step
<1>13. CASE SearchFails
  BY <1>2, <1>13, FailKeeps DEF SearchFails, Step
<1>14. ASSUME NEW hit, FetchArtifact(hit) PROVE SearchInv'
  BY <1>3, <1>14, FetchKeepsCall, FetchArtifactKeeps DEF FetchArtifact
<1>15. CASE FetchChunk \/ FetchFails
  BY <1>3, <1>15, FetchKeepsCall, FetchChunkKeeps DEF FetchChunk, FetchFails
<1>16. CASE FetchEnd
  <2>1. CallInv'
    BY <1>16 DEF FetchEnd, NoCall, CallInv, CallTyped, RankedHold, FoundHold, ResultsHold, FoundName, ResultsName,
                 BudgetInv, Running
  <2> QED
    BY <1>3, <1>16, <2>1, FetchChunkKeeps DEF FetchEnd
<1>17. CASE UNCHANGED searchVars
  BY <1>2, <1>17, FetchKeepsCall DEF searchVars
<1> QED
  BY <1>4, <1>5, <1>6, <1>7, <1>8, <1>9, <1>10, <1>11, <1>12, <1>13, <1>14, <1>15, <1>16, <1>17 DEF SearchNext

LEMMA SearchInvHolds == SearchSpec => []SearchInv
BY SearchInvInit, SearchInvStep, PTL DEF SearchSpec

(* What changes the rows beside a search is what ContentRows allows, and   *)
(* so what ContentStore does; a search and a fetch change none.            *)
THEOREM SearchReadsContentRows == SearchSpec => RowsSpec
<1>1. SearchInit => RowsInit
  BY DEF SearchInit
<1>2. ASSUME [SearchNext]_searchVars PROVE [RowsNext]_contentRows
  <2>1. ASSUME NEW u \in URIs, NEW c \in Contents, Register(u, c) PROVE RowsNext
    BY <2>1 DEF Register, RowsNext
  <2>2. ASSUME NEW old \in SUBSET DOMAIN sources, PurgeOlderThan(old) PROVE RowsNext
    BY <2>2 DEF PurgeOlderThan, RowsNext
  <2>3. ASSUME NEW ids \in SUBSET DOMAIN artifacts, PurgeHookRows(ids) PROVE RowsNext
    BY <2>3 DEF PurgeHookRows, RowsNext
  <2>4. ASSUME \/ \E t \in EventTexts : AppendEvent(t)
               \/ \E i \in DOMAIN events : SweepEvent(i)
               \/ \E c \in Calls : SearchStart(c)
               \/ RankPorter \/ RankTrigram \/ FilterAndMerge \/ LoadHit \/ QueryDone \/ SearchFails
               \/ \E hit \in ContentHits : FetchArtifact(hit)
               \/ FetchChunk \/ FetchFails \/ FetchEnd
        PROVE  UNCHANGED contentRows
    BY <2>4 DEF AppendEvent, SweepEvent, SearchStart, RankPorter, RankTrigram, FilterAndMerge, LoadHit,
       QueryDone, SearchFails, FetchArtifact, FetchChunk, FetchFails, FetchEnd, Step, rows
  <2>5. UNCHANGED searchVars => UNCHANGED contentRows
    BY DEF searchVars, rows
  <2> QED
    BY <1>2, <2>1, <2>2, <2>3, <2>4, <2>5 DEF SearchNext
<1> QED
  BY <1>1, <1>2, PTL DEF SearchSpec, RowsSpec

(* What ctr_fetch answers for the ids of a hit (registerFetch, ReadRange,  *)
(* readChunk) is the text the hit showed, or an error, however the rows    *)
(* were purged, indexed again or given out again since: artifact ids are   *)
(* issued from the watermark and never twice (nextArtifactID).             *)
THEOREM FetchShowsTheHit == SearchSpec => []FetchReturnsTheHit
<1>1. SearchInv => FetchReturnsTheHit
  BY DEF SearchInv, FetchInv
<1> QED
  BY <1>1, SearchInvHolds, PTL

(* Every hit of a finished search holds all tokens of its query in one of  *)
(* the two ways, the short ones too, unless its row id was given out again *)
(* between two statements of the search (filterShortTokenCandidates).      *)
THEOREM HitsHoldTheirQuery == SearchSpec => []HitsMatchTheQuery
<1>1. SearchInv => HitsMatchTheQuery
  <2> SUFFICES ASSUME SearchInv, Finished,
                      NEW k \in DOMAIN call.results, NEW j \in DOMAIN call.results[k].hits
               PROVE  HitHolds(call.results[k].hits[j], call.results[k].table, call.queries[call.results[k].i])
    BY DEF HitsMatchTheQuery, HitHolds
  <2>1. call.pc \in Running /\ call.results \in Seq(Result)
    BY DEF SearchInv, CallInv, CallTyped, Finished, Running
  <2>2. k \in 1..Len(call.results) /\ call.results[k] \in Result
    BY <2>1
  <2>3. j \in 1..Len(call.results[k].hits)
    <3>1. call.results[k].hits \in Seq(Hit)
      BY <2>2 DEF Result
    <3> QED
      BY <3>1
  <2> QED
    BY <2>1, <2>2, <2>3 DEF SearchInv, CallInv, ResultsHold
<1> QED
  BY <1>1, SearchInvHolds, PTL

(* The hits of all queries and the events of a search stay within its      *)
(* budget, a cut is said, and no query is cut while its even part would    *)
(* have held its next hit (applyBudget, queryEventSection).                *)
THEOREM BudgetIsFair == SearchSpec => []BudgetIsShared
<1>1. SearchInv => BudgetIsShared
  <2> SUFFICES ASSUME SearchInv, Finished PROVE BudgetIsShared
    BY DEF BudgetIsShared
  <2>1. /\ call.pc \in Running /\ call.results \in Seq(Result)
        /\ call.avail \in Nat /\ call.budget \in Nat
    BY DEF SearchInv, CallInv, CallTyped, Finished, Running
  <2>2. /\ call.avail = call.budget - Used(call.results, Len(call.results))
        /\ \A k \in 1..Len(call.results) : Fair(call.results, k, Len(call.queries), call.budget)
    BY <2>1 DEF SearchInv, CallInv, BudgetInv
  <2>3. Used(call.results, Len(call.results)) \in Nat
    BY <2>1, UsedIsNat
  <2>4. Used(call.results, Len(call.results)) <= call.budget
    BY <2>1, <2>2, <2>3
  <2>5. DOMAIN call.results = 1..Len(call.results)
    BY <2>1
  <2> QED
    BY <2>2, <2>4, <2>5 DEF BudgetIsShared, Fair, Used
<1> QED
  BY <1>1, SearchInvHolds, PTL

-----------------------------------------------------------------------------
(* Runes.                                                                  *)

TextBytes == {"a", "n", "L", "C"}

(* No rune lies across position p.                                         *)
Clean(d, p) == p = 0 \/ d[p] # "L"

(* A text up to somewhere, perhaps the middle of a rune: what continues a  *)
(* rune follows what starts one, and only that.                            *)
Runes(d) ==
    /\ d \in Seq(TextBytes)
    /\ \A i \in 1..Len(d) : d[i] = "C" <=> i > 1 /\ ~Clean(d, i - 1)

Text(d) == Runes(d) /\ Clean(d, Len(d))

LEMMA StartIsClean ==
    ASSUME NEW d, Runes(d), NEW p \in 0..(Len(d) - 1)
    PROVE  d[p + 1] = "C" <=> ~Clean(d, p)
<1>1. p + 1 \in 1..Len(d) /\ (p + 1) - 1 = p /\ (p + 1 > 1 <=> p # 0)
  BY DEF Runes
<1>2. d[p + 1] = "C" <=> p + 1 > 1 /\ ~Clean(d, p)
  BY <1>1 DEF Runes
<1> QED
  BY <1>1, <1>2 DEF Clean

LEMMA DecodeIs ==
    ASSUME NEW d, Runes(d), NEW p \in 0..(Len(d) - 1), Clean(d, p)
    PROVE  \/ /\ d[p + 1] = "L" /\ p + 1 < Len(d) /\ DecodeRune(d, p) = 2
              /\ p + 2 \in 0..Len(d) /\ Clean(d, p + 2) /\ ~Clean(d, p + 1)
           \/ d[p + 1] = "L" /\ p + 1 = Len(d) /\ DecodeRune(d, p) = 0 /\ ~Clean(d, p + 1)
           \/ d[p + 1] # "L" /\ DecodeRune(d, p) = 1 /\ Clean(d, p + 1)
<1>1. Len(d) \in Nat
  BY DEF Runes
<1>2. ~(p >= Len(d)) /\ d[p + 1] # "C" /\ p + 1 # 0
  BY <1>1, StartIsClean
<1>3. CASE d[p + 1] = "L" /\ p + 1 < Len(d)
  <2>1. p + 1 \in 0..(Len(d) - 1) /\ (p + 1) + 1 = p + 2
    BY <1>1, <1>3
  <2>2. ~Clean(d, p + 1)
    BY <1>2, <1>3 DEF Clean
  <2>3. d[p + 2] = "C"
    BY <2>1, <2>2, StartIsClean
  <2>4. DecodeRune(d, p) = 2
    BY <1>2, <1>3, <2>3 DEF DecodeRune
  <2>5. Clean(d, p + 2)
    BY <2>3 DEF Clean
  <2> QED
    BY <1>1, <1>3, <2>2, <2>4, <2>5
<1>4. CASE d[p + 1] = "L" /\ p + 1 = Len(d)
  <2>1. ~(p + 1 < Len(d))
    BY <1>1, <1>4
  <2>2. DecodeRune(d, p) = 0
    BY <1>2, <1>4, <2>1 DEF DecodeRune
  <2> QED
    BY <1>2, <1>4, <2>2 DEF Clean
<1>5. CASE d[p + 1] # "L"
  BY <1>2, <1>5 DEF DecodeRune, Clean
<1>6. p + 1 < Len(d) \/ p + 1 = Len(d)
  BY <1>1
<1> QED
  BY <1>3, <1>4, <1>5, <1>6

(* The loop forward ends at end, or before the rune that lies across it.   *)
Reach(d, p, end) == IF p >= end \/ ~Clean(d, p) THEN p ELSE IF Clean(d, end) THEN end ELSE end - 1

Walk(d, end, pos) ==
    pos = [p \in 0..Len(d) |->
             LET size == DecodeRune(d, p) IN
             IF p >= end \/ size = 0 \/ p + size > end THEN p ELSE pos[p + size]]

(* One step of the loop, whatever the rest of it does.                     *)
LEMMA OneRune ==
    ASSUME NEW d, Runes(d), NEW end \in 0..Len(d), NEW p \in 0..Len(d)
    PROVE  \/ /\ p >= end \/ DecodeRune(d, p) = 0 \/ p + DecodeRune(d, p) > end
              /\ Reach(d, p, end) = p
           \/ /\ ~(p >= end \/ DecodeRune(d, p) = 0 \/ p + DecodeRune(d, p) > end)
              /\ p + DecodeRune(d, p) \in (p + 1)..Len(d)
              /\ Reach(d, p, end) = Reach(d, p + DecodeRune(d, p), end)
<1>1. Len(d) \in Nat
  BY DEF Runes
<1>2. CASE p >= end
  BY <1>2 DEF Reach
<1>3. CASE ~(p >= end) /\ ~Clean(d, p)
  <2>1. p \in 0..(Len(d) - 1) /\ d[p + 1] = "C"
    BY <1>1, <1>3, StartIsClean
  <2>2. DecodeRune(d, p) = 0
    BY <2>1 DEF DecodeRune
  <2> QED
    BY <1>3, <2>2 DEF Reach
<1>4. CASE ~(p >= end) /\ Clean(d, p)
  <2>1. p \in 0..(Len(d) - 1)
    BY <1>1, <1>4
  <2>2. CASE /\ d[p + 1] = "L" /\ p + 1 < Len(d) /\ DecodeRune(d, p) = 2
             /\ p + 2 \in 0..Len(d) /\ Clean(d, p + 2) /\ ~Clean(d, p + 1)
    <3>1. CASE end = p + 1
      BY <1>1, <1>4, <2>2, <3>1 DEF Reach
    <3>2. CASE end = p + 2
      BY <1>1, <1>4, <2>2, <3>2 DEF Reach
    <3>3. CASE end > p + 2
      BY <1>1, <1>4, <2>2, <3>3 DEF Reach
    <3>4. end = p + 1 \/ end = p + 2 \/ end > p + 2
      BY <1>4
    <3> QED
      BY <3>1, <3>2, <3>3, <3>4
  <2>3. CASE d[p + 1] = "L" /\ p + 1 = Len(d) /\ DecodeRune(d, p) = 0 /\ ~Clean(d, p + 1)
    <3>1. end = p + 1
      BY <1>1, <1>4, <2>3
    <3> QED
      BY <1>4, <2>3, <3>1 DEF Reach
  <2>4. CASE d[p + 1] # "L" /\ DecodeRune(d, p) = 1 /\ Clean(d, p + 1)
    <3>1. CASE end = p + 1
      BY <1>1, <1>4, <2>4, <3>1 DEF Reach
    <3>2. CASE end > p + 1
      BY <1>1, <1>4, <2>4, <3>2 DEF Reach
    <3>3. end = p + 1 \/ end > p + 1
      BY <1>4
    <3> QED
      BY <3>1, <3>2, <3>3
  <2> QED
    BY <1>4, <2>1, <2>2, <2>3, <2>4, DecodeIs
<1> QED
  BY <1>2, <1>3, <1>4

LEMMA ForwardIs ==
    ASSUME NEW d, Runes(d), NEW end \in 0..Len(d), NEW start \in 0..Len(d)
    PROVE  Forward(d, start, end) = Reach(d, start, end)
<1> DEFINE g == [p \in 0..Len(d) |-> Reach(d, p, end)]
           pos == CHOOSE f : f = [p \in 0..Len(d) |->
                     LET size == DecodeRune(d, p) IN
                     IF p >= end \/ size = 0 \/ p + size > end THEN p ELSE f[p + size]]
<1>1. Len(d) \in Nat
  BY DEF Runes
<1>2. Walk(d, end, g)
  <2>1. ASSUME NEW p \in 0..Len(d)
        PROVE  g[p] = LET size == DecodeRune(d, p) IN
                      IF p >= end \/ size = 0 \/ p + size > end THEN p ELSE g[p + size]
    <3>1. CASE /\ p >= end \/ DecodeRune(d, p) = 0 \/ p + DecodeRune(d, p) > end
               /\ Reach(d, p, end) = p
      BY <3>1
    <3>2. CASE /\ ~(p >= end \/ DecodeRune(d, p) = 0 \/ p + DecodeRune(d, p) > end)
               /\ p + DecodeRune(d, p) \in (p + 1)..Len(d)
               /\ Reach(d, p, end) = Reach(d, p + DecodeRune(d, p), end)
      <4>1. p + DecodeRune(d, p) \in 0..Len(d)
        BY <1>1, <3>2
      <4> QED
        BY <3>2, <4>1
    <3> QED
      BY <3>1, <3>2, OneRune
  <2>2. g = [p \in 0..Len(d) |-> g[p]]
    OBVIOUS
  <2> HIDE DEF g
  <2> QED
    BY <2>1, <2>2 DEF Walk
<1>3. pos = [p \in 0..Len(d) |->
                LET size == DecodeRune(d, p) IN
                IF p >= end \/ size = 0 \/ p + size > end THEN p ELSE pos[p + size]]
  <2> HIDE DEF g
  <2> QED
    BY <1>2 DEF Walk
<1>4. Forward(d, start, end) = pos[start]
  BY DEF Forward
<1> HIDE DEF pos, g
<1>5. \A k \in Nat : \A p \in 0..Len(d) : Len(d) - p <= k => pos[p] = Reach(d, p, end)
  <2> DEFINE S == {k \in Nat : \A p \in 0..Len(d) : Len(d) - p <= k => pos[p] = Reach(d, p, end)}
  <2>1. ASSUME NEW p \in 0..Len(d),
               \A q \in (p + 1)..Len(d) : pos[q] = Reach(d, q, end)
        PROVE  pos[p] = Reach(d, p, end)
    <3>1. pos[p] = LET size == DecodeRune(d, p) IN
                   IF p >= end \/ size = 0 \/ p + size > end THEN p ELSE pos[p + size]
      BY <1>3
    <3>2. PICK size : size = DecodeRune(d, p)
      OBVIOUS
    <3>3. pos[p] = IF p >= end \/ size = 0 \/ p + size > end THEN p ELSE pos[p + size]
      BY <3>1, <3>2
    <3>4. \/ (p >= end \/ size = 0 \/ p + size > end) /\ Reach(d, p, end) = p
          \/ /\ ~(p >= end \/ size = 0 \/ p + size > end)
             /\ p + size \in (p + 1)..Len(d) /\ Reach(d, p, end) = Reach(d, p + size, end)
      BY <3>2, OneRune
    <3> QED
      BY <2>1, <3>3, <3>4
  <2>2. 0 \in S
    <3>1. \A p \in 0..Len(d) : Len(d) - p <= 0 => \A q \in (p + 1)..Len(d) : FALSE
      BY <1>1
    <3> QED
      BY <2>1, <3>1
  <2>3. ASSUME NEW k \in Nat, k \in S PROVE k + 1 \in S
    <3> SUFFICES ASSUME NEW p \in 0..Len(d), Len(d) - p <= k + 1 PROVE pos[p] = Reach(d, p, end)
      OBVIOUS
    <3>1. \A q \in (p + 1)..Len(d) : q \in 0..Len(d) /\ Len(d) - q <= k
      BY <1>1
    <3> QED
      BY <2>1, <2>3, <3>1
  <2> HIDE DEF S
  <2>4. \A k \in Nat : k \in S
    BY <2>2, <2>3, Induction
  <2> QED
    BY <2>4 DEF S
<1>6. Len(d) - start \in Nat /\ Len(d) - start <= Len(d) - start
  BY <1>1
<1> QED
  BY <1>4, <1>5, <1>6

LEMMA BeforeIsClean ==
    ASSUME NEW d, Runes(d), NEW p \in 0..Len(d), ~Clean(d, p)
    PROVE  p - 1 \in 0..(Len(d) - 1) /\ d[p] = "L" /\ Clean(d, p - 1)
<1>1. Len(d) \in Nat
  BY DEF Runes
<1>2. p - 1 \in 0..(Len(d) - 1) /\ (p - 1) + 1 = p /\ d[p] = "L"
  BY <1>1 DEF Clean
<1>3. d[p] # "C"
  BY <1>2
<1> QED
  BY <1>2, <1>3, StartIsClean

LEMMA ReachIsClean ==
    ASSUME NEW d, Runes(d), NEW end \in 0..Len(d), NEW p \in 0..(end - 1), Clean(d, p)
    PROVE  /\ Reach(d, p, end) = IF Clean(d, end) THEN end ELSE end - 1
           /\ Reach(d, p, end) \in p..end /\ Clean(d, Reach(d, p, end))
<1>1. ~(p >= end)
  OBVIOUS
<1>2. CASE Clean(d, end)
  BY <1>1, <1>2 DEF Reach
<1>3. CASE ~Clean(d, end)
  <2>1. Clean(d, end - 1)
    BY <1>3, BeforeIsClean
  <2>2. Reach(d, p, end) = end - 1
    BY <1>1, <1>3 DEF Reach
  <2> QED
    BY <1>3, <2>1, <2>2
<1> QED
  BY <1>2, <1>3

(* The loop back ends at p, or before the rune that lies across it.        *)
LEMMA BackIs ==
    ASSUME NEW d, Runes(d), NEW p \in 0..(Len(d) - 1)
    PROVE  /\ Back(d, p) = IF Clean(d, p) THEN p ELSE p - 1
           /\ Back(d, p) \in 0..p /\ Clean(d, Back(d, p))
<1> DEFINE T == {q \in 0..p : q = 0 \/ RuneStart(d[q + 1])}
<1>1. Len(d) \in Nat /\ ~(p >= Len(d))
  BY DEF Runes
<1>2. PICK m : m = Max(T)
  OBVIOUS
<1>3. Back(d, p) = m
  BY <1>1, <1>2 DEF Back
<1>4. T \subseteq 0..p /\ 0 \in T /\ p \in Nat
  BY <1>1
<1>5. m \in T /\ \A x \in T : m >= x
  <2> HIDE DEF T
  <2> QED
    BY <1>2, <1>4, MaxOfBounded
<1>6. CASE Clean(d, p)
  <2>1. p \in T
    BY <1>1, <1>6, StartIsClean DEF RuneStart
  <2>2. m = p
    BY <1>1, <1>5, <2>1
  <2> QED
    BY <1>3, <1>6, <2>2
<1>7. CASE ~Clean(d, p)
  <2>1. p - 1 \in 0..(Len(d) - 1) /\ d[p] = "L" /\ Clean(d, p - 1)
    BY <1>7, BeforeIsClean
  <2>2. p - 1 \in T
    BY <1>1, <2>1 DEF RuneStart
  <2>3. p \notin T
    <3>1. d[p + 1] = "C" /\ p # 0
      BY <1>7, <2>1, StartIsClean
    <3> QED
      BY <3>1 DEF RuneStart
  <2>4. m = p - 1
    BY <1>1, <1>5, <2>1, <2>2, <2>3
  <2> QED
    BY <1>3, <1>7, <2>1, <2>4
<1> QED
  BY <1>6, <1>7

LEMMA SliceIs ==
    ASSUME NEW d, Runes(d), NEW hi \in 0..Len(d), NEW lo \in 0..hi, Clean(d, lo)
    PROVE  /\ Runes(Slice(d, lo, hi)) /\ Len(Slice(d, lo, hi)) = hi - lo
           /\ \A i \in 1..(hi - lo) : Slice(d, lo, hi)[i] = d[lo + i]
           /\ \A p \in 0..(hi - lo) : Clean(Slice(d, lo, hi), p) <=> Clean(d, lo + p)
<1>1. Len(d) \in Nat /\ d \in Seq(TextBytes)
  BY DEF Runes
<1>2. PICK x : x = Slice(d, lo, hi)
  OBVIOUS
<1>3. x \in Seq(TextBytes) /\ Len(x) = hi - lo /\ \A i \in 1..(hi - lo) : x[i] = d[lo + i]
  <2>1. x = SubSeq(d, lo + 1, hi)
    BY <1>2 DEF Slice
  <2>2. \A i \in (lo + 1)..hi : i \in 1..Len(d)
    BY <1>1
  <2>3. x \in Seq(TextBytes)
    BY <1>1, <2>1, <2>2, SubSeqProperties
  <2>4. Len(x) = hi - lo
    <3>1. Len(x) = IF lo + 1 <= hi THEN hi - (lo + 1) + 1 ELSE 0
      BY <1>1, <2>1, <2>2, SubSeqProperties
    <3> QED
      BY <3>1
  <2>5. ASSUME NEW i \in 1..(hi - lo) PROVE x[i] = d[lo + i]
    <3>1. x[i] = d[(lo + 1) + i - 1]
      BY <1>1, <2>1, <2>2, <2>4, SubSeqProperties
    <3>2. (lo + 1) + i - 1 = lo + i
      OBVIOUS
    <3> QED
      BY <3>1, <3>2
  <2> QED
    BY <2>3, <2>4, <2>5
<1>4. ASSUME NEW p \in 0..(hi - lo) PROVE Clean(x, p) <=> Clean(d, lo + p)
  <2>1. CASE p = 0
    BY <2>1 DEF Clean
  <2>2. CASE p # 0
    <3>1. p \in 1..(hi - lo) /\ lo + p # 0
      BY <2>2
    <3> QED
      BY <1>3, <2>2, <3>1 DEF Clean
  <2> QED
    BY <2>1, <2>2
<1>5. ASSUME NEW i \in 1..Len(x) PROVE x[i] = "C" <=> i > 1 /\ ~Clean(x, i - 1)
  <2>1. lo + (i - 1) \in 0..(Len(d) - 1) /\ (lo + (i - 1)) + 1 = lo + i /\ i - 1 \in 0..(hi - lo) /\ i \in 1..(hi - lo)
    BY <1>1, <1>3
  <2>2. d[lo + i] = "C" <=> ~Clean(d, lo + (i - 1))
    BY <2>1, StartIsClean
  <2>3. x[i] = "C" <=> ~Clean(x, i - 1)
    BY <1>3, <1>4, <2>1, <2>2
  <2>4. ~Clean(x, i - 1) => i > 1
    BY <2>1 DEF Clean
  <2> QED
    BY <2>3, <2>4
<1> QED
  BY <1>2, <1>3, <1>4, <1>5 DEF Runes

LEMMA ValidIs ==
    ASSUME NEW x, Runes(x)
    PROVE  Valid(x) <=> Clean(x, Len(x))
<1>1. Len(x) \in Nat
  BY DEF Runes
<1>2. Forward(x, 0, Len(x)) = Reach(x, 0, Len(x))
  BY <1>1, ForwardIs
<1>3. Clean(x, 0)
  BY DEF Clean
<1> QED
  BY <1>1, <1>2, <1>3 DEF Valid, Reach

LEMMA SliceIsValid ==
    ASSUME NEW d, Runes(d), NEW hi \in 0..Len(d), NEW lo \in 0..hi, Clean(d, lo)
    PROVE  Valid(Slice(d, lo, hi)) <=> Clean(d, hi)
<1>1. hi - lo \in 0..(hi - lo) /\ lo + (hi - lo) = hi
  BY DEF Runes
<1>2. PICK x : x = Slice(d, lo, hi)
  OBVIOUS
<1>3. Runes(x) /\ Len(x) = hi - lo /\ (Clean(x, hi - lo) <=> Clean(d, hi))
  BY <1>1, <1>2, SliceIs
<1> QED
  BY <1>2, <1>3, ValidIs

LEMMA BytesAlwaysMeet ==
    ASSUME NEW d, Text(d), NEW a \in Nat, NEW b \in Nat, NEW c \in Nat,
           ByteSelectorOK(d, a, b), ByteSelectorOK(d, b, c)
    PROVE  BytesMeet(d, a, b, c)
<1>1. Runes(d) /\ Len(d) \in Nat
  BY DEF Text, Runes
<1>2. a < b /\ b < c /\ b < Len(d) /\ c <= Len(d)
  BY DEF ByteSelectorOK
<1>3. a \in 0..(Len(d) - 1) /\ b \in 0..(Len(d) - 1) /\ b \in 0..Len(d)
  BY <1>1, <1>2
<1>4. PICK lo : lo = Back(d, a)
  OBVIOUS
<1>5. PICK hi : hi = Back(d, b)
  OBVIOUS
<1>6. /\ lo \in 0..a /\ Clean(d, lo) /\ hi \in 0..b /\ Clean(d, hi)
      /\ hi = IF Clean(d, b) THEN b ELSE b - 1
  BY <1>1, <1>3, <1>4, <1>5, BackIs
<1>7. lo \in 0..(b - 1) /\ lo \in 0..Len(d) /\ lo \in 0..hi /\ hi \in 0..Len(d)
  BY <1>1, <1>2, <1>6
<1>8. Forward(d, lo, b) = hi
  BY <1>1, <1>3, <1>6, <1>7, ForwardIs, ReachIsClean
<1>9. snapUTF8(d, a, b) = <<lo, hi>>
  <2>1. ~(a < 0) /\ ~(a > Len(d)) /\ ~(b < a) /\ ~(b < 0) /\ ~(b > Len(d))
    BY <1>1, <1>2
  <2>2. Clamp(a, 0, Len(d)) = a /\ Clamp(b, 0, Len(d)) = b
    BY <2>1 DEF Clamp
  <2> QED
    BY <1>4, <1>8, <2>1, <2>2 DEF snapUTF8
<1>10. snapUTF8(d, b, c)[1] = hi
  <2>1. ~(b < 0) /\ ~(b > Len(d))
    BY <1>1, <1>2
  <2>2. Clamp(b, 0, Len(d)) = b
    BY <2>1 DEF Clamp
  <2> QED
    BY <1>5, <2>2 DEF snapUTF8
<1>11. Valid(Slice(d, lo, hi))
  BY <1>1, <1>6, <1>7, SliceIsValid
<1> QED
  BY <1>9, <1>10, <1>11 DEF BytesMeet, ReadBytes

LEMMA SnippetsShowTokens ==
    ASSUME NEW d, Text(d), NEW idx \in 0..(Len(d) - 1), NEW len \in 1..Half, IsToken(d, idx, len)
    PROVE  SnippetShowsToken(d, idx, len)
<1>1. Runes(d) /\ Len(d) \in Nat /\ Half \in Nat
  BY TextAssumption DEF Text, Runes
<1>2. PICK to : to = idx + len
  OBVIOUS
<1>3. to \in 1..Len(d) /\ to <= idx + Half /\ idx < to
  BY <1>1, <1>2 DEF IsToken
<1>4. Clean(d, idx)
  BY <1>1, StartIsClean DEF IsToken, RuneStart
<1>5. idx \in 0..to /\ to \in 0..Len(d)
  BY <1>1, <1>3
<1>6. Clean(d, to)
  BY <1>1, <1>2, <1>4, <1>5, SliceIsValid DEF IsToken
<1>7. ASSUME NEW i \in idx..(to - 1) PROVE d[i + 1] # "n"
  <2>1. PICK t : t = Slice(d, idx, to)
    OBVIOUS
  <2>2. Len(t) = to - idx /\ \A k \in 1..(to - idx) : t[k] = d[idx + k]
    BY <1>1, <1>4, <1>5, <2>1, SliceIs
  <2>3. (i - idx) + 1 \in 1..(to - idx) /\ idx + ((i - idx) + 1) = i + 1
    BY <1>3
  <2>4. t[(i - idx) + 1] # "n"
    BY <1>2, <2>1, <2>2, <2>3 DEF IsToken, Newlines
  <2> QED
    BY <2>2, <2>3, <2>4
<1> DEFINE lo == idx - Half
           hi == idx + Half
<1>8. PICK start : start = IF lo <= 0 THEN 0
                           ELSE IF Spaces(d, lo, idx) # {} THEN Min(Spaces(d, lo, idx)) + 1 ELSE lo
  OBVIOUS
<1>9. PICK end : end = IF hi >= Len(d) THEN Len(d)
                       ELSE IF Spaces(d, idx, hi) # {} THEN Max(Spaces(d, idx, hi)) ELSE hi
  OBVIOUS
<1>10. start \in 0..idx
  <2>1. CASE lo <= 0
    BY <1>8, <2>1
  <2>2. CASE ~(lo <= 0) /\ Spaces(d, lo, idx) # {}
    <3>1. Spaces(d, lo, idx) \subseteq Nat /\ Spaces(d, lo, idx) \subseteq lo..(idx - 1)
      BY <1>1, <2>2 DEF Spaces
    <3>2. Min(Spaces(d, lo, idx)) \in Spaces(d, lo, idx)
      BY <2>2, <3>1, MinOfNumbers
    <3>3. PICK m \in lo..(idx - 1) : m = Min(Spaces(d, lo, idx))
      BY <3>1, <3>2
    <3> QED
      BY <1>1, <1>8, <2>2, <3>3
  <2>3. CASE ~(lo <= 0) /\ Spaces(d, lo, idx) = {}
    BY <1>1, <1>8, <2>3
  <2> QED
    BY <2>1, <2>2, <2>3
<1>11. end \in to..Len(d)
  <2>1. CASE hi >= Len(d)
    BY <1>3, <1>9, <2>1
  <2>2. CASE ~(hi >= Len(d)) /\ Spaces(d, idx, hi) # {}
    <3>1. Spaces(d, idx, hi) \subseteq 0..hi /\ hi \in Nat
      BY <1>1 DEF Spaces
    <3>2. PICK m : m = Max(Spaces(d, idx, hi))
      OBVIOUS
    <3>3. m \in Spaces(d, idx, hi)
      BY <2>2, <3>1, <3>2, MaxOfBounded
    <3>4. m \in idx..(hi - 1) /\ d[m + 1] = "n"
      BY <3>3 DEF Spaces
    <3>5. m \notin idx..(to - 1)
      BY <1>7, <3>4
    <3> QED
      BY <1>1, <1>3, <1>9, <2>2, <3>2, <3>4, <3>5
  <2>3. CASE ~(hi >= Len(d)) /\ Spaces(d, idx, hi) = {}
    BY <1>1, <1>3, <1>9, <2>3
  <2> QED
    BY <2>1, <2>2, <2>3
<1>12. SnippetWindow(d, idx) = snapWindow(d, start, end)
  BY <1>8, <1>9 DEF SnippetWindow
<1>13. PICK b : b = Back(d, start)
  OBVIOUS
<1>14. b \in 0..start /\ Clean(d, b)
  <2>1. start \in 0..(Len(d) - 1)
    BY <1>1, <1>10
  <2> QED
    BY <1>1, <1>13, <2>1, BackIs
<1>15. PICK f : f = Forward(d, b, end)
  OBVIOUS
<1>16. end \in 0..Len(d) /\ b \in 0..(end - 1) /\ b \in 0..Len(d)
  BY <1>1, <1>3, <1>10, <1>11, <1>14
<1>17. /\ f = IF Clean(d, end) THEN end ELSE end - 1
       /\ f \in b..end /\ Clean(d, f)
  BY <1>1, <1>14, <1>15, <1>16, ForwardIs, ReachIsClean
<1>18. to <= f
  <2>1. CASE Clean(d, end)
    BY <1>11, <1>17, <2>1
  <2>2. CASE ~Clean(d, end)
    <3>1. end # to
      BY <1>6, <2>2
    <3> QED
      BY <1>3, <1>11, <1>17, <2>2, <3>1
  <2> QED
    BY <2>1, <2>2
<1>19. Valid(Slice(d, b, f))
  <2>1. f \in 0..Len(d) /\ b \in 0..f
    BY <1>1, <1>16, <1>17
  <2> QED
    BY <1>1, <1>14, <1>17, <2>1, SliceIsValid
<1>20. snapWindow(d, start, end) = <<b, f>>
  BY <1>13, <1>15 DEF snapWindow
<1>21. b <= idx
  BY <1>10, <1>14
<1> QED
  BY <1>2, <1>12, <1>18, <1>19, <1>20, <1>21 DEF SnippetShowsToken

-----------------------------------------------------------------------------
(* Lines.                                                                  *)

(* The line number goes up behind every newline and nowhere else.          *)
LEMMA LineSteps ==
    ASSUME NEW d \in Seq(TextBytes)
    PROVE  /\ LineOf(d, 0) = 1
           /\ \A p \in 0..Len(d) : LineOf(d, p) \in Nat \ {0}
           /\ \A p \in 0..(Len(d) - 1) :
                 LineOf(d, p + 1) = LineOf(d, p) + (IF d[p + 1] = "n" THEN 1 ELSE 0)
           /\ LineOf(d, Len(d)) = 1 + Cardinality(Newlines(d))
<1> DEFINE NL(p) == {i \in Newlines(d) : i <= p}
<1>1. Len(d) \in Nat
  OBVIOUS
<1>2. IsFiniteSet(Newlines(d))
  <2>1. IsFiniteSet(1..Len(d)) /\ Newlines(d) \in SUBSET (1..Len(d))
    BY <1>1, FS_Interval DEF Newlines
  <2> QED
    BY <2>1, FS_Subset
<1>3. \A p : LineOf(d, p) = 1 + Cardinality(NL(p)) /\ NL(p) \in SUBSET Newlines(d)
  BY DEF LineOf
<1>4. \A p : IsFiniteSet(NL(p)) /\ Cardinality(NL(p)) \in Nat
  BY <1>2, <1>3, FS_Subset, FS_CardinalityType
<1>5. NL(0) = {} /\ NL(Len(d)) = Newlines(d)
  BY <1>1 DEF Newlines
<1>6. ASSUME NEW p \in 0..(Len(d) - 1)
      PROVE  LineOf(d, p + 1) = LineOf(d, p) + (IF d[p + 1] = "n" THEN 1 ELSE 0)
  <2>1. p + 1 \in 1..Len(d)
    BY <1>1
  <2>2. CASE d[p + 1] = "n"
    <3>1. NL(p + 1) = NL(p) \cup {p + 1} /\ p + 1 \notin NL(p)
      BY <2>1, <2>2 DEF Newlines
    <3> HIDE DEF NL
    <3>2. Cardinality(NL(p + 1)) = Cardinality(NL(p)) + 1
      BY <1>4, <3>1, FS_AddElement
    <3> QED
      BY <1>3, <1>4, <2>2, <3>2
  <2>3. CASE d[p + 1] # "n"
    <3>1. NL(p + 1) = NL(p)
      BY <2>1, <2>3 DEF Newlines
    <3> HIDE DEF NL
    <3> QED
      BY <1>3, <1>4, <2>3, <3>1
  <2> QED
    BY <2>2, <2>3
<1> HIDE DEF NL
<1> QED
  BY <1>3, <1>4, <1>5, <1>6, FS_EmptySet

LEMMA LinesGrow ==
    ASSUME NEW d \in Seq(TextBytes), NEW q \in 0..Len(d), NEW p \in 0..q
    PROVE  LineOf(d, p) <= LineOf(d, q)
<1>1. Len(d) \in Nat
  OBVIOUS
<1> DEFINE S == {k \in Nat : p + k <= Len(d) => LineOf(d, p) <= LineOf(d, p + k)}
<1>2. 0 \in S
  <2>1. p + 0 = p /\ LineOf(d, p) \in Nat
    BY LineSteps
  <2> QED
    BY <2>1
<1>3. ASSUME NEW k \in Nat, k \in S PROVE k + 1 \in S
  <2> SUFFICES ASSUME p + (k + 1) <= Len(d) PROVE LineOf(d, p) <= LineOf(d, p + (k + 1))
    OBVIOUS
  <2>1. /\ p + k \in 0..(Len(d) - 1) /\ p + k \in 0..Len(d) /\ p \in 0..Len(d)
        /\ p + (k + 1) = (p + k) + 1 /\ p + k <= Len(d)
    BY <1>1
  <2>2. LineOf(d, p) <= LineOf(d, p + k)
    BY <1>3, <2>1
  <2>3. /\ LineOf(d, p) \in Nat /\ LineOf(d, p + k) \in Nat
        /\ LineOf(d, (p + k) + 1) = LineOf(d, p + k) + (IF d[(p + k) + 1] = "n" THEN 1 ELSE 0)
    BY <2>1, LineSteps
  <2> QED
    BY <2>1, <2>2, <2>3
<1> HIDE DEF S
<1>4. q - p \in S
  <2>1. q - p \in Nat
    OBVIOUS
  <2> QED
    BY <1>2, <1>3, <2>1, Induction
<1>5. p + (q - p) = q /\ q <= Len(d)
  OBVIOUS
<1> QED
  BY <1>4, <1>5 DEF S

(* The loop that notes where lines start.                                  *)
IsStarts(to, d, n) ==
    to = [i \in 0..n |->
            IF i = 0 THEN <<0>> ELSE IF d[i] = "n" THEN Append(to[i - 1], i) ELSE to[i - 1]]

LEMMA StartsExist ==
    ASSUME NEW d, NEW n \in Nat
    PROVE  \E to : IsStarts(to, d, n)
<1> DEFINE S == {m \in Nat : \E to : IsStarts(to, d, m)}
<1>1. 0 \in S
  <2>1. IsStarts([k \in 0..0 |-> <<0>>], d, 0)
    BY DEF IsStarts
  <2> QED
    BY <2>1
<1>2. ASSUME NEW m \in Nat, m \in S PROVE m + 1 \in S
  <2>1. PICK t : IsStarts(t, d, m)
    BY <1>2
  <2> DEFINE more == IF d[m + 1] = "n" THEN Append(t[m], m + 1) ELSE t[m]
             u    == [k \in 0..(m + 1) |-> IF k = m + 1 THEN more ELSE t[k]]
  <2>2. ASSUME NEW k \in 0..(m + 1)
        PROVE  u[k] = IF k = 0 THEN <<0>> ELSE IF d[k] = "n" THEN Append(u[k - 1], k) ELSE u[k - 1]
    <3>1. CASE k = m + 1
      <4>1. u[k] = more /\ u[k - 1] = t[m] /\ k # 0
        <5> HIDE DEF more
        <5> QED
          BY <3>1
      <4> QED
        BY <3>1, <4>1
    <3>2. CASE k # m + 1 /\ k # 0
      <4>1. k \in 0..m /\ k - 1 \in 0..m /\ k - 1 # m + 1 /\ k - 1 \in 0..(m + 1)
        BY <3>2
      <4>2. u[k] = t[k] /\ u[k - 1] = t[k - 1]
        BY <3>2, <4>1
      <4>3. t[k] = IF d[k] = "n" THEN Append(t[k - 1], k) ELSE t[k - 1]
        BY <2>1, <3>2, <4>1 DEF IsStarts
      <4> QED
        BY <3>2, <4>2, <4>3
    <3>3. CASE k # m + 1 /\ k = 0
      <4>1. t[0] = <<0>>
        BY <2>1 DEF IsStarts
      <4> QED
        BY <3>3, <4>1
    <3> QED
      BY <3>1, <3>2, <3>3
  <2>3. u = [k \in 0..(m + 1) |-> u[k]]
    OBVIOUS
  <2> HIDE DEF u
  <2>4. IsStarts(u, d, m + 1)
    BY <2>2, <2>3 DEF IsStarts
  <2> QED
    BY <2>4
<1> HIDE DEF S
<1>3. Nat \subseteq S
  BY <1>1, <1>2, Induction
<1> QED
  BY <1>3 DEF S

(* The k-th start is at or before p exactly when p is in line k or behind. *)
StartsUpTo(s, d, m) ==
    /\ s \in Seq(0..m) /\ Len(s) = LineOf(d, m)
    /\ \A k \in 1..Len(s), p \in 0..m : s[k] <= p <=> k <= LineOf(d, p)

LEMMA StartsAreWhere ==
    ASSUME NEW d \in Seq(TextBytes)
    PROVE  StartsUpTo(starts(d), d, Len(d))
<1> DEFINE to == CHOOSE f : f = [i \in 0..Len(d) |->
                    IF i = 0 THEN <<0>> ELSE IF d[i] = "n" THEN Append(f[i - 1], i) ELSE f[i - 1]]
<1>1. Len(d) \in Nat
  OBVIOUS
<1>2. IsStarts(to, d, Len(d))
  <2>1. \E f : f = [i \in 0..Len(d) |->
                    IF i = 0 THEN <<0>> ELSE IF d[i] = "n" THEN Append(f[i - 1], i) ELSE f[i - 1]]
    <3>1. PICK f : IsStarts(f, d, Len(d))
      BY <1>1, StartsExist
    <3> QED
      BY <3>1 DEF IsStarts
  <2>2. to = [i \in 0..Len(d) |->
                    IF i = 0 THEN <<0>> ELSE IF d[i] = "n" THEN Append(to[i - 1], i) ELSE to[i - 1]]
    BY <2>1
  <2> HIDE DEF to
  <2> QED
    BY <2>2 DEF IsStarts
<1>3. starts(d) = to[Len(d)]
  BY DEF starts
<1> HIDE DEF to
<1> DEFINE S == {m \in Nat : m <= Len(d) => StartsUpTo(to[m], d, m)}
<1>4. 0 \in S
  <2>1. to[0] = <<0>> /\ LineOf(d, 0) = 1
    BY <1>1, <1>2, LineSteps DEF IsStarts
  <2>2. <<0>> \in Seq(0..0) /\ Len(<<0>>) = 1 /\ <<0>>[1] = 0
    OBVIOUS
  <2>3. \A k \in 1..1, p \in 0..0 : k = 1 /\ p = 0
    OBVIOUS
  <2>4. StartsUpTo(to[0], d, 0)
    BY <2>1, <2>2, <2>3 DEF StartsUpTo
  <2> QED
    BY <2>4
<1>5. ASSUME NEW m \in Nat, m \in S PROVE m + 1 \in S
  <2> SUFFICES ASSUME m + 1 <= Len(d) PROVE StartsUpTo(to[m + 1], d, m + 1)
    OBVIOUS
  <2>1. /\ m + 1 \in 0..Len(d) /\ m \in 0..Len(d) /\ m \in 0..(Len(d) - 1) /\ m <= Len(d)
        /\ m + 1 # 0 /\ (m + 1) - 1 = m
    BY <1>1
  <2>2. PICK s : s = to[m]
    OBVIOUS
  <2>3. StartsUpTo(s, d, m)
    BY <1>5, <2>1, <2>2
  <2>4. to[m + 1] = IF d[m + 1] = "n" THEN Append(s, m + 1) ELSE s
    BY <1>2, <2>1, <2>2 DEF IsStarts
  <2>5. PICK n : n = Len(s)
    OBVIOUS
  <2>6. /\ s \in Seq(0..(m + 1)) /\ n \in Nat \ {0} /\ n = LineOf(d, m)
        /\ \A k \in 1..n : s[k] \in 0..m
    <3>1. s \in Seq(0..m) /\ n = LineOf(d, m) /\ LineOf(d, m) \in Nat \ {0}
      BY <2>1, <2>3, <2>5, LineSteps DEF StartsUpTo
    <3>2. \A k \in 1..n : s[k] \in 0..m
      BY <2>5, <3>1, ElementOfSeq
    <3>3. \A k \in 1..n : s[k] \in 0..(m + 1)
      BY <3>2
    <3> QED
      BY <2>5, <3>1, <3>2, <3>3, SeqDef
  <2>7. LineOf(d, m + 1) = n + (IF d[m + 1] = "n" THEN 1 ELSE 0)
    BY <2>1, <2>6, LineSteps
  <2>8. ASSUME NEW k \in 1..n, NEW p \in 0..(m + 1) PROVE s[k] <= p <=> k <= LineOf(d, p)
    <3>1. CASE p \in 0..m
      BY <2>3, <2>5, <3>1 DEF StartsUpTo
    <3>2. CASE p = m + 1
      <4>1. s[k] <= p
        BY <2>6, <3>2
      <4>2. k <= LineOf(d, p)
        BY <2>6, <2>7, <3>2
      <4> QED
        BY <4>1, <4>2
    <3> QED
      BY <3>1, <3>2
  <2>9. CASE d[m + 1] = "n"
    <3>1. PICK t : t = Append(s, m + 1)
      OBVIOUS
    <3>2. /\ t \in Seq(0..(m + 1)) /\ Len(t) = n + 1 /\ t[n + 1] = m + 1
          /\ \A k \in 1..n : t[k] = s[k]
      <4>1. PICK R : R = 0..(m + 1)
        OBVIOUS
      <4>2. m + 1 \in R /\ s \in Seq(R)
        BY <2>6, <4>1
      <4> QED
        BY <2>5, <3>1, <4>1, <4>2, AppendProperties
    <3>3. ASSUME NEW p \in 0..(m + 1) PROVE m + 1 <= p <=> n + 1 <= LineOf(d, p)
      <4>1. CASE p = m + 1
        BY <2>6, <2>7, <2>9, <4>1
      <4>2. CASE p \in 0..m
        <5>1. LineOf(d, p) <= n /\ LineOf(d, p) \in Nat
          <6>1. p \in 0..Len(d)
            BY <2>1, <4>2
          <6> QED
            BY <2>1, <2>6, <4>2, <6>1, LinesGrow, LineSteps
        <5> QED
          BY <2>6, <4>2, <5>1
      <4> QED
        BY <4>1, <4>2
    <3>4. ASSUME NEW k \in 1..(n + 1), NEW p \in 0..(m + 1) PROVE t[k] <= p <=> k <= LineOf(d, p)
      <4>1. CASE k = n + 1
        BY <3>2, <3>3, <4>1
      <4>2. CASE k \in 1..n
        BY <2>8, <3>2, <4>2
      <4> QED
        BY <2>6, <4>1, <4>2
    <3>5. StartsUpTo(t, d, m + 1)
      BY <2>7, <2>9, <3>2, <3>4 DEF StartsUpTo
    <3> QED
      BY <2>4, <2>9, <3>1, <3>5
  <2>10. CASE d[m + 1] # "n"
    <3>1. LineOf(d, m + 1) = n
      BY <2>6, <2>7, <2>10
    <3>2. StartsUpTo(s, d, m + 1)
      BY <2>5, <2>6, <2>8, <3>1 DEF StartsUpTo
    <3> QED
      BY <2>4, <2>10, <3>2
  <2> QED
    BY <2>9, <2>10
<1> HIDE DEF S
<1>6. Len(d) \in S
  BY <1>1, <1>4, <1>5, Induction
<1> QED
  BY <1>1, <1>3, <1>6 DEF S

(* The start of line k.                                                    *)
LEMMA LineStartIs ==
    ASSUME NEW d \in Seq(TextBytes), NEW k \in 1..Len(starts(d))
    PROVE  /\ starts(d)[k] \in 0..Len(d) /\ Clean(d, starts(d)[k])
           /\ LineOf(d, starts(d)[k]) = k
           /\ starts(d)[k] > 0 => LineOf(d, starts(d)[k] - 1) = k - 1
           /\ \A p \in 0..Len(d) : starts(d)[k] <= p <=> k <= LineOf(d, p)
<1>1. PICK s : s = starts(d)
  OBVIOUS
<1>2. Len(d) \in Nat /\ StartsUpTo(s, d, Len(d)) /\ k \in 1..Len(s)
  BY <1>1, StartsAreWhere
<1>3. PICK b : b = s[k]
  OBVIOUS
<1>4. b \in 0..Len(d)
  <2>1. PICK R : R = 0..Len(d)
    OBVIOUS
  <2>2. s \in Seq(R)
    BY <1>2, <2>1 DEF StartsUpTo
  <2> QED
    BY <1>2, <1>3, <2>1, <2>2, ElementOfSeq
<1>5. \A p \in 0..Len(d) : b <= p <=> k <= LineOf(d, p)
  BY <1>2, <1>3 DEF StartsUpTo
<1>6. k <= LineOf(d, b) /\ k \in Nat \ {0} /\ LineOf(d, b) \in Nat
  BY <1>2, <1>4, <1>5, LineSteps
<1>7. CASE b = 0
  <2>1. LineOf(d, b) = 1
    BY <1>7, LineSteps
  <2>2. k = 1
    BY <1>6, <2>1
  <2> QED
    BY <1>1, <1>3, <1>4, <1>5, <1>7, <2>1, <2>2 DEF Clean
<1>8. CASE b # 0
  <2>1. b - 1 \in 0..(Len(d) - 1) /\ b - 1 \in 0..Len(d) /\ (b - 1) + 1 = b /\ ~(b <= b - 1)
    BY <1>2, <1>4, <1>8
  <2>2. ~(k <= LineOf(d, b - 1)) /\ LineOf(d, b - 1) \in Nat
    BY <1>5, <2>1, LineSteps
  <2>3. LineOf(d, b) = LineOf(d, b - 1) + (IF d[b] = "n" THEN 1 ELSE 0)
    <3>1. LineOf(d, (b - 1) + 1) = LineOf(d, b - 1) + (IF d[(b - 1) + 1] = "n" THEN 1 ELSE 0)
      BY <2>1, LineSteps
    <3> QED
      BY <2>1, <3>1
  <2>4. d[b] = "n" /\ LineOf(d, b) = k /\ LineOf(d, b - 1) = k - 1
    BY <1>6, <2>2, <2>3
  <2>5. Clean(d, b)
    BY <2>4 DEF Clean
  <2> QED
    BY <1>1, <1>3, <1>4, <1>5, <2>4, <2>5
<1> QED
  BY <1>7, <1>8

LEMMA CountIs ==
    ASSUME NEW d \in Seq(TextBytes), d # <<>>
    PROVE  countLines(d) = LineOf(d, Len(d) - 1)
<1>1. Len(d) \in Nat \ {0}
  BY EmptySeq
<1>2. Len(d) - 1 \in 0..(Len(d) - 1) /\ Len(d) - 1 \in 0..Len(d) /\ (Len(d) - 1) + 1 = Len(d)
  BY <1>1
<1>3. LineOf(d, (Len(d) - 1) + 1) = LineOf(d, Len(d) - 1) + (IF d[(Len(d) - 1) + 1] = "n" THEN 1 ELSE 0)
  BY <1>2, LineSteps
<1>4. 1 + Cardinality(Newlines(d)) = LineOf(d, Len(d) - 1) + (IF Last(d) = "n" THEN 1 ELSE 0)
  BY <1>2, <1>3, LineSteps DEF Last
<1>5. countLines(d) = 1 + (Cardinality(Newlines(d)) - (IF Last(d) = "n" THEN 1 ELSE 0))
  BY DEF countLines
<1>6. LineOf(d, Len(d) - 1) \in Nat
  BY <1>2, LineSteps
<1>7. Cardinality(Newlines(d)) \in Nat
  <2>1. IsFiniteSet(1..Len(d)) /\ Newlines(d) \in SUBSET (1..Len(d))
    BY <1>1, FS_Interval DEF Newlines
  <2> QED
    BY <2>1, FS_Subset, FS_CardinalityType
<1> QED
  BY <1>4, <1>5, <1>6, <1>7

(* Where an accepted line selector leads.                                  *)
LEMMA RangeIs ==
    ASSUME NEW d, Text(d), NEW s \in Nat, NEW e \in Nat, LineSelectorOK(d, s, e)
    PROVE  \E end \in 0..Len(d) : \E begin \in 0..end :
              /\ lineByteRange(d, s, e) = <<begin, end>>
              /\ Clean(d, begin) /\ Clean(d, end)
              /\ LineOf(d, begin) = s /\ (begin < end => LineOf(d, end - 1) = e)
              /\ \A p \in 0..(Len(d) - 1) : LineOf(d, p) \in s..e <=> p \in begin..(end - 1)
<1>1. d \in Seq(TextBytes) /\ Len(d) \in Nat /\ Clean(d, Len(d))
  BY DEF Text, Runes
<1>2. s >= 1 /\ e >= s /\ s <= countLines(d) /\ e <= countLines(d)
  BY DEF LineSelectorOK
<1>3. d # <<>>
  <2>1. d = <<>> => countLines(d) = 0
    BY DEF countLines
  <2> QED
    BY <1>2, <2>1
<1>4. Len(d) - 1 \in 0..(Len(d) - 1) /\ Len(d) - 1 \in 0..Len(d) /\ Len(d) \in 0..Len(d)
  BY <1>1, <1>3, EmptySeq
<1>5. e <= LineOf(d, Len(d) - 1) /\ LineOf(d, Len(d) - 1) <= LineOf(d, Len(d))
  BY <1>1, <1>2, <1>3, <1>4, CountIs, LinesGrow
<1>6. PICK n : n = Len(starts(d))
  OBVIOUS
<1>7. n = LineOf(d, Len(d)) /\ n \in Nat \ {0} /\ LineOf(d, Len(d) - 1) \in Nat
  BY <1>1, <1>4, <1>6, StartsAreWhere, LineSteps DEF StartsUpTo
<1>8. s \in 1..n /\ e \in 1..n
  BY <1>2, <1>5, <1>7
<1>9. PICK begin : begin = starts(d)[s]
  OBVIOUS
<1>10. PICK end : end = IF e < n THEN starts(d)[e + 1] ELSE Len(d)
  OBVIOUS
<1>11. /\ begin \in 0..Len(d) /\ Clean(d, begin) /\ LineOf(d, begin) = s
       /\ \A p \in 0..Len(d) : begin <= p <=> s <= LineOf(d, p)
  BY <1>1, <1>6, <1>8, <1>9, LineStartIs
<1>12. /\ end \in 0..Len(d) /\ Clean(d, end) /\ end > 0 /\ LineOf(d, end - 1) >= e
       /\ s <= LineOf(d, end)
       /\ \A p \in 0..(Len(d) - 1) : p < end <=> LineOf(d, p) <= e
  <2>1. CASE e < n
    <3>1. e + 1 \in 1..n
      BY <1>7, <1>8, <2>1
    <3>2. /\ end \in 0..Len(d) /\ Clean(d, end) /\ LineOf(d, end) = e + 1
          /\ end > 0 => LineOf(d, end - 1) = (e + 1) - 1
          /\ \A p \in 0..Len(d) : end <= p <=> e + 1 <= LineOf(d, p)
      BY <1>1, <1>6, <1>10, <2>1, <3>1, LineStartIs
    <3>3. end > 0
      <4>1. LineOf(d, 0) = 1 /\ e + 1 # 1
        BY <1>1, <1>8, LineSteps
      <4> QED
        BY <3>2, <4>1
    <3>4. ASSUME NEW p \in 0..(Len(d) - 1) PROVE p < end <=> LineOf(d, p) <= e
      <4>1. p \in 0..Len(d) /\ LineOf(d, p) \in Nat
        BY <1>1, LineSteps
      <4> QED
        BY <3>2, <4>1
    <3>5. LineOf(d, end - 1) >= e /\ s <= LineOf(d, end)
      BY <1>2, <3>2, <3>3
    <3> QED
      BY <3>2, <3>3, <3>4, <3>5
  <2>2. CASE ~(e < n)
    <3>1. end = Len(d) /\ e = n
      BY <1>7, <1>8, <1>10, <2>2
    <3>2. ASSUME NEW p \in 0..(Len(d) - 1) PROVE p < end <=> LineOf(d, p) <= e
      <4>1. p \in 0..Len(d) /\ LineOf(d, p) <= LineOf(d, Len(d))
        BY <1>1, <1>4, LinesGrow
      <4> QED
        BY <1>7, <3>1, <4>1
    <3> QED
      BY <1>1, <1>4, <1>5, <1>7, <1>8, <3>1, <3>2
  <2> QED
    BY <2>1, <2>2
<1>13. begin <= end
  BY <1>11, <1>12
<1>14. Max({begin, end}) = end
  <2>1. {begin, end} \subseteq 0..end /\ end \in Nat
    BY <1>11, <1>12, <1>13
  <2>2. PICK m : m = Max({begin, end})
    OBVIOUS
  <2>3. m \in {begin, end} /\ m >= end
    BY <2>1, <2>2, MaxOfBounded
  <2> QED
    BY <1>11, <1>12, <1>13, <2>2, <2>3
<1>15. Max({s, 1}) = s
  <2>1. {s, 1} \subseteq 0..s
    BY <1>2
  <2>2. PICK m : m = Max({s, 1})
    OBVIOUS
  <2>3. m \in {s, 1} /\ m >= s
    BY <2>1, <2>2, MaxOfBounded
  <2> QED
    BY <1>2, <2>2, <2>3
<1>16. lineByteRange(d, s, e) = <<begin, end>>
  <2>1. ~(s > n)
    BY <1>7, <1>8
  <2> QED
    BY <1>6, <1>9, <1>10, <1>14, <1>15, <2>1 DEF lineByteRange
<1>17. ASSUME NEW p \in 0..(Len(d) - 1)
       PROVE  LineOf(d, p) \in s..e <=> p \in begin..(end - 1)
  <2>1. p \in 0..Len(d) /\ LineOf(d, p) \in Nat
    BY <1>1, LineSteps
  <2> QED
    BY <1>11, <1>12, <2>1
<1>18. begin < end => LineOf(d, end - 1) = e
  <2>1. end - 1 \in 0..(Len(d) - 1) /\ end - 1 < end /\ end - 1 \in 0..Len(d)
    BY <1>1, <1>12
  <2>2. LineOf(d, end - 1) <= e /\ LineOf(d, end - 1) \in Nat
    BY <1>1, <1>12, <2>1, LineSteps
  <2> QED
    BY <1>12, <2>2
<1>19. begin \in 0..end
  BY <1>11, <1>12, <1>13
<1> QED
  BY <1>11, <1>12, <1>16, <1>17, <1>18, <1>19

(* Lines are counted in a slice as in the text.                            *)
LEMMA LinesOfSlice ==
    ASSUME NEW d, Runes(d), NEW hi \in 0..Len(d), NEW lo \in 0..hi, Clean(d, lo),
           NEW q \in 0..(hi - lo)
    PROVE  LineOf(Slice(d, lo, hi), q) = LineOf(d, lo + q) - LineOf(d, lo) + 1
<1>1. d \in Seq(TextBytes) /\ Len(d) \in Nat
  BY DEF Runes
<1>2. PICK x : x = Slice(d, lo, hi)
  OBVIOUS
<1>3. x \in Seq(TextBytes) /\ Len(x) = hi - lo /\ \A i \in 1..(hi - lo) : x[i] = d[lo + i]
  <2>1. Runes(x) /\ Len(x) = hi - lo /\ \A i \in 1..(hi - lo) : x[i] = d[lo + i]
    BY <1>2, SliceIs
  <2> QED
    BY <2>1 DEF Runes
<1>4. LineOf(x, 0) = 1 /\ LineOf(d, lo) \in Nat
  <2>1. lo \in 0..Len(d)
    BY <1>1
  <2> QED
    BY <1>1, <1>3, <2>1, LineSteps
<1> DEFINE S == {k \in Nat : k <= hi - lo => LineOf(x, k) = LineOf(d, lo + k) - LineOf(d, lo) + 1}
<1>5. 0 \in S
  <2>1. lo + 0 = lo
    OBVIOUS
  <2> QED
    BY <1>4, <2>1
<1>6. ASSUME NEW k \in Nat, k \in S PROVE k + 1 \in S
  <2> SUFFICES ASSUME k + 1 <= hi - lo
               PROVE  LineOf(x, k + 1) = LineOf(d, lo + (k + 1)) - LineOf(d, lo) + 1
    OBVIOUS
  <2>1. /\ k \in 0..(Len(x) - 1) /\ lo + k \in 0..(Len(d) - 1) /\ lo + k \in 0..Len(d)
        /\ k + 1 \in 1..(hi - lo) /\ lo + (k + 1) = (lo + k) + 1 /\ k <= hi - lo
    BY <1>1, <1>3
  <2>2. LineOf(x, k + 1) = LineOf(x, k) + (IF x[k + 1] = "n" THEN 1 ELSE 0)
    BY <1>3, <2>1, LineSteps
  <2>3. /\ LineOf(d, (lo + k) + 1) = LineOf(d, lo + k) + (IF d[(lo + k) + 1] = "n" THEN 1 ELSE 0)
        /\ LineOf(d, lo + k) \in Nat
    BY <1>1, <2>1, LineSteps
  <2>4. x[k + 1] = d[(lo + k) + 1]
    BY <1>3, <2>1
  <2>5. LineOf(x, k) = LineOf(d, lo + k) - LineOf(d, lo) + 1
    BY <1>6, <2>1
  <2> QED
    BY <1>4, <2>1, <2>2, <2>3, <2>4, <2>5
<1> HIDE DEF S
<1>7. q \in S /\ q <= hi - lo
  BY <1>5, <1>6, Induction
<1> QED
  BY <1>2, <1>7 DEF S

(* What the budget leaves of a range that starts and ends between runes.   *)
LEMMA BudgetCuts ==
    ASSUME NEW d, Text(d), NEW end \in 0..Len(d), NEW begin \in 0..end,
           Clean(d, begin), Clean(d, end), NEW max \in Nat \ {0}
    PROVE  \E n \in 0..(end - begin) :
              /\ n = CapBytes(Slice(d, begin, end), max) /\ n <= max
              /\ Clean(d, begin + n) /\ Len(Slice(d, begin, begin + n)) = n
              /\ Valid(Slice(d, begin, begin + n))
              /\ end - begin <= max <=> n = end - begin
              /\ n < end - begin => max < DecodeRune(d, begin + n) + n
<1>1. Runes(d) /\ Len(d) \in Nat /\ Clean(d, Len(d))
  BY DEF Text, Runes
<1>2. PICK x : x = Slice(d, begin, end)
  OBVIOUS
<1>3. PICK size : size = end - begin
  OBVIOUS
<1>4. /\ Runes(x) /\ Len(x) = size
      /\ \A i \in 1..size : x[i] = d[begin + i]
      /\ \A p \in 0..size : Clean(x, p) <=> Clean(d, begin + p)
  BY <1>1, <1>2, <1>3, SliceIs
<1>5. PICK n : n = CapBytes(x, max)
  OBVIOUS
<1>6. size \in Nat /\ begin + size = end
  BY <1>3
<1>7. /\ n \in 0..size /\ n <= max /\ Clean(d, begin + n) /\ (size <= max <=> n = size)
      /\ n < size => max < DecodeRune(d, begin + n) + n
  <2>1. CASE size <= max
    <3>1. n = size
      BY <1>4, <1>5, <2>1 DEF CapBytes
    <3> QED
      BY <1>6, <2>1, <3>1
  <2>2. CASE ~(size <= max)
    <3>1. n = Back(x, max) /\ max \in 0..(size - 1)
      BY <1>4, <1>5, <1>6, <2>2 DEF CapBytes
    <3>2. n = (IF Clean(x, max) THEN max ELSE max - 1) /\ n \in 0..max /\ Clean(x, n)
      BY <1>4, <3>1, BackIs
    <3>3. n \in 0..size /\ n <= max /\ n # size /\ max \in 0..size
      BY <1>6, <3>1, <3>2
    <3>4. Clean(d, begin + n)
      BY <1>4, <3>2, <3>3
    <3>5. begin + n \in 0..(Len(d) - 1) /\ begin + max \in 0..Len(d) /\ (begin + n) + 1 = begin + (n + 1)
      BY <1>1, <1>6, <3>1, <3>2
    <3>6. DecodeRune(d, begin + n) \in {1, 2}
      <4>1. ~(~Clean(d, begin + n + 1) /\ begin + n + 1 = Len(d))
        BY <1>1
      <4> QED
        BY <1>1, <3>4, <3>5, <4>1, DecodeIs
    <3>7. CASE Clean(x, max)
      BY <2>2, <3>2, <3>3, <3>4, <3>6, <3>7
    <3>8. CASE ~Clean(x, max)
      <4>1. n = max - 1 /\ ~Clean(d, begin + max)
        BY <1>4, <3>2, <3>3, <3>8
      <4>2. d[begin + max] = "L" /\ begin + max = (begin + n) + 1
        BY <4>1 DEF Clean
      <4>3. DecodeRune(d, begin + n) = 2
        BY <1>1, <3>4, <3>5, <3>6, <4>2, DecodeIs
      <4> QED
        BY <2>2, <3>3, <3>4, <4>1, <4>3
    <3> QED
      BY <3>7, <3>8
  <2> QED
    BY <2>1, <2>2
<1>8. begin + n \in 0..Len(d) /\ begin \in 0..(begin + n) /\ (begin + n) - begin = n
  BY <1>1, <1>6, <1>7
<1>9. Valid(Slice(d, begin, begin + n)) /\ Len(Slice(d, begin, begin + n)) = n
  BY <1>1, <1>7, <1>8, SliceIs, SliceIsValid
<1> QED
  BY <1>2, <1>3, <1>5, <1>7, <1>9

LEMMA LinesAlwaysExact ==
    ASSUME NEW d, Text(d), NEW s \in Nat, NEW e \in Nat, NEW max \in Nat \ {0},
           LineSelectorOK(d, s, e)
    PROVE  LinesAreExact(d, s, e, max)
<1>1. Runes(d) /\ d \in Seq(TextBytes) /\ Len(d) \in Nat
  BY DEF Text, Runes
<1>2. PICK end \in 0..Len(d) : \E begin \in 0..end :
         /\ lineByteRange(d, s, e) = <<begin, end>>
         /\ Clean(d, begin) /\ Clean(d, end)
         /\ LineOf(d, begin) = s /\ (begin < end => LineOf(d, end - 1) = e)
         /\ \A p \in 0..(Len(d) - 1) : LineOf(d, p) \in s..e <=> p \in begin..(end - 1)
  BY RangeIs
<1>3. PICK begin \in 0..end :
         /\ lineByteRange(d, s, e) = <<begin, end>>
         /\ Clean(d, begin) /\ Clean(d, end)
         /\ LineOf(d, begin) = s /\ (begin < end => LineOf(d, end - 1) = e)
         /\ \A p \in 0..(Len(d) - 1) : LineOf(d, p) \in s..e <=> p \in begin..(end - 1)
  BY <1>2
<1>4. PICK n \in 0..(end - begin) :
         /\ n = CapBytes(Slice(d, begin, end), max) /\ n <= max
         /\ Clean(d, begin + n) /\ Len(Slice(d, begin, begin + n)) = n
         /\ Valid(Slice(d, begin, begin + n))
         /\ end - begin <= max <=> n = end - begin
         /\ n < end - begin => max < DecodeRune(d, begin + n) + n
  BY <1>3, BudgetCuts
<1>5. PICK cut : cut = Slice(d, begin, begin + n)
  OBVIOUS
<1>6. PICK whole : whole = ReadLines(d, s, e)
  OBVIOUS
<1>7. whole = [start |-> begin, end |-> end, lineStart |-> s, lineEnd |-> e]
  BY <1>3, <1>6 DEF ReadLines
<1>8. PICK nl : nl = Cardinality(Newlines(cut)) - (IF cut # <<>> /\ Last(cut) = "n" THEN 1 ELSE 0)
  OBVIOUS
<1>9. PICK r : r = ApplyFetchBudget(d, whole, max)
  OBVIOUS
<1>10. r = [start |-> begin, end |-> begin + n, lineStart |-> s,
            lineEnd |-> IF end - begin <= max \/ s = 0 THEN e ELSE s + nl]
  BY <1>4, <1>5, <1>7, <1>8, <1>9 DEF ApplyFetchBudget
<1>11. s # 0
  BY DEF LineSelectorOK
<1>12. cut # <<>> => LineOf(d, r.start) = r.lineStart /\ LineOf(d, r.end - 1) = r.lineEnd
  <2> SUFFICES ASSUME cut # <<>>
               PROVE  LineOf(d, begin) = s
                      /\ LineOf(d, begin + n - 1) = IF end - begin <= max THEN e ELSE s + nl
    BY <1>10, <1>11
  <2>1. /\ begin + n \in 0..Len(d) /\ begin \in 0..(begin + n) /\ begin \in 0..Len(d)
        /\ (begin + n) - begin = n
    BY <1>1, <1>3, <1>4
  <2>2. Runes(cut) /\ cut \in Seq(TextBytes) /\ Len(cut) = n
    <3>1. Runes(cut) /\ Len(cut) = n
      BY <1>1, <1>3, <1>5, <2>1, SliceIs
    <3> QED
      BY <3>1 DEF Runes
  <2>3. n \in Nat \ {0}
    BY <2>2, EmptySeq
  <2>4. CASE end - begin <= max
    <3>1. begin + n = end /\ begin < end
      BY <1>3, <1>4, <2>3, <2>4
    <3> QED
      BY <1>3, <2>4, <3>1
  <2>5. CASE ~(end - begin <= max)
    <3>1. n - 1 \in 0..n /\ begin + (n - 1) = begin + n - 1
      BY <2>3
    <3>2. LineOf(cut, n - 1) = LineOf(d, begin + (n - 1)) - LineOf(d, begin) + 1
      BY <1>1, <1>3, <1>5, <2>1, <3>1, LinesOfSlice
    <3>3. countLines(cut) = LineOf(cut, n - 1)
      BY <2>2, CountIs
    <3>4. countLines(cut) = 1 + (Cardinality(Newlines(cut)) - (IF Last(cut) = "n" THEN 1 ELSE 0))
      BY DEF countLines
    <3>5. nl = Cardinality(Newlines(cut)) - (IF Last(cut) = "n" THEN 1 ELSE 0)
      BY <1>8
    <3>6. LineOf(d, begin + (n - 1)) \in Nat /\ Cardinality(Newlines(cut)) \in Nat
      <4>1. IsFiniteSet(1..Len(cut)) /\ Newlines(cut) \in SUBSET (1..Len(cut))
        BY <2>2, <2>3, FS_Interval DEF Newlines
      <4>2. begin + (n - 1) \in 0..Len(d)
        BY <2>1, <2>3
      <4> QED
        BY <1>1, <4>1, <4>2, LineSteps, FS_Subset, FS_CardinalityType
    <3>7. LineOf(d, begin + (n - 1)) = s + nl
      <4>1. PICK over \in {0, 1} : over = IF Last(cut) = "n" THEN 1 ELSE 0
        OBVIOUS
      <4>2. LineOf(cut, n - 1) = 1 + nl /\ LineOf(d, begin) = s /\ nl \in Int
        BY <1>3, <3>3, <3>4, <3>5, <3>6, <4>1
      <4> QED
        BY <3>2, <3>6, <4>2
    <3> QED
      BY <1>3, <2>5, <3>1, <3>7
  <2> QED
    BY <2>4, <2>5
<1>13. r.end < whole.end => max < DecodeRune(d, r.end) + Len(cut)
  <2> SUFFICES ASSUME begin + n < end PROVE max < DecodeRune(d, begin + n) + n
    BY <1>4, <1>5, <1>7, <1>10
  <2>1. n < end - begin
    BY <1>3, <1>4
  <2> QED
    BY <1>4, <2>1
<1>14. cut = Slice(d, r.start, r.end) /\ Len(cut) <= max /\ Valid(cut)
  BY <1>4, <1>5, <1>10
<1>15. whole.start = begin /\ whole.end = end
  BY <1>7
<1> QED
  BY <1>3, <1>6, <1>9, <1>12, <1>13, <1>14, <1>15 DEF LinesAreExact

LEMMA CutsAlwaysExact ==
    ASSUME NEW d, Text(d)
    PROVE  CutsAreExact(d)
<1>1. MaxText \in Nat /\ Len(d) \in Nat
  BY TextAssumption DEF Text, Runes
<1>2. ASSUME NEW s \in 0..(MaxText + 1), NEW e \in 0..(MaxText + 1), NEW max \in 1..MaxText,
             LineSelectorOK(d, s, e)
      PROVE  LinesAreExact(d, s, e, max)
  <2>1. s \in Nat /\ e \in Nat /\ max \in Nat \ {0}
    BY <1>1
  <2> QED
    BY <1>2, <2>1, LinesAlwaysExact
<1>3. ASSUME NEW a \in 0..Len(d), NEW b \in 0..Len(d), NEW c \in 0..Len(d),
             ByteSelectorOK(d, a, b), ByteSelectorOK(d, b, c)
      PROVE  BytesMeet(d, a, b, c)
  <2>1. a \in Nat /\ b \in Nat /\ c \in Nat
    BY <1>1
  <2> QED
    BY <1>3, <2>1, BytesAlwaysMeet
<1> QED
  BY <1>2, <1>3, SnippetsShowTokens DEF CutsAreExact

-----------------------------------------------------------------------------
(* Chunks (ChunkText).                                                     *)

(* A sequence of steps, each made from the place the one before led to.    *)
IsWalk(f, first, step, n) == f = [k \in 1..n |-> IF k = 1 THEN first ELSE step[f[k - 1]]]

LEMMA WalkExists ==
    ASSUME NEW W, NEW first \in W, NEW step \in [W -> W], NEW n \in Nat
    PROVE  \E f \in [1..n -> W] : IsWalk(f, first, step, n)
<1> DEFINE S == {m \in Nat : \E f \in [1..m -> W] : IsWalk(f, first, step, m)}
<1>1. 0 \in S
  <2>1. [k \in 1..0 |-> first] \in [1..0 -> W] /\ IsWalk([k \in 1..0 |-> first], first, step, 0)
    BY DEF IsWalk
  <2> QED
    BY <2>1
<1>2. ASSUME NEW m \in Nat, m \in S PROVE m + 1 \in S
  <2>1. PICK f \in [1..m -> W] : IsWalk(f, first, step, m)
    BY <1>2
  <2> DEFINE u == [k \in 1..(m + 1) |-> IF k = m + 1 THEN IF m = 0 THEN first ELSE step[f[m]] ELSE f[k]]
  <2>2. ASSUME NEW k \in 1..(m + 1)
        PROVE  u[k] \in W /\ u[k] = IF k = 1 THEN first ELSE step[u[k - 1]]
    <3>1. CASE k = m + 1
      <4>1. CASE m = 0
        BY <3>1, <4>1
      <4>2. CASE m # 0
        <5>1. m \in 1..m /\ k - 1 = m /\ m # m + 1 /\ m \in 1..(m + 1) /\ k # 1
          BY <3>1, <4>2
        <5>2. u[k] = step[f[m]] /\ u[k - 1] = f[m] /\ f[m] \in W
          BY <3>1, <4>2, <5>1
        <5> QED
          BY <5>1, <5>2
      <4> QED
        BY <4>1, <4>2
    <3>2. CASE k # m + 1 /\ k # 1
      <4>1. k \in 1..m /\ k - 1 \in 1..m /\ k - 1 # m + 1 /\ k - 1 \in 1..(m + 1)
        BY <3>2
      <4>2. u[k] = f[k] /\ u[k - 1] = f[k - 1] /\ f[k] \in W
        BY <3>2, <4>1
      <4>3. f[k] = step[f[k - 1]]
        BY <2>1, <3>2, <4>1 DEF IsWalk
      <4> QED
        BY <3>2, <4>2, <4>3
    <3>3. CASE k # m + 1 /\ k = 1
      <4>1. k \in 1..m
        BY <3>3
      <4>2. u[k] = f[k] /\ f[k] \in W /\ f[k] = first
        BY <2>1, <3>3, <4>1 DEF IsWalk
      <4> QED
        BY <3>3, <4>2
    <3> QED
      BY <3>1, <3>2, <3>3
  <2>3. u = [k \in 1..(m + 1) |-> u[k]]
    OBVIOUS
  <2> HIDE DEF u
  <2>4. IsWalk(u, first, step, m + 1) /\ u \in [1..(m + 1) -> W]
    BY <2>2, <2>3 DEF IsWalk
  <2> QED
    BY <2>4
<1> HIDE DEF S
<1>3. Nat \subseteq S
  BY <1>1, <1>2, Induction
<1> QED
  BY <1>3 DEF S

(* Offsets grow with the ls.                                            *)
LEMMA OffsetsGrow ==
    ASSUME NEW ls \in Seq(Line), NEW j \in 0..Len(ls)
    PROVE  /\ offsets(ls, 0) = 0 /\ offsets(ls, j) \in Nat
           /\ \A i \in 0..(j - 1) : offsets(ls, i) < offsets(ls, j)
<1> DEFINE f == [k \in DOMAIN ls |-> ls[k].len]
           S == {m \in Nat : m <= Len(ls) => /\ Total(f, m) \in Nat
                                                /\ \A i \in 0..(m - 1) : Total(f, i) < Total(f, m)}
<1>1. /\ Len(ls) \in Nat /\ \A k \in 1..Len(ls) : f[k] \in Nat \ {0}
  <2>1. \A k \in 1..Len(ls) : ls[k] \in Line /\ k \in DOMAIN ls
    OBVIOUS
  <2>2. \A k \in 1..Len(ls) : ls[k].len \in Nat \ {0}
    BY <2>1 DEF Line
  <2> QED
    BY <2>1, <2>2
<1>2. \A m \in Nat : offsets(ls, m) = Total(f, m)
  BY DEF offsets
<1> HIDE DEF f
<1>3. 0 \in S
  BY TotalOfNone
<1>4. ASSUME NEW m \in Nat, m \in S PROVE m + 1 \in S
  <2> SUFFICES ASSUME m + 1 <= Len(ls)
               PROVE  Total(f, m + 1) \in Nat /\ \A i \in 0..((m + 1) - 1) : Total(f, i) < Total(f, m + 1)
    OBVIOUS
  <2>1. Total(f, m) \in Nat /\ \A i \in 0..(m - 1) : Total(f, i) < Total(f, m)
    BY <1>1, <1>4
  <2>2. f[m + 1] \in Nat \ {0}
    BY <1>1
  <2>3. Total(f, m + 1) = Total(f, m) + f[m + 1]
    BY TotalOfOneMore
  <2>4. Total(f, m + 1) \in Nat /\ Total(f, m) < Total(f, m + 1)
    BY <2>1, <2>2, <2>3
  <2>5. ASSUME NEW i \in 0..m PROVE Total(f, i) < Total(f, m + 1)
    <3>1. \A k \in 0..(m - 1) : Total(f, k) \in Nat
      <4>1. TAKE k \in 0..(m - 1)
      <4>2. \A x \in 1..k : f[x] \in Nat
        BY <1>1
      <4> QED
        BY <4>2, TotalIsNat
    <3>2. i = m \/ i \in 0..(m - 1)
      OBVIOUS
    <3> QED
      BY <2>1, <2>4, <3>1, <3>2
  <2> QED
    BY <2>4, <2>5
<1> HIDE DEF S
<1>5. j \in S
  BY <1>1, <1>3, <1>4, Induction
<1> QED
  BY <1>1, <1>2, <1>5, TotalOfNone DEF S

(* The last heading of some ls.                                         *)
LEMMA LastHeadingIs ==
    ASSUME NEW ls \in Seq(Line), NEW j \in 0..Len(ls), NEW i \in Nat \ {0}, NEW none
    PROVE  \/ LastHeading(ls, i, j, none) = none /\ \A k \in i..j : ~ls[k].heading
           \/ /\ LastHeading(ls, i, j, none) \in i..j
              /\ ls[LastHeading(ls, i, j, none)].heading
              /\ \A k \in (LastHeading(ls, i, j, none) + 1)..j : ~ls[k].heading
<1> DEFINE hs == {k \in i..j : ls[k].heading}
<1>1. CASE hs = {}
  BY <1>1 DEF LastHeading
<1>2. CASE hs # {}
  <2>1. hs \subseteq 0..j /\ j \in Nat
    OBVIOUS
  <2>2. PICK m : m = Max(hs)
    OBVIOUS
  <2>3. m \in hs /\ \A x \in hs : m >= x
    BY <1>2, <2>1, <2>2, MaxOfBounded
  <2>4. LastHeading(ls, i, j, none) = m
    BY <1>2, <2>2 DEF LastHeading
  <2>5. \A k \in (m + 1)..j : k \in i..j /\ ~(m >= k)
    BY <2>3
  <2> QED
    BY <2>3, <2>4, <2>5
<1> QED
  BY <1>1, <1>2

LEMMA HeadingsJoin ==
    ASSUME NEW ls \in Seq(Line), NEW j \in 1..Len(ls), NEW i \in 1..j, NEW x \in {i - 1, i}
    PROVE  LastHeading(ls, i, j, LastHeading(ls, 1, x, 0)) = LastHeading(ls, 1, j, 0)
<1>1. PICK a : a = LastHeading(ls, 1, x, 0)
  OBVIOUS
<1>2. PICK m : m = LastHeading(ls, i, j, a)
  OBVIOUS
<1>3. PICK n : n = LastHeading(ls, 1, j, 0)
  OBVIOUS
<1>4. Len(ls) \in Nat /\ x \in 0..j /\ x \in 0..Len(ls) /\ j \in 0..Len(ls) /\ i \in Nat \ {0} /\ 1 \in Nat \ {0}
  OBVIOUS
<1>5. \/ a = 0 /\ \A k \in 1..x : ~ls[k].heading
      \/ a \in 1..x /\ ls[a].heading /\ \A k \in (a + 1)..x : ~ls[k].heading
  BY <1>1, <1>4, LastHeadingIs
<1>6. \/ m = a /\ \A k \in i..j : ~ls[k].heading
      \/ m \in i..j /\ ls[m].heading /\ \A k \in (m + 1)..j : ~ls[k].heading
  BY <1>2, <1>4, LastHeadingIs
<1>7. \/ n = 0 /\ \A k \in 1..j : ~ls[k].heading
      \/ n \in 1..j /\ ls[n].heading /\ \A k \in (n + 1)..j : ~ls[k].heading
  BY <1>3, <1>4, LastHeadingIs
<1>8. m = n
  <2>1. ASSUME NEW p \in 1..j, ls[p].heading, \A k \in (p + 1)..j : ~ls[k].heading PROVE n = p
    <3>1. n \in 1..j /\ ls[n].heading /\ \A k \in (n + 1)..j : ~ls[k].heading
      BY <1>7, <2>1
    <3>2. ~(n < p) /\ ~(p < n)
      BY <2>1, <3>1
    <3> QED
      BY <3>1, <3>2
  <2>2. CASE m \in i..j /\ ls[m].heading /\ \A k \in (m + 1)..j : ~ls[k].heading
    BY <2>1, <2>2
  <2>3. CASE m = a /\ \A k \in i..j : ~ls[k].heading
    <3>1. CASE a = 0 /\ \A k \in 1..x : ~ls[k].heading
      <4>1. \A k \in 1..j : k \in 1..x \/ k \in i..j
        BY <1>4
      <4>2. \A k \in 1..j : ~ls[k].heading
        BY <2>3, <3>1, <4>1
      <4> QED
        BY <1>7, <2>3, <3>1, <4>2
    <3>2. CASE a \in 1..x /\ ls[a].heading /\ \A k \in (a + 1)..x : ~ls[k].heading
      <4>1. \A k \in (a + 1)..j : k \in (a + 1)..x \/ k \in i..j
        BY <1>4, <3>2
      <4>2. \A k \in (a + 1)..j : ~ls[k].heading
        BY <2>3, <3>2, <4>1
      <4>3. a \in 1..j
        BY <1>4, <3>2
      <4> QED
        BY <2>1, <2>3, <3>2, <4>2, <4>3
    <3> QED
      BY <1>5, <3>1, <3>2
  <2> QED
    BY <1>6, <2>2, <2>3
<1> QED
  BY <1>1, <1>2, <1>3, <1>8

(* Where a chunk can start, and that its title so far is the last heading  *)
(* before what it adds.                                                    *)
Where(ls) == [line: 1..Len(ls), overlap: BOOLEAN, title: 0..Len(ls)]

Titled(ls, at) ==
    at.title = LastHeading(ls, 1, IF at.overlap THEN at.line ELSE at.line - 1, 0)

LEMMA CutIs ==
    ASSUME NEW ls \in Seq(Line), NEW at \in Where(ls)
    PROVE  /\ CutLine(ls, at) \in (at.line + 1)..(Len(ls) + 1)
           /\ CutLine(ls, at) <= Len(ls) => CutAt(ls, at, CutLine(ls, at))
           /\ \A j \in (at.line + 1)..(CutLine(ls, at) - 1) : ~CutAt(ls, at, j)
<1> DEFINE T == {j \in (at.line + 1)..(Len(ls) + 1) : j = Len(ls) + 1 \/ CutAt(ls, at, j)}
<1>1. at.line \in 1..Len(ls) /\ Len(ls) \in Nat
  BY DEF Where
<1>2. T \subseteq Nat /\ Len(ls) + 1 \in T
  BY <1>1
<1>3. PICK e : e = CutLine(ls, at)
  OBVIOUS
<1>4. e = Min(T)
  BY <1>3 DEF CutLine
<1>5. e \in T /\ \A x \in T : e <= x
  <2> HIDE DEF T
  <2> QED
    BY <1>2, <1>4, MinOfNumbers
<1>6. e \in (at.line + 1)..(Len(ls) + 1) /\ (e = Len(ls) + 1 \/ CutAt(ls, at, e))
  BY <1>5
<1>7. ASSUME NEW j \in (at.line + 1)..(e - 1) PROVE ~CutAt(ls, at, j)
  <2>1. j \in (at.line + 1)..(Len(ls) + 1) /\ ~(e <= j)
    BY <1>1, <1>6
  <2> QED
    BY <1>5, <2>1
<1> QED
  BY <1>1, <1>3, <1>6, <1>7

(* Each chunk starts in the last line of the one before or behind it, and  *)
(* is cut later.                                                           *)
LEMMA NextIs ==
    ASSUME NEW ls \in Seq(Line), NEW at \in Where(ls)
    PROVE  /\ NextStart(ls, at) \in Where(ls)
           /\ CutLine(ls, at) <= Len(ls) =>
                /\ NextStart(ls, at).line \in {CutLine(ls, at) - 1, CutLine(ls, at)}
                /\ NextStart(ls, at).overlap => NextStart(ls, at).line = CutLine(ls, at) - 1
                /\ CutLine(ls, NextStart(ls, at)) > CutLine(ls, at)
                /\ Titled(ls, at) => Titled(ls, NextStart(ls, at))
<1>1. PICK e : e = CutLine(ls, at)
  OBVIOUS
<1>2. PICK next : next = NextStart(ls, at)
  OBVIOUS
<1>3. at.line \in 1..Len(ls) /\ at.overlap \in BOOLEAN /\ at.title \in 0..Len(ls) /\ Len(ls) \in Nat
  BY DEF Where
<1>4. e \in (at.line + 1)..(Len(ls) + 1)
  BY <1>1, CutIs
<1>5. CASE e > Len(ls)
  <2>1. next = at
    BY <1>1, <1>2, <1>5 DEF NextStart
  <2>2. ~(e <= Len(ls))
    BY <1>3, <1>4, <1>5
  <2> QED
    BY <1>1, <1>2, <2>1, <2>2
<1>6. CASE e <= Len(ls)
  <2> DEFINE back == ~ls[e].heading /\ e - at.line > 1
             title == LastHeading(ls, at.line, e - 1, at.title)
  <2>1. ~(e > Len(ls)) /\ e \in 1..Len(ls) /\ e - 1 \in 1..Len(ls) /\ at.line \in 1..(e - 1)
        /\ e - 1 \in 0..Len(ls)
    BY <1>3, <1>4, <1>6
  <2>2. next = [line |-> IF back THEN e - 1 ELSE e, overlap |-> back, title |-> title]
    BY <1>1, <1>2, <2>1 DEF NextStart
  <2>3. title \in 0..Len(ls)
    <3>1. title = at.title \/ title \in at.line..(e - 1)
      BY <1>3, <2>1, LastHeadingIs
    <3> QED
      BY <1>3, <2>1, <3>1
  <2> HIDE DEF title
  <2>4. back \in BOOLEAN
    OBVIOUS
  <2>5. next \in Where(ls) /\ next.line \in {e - 1, e} /\ (next.overlap <=> back)
        /\ next.line = (IF back THEN e - 1 ELSE e) /\ next.title = title
    BY <2>1, <2>2, <2>3, <2>4 DEF Where
  <2>6. CutLine(ls, next) > e
    <3>1. PICK f : f = CutLine(ls, next)
      OBVIOUS
    <3>2. /\ f \in (next.line + 1)..(Len(ls) + 1)
          /\ f <= Len(ls) => CutAt(ls, next, f)
      BY <2>5, <3>1, CutIs
    <3>3. CASE ~back
      BY <2>1, <2>5, <3>1, <3>2, <3>3
    <3>4. CASE back
      <4>1. next.line = e - 1 /\ next.overlap
        BY <2>5, <3>4
      <4>2. ~(e >= next.line + 2)
        BY <2>1, <4>1
      <4>3. ~CutAt(ls, next, e)
        BY <4>1, <4>2 DEF CutAt
      <4>4. f # e
        BY <1>6, <3>2, <4>3
      <4> QED
        BY <2>1, <3>1, <3>2, <4>1, <4>4
    <3> QED
      BY <3>3, <3>4
  <2>7. ASSUME Titled(ls, at) PROVE Titled(ls, next)
    <3>1. PICK x : x = IF at.overlap THEN at.line ELSE at.line - 1
      OBVIOUS
    <3>2. x \in {at.line - 1, at.line} /\ at.title = LastHeading(ls, 1, x, 0)
      BY <2>7, <3>1 DEF Titled
    <3>3. title = LastHeading(ls, 1, e - 1, 0)
      BY <2>1, <3>2, HeadingsJoin DEF title
    <3>4. (IF next.overlap THEN next.line ELSE next.line - 1) = e - 1
      BY <2>5
    <3> QED
      BY <2>5, <3>3, <3>4 DEF Titled
  <2> QED
    BY <1>1, <1>2, <2>5, <2>6, <2>7
<1> QED
  BY <1>3, <1>4, <1>5, <1>6

LEMMA StartsAre ==
    ASSUME NEW ls \in Seq(Line), ls # <<>>
    PROVE  /\ ChunkStarts(ls) \in [1..Len(ls) -> Where(ls)]
           /\ ChunkStarts(ls)[1] = FirstStart
           /\ \A k \in 1..(Len(ls) - 1) : ChunkStarts(ls)[k + 1] = NextStart(ls, ChunkStarts(ls)[k])
<1> DEFINE n == Len(ls)
           W == Where(ls)
           step == [w \in W |-> NextStart(ls, w)]
           at == CHOOSE f : f = [k \in 1..n |-> IF k = 1 THEN FirstStart ELSE NextStart(ls, f[k - 1])]
<1>1. n \in Nat \ {0}
  OBVIOUS
<1>2. FirstStart \in W
  BY <1>1 DEF FirstStart, Where
<1>3. step \in [W -> W]
  BY NextIs
<1>4. PICK f \in [1..n -> W] : IsWalk(f, FirstStart, step, n)
  <2> HIDE DEF step, W, n
  <2> QED
    BY <1>1, <1>2, <1>3, WalkExists
<1>5. f = [k \in 1..n |-> IF k = 1 THEN FirstStart ELSE NextStart(ls, f[k - 1])]
  <2>1. ASSUME NEW k \in 1..n, k # 1 PROVE step[f[k - 1]] = NextStart(ls, f[k - 1])
    <3>1. k - 1 \in 1..n
      BY <1>1, <2>1
    <3>2. f[k - 1] \in W
      BY <3>1
    <3> QED
      BY <3>2
  <2>2. f = [k \in 1..n |-> IF k = 1 THEN FirstStart ELSE step[f[k - 1]]]
    BY <1>4 DEF IsWalk
  <2> HIDE DEF step, n, W
  <2> QED
    BY <2>1, <2>2
<1>6. at = [k \in 1..n |-> IF k = 1 THEN FirstStart ELSE NextStart(ls, at[k - 1])]
  BY <1>5
<1>7. ChunkStarts(ls) = at
  BY DEF ChunkStarts
<1> HIDE DEF at
<1>8. /\ at[1] = FirstStart
      /\ \A k \in 1..(n - 1) : at[k + 1] = NextStart(ls, at[k])
  <2>1. 1 \in 1..n /\ \A k \in 1..(n - 1) : k + 1 \in 1..n /\ k + 1 # 1 /\ (k + 1) - 1 = k
    BY <1>1
  <2> HIDE DEF n
  <2> QED
    BY <1>6, <2>1
<1>9. \A k \in 1..n : at[k] \in W
  <2> DEFINE S == {k \in Nat : k + 1 \in 1..n => at[k + 1] \in W}
  <2>1. 0 \in S
    BY <1>2, <1>8
  <2>2. ASSUME NEW k \in Nat, k \in S PROVE k + 1 \in S
    <3> SUFFICES ASSUME (k + 1) + 1 \in 1..n PROVE at[(k + 1) + 1] \in W
      OBVIOUS
    <3>1. k + 1 \in 1..(n - 1) /\ k + 1 \in 1..n
      BY <1>1
    <3>2. at[k + 1] \in W
      BY <2>2, <3>1
    <3>3. at[(k + 1) + 1] = NextStart(ls, at[k + 1])
      BY <1>8, <3>1
    <3> QED
      BY <3>2, <3>3, NextIs
  <2> HIDE DEF S
  <2>3. \A k \in Nat : k \in S
    BY <2>1, <2>2, Induction
  <2>4. \A k \in 1..n : k - 1 \in Nat /\ (k - 1) + 1 = k
    BY <1>1
  <2> QED
    BY <2>3, <2>4 DEF S
<1>10. at \in [1..n -> W]
  <2>1. DOMAIN at = 1..n /\ at = [k \in DOMAIN at |-> at[k]]
    BY <1>6
  <2> HIDE DEF W, n
  <2> QED
    BY <1>9, <2>1
<1> QED
  BY <1>7, <1>8, <1>10

LEMMA ChunksCover ==
    ASSUME NEW ls \in Seq(Line)
    PROVE  ChunksCoverTheText(ls)
<1> SUFFICES ASSUME ls # <<>> PROVE ChunksCoverTheText(ls)
  BY DEF ChunksCoverTheText
<1>1. PICK n \in Nat \ {0} : n = Len(ls)
  OBVIOUS
<1>2. PICK at : at = ChunkStarts(ls)
  OBVIOUS
<1>3. PICK e : e = [k \in 1..n |-> CutLine(ls, at[k])]
  OBVIOUS
<1>4. /\ at[1] = FirstStart /\ \A k \in 1..n : at[k] \in Where(ls)
      /\ \A k \in 1..(n - 1) : at[k + 1] = NextStart(ls, at[k])
  BY <1>1, <1>2, StartsAre
<1>5. ASSUME NEW k \in 1..n
      PROVE  /\ at[k].line \in 1..n /\ at[k].overlap \in BOOLEAN /\ e[k] = CutLine(ls, at[k])
             /\ e[k] \in (at[k].line + 1)..(n + 1) /\ e[k] \in 2..(n + 1)
             /\ \A j \in (at[k].line + 1)..(e[k] - 1) : ~CutAt(ls, at[k], j)
  <2>1. PICK s \in 1..n : s = at[k].line
    BY <1>1, <1>4 DEF Where
  <2>2. /\ e[k] = CutLine(ls, at[k]) /\ e[k] \in (s + 1)..(n + 1)
        /\ \A j \in (s + 1)..(e[k] - 1) : ~CutAt(ls, at[k], j)
    BY <1>1, <1>3, <1>4, <2>1, CutIs
  <2>3. at[k].overlap \in BOOLEAN
    BY <1>4 DEF Where
  <2>4. e[k] \in 2..(n + 1)
    BY <2>2
  <2> QED
    BY <2>1, <2>2, <2>3, <2>4
<1>6. ASSUME NEW k \in 1..(n - 1), e[k] <= n
      PROVE  /\ at[k + 1].line \in {e[k] - 1, e[k]} /\ e[k + 1] > e[k]
             /\ at[k + 1].overlap => at[k + 1].line = e[k] - 1
             /\ Titled(ls, at[k]) => Titled(ls, at[k + 1])
  <2>1. k \in 1..n /\ k + 1 \in 1..n
    OBVIOUS
  <2>2. at[k] \in Where(ls) /\ at[k + 1] = NextStart(ls, at[k])
    BY <1>4, <2>1
  <2>3. CutLine(ls, at[k]) = e[k] /\ CutLine(ls, at[k + 1]) = e[k + 1]
    BY <1>5, <2>1
  <2> QED
    BY <1>1, <1>6, <2>2, <2>3, NextIs
<1>7. PICK ends : ends = {k \in 1..n : e[k] = n + 1}
  OBVIOUS
<1>8. ends # {}
  <2> SUFFICES ASSUME ends = {} PROVE FALSE
    OBVIOUS
  <2> DEFINE S == {k \in Nat : k + 1 \in 1..n => e[k + 1] >= k + 2}
  <2>1. 0 \in S
    <3>1. at[1].line = 1 /\ 1 \in 1..n
      BY <1>4 DEF FirstStart
    <3>2. e[1] \in (1 + 1)..(n + 1)
      BY <1>5, <3>1
    <3> QED
      BY <3>2
  <2>2. ASSUME NEW k \in Nat, k \in S PROVE k + 1 \in S
    <3> SUFFICES ASSUME (k + 1) + 1 \in 1..n PROVE e[(k + 1) + 1] >= (k + 1) + 2
      OBVIOUS
    <3>1. k + 1 \in 1..(n - 1) /\ k + 1 \in 1..n
      OBVIOUS
    <3>2. e[k + 1] >= k + 2
      BY <2>2, <3>1
    <3>3. e[k + 1] \in 2..(n + 1) /\ e[(k + 1) + 1] \in 2..(n + 1)
      BY <1>5, <3>1
    <3>4. e[k + 1] # n + 1
      BY <1>7, <3>1
    <3>5. e[k + 1] <= n
      BY <3>3, <3>4
    <3>6. e[(k + 1) + 1] > e[k + 1]
      BY <1>6, <3>1, <3>5
    <3> QED
      BY <3>2, <3>3, <3>6
  <2> HIDE DEF S
  <2>3. n - 1 \in S
    BY <2>1, <2>2, Induction
  <2>4. e[n] >= n + 1
    BY <2>3 DEF S
  <2>5. n \in 1..n /\ e[n] \in 1..(n + 1)
    BY <1>5
  <2> QED
    BY <1>7, <2>4, <2>5
<1>9. PICK last : last = Min(ends)
  OBVIOUS
<1>10. last \in 1..n /\ e[last] = n + 1 /\ \A k \in 1..(last - 1) : e[k] <= n
  <2>1. ends \subseteq Nat
    BY <1>7
  <2>2. last \in ends /\ \A k \in ends : last <= k
    BY <1>8, <1>9, <2>1, MinOfNumbers
  <2>3. last \in 1..n /\ e[last] = n + 1
    BY <1>7, <2>2
  <2>4. ASSUME NEW k \in 1..(last - 1) PROVE e[k] <= n
    <3>1. k \in 1..n /\ ~(last <= k)
      BY <2>3
    <3>2. e[k] \in 1..(n + 1) /\ e[k] # n + 1
      BY <1>5, <1>7, <2>2, <3>1
    <3> QED
      BY <3>2
  <2> QED
    BY <2>3, <2>4
<1>11. PICK cs : cs = [k \in 1..last |-> ChunkAt(ls, at[k])]
  OBVIOUS
<1>12. ChunkText(ls) = cs
  <2>1. ends = {k \in 1..Len(ls) : CutLine(ls, at[k]) = Len(ls) + 1}
    BY <1>1, <1>5, <1>7
  <2> QED
    BY <1>1, <1>2, <1>9, <1>11, <2>1 DEF ChunkText
<1>13. Len(cs) = last /\ DOMAIN cs = 1..last
  BY <1>10, <1>11
<1>14. ASSUME NEW k \in 1..last
       PROVE  /\ k \in 1..n /\ cs[k].lineStart = at[k].line /\ cs[k].lineEnd = e[k] - 1
              /\ cs[k].start = offsets(ls, at[k].line - 1) /\ cs[k].end = offsets(ls, e[k] - 1)
              /\ cs[k].title = IF ls[at[k].line].heading THEN at[k].line ELSE at[k].title
  BY <1>5, <1>10, <1>11 DEF ChunkAt
<1>15. \A k \in 1..last : Titled(ls, at[k])
  <2> DEFINE S == {k \in Nat : k + 1 \in 1..last => Titled(ls, at[k + 1])}
  <2>1. 0 \in S
    <3>1. LastHeading(ls, 1, 0, 0) = 0
      <4>1. 0 \in 0..Len(ls) /\ ~(\E k \in 1..0 : TRUE)
        BY <1>1
      <4> QED
        BY <4>1, LastHeadingIs
    <3> QED
      BY <1>4, <3>1 DEF Titled, FirstStart
  <2>2. ASSUME NEW k \in Nat, k \in S PROVE k + 1 \in S
    <3> SUFFICES ASSUME (k + 1) + 1 \in 1..last PROVE Titled(ls, at[(k + 1) + 1])
      OBVIOUS
    <3>1. k + 1 \in 1..last /\ k + 1 \in 1..(last - 1) /\ k + 1 \in 1..(n - 1)
      BY <1>10
    <3> QED
      BY <1>6, <1>10, <2>2, <3>1
  <2> HIDE DEF S
  <2>3. \A k \in Nat : k \in S
    BY <2>1, <2>2, Induction
  <2>4. \A k \in 1..last : k - 1 \in Nat /\ (k - 1) + 1 = k
    BY <1>10
  <2> QED
    BY <2>3, <2>4 DEF S
<1>16. cs[1].start = 0 /\ Last(cs).end = offsets(ls, Len(ls))
  <2>1. 1 \in 1..last /\ last \in 1..last /\ 0 \in 0..Len(ls) /\ (n + 1) - 1 = n /\ 1 - 1 = 0
    BY <1>1, <1>10
  <2>2. at[1].line = 1
    BY <1>4 DEF FirstStart
  <2>3. cs[1].start = 0
    BY <1>14, <2>1, <2>2, OffsetsGrow
  <2>4. Last(cs) = cs[last]
    BY <1>13 DEF Last
  <2> QED
    BY <1>1, <1>10, <1>14, <2>1, <2>3, <2>4
<1>17. ASSUME NEW i \in 1..last
       PROVE  /\ cs[i].end - cs[i].start > Target =>
                    cs[i].lineEnd - cs[i].lineStart <= IF i > 1 /\ cs[i - 1].lineEnd = cs[i].lineStart THEN 1 ELSE 0
              /\ cs[i].title = LastHeading(ls, 1, cs[i].lineStart, 0)
  <2>1. PICK s \in 1..n : s = at[i].line
    BY <1>5, <1>14
  <2>2. /\ i \in 1..n /\ cs[i].lineStart = s /\ cs[i].lineEnd = e[i] - 1
        /\ cs[i].start = offsets(ls, s - 1) /\ cs[i].end = offsets(ls, e[i] - 1)
        /\ cs[i].title = IF ls[s].heading THEN s ELSE at[i].title
    BY <1>14, <2>1
  <2>3. /\ e[i] \in (s + 1)..(n + 1)
        /\ \A j \in (s + 1)..(e[i] - 1) : ~CutAt(ls, at[i], j)
    BY <1>5, <2>1, <2>2
  <2>4. at[i].overlap => i > 1 /\ cs[i - 1].lineEnd = s
    <3>1. CASE i = 1
      BY <1>4, <3>1 DEF FirstStart
    <3>2. CASE i # 1 /\ at[i].overlap
      <4>1. i - 1 \in 1..last /\ i - 1 \in 1..(last - 1) /\ i - 1 \in 1..(n - 1) /\ (i - 1) + 1 = i /\ i > 1
        BY <1>10, <3>2
      <4>2. at[i].line = e[i - 1] - 1
        BY <1>6, <1>10, <3>2, <4>1
      <4> QED
        BY <1>14, <2>1, <4>1, <4>2
    <3> QED
      BY <3>1, <3>2
  <2>5. ASSUME offsets(ls, e[i] - 1) - offsets(ls, s - 1) > Target,
               e[i] - 1 >= s + 1
        PROVE  at[i].overlap /\ ~(e[i] - 1 >= s + 2)
    <3>1. e[i] - 1 \in (s + 1)..(e[i] - 1)
      BY <2>3, <2>5
    <3>2. ~CutAt(ls, at[i], e[i] - 1)
      BY <2>3, <3>1
    <3> QED
      BY <2>1, <2>5, <3>2 DEF CutAt, Bytes
  <2>6. cs[i].end - cs[i].start > Target =>
           cs[i].lineEnd - cs[i].lineStart <= IF i > 1 /\ cs[i - 1].lineEnd = cs[i].lineStart THEN 1 ELSE 0
    <3> SUFFICES ASSUME offsets(ls, e[i] - 1) - offsets(ls, s - 1) > Target
                 PROVE  (e[i] - 1) - s <= IF i > 1 /\ cs[i - 1].lineEnd = s THEN 1 ELSE 0
      BY <2>2
    <3>1. CASE e[i] - 1 >= s + 1
      BY <2>3, <2>4, <2>5, <3>1
    <3>2. CASE ~(e[i] - 1 >= s + 1)
      BY <2>3, <3>2
    <3> QED
      BY <3>1, <3>2
  <2>7. cs[i].title = LastHeading(ls, 1, s, 0)
    <3>1. PICK x : x = IF at[i].overlap THEN s ELSE s - 1
      OBVIOUS
    <3>2. at[i].title = LastHeading(ls, 1, x, 0) /\ x \in {s - 1, s}
      BY <1>15, <2>1, <3>1 DEF Titled
    <3>3. LastHeading(ls, s, s, at[i].title) = LastHeading(ls, 1, s, 0)
      <4>1. s \in 1..Len(ls) /\ s \in 1..s
        BY <1>1
      <4> QED
        BY <3>2, <4>1, HeadingsJoin
    <3>4. LastHeading(ls, s, s, at[i].title) = IF ls[s].heading THEN s ELSE at[i].title
      <4>1. s \in 0..Len(ls) /\ s \in Nat \ {0} /\ s \in s..s /\ \A k \in s..s : k = s
        BY <1>1
      <4> QED
        BY <4>1, LastHeadingIs
    <3> QED
      BY <2>2, <3>3, <3>4
  <2> QED
    BY <2>2, <2>6, <2>7
<1>18. ASSUME NEW i \in 1..(last - 1)
       PROVE  /\ cs[i + 1].lineStart \in {cs[i].lineEnd, cs[i].lineEnd + 1}
              /\ cs[i + 1].lineEnd > cs[i].lineEnd
              /\ cs[i + 1].start <= cs[i].end /\ cs[i + 1].end > cs[i].end
  <2>1. i \in 1..last /\ i + 1 \in 1..last /\ i \in 1..(n - 1) /\ i \in 1..n /\ i + 1 \in 1..n
    BY <1>10
  <2>2. PICK s \in 1..n : s = at[i + 1].line
    BY <1>5, <2>1
  <2>3. e[i] \in 2..n /\ e[i + 1] \in 2..(n + 1) /\ e[i + 1] > e[i] /\ s \in {e[i] - 1, e[i]}
    <3>1. e[i] \in 2..(n + 1) /\ e[i + 1] \in 2..(n + 1) /\ e[i] <= n
      BY <1>5, <1>10, <2>1
    <3>2. e[i + 1] > e[i] /\ s \in {e[i] - 1, e[i]}
      BY <1>6, <2>1, <2>2, <3>1
    <3> QED
      BY <3>1, <3>2
  <2>4. /\ cs[i + 1].lineStart = s /\ cs[i].lineEnd = e[i] - 1 /\ cs[i + 1].lineEnd = e[i + 1] - 1
        /\ cs[i].end = offsets(ls, e[i] - 1)
        /\ cs[i + 1].start = offsets(ls, s - 1) /\ cs[i + 1].end = offsets(ls, e[i + 1] - 1)
    BY <1>14, <2>1, <2>2
  <2>5. offsets(ls, s - 1) <= offsets(ls, e[i] - 1)
    <3>1. e[i] - 1 \in 0..Len(ls) /\ s - 1 \in 0..Len(ls) /\ (s - 1 = e[i] - 1 \/ s - 1 \in 0..((e[i] - 1) - 1))
      BY <1>1, <2>3
    <3>2. offsets(ls, e[i] - 1) \in Nat /\ offsets(ls, s - 1) \in Nat
      BY <3>1, OffsetsGrow
    <3>3. s - 1 \in 0..((e[i] - 1) - 1) => offsets(ls, s - 1) < offsets(ls, e[i] - 1)
      BY <3>1, OffsetsGrow
    <3> QED
      BY <3>1, <3>2, <3>3
  <2>6. offsets(ls, e[i + 1] - 1) > offsets(ls, e[i] - 1)
    <3>1. e[i + 1] - 1 \in 0..n /\ e[i] - 1 \in 0..((e[i + 1] - 1) - 1) /\ e[i] - 1 \in 0..n
      BY <2>3
    <3>2. offsets(ls, e[i] - 1) < offsets(ls, e[i + 1] - 1)
      BY <1>1, <3>1, OffsetsGrow
    <3>3. offsets(ls, e[i] - 1) \in Nat /\ offsets(ls, e[i + 1] - 1) \in Nat
      BY <1>1, <3>1, OffsetsGrow
    <3> QED
      BY <3>2, <3>3
  <2> QED
    BY <2>3, <2>4, <2>5, <2>6
<1> QED
  BY <1>12, <1>13, <1>16, <1>17, <1>18 DEF ChunksCoverTheText

-----------------------------------------------------------------------------
(* Every input a text or a file of lines can grow to.                      *)

TextsInv == Text(text) /\ lines \in Seq(Line)

LEMMA TextsInit == InputInit => TextsInv
<1> SUFFICES ASSUME InputInit PROVE TextsInv
  OBVIOUS
<1>1. text = <<>> /\ lines = <<>>
  BY DEF InputInit
<1>2. Text(<<>>)
  BY DEF Text, Runes, Clean
<1> QED
  BY <1>1, <1>2 DEF TextsInv

LEMMA TextsStep == TextsInv /\ [InputNext]_inputVars => TextsInv'
<1> SUFFICES ASSUME TextsInv, [InputNext]_inputVars PROVE TextsInv'
  OBVIOUS
<1>1. Text(text) /\ Runes(text) /\ text \in Seq(TextBytes) /\ Len(text) \in Nat /\ lines \in Seq(Line)
  BY DEF TextsInv, Text, Runes
<1>2. CASE WriteRune
  <2>1. PICK rune \in {<<"a">>, <<"n">>, <<"L", "C">>} : text' = text \o rune
    BY <1>2 DEF WriteRune
  <2>2. PICK n : n = Len(text)
    OBVIOUS
  <2>3. PICK new : new = text \o rune
    OBVIOUS
  <2>4. rune \in Seq(TextBytes)
    BY <2>1 DEF TextBytes
  <2>5. /\ new \in Seq(TextBytes) /\ Len(new) = n + Len(rune)
        /\ \A i \in 1..n : new[i] = text[i]
        /\ \A i \in 1..Len(rune) : new[n + i] = rune[i]
    BY <1>1, <2>2, <2>3, <2>4
  <2>6. ASSUME NEW p \in 0..n PROVE Clean(new, p) <=> Clean(text, p)
    <3>1. p = 0 \/ p \in 1..n
      OBVIOUS
    <3> QED
      BY <2>5, <3>1 DEF Clean
  <2>7. ASSUME NEW i \in 1..n PROVE new[i] = "C" <=> i > 1 /\ ~Clean(new, i - 1)
    <3>1. i - 1 \in 0..n
      BY <1>1, <2>2
    <3>2. text[i] = "C" <=> i > 1 /\ ~Clean(text, i - 1)
      BY <1>1, <2>2 DEF Runes
    <3> QED
      BY <2>5, <2>6, <3>1, <3>2
  <2>8. Clean(new, n) /\ n \in Nat /\ n \in 0..n
    BY <1>1, <2>2, <2>6 DEF TextsInv, Text
  <2>9. CASE rune # <<"L", "C">>
    <3>1. Len(rune) = 1 /\ rune[1] \notin {"L", "C"}
      BY <2>1, <2>9
    <3>2. Len(new) = n + 1 /\ new[n + 1] \notin {"L", "C"}
      BY <2>5, <3>1
    <3>3. Clean(new, n + 1)
      BY <3>2 DEF Clean
    <3>4. ASSUME NEW i \in 1..(n + 1) PROVE new[i] = "C" <=> i > 1 /\ ~Clean(new, i - 1)
      <4>1. CASE i = n + 1
        BY <2>8, <3>2, <4>1
      <4>2. CASE i \in 1..n
        BY <2>7, <4>2
      <4> QED
        BY <2>8, <4>1, <4>2
    <3> QED
      BY <1>2, <2>1, <2>3, <2>5, <3>2, <3>3, <3>4 DEF TextsInv, Text, Runes, WriteRune, Only
  <2>10. CASE rune = <<"L", "C">>
    <3>1. Len(new) = n + 2 /\ new[n + 1] = "L" /\ new[n + 2] = "C"
      BY <2>5, <2>10
    <3>2. ~Clean(new, n + 1) /\ Clean(new, n + 2)
      BY <2>8, <3>1 DEF Clean
    <3>3. ASSUME NEW i \in 1..(n + 2) PROVE new[i] = "C" <=> i > 1 /\ ~Clean(new, i - 1)
      <4>1. CASE i = n + 1
        BY <2>8, <3>1, <4>1
      <4>2. CASE i = n + 2
        <5>1. i - 1 = n + 1 /\ i > 1
          BY <2>8, <4>2
        <5> QED
          BY <3>1, <3>2, <4>2, <5>1
      <4>3. CASE i \in 1..n
        BY <2>7, <4>3
      <4> QED
        BY <2>8, <4>1, <4>2, <4>3
    <3> QED
      BY <1>2, <2>1, <2>3, <2>5, <3>1, <3>2, <3>3 DEF TextsInv, Text, Runes, WriteRune, Only
  <2> QED
    BY <2>9, <2>10
<1>3. CASE WriteLine
  <2>1. PICK one \in [len : 1..(Target + 1), heading : BOOLEAN] : lines' = Append(lines, one)
    BY <1>3 DEF WriteLine
  <2>2. one \in Line
    BY <2>1, TextAssumption DEF Line
  <2>3. lines' \in Seq(Line)
    BY <1>1, <2>1, <2>2
  <2>4. text' = text
    BY <1>3 DEF WriteLine, Only
  <2> QED
    BY <1>1, <2>3, <2>4 DEF TextsInv
<1>4. CASE WriteGroup \/ SpoilEvent \/ WriteLog
  <2>1. text' = text /\ lines' = lines
    BY <1>4 DEF WriteGroup, SpoilEvent, WriteLog, Only
  <2> QED
    BY <1>1, <2>1 DEF TextsInv
<1>5. CASE UNCHANGED inputVars
  BY <1>1, <1>5 DEF TextsInv, inputVars
<1> QED
  BY <1>2, <1>3, <1>4, <1>5 DEF InputNext

(* What a fetch, a byte range and a snippet show of a text is what they    *)
(* say they show of it, however long the text and wherever the budget and  *)
(* the window cut it (ReadRange, snapUTF8, applyFetchBudget, snippetWindow). *)
THEOREM CutsShowWhatTheySay == InputSpec => []TextCutsAreExact
<1>1. TextsInv => TextCutsAreExact
  BY CutsAlwaysExact DEF TextsInv, TextCutsAreExact
<1> QED
  BY <1>1, TextsInit, TextsStep, PTL DEF InputSpec

(* The chunks of a text hold all of its lines in order and without a gap,  *)
(* repeat at most one, are over the target only for a line they need, and  *)
(* carry the heading they are under, for any target (ChunkText).           *)
THEOREM ChunksHoldTheText == InputSpec => []TextChunksCover
<1>1. TextsInv => TextChunksCover
  BY ChunksCover DEF TextsInv, TextChunksCover
<1> QED
  BY <1>1, TextsInit, TextsStep, PTL DEF InputSpec
=============================================================================
