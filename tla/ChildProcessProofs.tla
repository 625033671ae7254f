------------------------- MODULE ChildProcessProofs -------------------------
(***************************************************************************)
(* Proofs about ChildProcess: types, and the safety properties, from one   *)
(* invariant, CallInv, that says what a handler knows at each place about  *)
(* its process, its slot and its answer.                                   *)
(***************************************************************************)
EXTENDS ChildProcess, FiniteSetTheorems, TLAPS

Unanswered(c) == result[c].how = "none" /\ result[c].by = "none"

(* Before a process is started. *)
Unstarted(c) ==
    /\ proc[c].at = "none" /\ rest[c] = {} /\ Unanswered(c)

(* What a process has done so far, by what it is. *)
ProcInv(c) ==
    /\ proc[c].at = "none" => proc[c].ended = "no" /\ ~status[c] /\ out[c] = "none"
    /\ proc[c].at \in Running => proc[c].ended = "no" /\ ~status[c]
    /\ proc[c].at \in {"target", "eval"} => proc[c].limited
    /\ proc[c].at = "worker" => out[c] = "none"
    /\ proc[c].at = "eval" => out[c] \in {"none", "part"}
    /\ proc[c].at \in {"exited", "reaped", "done"} => proc[c].ended # "no"
    /\ proc[c].ended = "server" => proc[c].code = -1
    /\ proc[c].ended = "itself" /\ proc[c].code # -1 /\ ~status[c] =>
         proc[c].limited \/ out[c] = "refusal"
    /\ out[c] = "refusal" => ~status[c]
    /\ out[c] = "whole" => proc[c].limited

(* What a handler knows at each place. *)
PlaceInv(c) ==
    /\ pc[c] \in {"idle", "start", "acquire", "spawn"} => Unstarted(c)
    /\ proc[c].at \in {"launcher", "target"} => At(c, "select")
    /\ proc[c].at \in {"worker", "eval"} => At(c, "wait")
    /\ pc[c] \in {"start", "select", "drain"} => scratch[c]
    /\ At(c, "select") => /\ proc[c].at \in {"launcher", "target", "exited", "reaped", "done"}
                          /\ proc[c].ended # "server" /\ Unanswered(c)
    /\ At(c, "drain") => /\ proc[c].at \in {"exited", "reaped", "done"}
                         /\ result[c].by \in {"timer", "context"}
    /\ pc[c] \in {"drain", "classify"} =>
         result[c].how = "none" /\ (result[c].by = "context" => ctx[c] # "live")
    /\ At(c, "classify") => /\ proc[c].at \in {"none", "done"} /\ result[c].by # "none"
                            /\ proc[c].at = "none" => result[c].by = "timer"
    /\ At(c, "wait") => /\ proc[c].at \in {"worker", "eval", "exited"}
                        /\ Unanswered(c) /\ rest[c] = {}
    /\ pc[c] \in ExecPlaces \cup {"idle"} => out[c] = "none"
    /\ pc[c] \in {"handler", "answered"} => proc[c].at \in {"none", "done"}

(* What an answer rests on. *)
AnswerInv(c) ==
    /\ result[c].by = "done" =>
         proc[c].ended = "itself" /\ ~status[c] /\ out[c] = "none"
    /\ At(c, "classify") /\ result[c].by = "done" => result[c].code = proc[c].code
    /\ result[c].by \in {"timer", "context"} =>
         "group" \notin rest[c] /\ proc[c].at \notin Running
    /\ result[c].how = "exit" =>
         result[c].by = "done" /\ result[c].code = proc[c].code
    /\ result[c].how = "result" =>
         out[c] = "whole" /\ proc[c].ended = "itself" /\ proc[c].code = 0

CallInv(c) ==
    /\ ProcInv(c) /\ PlaceInv(c) /\ AnswerInv(c)
    /\ c \in held <=> pc[c] \in {"spawn", "wait"}

Inv == \A c \in Calls : CallInv(c)

-----------------------------------------------------------------------------
(* What the updates of a process and of an answer do, field by field. *)

Codes == ExitCodes \cup {-1, 0, 1}
States == {"none", "exited", "reaped", "done"} \cup Running
Hows == {"none", "exit", "timed_out", "context", "setup", "rejected",
         "result", "killed", "no_isolation"}
Bys == {"none", "done", "timer", "context"}

(* The process of c after a step, when those of the other calls stay. *)
ProcIs(c, at, code, limited, ended) ==
    /\ proc' \in [Calls -> Process]
    /\ \A d \in Calls \ {c} : proc'[d] = proc[d]
    /\ proc'[c].at = at /\ proc'[c].code = code
    /\ proc'[c].limited = limited /\ proc'[c].ended = ended

AnswerIs(c, how, code, by) ==
    /\ result' \in [Calls -> Answers]
    /\ \A d \in Calls \ {c} : result'[d] = result[d]
    /\ result'[c].how = how /\ result'[c].code = code /\ result'[c].by = by

LEMMA ProcessUpdates ==
    ASSUME TypeOK, NEW c \in Calls
    PROVE  /\ \A at \in States : Becomes(c, at) =>
                ProcIs(c, at, proc[c].code, proc[c].limited, proc[c].ended)
           /\ \A at \in States : BecomesLimited(c, at) =>
                ProcIs(c, at, proc[c].code, TRUE, proc[c].ended)
           /\ \A code \in Codes, who \in {"itself", "server"} : Ends(c, code, who) =>
                ProcIs(c, "exited", code, proc[c].limited, who)
  <1>1. proc \in [Calls -> Process] /\ proc[c] \in Process
    BY DEF TypeOK
  <1>2. ASSUME NEW at \in States, Becomes(c, at)
        PROVE  ProcIs(c, at, proc[c].code, proc[c].limited, proc[c].ended)
    <2>1. [proc[c] EXCEPT !.at = at] \in Process
      BY <1>1 DEF Process, States
    <2>2. proc' = [proc EXCEPT ![c] = [proc[c] EXCEPT !.at = at]]
      BY <1>1, <1>2 DEF Becomes
    <2> QED
      BY <1>1, <2>1, <2>2 DEF ProcIs, Process
  <1>3. ASSUME NEW at \in States, BecomesLimited(c, at)
        PROVE  ProcIs(c, at, proc[c].code, TRUE, proc[c].ended)
    <2>1. [proc[c] EXCEPT !.at = at, !.limited = TRUE] \in Process
      BY <1>1 DEF Process, States
    <2>2. proc' = [proc EXCEPT ![c] = [proc[c] EXCEPT !.at = at, !.limited = TRUE]]
      BY <1>1, <1>3 DEF BecomesLimited
    <2> QED
      BY <1>1, <2>1, <2>2 DEF ProcIs, Process
  <1>4. ASSUME NEW code \in Codes, NEW who \in {"itself", "server"}, Ends(c, code, who)
        PROVE  ProcIs(c, "exited", code, proc[c].limited, who)
    <2>1. [proc[c] EXCEPT !.at = "exited", !.code = code, !.ended = who] \in Process
      BY <1>1 DEF Process, Codes
    <2>2. proc' = [proc EXCEPT ![c] =
                     [proc[c] EXCEPT !.at = "exited", !.code = code, !.ended = who]]
      BY <1>1, <1>4 DEF Ends
    <2> QED
      BY <1>1, <2>1, <2>2 DEF ProcIs, Process
  <1> QED
    BY <1>2, <1>3, <1>4

LEMMA AnswerUpdates ==
    ASSUME TypeOK, NEW c \in Calls
    PROVE  /\ \A how \in Hows, code \in Codes : Answer(c, how, code) =>
                AnswerIs(c, how, code, result[c].by)
           /\ \A by \in Bys, code \in Codes : Left(c, by, code) =>
                AnswerIs(c, result[c].how, code, by)
  <1>1. result \in [Calls -> Answers] /\ result[c] \in Answers
    BY DEF TypeOK
  <1>2. ASSUME NEW how \in Hows, NEW code \in Codes, Answer(c, how, code)
        PROVE  AnswerIs(c, how, code, result[c].by)
    <2>1. [result[c] EXCEPT !.how = how, !.code = code] \in Answers
      BY <1>1 DEF Answers, Hows, Codes
    <2>2. result' = [result EXCEPT ![c] = [result[c] EXCEPT !.how = how, !.code = code]]
      BY <1>1, <1>2 DEF Answer
    <2> QED
      BY <1>1, <2>1, <2>2 DEF AnswerIs, Answers
  <1>3. ASSUME NEW by \in Bys, NEW code \in Codes, Left(c, by, code)
        PROVE  AnswerIs(c, result[c].how, code, by)
    <2>1. [result[c] EXCEPT !.by = by, !.code = code] \in Answers
      BY <1>1 DEF Answers, Bys, Codes
    <2>2. result' = [result EXCEPT ![c] = [result[c] EXCEPT !.by = by, !.code = code]]
      BY <1>1, <1>3 DEF Left
    <2> QED
      BY <1>1, <2>1, <2>2 DEF AnswerIs, Answers
  <1> QED
    BY <1>2, <1>3

LEMMA KillUpdate ==
    ASSUME TypeOK, NEW c \in Calls, Kill(c)
    PROVE  /\ proc[c].at \in Running => ProcIs(c, "exited", -1, proc[c].limited, "server")
           /\ proc[c].at \notin Running => proc' = proc
           /\ rest' = [rest EXCEPT ![c] = @ \ {"group"}]
  BY ProcessUpdates DEF Kill, Codes

(* The fields of a well-formed state. *)
LEMMA Fields ==
    ASSUME TypeOK, NEW c \in Calls
    PROVE  /\ proc[c].at \in States /\ proc[c].code \in Codes
           /\ proc[c].limited \in BOOLEAN /\ proc[c].ended \in {"no", "itself", "server"}
           /\ result[c].how \in Hows /\ result[c].code \in Codes /\ result[c].by \in Bys
  <1>1. proc[c] \in Process /\ result[c] \in Answers
    BY DEF TypeOK
  <1> QED
    BY <1>1 DEF Process, Answers, States, Codes, Hows, Bys

-----------------------------------------------------------------------------
(* Types. *)

LEMMA TypeInit == Init => TypeOK
  <1>1. NoProcess \in Process /\ NoAnswer \in Answers
    BY DEF NoProcess, Process, Running, NoAnswer, Answers
  <1> QED
    BY <1>1 DEF Init, TypeOK, Places

LEMMA TypeNext == TypeOK /\ [Next]_vars => TypeOK'
  <1> SUFFICES ASSUME TypeOK, [Next]_vars PROVE TypeOK'
    OBVIOUS
  <1>1. ASSUME NEW c \in Calls, ContextEnds(c) PROVE TypeOK'
    BY <1>1 DEF ContextEnds, TypeOK
  <1>2. ASSUME NEW c \in Calls, ExecReject(c) PROVE TypeOK'
    BY <1>2, AnswerUpdates
    DEF ExecReject, Goes, AnswerIs, Hows, Bys, Codes, TypeOK, Places,
        ExecPlaces, SpawnPlaces
  <1>3. ASSUME NEW c \in Calls, ExecPrepare(c) PROVE TypeOK'
    BY <1>3 DEF ExecPrepare, Goes, TypeOK, Places, ExecPlaces, SpawnPlaces
  <1>4. ASSUME NEW c \in Calls, ExecPrepareFails(c) PROVE TypeOK'
    BY <1>4, AnswerUpdates
    DEF ExecPrepareFails, Goes, AnswerIs, Hows, Bys, Codes, TypeOK, Places,
        ExecPlaces, SpawnPlaces
  <1>5. ASSUME NEW c \in Calls, RunLate(c) PROVE TypeOK'
    BY <1>5, AnswerUpdates
    DEF RunLate, Goes, ReturnFromRun, RemoveScratch, AnswerIs, Hows, Bys,
        Codes, TypeOK, Places, ExecPlaces, SpawnPlaces
  <1>6. ASSUME NEW c \in Calls, RunStart(c) PROVE TypeOK'
    BY <1>6, ProcessUpdates
    DEF RunStart, Goes, ProcIs, States, Running, Codes, TypeOK, Places,
        ExecPlaces, SpawnPlaces
  <1>7. ASSUME NEW c \in Calls, RunStartFails(c) PROVE TypeOK'
    BY <1>7, AnswerUpdates
    DEF RunStartFails, Goes, ReturnFromRun, RemoveScratch, AnswerIs, Hows,
        Bys, Codes, TypeOK, Places, ExecPlaces, SpawnPlaces
  <1>8. ASSUME NEW c \in Calls, RunDone(c) PROVE TypeOK'
    <2>1. result' \in [Calls -> Answers]
      <3>1. proc[c].code \in Codes /\ 0 \in Codes /\ "setup" \in Hows /\ "done" \in Bys
        BY Fields DEF Codes, Hows, Bys
      <3> QED
        BY <1>8, <3>1, AnswerUpdates DEF RunDone, ReturnFromRun, AnswerIs
    <2> QED
      BY <1>8, <2>1
      DEF RunDone, Goes, ReturnFromRun, RemoveScratch, TypeOK, Places, ExecPlaces
  <1>9. ASSUME NEW c \in Calls, RunTimeout(c) PROVE TypeOK'
    BY <1>9, AnswerUpdates, KillUpdate
    DEF RunTimeout, Goes, ProcIs, States, Running, Codes, AnswerIs, Hows,
        Bys, TypeOK, Places, ExecPlaces, SpawnPlaces
  <1>10. ASSUME NEW c \in Calls, RunCancelled(c) PROVE TypeOK'
    BY <1>10, AnswerUpdates, KillUpdate
    DEF RunCancelled, Goes, ProcIs, States, Running, Codes, AnswerIs, Hows,
        Bys, TypeOK, Places, ExecPlaces, SpawnPlaces
  <1>11. ASSUME NEW c \in Calls, RunDrain(c) PROVE TypeOK'
    BY <1>11 DEF RunDrain, Goes, TypeOK, Places, ExecPlaces, SpawnPlaces
  <1>12. ASSUME NEW c \in Calls, ExecClassify(c) PROVE TypeOK'
    <2>1. PICK how \in Hows, code \in Codes : ReturnFromRun(c, how, code)
      <3>1. result[c].code \in Codes /\ 0 \in Codes /\ {"timed_out", "context", "exit"} \subseteq Hows
        BY Fields DEF Codes, Hows
      <3> QED
        BY <1>12, <3>1 DEF ExecClassify
    <2>2. result' \in [Calls -> Answers]
      BY <2>1, AnswerUpdates DEF ReturnFromRun, AnswerIs
    <2> QED
      BY <1>12, <2>1, <2>2
      DEF ExecClassify, Goes, ReturnFromRun, RemoveScratch, TypeOK, Places, ExecPlaces
  <1>13. ASSUME NEW c \in Calls, HandleExecute(c) PROVE TypeOK'
    BY <1>13, AnswerUpdates
    DEF HandleExecute, Goes, AnswerIs, Hows, Bys, Codes, TypeOK, Places,
        ExecPlaces, SpawnPlaces
  <1>14. ASSUME NEW c \in Calls, SpawnBegin(c) PROVE TypeOK'
    BY <1>14 DEF SpawnBegin, Goes, TypeOK, Places, ExecPlaces, SpawnPlaces
  <1>15. ASSUME NEW c \in Calls, SpawnAcquire(c) PROVE TypeOK'
    BY <1>15 DEF SpawnAcquire, Goes, TypeOK, Places, ExecPlaces, SpawnPlaces
  <1>16. ASSUME NEW c \in Calls, SpawnGivesUp(c) PROVE TypeOK'
    BY <1>16, AnswerUpdates
    DEF SpawnGivesUp, Goes, AnswerIs, Hows, Bys, Codes, TypeOK, Places,
        ExecPlaces, SpawnPlaces
  <1>17. ASSUME NEW c \in Calls, SpawnStartFails(c) PROVE TypeOK'
    BY <1>17, AnswerUpdates
    DEF SpawnStartFails, Goes, ReturnFromSpawn, AnswerIs, Hows, Bys, Codes,
        TypeOK, Places, ExecPlaces, SpawnPlaces
  <1>18. ASSUME NEW c \in Calls, SpawnStart(c) PROVE TypeOK'
    BY <1>18, ProcessUpdates
    DEF SpawnStart, Goes, ProcIs, States, Running, Codes, TypeOK, Places,
        ExecPlaces, SpawnPlaces
  <1>19. ASSUME NEW c \in Calls, WatchContext(c) PROVE TypeOK'
    BY <1>19, KillUpdate DEF WatchContext, ProcIs, States, Running, Codes, TypeOK
  <1>20. ASSUME NEW c \in Calls, SpawnWaits(c) PROVE TypeOK'
    BY <1>20, ProcessUpdates, AnswerUpdates
    DEF SpawnWaits, Goes, ReturnFromSpawn, ProcIs, States, Running, Codes,
        AnswerIs, Hows, Bys, TypeOK, Places, ExecPlaces, SpawnPlaces
  <1>21. ASSUME NEW c \in Calls, WaitReaps(c) PROVE TypeOK'
    BY <1>21, ProcessUpdates DEF WaitReaps, ProcIs, States, Running, Codes, TypeOK
  <1>22. ASSUME NEW c \in Calls, WaitReturns(c) PROVE TypeOK'
    BY <1>22, ProcessUpdates DEF WaitReturns, ProcIs, States, Running, Codes, TypeOK
  <1>23. ASSUME NEW c \in Calls, LauncherExecs(c) PROVE TypeOK'
    BY <1>23, ProcessUpdates
    DEF LauncherExecs, ProcIs, States, Running, Codes, TypeOK
  <1>24. ASSUME NEW c \in Calls, LauncherFails(c) PROVE TypeOK'
    BY <1>24, ProcessUpdates
    DEF LauncherFails, ProcIs, States, Running, Codes, TypeOK
  <1>25. ASSUME NEW c \in Calls, TargetEnds(c) PROVE TypeOK'
    BY <1>25, ProcessUpdates, Fields
    DEF TargetEnds, ProcIs, States, Running, Codes, TypeOK
  <1>26. ASSUME NEW c \in Calls, TargetForks(c) PROVE TypeOK'
    BY <1>26 DEF TargetForks, TypeOK
  <1>27. ASSUME NEW c \in Calls, DescendantLeaves(c) PROVE TypeOK'
    BY <1>27 DEF DescendantLeaves, TypeOK
  <1>28. ASSUME NEW c \in Calls, DescendantEnds(c) PROVE TypeOK'
    BY <1>28 DEF DescendantEnds, TypeOK
  <1>29. ASSUME NEW c \in Calls, WorkerLimits(c) PROVE TypeOK'
    BY <1>29, ProcessUpdates
    DEF WorkerLimits, ProcIs, States, Running, Codes, TypeOK
  <1>30. ASSUME NEW c \in Calls, WorkerWrites(c) PROVE TypeOK'
    BY <1>30 DEF WorkerWrites, TypeOK
  <1>31. ASSUME NEW c \in Calls, WorkerEnds(c) PROVE TypeOK'
    BY <1>31, ProcessUpdates DEF WorkerEnds, ProcIs, States, Running, Codes, TypeOK
  <1>32. ASSUME NEW c \in Calls, WorkerDies(c) PROVE TypeOK'
    <2>1. proc' \in [Calls -> Process]
      BY <1>32, ProcessUpdates DEF WorkerDies, ProcIs, Codes
    <2>2. out' \in [Calls -> {"none", "part", "whole", "refusal"}]
      BY <1>32 DEF WorkerDies, TypeOK
    <2> QED
      BY <1>32, <2>1, <2>2 DEF WorkerDies, TypeOK
  <1>33. CASE UNCHANGED vars
    BY <1>33 DEF vars, TypeOK
  <1> QED
    BY <1>1, <1>2, <1>3, <1>4, <1>5, <1>6, <1>7, <1>8, <1>9, <1>10, <1>11, <1>12, <1>13, <1>14, <1>15, <1>16,
       <1>17, <1>18, <1>19, <1>20, <1>21, <1>22, <1>23, <1>24, <1>25, <1>26, <1>27, <1>28, <1>29, <1>30, <1>31, <1>32, <1>33
    DEF Next, ExecSteps, SpawnSteps, WaitSteps, ChildSteps

-----------------------------------------------------------------------------
(* A step of one call leaves the others alone. *)

Same(d) ==
    /\ pc'[d] = pc[d] /\ ctx'[d] = ctx[d] /\ proc'[d] = proc[d] /\ rest'[d] = rest[d]
    /\ status'[d] = status[d] /\ out'[d] = out[d] /\ broken'[d] = broken[d]
    /\ (d \in held' <=> d \in held) /\ scratch'[d] = scratch[d] /\ result'[d] = result[d]

Others(c) == \A d \in Calls \ {c} : Same(d)

LEMMA SameKeeps ==
    ASSUME NEW d \in Calls, CallInv(d), Same(d)
    PROVE  CallInv(d)'
  BY DEF CallInv, Same, ProcInv, PlaceInv, AnswerInv, Unstarted, Unanswered, At

LEMMA OtherCalls ==
    ASSUME TypeOK, NEW c \in Calls,
           ContextEnds(c) \/ ExecSteps(c) \/ SpawnSteps(c) \/ WaitSteps(c) \/ ChildSteps(c)
    PROVE  Others(c)
  <1> SUFFICES ASSUME NEW d \in Calls \ {c} PROVE Same(d)
    BY DEF Others
  <1>1. CASE ContextEnds(c)
    BY <1>1 DEF ContextEnds, TypeOK, Same
  <1>2. CASE ExecReject(c)
    BY <1>2 DEF ExecReject, Goes, Answer, Left, TypeOK, Same
  <1>3. CASE ExecPrepare(c)
    BY <1>3 DEF ExecPrepare, Goes, TypeOK, Same
  <1>4. CASE ExecPrepareFails(c)
    BY <1>4 DEF ExecPrepareFails, Goes, Answer, Left, TypeOK, Same
  <1>5. CASE RunLate(c)
    BY <1>5
    DEF RunLate, Goes, ReturnFromRun, RemoveScratch, Answer, Left, TypeOK,
        Same
  <1>6. CASE RunStart(c)
    BY <1>6 DEF RunStart, Goes, Becomes, BecomesLimited, Ends, TypeOK, Same
  <1>7. CASE RunStartFails(c)
    BY <1>7
    DEF RunStartFails, Goes, ReturnFromRun, RemoveScratch, Answer, Left,
        TypeOK, Same
  <1>8. CASE RunDone(c)
    BY <1>8
    DEF RunDone, Goes, ReturnFromRun, RemoveScratch, Answer, Left, TypeOK,
        Same
  <1>9. CASE RunTimeout(c)
    BY <1>9
    DEF RunTimeout, Goes, Kill, Answer, Left, Becomes, BecomesLimited, Ends,
        TypeOK, Same
  <1>10. CASE RunCancelled(c)
    BY <1>10
    DEF RunCancelled, Goes, Kill, Answer, Left, Becomes, BecomesLimited,
        Ends, TypeOK, Same
  <1>11. CASE RunDrain(c)
    BY <1>11 DEF RunDrain, Goes, TypeOK, Same
  <1>12. CASE ExecClassify(c)
    BY <1>12
    DEF ExecClassify, Goes, ReturnFromRun, RemoveScratch, Answer, Left,
        TypeOK, Same
  <1>13. CASE HandleExecute(c)
    BY <1>13 DEF HandleExecute, Goes, Answer, Left, TypeOK, Same
  <1>14. CASE SpawnBegin(c)
    BY <1>14 DEF SpawnBegin, Goes, TypeOK, Same
  <1>15. CASE SpawnAcquire(c)
    BY <1>15 DEF SpawnAcquire, Goes, TypeOK, Same
  <1>16. CASE SpawnGivesUp(c)
    BY <1>16 DEF SpawnGivesUp, Goes, Answer, Left, TypeOK, Same
  <1>17. CASE SpawnStartFails(c)
    BY <1>17 DEF SpawnStartFails, Goes, ReturnFromSpawn, Answer, Left, TypeOK, Same
  <1>18. CASE SpawnStart(c)
    BY <1>18 DEF SpawnStart, Goes, Becomes, BecomesLimited, Ends, TypeOK, Same
  <1>19. CASE WatchContext(c)
    BY <1>19 DEF WatchContext, Kill, Becomes, BecomesLimited, Ends, TypeOK, Same
  <1>20. CASE SpawnWaits(c)
    BY <1>20
    DEF SpawnWaits, Goes, ReturnFromSpawn, Answer, Left, Becomes,
        BecomesLimited, Ends, TypeOK, Same
  <1>21. CASE WaitReaps(c)
    BY <1>21 DEF WaitReaps, Becomes, BecomesLimited, Ends, TypeOK, Same
  <1>22. CASE WaitReturns(c)
    BY <1>22 DEF WaitReturns, Becomes, BecomesLimited, Ends, TypeOK, Same
  <1>23. CASE LauncherExecs(c)
    BY <1>23 DEF LauncherExecs, Becomes, BecomesLimited, Ends, TypeOK, Same
  <1>24. CASE LauncherFails(c)
    BY <1>24 DEF LauncherFails, Becomes, BecomesLimited, Ends, TypeOK, Same
  <1>25. CASE TargetEnds(c)
    BY <1>25 DEF TargetEnds, Becomes, BecomesLimited, Ends, TypeOK, Same
  <1>26. CASE TargetForks(c)
    BY <1>26 DEF TargetForks, TypeOK, Same
  <1>27. CASE DescendantLeaves(c)
    BY <1>27 DEF DescendantLeaves, TypeOK, Same
  <1>28. CASE DescendantEnds(c)
    BY <1>28 DEF DescendantEnds, TypeOK, Same
  <1>29. CASE WorkerLimits(c)
    BY <1>29 DEF WorkerLimits, Becomes, BecomesLimited, Ends, TypeOK, Same
  <1>30. CASE WorkerWrites(c)
    BY <1>30 DEF WorkerWrites, TypeOK, Same
  <1>31. CASE WorkerEnds(c)
    BY <1>31 DEF WorkerEnds, Becomes, BecomesLimited, Ends, TypeOK, Same
  <1>32. CASE WorkerDies(c)
    BY <1>32 DEF WorkerDies, Becomes, BecomesLimited, Ends, TypeOK, Same
  <1> QED
    BY <1>1, <1>2, <1>3, <1>4, <1>5, <1>6, <1>7, <1>8, <1>9, <1>10, <1>11, <1>12, <1>13, <1>14, <1>15, <1>16,
       <1>17, <1>18, <1>19, <1>20, <1>21, <1>22, <1>23, <1>24, <1>25, <1>26, <1>27, <1>28, <1>29, <1>30, <1>31, <1>32
    DEF ExecSteps, SpawnSteps, WaitSteps, ChildSteps

-----------------------------------------------------------------------------
(* Each step keeps the invariant of its call. *)

LEMMA CallNext ==
    ASSUME TypeOK, NEW c \in Calls, CallInv(c),
           ContextEnds(c) \/ ExecSteps(c) \/ SpawnSteps(c) \/ WaitSteps(c) \/ ChildSteps(c)
    PROVE  CallInv(c)'
  <1>1. CASE ContextEnds(c)
    BY <1>1, Fields
    DEF ContextEnds, TypeOK, CallInv, ProcInv, PlaceInv, AnswerInv,
        Unstarted, Unanswered, At, Running, ExecPlaces
  <1>2. CASE ExecReject(c)
    BY <1>2, AnswerUpdates, Fields
    DEF ExecReject, Goes, AnswerIs, Hows, Bys, Codes, TypeOK, CallInv,
        ProcInv, PlaceInv, AnswerInv, Unstarted, Unanswered, At, Running,
        ExecPlaces
  <1>3. CASE ExecPrepare(c)
    BY <1>3, Fields
    DEF ExecPrepare, Goes, TypeOK, CallInv, ProcInv, PlaceInv, AnswerInv,
        Unstarted, Unanswered, At, Running, ExecPlaces
  <1>4. CASE ExecPrepareFails(c)
    BY <1>4, AnswerUpdates, Fields
    DEF ExecPrepareFails, Goes, AnswerIs, Hows, Bys, Codes, TypeOK, CallInv,
        ProcInv, PlaceInv, AnswerInv, Unstarted, Unanswered, At, Running,
        ExecPlaces
  <1>5. CASE RunLate(c)
    BY <1>5, AnswerUpdates, Fields
    DEF RunLate, Goes, ReturnFromRun, RemoveScratch, AnswerIs, Hows, Bys,
        Codes, TypeOK, CallInv, ProcInv, PlaceInv, AnswerInv, Unstarted,
        Unanswered, At, Running, ExecPlaces
  <1>6. CASE RunStart(c)
    <2>1. ProcIs(c, "launcher", proc[c].code, proc[c].limited, proc[c].ended)
      BY <1>6, ProcessUpdates DEF RunStart, States, Running
    <2> QED
      BY <1>6, <2>1
      DEF RunStart, Goes, ProcIs, TypeOK, CallInv, ProcInv, PlaceInv,
          AnswerInv, Unstarted, Unanswered, At, Running, ExecPlaces
  <1>7. CASE RunStartFails(c)
    BY <1>7, AnswerUpdates, Fields
    DEF RunStartFails, Goes, ReturnFromRun, RemoveScratch, AnswerIs, Hows,
        Bys, Codes, TypeOK, CallInv, ProcInv, PlaceInv, AnswerInv,
        Unstarted, Unanswered, At, Running, ExecPlaces
  <1>8. CASE RunDone(c)
    BY <1>8, AnswerUpdates, Fields
    DEF RunDone, Goes, ReturnFromRun, RemoveScratch, AnswerIs, Hows, Bys,
        Codes, TypeOK, CallInv, ProcInv, PlaceInv, AnswerInv, Unstarted,
        Unanswered, At, Running, ExecPlaces
  <1>9. CASE RunTimeout(c)
    BY <1>9, AnswerUpdates, KillUpdate, Fields
    DEF RunTimeout, Goes, ProcIs, States, Codes, AnswerIs, Hows, Bys,
        TypeOK, CallInv, ProcInv, PlaceInv, AnswerInv, Unstarted,
        Unanswered, At, Running, ExecPlaces
  <1>10. CASE RunCancelled(c)
    BY <1>10, AnswerUpdates, KillUpdate, Fields
    DEF RunCancelled, Goes, ProcIs, States, Codes, AnswerIs, Hows, Bys,
        TypeOK, CallInv, ProcInv, PlaceInv, AnswerInv, Unstarted,
        Unanswered, At, Running, ExecPlaces
  <1>11. CASE RunDrain(c)
    BY <1>11, Fields
    DEF RunDrain, Goes, TypeOK, CallInv, ProcInv, PlaceInv, AnswerInv,
        Unstarted, Unanswered, At, Running, ExecPlaces
  <1>12. CASE ExecClassify(c)
    BY <1>12, AnswerUpdates, Fields
    DEF ExecClassify, Goes, ReturnFromRun, RemoveScratch, AnswerIs, Hows,
        Bys, Codes, TypeOK, CallInv, ProcInv, PlaceInv, AnswerInv,
        Unstarted, Unanswered, At, Running, ExecPlaces
  <1>13. CASE HandleExecute(c)
    BY <1>13, AnswerUpdates, Fields
    DEF HandleExecute, Goes, AnswerIs, Hows, Bys, Codes, TypeOK, CallInv,
        ProcInv, PlaceInv, AnswerInv, Unstarted, Unanswered, At, Running,
        ExecPlaces
  <1>14. CASE SpawnBegin(c)
    BY <1>14, Fields
    DEF SpawnBegin, Goes, TypeOK, CallInv, ProcInv, PlaceInv, AnswerInv,
        Unstarted, Unanswered, At, Running, ExecPlaces
  <1>15. CASE SpawnAcquire(c)
    BY <1>15, Fields
    DEF SpawnAcquire, Goes, TypeOK, CallInv, ProcInv, PlaceInv, AnswerInv,
        Unstarted, Unanswered, At, Running, ExecPlaces
  <1>16. CASE SpawnGivesUp(c)
    BY <1>16, AnswerUpdates, Fields
    DEF SpawnGivesUp, Goes, AnswerIs, Hows, Bys, Codes, TypeOK, CallInv,
        ProcInv, PlaceInv, AnswerInv, Unstarted, Unanswered, At, Running,
        ExecPlaces
  <1>17. CASE SpawnStartFails(c)
    BY <1>17, AnswerUpdates, Fields
    DEF SpawnStartFails, Goes, ReturnFromSpawn, AnswerIs, Hows, Bys, Codes,
        TypeOK, CallInv, ProcInv, PlaceInv, AnswerInv, Unstarted,
        Unanswered, At, Running, ExecPlaces
  <1>18. CASE SpawnStart(c)
    <2>1. ProcIs(c, "worker", proc[c].code, proc[c].limited, proc[c].ended)
      BY <1>18, ProcessUpdates DEF SpawnStart, States, Running
    <2> QED
      BY <1>18, <2>1
      DEF SpawnStart, Goes, ProcIs, TypeOK, CallInv, ProcInv, PlaceInv,
          AnswerInv, Unstarted, Unanswered, At, Running, ExecPlaces
  <1>19. CASE WatchContext(c)
    BY <1>19, KillUpdate, Fields
    DEF WatchContext, ProcIs, States, Codes, TypeOK, CallInv, ProcInv,
        PlaceInv, AnswerInv, Unstarted, Unanswered, At, Running, ExecPlaces
  <1>20. CASE SpawnWaits(c)
    <2>1. ProcIs(c, "done", proc[c].code, proc[c].limited, proc[c].ended)
      BY <1>20, ProcessUpdates DEF SpawnWaits, States
    <2>2. PICK how \in {"killed", "result", "no_isolation"} :
            /\ AnswerIs(c, how, 0, result[c].by)
            /\ how = "result" => out[c] = "whole" /\ proc[c].code = 0
      BY <1>20, AnswerUpdates DEF SpawnWaits, ReturnFromSpawn, Hows, Codes
    <2>3. how = "result" => proc[c].ended = "itself"
      BY <1>20, <2>2, Fields DEF SpawnWaits, CallInv, ProcInv
    <2> QED
      BY <1>20, <2>1, <2>2, <2>3
      DEF SpawnWaits, Goes, ReturnFromSpawn, AnswerIs, ProcIs, TypeOK,
          CallInv, ProcInv, PlaceInv, AnswerInv, Unstarted, Unanswered, At,
          Running, ExecPlaces
  <1>21. CASE WaitReaps(c)
    <2>1. ProcIs(c, "reaped", proc[c].code, proc[c].limited, proc[c].ended)
      BY <1>21, ProcessUpdates DEF WaitReaps, States, Running
    <2> QED
      BY <1>21, <2>1
      DEF WaitReaps, ProcIs, TypeOK, CallInv, ProcInv, PlaceInv, AnswerInv,
          Unstarted, Unanswered, At, Running, ExecPlaces
  <1>22. CASE WaitReturns(c)
    <2>1. ProcIs(c, "done", proc[c].code, proc[c].limited, proc[c].ended)
      BY <1>22, ProcessUpdates DEF WaitReturns, States, Running
    <2> QED
      BY <1>22, <2>1
      DEF WaitReturns, ProcIs, TypeOK, CallInv, ProcInv, PlaceInv,
          AnswerInv, Unstarted, Unanswered, At, Running, ExecPlaces
  <1>23. CASE LauncherExecs(c)
    <2>1. ProcIs(c, "target", proc[c].code, TRUE, proc[c].ended)
      BY <1>23, ProcessUpdates DEF LauncherExecs, States, Running
    <2> QED
      BY <1>23, <2>1
      DEF LauncherExecs, ProcIs, TypeOK, CallInv, ProcInv, PlaceInv,
          AnswerInv, Unstarted, Unanswered, At, Running, ExecPlaces
  <1>24. CASE LauncherFails(c)
    BY <1>24, ProcessUpdates, Fields
    DEF LauncherFails, ProcIs, States, Codes, TypeOK, CallInv, ProcInv,
        PlaceInv, AnswerInv, Unstarted, Unanswered, At, Running, ExecPlaces
  <1>25. CASE TargetEnds(c)
    <2>1. PICK k \in ExitCodes \cup {-1} :
            /\ k # -1 => proc[c].at = "target"
            /\ ProcIs(c, "exited", k, proc[c].limited, "itself")
      BY <1>25, ProcessUpdates DEF TargetEnds, Codes
    <2> QED
      BY <1>25, <2>1
      DEF TargetEnds, ProcIs, TypeOK, CallInv, ProcInv, PlaceInv, AnswerInv,
          Unstarted, Unanswered, At, Running, ExecPlaces
  <1>26. CASE TargetForks(c)
    BY <1>26, Fields
    DEF TargetForks, TypeOK, CallInv, ProcInv, PlaceInv, AnswerInv,
        Unstarted, Unanswered, At, Running, ExecPlaces
  <1>27. CASE DescendantLeaves(c)
    BY <1>27, Fields
    DEF DescendantLeaves, TypeOK, CallInv, ProcInv, PlaceInv, AnswerInv,
        Unstarted, Unanswered, At, Running, ExecPlaces
  <1>28. CASE DescendantEnds(c)
    BY <1>28, Fields
    DEF DescendantEnds, TypeOK, CallInv, ProcInv, PlaceInv, AnswerInv,
        Unstarted, Unanswered, At, Running, ExecPlaces
  <1>29. CASE WorkerLimits(c)
    <2>1. \/ /\ ProcIs(c, "eval", proc[c].code, TRUE, proc[c].ended)
             /\ out' = out
          \/ /\ ProcIs(c, "exited", 0, proc[c].limited, "itself")
             /\ out' = [out EXCEPT ![c] = "refusal"]
      BY <1>29, ProcessUpdates DEF WorkerLimits, States, Running, Codes
    <2> QED
      BY <1>29, <2>1
      DEF WorkerLimits, ProcIs, TypeOK, CallInv, ProcInv, PlaceInv,
          AnswerInv, Unstarted, Unanswered, At, Running, ExecPlaces
  <1>30. CASE WorkerWrites(c)
    BY <1>30, Fields
    DEF WorkerWrites, TypeOK, CallInv, ProcInv, PlaceInv, AnswerInv,
        Unstarted, Unanswered, At, Running, ExecPlaces
  <1>31. CASE WorkerEnds(c)
    BY <1>31, ProcessUpdates, Fields
    DEF WorkerEnds, ProcIs, States, Codes, TypeOK, CallInv, ProcInv,
        PlaceInv, AnswerInv, Unstarted, Unanswered, At, Running, ExecPlaces
  <1>32. CASE WorkerDies(c)
    <2>1. ProcIs(c, "exited", -1, proc[c].limited, "itself")
      BY <1>32, ProcessUpdates DEF WorkerDies, Codes
    <2>2. out'[c] = out[c] \/ (out[c] = "part" /\ out'[c] = "whole")
      BY <1>32 DEF WorkerDies, TypeOK
    <2> QED
      BY <1>32, <2>1, <2>2
      DEF WorkerDies, ProcIs, TypeOK, CallInv, ProcInv, PlaceInv, AnswerInv,
          Unstarted, Unanswered, At, Running, ExecPlaces
  <1> QED
    BY <1>1, <1>2, <1>3, <1>4, <1>5, <1>6, <1>7, <1>8, <1>9, <1>10, <1>11, <1>12, <1>13, <1>14, <1>15, <1>16,
       <1>17, <1>18, <1>19, <1>20, <1>21, <1>22, <1>23, <1>24, <1>25, <1>26, <1>27, <1>28, <1>29, <1>30, <1>31, <1>32
    DEF ExecSteps, SpawnSteps, WaitSteps, ChildSteps

LEMMA InvInit == Init => Inv
  BY DEF Init, Inv, CallInv, ProcInv, PlaceInv, AnswerInv, Unstarted, Unanswered, At,
      NoProcess, NoAnswer, Running, ExecPlaces

LEMMA InvNext == TypeOK /\ Inv /\ [Next]_vars => Inv'
  <1> SUFFICES ASSUME TypeOK, Inv, [Next]_vars, NEW d \in Calls PROVE CallInv(d)'
    BY DEF Inv
  <1>1. ASSUME NEW c \in Calls,
               ContextEnds(c) \/ ExecSteps(c) \/ SpawnSteps(c) \/ WaitSteps(c) \/ ChildSteps(c)
        PROVE  CallInv(d)'
    <2>1. CASE d = c
      BY <1>1, <2>1, CallNext DEF Inv
    <2>2. CASE d # c
      BY <1>1, <2>2, OtherCalls, SameKeeps DEF Others, Inv
    <2> QED
      BY <2>1, <2>2
  <1>2. CASE UNCHANGED vars
    BY <1>2, SameKeeps DEF vars, Same, Inv
  <1> QED
    BY <1>1, <1>2 DEF Next

-----------------------------------------------------------------------------
(* States, processes and answers have their types. *)
THEOREM ChildTypeCorrect == Spec => []TypeOK
  BY TypeInit, TypeNext, PTL DEF Spec

LEMMA Invariant == Spec => [](TypeOK /\ Inv)
  BY TypeInit, TypeNext, InvInit, InvNext, PTL DEF Spec

(* The exit code exec.Run reports is one the snippet's process ended with  *)
(* by itself, under its restrictions (run_unix.go Run, exec.go Run).       *)
THEOREM ExitCodesAreTheTargets == Spec => []ExitCodeIsTheTargets
  <1>1. TypeOK /\ Inv => ExitCodeIsTheTargets
    BY Fields DEF Inv, CallInv, ProcInv, AnswerInv, ExitCodeIsTheTargets
  <1> QED
    BY <1>1, Invariant, PTL

(* A timeout or a cancellation leaves nothing of the process group, however *)
(* many processes there are and whenever the leader ended (run_unix.go Run). *)
THEOREM KilledGroupsAreGone == Spec => []KilledGroupIsGone
  <1>1. Inv => KilledGroupIsGone
    BY DEF Inv, CallInv, AnswerInv, KilledGroupIsGone
  <1> QED
    BY <1>1, Invariant, PTL

(* The scratch directory outlives the process that runs in it (exec.go Run). *)
THEOREM ScratchOutlivesTarget == Spec => []TargetHasItsScratch
  <1>1. Inv => TargetHasItsScratch
    BY DEF Inv, CallInv, PlaceInv, At, TargetHasItsScratch
  <1> QED
    BY <1>1, Invariant, PTL

(* A transform's result comes from a worker under its limit (Spawn).       *)
THEOREM ResultsAreLimited == Spec => []ResultIsFromALimitedWorker
  <1>1. TypeOK /\ Inv => ResultIsFromALimitedWorker
    BY Fields DEF Inv, CallInv, ProcInv, AnswerInv, ResultIsFromALimitedWorker
  <1> QED
    BY <1>1, Invariant, PTL

-----------------------------------------------------------------------------
(* The semaphore.  The running workers are among the holders of slots. *)

SlotsInv == Cardinality(held) <= Slots

LEMMA HeldIsFinite ==
    ASSUME TypeOK
    PROVE  IsFiniteSet(held) /\ Cardinality(held) \in Nat
  BY ChildAssumption, FS_Subset, FS_CardinalityType DEF TypeOK

LEMMA SlotsInit == Init => SlotsInv
  BY ChildAssumption, FS_EmptySet DEF Init, SlotsInv

LEMMA SlotsNext == TypeOK /\ SlotsInv /\ [Next]_vars => SlotsInv'
  <1> SUFFICES ASSUME TypeOK, SlotsInv, [Next]_vars PROVE SlotsInv'
    OBVIOUS
  <1>1. ASSUME NEW c \in Calls, SpawnAcquire(c) PROVE SlotsInv'
    <2>1. held' = held \cup {c} /\ Cardinality(held) < Slots
      BY <1>1 DEF SpawnAcquire
    <2>2. Cardinality(held \cup {c}) = IF c \in held THEN Cardinality(held) ELSE Cardinality(held) + 1
      BY HeldIsFinite, FS_AddElement
    <2>3. Cardinality(held) \in Nat
      BY HeldIsFinite, FS_CardinalityType
    <2>4. Cardinality(held \cup {c}) <= Slots
      BY <2>1, <2>2, <2>3, ChildAssumption
    <2> QED
      BY <2>1, <2>4 DEF SlotsInv
  <1>2. ASSUME NEW c \in Calls, held' = held \ {c} PROVE SlotsInv'
    <2>1. held \ {c} \in SUBSET held
      OBVIOUS
    <2>2. IsFiniteSet(held \ {c}) /\ Cardinality(held \ {c}) <= Cardinality(held)
      BY <2>1, HeldIsFinite, FS_Subset
    <2>3. Cardinality(held \ {c}) \in Nat /\ Cardinality(held) \in Nat
      BY <2>2, HeldIsFinite, FS_CardinalityType
    <2>4. Cardinality(held \ {c}) <= Slots
      BY <2>2, <2>3, ChildAssumption DEF SlotsInv
    <2> QED
      BY <1>2, <2>4 DEF SlotsInv
  <1>3. CASE held' = held
    BY <1>3 DEF SlotsInv
  <1> QED
    BY <1>1, <1>2, <1>3
    DEF Next, vars, ContextEnds, ExecSteps, ExecReject, ExecPrepare, ExecPrepareFails, RunLate,
        RunStart, RunStartFails, RunDone, RunTimeout, RunCancelled, RunDrain, ExecClassify,
        HandleExecute, SpawnSteps, SpawnBegin, SpawnGivesUp, SpawnStartFails, SpawnStart,
        WatchContext, SpawnWaits, ReturnFromSpawn, WaitSteps, WaitReaps, WaitReturns,
        ChildSteps, LauncherExecs, LauncherFails, TargetEnds, TargetForks, DescendantLeaves,
        DescendantEnds, WorkerLimits, WorkerWrites, WorkerEnds, WorkerDies

(* However calls are cancelled, no more workers run than there are slots   *)
(* (transform.go Spawn).                                                   *)
THEOREM WorkersStayBounded == Spec => []WorkersAreBounded
  <1>1. TypeOK /\ Inv /\ SlotsInv => WorkersAreBounded
    <2> SUFFICES ASSUME TypeOK, Inv, SlotsInv PROVE WorkersAreBounded
      OBVIOUS
    <2> DEFINE W == {c \in Calls : proc[c].at \in {"worker", "eval"}}
    <2>1. W \subseteq held
      BY DEF Inv, CallInv, PlaceInv, At
    <2>2. IsFiniteSet(W) /\ Cardinality(W) <= Cardinality(held)
      BY <2>1, HeldIsFinite, FS_Subset
    <2>3. Cardinality(W) \in Nat
      BY <2>2, FS_CardinalityType
    <2> HIDE DEF W
    <2>4. Cardinality(W) <= Slots
      BY <2>2, <2>3, HeldIsFinite, ChildAssumption DEF SlotsInv
    <2> QED
      BY <2>4 DEF W, WorkersAreBounded
  <1> QED
    BY <1>1, Invariant, SlotsInit, SlotsNext, TypeInit, TypeNext, PTL DEF Spec

=============================================================================
