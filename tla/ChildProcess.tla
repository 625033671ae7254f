---------------------------- MODULE ChildProcess ----------------------------
(***************************************************************************)
(* The processes a server starts for its tools, on Linux: snippets of      *)
(* ctr_execute (internal/exec, internal/sandbox) and workers of            *)
(* ctr_transform (internal/transform).  A call is one handler invocation.  *)
(* The child is the leader of a process group of its own; a snippet may    *)
(* start further processes, in the group or (setsid) out of it, which keep *)
(* its output pipes open.  Contexts, timers, exits and kills come in any   *)
(* order.                                                                  *)
(***************************************************************************)
EXTENDS Integers, FiniteSets

CONSTANTS
    Calls,      \* handler invocations
    Executes,   \* the calls that may be of ctr_execute
    Transforms, \* the calls that may be of ctr_transform
    Slots,      \* transform.workerSem's capacity
    ExitCodes,  \* the exit codes of snippets
    Isolation   \* whether the operating system grants what isolation needs: outcomes

ASSUME ChildAssumption ==
    /\ Slots \in Nat /\ ExitCodes \subseteq Nat /\ IsFiniteSet(Calls)
    /\ Executes \subseteq Calls /\ Transforms \subseteq Calls /\ Isolation \subseteq BOOLEAN

VARIABLES
    pc,       \* where the handler of the call is
    ctx,      \* its context: "live", "deadline" or "canceled"
    proc,     \* the process it started, leader of its group
    rest,     \* the other processes of the snippet: "group" in it, "away" out of it
    status,   \* the launcher has written to the status pipe (fd 3)
    out,      \* what the worker has written to its stdout
    broken,   \* os/exec has ended the worker because of the context (watchCtx)
    held,     \* the calls that hold a slot of workerSem
    scratch,  \* the call's scratch directory exists
    result    \* what the handler has to answer, so far

vars == <<pc, ctx, proc, rest, status, out, broken, held, scratch, result>>

-----------------------------------------------------------------------------
(* Places.  ctr_execute: exec.Run and sandbox.Run; ctr_transform: Spawn. *)

ExecPlaces == {"start", "select", "drain", "classify", "handler"}
SpawnPlaces == {"acquire", "spawn", "wait"}
Places == {"idle", "answered"} \cup ExecPlaces \cup SpawnPlaces

(* at: what the process is; code: its exit code, -1 after a signal;     *)
(* limited: it has put its restrictions on; ended: who ended it.        *)
Running == {"launcher", "target", "worker", "eval"}
Process == [at : {"none", "exited", "reaped", "done"} \cup Running,
            code : ExitCodes \cup {-1, 0, 1}, limited : BOOLEAN,
            ended : {"no", "itself", "server"}]

NoProcess == [at |-> "none", code |-> 0, limited |-> FALSE, ended |-> "no"]

(* how: the kind of answer; by: how sandbox.Run's select was left. *)
Answers == [how : {"none", "exit", "timed_out", "context", "setup", "rejected",
                   "result", "killed", "no_isolation"},
            code : ExitCodes \cup {-1, 0, 1}, by : {"none", "done", "timer", "context"}]

NoAnswer == [how |-> "none", code |-> 0, by |-> "none"]

Init ==
    /\ pc = [c \in Calls |-> "idle"]
    /\ ctx = [c \in Calls |-> "live"]
    /\ proc = [c \in Calls |-> NoProcess]
    /\ rest = [c \in Calls |-> {}]
    /\ status = [c \in Calls |-> FALSE]
    /\ out = [c \in Calls |-> "none"]
    /\ broken = [c \in Calls |-> FALSE]
    /\ held = {}
    /\ scratch = [c \in Calls |-> FALSE]
    /\ result = [c \in Calls |-> NoAnswer]

At(c, p) == pc[c] = p
Goes(c, p) == pc' = [pc EXCEPT ![c] = p]

(* What the handler is to answer, and how sandbox.Run's select was left. *)
Answer(c, how, code) == result' = [result EXCEPT ![c].how = how, ![c].code = code]
Left(c, by, code) == result' = [result EXCEPT ![c].by = by, ![c].code = code]

(* The process is now something else; it puts its restrictions on as it    *)
(* becomes something else; it ends.                                        *)
Becomes(c, at) == proc' = [proc EXCEPT ![c].at = at]
BecomesLimited(c, at) == proc' = [proc EXCEPT ![c].at = at, ![c].limited = TRUE]
Ends(c, code, who) ==
    proc' = [proc EXCEPT ![c].at = "exited", ![c].code = code, ![c].ended = who]

(* The context of a call ends: the client cancels, or a deadline passes. *)
ContextEnds(c) ==
    /\ pc[c] \notin {"idle", "answered"} /\ ctx[c] = "live"
    /\ \E e \in {"deadline", "canceled"} : ctx' = [ctx EXCEPT ![c] = e]
    /\ UNCHANGED <<pc, proc, rest, status, out, broken, held, scratch, result>>

(* Mutant: only the leader is killed. *)
KillLeader(c) ==
    /\ IF proc[c].at \in Running THEN Ends(c, -1, "server") ELSE UNCHANGED proc
    /\ UNCHANGED rest

(* kill(-pgid, SIGKILL): the leader if it still runs, and the rest of its group. *)
Kill(c) ==
    /\ IF proc[c].at \in Running THEN Ends(c, -1, "server") ELSE UNCHANGED proc
    /\ rest' = [rest EXCEPT ![c] = @ \ {"group"}]

-----------------------------------------------------------------------------
(* ctr_execute: exec.Run and sandbox.Run *)

(* The deferred removal of the scratch directory, which may fail. *)
RemoveScratch(c) ==
    \/ scratch' = [scratch EXCEPT ![c] = FALSE]
    \/ scratch' = scratch

ReturnFromRun(c, how, code) ==
    Goes(c, "handler") /\ Answer(c, how, code) /\ RemoveScratch(c)

(* Unknown language, missing or old toolchain. *)
ExecReject(c) ==
    /\ At(c, "idle") /\ c \in Executes /\ Goes(c, "handler") /\ Answer(c, "rejected", 0)
    /\ UNCHANGED <<ctx, proc, rest, status, out, broken, held, scratch>>

(* NewScratch, the environment's directories and the snippet are written. *)
ExecPrepare(c) ==
    /\ At(c, "idle") /\ c \in Executes /\ Goes(c, "start")
    /\ scratch' = [scratch EXCEPT ![c] = TRUE]
    /\ UNCHANGED <<ctx, proc, rest, status, out, broken, held, result>>

(* Preparing fails: before the directory exists, or after, and it is removed again. *)
ExecPrepareFails(c) ==
    /\ At(c, "idle") /\ c \in Executes /\ FALSE \in Isolation
    /\ Goes(c, "handler") /\ Answer(c, "setup", 0)
    /\ \E left \in BOOLEAN : scratch' = [scratch EXCEPT ![c] = left]
    /\ UNCHANGED <<ctx, proc, rest, status, out, broken, held>>

(* A context that has ended before the start is not an isolation failure. *)
RunLate(c) ==
    /\ At(c, "start") /\ ctx[c] # "live"
    /\ \/ /\ ctx[c] = "deadline" /\ Goes(c, "classify")
          /\ Left(c, "timer", -1)
          /\ UNCHANGED scratch
       \/ ctx[c] = "canceled" /\ ReturnFromRun(c, "context", 0)
    /\ UNCHANGED <<ctx, proc, rest, status, out, broken, held>>

(* cmd.Start: the child is the launcher, in a group of its own. *)
RunStart(c) ==
    /\ At(c, "start") /\ ctx[c] = "live"
    /\ Goes(c, "select")
    /\ Becomes(c, "launcher")
    /\ UNCHANGED <<ctx, rest, status, out, broken, held, scratch, result>>

RunStartFails(c) ==
    /\ At(c, "start") /\ ctx[c] = "live" /\ FALSE \in Isolation
    /\ ReturnFromRun(c, "setup", 0)
    /\ UNCHANGED <<ctx, proc, rest, status, out, broken, held>>

(* RunLauncher restricts itself and becomes the snippet's interpreter. *)
LauncherExecs(c) ==
    /\ proc[c].at = "launcher"
    /\ BecomesLimited(c, "target")
    /\ UNCHANGED <<pc, ctx, rest, status, out, broken, held, scratch, result>>

(* RunLauncher fails: it signals on the status pipe and main exits with 1. *)
LauncherFails(c) ==
    /\ proc[c].at = "launcher" /\ FALSE \in Isolation
    /\ status' = [status EXCEPT ![c] = TRUE]
    /\ Ends(c, 1, "itself")
    /\ UNCHANGED <<pc, ctx, rest, out, broken, held, scratch, result>>

(* The snippet's process ends, with an exit code or by a signal (-1). *)
TargetEnds(c) ==
    /\ proc[c].at \in {"launcher", "target"}
    /\ \E k \in ExitCodes \cup {-1} :
         /\ k # -1 => proc[c].at = "target"
         /\ Ends(c, k, "itself")
    /\ UNCHANGED <<pc, ctx, rest, status, out, broken, held, scratch, result>>

(* The snippet starts a process in the background ... *)
TargetForks(c) ==
    /\ proc[c].at = "target" /\ rest' = [rest EXCEPT ![c] = @ \cup {"group"}]
    /\ UNCHANGED <<pc, ctx, proc, status, out, broken, held, scratch, result>>

(* ... which may leave the group, and ends when it likes. *)
DescendantLeaves(c) ==
    /\ "group" \in rest[c]
    /\ \E gone \in {{}, {"group"}} : rest' = [rest EXCEPT ![c] = (@ \ gone) \cup {"away"}]
    /\ UNCHANGED <<pc, ctx, proc, status, out, broken, held, scratch, result>>

DescendantEnds(c) ==
    /\ \E d \in rest[c] : rest' = [rest EXCEPT ![c] = @ \ {d}]
    /\ UNCHANGED <<pc, ctx, proc, status, out, broken, held, scratch, result>>

(* The goroutine in cmd.Wait: the leader is reaped ... *)
WaitReaps(c) ==
    /\ proc[c].at = "exited" /\ pc[c] \in {"select", "drain"}
    /\ Becomes(c, "reaped")
    /\ UNCHANGED <<pc, ctx, rest, status, out, broken, held, scratch, result>>

(* Mutant: cmd.WaitDelay is not set. *)
WaitForPipes(c) ==
    /\ proc[c].at = "reaped" /\ rest[c] = {}
    /\ Becomes(c, "done")
    /\ UNCHANGED <<pc, ctx, rest, status, out, broken, held, scratch, result>>

(* ... and Wait returns when the pipes are closed, or WaitDelay later. *)
WaitReturns(c) ==
    /\ proc[c].at = "reaped"
    /\ Becomes(c, "done")
    /\ UNCHANGED <<pc, ctx, rest, status, out, broken, held, scratch, result>>

(* Mutant: the status pipe is not read. *)
RunDoneUnread(c) ==
    /\ At(c, "select") /\ proc[c].at = "done"
    /\ Goes(c, "classify") /\ UNCHANGED scratch
    /\ Left(c, "done", proc[c].code)
    /\ UNCHANGED <<ctx, proc, rest, status, out, broken, held>>

(* select, case <-done: a byte in the status pipe is a failed launcher. *)
RunDone(c) ==
    /\ At(c, "select") /\ proc[c].at = "done"
    /\ \/ status[c] /\ ReturnFromRun(c, "setup", 0)
       \/ /\ ~status[c] /\ Goes(c, "classify") /\ UNCHANGED scratch
          /\ Left(c, "done", proc[c].code)
    /\ UNCHANGED <<ctx, proc, rest, status, out, broken, held>>

(* select, case <-timer.C *)
RunTimeout(c) ==
    /\ At(c, "select") /\ Goes(c, "drain") /\ Kill(c)
    /\ Left(c, "timer", -1)
    /\ UNCHANGED <<ctx, status, out, broken, held, scratch>>

(* Mutant: a cancelled call does not wait for its child. *)
RunCancelledAtOnce(c) ==
    /\ At(c, "select") /\ ctx[c] # "live" /\ ReturnFromRun(c, "context", 0)
    /\ UNCHANGED <<ctx, proc, rest, status, out, broken, held>>

(* select, case <-ctx.Done() *)
RunCancelled(c) ==
    /\ At(c, "select") /\ ctx[c] # "live" /\ Goes(c, "drain") /\ Kill(c)
    /\ Left(c, "context", -1)
    /\ UNCHANGED <<ctx, status, out, broken, held, scratch>>

(* <-done after the kill *)
RunDrain(c) ==
    /\ At(c, "drain") /\ proc[c].at = "done" /\ Goes(c, "classify")
    /\ UNCHANGED <<ctx, proc, rest, status, out, broken, held, scratch, result>>

(* The end of exec.Run: what the result means also depends on the context. *)
ExecClassify(c) ==
    /\ At(c, "classify")
    /\ CASE result[c].by = "timer" \/ ctx[c] = "deadline" -> ReturnFromRun(c, "timed_out", 0)
         [] result[c].by # "timer" /\ ctx[c] = "canceled" -> ReturnFromRun(c, "context", 0)
         [] OTHER -> ReturnFromRun(c, "exit", result[c].code)
    /\ UNCHANGED <<ctx, proc, rest, status, out, broken, held>>

(* registerExecute's handler: an ended context is answered with its error. *)
HandleExecute(c) ==
    /\ At(c, "handler") /\ Goes(c, "answered")
    /\ IF result[c].how \in {"exit", "timed_out"} /\ ctx[c] # "live"
       THEN Answer(c, "context", 0)
       ELSE UNCHANGED result
    /\ UNCHANGED <<ctx, proc, rest, status, out, broken, held, scratch>>

-----------------------------------------------------------------------------
(* ctr_transform: Spawn and RunWorker.  The context always has a deadline. *)

SpawnBegin(c) ==
    /\ At(c, "idle") /\ c \in Transforms /\ Goes(c, "acquire")
    /\ UNCHANGED <<ctx, proc, rest, status, out, broken, held, scratch, result>>

(* select, case workerSem <- struct{}{} *)
SpawnAcquire(c) ==
    /\ At(c, "acquire") /\ Cardinality(held) < Slots
    /\ held' = held \cup {c} /\ Goes(c, "spawn")
    /\ UNCHANGED <<ctx, proc, rest, status, out, broken, scratch, result>>

(* select, case <-ctx.Done() *)
SpawnGivesUp(c) ==
    /\ At(c, "acquire") /\ ctx[c] # "live"
    /\ Goes(c, "answered") /\ Answer(c, "context", 0)
    /\ UNCHANGED <<ctx, proc, rest, status, out, broken, held, scratch>>

(* The deferred calls: the slot is given back last. *)
ReturnFromSpawn(c, how) ==
    /\ Goes(c, "answered") /\ Answer(c, how, 0) /\ held' = held \ {c}

(* applyMemLimit: cmd.Start refuses a context that has ended; every error of *)
(* applyMemLimit becomes ErrNoIsolation.                                     *)
SpawnStartFails(c) ==
    /\ At(c, "spawn") /\ (ctx[c] # "live" \/ FALSE \in Isolation)
    /\ ReturnFromSpawn(c, "no_isolation")
    /\ UNCHANGED <<ctx, proc, rest, status, out, broken, scratch>>

SpawnStart(c) ==
    /\ At(c, "spawn") /\ ctx[c] = "live"
    /\ Goes(c, "wait") /\ Becomes(c, "worker")
    /\ UNCHANGED <<ctx, rest, status, out, broken, held, scratch, result>>

(* RunWorker: selfApplyMemLimit, or the refusal to evaluate without it. *)
WorkerLimits(c) ==
    /\ proc[c].at = "worker"
    /\ \E ok \in Isolation :
         IF ok
         THEN /\ BecomesLimited(c, "eval")
              /\ UNCHANGED out
         ELSE /\ Ends(c, 0, "itself")
              /\ out' = [out EXCEPT ![c] = "refusal"]
    /\ UNCHANGED <<pc, ctx, rest, status, broken, held, scratch, result>>

(* RunWorker writes the result of Eval, in pieces ... *)
WorkerWrites(c) ==
    /\ proc[c].at = "eval" /\ out[c] = "none"
    /\ out' = [out EXCEPT ![c] = "part"]
    /\ UNCHANGED <<pc, ctx, proc, rest, status, broken, held, scratch, result>>

(* ... and ends. *)
WorkerEnds(c) ==
    /\ proc[c].at = "eval" /\ out[c] = "part"
    /\ out' = [out EXCEPT ![c] = "whole"]
    /\ Ends(c, 0, "itself")
    /\ UNCHANGED <<pc, ctx, rest, status, broken, held, scratch, result>>

(* The memory limit, a panic or a signal ends the worker, perhaps after it *)
(* has written its result.                                                 *)
WorkerDies(c) ==
    /\ proc[c].at \in {"worker", "eval"}
    /\ Ends(c, -1, "itself")
    /\ \E o \in {out[c], IF out[c] = "part" THEN "whole" ELSE out[c]} :
         out' = [out EXCEPT ![c] = o]
    /\ UNCHANGED <<pc, ctx, rest, status, broken, held, scratch, result>>

(* os/exec's watchCtx calls cmd.Cancel, which kills the group. *)
WatchContext(c) ==
    /\ At(c, "wait") /\ ctx[c] # "live" /\ ~broken[c] /\ Kill(c)
    /\ broken' = [broken EXCEPT ![c] = TRUE]
    /\ UNCHANGED <<pc, ctx, status, out, held, scratch, result>>

(* cmd.Wait returns; an error means a killed worker whatever it has written. *)
SpawnWaits(c) ==
    /\ At(c, "wait") /\ proc[c].at = "exited"
    /\ Becomes(c, "done")
    /\ ReturnFromSpawn(c, IF broken[c] \/ proc[c].code # 0 THEN "killed"
                          ELSE CASE out[c] = "whole" -> "result"
                                 [] out[c] = "refusal" -> "no_isolation"
                                 [] OTHER -> "killed")
    /\ UNCHANGED <<ctx, rest, status, out, broken, scratch>>

-----------------------------------------------------------------------------
ExecSteps(c) ==
    \/ ExecReject(c) \/ ExecPrepare(c) \/ ExecPrepareFails(c)
    \/ RunLate(c) \/ RunStart(c) \/ RunStartFails(c)
    \/ RunDone(c) \/ RunTimeout(c) \/ RunCancelled(c) \/ RunDrain(c)
    \/ ExecClassify(c) \/ HandleExecute(c)

SpawnSteps(c) ==
    \/ SpawnBegin(c) \/ SpawnAcquire(c) \/ SpawnGivesUp(c)
    \/ SpawnStartFails(c) \/ SpawnStart(c) \/ WatchContext(c) \/ SpawnWaits(c)

WaitSteps(c) == WaitReaps(c) \/ WaitReturns(c)

ChildSteps(c) ==
    \/ LauncherExecs(c) \/ LauncherFails(c) \/ TargetEnds(c) \/ TargetForks(c)
    \/ DescendantLeaves(c) \/ DescendantEnds(c)
    \/ WorkerLimits(c) \/ WorkerWrites(c) \/ WorkerEnds(c) \/ WorkerDies(c)

Next ==
    \E c \in Calls :
      ContextEnds(c) \/ ExecSteps(c) \/ SpawnSteps(c) \/ WaitSteps(c) \/ ChildSteps(c)

Spec == Init /\ [][Next]_vars

(* The server's goroutines and timers go on; the deadline of a transform   *)
(* passes.  Nothing is promised for the children: they may run for ever.   *)
FairSpec ==
    /\ Spec
    /\ \A c \in Calls :
         /\ WF_vars(pc[c] \in ExecPlaces /\ ExecSteps(c))
         /\ WF_vars(pc[c] \in SpawnPlaces /\ SpawnSteps(c))
         /\ WF_vars(WaitSteps(c))
         /\ WF_vars(pc[c] \in SpawnPlaces /\ ContextEnds(c))

-----------------------------------------------------------------------------
TypeOK ==
    /\ pc \in [Calls -> Places]
    /\ ctx \in [Calls -> {"live", "deadline", "canceled"}]
    /\ proc \in [Calls -> Process]
    /\ rest \in [Calls -> SUBSET {"group", "away"}]
    /\ status \in [Calls -> BOOLEAN]
    /\ out \in [Calls -> {"none", "part", "whole", "refusal"}]
    /\ broken \in [Calls -> BOOLEAN]
    /\ held \subseteq Calls
    /\ scratch \in [Calls -> BOOLEAN]
    /\ result \in [Calls -> Answers]

(* An exit code that exec.Run reports is the one the process ended with by *)
(* itself, never that of a kill or of a launcher that failed; unless it is *)
(* the code of a foreign signal, the process had put its restrictions on   *)
(* (run_unix.go Run, exec.go Run: -1 of a killed process and the           *)
(* launcher's 1 are not ordinary ends).                                    *)
ExitCodeIsTheTargets ==
    \A c \in Calls :
      result[c].how = "exit" =>
        /\ proc[c].ended = "itself" /\ result[c].code = proc[c].code /\ ~status[c]
        /\ result[c].code # -1 => proc[c].limited

(* Once a timeout or a cancellation has killed a snippet, nothing of its   *)
(* process group runs any more, also when its leader was gone before and   *)
(* only background processes were left (run_unix.go Run).                  *)
KilledGroupIsGone ==
    \A c \in Calls :
      result[c].by \in {"timer", "context"} =>
        "group" \notin rest[c] /\ proc[c].at \notin Running

(* A running snippet has its scratch directory, its working directory: it  *)
(* is not removed before the process is gone, on any way out of exec.Run.  *)
TargetHasItsScratch ==
    \A c \in Calls : proc[c].at \in {"launcher", "target"} => scratch[c]

(* However calls are cancelled, no more workers run than workerSem has     *)
(* slots: a slot is not given back before its worker is gone (Spawn).      *)
WorkersAreBounded ==
    Cardinality({c \in Calls : proc[c].at \in {"worker", "eval"}}) <= Slots

(* A transform's result was computed under the memory limit by a worker    *)
(* that ended well: a partial output, or that of a worker that was killed  *)
(* or refused to run, is never returned as a result (Spawn, RunWorker).    *)
ResultIsFromALimitedWorker ==
    \A c \in Calls :
      result[c].how = "result" =>
        out[c] = "whole" /\ proc[c].limited /\ proc[c].ended = "itself" /\ proc[c].code = 0

(* Every call is answered, even when the snippet never ends and its        *)
(* descendants keep the pipes open, and when every slot is taken (waitDelay *)
(* in sandbox.go, defaultWorkerTimeout in transform.go).                   *)
CallsAreAnswered ==
    \A c \in Calls : pc[c] # "idle" ~> At(c, "answered")

=============================================================================
