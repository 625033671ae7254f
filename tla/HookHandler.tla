---------------------------- MODULE HookHandler -----------------------------
(***************************************************************************)
(* The hook process (context-router hook): the host starts one per event,  *)
(* several at a time, gives each about two seconds, and may kill it.  It   *)
(* opens session.db for appending, registers an unknown session, guards a  *)
(* large read before it happens, or records a tool call and captures its   *)
(* output.  It must never fail its host: whatever goes wrong ends the      *)
(* process in silence or with a line in session.drops.log.                 *)
(*                                                                         *)
(* A hook's input is what its decisions depend on; the text of events and  *)
(* messages is left out.  Recovery, retention, purges, the content store's *)
(* other users and the files of the worktree are the environment.          *)
(***************************************************************************)
EXTENDS Integers, FiniteSets

CONSTANTS
    Hooks,       \* hook processes
    Scenarios,   \* inputs the host may send to the processes, one for each
    Files,       \* files of the worktree a guard may be asked about
    None,        \* no file
    MaxVersion   \* bound: versions of a file

Gates == {"ok", "hooks-off", "bad-host", "bad-input", "stdin-oversize",
          "bad-session-id", "bad-cwd"}

Events == {"SessionStart", "PreToolUse", "PostToolUse", "PostToolUseFailure",
           "SubagentStart", "SubagentStop", "other"}

Bodies == {"skip", "oversize", "denied", "text"}

Input == [gate: Gates, session: STRING, event: Events, tool: STRING,
          host: {"cc", "cx"}, compact: BOOLEAN,
          whole: BOOLEAN,               \* the guard's static conditions hold
          file: Files \cup {None},      \* the file a guard would look at
          named: BOOLEAN,               \* buildEvent has a summary
          pattern: {"tool_call", "git_diff", "build_run", "test_run"}, \* of a command
          body: Bodies]                 \* what shadowCapture makes of the response

ASSUME HookAssumption ==
    /\ None \notin Files
    /\ Scenarios \subseteq [Hooks -> Input]
    /\ \A in \in Scenarios : \A h \in Hooks :          \* these conditions include a path
          in[h].whole /\ in[h].tool # "Grep" => in[h].file \in Files
    /\ MaxVersion \in Nat \ {0}

VARIABLES
    hook,      \* each process: where it is and what it has done
    db,        \* session.db: "none", "bare" (a file without schema), "ready"
    recovery,  \* session recover holds the lease exclusively
    marker,    \* session.recover-pending is there
    sessions,  \* rows of table sessions
    busy,      \* another process holds the content store's lock
    stored,    \* contents ever registered in content.db, a file's with the
               \* version of its oldest part
    contentDB, \* content.db is there
    version    \* version of each file; odd versions are above the guard's size

env  == <<recovery, marker, busy, version>>
vars == <<hook, db, recovery, marker, sessions, busy, stored, contentDB, version>>

-----------------------------------------------------------------------------
(* Processes. *)

Waiting == {"new", "lease"}
Opening == {"marker", "init", "connect", "migrate"}
Working == {"ensure", "hint", "query", "exists", "register", "stat", "guardStore",
            "guardIngest", "guardRegister", "deny", "warn", "append", "shadow", "shadowStore",
            "shadowIngest", "created", "summary"}
Ended   == {"done", "killed"}

EventTypes == {"session_start", "subagent_start", "subagent_stop", "error", "tool_call", "git_diff",
               "build_run", "test_run", "file_edit", "warning", "artifact_created", "tool_result_summary"}

HintLines   == {"hint-ok", "hint-empty", "hint-unavailable"}
OpenReasons == {"lease-held", "recover-pending", "open-failed"}

Reasons == Gates \cup HintLines \cup OpenReasons
    \cup {"ensure-failed", "session-check-failed", "append-failed", "guard-store", "guard-append",
          "shadow-oversize", "shadow-denylist", "shadow-store", "shadow-ingest", "shadow-append"}

Process == [pc: Waiting \cup Opening \cup Working \cup Ended, in: Input,
            due: BOOLEAN,                \* its deadline has passed
            init: BOOLEAN,               \* it holds session.init.lock
            seen: 0..MaxVersion,         \* version of the file it looked at
            read: 0..MaxVersion,         \* version of the file it began to read
            recorded: SUBSET EventTypes, \* events it has committed
            drops: SUBSET Reasons,       \* its lines for session.drops.log
            out: SUBSET {"deny", "hint"}] \* what it wrote to stdout

(* The processes that share session.lock. *)
Sharing == {h \in Hooks : hook[h].pc \in Opening \cup Working}

(* A drop is a line handed to appendDrop, which logs it when it cannot write it. *)
Move(h, pc)       == hook' = [hook EXCEPT ![h].pc = pc]
Drop(h, r, pc)    == hook' = [hook EXCEPT ![h].pc = pc, ![h].init = FALSE,
                                             ![h].drops = @ \cup {r}]
Commit(h, ev, pc) == hook' = [hook EXCEPT ![h].pc = pc, ![h].recorded = @ \cup {ev}]
Write(h, o, pc)   == hook' = [hook EXCEPT ![h].pc = pc, ![h].out = @ \cup {o}]

In(h) == hook[h].in

TypeOK ==
    /\ hook \in [Hooks -> Process]
    /\ sessions \subseteq STRING
    /\ db \in {"none", "bare", "ready"}
    /\ {recovery, marker, busy, contentDB} \subseteq BOOLEAN
    /\ version \in [Files -> 0..MaxVersion]

Init ==
    /\ \E in \in Scenarios :
          hook = [h \in Hooks |-> [pc |-> "new", in |-> in[h], due |-> FALSE, init |-> FALSE,
                                   seen |-> 0, read |-> 0, recorded |-> {}, drops |-> {}, out |-> {}]]
    /\ db \in {"none", "ready"}
    /\ recovery = FALSE /\ marker = FALSE /\ busy = FALSE
    /\ sessions = {} /\ stored = {} /\ contentDB = FALSE
    /\ version = [f \in Files |-> 1]

-----------------------------------------------------------------------------
(* Run: an input that cannot be attributed ends the call. *)

Run(h) ==
    /\ hook[h].pc = "new"
    /\ CASE In(h).gate = "ok"        -> Move(h, "lease")
         [] In(h).gate = "hooks-off" -> Move(h, "done")
         [] OTHER                    -> Drop(h, In(h).gate, "done")
    /\ UNCHANGED <<db, env, sessions, stored, contentDB>>

(* OpenAppend. *)

(* MkdirAll may fail, and every error of the lock is reported as a held    *)
(* lease.                                                                  *)
AcquireSharedLease(h) ==
    /\ hook[h].pc = "lease"
    /\ \/ ~recovery /\ Move(h, "marker")
       \/ \E r \in {"open-failed", "lease-held"} : Drop(h, r, "done")
    /\ UNCHANGED <<db, env, sessions, stored, contentDB>>

(* The marker, then session.db; either look may fail. *)
CheckRecoverMarker(h) ==
    /\ hook[h].pc = "marker"
    /\ \/ IF marker THEN Drop(h, "recover-pending", "done")
          ELSE Move(h, IF db = "none" THEN "init" ELSE "connect")
       \/ Drop(h, "open-failed", "done")
    /\ UNCHANGED <<db, env, sessions, stored, contentDB>>

(* acquireInitLockCtx: the lock, or the file its holder has made meanwhile. *)
AcquireInitLock(h) ==
    /\ hook[h].pc = "init"
    /\ IF \A g \in Hooks : ~hook[g].init
       THEN hook' = [hook EXCEPT ![h].pc = "connect", ![h].init = TRUE]
       ELSE IF db # "none" THEN Move(h, "connect")
       ELSE hook[h].due /\ Drop(h, "lease-held", "done")
    /\ UNCHANGED <<db, env, sessions, stored, contentDB>>

(* The first statement creates the file. *)
Connect(h) ==
    /\ hook[h].pc = "connect"
    /\ \/ Move(h, "migrate") /\ db' = IF db = "none" THEN "bare" ELSE db
       \/ Drop(h, "open-failed", "done") /\ UNCHANGED db
    /\ UNCHANGED <<env, sessions, stored, contentDB>>

(* Mutant: whoever did not take the init lock leaves the schema to its holder. *)
MigrateIfLocked(h) ==
    /\ hook[h].pc = "migrate"
    /\ hook' = [hook EXCEPT ![h].init = FALSE,
                  ![h].pc = IF In(h).event = "SessionStart" THEN "ensure" ELSE "exists"]
    /\ db' = IF hook[h].init THEN "ready" ELSE db
    /\ UNCHANGED <<env, sessions, stored, contentDB>>

(* migrateWriter, one transaction of idempotent statements; a writer that  *)
(* is always in the way is reported like a held lease.                     *)
MigrateWriter(h) ==
    /\ hook[h].pc = "migrate"
    /\ \/ /\ hook' = [hook EXCEPT ![h].init = FALSE,
                        ![h].pc = IF In(h).event = "SessionStart" THEN "ensure" ELSE "exists"]
          /\ db' = "ready"
       \/ /\ \E r \in {"lease-held", "open-failed"} : Drop(h, r, "done")
          /\ UNCHANGED db
    /\ UNCHANGED <<env, sessions, stored, contentDB>>

-----------------------------------------------------------------------------
(* dispatch.  A statement on session.db succeeds only within the deadline, *)
(* and may fail for other reasons.                                         *)

(* EnsureSession: the row and its session_start in one transaction. *)
Register(h, pc) ==
    /\ ~hook[h].due
    /\ sessions' = sessions \cup {In(h).session}
    /\ IF In(h).session \in sessions THEN Move(h, pc) ELSE Commit(h, "session_start", pc)

SessionStart(h) ==
    /\ hook[h].pc = "ensure"
    /\ \/ Register(h, "hint")
       \/ Drop(h, "ensure-failed", "hint") /\ UNCHANGED sessions
    /\ UNCHANGED <<db, env, stored, contentDB>>

(* injectRecallHint: two gates, then one line in the log on every way out. *)
HintGates(h) ==
    /\ hook[h].pc = "hint"
    /\ CASE ~In(h).compact \/ In(h).host # "cc" -> Move(h, "done")
         [] ~contentDB -> Drop(h, "hint-empty", "done")
         [] OTHER -> Move(h, "query")
    /\ UNCHANGED <<db, env, sessions, stored, contentDB>>

Captured == \E g \in Hooks : <<"shadow", g>> \in stored

(* Mutant: a query that fails ends the call in silence. *)
HintQuerySilent(h) ==
    /\ hook[h].pc = "query"
    /\ \/ ~hook[h].due /\ Captured /\ Drop(h, "hint-ok", "done")
       \/ Move(h, "done")
    /\ UNCHANGED <<db, env, sessions, stored, contentDB>>

(* ShadowOwnedExists; what was captured may have been purged since. *)
HintQuery(h) ==
    /\ hook[h].pc = "query"
    /\ \/ Drop(h, "hint-unavailable", "done")
       \/ ~hook[h].due /\ Drop(h, "hint-empty", "done")
       \/ /\ ~hook[h].due /\ Captured
          /\ hook' = [hook EXCEPT ![h].pc = "done", ![h].out = @ \cup {"hint"},
                                  ![h].drops = @ \cup {"hint-ok"}]
    /\ UNCHANGED <<db, env, sessions, stored, contentDB>>

(* What each guard asks of the call alone: a read without offset and      *)
(* limit, a command that only dumps one absolute path, in either shell's   *)
(* words, a grep for content with head_limit 0.                            *)
GuardRead(in)       == in.tool = "Read" /\ in.whole
GuardBash(in)       == in.tool = "Bash" /\ in.whole
GuardPowerShell(in) == in.tool = "PowerShell" /\ in.whole
GuardGrep(in)       == in.tool = "Grep" /\ in.whole

Recorded == {"SubagentStart", "SubagentStop", "PostToolUse", "PostToolUseFailure"}

(* The step that follows for an event of a known session. *)
First(in) ==
    CASE in.event = "PreToolUse" /\ GuardGrep(in) -> "deny"
      [] in.event = "PreToolUse" /\ (GuardRead(in) \/ GuardBash(in) \/ GuardPowerShell(in)) -> "stat"
      [] in.event \in Recorded -> "append"
      [] OTHER -> "done"

SessionExists(h) ==
    /\ hook[h].pc = "exists"
    /\ \/ Drop(h, "session-check-failed", "done")
       \/ ~hook[h].due /\ Move(h, IF In(h).session \in sessions THEN First(In(h)) ELSE "register")
    /\ UNCHANGED <<db, env, sessions, stored, contentDB>>

(* An unknown session is registered by its first event, which goes on. *)
RegisterOnFirstEvent(h) ==
    /\ hook[h].pc = "register"
    /\ \/ Register(h, First(In(h)))
       \/ Drop(h, "ensure-failed", "done") /\ UNCHANGED sessions
    /\ UNCHANGED <<db, env, stored, contentDB>>

(* AppendDB.Append: refused when the session was deleted meanwhile. *)
Append(h, ev, reason, pc) ==
    \/ ~hook[h].due /\ In(h).session \in sessions /\ Commit(h, ev, pc)
    \/ Drop(h, reason, pc)

(* classify and buildEvent: the type of the event; without a summary none. *)
EventType(in) ==
    IF in.event # "PostToolUse"
    THEN CASE in.event = "SubagentStart" -> "subagent_start"
           [] in.event = "SubagentStop"  -> "subagent_stop"
           [] OTHER                      -> "error"
    ELSE CASE in.tool = "Bash" -> in.pattern
           [] in.tool \in {"Write", "Edit", "NotebookEdit"} -> "file_edit"
           [] OTHER -> "tool_call"

AppendEvent(h) ==
    LET pc == IF In(h).event = "PostToolUse" THEN "shadow" ELSE "done" IN
    /\ hook[h].pc = "append"
    /\ IF In(h).named THEN Append(h, EventType(In(h)), "append-failed", pc) ELSE Move(h, pc)
    /\ UNCHANGED <<db, env, sessions, stored, contentDB>>

-----------------------------------------------------------------------------
(* guardRead, guardBash, guardPowerShell: index the file, then deny. *)

Large(v) == v % 2 = 1

GuardStat(h) ==
    LET v == version[In(h).file] IN
    /\ hook[h].pc = "stat"
    /\ hook' = [hook EXCEPT ![h].pc = IF Large(v) THEN "guardStore" ELSE "done", ![h].seen = v]
    /\ UNCHANGED <<db, env, sessions, stored, contentDB>>

(* Mutant: the wait for the store's lock does not look at the deadline. *)
OpenStoreBlocking(h, reason, pc) ==
    /\ ~busy
    /\ Move(h, pc) /\ contentDB' = TRUE

(* store.OpenContext: waits for the lock until the deadline; the lock is   *)
(* released when it returns.                                               *)
OpenStore(h, reason, pc) ==
    \/ ~busy /\ Move(h, pc) /\ contentDB' = TRUE
    \/ Drop(h, reason, "done") /\ (hook[h].due \/ ~busy) /\ UNCHANGED contentDB

GuardStore(h) ==
    /\ hook[h].pc = "guardStore"
    /\ OpenStore(h, "guard-store", "guardIngest")
    /\ UNCHANGED <<db, env, sessions, stored>>

(* ingest.Run opens the file and begins to read it as it is now; a skip    *)
(* (denied name, size, not readable) or a path outside the worktree lets   *)
(* the read pass in silence.                                               *)
GuardIngest(h) ==
    /\ hook[h].pc = "guardIngest"
    /\ \/ hook' = [hook EXCEPT ![h].pc = "guardRegister", ![h].read = version[In(h).file]]
       \/ Move(h, "done")
    /\ UNCHANGED <<db, env, sessions, stored, contentDB>>

(* Mutant: an ingest without an error counts as indexed, skipped or not. *)
GuardRegisterUnchecked(h) ==
    /\ hook[h].pc = "guardRegister"
    /\ stored' \in {stored, stored \cup {<<In(h).file, hook[h].read>>}}
    /\ Move(h, "deny")
    /\ UNCHANGED <<db, env, sessions, contentDB>>

(* The file may be written while it is read: what is registered may be     *)
(* torn, and is named by the version its first byte comes from, the oldest *)
(* in it.  An error of Register, or a file that became another one while   *)
(* it was read, lets the read pass.                                        *)
GuardRegister(h) ==
    /\ hook[h].pc = "guardRegister"
    /\ \/ /\ ~hook[h].due
          /\ stored' = stored \cup {<<In(h).file, hook[h].read>>}
          /\ Move(h, "deny")
       \/ Move(h, "done") /\ UNCHANGED stored
    /\ UNCHANGED <<db, env, sessions, contentDB>>

(* denyTool: the decision goes to stdout first, the warning may fail. *)
Deny(h) ==
    /\ hook[h].pc = "deny"
    /\ Write(h, "deny", "warn")
    /\ UNCHANGED <<db, env, sessions, stored, contentDB>>

DenyWarning(h) ==
    /\ hook[h].pc = "warn"
    /\ Append(h, "warning", "guard-append", "done")
    /\ UNCHANGED <<db, env, sessions, stored, contentDB>>

-----------------------------------------------------------------------------
(* shadowCapture. *)

ShadowCapture(h) ==
    /\ hook[h].pc = "shadow"
    /\ CASE In(h).body = "skip"     -> Move(h, "done")
         [] In(h).body = "oversize" -> Drop(h, "shadow-oversize", "done")
         [] In(h).body = "denied"   -> Drop(h, "shadow-denylist", "done")
         [] In(h).body = "text"     -> Move(h, "shadowStore")
    /\ UNCHANGED <<db, env, sessions, stored, contentDB>>

ShadowStore(h) ==
    /\ hook[h].pc = "shadowStore"
    /\ OpenStore(h, "shadow-store", "shadowIngest")
    /\ UNCHANGED <<db, env, sessions, stored>>

(* Mutant: the events are written whether or not the ingest succeeded. *)
ShadowIngestUnchecked(h) ==
    /\ hook[h].pc = "shadowIngest"
    /\ stored' \in {stored, stored \cup {<<"shadow", h>>}}
    /\ Move(h, "created")
    /\ UNCHANGED <<db, env, sessions, contentDB>>

ShadowIngest(h) ==
    /\ hook[h].pc = "shadowIngest"
    /\ \/ ~hook[h].due /\ stored' = stored \cup {<<"shadow", h>>} /\ Move(h, "created")
       \/ Drop(h, "shadow-ingest", "done") /\ UNCHANGED stored
    /\ UNCHANGED <<db, env, sessions, contentDB>>

(* shadowAppend twice; the ledger row that follows is module FetchLedger's. *)
ShadowCreated(h) ==
    /\ hook[h].pc = "created"
    /\ Append(h, "artifact_created", "shadow-append", "summary")
    /\ UNCHANGED <<db, env, sessions, stored, contentDB>>

ShadowSummary(h) ==
    /\ hook[h].pc = "summary"
    /\ Append(h, "tool_result_summary", "shadow-append", "done")
    /\ UNCHANGED <<db, env, sessions, stored, contentDB>>

-----------------------------------------------------------------------------
(* The environment. *)

(* context.WithTimeout around dispatch. *)
Deadline(h) ==
    /\ hook[h].pc \notin {"new"} \cup Ended /\ ~hook[h].due
    /\ hook' = [hook EXCEPT ![h].due = TRUE]
    /\ UNCHANGED <<db, env, sessions, stored, contentDB>>

(* External: the host kills a hook that takes too long, or dies itself. *)
Kill(h) ==
    /\ hook[h].pc \notin Ended
    /\ hook' = [hook EXCEPT ![h].pc = "killed", ![h].init = FALSE]
    /\ UNCHANGED <<db, env, sessions, stored, contentDB>>

(* External: session recover, which needs the lease for itself; it leaves  *)
(* its marker when it is interrupted.                                      *)
Recover ==
    /\ Sharing = {}
    /\ recovery' = ~recovery /\ marker' \in (IF recovery THEN BOOLEAN ELSE {TRUE})
    /\ UNCHANGED <<hook, db, sessions, busy, stored, contentDB, version>>

(* External: the retention sweep deletes a session. *)
SweepSession ==
    /\ \E s \in sessions : sessions' = sessions \ {s}
    /\ UNCHANGED <<hook, db, env, stored, contentDB>>

(* External: another process takes or releases the content store's lock. *)
OtherStoreUser ==
    /\ busy' = ~busy
    /\ UNCHANGED <<hook, db, recovery, marker, sessions, stored, contentDB, version>>

(* External: a file of the worktree is written. *)
WriteFile ==
    /\ \E f \in Files : version[f] < MaxVersion /\ version' = [version EXCEPT ![f] = @ + 1]
    /\ UNCHANGED <<hook, db, recovery, marker, sessions, busy, stored, contentDB>>

HookStep(h) ==
    \/ Run(h) \/ AcquireSharedLease(h) \/ CheckRecoverMarker(h) \/ AcquireInitLock(h)
    \/ Connect(h) \/ MigrateWriter(h) \/ SessionStart(h) \/ HintGates(h) \/ HintQuery(h)
    \/ SessionExists(h) \/ RegisterOnFirstEvent(h) \/ AppendEvent(h)
    \/ GuardStat(h) \/ GuardStore(h) \/ GuardIngest(h) \/ GuardRegister(h)
    \/ Deny(h) \/ DenyWarning(h)
    \/ ShadowCapture(h) \/ ShadowStore(h) \/ ShadowIngest(h)
    \/ ShadowCreated(h) \/ ShadowSummary(h)

Next ==
    \/ \E h \in Hooks : HookStep(h) \/ Deadline(h) \/ Kill(h)
    \/ Recover \/ SweepSession \/ OtherStoreUser \/ WriteFile

(* A process that can take a step takes it, and time passes.  Nothing is   *)
(* assumed of the other users of the locks.                                *)
Fairness == \A h \in Hooks : WF_vars(HookStep(h)) /\ WF_vars(Deadline(h))

Spec == Init /\ [][Next]_vars /\ Fairness

-----------------------------------------------------------------------------
(* Properties. *)

(* The events a call leaves when nothing goes wrong. *)
Expected(in) ==
    IF in.gate # "ok" THEN {}
    ELSE (IF in.event \in Recorded /\ in.named THEN {EventType(in)} ELSE {})
         \cup (IF in.event = "PostToolUse" /\ in.body = "text"
               THEN {"artifact_created", "tool_result_summary"} ELSE {})

(* Fail-open is not silent: a call that ran to its end either committed    *)
(* every event it stands for, or left a line in session.drops.log, what-   *)
(* ever lock, deadline or statement stopped it.  A compaction of a Claude  *)
(* session that was opened leaves a hint line on every way out, and a hint *)
(* that was given is never logged as one that was not.                     *)
NothingVanishes ==
    \A h \in Hooks : hook[h].pc = "done" =>
        /\ Expected(In(h)) \subseteq hook[h].recorded \/ hook[h].drops # {}
        /\ In(h).gate = "ok" /\ In(h).event = "SessionStart" /\ In(h).compact /\ In(h).host = "cc"
              => hook[h].drops \cap (HintLines \cup OpenReasons) # {}
        /\ "hint" \in hook[h].out => hook[h].drops \subseteq {"hint-ok", "ensure-failed"}

(* A guard denies a read only when the content can be had from the store:  *)
(* the file was registered, and nothing in what was registered is older    *)
(* than the moment the guard looked at its size, although the file may be  *)
(* written before, during and after the read.                              *)
DenyMeansStored ==
    \A h \in Hooks : "deny" \in hook[h].out /\ In(h).tool # "Grep" =>
        \E v \in hook[h].seen..MaxVersion : <<In(h).file, v>> \in stored

(* The log tells what happened: an artifact event names content that was   *)
(* registered by that call, and a warning a read that was denied.          *)
RecordsAreTrue ==
    \A h \in Hooks :
        /\ hook[h].recorded \cap {"artifact_created", "tool_result_summary"} # {} =>
              <<"shadow", h>> \in stored
        /\ "warning" \in hook[h].recorded => "deny" \in hook[h].out

(* Two hooks that start in a new worktree at once: whichever way a hook    *)
(* came past OpenAppend, with the init lock or by finding the other's      *)
(* file, the schema is there when it uses session.db.                      *)
OpenedMeansMigrated == \A h \in Hooks : hook[h].pc \in Working => db = "ready"

(* Every hook ends, even when the locks it needs are held for ever. *)
HookEnds == \A h \in Hooks : <>(hook[h].pc \in Ended)
=============================================================================
