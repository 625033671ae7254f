---------------------------- MODULE PurgeCommand ----------------------------
(***************************************************************************)
(* The purge command: what it is asked for, which projects it goes through *)
(* and what it does to each, step by step, beside servers, hooks and a     *)
(* session recovery that use the same directories.  Servers and hooks hold *)
(* session.lock shared, a recovery and the removal of session files hold   *)
(* it alone; nothing guards the removal of a whole directory.              *)
(*                                                                         *)
(* Of the content only what the command acts on is kept: rows older than   *)
(* the cutoff, rows only hooks own, orphan blobs, tombstones of the index, *)
(* free pages.  Of a worktree: its directory, the session database, and    *)
(* what recoveries left (backups, the marker).                             *)
(***************************************************************************)
EXTENDS Integers

CONSTANTS
    Projects, Worktrees,
    ProjectOf,     \* the project of a worktree
    Requests,      \* what the user may ask for
    MaxTurns       \* bound: steps of the others

ASSUME PurgeAssumption ==
    /\ ProjectOf \in [Worktrees -> Projects] /\ MaxTurns \in Nat
    /\ Projects \cap (Worktrees \cup {"all"}) = {}
    /\ Requests \subseteq [project : Projects \cup {"all"}, older : BOOLEAN, gc : BOOLEAN,
                            sessions : BOOLEAN, vacuum : BOOLEAN, hookOnly : BOOLEAN]

VARIABLES
    dir, wdir,     \* projects, worktrees that have a directory
    content,       \* project -> what content.db holds, or NoDB
    session,       \* worktrees that have a session.db
    assets,        \* worktrees with backups or a recovery marker
    lease,         \* worktree -> who holds session.lock
    cmd,           \* the command
    deleted,       \* what it deleted, and how
    done, told,    \* what it did and what it said it left out
    turns

others    == <<lease, turns>>
disk      == <<dir, wdir, content, session, assets>>
purgeVars == <<disk, others, cmd, deleted, done, told>>

Parts == {"old", "hook", "orphan", "tombstone", "free", "rest"}
NoDB  == {}
InProject(p) == {w \in Worktrees : ProjectOf[w] = p}

PurgeInit ==
    /\ content \in [Projects -> {NoDB, Parts}] /\ wdir \in SUBSET Worktrees
    /\ session \in SUBSET wdir /\ assets \in SUBSET wdir
    /\ dir = {p \in Projects : content[p] # NoDB} \cup {ProjectOf[w] : w \in wdir}
    /\ lease = [w \in Worktrees |-> "free"] /\ turns = 0
    /\ cmd = [pc |-> "idle"] /\ deleted = {} /\ done = {} /\ told = {}

-----------------------------------------------------------------------------
(* The others. *)

Other == turns < MaxTurns /\ turns' = turns + 1 /\ UNCHANGED <<cmd, deleted, done, told>>

MakeSession(w) ==
    /\ dir' = dir \cup {ProjectOf[w]} /\ wdir' = wdir \cup {w} /\ session' = session \cup {w}
    /\ UNCHANGED assets

(* A server opens both stores, which creates them, and holds the lease. *)
ServerOpens(w) ==
    /\ Other /\ lease[w] = "free" /\ MakeSession(w)
    /\ lease' = [lease EXCEPT ![w] = "server"]
    /\ content' = [content EXCEPT ![ProjectOf[w]] = IF @ = NoDB THEN {"rest"} ELSE @]

ServerCloses(w) ==
    /\ Other /\ lease[w] = "server" /\ lease' = [lease EXCEPT ![w] = "free"] /\ UNCHANGED disk

(* A hook records an event: a session.db, and no content.db. *)
HookRecords(w) ==
    /\ Other /\ lease[w] \in {"free", "server"} /\ MakeSession(w)
    /\ UNCHANGED <<content, lease>>

(* The worktree named, or the only one that has a directory. *)
resolveWorktreeID(p, entry) ==
    LET listWorktreeDirs == InProject(p) \cap wdir
    IN  IF entry # "none" THEN {entry} ELSE {w \in listWorktreeDirs : listWorktreeDirs = {w}}

(* runSessionRecover: a directory, and in it a database or something to    *)
(* resume.                                                                 *)
SessionRecover(p, entry) ==
    /\ Other
    /\ \E w \in resolveWorktreeID(p, entry) \cap InProject(p) \cap wdir \cap (session \cup assets) :
          lease[w] = "free" /\ lease' = [lease EXCEPT ![w] = "recover"]
    /\ UNCHANGED disk

(* Nothing to do; published; or given up between the backup and the        *)
(* publishing.  In a directory that was removed it can only fail.          *)
RecoverEnds(w, outcome) ==
    /\ Other /\ lease[w] = "recover" /\ (outcome = "nothing" \/ w \in wdir)
    /\ lease' = [lease EXCEPT ![w] = "free"]
    /\ session' = CASE outcome = "nothing" -> session
                    [] outcome = "published" -> session \cup {w}
                    [] outcome = "broken" -> session \ {w}
    /\ assets' = IF outcome = "nothing" THEN assets ELSE assets \cup {w}
    /\ UNCHANGED <<dir, wdir, content>>

-----------------------------------------------------------------------------
(* runPurge: flags, targets, confirmation.                                 *)

r == cmd.req
Selective == r.older
GcOnly(q) == q.gc /\ ~q.older /\ ~q.sessions

Go(pc)    == cmd' = [cmd EXCEPT !.pc = pc]
Exit(s)   == cmd' = [cmd EXCEPT !.pc = "exit", !.status = s]
Fail      == cmd' = [cmd EXCEPT !.pc = "close", !.err = TRUE]
Mine      == UNCHANGED others
Nothing   == UNCHANGED <<disk, deleted, done, told>> /\ Mine

(* The combinations of flags that are refused before anything is looked at.*)
Refused(q) ==
    \/ q.vacuum /\ (q.hookOnly \/ ~q.older)
    \/ q.hookOnly /\ (q.project = "all" \/ q.older \/ q.sessions \/ q.gc)

(* Without a target there is nothing to do; a hook-only purge has its own  *)
(* path; only a collection alone is not asked about.                       *)
Start(q) ==
    /\ cmd.pc = "idle"
    /\ LET ids == IF q.project = "all" THEN dir ELSE {q.project}
       IN  cmd' = [pc |-> IF Refused(q) \/ ids = {} THEN "exit" ELSE IF q.hookOnly THEN "hookestimate"
                          ELSE IF GcOnly(q) THEN "loop" ELSE "confirm",
                   req |-> q, status |-> "error", confirmed |-> FALSE,
                   ids |-> ids, targets |-> ids, present |-> wdir,
                   p |-> "none", how |-> "dir", ws |-> {}, w |-> "none",
                   err |-> FALSE, vacuumFailed |-> FALSE, mergeFailed |-> FALSE, diskAbort |-> FALSE]
    /\ Nothing

(* runPurgeHookOnly looks for the database and counts before it asks. *)
HookEstimate ==
    /\ cmd.pc = "hookestimate"
    /\ IF content[r.project] = NoDB THEN Exit("error") ELSE Go("confirm")
    /\ Nothing

(* confirmPurge: the slug typed, or --force without a terminal. *)
confirmPurge(yes) ==
    /\ cmd.pc = "confirm"
    /\ IF ~yes THEN Exit("error")
       ELSE cmd' = [cmd EXCEPT !.confirmed = TRUE, !.p = r.project, !.pc = IF r.hookOnly THEN "open" ELSE "loop"]
    /\ Nothing

-----------------------------------------------------------------------------
(* The loop over the projects. *)

(* A directory without content.db: an error when it was named, skipped     *)
(* when rows were to be selected, removed otherwise.                       *)
NoContent(p) ==
    /\ cmd.pc = "loop" /\ p \in cmd.ids /\ content[p] = NoDB
    /\ \/ r.project # "all" /\ Exit("error") /\ UNCHANGED told
       \/ r.project = "all" /\ Selective /\ cmd' = [cmd EXCEPT !.ids = @ \ {p}] /\ told' = told \cup {<<"nodb", p>>}
       \/ /\ r.project = "all" /\ ~Selective /\ UNCHANGED told
          /\ cmd' = [cmd EXCEPT !.ids = @ \ {p}, !.p = p, !.how = "partial", !.pc = "removeall"]
    /\ UNCHANGED <<disk, deleted, done>> /\ Mine

NextProject(p) ==
    /\ cmd.pc = "loop" /\ p \in cmd.ids /\ content[p] # NoDB
    /\ cmd' = [cmd EXCEPT !.ids = @ \ {p}, !.p = p, !.how = "dir",
                 !.pc = IF GcOnly(r) THEN "gc" ELSE IF Selective THEN "open"
                        ELSE IF r.sessions THEN "listworktrees" ELSE "removeall"]
    /\ Nothing

(* The context is cancelled between two projects. *)
Cancelled == cmd.pc = "loop" /\ cmd.ids # {} /\ Exit("error") /\ Nothing

Deletion(what, of, how) == [what |-> what, of |-> of, how |-> how, leased |-> of \in Worktrees /\ lease[of] # "free"]

(* os.RemoveAll: all of it, or an error with some of it left. *)
RemoveAll(complete) ==
    LET p == cmd.p
        ws == InProject(p)
    IN  /\ cmd.pc = "removeall"
        /\ content' = [content EXCEPT ![p] = NoDB] /\ session' = session \ ws
        /\ IF complete
           THEN /\ dir' = dir \ {p} /\ wdir' = wdir \ ws /\ assets' = assets \ ws
                /\ done' = done \cup {<<"dir", p>>} /\ Go("loop")
           ELSE UNCHANGED <<dir, wdir, assets, done>> /\ Exit("error")
        /\ deleted' = deleted \cup {Deletion("session", w, cmd.how) : w \in ws \cap session} \cup
             {Deletion(part, p, cmd.how) : part \in content[p]} \cup
             {Deletion("assets", w, cmd.how) : w \in ws \cap (assets \ assets')}
        /\ UNCHANGED told /\ Mine

(* store.Open of the selective and of the hook-only purge. *)
OpenStore(ok) ==
    /\ cmd.pc = "open" /\ IF ok THEN Go("rows") ELSE Exit("error")
    /\ Nothing

AfterGc       == IF r.vacuum THEN "merge" ELSE "close"
AfterSessions == IF r.gc THEN "gc" ELSE IF Selective THEN AfterGc ELSE "loop"

(* PurgeOlderThan or PurgeHookOnly, and the line in purge.log: the rows go *)
(* in one transaction, which may fail; what follows it may fail too.       *)
PurgeRows(commit, ok) ==
    LET p    == cmd.p
        part == IF r.hookOnly THEN "hook" ELSE "old"
    IN  /\ cmd.pc = "rows" /\ (ok => commit)
        /\ IF commit
           THEN /\ content' = [content EXCEPT ![p] = (@ \ {part}) \cup {"orphan", "tombstone", "free"}]
                /\ deleted' = deleted \cup {Deletion(part, p, "rows")}
           ELSE UNCHANGED <<content, deleted>>
        /\ IF ok THEN /\ done' = done \cup {<<part, p>>}
                      /\ Go(IF r.hookOnly THEN "merge" ELSE IF r.sessions THEN "listworktrees" ELSE AfterSessions)
                 ELSE Fail /\ UNCHANGED done
        /\ UNCHANGED <<dir, wdir, session, assets, told>> /\ Mine

GiveUp == IF Selective THEN Fail ELSE Exit("error")

(* purgeSessionFiles: one directory after the other. *)
ListWorktrees(ok) ==
    /\ cmd.pc = "listworktrees"
    /\ IF ok THEN cmd' = [cmd EXCEPT !.pc = "sessions", !.ws = InProject(cmd.p) \cap wdir] ELSE GiveUp
    /\ Nothing

(* Mutant: the files are removed whoever has the database open. *)
LockWorktreeAnyway(w, ok) ==
    /\ cmd.pc = "sessions" /\ w \in cmd.ws /\ ok
    /\ cmd' = [cmd EXCEPT !.pc = "removesession", !.ws = @ \ {w}, !.w = w]
    /\ Nothing

(* The lease alone and at once; whatever keeps it from being taken, the    *)
(* worktree is skipped.                                                    *)
LockWorktree(w, ok) ==
    /\ cmd.pc = "sessions" /\ w \in cmd.ws /\ (ok => lease[w] = "free")
    /\ IF ok
       THEN /\ lease' = [lease EXCEPT ![w] = "purge"] /\ UNCHANGED told
            /\ cmd' = [cmd EXCEPT !.pc = "removesession", !.ws = @ \ {w}, !.w = w]
       ELSE told' = told \cup {<<"session", w>>} /\ cmd' = [cmd EXCEPT !.ws = @ \ {w}] /\ UNCHANGED lease
    /\ UNCHANGED <<disk, deleted, done, turns>>

(* The database, its log, its index, and nothing else of the worktree; a   *)
(* failure may come after the first of them; then the lease.               *)
removeSessionDBFiles(first, ok) ==
    LET w    == cmd.w
        gone == IF first THEN {w} \cap session ELSE {}
    IN  /\ cmd.pc = "removesession" /\ (ok => first)
        /\ lease' = [lease EXCEPT ![w] = IF @ = "purge" THEN "free" ELSE @]
        /\ session' = session \ gone
        /\ deleted' = deleted \cup
             {[Deletion("session", x, "sessions") EXCEPT !.leased = lease[x] # "purge"] : x \in gone}
        /\ IF ok THEN done' = done \cup {<<"session", w>>} /\ Go("sessions") ELSE GiveUp /\ UNCHANGED done
        /\ UNCHANGED <<dir, wdir, content, assets, told, turns>>

SessionsDone == cmd.pc = "sessions" /\ cmd.ws = {} /\ Go(AfterSessions) /\ Nothing

(* GCOrphanBlobs and its line in purge.log; alone, through a store of its  *)
(* own, or in the one the selective purge has open.                        *)
CollectOrphans(ok) ==
    /\ cmd.pc = "gc"
    /\ IF ok
       THEN /\ content' = [content EXCEPT ![cmd.p] = @ \ {"orphan"}] /\ done' = done \cup {<<"orphan", cmd.p>>}
            /\ Go(IF Selective THEN AfterGc ELSE "loop")
       ELSE UNCHANGED <<content, done>> /\ GiveUp
    /\ UNCHANGED <<dir, wdir, session, assets, deleted, told>> /\ Mine

(* After a full disk the projects to come are told they are left out. *)
SkipReclaim ==
    /\ cmd.pc = "merge" /\ cmd.diskAbort /\ Go("close")
    /\ told' = told \cup {<<"vacuum", cmd.p>>}
    /\ UNCHANGED <<disk, deleted, done>> /\ Mine

(* MergeFTS: a failure is counted, and VACUUM still tried. *)
MergeFTS(outcome) ==
    /\ cmd.pc = "merge" /\ ~cmd.diskAbort
    /\ IF outcome = "ok"
       THEN /\ content' = [content EXCEPT ![cmd.p] = @ \ {"tombstone"}]
            /\ done' = done \cup {<<"tombstone", cmd.p>>} /\ Go("vacuum")
       ELSE /\ UNCHANGED <<content, done>>
            /\ cmd' = [cmd EXCEPT !.pc = "vacuum", !.mergeFailed = TRUE, !.diskAbort = outcome = "disk"]
    /\ UNCHANGED <<dir, wdir, session, assets, deleted, told>> /\ Mine

(* VACUUM and a checkpoint that must not be busy. *)
vacuumReclaim(outcome) ==
    /\ cmd.pc = "vacuum"
    /\ IF outcome = "ok"
       THEN /\ content' = [content EXCEPT ![cmd.p] = @ \ {"free"}]
            /\ done' = done \cup {<<"free", cmd.p>>} /\ Go("close")
       ELSE /\ UNCHANGED <<content, done>>
            /\ cmd' = [cmd EXCEPT !.pc = "close", !.vacuumFailed = TRUE, !.diskAbort = @ \/ outcome = "disk"]
    /\ UNCHANGED <<dir, wdir, session, assets, deleted, told>> /\ Mine

(* Close, and the errors of this project. *)
CloseStore(ok) ==
    /\ cmd.pc = "close"
    /\ IF cmd.err \/ ~ok THEN Exit("error") ELSE Go(IF r.hookOnly THEN "finish" ELSE "loop")
    /\ Nothing

AllSeen == cmd.pc = "loop" /\ cmd.ids = {} /\ Go("finish") /\ Nothing

(* Mutant: only VACUUM decides how the command ends. *)
FinishVacuumOnly ==
    /\ cmd.pc = "finish" /\ Exit(IF cmd.vacuumFailed THEN "error" ELSE "ok") /\ Nothing

(* The exit status. *)
Finish ==
    /\ cmd.pc = "finish" /\ Exit(IF cmd.vacuumFailed \/ cmd.mergeFailed THEN "error" ELSE "ok")
    /\ Nothing

(* The command is killed; the system takes its lock away. *)
Kill ==
    /\ cmd.pc \notin {"idle", "exit"} /\ Exit("killed")
    /\ lease' = [w \in Worktrees |-> IF lease[w] = "purge" THEN "free" ELSE lease[w]]
    /\ UNCHANGED <<disk, deleted, done, told, turns>>

-----------------------------------------------------------------------------
PurgeNext ==
    \/ \E w \in Worktrees : ServerOpens(w) \/ ServerCloses(w) \/ HookRecords(w)
    \/ \E w \in Worktrees, ok \in BOOLEAN : LockWorktree(w, ok)
    \/ \E w \in Worktrees, outcome \in {"nothing", "published", "broken"} : RecoverEnds(w, outcome)
    \/ \E p \in Projects, entry \in Worktrees \cup {"none"} : SessionRecover(p, entry)
    \/ \E q \in Requests : Start(q)
    \/ \E p \in Projects : NoContent(p) \/ NextProject(p)
    \/ \E ok \in BOOLEAN :
         \/ confirmPurge(ok) \/ RemoveAll(ok) \/ OpenStore(ok) \/ ListWorktrees(ok)
         \/ CollectOrphans(ok) \/ CloseStore(ok)
         \/ \E half \in BOOLEAN : PurgeRows(half, ok) \/ removeSessionDBFiles(half, ok)
    \/ \E outcome \in {"ok", "busy", "disk"} : MergeFTS(outcome) \/ vacuumReclaim(outcome)
    \/ HookEstimate \/ Cancelled \/ SessionsDone \/ SkipReclaim \/ AllSeen \/ Finish \/ Kill

PurgeSpec == PurgeInit /\ [][PurgeNext]_purgeVars

-----------------------------------------------------------------------------
(* What the request asks of the targets and the worktrees there were when  *)
(* it was given.                                                           *)
Asked ==
    LET Each(flag, what) == IF flag THEN {<<what, p>> : p \in cmd.targets} ELSE {}
    IN  UNION {Each(~(r.older \/ r.sessions \/ r.gc \/ r.hookOnly), "dir"),
               Each(r.older, "old"), Each(r.hookOnly, "hook"), Each(r.gc, "orphan"),
               Each(r.vacuum \/ r.hookOnly, "tombstone"), Each(r.vacuum \/ r.hookOnly, "free"),
               {<<"session", w>> : w \in {x \in cmd.present : r.sessions /\ ProjectOf[x] \in cmd.targets}}}

(* A command that ends without an error (runPurge's and runPurgeHookOnly's *)
(* return, through every step that may fail, every project that may be     *)
(* skipped and the abort after a full disk) has done all it was asked for, *)
(* except in a project it removed or said it skips, and except a session   *)
(* it said is in use.  A run that only reclaimed a part must not look like *)
(* a success.                                                              *)
ExitTellsTheTruth ==
    cmd.pc = "exit" /\ cmd.status = "ok" =>
      \A a \in Asked :
        LET p == IF a[2] \in Worktrees THEN ProjectOf[a[2]] ELSE a[2]
        IN  \/ a \in done \/ <<"dir", p>> \in done \/ <<"nodb", p>> \in told
            \/ a[1] = "session" /\ a \in told

(* Wherever the command is stopped and whatever the others do meanwhile,   *)
(* it deletes only of its targets.  In a project whose content.db the loop *)
(* found it deletes only after the confirmation, nothing when it only      *)
(* collects, and what was named: rows by their flag, by --sessions a       *)
(* session database that nobody else holds, backups and marker only when   *)
(* the whole project was asked for.  Of a project without content.db it    *)
(* says only that it takes --all, and that --older-than leaves it alone:   *)
(* the property below, which does not hold, is about it.                   *)
(* (runPurge, purgeSessionFiles, runPurgeHookOnly.)                        *)
NothingUnasked ==
    \A d \in deleted :
      /\ (IF d.of \in Worktrees THEN ProjectOf[d.of] ELSE d.of) \in cmd.targets
      /\ d.how = "partial" => r.project = "all" /\ ~r.older
      /\ d.how # "partial" =>
           /\ cmd.confirmed /\ ~GcOnly(r)
           /\ \/ d.how = "rows" /\ ((d.what = "old" /\ r.older) \/ (d.what = "hook" /\ r.hookOnly))
              \/ d.how = "sessions" /\ d.what = "session" /\ r.sessions /\ ~d.leased
              \/ d.how = "dir" /\ ~(r.older \/ r.sessions \/ r.gc \/ r.hookOnly)

(* What comments of runPurge claim and the code does not give (violated,   *)
(* cli.go:909-911 and 1038): a collection alone deletes nothing, which is  *)
(* why nobody is asked.                                                    *)
CollectionDeletesNothing == cmd.pc # "idle" /\ GcOnly(r) => deleted = {}

=============================================================================
