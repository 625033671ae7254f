# TLA+ models of context-router

context-router is a local server (MCP over stdio) that keeps large tool results
out of a coding agent's context: it indexes files, command output and web pages
in a content store, answers searches over it, runs code and transforms in a
sandbox, and records what happened in a session log. Hooks of the host program
write into the same stores from short-lived processes, and a command line
inspects, purges and repairs them. Everything is kept in SQLite databases and
plain files in one data directory per project; several servers, hooks and
command-line processes use it at the same time, without any daemon between them.

This directory holds TLA+ models of the parts whose correctness depends on the
order of steps, TLC configurations that check them on small instances, and
proofs, checked by TLAPS, of the main properties for every instance.
`PROJECT.json` lists the components, the runs, which definition models which
lines, the hazards the properties are aimed at, and the theorems.

    tlc -workers 2 -config MCContentStore_store.cfg MCContentStore
    tlapm ContentStoreProofs.tla

## Inventory

| part | source (`src/`) | state | operations |
|---|---|---|---|
| content store | `internal/store/store.go`, `store_lock_*.go` | rows of content.db (artifacts, chunks, sources, id_watermark), blob files `artifacts/<sha256>` and `.purging` files, the store lock file | Register, PurgeOlderThan, PurgeHookOnlyOlderThan, GCOrphanBlobs, MergeFTS, StaleOf, ReadRange |
| savings ledger | `internal/store/store.go` | table, columns and user_version of ledger.db, the column set each server saw | LedgerAppendContext, LedgerAppendFetch, migrateLedger, LedgerFetchStats |
| purge log | `internal/store/purgelog.go` | purge.log, append-only and never rotated or truncated | PurgeStatus, AppendPurgeLog |
| session store | `internal/session/session.go`, `retention.go` | rows of session.db (sessions, session_events), shared leases | Open, EnsureSession, Append, Sweep |
| session recovery | `internal/session/recover.go` | session.db, its log, recover-tmp, backups, the pending marker | Recover |
| export, summary | `internal/session/export.go`, `summary.go`, `internal/mcp/mcp_session.go` | none (cursors live in the client) | ctr_export_events, ctr_session_summary, ctr_record_event |
| hook handler | `internal/hook/hook.go`, `shadow.go` | lines of session.drops.log, its two locks | dispatch of host events, guards, shadow capture, recall hint |
| server process | `cmd/context-router/main.go` | two goroutines, their contexts, the deferred calls of run | start, startup purge, merge loop, way out |
| ingest | `internal/ingest/ingest.go` | the pool of one call | Run: walk, read, redact, chunk, register |
| MCP tools | `internal/mcp/*.go` | none | tool handlers, fetch budgets, error mapping |
| search | `internal/search/search.go` | none (row ids between its statements) | Query, QueryEvents, rank fusion, snippets, budgets |
| exec, sandbox, transform | `internal/exec`, `internal/sandbox`, `internal/transform` | child processes and their groups, scratch directories, the two worker slots | exec.Run, sandbox.Run, launcher, Spawn, RunWorker |
| network fetch | `internal/netfetch/netfetch.go` | none | fetch with redirect and address checks |
| command line: purge | `internal/cli/cli.go` | none of its own | runPurge, runPurgeHookOnly, purgeSessionFiles |
| command line: settings and logs | `internal/cli/hook_install.go`, `purgelog.go` | the hosts' settings files, purge.log, session.drops.log | hook uninstall, the counts of doctor |
| command line: the rest | `internal/cli/*.go` | none | session recover and export, doctor, stats, usage, mcp install |
| identity, build information | `internal/ident`, `internal/buildinfo` | none | path canonicalisation, version |

How they interact. Servers and hooks **register** content: blob files are placed
first, rows commit afterwards. A server **purges** expired shadow captures when
it starts, and the command line purges by age, by owner, by session or a whole
directory and **collects** orphan blobs: rows go first and files afterwards. Only
the file-deleting operations share a lock (`lockStoreCtx`); Register takes none.
Servers and hooks open a session under a **shared lease** of `session.lock`;
`session recover` and the removal of session files take the same lock
exclusively, and a recovery leaves a marker for the time it does not hold it.
Hooks append to sessions of the host under whatever rows they find, and index
files and outputs in the content store. Clients page through the events with
rowid cursors while servers delete expired ones; they **search** in several
statements and **fetch** what they found by ids that rows may have lost
meanwhile, and each fetch leaves a row in the **ledger**, which older binaries
write too. `main.run` owns the two goroutines and must join them before it closes
the databases. Tool handlers start **child processes** (the server's own binary,
which restricts itself before it runs foreign code) and have to end them with the
call.

What is hard here: rows and files cannot change in one step; every process may
be killed between two steps; ages and size/time pairs stand in for locks and
contents; a recovery keeps no record of its progress; loops that run until
nothing is left to do, while others add work; and an order of deferred calls
that only matters when a shutdown meets a slow purge; children whose exit,
whose timer and whose cancellation arrive together; a search and a fetch that
see a different database in every statement; a schema that is migrated while
others write by the old one; and programs that must not fail their host, and
must not be silent either.

What makes each part correct, in one line: no committed row without its file
and no id that comes to name something else (content store); what is read back
of a fetch is its outcome or less (ledger); no readable row lost, no server let in
(recovery); no orphan, no page that skips an event (session); nothing closed in
use, a truthful log (server); no outdated row that passes for current (ingest);
every event recorded or a drop noted, no denied read without the content (hook);
hits that match and fetches that return them (search); ended calls without
remains (children); nothing deleted unasked and no success claimed for half the
work (purge); cuts that are what they say (texts); the user's groups kept
(settings); no record invented (logs).

## Modules

Each component with state has a module with its state and one action per step, an
`MC` module with what its configurations need (inputs, symmetry). Two `MC` modules hold
two components that share no state: `MCCommands` purge and search, `MCIngest` the pool and
the inputs of the pure functions. In these one of the two moves only where the other is
at an initial state, so the run checks the one and then the other. The proofs are in
eight `Proofs` modules: one each for six components, `MaintenanceProofs` for recovery,
purge, settings and logs, and `ServerProofs` for the server, search and the texts.
Where proofs about several modules share a file, the specifications have names of their
own (`PurgeSpec`, `SearchSpec`, `InputSpec` of the algorithms; `Spec` elsewhere).
`Totals` holds the running total that Search and TextRanges use. Definitions marked "Mutant" are plausible wrong versions of
the definition that follows; nothing uses them, they document what each property
excludes. The modules are not composed into one state: each carries the others'
effect on its own state as actions of its environment (a purge in FetchLedger, a
recovery in HookHandler and PurgeCommand) that may happen at any moment the shared
locks allow. Search and ContentStore are joined by `ContentRows`: Search's environment
is its actions, and ContentStore implements it.

### ContentStore and ContentRows

Rows are sets of records, a file is its modification time (its content is its
hash), time runs in units of the collector's one-hour grace period. `Register`
is three kinds of steps: `RegisterPlace`, `RegisterPlaceRaw` (web sources keep
the raw page too) and the transaction (`RegisterExisting`, `RegisterNew`), which
assigns the id (`IsNextArtifactID`) and advances the watermark; `RegisterFail`
stands for every error return and crash before the commit. `PurgeOlderThan` and
`PurgeHookRows` are transactions; `Reclaim*` is the loop of `reclaimHookBlobs`
(rename into quarantine, check age and references, remove or roll back), `GC*`
the one of `GCOrphanBlobs`. Each file operation may fail; `PurgerCrash` ends a
purge anywhere.

The history variable `exposed` records the hashes for which one of three windows
was hit in which the code gives no protection, and the blob of a committed row
can be lost:

1. a purge dies, or its roll-back rename fails, while the file is in quarantine:
   nothing renames it back, and the collector removes it after an hour;
2. a roll-back renames the old file over one that a Register placed meanwhile, so
   the file has the old age again and the age check no longer covers that
   Register;
3. a Register replaces a file between the collector's stat and its remove.

`BlobLossOnlyInOpenWindows` says that there are no others. The third contradicts
the comment of `gcOrphanMinAge`, which takes the age check for sufficient.

`ContentRows` is what remains of this for a reader of the database: ids that name a
content, uris that name an id, and three transactions (`SaveAs`, `PurgeSources`,
`PurgeArtifacts`); an id is issued once. `Content` is the refinement mapping (the two
tables as functions; a content is a hash with its media type) and `ContentIsAddressed`
the refinement. It needs a watermark that can be written: when its statements fail,
ids are issued again, which `IdNeverRebinds` allows for the ids concerned.

### SessionRecover

A file is the set of rows it holds or `None`; `session.db` and its write-ahead
log are two files. `pc` follows `Recover` step by step: marker, judging what an
earlier run left (`TmpIsHealthy`, `PublishAlreadyComplete`), restoring a moved
original, rescue, verification, moving the original aside (log, then main),
publishing the copy, sweeping orphan backups, removing the marker. `RecoverStops`
is a kill or an error return at any step, `RescueError` a rescue that fails
half-way, `TmpMisjudged` a passing error in the health check, `TmpLost` the copy
disappearing between two runs. Servers take a lease, look for the
marker, append and close.

Two paths lose readable rows and are kept apart by `partial` and `misjudged`:
a rescue that fails half-way leaves a file that the next run takes for a complete
copy (`recover_partial`); and a complete copy that a passing error makes look
unhealthy is deleted and made again, although the log may already have been moved
into a backup, which the sweep of split backups then deletes. In the second case
recover.go calls the choice conservative; the rows survive only until that sweep.

`misjudged` is set by every refused copy, not only by those refused while a backup
is split. The narrower form holds on the run's instance and not in general: a healthy
published main whose check is undecided is rescued once more, and when that run is
cut a healthy copy stays behind. `PublishAlreadyComplete` of the next run, the error
having hit the check of that copy, removes the marker and leaves it; servers append,
and when a later recovery is cut before it removes the stale copy, the run after that
publishes it.

`NoForeignLog` is without either exception. A published copy lies beside the log of
the database it replaces in one case, named by the history variable `restoreCut`: a
restore, begun because a complete copy was refused, put the log back and was cut
before it put the database back. The comment of `restoreLatestBackup` says that the
next run takes the restore up again; it judges the copy first, finds it healthy and
publishes it. `CutRestoreIsCompleted` is that comment, and `recover_restore` shows the
steps that break it (one passing error, two cuts). SQLite would replay such a log into
the copy.

### SessionStore

Transactions are steps; row ids are issued as SQLite does for a key without
AUTOINCREMENT. A server inserts its session row and announces it in two
transactions, sweeps in batches with the time it was given, and serves. A hook
checks for its session, registers it, appends. A consumer pages with
`ExportPage`, which covers the row limit and the cut at the byte budget.

A process reads the clock before it waits for the writer lock, so a row may carry a
time that is up to `Lag` old when it is committed (`Stamps`): `ts` of an event,
`started_at` of a session. An event may then have expired when it appears, and the
retention may delete the last row; so may the collection when a client has recorded
the type `session_start` through ctr_record_event, which `ValidateEvent` lets pass.
Either way SQLite gives the row id out again. `top` is the largest id ever given, and
an event whose id had been given before is marked `again`. `CursorMissesNothing` is
what consumers can rely on: every event at or before the cursor was returned unless
it is marked. The mark is needed, although the comments of the export promise every
event (mcp_session.go:386-387): an old idle server records a session_start, a consumer
reads it, another server's start collects the old session, the next event gets the same
row id, and the consumer's cursor is past it. Without `~e.again` TLC finds such a run.

`Tick` waits for a server between the insertion of its row and its sweep: a start
takes at most `Lag`. Without that its session could grow old, be collected, and be
announced by an event without a session, which the code answers with an error.

The session of a running but idle server, which has no event after its start, may be
collected by the sweep of another server and does not come back; no property speaks
of it.

### ServerLifecycle

`life` follows `main.run` and its deferred calls in unwinding order, `purge` and
`merge` the two goroutines. The purge's status line is computed from the same
inputs as in the code (`PurgeStatus`), with the context's end latched before it
(`Latched`). The merge stamp is its age on the wall clock, which may be set back;
the timer runs on the monotonic clock. A server outside `Purging` has no startup
purge, and no fairness: it may stop anywhere.

### Ingest

`collect` notes size and time of each file, the feeder hands items to idle
workers (the channel is unbuffered), a worker opens, reads and registers. Files
change at any moment; a read that overlaps a write returns the old content, the
new one or a mixture. `StaleOf` is what search and fetch ask about a row later.

### ChildProcess

`pc` is the place of a tool handler: `start` .. `classify` in `exec.Run` and
`sandbox.Run` (Unix, with the Linux launcher), `acquire`, `spawn` and `wait` in
`transform.Spawn`. `proc` is the process the call started, `rest` what a snippet
started in its turn, in the process group or out of it. Each case of the select of
`sandbox.Run` is an action, enabled when its channel is ready; `Kill` is
`kill(-pgid)`. `WaitReaps` and `WaitReturns` are the goroutine in `cmd.Wait`, which
os/exec ends `waitDelay` after the exit even if the pipes are still open;
`WatchContext` is the goroutine with which os/exec ends a worker. Children do as
they please: they end with any code, die of a signal, fork, leave the group, write
half a result, or run for ever. A launcher or a worker that cannot restrict itself
says so (`status`, `out`) and ends.

An ordinary end kills nothing: a background process of a snippet that ended
by itself goes on, by design, and the properties say nothing about it. A call
whose context ends while its slot becomes free may start a worker all the same;
the start then fails, and the call answers ErrNoIsolation although nothing is
wrong with the isolation (transform.go reports every start error so).

### FetchLedger and FetchRecord

`FetchRecord` is what the ledger promises about ctr_fetch: a log of outcomes, one
or none for each call that ended, that may say less than what happened, never
something else, and of which nothing ever changes. `FetchLedger` is the table, its
migration statement by statement (`OpenLedger` .. `WriteMark`), each of which may
fail and between any two of which the process may die, the column set a server saw
when it opened (`view`), the three writers (this binary's two and an older
server's), and a call of ctr_fetch that learns its outcome in several statements on
content.db while purges go on. `Promise` is the refinement mapping: the log is what
`LedgerFetchStats` makes of each row (`Reading`), a pending outcome what the call's
statements returned (`Outcome`).

### HookHandler

One record per hook process with the place it is at, its input, its deadline, what
it committed, what it noted in session.drops.log and what it told the host. The
steps are those of `Run`, `OpenAppend` (lease, marker, init lock, connect, migrate)
and `dispatch` (session start and recall hint; registration on the first event; the
guards; the event; the capture of an output). The deadline may pass between any two
(`Deadline`), the host may kill the process, and a recovery, a retention sweep,
another user of the content store and a program that writes the guarded file are
steps of their own. The `init` field is session.init.lock, which a process that found
no file takes: hooks here, and a server's Open in the same way, for which the other
hook stands.

The guard of a read looks at the file (`GuardStat`), opens the store, opens and begins
to read the file (`GuardIngest`) and registers what it read (`GuardRegister`), while the
file may be written at any of these steps. What is registered may be torn, and is named
by the oldest version that is in it, that of its first byte. `DenyMeansStored` is
therefore that nothing in what was registered is older than what the guard looked at.

### Search

One search at a time and a fetch of one of its hits, beside Register, both purges,
events and sweeps. The rows are those of `ContentRows`, to whose steps Search adds the
chunks; a hook purge may take any artifacts, shadow captures or not. `RankPorter`, `RankTrigram`, `FilterAndMerge` and
each `LoadHit` are statements of their own, so a row id that was ranked may name
another row when it is loaded; `reissued` is the history of that. `FetchArtifact`
and `FetchChunk` are the two statements of ReadRange. bm25 is any order of the rows
that match, and the best of a query are a set with a rank for each (`topN` cuts by score,
ties by id); of a text only its tokens and its size matter, which are any the constants
say. Budgets are those of `Query`, which
carries over what a query did not use, and of `registerSearch`, which gives the rest
to the events.

### PurgeCommand

`cmd` is the program counter and the local variables of `runPurge` and
`runPurgeHookOnly`: the flags (every combination that is not refused), the projects
left, the errors kept. Of the content only the parts the command acts on are kept,
of a worktree its directory, its session database, the backups and the marker of a
recovery, and who holds `session.lock`. Every step may fail where the code handles
an error, the context may end between projects, the command may be killed, and
servers, hooks and a recovery come and go. `done` and `told` are what it did and what
it said it left out; `deleted` records each deletion with what was asked and who held
the lease.

`NothingUnasked` is about the projects whose content.db the loop found: nothing without
the confirmation, nothing by a collection alone, rows by their flag, session databases
under the lease, a directory only when nothing else was asked. Of a project without a
content.db (an interrupted first start, or one that only hooks have written to) it says
that `--all` is needed and that `--older-than` leaves it alone, and no more, for what
the comments of `runPurge` say is not so: under `--all` such a directory is removed as a
whole before the branches of `--gc` and `--sessions` are reached. So a collection, which
"deletes nothing" and therefore asks nobody, deletes session databases
(`CollectionDeletesNothing`, run `purge_collect`), and `--sessions`, which "excludes"
backups and the marker (cli.go:924, 1343-1347), deletes them when that directory holds
them. The removal of a directory asks no lease in any case.

### TextRanges, HookSettings, SidecarLogs

Algorithms without state, as operators: how a text is cut (`ChunkText`, `ReadRange`
by lines and by bytes, `applyFetchBudget`, `snippetWindow`), what `hook uninstall`
takes out of the two hosts' settings files and how doctor counts the groups that are
left, and what the readers of purge.log and session.drops.log make of torn lines. A text
is its bytes, as far as a cut can tell them apart, and a chunk is where it starts:
`ChunkStarts` is the loop of ChunkText, `NextStart` one turn of it. A settings file gives
each event its groups, and a group is known by its place in it. A log is the appends made
to it and where each was cut; `LineAt` is the line an append ends up in, whose cells know
who wrote them, so that what a torn record and the next one make together can be told
from what was written. `LogInventsNothing` is about all nine fields of an entry doctor
shows: each is that of one and the same append, but for two kinds of chance the code
leaves. The time of the entry may go on from digits of the append before, if that one
stopped inside its own time. And what follows the status (count, bytes, deferred, failed)
may come from the next append, from the field on in which this one stopped: a count torn
after two digits goes on with those of the next time stamp.
`MCAlgorithms` writes their inputs piece by piece, so that every input up to the
bounds is one state, and each property is a reference definition the operator is
compared with.

## Runs

| run | instance | states | what it shows |
|---|---|---|---|
| content_store | 1 hash, 2 media types, 1 uri, 2 registrars, 1 purger, 1 collector, 1 clock unit | 807,282 | the rows are those of ContentRows (so an id never comes to name another content), rows in step, hook purges selective, no blob lost outside the three windows |
| recover_resume | 3 rows, 1 server, 4 faults, 4 backups | 414,504 | nothing readable is lost, evidence always in some file, servers kept out, no foreign log but after a cut restore, recovery ends |
| recover_partial (violated) | 2 rows | | the partial copy that is published |
| recover_restore (violated) | 2 rows, 3 backups | | the cut restore that is not completed |
| session_rows | 2 servers, 1 hook, 1 consumer, 3 events, 2 clock units, stamps 1 unit late, pages of the worktree or of a host's session | 3,088,924 | no orphans, own policy only, paging misses nothing but what a row id given twice hides |
| lifecycle_serve | 2 servers of which 1 purges, interval 2 | 547,708 | nothing closed in use, truthful purge log, merge looked at in time, the way out ends |
| ingest_and_inputs | 1 run, 2 workers, 3 files, 1 changing; texts of 6 bytes, 4 lines, 2 groups, 3 appends of which the third is whole | 321,225 | no outdated row passes for current, complete report, the run ends; cuts, chunks, settings and logs against their reference definitions |
| child_calls | 2 calls (1 execute or transform, 1 transform), 1 slot, 2 exit codes | 87,162 | exit codes are the child's own, killed groups are gone, scratch outlives the process, every call is answered |
| ledger_stats | 2 processes, 1 server, 1 artifact, 2 rows, ages 0..1 | 686,745 | FetchLedger implements FetchRecord, the watermark separates, the numbers of a report add up |
| hook_events | 2 hooks, 7 pairs of inputs, 1 file of 3 versions | 403,752 | nothing vanishes, a denied read is stored and no older than what was seen, records are true, an opened database has its schema, every hook ends |
| purge_and_search | 2 projects, 2 worktrees, every accepted request and one that is refused, 2 steps of others; 3 contents, 4 texts, 2 uris, 1 kind of event, 4 calls, 3 changes | 2,996,591 | the exit status tells the truth, nothing unasked is deleted of a project with a content.db; a fetch returns its hit, hits match, the budget is shared |
| purge_collect (violated) | the same | | the collection that deletes session databases |

Why the bounds are enough. One hash suffices for the content store because no
operation relates two hashes except a raw blob to its page, and the same hash may
play both parts; two registrars are needed for one to commit while another has
only placed; one clock unit separates fresh from old. Three rows put one into the
log, one into the main file and one on a damaged page; four faults cut a recovery,
its restore, its second rescue and its publication. Two servers of which each may
sweep the other's session, batches of one, and pages of two with one event over
them cover each loop's boundary. In Ingest the changing file, one that never
changes and one denied by name differ in every branch; one large content covers
both size checks (a file that grows between them). Two calls for one slot make a
call wait, and calls of ctr_execute share nothing but the server. A migration has
three columns and two processes suffice to interleave two of them, or one with an
older writer; two rows put one on each side of the watermark, and only the larger
instances of the theorem have more. The pairs of hook inputs are those whose
processes meet: in the first creation of the schema, in a file, in the content
store's lock, in a captured output; each branch of dispatch is in one of them. Three
changes suffice to index, purge, index again and so give a row id out a second
time between two statements of a search or a fetch. A text of six bytes holds three lines or three runes of
two bytes; a target of three, chunks of one line, of several, and a line over the
target. Three appends put two torn ones before a whole one; that more of them, torn
anywhere, add nothing the reader takes for a purge is what the theorem
`LogsReportWhatWasWritten` says. Content bounds are named in the CONSTANTS
("bound"). `CHECK_DEADLOCK FALSE` stands where a bound on ids, events, operations,
inputs or faults lets the model stop, and where everything may be answered or ended
(ChildProcess, HookHandler); ServerLifecycle, Ingest, Search, FetchLedger and
PurgeCommand (but for a command that has ended) are checked for deadlock. Time stamps in the future (`MaxBack`) are out of the run's reach
beside the liveness property; the theorem `MergeIsLookedAtInTime` has them.

Fairness. Only what a running process guarantees: goroutines and processes that
are not killed continue (weak fairness of the Recover, Purge, Exit, Merge, Feeder
and Worker steps, of the steps of a hook and of its deadline; in each the error
returns are among the steps, so fairness never promises success; in ChildProcess the
handlers, the timer, cmd.Wait and the deadline every transform has, and nothing for
the children). The locks a hook waits for have no fairness: their holders may keep
them for ever. ContentStore, SessionStore, FetchLedger, Search and PurgeCommand state
none in their runs. Strong fairness occurs
twice: `RecoverStart`, because the command fails at once when the lock is held and
is repeated by the user; and `MergeLoopEnds`, because Go's select picks a
cancelled context sooner or later even when the timer keeps firing.
`RecoveryFinishes` needs moments without a server in `Open`: two servers that
restart for ever can hold overlapping leases, and recover, which does not wait,
then never gets the lock. The instance has one server for that reason.

## Proofs

Every theorem is for all values of the constants under the named ASSUME of its
module. The argument is always the same: an inductive invariant, shown to hold
initially, to be kept by each action, and to imply the property.

* **ContentStoreProofs** (ContentStore) - `TypeCorrect`; `RowsStayInStep`; `IdsNameOneContent`
  (watermark and rows bound every id issued, `IdInv`); `HookPurgeIsSelective`;
  `LockHasAHolder` (the lock is held exactly while one call is between taking and
  releasing it); `StoreImplementsContentRows`, under the assumption that the watermark
  can be written (`TablesAreFunctions` reads the two tables as functions,
  `IsNextIsNextArtifactID` shows the id issued to be the next one; one lemma for each
  transaction says which step of ContentRows it is); `BlobsAreKept`. The last needs `FileInv`: for a hash that is not
  exposed, a placed but uncommitted blob is still there and young (`PlacedSafe`),
  the quarantined file of a call that is about to judge, keep or remove it exists,
  and what the collector is about to remove is old and not in its set of references
  (`CollectorSafe`).
* **MaintenanceProofs** (SessionRecover) - `RecoverTypeCorrect`, `RecoverLosesNothing`,
  `RecoverKeepsEvidence`, `MarkerExcludesServers`, `PublishedWithoutForeignLog`,
  from `ControlInv` (what each step knows about lock and marker), `FilesInv` (which
  files there are at each step, and that a log without its database is one a restore put
  back; no exception for a copy that was refused, which is why the last theorem needs
  none), `LogInv` (where the log is while no copy was refused) and `RowsInv` (which files
  together hold every readable row at each step).
  (PurgeCommand) - `PurgeDeletesNothingUnasked` and `PurgeExitIsTruthful`, for any
  projects, worktrees and requests. `Shape` is the type of the command's variables;
  `Route` says which flags and which earlier steps can have led to each place;
  `Progress` that, as long as the command can still succeed, everything asked for has been
  done, been told or is still to come.
  (HookSettings) - `UninstallSparesTheUser`, for settings files of any size:
  `SettingsFile` is the invariant of the inputs, `LeftIs` says what a file holds after
  `removeHookGroups`, `OthersStay` that the groups that are not all ours are among it, and
  `ClassesAddUp` that doctor's classes share out the groups.
  (SidecarLogs) - `LogsReportWhatWasWritten`, for logs of any length. `LineInv` says that a
  cell which reads as a status has the fields of its own append before it, its time unless
  the append before stopped inside one, and behind it those its append wrote whole;
  `FieldOfRecord` and `OneCell` say which fields a torn record leaves as they were, and
  `RecordKeepsLine` that the next record written on the line keeps all that, because the
  first cell of a record is a time stamp, and nothing that runs into one is a status.
* **SessionStoreProofs** - `SessionTypeCorrect`, `NoOrphans`, `SweepHonoursPolicy`
  (from: a sweep's time is not in the future), `PolicyIsKept` (`RowsInv`: no row for a
  server that has not started, at most one row per session; `NewRowsAreNew`: a row is
  added only for a session that has none, so with `NoOrphanEvents` before and after the
  step a session that gets a row had no event) and `ExportLosesNothing`, for
  every type clients may record and every `Lag`. Its invariant `PagingInv`: no cursor and
  no row id lies beyond the largest id ever given, and `CursorMissesNothing`. A row id
  never given before lies beyond every cursor when it is committed, so only a page moves a
  cursor past it, and a page returns every row up to the cursor it leaves.
* **ServerProofs** (ServerLifecycle) - `LifecycleTypeCorrect`, `ClosedStoreIsUnused`,
  `PurgeLogIsTruthful`, `MergeIsLookedAtInTime`, for any number of servers, any
  interval and any clock changes.
  (Search) - `SearchReadsContentRows` (what happens to the rows is a step of ContentRows);
  `FetchShowsTheHit`, `HitsHoldTheirQuery` and `BudgetIsFair`, for any contents,
  queries and budgets and any number of changes between the statements. `RowsInv` says that
  artifact ids are bounded by the watermark and every chunk lies in its artifact, `CallInv`
  what the ranked rows and the hits of the search in progress hold and how much of the
  budget they used, `FetchInv` what is known between the two reads of a fetch;
  `RowsChange` is all that the other processes do to the rows (an artifact id keeps its
  content or disappears), and `EvenParts` is the arithmetic of the shares.
  (TextRanges) - `CutsShowWhatTheySay` and `ChunksHoldTheText`, for texts, lines, targets and
  budgets of any size. `TextsInv` says that the bytes are whole runes. `ForwardIs` and
  `BackIs` say where a cut moved to a rune's start ends up, `StartsAreWhere` that `starts`
  computes the starts of the lines, and `BudgetCuts` what is left of a range under a
  budget; `StartsAre` that every chunk starts behind the one before it and at most one line
  before its end, from which `ChunksCover` follows.
* **IngestProofs** - `IngestTypeCorrect`, `FreshRowsAreCurrent` and
  `ReportAccountsForEveryFile`, for any number of runs at once. The invariant says of every queued item, every worker and every
  row: if the file still has the noted time, it still has the noted content, and a
  worker that has read it read that. For the report, `Accounted` says that a file of a
  run is in one place at a time (queued, with one worker, or in the report under one
  outcome), that a run without an error has lost none, and that what stopped early is told.
* **ChildProcessProofs** - `ChildTypeCorrect`, `ExitCodesAreTheTargets`,
  `KilledGroupsAreGone`, `ScratchOutlivesTarget`, `ResultsAreLimited`,
  `WorkersStayBounded`, for any number of calls and slots. `CallInv` is kept for
  each call separately: what a process in a given state must have done (`ProcInv`),
  what state it can be in at each place of its handler (`PlaceInv`), and what an
  answer says about both (`AnswerInv`). `SlotsInv` adds that the slots held never
  exceed their number; a call with a live worker holds one.
* **FetchLedgerProofs** - `LedgerTypeCorrect`, `NamedColumnsAreThere` (columns are
  only added, and what a process has seen of them is there), `WatermarkIsRight`,
  `StatsAddUp` (`QuantileExists`: the k-th age of the report is the first at which more
  than k artifacts are counted) and the refinement `LedgerKeepsItsPromise`. `MarkInv` says that the
  statements of a migration belong to the holder of the lock, that one on its way to the
  watermark has added a column and found no watermark, and that the rows from the number
  it read on were written after that column. For the refinement, `CallInv` ties the age a call
  records to the lag it measured, `RowUnderstates` shows for every column set that the
  row reads back as the outcome or less, `InsertAppends` that a new row leaves the
  readings of the others alone, and `RefinementStep` maps each action to `Learn`,
  `Record`, `Forget`, `RecordBlind` or a stutter.
* **HookHandlerProofs** - `SchemaBeforeUse`, `DeniedIsStored`, `LogIsTrue`,
  `FailOpenIsNotSilent` and the type invariant, for any number of hooks and any inputs
  in `Scenarios`, assuming of them only that a guard whose conditions hold names a
  file. `Known` says of one process what kind of event brought it to its place
  (`Routed`), that a guard has its file (`Admitted`), that every event due before that
  place is committed or a line was left (`Accounted`), what the lines of a compaction
  can be (`Hinted`) and what the content store holds by then (`Backed`: the version a
  guard indexes is not older than the one it saw). It depends on other processes only
  through facts that stay true (the schema, registered contents, growing versions), so
  `OthersKeep` carries it over every step of another process.

Proved and not among the runs' invariants, because they say little on a small
instance: the type invariants, the lock of the content store, the bound on workers
and the limit of theirs, the columns a server names, and `PolicyIsForLife`.

Recursive functions. What `starts`, `ChunkStarts`, `Total` and `LineAt` compute is proved
for every input, by an induction that needs no operator as a parameter: `LeastNumber` (a set
of numbers that is not empty has a least one) is the library's fact about well-founded
relations for `<`, and `Induction` is about a set of numbers, the ones up to which the
claim holds. That the function exists, without which its definition says nothing, is
proved in the same way (`StartsExist`, `WalkExists`, `TotalExists`, `LinesExist`).

Only model-checked: the liveness properties (`RecoveryFinishes`, `ShutdownCompletes`,
`RunEnds`, `CallsAreAnswered`, `HookEnds`), which are outside this prover's reach. Every
invariant the runs check is also a theorem, and so are both refinements. A few more
(`TypeOK`, `LockIsInUse`, `IdNeverRebinds` and others of their kind) are proved and in
no run's configuration.

## Assumptions and what is left out

* ContentStore: the run keeps the watermark table usable (both outcomes at once
  exceed TLC's time); the theorem `IdsNameOneContent` also covers the statements
  that fail. No Register call and no collection lasts a grace period (one
  hour). Full-text triggers, VACUUM and checkpoints change none of the modelled
  rows. Reads are left out.
* SessionRecover: the -shm file carries no row. The lock is released by the
  kernel when its holder dies. Damage makes rows unreadable; it does not forge any.
* SessionStore: Open and the start of its sweep fall into one clock unit. The lock
  around the first creation of the schema and the supersedes relation between
  sessions are left out.
* ServerLifecycle: the clock is not set during a merge; an interrupt before the
  goroutines start is the same as one just after; handlers that still run when
  Serve returns belong to the MCP library; the read-only stores of the
  global-search profile are left out.
* Ingest: a write gives a file a time it has not had (a program that restores an
  old time with the same size defeats StaleOf by design); files are regular files
  (opening a pipe blocks a worker for ever); a path that comes to lead elsewhere
  is covered as a removal. Redaction and chunking change what is stored, not
  which row is current.
* ChildProcess: Linux only. `limited` says that the launcher's restriction returned
  without an error, which on a kernel without landlock restricts nothing. A
  launcher fails through its error path or by a signal. No process id is reused
  between the reaping of a leader and the kill of its group; a leader does not
  change its own group. The checks of a tool's arguments before Spawn, the output
  cap, the script language and the version-gate cache are left out.
* FetchLedger: content ids are the same artifact for ever (`IdNeverRebinds` of
  ContentStore). An error of content.db before the outcome is known ends a call without
  a row. Byte counts and durations are left out.
* HookHandler: what a decision depends on is an input, how it is read out of the
  host's JSON is not modelled; a guard's conditions on the call alone are one flag. A
  hook that cannot write its drops log says so in the process log instead, which counts
  as noted.
* Search: texts are what the queries can see of them; one search at a time, since
  searches share nothing but the rows. StaleOf of a hit is Ingest's.
* PurgeCommand: a purge of rows and a collection are one step each (ContentStore has
  their steps); one command at a time.
* TextRanges: texts are valid UTF-8, which ingest requires. HookSettings: the file is
  written anew (indented, its keys sorted, its strings escaped); the values of other keys
  and of the groups that stay are the same, and only that is modelled. An edit by another
  program between the read of a settings file and its rename is lost, as everywhere where
  a file is replaced, and not modelled.
* SidecarLogs: purge.log is never rotated. The run writes the records of the startup
  purge, of a collection and of drops, which between them have every kind of field; the
  theorem is about all six layouts.

## Not modelled

SQLite and FTS5 themselves; Windows job objects, the Windows lock and the macOS
sandbox, which mirror the Unix code that is modelled with other system calls;
netfetch, which keeps no state and decides by names, addresses and headers; path
canonicalisation; redaction rules and the script language of transforms; the commands
that only read and format (stats, usage, doctor's other rows, compare, rollout,
session export) and mcp install, which edits text; build information. In the
packages that are modelled: the read-only stores of the global-search profile, the
session summary, the version-gate cache of the runners, the sweep of stale scratch
directories and the output cap.

## Plan

Done: the modules above, in the order of what can be lost by a mistake (content,
session log, server, index, child processes, ledger, hooks, search, purge,
algorithms). Next:

1. **More proofs**: that an action of one module is what the environment of another
   assumes of it (a purge in FetchLedger against ContentRows, a recovery in HookHandler
   and PurgeCommand against SessionRecover).
2. **Abstract specifications**: a durable set of rows that SessionRecover
   implements; a report that Ingest implements.
3. **Runners**: the version-gate cache and the sweep of stale scratch directories
   against running calls.
4. **Network**: the addresses of a hop and their budgets against the budget of the
   whole fetch, up to the last redirect.
