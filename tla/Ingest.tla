------------------------------- MODULE Ingest -------------------------------
(***************************************************************************)
(* Indexing a directory (ingest.Run) while its files change.  A run walks   *)
(* the directory and notes size and time of every file, then a pool of      *)
(* workers, fed over an unbuffered channel, reads the files and registers   *)
(* them.  Several runs may be under way at once and the caller may cancel   *)
(* any of them.  Readers decide with StaleOf whether a row still describes  *)
(* its file.                                                                *)
(***************************************************************************)
EXTENDS Integers

CONSTANTS
    Runs, Workers,  \* concurrent calls of Run, workers of each
    Files,          \* what the walk finds under the root
    Denied,         \* those whose name is on the secret denylist
    Contents,
    Large, Binary,  \* contents over the size limit, contents that are no text
    Torn,           \* a mixture of contents, read during a write
    None,           \* no file, no row, no error, nothing
    Changing,       \* bound: files other programs change
    MaxWrites       \* bound: how often each is written

ASSUME IngestAssumption ==
    /\ Runs # {} /\ Workers # {}
    /\ Denied \subseteq Files /\ Changing \subseteq Files
    /\ Large \subseteq Contents /\ Binary \subseteq Contents
    /\ Torn \notin Contents
    /\ None \notin Contents \cup {Torn, "fatal", "cancelled"}
    /\ MaxWrites \in Nat

VARIABLES
    content,   \* of each file, or None
    mtime,     \* of each file
    row,       \* the source row of each file
    phase,     \* of each run
    ctx,       \* the caller has cancelled the run
    stopFeed,  \* the run's pool has met a fatal error
    todo,      \* files the walk has still to visit
    queue,     \* work items not yet handed to a worker
    listed,    \* files that have become work items
    worker,
    report     \* files indexed and skipped, and the first error

files == <<content, mtime>>
run   == <<phase, ctx, stopFeed, todo, queue, listed, worker, report>>
vars  == <<files, row, run>>

-----------------------------------------------------------------------------

Times == 0..MaxWrites

(* Sizes: the contents within the limit all have the same one. *)
Size(c) == IF c \in Large THEN "large" ELSE "small"

Sizes == {"large", "small"}

Raw == Contents \cup {Torn}

Item == [file: Files, mtime: Times, size: Sizes, skip: BOOLEAN]

(* seen is every content the open file has had since it was opened. *)
Worker == [at: {"idle", "open", "read", "register", "gone"},
           item: Item \cup {None}, seen: SUBSET Contents, raw: Raw \cup {None}]

Idle == [at |-> "idle", item |-> None, seen |-> {}, raw |-> None]

Row == [src: Raw, mtime: Times, size: Sizes]

Report == [indexed: SUBSET Files, skipped: SUBSET Files,
           err: {None, "fatal", "cancelled"}]

NoReport == [indexed |-> {}, skipped |-> {}, err |-> None]

TypeOK ==
    /\ content \in [Files -> Contents \cup {None}]
    /\ mtime \in [Files -> Times]
    /\ row \in [Files -> Row \cup {None}]
    /\ phase \in [Runs -> {"off", "collect", "feed", "wait", "done"}]
    /\ ctx \in [Runs -> BOOLEAN] /\ stopFeed \in [Runs -> BOOLEAN]
    /\ todo \in [Runs -> SUBSET Files]
    /\ queue \in [Runs -> SUBSET Item]
    /\ listed \in [Runs -> SUBSET Files]
    /\ worker \in [Runs -> [Workers -> Worker]]
    /\ report \in [Runs -> Report]

Init ==
    /\ content \in [Files -> Contents \cup {None}]
    /\ mtime = [f \in Files |-> 0]
    /\ row = [f \in Files |-> None]
    /\ phase = [r \in Runs |-> "off"]
    /\ ctx = [r \in Runs |-> FALSE] /\ stopFeed = [r \in Runs |-> FALSE]
    /\ todo = [r \in Runs |-> {}]
    /\ queue = [r \in Runs |-> {}]
    /\ listed = [r \in Runs |-> {}]
    /\ worker = [r \in Runs |-> [w \in Workers |-> Idle]]
    /\ report = [r \in Runs |-> NoReport]

-----------------------------------------------------------------------------
(* StaleOf: size and time as noted mean the content as read; otherwise the *)
(* file is read and its hash compared.  A file that is gone is stale.      *)
StaleOf(f) ==
    LET r == row[f]
    IN \/ content[f] = None
       \/ /\ r.size # Size(content[f]) \/ r.mtime # mtime[f]
          /\ r.src # content[f]

-----------------------------------------------------------------------------
(* Other programs. *)

(* A file is written or created.  Assumption: it gets a time it has not    *)
(* had before (times are in nanoseconds, nobody sets one back).  Workers   *)
(* that have it open may read old, new or both.                            *)
Write(f, c) ==
    /\ mtime[f] < MaxWrites
    /\ content' = [content EXCEPT ![f] = c]
    /\ mtime' = [mtime EXCEPT ![f] = @ + 1]
    /\ worker' = [r \in Runs |-> [w \in Workers |->
                    IF worker[r][w].at = "read" /\ worker[r][w].item.file = f
                    THEN [worker[r][w] EXCEPT !.seen = @ \cup {c}]
                    ELSE worker[r][w]]]
    /\ UNCHANGED <<row, phase, ctx, stopFeed, todo, queue, listed, report>>

RemoveFile(f) ==
    /\ content[f] # None
    /\ content' = [content EXCEPT ![f] = None]
    /\ UNCHANGED <<mtime, row, phase, ctx, stopFeed, todo, queue, listed, worker, report>>

(* The caller cancels, or the server shuts down. *)
Cancel(r) ==
    /\ phase[r] \in {"collect", "feed", "wait"}
    /\ ctx' = [ctx EXCEPT ![r] = TRUE]
    /\ UNCHANGED <<files, row, phase, stopFeed, todo, queue, listed, worker, report>>

-----------------------------------------------------------------------------
(* Run and collect. *)

Start(r) ==
    /\ phase[r] = "off"
    /\ phase' = [phase EXCEPT ![r] = "collect"]
    /\ todo' = [todo EXCEPT ![r] = Files]
    /\ UNCHANGED <<files, row, ctx, stopFeed, queue, listed, worker, report>>

(* One file: denied by name, gone since the directory was read             *)
(* ("unreadable"), too large, or noted with its size and time.             *)
Collected(f) ==
    [file |-> f, mtime |-> mtime[f], size |-> Size(content[f]),
     skip |-> content[f] \in Large \cup {None} \/ f \in Denied]

Collect(r, f) ==
    /\ phase[r] = "collect" /\ ~ctx[r]
    /\ f \in todo[r]
    /\ todo' = [todo EXCEPT ![r] = @ \ {f}]
    /\ queue' = [queue EXCEPT ![r] = @ \cup {Collected(f)}]
    /\ listed' = [listed EXCEPT ![r] = @ \cup {f}]
    /\ UNCHANGED <<files, row, phase, ctx, stopFeed, worker, report>>

(* The file was gone when its directory was read: there is no entry, and   *)
(* no look at the context.                                                 *)
CollectMissing(r, f) ==
    /\ phase[r] = "collect"
    /\ f \in todo[r] /\ content[f] = None
    /\ todo' = [todo EXCEPT ![r] = @ \ {f}]
    /\ UNCHANGED <<files, row, phase, ctx, stopFeed, queue, listed, worker, report>>

(* ctx.Err() at the next entry: no report. *)
CollectCancelled(r) ==
    /\ phase[r] = "collect" /\ ctx[r] /\ todo[r] # {}
    /\ phase' = [phase EXCEPT ![r] = "done"]
    /\ report' = [report EXCEPT ![r].err = "cancelled"]
    /\ todo' = [todo EXCEPT ![r] = {}]
    /\ queue' = [queue EXCEPT ![r] = {}]
    /\ UNCHANGED <<files, row, ctx, stopFeed, listed, worker>>

CollectDone(r) ==
    /\ phase[r] = "collect" /\ todo[r] = {}
    /\ phase' = [phase EXCEPT ![r] = "feed"]
    /\ UNCHANGED <<files, row, ctx, stopFeed, todo, queue, listed, worker, report>>

-----------------------------------------------------------------------------
(* runPool: the feeder. *)

(* The channel is unbuffered: an item goes to a worker that waits.  When   *)
(* the context has ended too, select may still take this case.             *)
Feed(r, w, it) ==
    /\ phase[r] = "feed"
    /\ it \in queue[r]
    /\ worker[r][w].at = "idle"
    /\ worker' = [worker EXCEPT ![r][w] = [Idle EXCEPT !.at = "open", !.item = it]]
    /\ queue' = [queue EXCEPT ![r] = @ \ {it}]
    /\ UNCHANGED <<files, row, phase, ctx, stopFeed, todo, listed, report>>

(* close(ch), after the last item or when feedCtx has ended. *)
FeedEnds(r) ==
    /\ phase[r] = "feed"
    /\ queue[r] = {} \/ ctx[r] \/ stopFeed[r]
    /\ phase' = [phase EXCEPT ![r] = "wait"]
    /\ queue' = [queue EXCEPT ![r] = {}]
    /\ UNCHANGED <<files, row, ctx, stopFeed, todo, listed, worker, report>>

(* Mutant: only an error a worker met is returned. *)
PoolDoneWithoutCtxErr(r) ==
    /\ phase[r] = "wait"
    /\ \A w \in Workers : worker[r][w].at = "gone"
    /\ phase' = [phase EXCEPT ![r] = "done"]
    /\ UNCHANGED <<files, row, ctx, stopFeed, todo, queue, listed, worker, report>>

(* wg.Wait; a cancellation that no worker met is the error then. *)
PoolDone(r) ==
    /\ phase[r] = "wait"
    /\ \A w \in Workers : worker[r][w].at = "gone"
    /\ phase' = [phase EXCEPT ![r] = "done"]
    /\ report' = [report EXCEPT ![r].err = IF @ = None /\ ctx[r] THEN "cancelled" ELSE @]
    /\ UNCHANGED <<files, row, ctx, stopFeed, todo, queue, listed, worker>>

(* Run returns; the next call starts afresh. *)
Return(r) ==
    /\ phase[r] = "done"
    /\ phase' = [phase EXCEPT ![r] = "off"]
    /\ ctx' = [ctx EXCEPT ![r] = FALSE] /\ stopFeed' = [stopFeed EXCEPT ![r] = FALSE]
    /\ listed' = [listed EXCEPT ![r] = {}]
    /\ worker' = [worker EXCEPT ![r] = [w \in Workers |-> Idle]]
    /\ report' = [report EXCEPT ![r] = NoReport]
    /\ UNCHANGED <<files, row, todo, queue>>

-----------------------------------------------------------------------------
(* runPool and ingestOne: a worker. *)

(* The result of an item enters the report and the worker waits again. *)
Indexed(r, w) ==
    /\ report' = [report EXCEPT ![r].indexed = @ \cup {worker[r][w].item.file}]
    /\ worker' = [worker EXCEPT ![r][w] = Idle]

Skipped(r, w) ==
    /\ report' = [report EXCEPT ![r].skipped = @ \cup {worker[r][w].item.file}]
    /\ worker' = [worker EXCEPT ![r][w] = Idle]

(* preSkip; or Open or Stat fails, or the file has grown too large. *)
SkipUnread(r, w) ==
    /\ worker[r][w].at = "open"
    /\ Skipped(r, w)
    /\ UNCHANGED <<files, row, phase, ctx, stopFeed, todo, queue, listed>>

OpenFile(r, w) ==
    LET it == worker[r][w].item
    IN /\ worker[r][w].at = "open"
       /\ ~it.skip /\ content[it.file] \notin Large \cup {None}
       /\ worker' = [worker EXCEPT ![r][w].at = "read",
                                   ![r][w].seen = {content[it.file]}]
       /\ UNCHANGED <<files, row, phase, ctx, stopFeed, todo, queue, listed, report>>

(* What ReadAll can return. *)
Readable(seen) == seen \cup {t \in {Torn} : \E a, b \in seen : a # b}

(* The read content is text and the path still leads here. *)
ReadFile(r, w) ==
    LET f == worker[r][w].item.file
    IN /\ worker[r][w].at = "read"
       /\ content[f] # None
       /\ \E c \in Readable(worker[r][w].seen) \ Binary :
            worker' = [worker EXCEPT ![r][w].at = "register", ![r][w].seen = {},
                                     ![r][w].raw = c]
       /\ UNCHANGED <<files, row, phase, ctx, stopFeed, todo, queue, listed, report>>

(* A read error, the path no longer leads here, or IsBinary. *)
SkipRead(r, w) ==
    /\ worker[r][w].at = "read"
    /\ Skipped(r, w)
    /\ UNCHANGED <<files, row, phase, ctx, stopFeed, todo, queue, listed>>

(* Mutant: the file is looked at again when its row is written. *)
SourceMetaNow(it, c) ==
    [src |-> c, mtime |-> mtime[it.file], size |-> Size(content[it.file])]

(* The row gets the content that was read, and size and time as noted      *)
(* before the reading.                                                     *)
SourceMeta(it, c) == [src |-> c, mtime |-> it.mtime, size |-> it.size]

Register(r, w) ==
    LET it == worker[r][w].item
    IN /\ worker[r][w].at = "register"
       /\ row' = [row EXCEPT ![it.file] = SourceMeta(it, worker[r][w].raw)]
       /\ Indexed(r, w)
       /\ UNCHANGED <<files, phase, ctx, stopFeed, todo, queue, listed>>

(* "register-failed" *)
RegisterFails(r, w) ==
    /\ worker[r][w].at = "register"
    /\ Skipped(r, w)
    /\ UNCHANGED <<files, row, phase, ctx, stopFeed, todo, queue, listed>>

(* Mutant: the worker ends with the error and the feeder is not told. *)
RegisterFatalEndsWorker(r, w) ==
    /\ worker[r][w].at = "register"
    /\ report' = [report EXCEPT ![r].err = IF @ = None THEN "fatal" ELSE @]
    /\ worker' = [worker EXCEPT ![r][w] = [Idle EXCEPT !.at = "gone"]]
    /\ UNCHANGED <<files, row, phase, ctx, stopFeed, todo, queue, listed>>

(* fatalRegisterErr: the store is unavailable or the context has ended.    *)
RegisterFatal(r, w) ==
    /\ worker[r][w].at = "register"
    /\ report' = [report EXCEPT ![r].err = IF @ = None THEN "fatal" ELSE @]
    /\ stopFeed' = [stopFeed EXCEPT ![r] = TRUE]
    /\ worker' = [worker EXCEPT ![r][w] = Idle]
    /\ UNCHANGED <<files, row, phase, ctx, todo, queue, listed>>

(* The channel is closed. *)
WorkerEnds(r, w) ==
    /\ phase[r] = "wait"
    /\ worker[r][w].at = "idle"
    /\ worker' = [worker EXCEPT ![r][w].at = "gone"]
    /\ UNCHANGED <<files, row, phase, ctx, stopFeed, todo, queue, listed, report>>

-----------------------------------------------------------------------------

FeederStep(r) ==
    \/ \E f \in Files : Collect(r, f) \/ CollectMissing(r, f)
    \/ CollectCancelled(r) \/ CollectDone(r)
    \/ \E w \in Workers, it \in queue[r] : Feed(r, w, it)
    \/ FeedEnds(r) \/ PoolDone(r) \/ Return(r)

WorkerStep(r, w) ==
    \/ SkipUnread(r, w) \/ OpenFile(r, w) \/ ReadFile(r, w) \/ SkipRead(r, w)
    \/ Register(r, w) \/ RegisterFails(r, w) \/ RegisterFatal(r, w)
    \/ WorkerEnds(r, w)

Next ==
    \/ \E f \in Changing : RemoveFile(f) \/ \E c \in Contents : Write(f, c)
    \/ \E r \in Runs :
         \/ Start(r) \/ Cancel(r) \/ FeederStep(r)
         \/ \E w \in Workers : WorkerStep(r, w)

Spec == Init /\ [][Next]_vars

(* Goroutines run on and reading a file ends (files are regular files). *)
Fairness ==
    \A r \in Runs : /\ WF_vars(FeederStep(r))
                    /\ \A w \in Workers : WF_vars(WorkerStep(r, w))

FairSpec == Spec /\ Fairness

-----------------------------------------------------------------------------
(* Properties. *)

(* A row that StaleOf lets pass describes the file as it is now, however   *)
(* often and whenever the file changed while runs were reading it.         *)
(* (collect's Stat comes before ingestOne's read.)                         *)
NotStaleMeansCurrent ==
    \A f \in Files : row[f] # None /\ ~StaleOf(f) => row[f].src = content[f]

(* A run that returns no error accounts for every file it listed, exactly  *)
(* once, as indexed or as skipped.  (runPool: fatal errors, cancellation.) *)
ReportIsComplete ==
    \A r \in Runs : phase[r] = "done" /\ report[r].err = None =>
        /\ report[r].indexed \cup report[r].skipped = listed[r]
        /\ report[r].indexed \cap report[r].skipped = {}

(* Every run ends, also when all its workers meet fatal errors at once.    *)
(* (runPool: the feeder and the workers wait for each other.)              *)
RunEnds == \A r \in Runs : phase[r] = "collect" ~> phase[r] = "off"

=============================================================================
