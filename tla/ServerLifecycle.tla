--------------------------- MODULE ServerLifecycle ---------------------------
(***************************************************************************)
(* One run of the server (main.go run): it opens the store and the session, *)
(* starts a goroutine that purges expired shadow captures once and one that *)
(* merges the full-text index every Interval, serves, and on the way out    *)
(* joins both before it closes what they use.  Several servers work on one  *)
(* store and share its lock, its rows, its merge stamp and its purge log.   *)
(*                                                                         *)
(* Time: `age` is how old the merge stamp looks (now minus its mtime, on    *)
(* the wall clock), `timer` what is left until a merge loop looks again (on *)
(* the monotonic clock).                                                    *)
(***************************************************************************)
EXTENDS Integers, FiniteSets

CONSTANTS
    Servers,
    Purging,     \* the servers whose retention gives them a cutoff
    None,        \* nobody; no stamp
    Interval,    \* defaultFTSMergeInterval
    Delay,       \* ftsMergeStartDelay
    MaxHashes,   \* startupPurgeMaxHashes
    MaxExpired,  \* bound: expired shadow captures in the store
    MaxBack,     \* bound: how far a stamp may lie in the future
    MaxAge       \* bound: from this age on stamps are not told apart

ASSUME LifecycleAssumption ==
    /\ None \notin Servers \cup Int
    /\ Purging \subseteq Servers
    /\ Interval \in Nat \ {0} /\ Delay \in 0..Interval
    /\ MaxHashes \in Nat \ {0} /\ MaxExpired \in Nat
    /\ MaxBack \in Nat /\ MaxAge \in Nat /\ Interval <= MaxAge

VARIABLES
    life,        \* where run is
    merge,       \* the merge goroutine
    mergeCtx,    \* its context is cancelled
    timer,       \* its timer
    purge,       \* the purge goroutine
    purgeCtx,    \* why its context ended
    batch,       \* its hashes, those not yet handled, and its error
    line,        \* status and count of its line in the purge log, or None
    lock,        \* holder of the store's lock file
    expired,     \* expired shadow-owned hashes with rows
    age,         \* of the merge stamp, or None
    missed       \* history: no look since the start, or the last one left no stamp

merging == <<merge, mergeCtx, timer, missed>>
purging == <<purge, purgeCtx, batch, line>>
store == <<lock, expired, age>>
vars  == <<life, merging, purging, store>>

-----------------------------------------------------------------------------

(* deleted is history: the rows the transaction really removed. *)
Batch == [hashes: 0..MaxHashes, left: 0..MaxHashes, err: BOOLEAN,
          deleted: 0..MaxHashes]

NoBatch == [hashes |-> 0, left |-> 0, err |-> FALSE, deleted |-> 0]

Statuses == {"partial", "cancelled", "budget", "failed", "capped", "ok"}

Record == [status: Statuses, count: 0..MaxHashes]

Age == ((-MaxBack)..MaxAge) \cup {None}

TypeOK ==
    /\ life \in [Servers -> {"off", "open", "serve", "joinMerge", "joinPurge",
                             "close"}]
    /\ merge \in [Servers -> {"none", "wait", "merge", "stamp", "done"}]
    /\ mergeCtx \in [Servers -> BOOLEAN]
    /\ timer \in [Servers -> 0..Interval]
    /\ purge \in [Servers -> {"none", "rows", "lock", "files", "status", "done"}]
    /\ purgeCtx \in [Servers -> {"live", "canceled", "deadline"}]
    /\ batch \in [Servers -> Batch]
    /\ line \in [Servers -> Record \cup {None}]
    /\ lock \in Servers \cup {None}
    /\ expired \in 0..MaxExpired
    /\ age \in Age
    /\ missed \in [Servers -> BOOLEAN]

(* The store may have been used before, and its stamp may lie in the future. *)
Init ==
    /\ life = [s \in Servers |-> "off"]
    /\ merge = [s \in Servers |-> "none"]
    /\ mergeCtx = [s \in Servers |-> FALSE]
    /\ timer = [s \in Servers |-> 0]
    /\ purge = [s \in Servers |-> "none"]
    /\ purgeCtx = [s \in Servers |-> "live"]
    /\ batch = [s \in Servers |-> NoBatch]
    /\ line = [s \in Servers |-> None]
    /\ lock = None
    /\ expired \in 0..MaxExpired
    /\ age \in Age
    /\ missed = [s \in Servers |-> TRUE]

-----------------------------------------------------------------------------
(* run, up to mcp.Serve. *)

(* store.Open holds the lock only while it migrates; when it fails run     *)
(* returns and nothing has changed.                                        *)
OpenStore(s) ==
    /\ life[s] = "off"
    /\ lock = None
    /\ life' = [life EXCEPT ![s] = "open"]
    /\ UNCHANGED <<merging, purging, store>>

(* The session is opened (openSessionDB turns every error into a server    *)
(* without session tools) and the goroutines are started; a retention that *)
(* reaches behind the epoch goes straight to the log.                      *)
StartServing(s) ==
    /\ life[s] = "open"
    /\ life' = [life EXCEPT ![s] = "serve"]
    /\ purge' = [purge EXCEPT ![s] = IF s \in Purging THEN "rows" ELSE "status"]
    /\ merge' = [merge EXCEPT ![s] = "wait"]
    /\ timer' = [timer EXCEPT ![s] = Delay]
    /\ UNCHANGED <<mergeCtx, missed, purgeCtx, batch, line, store>>

(* os.Executable fails: the deferred closes run. *)
StartFails(s) ==
    /\ life[s] = "open"
    /\ life' = [life EXCEPT ![s] = "close"]
    /\ UNCHANGED <<merging, purging, store>>

(* A context's first reason to end stays. *)
Latched(s, why) ==
    [purgeCtx EXCEPT ![s] = IF @ = "live" /\ purge[s] # "done" THEN why ELSE @]

(* os.Interrupt cancels run's context and the two derived from it (before  *)
(* they exist nothing looks at it, so it is as if it came just after).     *)
Interrupt(s) ==
    /\ life[s] \in {"serve", "joinMerge"}
    /\ mergeCtx' = [mergeCtx EXCEPT ![s] = TRUE]
    /\ purgeCtx' = Latched(s, "canceled")
    /\ UNCHANGED <<life, merge, timer, missed, purge, batch, line, store>>

-----------------------------------------------------------------------------
(* The way out: the deferred calls of run, last registered first. *)

(* Mutant: the merge loop is waited for and not told to end. *)
ServeReturnsWithoutCancel(s) ==
    /\ life[s] = "serve"
    /\ life' = [life EXCEPT ![s] = "joinMerge"]
    /\ UNCHANGED <<merging, purging, store>>

(* mcp.Serve returns on a cancelled context or when stdin is closed. *)
ServeReturns(s) ==
    /\ life[s] = "serve"
    /\ life' = [life EXCEPT ![s] = "joinMerge"]
    /\ mergeCtx' = [mergeCtx EXCEPT ![s] = TRUE]
    /\ UNCHANGED <<merge, timer, missed, purging, store>>

JoinMerge(s) ==
    /\ life[s] = "joinMerge"
    /\ merge[s] = "done"
    /\ life' = [life EXCEPT ![s] = "joinPurge"]
    /\ purgeCtx' = Latched(s, "canceled")
    /\ UNCHANGED <<merging, purge, batch, line, store>>

(* Mutant: the purge is cancelled and not waited for. *)
JoinPurgeWithoutWait(s) ==
    /\ life[s] = "joinPurge"
    /\ life' = [life EXCEPT ![s] = "close"]
    /\ UNCHANGED <<merging, purging, store>>

JoinPurge(s) ==
    /\ life[s] = "joinPurge"
    /\ purge[s] = "done"
    /\ life' = [life EXCEPT ![s] = "close"]
    /\ UNCHANGED <<merging, purging, store>>

(* What a process keeps in memory goes with it. *)
Forget(s) ==
    /\ life' = [life EXCEPT ![s] = "off"]
    /\ merge' = [merge EXCEPT ![s] = "none"]
    /\ mergeCtx' = [mergeCtx EXCEPT ![s] = FALSE]
    /\ timer' = [timer EXCEPT ![s] = 0]
    /\ missed' = [missed EXCEPT ![s] = TRUE]
    /\ purge' = [purge EXCEPT ![s] = "none"]
    /\ purgeCtx' = [purgeCtx EXCEPT ![s] = "live"]
    /\ batch' = [batch EXCEPT ![s] = NoBatch]
    /\ line' = [line EXCEPT ![s] = None]

(* sessDB.Close, then st.Close. *)
Close(s) ==
    /\ life[s] = "close"
    /\ Forget(s)
    /\ UNCHANGED store

(* The process is killed: goroutines end with it, the kernel frees its lock. *)
Kill(s) ==
    /\ life[s] # "off"
    /\ Forget(s)
    /\ lock' = IF lock = s THEN None ELSE lock
    /\ UNCHANGED <<expired, age>>

-----------------------------------------------------------------------------
(* The purge goroutine: PurgeHookOnlyOlderThan, then one line in the log. *)

(* WithTimeout(ctx, startupPurgeBudget) *)
BudgetSpent(s) ==
    /\ purge[s] \in {"rows", "lock", "files", "status"}
    /\ purgeCtx[s] = "live"
    /\ purgeCtx' = [purgeCtx EXCEPT ![s] = "deadline"]
    /\ UNCHANGED <<life, merging, purge, batch, line, store>>

(* purgeHookRows commits: at most MaxHashes hashes lose their rows.  (The  *)
(* context may end while the commit is on its way.)                        *)
PurgeRows(s) ==
    LET n == IF expired < MaxHashes THEN expired ELSE MaxHashes
    IN /\ purge[s] = "rows"
       /\ expired' = expired - n
       /\ batch' = [batch EXCEPT ![s] = [hashes |-> n, left |-> n, err |-> FALSE,
                                         deleted |-> n]]
       /\ purge' = [purge EXCEPT ![s] = IF n = 0 THEN "status" ELSE "lock"]
       /\ UNCHANGED <<life, merging, purgeCtx, line, lock, age>>

(* The transaction is rolled back: the context ended, BUSY retries ran out, *)
(* or a statement failed.  The report is empty.                             *)
PurgeRowsFail(s) ==
    /\ purge[s] = "rows"
    /\ batch' = [batch EXCEPT ![s].err = TRUE]
    /\ purge' = [purge EXCEPT ![s] = "status"]
    /\ UNCHANGED <<life, merging, purgeCtx, line, store>>

PurgeLock(s) ==
    /\ purge[s] = "lock"
    /\ lock = None
    /\ lock' = s
    /\ purge' = [purge EXCEPT ![s] = "files"]
    /\ UNCHANGED <<life, merging, purgeCtx, batch, line, expired, age>>

(* lockStoreCtx gives up after five seconds or when the context ends. *)
PurgeLockFail(s) ==
    /\ purge[s] = "lock"
    /\ batch' = [batch EXCEPT ![s].err = TRUE]
    /\ purge' = [purge EXCEPT ![s] = "status"]
    /\ UNCHANGED <<life, merging, purgeCtx, line, store>>

(* One hash: its file is reclaimed, kept, or counted as failed. *)
PurgeFile(s) ==
    /\ purge[s] = "files"
    /\ batch[s].left > 0
    /\ purgeCtx[s] = "live"
    /\ batch' = [batch EXCEPT ![s].left = @ - 1]
    /\ UNCHANGED <<life, merging, purge, purgeCtx, line, store>>

(* The loop is over, or its ctx.Err() check at the top ends it. *)
PurgeFilesEnd(s) ==
    /\ purge[s] = "files"
    /\ batch[s].left = 0 \/ purgeCtx[s] # "live"
    /\ batch' = [batch EXCEPT ![s].err = batch[s].left > 0]
    /\ lock' = None
    /\ purge' = [purge EXCEPT ![s] = "status"]
    /\ UNCHANGED <<life, merging, purgeCtx, line, expired, age>>

(* Mutant: the reason for ending is looked at before the report. *)
PurgeStatusReasonFirst(err, hashes, cancelled, budgetSpent, capped) ==
    IF err /\ cancelled THEN "cancelled"
    ELSE IF err /\ budgetSpent THEN "budget"
    ELSE IF err /\ hashes > 0 THEN "partial"
    ELSE IF err THEN "failed"
    ELSE IF capped THEN "capped" ELSE "ok"

PurgeStatus(err, hashes, cancelled, budgetSpent, capped) ==
    IF err /\ hashes > 0 THEN "partial"
    ELSE IF err /\ cancelled THEN "cancelled"
    ELSE IF err /\ budgetSpent THEN "budget"
    ELSE IF err THEN "failed"
    ELSE IF capped THEN "capped" ELSE "ok"

(* close(purgeDone); nobody looks at the goroutine's context again. *)
PurgeEnds(s) ==
    /\ purge' = [purge EXCEPT ![s] = "done"]
    /\ purgeCtx' = [purgeCtx EXCEPT ![s] = "live"]

(* AppendPurgeLog; a start that skipped the purge logs an empty "ok". *)
PurgeLogged(s) ==
    LET b == batch[s]
    IN /\ purge[s] = "status"
       /\ line' = [line EXCEPT ![s] =
            [status |-> PurgeStatus(b.err, b.hashes, purgeCtx[s] = "canceled",
                                    purgeCtx[s] = "deadline", b.hashes = MaxHashes),
             count |-> b.hashes]]
       /\ PurgeEnds(s)
       /\ UNCHANGED <<life, merging, batch, store>>

(* AppendPurgeLog fails: a warning, and the start leaves no line. *)
PurgeNotLogged(s) ==
    /\ purge[s] = "status"
    /\ PurgeEnds(s)
    /\ UNCHANGED <<life, merging, batch, line, store>>

-----------------------------------------------------------------------------
(* runFTSMergeLoop. *)

(* FTSMergeDueIn: 0 for no stamp, an old one and one in the future. *)
FTSMergeDueIn(a) ==
    IF a = None \/ a < 0 \/ a >= Interval THEN 0 ELSE Interval - a

(* Mutant: the next look comes one Interval later, whatever is left. *)
NextLookAfterInterval(a) == Interval

(* t.Reset: what is left until the stamp is due, or else one Interval. *)
NextLook(a) == IF FTSMergeDueIn(a) > 0 THEN FTSMergeDueIn(a) ELSE Interval

(* The timer fires and the stamp is not due: another server merged. *)
MergeNotDue(s) ==
    /\ merge[s] = "wait" /\ timer[s] = 0
    /\ FTSMergeDueIn(age) > 0
    /\ timer' = [timer EXCEPT ![s] = NextLook(age)]
    /\ missed' = [missed EXCEPT ![s] = FALSE]
    /\ UNCHANGED <<life, merge, mergeCtx, purging, store>>

MergeDue(s) ==
    /\ merge[s] = "wait" /\ timer[s] = 0
    /\ FTSMergeDueIn(age) = 0
    /\ merge' = [merge EXCEPT ![s] = "merge"]
    /\ UNCHANGED <<life, mergeCtx, timer, missed, purging, store>>

(* MergeFTS: both indexes optimized. *)
MergeFTS(s) ==
    /\ merge[s] = "merge"
    /\ merge' = [merge EXCEPT ![s] = "stamp"]
    /\ UNCHANGED <<life, mergeCtx, timer, missed, purging, store>>

(* One of them fails (BUSY, a cancelled context, ...): no stamp. *)
MergeFTSFails(s) ==
    /\ merge[s] = "merge"
    /\ merge' = [merge EXCEPT ![s] = "wait"]
    /\ timer' = [timer EXCEPT ![s] = NextLook(age)]
    /\ missed' = [missed EXCEPT ![s] = TRUE]
    /\ UNCHANGED <<life, mergeCtx, purging, store>>

(* Chtimes(stamp, now, now): now is the time the tick began. *)
MergeStamp(s) ==
    /\ merge[s] = "stamp"
    /\ age' = 0
    /\ merge' = [merge EXCEPT ![s] = "wait"]
    /\ timer' = [timer EXCEPT ![s] = NextLook(0)]
    /\ missed' = [missed EXCEPT ![s] = FALSE]
    /\ UNCHANGED <<life, mergeCtx, purging, lock, expired>>

(* The stamp cannot be created, or only its time cannot be set (then a     *)
(* stamp that was not there before has the time of its creation).          *)
MergeStampFails(s) ==
    /\ merge[s] = "stamp"
    /\ \E a \in IF age = None THEN {None, 0} ELSE {age} :
         /\ age' = a
         /\ timer' = [timer EXCEPT ![s] = NextLook(a)]
    /\ merge' = [merge EXCEPT ![s] = "wait"]
    /\ missed' = [missed EXCEPT ![s] = TRUE]
    /\ UNCHANGED <<life, mergeCtx, purging, lock, expired>>

MergeLoopEnds(s) ==
    /\ merge[s] = "wait"
    /\ mergeCtx[s]
    /\ merge' = [merge EXCEPT ![s] = "done"]
    /\ timer' = [timer EXCEPT ![s] = 0]
    /\ missed' = [missed EXCEPT ![s] = TRUE]
    /\ UNCHANGED <<life, mergeCtx, purging, store>>

-----------------------------------------------------------------------------
(* The environment. *)

(* Assumption: no clock moves while a merge is being done (it takes        *)
(* seconds, the interval is a day).                                        *)
Quiet == \A s \in Servers : merge[s] \notin {"merge", "stamp"}

(* Time passes on both clocks; a timer that has run out is served first. *)
Tick ==
    /\ Quiet
    /\ \A s \in Servers : merge[s] = "wait" => timer[s] > 0
    /\ age' = IF age = None \/ age = MaxAge THEN age ELSE age + 1
    /\ timer' = [s \in Servers |-> IF timer[s] > 0 THEN timer[s] - 1 ELSE 0]
    /\ UNCHANGED <<life, merge, mergeCtx, missed, purging, lock, expired>>

(* The wall clock is set back. *)
ClockSetBack ==
    /\ Quiet
    /\ age # None /\ age > -MaxBack
    /\ age' = age - 1
    /\ UNCHANGED <<life, merging, purging, lock, expired>>

(* A shadow capture passes its retention. *)
Expire ==
    /\ expired < MaxExpired
    /\ expired' = expired + 1
    /\ UNCHANGED <<life, merging, purging, lock, age>>

-----------------------------------------------------------------------------

PurgeStep(s) ==
    \/ PurgeRows(s) \/ PurgeRowsFail(s)
    \/ PurgeLock(s) \/ PurgeLockFail(s)
    \/ PurgeFile(s) \/ PurgeFilesEnd(s)
    \/ PurgeLogged(s) \/ PurgeNotLogged(s)

MergeStep(s) ==
    \/ MergeNotDue(s) \/ MergeDue(s)
    \/ MergeFTS(s) \/ MergeFTSFails(s)
    \/ MergeStamp(s) \/ MergeStampFails(s)

ExitStep(s) ==
    \/ JoinMerge(s) \/ JoinPurge(s) \/ Close(s)

Next ==
    \/ \E s \in Servers :
         \/ OpenStore(s) \/ StartServing(s) \/ StartFails(s)
         \/ Interrupt(s) \/ ServeReturns(s) \/ Kill(s)
         \/ BudgetSpent(s) \/ PurgeStep(s)
         \/ MergeStep(s) \/ MergeLoopEnds(s)
         \/ ExitStep(s)
    \/ Tick \/ ClockSetBack \/ Expire

Spec == Init /\ [][Next]_vars

(* Goroutines and the deferred calls run on; a select that finds the       *)
(* context ended again and again takes that case once.                     *)
FairSpec ==
    /\ Spec
    /\ \A s \in Purging :
         /\ WF_vars(PurgeStep(s)) /\ WF_vars(ExitStep(s))
         /\ WF_vars(MergeStep(s)) /\ SF_vars(MergeLoopEnds(s))

-----------------------------------------------------------------------------
(* Properties. *)

(* No goroutine is left, and none is in the middle of a batch, once run    *)
(* starts to close what they use.  (The order of run's deferred calls.)    *)
NoUseAfterClose ==
    \A s \in Servers : life[s] \in {"off", "close"} =>
        /\ merge[s] \in {"none", "done"}
        /\ purge[s] \in {"none", "done"}
        /\ lock # s

(* The line in the purge log can be believed: "cancelled", "budget" and    *)
(* "failed" mean that no row is gone and the next start sees the batch     *)
(* again, "partial" that rows are gone and files may be left, "capped" and *)
(* "ok" that every file was dealt with; the count is what was deleted.     *)
(* (PurgeStatus and the goroutine around PurgeHookOnlyOlderThan.)          *)
LogTellsTheTruth ==
    \A s \in Servers : line[s] # None =>
        /\ line[s].count = batch[s].deleted
        /\ line[s].status \in {"cancelled", "budget", "failed"} => batch[s].deleted = 0
        /\ line[s].status = "partial" => batch[s].deleted > 0
        /\ line[s].status \in {"capped", "ok"} => batch[s].left = 0

(* While a server is up, its next look at the stamp comes no later than    *)
(* the moment the stamp is Interval old, whoever wrote the stamp and also  *)
(* after the clock was set back; a merge that failed is looked at again    *)
(* after one Interval.  (runFTSMergeLoop's t.Reset, FTSMergeDueIn.)        *)
MergeNotOverdue ==
    \A s \in Servers : merge[s] = "wait" /\ ~missed[s] =>
        /\ age # None
        /\ age >= 0 => timer[s] + age <= Interval

(* A server that stops serving ends: both goroutines see that they are     *)
(* cancelled wherever they are.                                            *)
ShutdownCompletes ==
    \A s \in Purging : life[s] = "joinMerge" ~> life[s] = "off"

=============================================================================
