---------------------------- MODULE FetchLedger -----------------------------
(***************************************************************************)
(* The savings ledger (ledger.db): one row per tool call, three columns    *)
(* added to the table of older binaries, and a watermark in user_version   *)
(* that tells rows from before that migration from rows an older binary    *)
(* still writes after it.  The migration is a sequence of independent      *)
(* statements under the lock of OpenContext; each may fail, the process    *)
(* may die between any two, and binaries that know nothing of it go on     *)
(* writing.  A server keeps the column set it saw when it opened.          *)
(*                                                                         *)
(* ctr_fetch learns its outcome in several statements on content.db while  *)
(* captures and purges go on, and records it; LedgerFetchStats reads the   *)
(* columns, then everything else from one snapshot.  Byte counts and       *)
(* durations are left out.                                                 *)
(***************************************************************************)
EXTENDS Integers, Sequences, FiniteSets, FiniteSetsExt

CONSTANTS
    Procs,     \* processes of this binary: servers and hooks
    Servers,   \* those that answer ctr_fetch
    Arts,      \* artifact ids, one content each
    Null,      \* SQL NULL, a Go nil, no holder
    MaxRows,   \* bound: rows of the table
    MaxAge     \* bound: ages of content, in seconds

ASSUME LedgerAssumption ==
    /\ Servers \subseteq Procs
    /\ Null \notin Procs \cup Arts \cup Int \cup BOOLEAN
    /\ MaxRows \in Nat /\ MaxAge \in Nat /\ Arts # {}

VARIABLES
    columns,   \* columns of table ledger; "ledger" stands for the first six
    rows,      \* rows of the table, by id
    mark,      \* PRAGMA user_version
    lock,      \* holder of the store's lock file
    proc,      \* each process's Open, then its ledgerCols
    fetch,     \* each process's ctr_fetch call
    live       \* content.db: artifact ids that are there

table == <<columns, rows, mark>>
vars  == <<table, lock, proc, fetch, live>>

-----------------------------------------------------------------------------
(* Rows and calls. *)

ledgerFetchColumns == <<"artifact_id", "artifact_age_s", "shadow_owned">>

FetchColumns == {"artifact_id", "artifact_age_s", "shadow_owned"}

Columns == {"ledger"} \cup FetchColumns

Age == (-1)..MaxAge

Row == [tool: {"ctr_fetch", "other"}, artifact_id: Arts \cup {Null},
        artifact_age_s: Age \cup {Null}, shadow_owned: BOOLEAN \cup {Null},
        marked: BOOLEAN, migrated: BOOLEAN]  \* history: mark and columns when written

(* A row as a statement that names the columns cs leaves it. *)
NewRow(tool, cs, id, age, owned) ==
    [tool |-> tool,
     artifact_id    |-> IF "artifact_id" \in cs THEN id ELSE Null,
     artifact_age_s |-> IF "artifact_age_s" \in cs THEN age ELSE Null,
     shadow_owned   |-> IF "shadow_owned" \in cs THEN owned ELSE Null,
     marked |-> mark # 0, migrated |-> columns \cap FetchColumns # {}]

Opening == {"columns", "alter", "check", "top", "write"}

Process == [pc: {"closed", "serve"} \cup Opening, view: SUBSET Columns,
            next: 1..4, added: BOOLEAN, top: 0..MaxRows+1]

Closed == [pc |-> "closed", view |-> {}, next |-> 1, added |-> FALSE, top |-> 0]

Call == [pc: {"idle", "miss", "age", "append"}, asked: Arts, id: Arts \cup {Null},
         lag: ((-MaxAge)..MaxAge) \cup {Null}, owned: BOOLEAN, age: Age \cup {Null}]

CallFor(pc, a) == [pc |-> pc, asked |-> a, id |-> Null, lag |-> Null,
                   owned |-> FALSE, age |-> Null]

IdleCall == CallFor("idle", CHOOSE a \in Arts : TRUE)

TypeOK ==
    /\ columns \subseteq Columns
    /\ rows \in Seq(Row) /\ Len(rows) <= MaxRows
    /\ mark \in 0..MaxRows+1
    /\ lock \in Procs \cup {Null}
    /\ proc \in [Procs -> Process]
    /\ fetch \in [Servers -> Call]
    /\ live \subseteq Arts

(* A ledger may be new, from an older binary, or from a build that added   *)
(* the columns before there was a watermark.                               *)
Init ==
    /\ columns \in {{}, {"ledger"}, Columns}
    /\ rows = <<>> /\ mark = 0 /\ lock = Null
    /\ proc = [p \in Procs |-> Closed]
    /\ fetch = [p \in Servers |-> IdleCall]
    /\ live \in SUBSET Arts

-----------------------------------------------------------------------------
(* OpenContext(dir, writable): the part that concerns ledger.db. *)

(* CREATE TABLE IF NOT EXISTS, under the lock; a failure is only logged. *)
OpenLedger(p) ==
    /\ proc[p].pc = "closed" /\ lock = Null
    /\ lock' = p
    /\ \/ columns' = columns \cup {"ledger"}
       \/ columns' = columns
    /\ proc' = [proc EXCEPT ![p].pc = "columns"]
    /\ UNCHANGED <<rows, mark, fetch, live>>

(* Open returns: ledgerCols is set (only a server ever reads it) and the   *)
(* deferred release runs.                                                  *)
Opened(p, view) ==
    /\ lock' = Null
    /\ proc' = [proc EXCEPT ![p] = [pc |-> "serve", view |-> IF p \in Servers THEN view ELSE {},
                                    next |-> 1, added |-> FALSE, top |-> 0]]

(* migrateLedger: read the columns; an unreadable or missing table ends it. *)
ReadColumns(p) ==
    /\ proc[p].pc = "columns"
    /\ \/ Opened(p, {})
       \/ /\ columns # {}
          /\ proc' = [proc EXCEPT ![p].pc = "alter", ![p].view = columns]
          /\ UNCHANGED lock
    /\ UNCHANGED <<table, fetch, live>>

(* One round of the loop over ledgerFetchColumns: a column that is there   *)
(* is skipped, an ALTER that fails leaves the column out of the view.      *)
AlterColumn(p) ==
    LET c == ledgerFetchColumns[proc[p].next] IN
    /\ proc[p].pc = "alter" /\ proc[p].next <= 3
    /\ \/ /\ c \notin proc[p].view /\ c \notin columns
          /\ columns' = columns \cup {c}
          /\ proc' = [proc EXCEPT ![p].next = @ + 1, ![p].added = TRUE,
                                  ![p].view = @ \cup {c}]
       \/ /\ proc' = [proc EXCEPT ![p].next = @ + 1]
          /\ UNCHANGED columns
    /\ UNCHANGED <<rows, mark, lock, fetch, live>>

(* Only a migration that added a column goes on to the watermark. *)
AlterDone(p) ==
    /\ proc[p].pc = "alter" /\ proc[p].next = 4
    /\ IF proc[p].added
       THEN proc' = [proc EXCEPT ![p].pc = "check"] /\ UNCHANGED lock
       ELSE Opened(p, proc[p].view)
    /\ UNCHANGED <<table, fetch, live>>

(* Mutant: every migration that added a column sets the watermark. *)
CheckMarkNever(p) ==
    /\ proc[p].pc = "check"
    /\ proc' = [proc EXCEPT ![p].pc = "top"]
    /\ UNCHANGED <<table, lock, fetch, live>>

(* markLedgerMigrated: three statements; each may fail and end it. *)
CheckMark(p) ==
    /\ proc[p].pc = "check"
    /\ \/ Opened(p, proc[p].view)
       \/ /\ mark = 0
          /\ proc' = [proc EXCEPT ![p].pc = "top"]
          /\ UNCHANGED lock
    /\ UNCHANGED <<table, fetch, live>>

ReadTop(p) ==
    /\ proc[p].pc = "top"
    /\ \/ Opened(p, proc[p].view)
       \/ /\ proc' = [proc EXCEPT ![p].pc = "write", ![p].top = Len(rows) + 1]
          /\ UNCHANGED lock
    /\ UNCHANGED <<table, fetch, live>>

WriteMark(p) ==
    /\ proc[p].pc = "write"
    /\ mark' \in {mark, proc[p].top}
    /\ Opened(p, proc[p].view)
    /\ UNCHANGED <<columns, rows, fetch, live>>

(* The process dies or closes; the kernel gives up its lock. *)
Crash(p) ==
    /\ proc[p].pc # "closed"
    /\ proc' = [proc EXCEPT ![p] = Closed]
    /\ fetch' = [q \in Servers |-> IF q = p THEN IdleCall ELSE fetch[q]]
    /\ lock' = IF lock = p THEN Null ELSE lock
    /\ UNCHANGED <<table, live>>

-----------------------------------------------------------------------------
(* Writers. *)

Insert(row) == Len(rows) < MaxRows /\ rows' = Append(rows, row)

(* LedgerAppendContext: the six columns of every binary. *)
LedgerAppendContext(p) ==
    /\ proc[p].pc = "serve" /\ "ledger" \in columns
    /\ Insert(NewRow("other", {}, Null, Null, Null))
    /\ UNCHANGED <<columns, mark, lock, proc, fetch, live>>

(* External: a server of an older binary goes on recording ctr_fetch. *)
OldServerAppends ==
    /\ "ledger" \in columns
    /\ Insert(NewRow("ctr_fetch", {}, Null, Null, Null))
    /\ UNCHANGED <<columns, mark, lock, proc, fetch, live>>

(* registerFetch: a malformed selector and an error of the store end the   *)
(* call without a row (no step here).  ErrNotFound is an unknown artifact  *)
(* or an unknown chunk of a known one.                                     *)
ReadRange(p, a) ==
    /\ proc[p].pc = "serve" /\ fetch[p].pc = "idle"
    /\ \E pc \in (IF a \in live THEN {"age", "miss"} ELSE {"miss"}) :
          fetch' = [fetch EXCEPT ![p] = CallFor(pc, a)]
    /\ UNCHANGED <<table, lock, proc, live>>

(* recordFetchMiss: only an artifact that is not there is a miss. *)
RecordFetchMiss(p) ==
    LET a == fetch[p].asked IN
    /\ fetch[p].pc = "miss"
    /\ fetch' = [fetch EXCEPT ![p] = IF a \in live THEN IdleCall
                                                ELSE CallFor("append", a)]
    /\ UNCHANGED <<table, lock, proc, live>>

(* recordFetchResolve: whether a purge owns the content, and how long ago  *)
(* it was last captured by the wall clock (lag, negative when the clock    *)
(* was set back).  Both are read after the answer was made: the lookup may *)
(* fail, or the content be gone, and the row has neither.                  *)
RecordFetchResolve(p) ==
    LET a == fetch[p].asked IN
    /\ fetch[p].pc = "age"
    /\ \/ fetch' = [fetch EXCEPT ![p] = [CallFor("append", a) EXCEPT !.id = a]]
       \/ /\ a \in live
          /\ \E lag \in (-MaxAge)..MaxAge, owned \in BOOLEAN :
                fetch' = [fetch EXCEPT ![p] =
                   [pc |-> "append", asked |-> a, id |-> a, lag |-> lag,
                    owned |-> owned, age |-> IF lag >= 0 THEN lag ELSE Null]]
    /\ UNCHANGED <<table, lock, proc, live>>

(* Mutant: every column that is there is named. *)
NamedAll(view) == view \cap FetchColumns

(* The columns LedgerAppendFetch names: what it saw at Open, in three steps. *)
Named(view) ==
    IF ~({"artifact_id", "artifact_age_s"} \subseteq view) THEN {}
    ELSE view \cap FetchColumns

(* An unresolved call is (NULL, -1, NULL); without an id there is no owner. *)
FetchRow(f, cs) ==
    NewRow("ctr_fetch", cs, f.id, IF f.id = Null THEN -1 ELSE f.age,
           IF f.id = Null THEN Null ELSE f.owned)

(* LedgerAppendFetch: the statement is refused as a whole when it names a  *)
(* column that is not there; any error is swallowed.                       *)
LedgerAppendFetch(p) ==
    LET cs == Named(proc[p].view) IN
    /\ fetch[p].pc = "append"
    /\ \/ cs \cup {"ledger"} \subseteq columns /\ Insert(FetchRow(fetch[p], cs))
       \/ UNCHANGED rows
    /\ fetch' = [fetch EXCEPT ![p] = IdleCall]
    /\ UNCHANGED <<columns, mark, lock, proc, live>>

-----------------------------------------------------------------------------
(* External: purges of other processes; an id that is gone stays gone      *)
(* (module ContentStore, IdNeverRebinds).                                  *)
PurgeContent(a) ==
    /\ a \in live
    /\ live' = live \ {a}
    /\ UNCHANGED <<table, lock, proc, fetch>>

-----------------------------------------------------------------------------
(* LedgerFetchStats. *)

(* Mutant: a recorded age alone makes a row a miss. *)
IsMissedByAge(r) == r.tool = "ctr_fetch" /\ r.artifact_age_s # Null

IsFetch(r)    == r.tool = "ctr_fetch"
IsResolved(r) == IsFetch(r) /\ r.artifact_id # Null
IsMissed(r)   == IsFetch(r) /\ r.artifact_id = Null /\ r.artifact_age_s # Null
IsLegacy(r)   == IsFetch(r) /\ r.artifact_id = Null /\ r.artifact_age_s = Null

(* fetchAgeBasis: the rows the ages are computed from. *)
InAgeBasis(r) == IsResolved(r) /\ r.shadow_owned = TRUE /\ r.artifact_age_s # Null

Ids(P(_)) == {i \in 1..Len(rows) : P(rows[i])}

Artifacts == {rows[i].artifact_id : i \in Ids(InAgeBasis)}

(* One age per artifact, the largest. *)
OldestFetch(a) == Max({rows[i].artifact_age_s :
                     i \in {j \in Ids(InAgeBasis) : rows[j].artifact_id = a}})

(* GROUP BY artifact_id ORDER BY 1 LIMIT 1 OFFSET k *)
AgeAt(k) ==
    CHOOSE age \in {OldestFetch(a) : a \in Artifacts} :
        /\ Cardinality({a \in Artifacts : OldestFetch(a) < age}) <= k
        /\ Cardinality({a \in Artifacts : OldestFetch(a) <= age}) > k

(* The answer, one read transaction: how far it goes depends on cols, the  *)
(* columns read before the transaction began.  The numbers of a higher     *)
(* rung are missing (0) on a lower one.                                    *)
FetchStats(cols) ==
    LET outcomeOK == {"artifact_id", "artifact_age_s"} \subseteq cols
        shadowOK  == outcomeOK /\ "shadow_owned" \in cols
        n         == IF shadowOK THEN Cardinality(Artifacts) ELSE 0
        Count(P(_)) == IF outcomeOK THEN Cardinality(Ids(P)) ELSE 0
    IN [calls    |-> Cardinality(Ids(IsFetch)),
        resolved |-> Count(IsResolved), missed |-> Count(IsMissed),
        legacy   |-> Count(IsLegacy),
        late     |-> IF mark = 0 \/ ~outcomeOK THEN 0
                     ELSE Cardinality({i \in Ids(IsLegacy) : i >= mark}),
        shadow   |-> IF shadowOK THEN Cardinality(Ids(InAgeBasis)) ELSE 0,
        artifacts |-> n,
        p50 |-> IF n = 0 THEN 0 ELSE AgeAt(((n - 1) * 50) \div 100),
        p90 |-> IF n = 0 THEN 0 ELSE AgeAt(((n - 1) * 90) \div 100),
        max |-> IF n = 0 THEN 0 ELSE AgeAt(n - 1)]

Next ==
    \/ OldServerAppends
    \/ \E a \in Arts : PurgeContent(a)
    \/ \E p \in Procs :
          \/ OpenLedger(p) \/ ReadColumns(p) \/ AlterColumn(p) \/ AlterDone(p)
          \/ CheckMark(p) \/ ReadTop(p) \/ WriteMark(p) \/ Crash(p)
          \/ LedgerAppendContext(p)
    \/ \E p \in Servers :
          \/ RecordFetchMiss(p) \/ RecordFetchResolve(p) \/ LedgerAppendFetch(p)
          \/ \E a \in Arts : ReadRange(p, a)

Spec == Init /\ [][Next]_vars
-----------------------------------------------------------------------------
(* Properties. *)

(* How LedgerFetchStats classifies a row. *)
Reading(r) ==
    IF ~IsFetch(r) THEN <<"other">>
    ELSE IF InAgeBasis(r) THEN <<"shadow", r.artifact_id, r.artifact_age_s>>
    ELSE IF IsResolved(r) THEN <<"resolved", r.artifact_id>>
    ELSE IF IsMissed(r) THEN <<"missed">>
    ELSE <<"legacy">>

(* What a finished call came to, from what its statements returned. *)
Outcome(f) ==
    IF f.pc # "append" THEN <<"nothing">>
    ELSE IF f.id = Null THEN <<"missed">>
    ELSE IF f.owned /\ f.lag # Null /\ f.lag >= 0 THEN <<"shadow", f.id, f.lag>>
    ELSE <<"resolved", f.id>>

Promise == INSTANCE FetchRecord WITH
    log     <- [i \in 1..Len(rows) |-> Reading(rows[i])],
    pending <- [p \in Servers |-> Outcome(fetch[p])],
    Procs   <- Servers,
    Ages    <- 0..MaxAge

(* The ledger keeps the promise of module FetchRecord: through partial     *)
(* migrations, stale column sets, crashes and older writers, what the      *)
(* reader makes of a row (LedgerFetchStats) is the call's own outcome or   *)
(* less, and adding a column later never changes it.                       *)
ReadsBackTheOutcome == Promise!Spec

(* A server never names a column the table lacks, so LedgerAppendFetch is  *)
(* never refused for one and its swallowed errors hide no schema mistake:  *)
(* what migrateLedger returned is, and stays, part of the table.           *)
NamedColumnsExist == \A p \in Procs : proc[p].view \subseteq columns

(* The watermark separates: a legacy row counted as late was written when  *)
(* a fetch column existed, and no row written once the watermark was set   *)
(* is below it, although migrateLedger may run and complete several times. *)
WatermarkSeparates ==
    mark > 0 => \A i \in 1..Len(rows) :
                   /\ i >= mark => rows[i].migrated
                   /\ rows[i].marked => i >= mark

(* The numbers of one LedgerFetchStats call agree with each other although *)
(* columns were added after it looked at them: the parts sum to the calls, *)
(* the shadow rows are among the resolved ones, and the quantiles exist    *)
(* and are ordered.                                                        *)
NumbersAddUp ==
    \A cols \in SUBSET columns :
        LET st == FetchStats(cols) IN
        /\ {"artifact_id", "artifact_age_s"} \subseteq cols =>
              st.calls = st.resolved + st.missed + st.legacy
        /\ st.late <= st.legacy
        /\ st.artifacts <= st.shadow /\ st.shadow <= st.resolved
        /\ 0 <= st.p50 /\ st.p50 <= st.p90 /\ st.p90 <= st.max
=============================================================================
