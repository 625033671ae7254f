------------------------- MODULE FetchLedgerProofs --------------------------
(***************************************************************************)
(* Proofs about FetchLedger: types, the columns a server names, and the    *)
(* watermark, for any number of processes and rows; and that it implements *)
(* FetchRecord.                                                            *)
(***************************************************************************)
EXTENDS FetchLedger, SequenceTheorems, FiniteSetTheorems, WellFoundedInduction, TLAPS

-----------------------------------------------------------------------------
(* Types. *)

(* What LedgerAppendFetch and LedgerAppendContext insert is a row, whatever *)
(* columns they name.                                                      *)
LEMMA NewRowIsRow ==
    ASSUME NEW tool \in {"ctr_fetch", "other"}, NEW cs, NEW id \in Arts \cup {Null},
           NEW age \in Age \cup {Null}, NEW owned \in BOOLEAN \cup {Null}
    PROVE  NewRow(tool, cs, id, age, owned) \in Row
BY DEF NewRow, Row

(* A call that was just given an artifact is a call. *)
LEMMA CallForIsCall ==
    ASSUME NEW k \in {"idle", "miss", "age", "append"}, NEW a \in Arts
    PROVE  CallFor(k, a) \in Call
BY DEF CallFor, Call

LEMMA IdleIsCall == IdleCall \in Call
<1>1. PICK a : a \in Arts
  BY LedgerAssumption
<1>2. (CHOOSE x \in Arts : TRUE) \in Arts
  BY <1>1
<1> QED
  BY <1>2, CallForIsCall DEF IdleCall

(* An insert leaves a table of rows (Insert's guard is the bound MaxRows). *)
LEMMA InsertTyped ==
    ASSUME TypeOK, NEW r \in Row, Insert(r)
    PROVE  rows' \in Seq(Row) /\ Len(rows') <= MaxRows /\ Len(rows') = Len(rows) + 1
BY LedgerAssumption DEF TypeOK, Insert

(* What FetchRow inserts for a call is a row. *)
LEMMA FetchRowIsRow ==
    ASSUME NEW f \in Call, NEW cs
    PROVE  FetchRow(f, cs) \in Row
<1>1. (IF f.id = Null THEN -1 ELSE f.age) \in Age \cup {Null}
  BY LedgerAssumption DEF Call, Age
<1>2. (IF f.id = Null THEN Null ELSE f.owned) \in BOOLEAN \cup {Null}
  BY DEF Call
<1>3. f.id \in Arts \cup {Null}
  BY DEF Call
<1> QED
  BY <1>1, <1>2, <1>3, NewRowIsRow DEF FetchRow

(* Opened leaves processes. *)
LEMMA OpenedTyped ==
    ASSUME TypeOK, NEW p \in Procs, NEW view \in SUBSET Columns, Opened(p, view)
    PROVE  lock' \in Procs \cup {Null} /\ proc' \in [Procs -> Process]
<1> DEFINE q == [pc |-> "serve", view |-> IF p \in Servers THEN view ELSE {},
                 next |-> 1, added |-> FALSE, top |-> 0]
<1>1. q \in Process
  BY LedgerAssumption DEF Process
<1>2. proc' = [proc EXCEPT ![p] = q] /\ lock' = Null
  BY DEF Opened
<1> QED
  BY <1>1, <1>2 DEF TypeOK

LEMMA TypeStep == TypeOK /\ [Next]_vars => TypeOK'
<1> SUFFICES ASSUME TypeOK, [Next]_vars PROVE TypeOK'
  OBVIOUS
<1> USE LedgerAssumption
<1>1. CASE OldServerAppends
  BY <1>1, NewRowIsRow, InsertTyped DEF OldServerAppends, TypeOK
<1>2. ASSUME NEW a \in Arts, PurgeContent(a) PROVE TypeOK'
  BY <1>2 DEF PurgeContent, table, TypeOK
<1>3. ASSUME NEW p \in Procs, OpenLedger(p) PROVE TypeOK'
  <2>1. [proc[p] EXCEPT !.pc = "columns"] \in Process
    <3>1. proc[p] \in Process
      BY DEF TypeOK
    <3> QED
      BY <3>1 DEF Process, Opening
  <2>2. proc' \in [Procs -> Process]
    BY <1>3, <2>1 DEF OpenLedger, TypeOK
  <2>3. columns' \subseteq Columns
    BY <1>3 DEF OpenLedger, TypeOK, Columns
  <2> QED
    BY <1>3, <2>2, <2>3 DEF OpenLedger, TypeOK
<1>4. ASSUME NEW p \in Procs, ReadColumns(p) PROVE TypeOK'
  <2>1. CASE Opened(p, {})
    BY <1>4, <2>1, OpenedTyped DEF ReadColumns, table, TypeOK
  <2>2. CASE proc' = [proc EXCEPT ![p].pc = "alter", ![p].view = columns] /\ UNCHANGED lock
    <3>1. [proc[p] EXCEPT !.pc = "alter", !.view = columns] \in Process
      <4>1. proc[p] \in Process /\ columns \in SUBSET Columns
        BY DEF TypeOK
      <4> QED
        BY <4>1 DEF Process, Opening
    <3>2. proc' = [proc EXCEPT ![p] = [proc[p] EXCEPT !.pc = "alter", !.view = columns]]
      BY <2>2
    <3> QED
      BY <1>4, <2>2, <3>1, <3>2 DEF ReadColumns, table, TypeOK
  <2> QED
    BY <1>4, <2>1, <2>2 DEF ReadColumns
<1>5. ASSUME NEW p \in Procs, AlterColumn(p) PROVE TypeOK'
  <2>1. proc[p].next \in 1..3 /\ proc[p] \in Process
    BY <1>5 DEF AlterColumn, TypeOK, Process
  <2>2. ledgerFetchColumns[proc[p].next] \in Columns
    BY <2>1 DEF ledgerFetchColumns, Columns, FetchColumns
  <2> DEFINE c == ledgerFetchColumns[proc[p].next]
             n == proc[p].next + 1
  <2>3. proc[p].view \cup {c} \in SUBSET Columns /\ columns \cup {c} \in SUBSET Columns /\ n \in 1..4
    BY <2>1, <2>2 DEF TypeOK, Process
  <2>4. /\ [proc[p] EXCEPT !.next = n] \in Process
        /\ [proc[p] EXCEPT !.next = n, !.added = TRUE, !.view = proc[p].view \cup {c}] \in Process
    BY <2>3, <2>1 DEF Process
  <2>5. /\ \/ proc' = [proc EXCEPT ![p] = [proc[p] EXCEPT !.next = n, !.added = TRUE, !.view = proc[p].view \cup {c}]]
           \/ proc' = [proc EXCEPT ![p] = [proc[p] EXCEPT !.next = n]]
        /\ columns' \in {columns, columns \cup {c}}
    BY <1>5 DEF AlterColumn
  <2>6. proc' \in [Procs -> Process]
    BY <2>4, <2>5 DEF TypeOK
  <2> QED
    BY <1>5, <2>3, <2>5, <2>6 DEF AlterColumn, TypeOK
<1>6. ASSUME NEW p \in Procs, AlterDone(p) PROVE TypeOK'
  <2>1. proc[p].view \in SUBSET Columns
    BY DEF TypeOK, Process
  <2>2. CASE proc[p].added
    <3>1. [proc[p] EXCEPT !.pc = "check"] \in Process
      <4>1. proc[p] \in Process
        BY DEF TypeOK
      <4> QED
        BY <4>1 DEF Process, Opening
    <3>2. proc' = [proc EXCEPT ![p] = [proc[p] EXCEPT !.pc = "check"]]
      BY <1>6, <2>2 DEF AlterDone
    <3> QED
      BY <1>6, <2>2, <3>1, <3>2 DEF AlterDone, table, TypeOK
  <2>3. CASE ~proc[p].added
    BY <1>6, <2>1, <2>3, OpenedTyped DEF AlterDone, table, TypeOK
  <2> QED
    BY <2>2, <2>3
<1>7. ASSUME NEW p \in Procs, CheckMark(p) PROVE TypeOK'
  <2>1. proc[p].view \in SUBSET Columns
    BY DEF TypeOK, Process
  <2>2. CASE Opened(p, proc[p].view)
    BY <1>7, <2>1, <2>2, OpenedTyped DEF CheckMark, table, TypeOK
  <2>3. CASE proc' = [proc EXCEPT ![p].pc = "top"] /\ UNCHANGED lock
    BY <1>7, <2>3 DEF CheckMark, table, TypeOK, Process, Opening
  <2> QED
    BY <1>7, <2>2, <2>3 DEF CheckMark
<1>8. ASSUME NEW p \in Procs, ReadTop(p) PROVE TypeOK'
  <2>1. proc[p].view \in SUBSET Columns
    BY DEF TypeOK, Process
  <2>2. CASE Opened(p, proc[p].view)
    BY <1>8, <2>1, <2>2, OpenedTyped DEF ReadTop, table, TypeOK
  <2>3. CASE proc' = [proc EXCEPT ![p].pc = "write", ![p].top = Len(rows) + 1] /\ UNCHANGED lock
    <3>1. Len(rows) + 1 \in 0..MaxRows+1
      BY DEF TypeOK
    <3>2. [proc[p] EXCEPT !.pc = "write", !.top = Len(rows) + 1] \in Process
      BY <3>1 DEF TypeOK, Process, Opening
    <3> QED
      BY <1>8, <2>3, <3>2 DEF ReadTop, table, TypeOK
  <2> QED
    BY <1>8, <2>2, <2>3 DEF ReadTop
<1>9. ASSUME NEW p \in Procs, WriteMark(p) PROVE TypeOK'
  <2>1. proc[p].view \in SUBSET Columns /\ proc[p].top \in 0..MaxRows+1
    BY DEF TypeOK, Process
  <2> QED
    BY <1>9, <2>1, OpenedTyped DEF WriteMark, TypeOK
<1>10. ASSUME NEW p \in Procs, Crash(p) PROVE TypeOK'
  <2>1. fetch' \in [Servers -> Call]
    BY <1>10, IdleIsCall DEF Crash, TypeOK
  <2>2. proc' \in [Procs -> Process]
    BY <1>10 DEF Crash, TypeOK, Closed, Process
  <2> QED
    BY <1>10, <2>1, <2>2 DEF Crash, table, TypeOK
<1>11. ASSUME NEW p \in Procs, LedgerAppendContext(p) PROVE TypeOK'
  BY <1>11, NewRowIsRow, InsertTyped DEF LedgerAppendContext, TypeOK
<1>12. ASSUME NEW p \in Servers, NEW a \in Arts, ReadRange(p, a) PROVE TypeOK'
  <2>1. fetch' \in [Servers -> Call]
    BY <1>12, CallForIsCall DEF ReadRange, TypeOK
  <2> QED
    BY <1>12, <2>1 DEF ReadRange, table, TypeOK
<1>13. ASSUME NEW p \in Servers, RecordFetchMiss(p) PROVE TypeOK'
  <2>1. fetch[p].asked \in Arts
    BY DEF TypeOK, Call
  <2>2. fetch' \in [Servers -> Call]
    BY <1>13, <2>1, CallForIsCall, IdleIsCall DEF RecordFetchMiss, TypeOK
  <2> QED
    BY <1>13, <2>2 DEF RecordFetchMiss, table, TypeOK
<1>14. ASSUME NEW p \in Servers, RecordFetchResolve(p) PROVE TypeOK'
  <2>1. fetch[p].asked \in Arts
    BY DEF TypeOK, Call
  <2>2. [CallFor("append", fetch[p].asked) EXCEPT !.id = fetch[p].asked] \in Call
    BY <2>1 DEF CallFor, Call
  <2>3. ASSUME NEW lag \in (-MaxAge)..MaxAge, NEW owned \in BOOLEAN
        PROVE  [pc |-> "append", asked |-> fetch[p].asked, id |-> fetch[p].asked, lag |-> lag,
                owned |-> owned, age |-> IF lag >= 0 THEN lag ELSE Null] \in Call
    BY <2>1 DEF Call, Age
  <2>4. fetch' \in [Servers -> Call]
    BY <1>14, <2>2, <2>3 DEF RecordFetchResolve, TypeOK
  <2> QED
    BY <1>14, <2>4 DEF RecordFetchResolve, table, TypeOK
<1>15. ASSUME NEW p \in Servers, LedgerAppendFetch(p) PROVE TypeOK'
  <2>1. fetch' \in [Servers -> Call]
    BY <1>15, IdleIsCall DEF LedgerAppendFetch, TypeOK
  <2>2. fetch[p] \in Call
    BY DEF TypeOK
  <2>3. rows' \in Seq(Row) /\ Len(rows') <= MaxRows
    BY <1>15, <2>2, FetchRowIsRow, InsertTyped DEF LedgerAppendFetch, TypeOK
  <2> QED
    BY <1>15, <2>1, <2>3 DEF LedgerAppendFetch, TypeOK
<1>16. CASE UNCHANGED vars
  BY <1>16 DEF vars, table, TypeOK
<1> QED
  BY <1>1, <1>2, <1>3, <1>4, <1>5, <1>6, <1>7, <1>8, <1>9, <1>10, <1>11, <1>12, <1>13,
     <1>14, <1>15, <1>16 DEF Next

(* Every variable of the ledger model stays in its range, for any number   *)
(* of processes, artifacts and rows.                                       *)
THEOREM LedgerTypeCorrect == Spec => []TypeOK
<1>1. Init => TypeOK
  BY LedgerAssumption, IdleIsCall DEF Init, TypeOK, Closed, Process, Columns
<1> QED
  BY <1>1, TypeStep, PTL DEF Spec

-----------------------------------------------------------------------------
(* The columns a server names, and the watermark. *)

(* Columns are only added, and what a process has seen of them is there.   *)
LEMMA NamedStep == TypeOK /\ NamedColumnsExist /\ [Next]_vars => NamedColumnsExist'
<1> SUFFICES ASSUME TypeOK, NamedColumnsExist, [Next]_vars PROVE NamedColumnsExist'
  OBVIOUS
<1> USE DEF NamedColumnsExist
<1>1. ASSUME NEW p \in Procs, OpenLedger(p) PROVE NamedColumnsExist'
  BY <1>1 DEF OpenLedger, TypeOK, Process
<1>2. ASSUME NEW p \in Procs, NEW view \in SUBSET columns, Opened(p, view), UNCHANGED columns
      PROVE  NamedColumnsExist'
  BY <1>2 DEF Opened, TypeOK, Process
<1>3. ASSUME NEW p \in Procs, ReadColumns(p) PROVE NamedColumnsExist'
  <2>1. CASE Opened(p, {})
    BY <1>2, <1>3, <2>1 DEF ReadColumns, table
  <2>2. CASE proc' = [proc EXCEPT ![p].pc = "alter", ![p].view = columns]
    BY <1>3, <2>2 DEF ReadColumns, table, TypeOK, Process
  <2> QED
    BY <1>3, <2>1, <2>2 DEF ReadColumns
<1>4. ASSUME NEW p \in Procs, AlterColumn(p) PROVE NamedColumnsExist'
  <2> DEFINE c == ledgerFetchColumns[proc[p].next]
  <2>1. \A q \in Procs : proc'[q].view \in {proc[q].view, proc[q].view \cup (columns' \cap {c})}
    BY <1>4 DEF AlterColumn, TypeOK, Process
  <2>2. columns \subseteq columns'
    BY <1>4 DEF AlterColumn
  <2> QED
    BY <2>1, <2>2
<1>5. ASSUME NEW p \in Procs, AlterDone(p) PROVE NamedColumnsExist'
  <2>1. CASE proc[p].added
    BY <1>5, <2>1 DEF AlterDone, table, TypeOK, Process
  <2>2. CASE ~proc[p].added
    BY <1>2, <1>5, <2>2 DEF AlterDone, table
  <2> QED
    BY <2>1, <2>2
<1>6. ASSUME NEW p \in Procs, CheckMark(p) PROVE NamedColumnsExist'
  <2>1. CASE Opened(p, proc[p].view)
    BY <1>2, <1>6, <2>1 DEF CheckMark, table
  <2>2. CASE proc' = [proc EXCEPT ![p].pc = "top"]
    BY <1>6, <2>2 DEF CheckMark, table, TypeOK, Process
  <2> QED
    BY <1>6, <2>1, <2>2 DEF CheckMark
<1>7. ASSUME NEW p \in Procs, ReadTop(p) PROVE NamedColumnsExist'
  <2>1. CASE Opened(p, proc[p].view)
    BY <1>2, <1>7, <2>1 DEF ReadTop, table
  <2>2. CASE proc' = [proc EXCEPT ![p].pc = "write", ![p].top = Len(rows) + 1]
    BY <1>7, <2>2 DEF ReadTop, table, TypeOK, Process
  <2> QED
    BY <1>7, <2>1, <2>2 DEF ReadTop
<1>8. ASSUME NEW p \in Procs, WriteMark(p) PROVE NamedColumnsExist'
  BY <1>2, <1>8 DEF WriteMark
<1>9. ASSUME NEW p \in Procs, Crash(p) PROVE NamedColumnsExist'
  <2>1. \A q \in Procs : proc'[q].view \subseteq columns
    BY <1>9 DEF Crash, Closed, TypeOK
  <2> QED
    BY <1>9, <2>1 DEF Crash, table
<1>10. CASE UNCHANGED <<columns, proc>>
  BY <1>10
<1>11. ASSUME NEW p \in Servers, NEW a \in Arts, ReadRange(p, a) PROVE UNCHANGED <<columns, proc>>
  BY <1>11 DEF ReadRange, table
<1>12. ASSUME NEW p \in Servers, RecordFetchMiss(p) \/ RecordFetchResolve(p) \/ LedgerAppendFetch(p)
       PROVE  UNCHANGED <<columns, proc>>
  BY <1>12 DEF RecordFetchMiss, RecordFetchResolve, LedgerAppendFetch, table
<1>13. ASSUME OldServerAppends \/ (\E p \in Procs : LedgerAppendContext(p)) \/ (\E a \in Arts : PurgeContent(a)) \/ UNCHANGED vars
       PROVE  UNCHANGED <<columns, proc>>
  BY <1>13 DEF OldServerAppends, LedgerAppendContext, PurgeContent, table, vars
<1> QED
  BY <1>1, <1>3, <1>4, <1>5, <1>6, <1>7, <1>8, <1>9, <1>10, <1>11, <1>12, <1>13 DEF Next

(* No server names a column the table lacks: what migrateLedger returned   *)
(* stays part of the table through every migration, failure and crash.     *)
THEOREM NamedColumnsAreThere == Spec => []NamedColumnsExist
<1>1. Init => NamedColumnsExist
  BY DEF Init, NamedColumnsExist, Closed
<1> QED
  BY <1>1, NamedStep, LedgerTypeCorrect, PTL DEF Spec

(* The statements of a migration belong to the process that holds the      *)
(* lock; a migration that goes on to the watermark has added a column and  *)
(* found no watermark; and the rows from the one it read on were written   *)
(* after that column.                                                      *)
Migrated == columns \cap FetchColumns # {}

OpeningInv(p) ==
    /\ proc[p].pc \in Opening => lock = p
    /\ proc[p].pc \in {"check", "top", "write"} => proc[p].added
    /\ proc[p].added => Migrated
    /\ proc[p].pc \in {"top", "write"} => mark = 0
    /\ proc[p].pc = "write" =>
         /\ 1 <= proc[p].top /\ proc[p].top <= Len(rows) + 1
         /\ \A i \in proc[p].top..Len(rows) : rows[i].migrated

MarkInv ==
    /\ \A p \in Procs : OpeningInv(p)
    /\ mark > 0 => mark <= Len(rows) + 1 /\ Migrated
    /\ \A i \in 1..Len(rows) : rows[i].marked => mark > 0
    /\ WatermarkSeparates

(* A row says of the mark and of the columns what holds when it is written.*)
LEMMA InsertKeepsMark ==
    ASSUME TypeOK, MarkInv, NEW r \in Row, Insert(r),
           r.marked = (mark # 0), r.migrated = Migrated,
           UNCHANGED <<columns, mark, lock, proc>>
    PROVE  MarkInv'
<1>1. /\ Len(rows') = Len(rows) + 1
      /\ \A i \in 1..Len(rows) : rows'[i] = rows[i]
      /\ rows'[Len(rows) + 1] = r
      /\ Len(rows) \in Nat /\ mark \in Nat
  BY LedgerAssumption DEF TypeOK, Insert
<1>2. \A i \in 1..Len(rows') : i \in 1..Len(rows) \/ i = Len(rows) + 1
  BY <1>1
<1>3. ASSUME NEW p \in Procs PROVE OpeningInv(p)'
  <2>1. OpeningInv(p) /\ proc[p].top \in Int
    BY DEF MarkInv, TypeOK, Process
  <2>2. CASE proc[p].pc = "write"
    <3>1. \A i \in proc[p].top..Len(rows') : rows'[i].migrated
      BY <1>1, <1>2, <2>1, <2>2 DEF OpeningInv
    <3> QED
      BY <1>1, <2>1, <2>2, <3>1 DEF OpeningInv, Migrated
  <2>3. CASE proc[p].pc # "write"
    BY <2>1, <2>3 DEF OpeningInv, Migrated
  <2> QED
    BY <2>2, <2>3
<1>4. mark > 0 => mark <= Len(rows') + 1 /\ Migrated'
  BY <1>1 DEF MarkInv, Migrated
<1>5. \A i \in 1..Len(rows') : rows'[i].marked => mark > 0
  <2>1. r.marked => mark # 0
    OBVIOUS
  <2>2. mark # 0 => mark > 0
    BY <1>1
  <2> QED
    BY <1>1, <1>2, <2>1, <2>2 DEF MarkInv
<1>6. WatermarkSeparates'
  BY <1>1, <1>2 DEF MarkInv, WatermarkSeparates
<1> QED
  BY <1>3, <1>4, <1>5, <1>6 DEF MarkInv

(* The end of an Open gives the lock back and leaves nothing to check.     *)
LEMMA OpenedKeepsMark ==
    ASSUME TypeOK, MarkInv, NEW p \in Procs, NEW view, proc[p].pc \in Opening,
           Opened(p, view), UNCHANGED table
    PROVE  MarkInv'
<1>1. ASSUME NEW q \in Procs, q # p PROVE proc'[q] = proc[q] /\ proc[q].pc \notin Opening
  BY <1>1 DEF Opened, MarkInv, OpeningInv, TypeOK
<1>2. proc'[p] = [pc |-> "serve", view |-> IF p \in Servers THEN view ELSE {},
                  next |-> 1, added |-> FALSE, top |-> 0]
  BY DEF Opened, TypeOK
<1>3. ASSUME NEW q \in Procs PROVE OpeningInv(q)'
  <2>1. CASE q = p
    BY <1>2, <2>1 DEF OpeningInv, Opening
  <2>2. CASE q # p
    BY <1>1, <2>2 DEF MarkInv, OpeningInv, Opening, Migrated, table
  <2> QED
    BY <2>1, <2>2
<1> QED
  BY <1>3 DEF MarkInv, WatermarkSeparates, Migrated, table

(* A step of an Open that keeps the table leaves the others alone.         *)
LEMMA ProcKeepsMark ==
    ASSUME TypeOK, MarkInv, NEW p \in Procs, UNCHANGED <<lock, table>>, OpeningInv(p)',
           \A q \in Procs : q # p => proc'[q] = proc[q]
    PROVE  MarkInv'
<1>1. ASSUME NEW q \in Procs PROVE OpeningInv(q)'
  BY DEF MarkInv, OpeningInv, Migrated, table, TypeOK
<1> QED
  BY <1>1 DEF MarkInv, WatermarkSeparates, Migrated, table

LEMMA MarkStep == TypeOK /\ MarkInv /\ [Next]_vars => MarkInv'
<1> SUFFICES ASSUME TypeOK, MarkInv, [Next]_vars PROVE MarkInv'
  OBVIOUS
<1>1. CASE OldServerAppends
  <2>1. NewRow("ctr_fetch", {}, Null, Null, Null) \in Row
    BY NewRowIsRow
  <2> QED
    BY <1>1, <2>1, InsertKeepsMark DEF OldServerAppends, NewRow, Migrated
<1>2. ASSUME NEW p \in Procs, LedgerAppendContext(p) PROVE MarkInv'
  <2>1. NewRow("other", {}, Null, Null, Null) \in Row
    BY NewRowIsRow
  <2> QED
    BY <1>2, <2>1, InsertKeepsMark DEF LedgerAppendContext, NewRow, Migrated
<1>3. CASE UNCHANGED <<table, lock, proc>>
  BY <1>3 DEF MarkInv, OpeningInv, WatermarkSeparates, Migrated, table
<1>4. ASSUME NEW p \in Servers, LedgerAppendFetch(p) PROVE MarkInv'
  <2> DEFINE r == FetchRow(fetch[p], Named(proc[p].view))
  <2>1. r \in Row /\ r.marked = (mark # 0) /\ r.migrated = Migrated
    BY FetchRowIsRow DEF TypeOK, FetchRow, NewRow, Migrated
  <2> QED
    BY <1>3, <1>4, <2>1, InsertKeepsMark DEF LedgerAppendFetch, table
<1>5. ASSUME NEW p \in Procs, OpenLedger(p) PROVE MarkInv'
  <2>1. ASSUME NEW q \in Procs PROVE OpeningInv(q)'
    <3>1. OpeningInv(q) /\ proc[q] \in Process
      BY DEF MarkInv, TypeOK
    <3>2. CASE q = p
      BY <1>5, <3>1, <3>2 DEF OpenLedger, OpeningInv, Migrated, TypeOK, Opening
    <3>3. CASE q # p
      BY <1>5, <3>1, <3>3, LedgerAssumption DEF OpenLedger, OpeningInv, Migrated, TypeOK, Opening
    <3> QED
      BY <3>2, <3>3
  <2> QED
    BY <1>5, <2>1 DEF OpenLedger, MarkInv, WatermarkSeparates, Migrated
<1>6. ASSUME NEW p \in Procs, ReadColumns(p) PROVE MarkInv'
  <2>1. CASE Opened(p, {})
    BY <1>6, <2>1, OpenedKeepsMark DEF ReadColumns, Opening
  <2>2. CASE proc' = [proc EXCEPT ![p].pc = "alter", ![p].view = columns] /\ UNCHANGED lock
    <3>1. OpeningInv(p) /\ UNCHANGED <<lock, table>>
      BY <1>6, <2>2 DEF ReadColumns, MarkInv
    <3>2. proc'[p].pc = "alter" /\ proc'[p].added = proc[p].added /\ \A q \in Procs : q # p => proc'[q] = proc[q]
      BY <2>2 DEF TypeOK, Process
    <3>3. OpeningInv(p)'
      BY <1>6, <3>1, <3>2 DEF ReadColumns, OpeningInv, Opening, Migrated, table
    <3> QED
      BY <3>1, <3>2, <3>3, ProcKeepsMark
  <2> QED
    BY <1>6, <2>1, <2>2 DEF ReadColumns
<1>7. ASSUME NEW p \in Procs, AlterColumn(p) PROVE MarkInv'
  <2> DEFINE c == ledgerFetchColumns[proc[p].next]
  <2>1. c \in FetchColumns
    BY <1>7 DEF AlterColumn, ledgerFetchColumns, FetchColumns, TypeOK, Process
  <2>2. ASSUME NEW q \in Procs PROVE OpeningInv(q)'
    <3>1. OpeningInv(q)
      BY DEF MarkInv
    <3>2. columns \subseteq columns' /\ UNCHANGED <<rows, mark, lock>> /\ proc[p].pc = "alter"
      BY <1>7 DEF AlterColumn
    <3>3. CASE q # p
      <4>1. proc'[q] = proc[q]
        BY <1>7, <3>3 DEF AlterColumn, TypeOK
      <4> QED
        BY <3>1, <3>2, <4>1 DEF OpeningInv, Migrated
    <3>4. CASE q = p
      <4>1. proc[p] \in Process
        BY DEF TypeOK
      <4>2. proc'[p].pc = "alter" /\ (proc'[p].added => proc[p].added \/ c \in columns')
        BY <1>7, <4>1 DEF AlterColumn, TypeOK, Process
      <4> QED
        BY <2>1, <3>1, <3>2, <3>4, <4>2 DEF OpeningInv, Migrated, Opening
    <3> QED
      BY <3>3, <3>4
  <2> QED
    BY <1>7, <2>2 DEF AlterColumn, MarkInv, WatermarkSeparates, Migrated
<1>8. ASSUME NEW p \in Procs, AlterDone(p) PROVE MarkInv'
  <2>1. CASE proc[p].added
    <3>1. OpeningInv(p) /\ UNCHANGED <<lock, table>> /\ proc[p].pc = "alter"
      BY <1>8, <2>1 DEF AlterDone, MarkInv
    <3>2. proc'[p].pc = "check" /\ proc'[p].added = proc[p].added /\ \A q \in Procs : q # p => proc'[q] = proc[q]
      BY <1>8, <2>1 DEF AlterDone, TypeOK, Process
    <3>3. OpeningInv(p)'
      BY <2>1, <3>1, <3>2 DEF OpeningInv, Opening, Migrated, table
    <3> QED
      BY <3>1, <3>2, <3>3, ProcKeepsMark
  <2>2. CASE ~proc[p].added
    BY <1>8, <2>2, OpenedKeepsMark DEF AlterDone, Opening
  <2> QED
    BY <2>1, <2>2
<1>9. ASSUME NEW p \in Procs, CheckMark(p) PROVE MarkInv'
  <2>1. CASE Opened(p, proc[p].view)
    BY <1>9, <2>1, OpenedKeepsMark DEF CheckMark, Opening
  <2>2. CASE mark = 0 /\ proc' = [proc EXCEPT ![p].pc = "top"] /\ UNCHANGED lock
    <3>1. OpeningInv(p) /\ UNCHANGED <<lock, table>> /\ proc[p].pc = "check"
      BY <1>9, <2>2 DEF CheckMark, MarkInv
    <3>2. proc'[p].pc = "top" /\ proc'[p].added = proc[p].added /\ \A q \in Procs : q # p => proc'[q] = proc[q]
      BY <2>2 DEF TypeOK, Process
    <3>3. OpeningInv(p)'
      BY <2>2, <3>1, <3>2 DEF OpeningInv, Opening, Migrated, table
    <3> QED
      BY <3>1, <3>2, <3>3, ProcKeepsMark
  <2> QED
    BY <1>9, <2>1, <2>2 DEF CheckMark
<1>10. ASSUME NEW p \in Procs, ReadTop(p) PROVE MarkInv'
  <2>1. CASE Opened(p, proc[p].view)
    BY <1>10, <2>1, OpenedKeepsMark DEF ReadTop, Opening
  <2>2. CASE proc' = [proc EXCEPT ![p].pc = "write", ![p].top = Len(rows) + 1] /\ UNCHANGED lock
    <3>1. Len(rows) \in Nat
      BY DEF TypeOK
    <3>2. OpeningInv(p)'
      BY <1>10, <2>2, <3>1 DEF ReadTop, MarkInv, OpeningInv, Opening, Migrated, table, TypeOK, Process
    <3>3. UNCHANGED <<lock, table>> /\ \A q \in Procs : q # p => proc'[q] = proc[q]
      BY <1>10, <2>2 DEF ReadTop, TypeOK
    <3> QED
      BY <3>2, <3>3, ProcKeepsMark
  <2> QED
    BY <1>10, <2>1, <2>2 DEF ReadTop
<1>11. ASSUME NEW p \in Procs, WriteMark(p) PROVE MarkInv'
  <2>1. /\ OpeningInv(p) /\ proc[p].pc \in Opening /\ proc[p].pc = "write"
        /\ Len(rows) \in Nat /\ mark \in Nat /\ proc[p].top \in Nat
    BY <1>11 DEF WriteMark, MarkInv, Opening, TypeOK, Process
  <2>2. CASE mark' = mark
    BY <1>11, <2>1, <2>2, OpenedKeepsMark DEF WriteMark, table
  <2>3. CASE mark' = proc[p].top
    <3>1. ASSUME NEW q \in Procs PROVE OpeningInv(q)'
      <4>1. CASE q = p
        BY <1>11, <4>1 DEF WriteMark, Opened, OpeningInv, Opening, TypeOK
      <4>2. CASE q # p
        <5>1. proc'[q] = proc[q] /\ proc[q].pc \notin Opening
          BY <1>11, <2>1, <4>2 DEF WriteMark, Opened, MarkInv, OpeningInv, TypeOK
        <5> QED
          BY <1>11, <5>1 DEF WriteMark, MarkInv, OpeningInv, Opening, Migrated
      <4> QED
        BY <4>1, <4>2
    <3>2. mark = 0 /\ Migrated
      BY <2>1 DEF OpeningInv
    <3>3. \A i \in 1..Len(rows) : ~rows[i].marked
      BY <2>1, <3>2 DEF MarkInv
    <3>4. WatermarkSeparates'
      BY <1>11, <2>1, <2>3, <3>3 DEF WriteMark, OpeningInv, WatermarkSeparates
    <3> QED
      BY <1>11, <2>1, <2>3, <3>1, <3>2, <3>3, <3>4 DEF WriteMark, OpeningInv, MarkInv, Migrated
  <2> QED
    BY <1>11, <2>2, <2>3 DEF WriteMark
<1>12. ASSUME NEW p \in Procs, Crash(p) PROVE MarkInv'
  <2>1. ASSUME NEW q \in Procs PROVE OpeningInv(q)'
    <3>1. CASE q = p
      BY <1>12, <3>1 DEF Crash, Closed, OpeningInv, Opening, TypeOK
    <3>2. CASE q # p
      BY <1>12, <3>2 DEF Crash, MarkInv, OpeningInv, Opening, Migrated, table, TypeOK
    <3> QED
      BY <3>1, <3>2
  <2> QED
    BY <1>12, <2>1 DEF Crash, MarkInv, WatermarkSeparates, Migrated, table
<1>13. ASSUME NEW p \in Servers, NEW a \in Arts, ReadRange(p, a) PROVE MarkInv'
  BY <1>3, <1>13 DEF ReadRange
<1>14. ASSUME NEW p \in Servers, RecordFetchMiss(p) \/ RecordFetchResolve(p) PROVE MarkInv'
  BY <1>3, <1>14 DEF RecordFetchMiss, RecordFetchResolve
<1>15. ASSUME (\E a \in Arts : PurgeContent(a)) \/ UNCHANGED vars PROVE MarkInv'
  BY <1>3, <1>15 DEF PurgeContent, vars
<1> QED
  BY <1>1, <1>2, <1>4, <1>5, <1>6, <1>7, <1>8, <1>9, <1>10, <1>11, <1>12, <1>13, <1>14, <1>15 DEF Next

(* The watermark separates the rows of before the migration from those an  *)
(* older server wrote after it, however often migrateLedger is interrupted *)
(* and run again, for any number of processes and rows.                    *)
THEOREM WatermarkIsRight == Spec => []WatermarkSeparates
<1>1. Init => MarkInv
  BY DEF Init, MarkInv, OpeningInv, WatermarkSeparates, Migrated, Closed, Opening
<1>2. MarkInv => WatermarkSeparates
  BY DEF MarkInv
<1> QED
  BY <1>1, <1>2, MarkStep, LedgerTypeCorrect, PTL DEF Spec

-----------------------------------------------------------------------------
(* FetchLedger implements FetchRecord. *)

(* The age a finished call records is the lag it measured, if that is one. *)
CallInv ==
    \A p \in Servers :
        fetch[p].pc = "append" /\ fetch[p].id # Null =>
            fetch[p].age = IF fetch[p].lag # Null /\ fetch[p].lag >= 0
                           THEN fetch[p].lag ELSE Null

LEMMA CallStep == TypeOK /\ CallInv /\ [Next]_vars => CallInv'
<1> SUFFICES ASSUME TypeOK, CallInv, [Next]_vars PROVE CallInv'
  OBVIOUS
<1>1. CASE UNCHANGED fetch
  BY <1>1 DEF CallInv
<1>2. ASSUME NEW p \in Procs, Crash(p) PROVE CallInv'
  BY <1>2 DEF Crash, CallInv, IdleCall, CallFor
<1>3. ASSUME NEW p \in Servers, NEW a \in Arts, ReadRange(p, a) PROVE CallInv'
  BY <1>3 DEF ReadRange, CallInv, CallFor, TypeOK
<1>4. ASSUME NEW p \in Servers, RecordFetchMiss(p) PROVE CallInv'
  BY <1>4 DEF RecordFetchMiss, CallInv, CallFor, IdleCall, TypeOK
<1>5. ASSUME NEW p \in Servers, RecordFetchResolve(p) PROVE CallInv'
  <2>1. \A q \in Servers : q # p => fetch'[q] = fetch[q]
    BY <1>5 DEF RecordFetchResolve, TypeOK
  <2>2. CASE fetch' = [fetch EXCEPT ![p] = [CallFor("append", fetch[p].asked) EXCEPT !.id = fetch[p].asked]]
    <3>1. fetch'[p].lag = Null /\ fetch'[p].age = Null
      BY <2>2 DEF CallFor, TypeOK
    <3> QED
      BY <2>1, <3>1 DEF CallInv
  <2>3. ASSUME NEW lag \in (-MaxAge)..MaxAge, NEW owned \in BOOLEAN,
               fetch' = [fetch EXCEPT ![p] =
                   [pc |-> "append", asked |-> fetch[p].asked, id |-> fetch[p].asked, lag |-> lag,
                    owned |-> owned, age |-> IF lag >= 0 THEN lag ELSE Null]]
        PROVE  CallInv'
    <3>1. fetch'[p].lag = lag /\ fetch'[p].age = IF lag >= 0 THEN lag ELSE Null
      BY <2>3 DEF TypeOK
    <3>2. lag # Null
      BY LedgerAssumption
    <3> QED
      BY <2>1, <3>1, <3>2 DEF CallInv
  <2> QED
    BY <1>5, <2>2, <2>3 DEF RecordFetchResolve
<1>6. ASSUME NEW p \in Servers, LedgerAppendFetch(p) PROVE CallInv'
  BY <1>6 DEF LedgerAppendFetch, CallInv, CallFor, IdleCall, TypeOK
<1>7. ASSUME NEW p \in Procs,
             \/ OpenLedger(p) \/ ReadColumns(p) \/ AlterColumn(p) \/ AlterDone(p)
             \/ CheckMark(p) \/ ReadTop(p) \/ WriteMark(p) \/ LedgerAppendContext(p)
      PROVE  UNCHANGED fetch
  BY <1>7 DEF OpenLedger, ReadColumns, AlterColumn, AlterDone, CheckMark, ReadTop, WriteMark,
              LedgerAppendContext
<1>8. ASSUME OldServerAppends \/ (\E a \in Arts : PurgeContent(a)) \/ UNCHANGED vars
      PROVE  UNCHANGED fetch
  BY <1>8 DEF OldServerAppends, PurgeContent, vars
<1> QED
  BY <1>1, <1>2, <1>3, <1>4, <1>5, <1>6, <1>7, <1>8 DEF Next

(* What the reader makes of the row LedgerAppendFetch writes, whatever     *)
(* columns the server saw at its Open, is the outcome of the call or less. *)
LEMMA RowUnderstates ==
    ASSUME TypeOK, CallInv, NEW p \in Servers, fetch[p].pc = "append", NEW view
    PROVE  Reading(FetchRow(fetch[p], Named(view))) \in Promise!Understates(Outcome(fetch[p]))
<1> DEFINE f == fetch[p]
           cs == Named(view)
           r == FetchRow(f, cs)
<1>1. /\ f.id \in Arts \cup {Null} /\ f.owned \in BOOLEAN
      /\ f.lag \in Int \cup {Null} /\ f.age \in Int \cup {Null}
      /\ Null \notin Arts /\ Null \notin Int /\ Null \notin BOOLEAN
  BY LedgerAssumption DEF TypeOK, Call, Age
<1>2. /\ r.tool = "ctr_fetch"
      /\ r.artifact_id = IF "artifact_id" \in cs THEN f.id ELSE Null
      /\ r.artifact_age_s = IF "artifact_age_s" \in cs
                            THEN (IF f.id = Null THEN -1 ELSE f.age) ELSE Null
      /\ r.shadow_owned = IF "shadow_owned" \in cs
                          THEN (IF f.id = Null THEN Null ELSE f.owned) ELSE Null
  BY DEF FetchRow, NewRow
<1>3. \/ cs = {}
      \/ "artifact_id" \in cs /\ "artifact_age_s" \in cs
  BY DEF Named, FetchColumns
<1>4. CASE cs = {}
  BY <1>2, <1>4 DEF Reading, IsFetch, InAgeBasis, IsResolved, IsMissed, Promise!Understates,
                    Promise!Legacy
<1>5. CASE "artifact_id" \in cs /\ "artifact_age_s" \in cs /\ f.id = Null
  <2>1. -1 # Null
    BY <1>1
  <2>2. Reading(r) = <<"missed">>
    BY <1>2, <1>5, <2>1 DEF Reading, IsFetch, InAgeBasis, IsResolved, IsMissed
  <2>3. Outcome(f) = <<"missed">>
    BY <1>5 DEF Outcome
  <2> QED
    BY <2>2, <2>3 DEF Promise!Understates
<1>6. CASE "artifact_id" \in cs /\ "artifact_age_s" \in cs /\ f.id # Null
  <2>1. f.age = IF f.lag # Null /\ f.lag >= 0 THEN f.lag ELSE Null
    BY <1>6 DEF CallInv
  <2>2. r.artifact_id = f.id /\ r.artifact_age_s = f.age
    BY <1>2, <1>6
  <2>3. CASE InAgeBasis(r)
    <3>1. f.owned /\ f.age # Null
      BY <1>1, <1>2, <1>6, <2>2, <2>3 DEF InAgeBasis
    <3>2. f.lag # Null /\ f.lag >= 0 /\ f.age = f.lag
      BY <2>1, <3>1
    <3>3. Reading(r) = <<"shadow", f.id, f.lag>>
      BY <1>2, <2>2, <2>3, <3>2 DEF Reading, IsFetch
    <3>4. Outcome(f) = <<"shadow", f.id, f.lag>>
      BY <1>6, <3>1, <3>2 DEF Outcome
    <3> QED
      BY <3>3, <3>4 DEF Promise!Understates
  <2>4. CASE ~InAgeBasis(r)
    <3>1. Reading(r) = <<"resolved", f.id>>
      BY <1>2, <1>6, <2>2, <2>4 DEF Reading, IsFetch, IsResolved
    <3>2. CASE f.owned /\ f.lag # Null /\ f.lag >= 0
      <4>1. Outcome(f) = <<"shadow", f.id, f.lag>>
        BY <1>6, <3>2 DEF Outcome
      <4> QED
        BY <3>1, <4>1 DEF Promise!Understates, Promise!Resolved
    <3>3. CASE ~(f.owned /\ f.lag # Null /\ f.lag >= 0)
      <4>1. Outcome(f) = <<"resolved", f.id>>
        BY <1>6, <3>3 DEF Outcome
      <4> QED
        BY <3>1, <4>1 DEF Promise!Understates
    <3> QED
      BY <3>2, <3>3
  <2> QED
    BY <2>3, <2>4
<1> QED
  BY <1>3, <1>4, <1>5, <1>6

(* The log and the pending outcomes FetchRecord sees.                      *)
Log     == [i \in 1..Len(rows) |-> Reading(rows[i])]
Pending == [p \in Servers |-> Outcome(fetch[p])]

(* A row more is a reading more; the earlier ones stay, since no column is *)
(* ever dropped or filled in.                                              *)
LEMMA InsertAppends ==
    ASSUME TypeOK, NEW r \in Row, Insert(r)
    PROVE  Log' = Append(Log, Reading(r))
<1> DEFINE S == {Reading(x) : x \in Row}
           n == Len(rows)
<1>1. /\ n \in Nat /\ Len(rows') = n + 1 /\ rows'[n + 1] = r
      /\ \A i \in 1..n : rows'[i] = rows[i] /\ rows[i] \in Row
  BY DEF TypeOK, Insert
<1>2. Log \in Seq(S) /\ Len(Log) = n
  <2> HIDE DEF S
  <2>1. \A i \in 1..n : Reading(rows[i]) \in S
    BY <1>1 DEF S
  <2>2. Log \in [1..n -> S]
    BY <2>1 DEF Log
  <2>3. Log \in Seq(S)
    BY <1>1, <2>2, SeqDef
  <2> QED
    BY <1>1, <2>2, <2>3, LenProperties DEF Log
<1>3. Log' = [i \in 1..(n + 1) |-> Reading(rows'[i])]
  BY <1>1 DEF Log
<1>4. Append(Log, Reading(r)) \in Seq(S) /\ Reading(r) \in S
  BY <1>2
<1>5. Len(Append(Log, Reading(r))) = n + 1
  BY <1>1, <1>2, <1>4, AppendProperties
<1>6. \A i \in 1..(n + 1) : Append(Log, Reading(r))[i] = IF i = n + 1 THEN Reading(r) ELSE Log[i]
  BY <1>1, <1>2, <1>4, AppendProperties
<1> DEFINE new == Append(Log, Reading(r))
<1>7. DOMAIN new = 1..(n + 1) /\ new = [i \in DOMAIN new |-> new[i]]
  <2> HIDE DEF S
  <2>1. new \in [1..Len(new) -> S]
    BY <1>4, LenProperties
  <2> QED
    BY <1>5, <2>1
<1>8. \A i \in 1..(n + 1) : new[i] = Reading(rows'[i])
  <2>1. \A i \in 1..n : Log[i] = Reading(rows'[i])
    BY <1>1 DEF Log
  <2>2. \A i \in 1..(n + 1) : i = n + 1 \/ i \in 1..n
    BY <1>1
  <2>3. \A i \in 1..n : i # n + 1
    BY <1>1
  <2> HIDE DEF new
  <2>4. new[n + 1] = Reading(rows'[n + 1])
    <3>1. n + 1 \in 1..(n + 1)
      BY <1>1
    <3> QED
      BY <1>1, <1>6, <3>1 DEF new
  <2>5. \A i \in 1..n : new[i] = Log[i]
    <3>1. \A i \in 1..n : i \in 1..(n + 1)
      BY <1>1
    <3>2. \A i \in 1..(n + 1) : new[i] = IF i = n + 1 THEN Reading(r) ELSE Log[i]
      BY <1>6 DEF new
    <3> HIDE DEF n
    <3> QED
      BY <2>3, <3>1, <3>2
  <2> QED
    BY <2>1, <2>2, <2>4, <2>5
<1> HIDE DEF new
<1>9. Log' = new
  BY <1>3, <1>7, <1>8
<1> QED
  BY <1>9 DEF new

(* A step that writes no row and changes no outcome is a stutter.          *)
LEMMA SameRowsAndOutcomes ==
    ASSUME UNCHANGED rows, \A p \in Servers : Outcome(fetch[p])' = Outcome(fetch[p])
    PROVE  UNCHANGED <<Log, Pending>>
BY DEF Log, Pending

(* A step of one call changes the outcome of that call only.               *)
LEMMA OneOutcomeChanges ==
    ASSUME TypeOK, NEW p \in Servers, NEW f, fetch' = [fetch EXCEPT ![p] = f]
    PROVE  Pending' = [Pending EXCEPT ![p] = Outcome(f)]
<1>1. \A q \in Servers : fetch'[q] = IF q = p THEN f ELSE fetch[q]
  BY DEF TypeOK
<1>2. Pending' = [q \in Servers |-> Outcome(fetch[q])'] /\ Pending = [q \in Servers |-> Outcome(fetch[q])]
  BY DEF Pending
<1>3. ASSUME NEW q \in Servers
      PROVE  Outcome(fetch[q])' = IF q = p THEN Outcome(f) ELSE Outcome(fetch[q])
  BY <1>1, <1>3 DEF Outcome
<1>4. Pending' = [q \in Servers |-> IF q = p THEN Outcome(f) ELSE Pending[q]]
  BY <1>2, <1>3
<1>5. DOMAIN Pending = Servers
  BY <1>2
<1> QED
  BY <1>2, <1>4, <1>5

LEMMA IdleOutcome == \A f : f.pc # "append" => Outcome(f) = Promise!Nothing
BY DEF Outcome, Promise!Nothing

(* Every step of the ledger is a step of FetchRecord or changes nothing it *)
(* sees: calls learn, record or lose their outcomes, other tools and older *)
(* binaries record blindly, and migrations are invisible.                  *)
LEMMA RefinementStep ==
    TypeOK /\ CallInv /\ [Next]_vars => Promise!Next \/ UNCHANGED <<Log, Pending>>
<1> SUFFICES ASSUME TypeOK, CallInv, [Next]_vars
             PROVE  Promise!Next \/ UNCHANGED <<Log, Pending>>
  OBVIOUS
<1>a. \A p \in Servers : Pending[p] = Outcome(fetch[p])
  BY DEF Pending
<1>b. Outcome(IdleCall) = Promise!Nothing
  BY IdleOutcome DEF IdleCall, CallFor
<1>1. ASSUME UNCHANGED <<rows, fetch>> PROVE UNCHANGED <<Log, Pending>>
  BY <1>1 DEF Log, Pending
<1>2. ASSUME NEW r \in {NewRow("ctr_fetch", {}, Null, Null, Null), NewRow("other", {}, Null, Null, Null)},
             Insert(r), UNCHANGED fetch
      PROVE  Promise!Next
  <2>1. r \in Row
    BY <1>2, NewRowIsRow
  <2>2. Log' = Append(Log, Reading(r)) /\ UNCHANGED Pending
    BY <1>2, <2>1, InsertAppends DEF Pending
  <2>3. Reading(r) \in {Promise!Legacy, Promise!Other}
    BY DEF NewRow, Reading, IsFetch, InAgeBasis, IsResolved, IsMissed, Promise!Legacy, Promise!Other
  <2> QED
    BY <2>2, <2>3 DEF Promise!Next, Promise!RecordBlind, Log, Pending
<1>3. CASE OldServerAppends
  BY <1>2, <1>3 DEF OldServerAppends
<1>4. ASSUME NEW p \in Procs, LedgerAppendContext(p) PROVE Promise!Next
  BY <1>2, <1>4 DEF LedgerAppendContext
<1>5. ASSUME NEW p \in Procs,
             \/ OpenLedger(p) \/ ReadColumns(p) \/ AlterColumn(p) \/ AlterDone(p)
             \/ CheckMark(p) \/ ReadTop(p) \/ WriteMark(p)
      PROVE  UNCHANGED <<rows, fetch>>
  BY <1>5 DEF OpenLedger, ReadColumns, AlterColumn, AlterDone, CheckMark, ReadTop, WriteMark, table
<1>6. ASSUME (\E a \in Arts : PurgeContent(a)) \/ UNCHANGED vars
      PROVE  UNCHANGED <<rows, fetch>>
  BY <1>6 DEF PurgeContent, vars, table
<1>7. ASSUME NEW p \in Servers, UNCHANGED rows, fetch' = [fetch EXCEPT ![p] = IdleCall]
      PROVE  Promise!Next
  <2>1. Pending' = [Pending EXCEPT ![p] = Outcome(IdleCall)] /\ UNCHANGED Log
    BY <1>7, OneOutcomeChanges DEF Log
  <2> QED
    BY <2>1, <1>b DEF Promise!Next, Promise!Forget, Log, Pending
<1>8. ASSUME NEW p \in Procs, Crash(p) PROVE Promise!Next \/ UNCHANGED <<Log, Pending>>
  <2>1. CASE p \in Servers
    <3>1. UNCHANGED rows /\ fetch' = [fetch EXCEPT ![p] = IdleCall]
      BY <1>8, <2>1 DEF Crash, table, TypeOK
    <3> QED
      BY <1>7, <2>1, <3>1
  <2>2. CASE p \notin Servers
    <3>1. UNCHANGED <<rows, fetch>>
      BY <1>8, <2>2 DEF Crash, table, TypeOK
    <3> QED
      BY <1>1, <3>1
  <2> QED
    BY <2>1, <2>2
<1>9. ASSUME NEW p \in Servers, NEW f \in Call, UNCHANGED rows,
             fetch' = [fetch EXCEPT ![p] = f], fetch[p].pc # "append"
      PROVE  Promise!Next \/ UNCHANGED <<Log, Pending>>
  <2>1. Pending' = [Pending EXCEPT ![p] = Outcome(f)] /\ UNCHANGED Log
    BY <1>9, OneOutcomeChanges DEF Log
  <2>2. Pending[p] = Promise!Nothing
    BY <1>9, <1>a, IdleOutcome
  <2>3. CASE f.pc # "append"
    <3>1. UNCHANGED Pending
      BY <2>1, <2>2, <2>3, IdleOutcome DEF Pending
    <3> QED
      BY <2>1, <3>1
  <2>4. CASE f.pc = "append"
    <3>1. Outcome(f) \in Promise!Outcomes
      <4>1. CASE f.id = Null
        BY <2>4, <4>1 DEF Outcome, Promise!Outcomes, Promise!Missed
      <4>2. CASE f.id # Null
        <5>1. f.id \in Arts
          BY <4>2 DEF Call
        <5>2. CASE f.owned /\ f.lag # Null /\ f.lag >= 0
          <6>1. f.lag \in 0..MaxAge
            BY <5>2, LedgerAssumption DEF Call
          <6>2. Outcome(f) = Promise!Shadow(f.id, f.lag)
            BY <2>4, <4>2, <5>2 DEF Outcome, Promise!Shadow
          <6> QED
            BY <5>1, <6>1, <6>2 DEF Promise!Outcomes
        <5>3. CASE ~(f.owned /\ f.lag # Null /\ f.lag >= 0)
          <6>1. Outcome(f) = Promise!Resolved(f.id)
            BY <2>4, <4>2, <5>3 DEF Outcome, Promise!Resolved
          <6> QED
            BY <5>1, <6>1 DEF Promise!Outcomes
        <5> QED
          BY <5>2, <5>3
      <4> QED
        BY <4>1, <4>2
    <3>2. Promise!Learn(p)
      BY <2>1, <2>2, <3>1 DEF Promise!Learn, Log, Pending
    <3> QED
      BY <3>2 DEF Promise!Next
  <2> QED
    BY <2>3, <2>4
<1>10. ASSUME NEW p \in Servers, NEW a \in Arts, ReadRange(p, a)
       PROVE  Promise!Next \/ UNCHANGED <<Log, Pending>>
  <2>1. PICK k \in {"age", "miss"} : fetch' = [fetch EXCEPT ![p] = CallFor(k, a)]
    BY <1>10 DEF ReadRange
  <2> QED
    BY <1>9, <1>10, <2>1, CallForIsCall DEF ReadRange, table
<1>11. ASSUME NEW p \in Servers, RecordFetchMiss(p)
       PROVE  Promise!Next \/ UNCHANGED <<Log, Pending>>
  <2>1. fetch[p].asked \in Arts
    BY DEF TypeOK, Call
  <2>2. PICK f \in Call : fetch' = [fetch EXCEPT ![p] = f]
    BY <1>11, <2>1, CallForIsCall, IdleIsCall DEF RecordFetchMiss
  <2> QED
    BY <1>9, <1>11, <2>2 DEF RecordFetchMiss, table
<1>12. ASSUME NEW p \in Servers, RecordFetchResolve(p)
       PROVE  Promise!Next \/ UNCHANGED <<Log, Pending>>
  <2>1. fetch[p].asked \in Arts
    BY DEF TypeOK, Call
  <2>2. [CallFor("append", fetch[p].asked) EXCEPT !.id = fetch[p].asked] \in Call
    BY <2>1 DEF CallFor, Call
  <2>3. ASSUME NEW lag \in (-MaxAge)..MaxAge, NEW owned \in BOOLEAN
        PROVE  [pc |-> "append", asked |-> fetch[p].asked, id |-> fetch[p].asked, lag |-> lag,
                owned |-> owned, age |-> IF lag >= 0 THEN lag ELSE Null] \in Call
    BY <2>1, LedgerAssumption DEF Call, Age
  <2>4. PICK f \in Call : fetch' = [fetch EXCEPT ![p] = f]
    BY <1>12, <2>2, <2>3 DEF RecordFetchResolve
  <2> QED
    BY <1>9, <1>12, <2>4 DEF RecordFetchResolve, table
<1>13. ASSUME NEW p \in Servers, LedgerAppendFetch(p) PROVE Promise!Next
  <2> DEFINE r == FetchRow(fetch[p], Named(proc[p].view))
  <2>1. CASE UNCHANGED rows
    BY <1>7, <1>13, <2>1 DEF LedgerAppendFetch
  <2>2. CASE Insert(r)
    <3>1. r \in Row
      BY FetchRowIsRow DEF TypeOK
    <3>2. Log' = Append(Log, Reading(r))
      BY <2>2, <3>1, InsertAppends
    <3>3. Pending' = [Pending EXCEPT ![p] = Promise!Nothing]
      BY <1>13, <1>b, OneOutcomeChanges DEF LedgerAppendFetch
    <3>4. Reading(r) \in Promise!Understates(Pending[p])
      BY <1>13, <1>a, RowUnderstates DEF LedgerAppendFetch
    <3>5. Pending[p] # Promise!Nothing
      <4>1. fetch[p].pc = "append"
        BY <1>13 DEF LedgerAppendFetch
      <4>2. Outcome(fetch[p]) # <<"nothing">>
        BY <4>1 DEF Outcome
      <4> QED
        BY <1>a, <4>2 DEF Promise!Nothing
    <3>6. Promise!Record(p)
      BY <3>2, <3>3, <3>4, <3>5 DEF Promise!Record, Log, Pending
    <3> QED
      BY <3>6 DEF Promise!Next
  <2> QED
    BY <1>13, <2>1, <2>2 DEF LedgerAppendFetch
<1> QED
  BY <1>1, <1>3, <1>4, <1>5, <1>6, <1>8, <1>10, <1>11, <1>12, <1>13 DEF Next

(* The ledger implements FetchRecord: what LedgerFetchStats makes of the   *)
(* rows is a log in which every finished call of ctr_fetch has its outcome *)
(* or less, once or not at all, and in which nothing ever changes, for any *)
(* number of servers and through any partial migration.                    *)
THEOREM LedgerKeepsItsPromise == Spec => ReadsBackTheOutcome
<1>1. Init => Promise!Init
  <2>1. IdleCall.pc # "append"
    BY DEF IdleCall, CallFor
  <2> SUFFICES ASSUME Init PROVE Promise!Init
    OBVIOUS
  <2>2. \A p \in Servers : Outcome(fetch[p]) = Promise!Nothing
    BY <2>1, IdleOutcome DEF Init
  <2>3. [i \in 1..Len(rows) |-> Reading(rows[i])] = <<>>
    BY DEF Init
  <2> QED
    BY <2>2, <2>3 DEF Promise!Init
<1>2. Init => CallInv
  BY DEF Init, CallInv, IdleCall, CallFor
<1>3. TypeOK /\ CallInv /\ [Next]_vars => [Promise!Next]_(Promise!vars)
  BY RefinementStep DEF Promise!vars, Log, Pending
<1> QED
  BY <1>1, <1>2, <1>3, CallStep, LedgerTypeCorrect, PTL DEF Spec, ReadsBackTheOutcome, Promise!Spec

-----------------------------------------------------------------------------
(* The numbers of LedgerFetchStats. *)

(* A set of natural numbers that is not empty has a least element.         *)
LEMMA LeastNumber ==
    ASSUME NEW T, T \subseteq Nat, T # {}
    PROVE  \E m \in T : \A k \in T : m <= k
<1> DEFINE R == OpToRel(<, Nat)
<1>1. IsWellFoundedOn(R, Nat)
  BY NatLessThanWellFounded
<1>2. R = {ss \in Nat \X Nat : ss[1] < ss[2]}
  BY DEF OpToRel
<1> HIDE DEF R
<1>3. PICK x \in T : \A y \in T : ~(<<y, x>> \in R)
  BY <1>1, WFMin
<1>4. \A y \in T : ~(y < x)
  BY <1>3, <1>2
<1> QED
  BY <1>4

(* So has one that is bounded a greatest: what Max returns.                *)
LEMMA MaxOfBounded ==
    ASSUME NEW b \in Nat, NEW T, T \subseteq 0..b, T # {}
    PROVE  Max(T) \in T /\ \A x \in T : Max(T) >= x
<1> DEFINE U == {b - x : x \in T}
<1>1. U \subseteq Nat /\ U # {}
  <2>1. PICK z : z \in T
    OBVIOUS
  <2>2. b - z \in U
    BY <2>1
  <2> QED
    BY <2>2
<1>2. PICK m \in U : \A k \in U : m <= k
  BY <1>1, LeastNumber
<1>3. PICK x \in T : m = b - x
  OBVIOUS
<1>4. \A y \in T : x >= y
  <2>1. TAKE y \in T
  <2>2. m <= b - y
    BY <1>2
  <2> QED
    BY <1>3, <2>2
<1>5. \E z \in T : \A y \in T : z >= y
  BY <1>4
<1> HIDE DEF U
<1> QED
  BY <1>5 DEF Max

(* The artifacts whose oldest fetch is not after an age, or before it.     *)
AtMost(x) == {a \in Artifacts : OldestFetch(a) <= x}
Below(x)  == {a \in Artifacts : OldestFetch(a) < x}

(* The statement that reads the k-th age finds one: the first age at which *)
(* more than k artifacts are counted.                                      *)
LEMMA QuantileExists ==
    ASSUME IsFiniteSet(Artifacts), NEW b \in Nat,
           \A a \in Artifacts : OldestFetch(a) \in 0..b,
           NEW k \in Nat, k < Cardinality(Artifacts)
    PROVE  /\ AgeAt(k) \in 0..b
           /\ Cardinality(Below(AgeAt(k))) <= k
           /\ Cardinality(AtMost(AgeAt(k))) > k
<1> DEFINE T == {x \in Nat : Cardinality(AtMost(x)) > k}
<1>1. \A x : AtMost(x) \in SUBSET Artifacts /\ Below(x) \in SUBSET Artifacts
  BY DEF AtMost, Below
<1>2. \A x : Cardinality(AtMost(x)) \in Nat /\ Cardinality(Below(x)) \in Nat
  BY <1>1, FS_Subset, FS_CardinalityType
<1>3. AtMost(b) = Artifacts
  BY DEF AtMost
<1>4. T # {} /\ T \subseteq Nat
  BY <1>3
<1>5. PICK m \in T : \A x \in T : m <= x
  BY <1>4, LeastNumber
<1>6. Cardinality(Below(m)) <= k
  <2>1. CASE m = 0
    <3>1. Below(0) = {}
      BY DEF Below
    <3> QED
      BY <2>1, <3>1, FS_EmptySet
  <2>2. CASE m # 0
    <3>1. m - 1 \in Nat /\ m - 1 \notin T
      BY <1>5, <2>2
    <3>2. Below(m) = AtMost(m - 1)
      BY DEF Below, AtMost
    <3> QED
      BY <1>2, <3>1, <3>2
  <2> QED
    BY <2>1, <2>2
<1>7. \E a \in Artifacts : OldestFetch(a) = m
  <2> SUFFICES ASSUME \A a \in Artifacts : OldestFetch(a) # m PROVE FALSE
    OBVIOUS
  <2>1. AtMost(m) = Below(m)
    BY DEF AtMost, Below
  <2> QED
    BY <2>1, <1>6, <1>2
<1>8. \E age \in {OldestFetch(a) : a \in Artifacts} :
          Cardinality(Below(age)) <= k /\ Cardinality(AtMost(age)) > k
  BY <1>6, <1>7
<1>9. AgeAt(k) = CHOOSE age \in {OldestFetch(a) : a \in Artifacts} :
          Cardinality(Below(age)) <= k /\ Cardinality(AtMost(age)) > k
  BY DEF AgeAt, Below, AtMost
<1>10. /\ AgeAt(k) \in {OldestFetch(a) : a \in Artifacts}
       /\ Cardinality(Below(AgeAt(k))) <= k /\ Cardinality(AtMost(AgeAt(k))) > k
  BY <1>8, <1>9
<1> QED
  BY <1>10

(* A later row of the same statement is no younger.                        *)
LEMMA QuantilesAreOrdered ==
    ASSUME IsFiniteSet(Artifacts), NEW b \in Nat,
           \A a \in Artifacts : OldestFetch(a) \in 0..b,
           NEW k \in Nat, NEW l \in Nat, k <= l, l < Cardinality(Artifacts)
    PROVE  AgeAt(k) <= AgeAt(l)
<1>1. k < Cardinality(Artifacts) /\ Cardinality(Artifacts) \in Nat
  BY FS_CardinalityType
<1>2. /\ AgeAt(k) \in 0..b /\ Cardinality(Below(AgeAt(k))) <= k
      /\ AgeAt(l) \in 0..b /\ Cardinality(AtMost(AgeAt(l))) > l
  BY <1>1, QuantileExists
<1> SUFFICES ASSUME AgeAt(l) < AgeAt(k) PROVE FALSE
  BY <1>2
<1>3. AtMost(AgeAt(l)) \in SUBSET Below(AgeAt(k))
  BY <1>2 DEF AtMost, Below
<1>4. Below(AgeAt(k)) \in SUBSET Artifacts
  BY DEF Below
<1>5. IsFiniteSet(Below(AgeAt(k)))
  BY <1>4, FS_Subset
<1>6. Cardinality(AtMost(AgeAt(l))) <= Cardinality(Below(AgeAt(k)))
  BY <1>3, <1>5, FS_Subset
<1>7. Cardinality(AtMost(AgeAt(l))) \in Nat /\ Cardinality(Below(AgeAt(k))) \in Nat
  BY <1>3, <1>5, FS_Subset, FS_CardinalityType
<1> QED
  BY <1>2, <1>6, <1>7

(* An age in the basis of the quantiles is one: what LedgerAppendFetch     *)
(* records with an artifact id is never the -1 of a miss.                  *)
AgesKnown ==
    \A i \in 1..Len(rows) : InAgeBasis(rows[i]) => rows[i].artifact_age_s \in 0..MaxAge

LEMMA InsertKeepsAges ==
    ASSUME TypeOK, AgesKnown, NEW r \in Row, InAgeBasis(r) => r.artifact_age_s \in 0..MaxAge, Insert(r)
    PROVE  AgesKnown'
<1>1. /\ Len(rows) \in Nat /\ Len(rows') = Len(rows) + 1 /\ rows'[Len(rows) + 1] = r
      /\ \A i \in 1..Len(rows) : rows'[i] = rows[i]
  BY DEF TypeOK, Insert
<1> SUFFICES ASSUME NEW i \in 1..Len(rows'), InAgeBasis(rows'[i])
             PROVE  rows'[i].artifact_age_s \in 0..MaxAge
  BY DEF AgesKnown, InAgeBasis, IsResolved, IsFetch
<1>2. CASE i = Len(rows) + 1
  BY <1>1, <1>2
<1>3. CASE i # Len(rows) + 1
  BY <1>1, <1>3 DEF AgesKnown
<1> QED
  BY <1>2, <1>3

LEMMA AgesStep == TypeOK /\ CallInv /\ AgesKnown /\ [Next]_vars => AgesKnown'
<1> SUFFICES ASSUME TypeOK, CallInv, AgesKnown, [Next]_vars PROVE AgesKnown'
  OBVIOUS
<1>1. CASE UNCHANGED rows
  BY <1>1 DEF AgesKnown
<1>2. ASSUME NEW tool \in {"other", "ctr_fetch"}, Insert(NewRow(tool, {}, Null, Null, Null))
      PROVE  AgesKnown'
  <2>1. NewRow(tool, {}, Null, Null, Null) \in Row
    BY NewRowIsRow
  <2>2. ~InAgeBasis(NewRow(tool, {}, Null, Null, Null))
    BY DEF InAgeBasis, IsResolved, NewRow
  <2> QED
    BY <1>2, <2>1, <2>2, InsertKeepsAges
<1>3. ASSUME NEW p \in Servers, LedgerAppendFetch(p) PROVE AgesKnown'
  <2> DEFINE f == fetch[p]
             cs == Named(proc[p].view)
             r == FetchRow(f, cs)
  <2>1. f \in Call /\ f.pc = "append"
    BY <1>3 DEF LedgerAppendFetch, TypeOK
  <2>2. r \in Row
    BY <2>1, FetchRowIsRow
  <2>3. ASSUME InAgeBasis(r) PROVE r.artifact_age_s \in 0..MaxAge
    <3>1. r.artifact_id # Null /\ r.artifact_age_s # Null
      BY <2>3 DEF InAgeBasis, IsResolved
    <3>2. f.id # Null /\ r.artifact_age_s = f.age
      BY <3>1 DEF FetchRow, NewRow
    <3>3. f.lag # Null /\ f.lag >= 0 /\ f.age = f.lag
      BY <2>1, <3>1, <3>2 DEF CallInv
    <3>4. f.lag \in (-MaxAge)..MaxAge
      BY <2>1, <3>3 DEF Call
    <3> QED
      BY <3>2, <3>3, <3>4, LedgerAssumption
  <2>4. CASE UNCHANGED rows
    BY <1>1, <2>4
  <2>5. CASE Insert(r)
    BY <2>2, <2>3, <2>5, InsertKeepsAges
  <2> QED
    BY <1>3, <2>4, <2>5 DEF LedgerAppendFetch
<1>4. ASSUME NEW p \in Procs,
             \/ OpenLedger(p) \/ ReadColumns(p) \/ AlterColumn(p) \/ AlterDone(p)
             \/ CheckMark(p) \/ ReadTop(p) \/ WriteMark(p) \/ Crash(p)
      PROVE  UNCHANGED rows
  BY <1>4 DEF OpenLedger, ReadColumns, AlterColumn, AlterDone, CheckMark, ReadTop, WriteMark,
              Crash, table
<1>5. ASSUME NEW p \in Servers,
             RecordFetchMiss(p) \/ RecordFetchResolve(p) \/ \E a \in Arts : ReadRange(p, a)
      PROVE  UNCHANGED rows
  BY <1>5 DEF RecordFetchMiss, RecordFetchResolve, ReadRange, table
<1>6. ASSUME (\E a \in Arts : PurgeContent(a)) \/ UNCHANGED vars PROVE UNCHANGED rows
  BY <1>6 DEF PurgeContent, vars, table
<1> QED
  BY <1>1, <1>2, <1>3, <1>4, <1>5, <1>6 DEF Next, OldServerAppends, LedgerAppendContext

(* The artifacts of the age basis: no more than its rows, each with an     *)
(* oldest fetch.                                                           *)
LEMMA AgeBasis ==
    ASSUME TypeOK, AgesKnown
    PROVE  /\ IsFiniteSet(Artifacts)
           /\ Cardinality(Artifacts) <= Cardinality(Ids(InAgeBasis))
           /\ \A a \in Artifacts : OldestFetch(a) \in 0..MaxAge
<1> DEFINE I == Ids(InAgeBasis)
           f == [i \in I |-> rows[i].artifact_id]
<1>1. I \in SUBSET (1..Len(rows)) /\ Len(rows) \in Nat
  BY DEF Ids, TypeOK
<1>2. IsFiniteSet(I)
  <2>1. IsFiniteSet(1..Len(rows))
    BY <1>1, FS_Interval
  <2> HIDE DEF I
  <2> QED
    BY <1>1, <2>1, FS_Subset
<1>3. Artifacts = {f[i] : i \in I}
  BY DEF Artifacts
<1>4. f \in Surjection(I, Artifacts)
  BY <1>3 DEF Surjection
<1>5. ASSUME NEW a \in Artifacts PROVE OldestFetch(a) \in 0..MaxAge
  <2> DEFINE T == {rows[i].artifact_age_s : i \in {j \in I : rows[j].artifact_id = a}}
  <2>1. PICK i \in I : rows[i].artifact_id = a
    BY DEF Artifacts
  <2>2. rows[i].artifact_age_s \in T
    BY <2>1
  <2>3. T \subseteq 0..MaxAge
    BY DEF AgesKnown, Ids
  <2>4. OldestFetch(a) = Max(T)
    BY DEF OldestFetch
  <2> HIDE DEF T
  <2> QED
    BY <2>2, <2>3, <2>4, MaxOfBounded, LedgerAssumption
<1> HIDE DEF I, f
<1>6. IsFiniteSet(Artifacts) /\ Cardinality(Artifacts) <= Cardinality(I)
  BY <1>2, <1>4, FS_Surjection
<1> QED
  BY <1>5, <1>6 DEF I

(* Every ctr_fetch row is resolved, missed or from before the columns, and *)
(* in one of the three only.                                               *)
LEMMA PartsSumToCalls ==
    ASSUME TypeOK
    PROVE  /\ IsFiniteSet(Ids(IsLegacy)) /\ IsFiniteSet(Ids(IsResolved)) /\ IsFiniteSet(Ids(InAgeBasis))
           /\ Cardinality(Ids(IsFetch)) =
                 Cardinality(Ids(IsResolved)) + Cardinality(Ids(IsMissed)) + Cardinality(Ids(IsLegacy))
<1> DEFINE F == Ids(IsFetch)
           R == Ids(IsResolved)
           M == Ids(IsMissed)
           L == Ids(IsLegacy)
<1>1. Len(rows) \in Nat
  BY DEF TypeOK
<1>2. /\ R \in SUBSET (1..Len(rows)) /\ M \in SUBSET (1..Len(rows))
      /\ L \in SUBSET (1..Len(rows)) /\ Ids(InAgeBasis) \in SUBSET (1..Len(rows))
  BY DEF Ids
<1>3. IsFiniteSet(R) /\ IsFiniteSet(M) /\ IsFiniteSet(L) /\ IsFiniteSet(Ids(InAgeBasis))
  <2>1. IsFiniteSet(1..Len(rows))
    BY <1>1, FS_Interval
  <2> HIDE DEF R, M, L
  <2> QED
    BY <1>2, <2>1, FS_Subset
<1>4. F = (R \cup M) \cup L
  BY DEF Ids, IsFetch, IsResolved, IsMissed, IsLegacy
<1>5. R \cap M = {} /\ (R \cup M) \cap L = {}
  BY DEF Ids, IsFetch, IsResolved, IsMissed, IsLegacy
<1> HIDE DEF F, R, M, L
<1>6. IsFiniteSet(R \cup M) /\ Cardinality(R \cup M) = Cardinality(R) + Cardinality(M) - Cardinality({})
  BY <1>3, <1>5, FS_Union
<1>7. Cardinality((R \cup M) \cup L) = Cardinality(R \cup M) + Cardinality(L) - Cardinality({})
  BY <1>3, <1>5, <1>6, FS_Union
<1>8. /\ Cardinality({}) = 0 /\ Cardinality(R) \in Nat /\ Cardinality(M) \in Nat
      /\ Cardinality(L) \in Nat
  BY <1>3, FS_EmptySet, FS_CardinalityType
<1>9. Cardinality(F) = Cardinality(R) + Cardinality(M) + Cardinality(L)
  BY <1>4, <1>6, <1>7, <1>8
<1> QED
  BY <1>3, <1>9 DEF F, R, M, L

LEMMA StatsAgree ==
    ASSUME TypeOK, AgesKnown, NEW cols \in SUBSET columns
    PROVE  LET st == FetchStats(cols) IN
           /\ {"artifact_id", "artifact_age_s"} \subseteq cols =>
                 st.calls = st.resolved + st.missed + st.legacy
           /\ st.late <= st.legacy
           /\ st.artifacts <= st.shadow /\ st.shadow <= st.resolved
           /\ 0 <= st.p50 /\ st.p50 <= st.p90 /\ st.p90 <= st.max
<1> DEFINE st == FetchStats(cols)
           outcomeOK == {"artifact_id", "artifact_age_s"} \subseteq cols
           shadowOK == outcomeOK /\ "shadow_owned" \in cols
           c == Cardinality(Artifacts)
           n == IF shadowOK THEN c ELSE 0
           lateIds == {i \in Ids(IsLegacy) : i >= mark}
<1>1. /\ st.calls = Cardinality(Ids(IsFetch))
      /\ st.resolved = IF outcomeOK THEN Cardinality(Ids(IsResolved)) ELSE 0
      /\ st.missed = IF outcomeOK THEN Cardinality(Ids(IsMissed)) ELSE 0
      /\ st.legacy = IF outcomeOK THEN Cardinality(Ids(IsLegacy)) ELSE 0
      /\ st.late = IF mark = 0 \/ ~outcomeOK THEN 0 ELSE Cardinality(lateIds)
      /\ st.shadow = IF shadowOK THEN Cardinality(Ids(InAgeBasis)) ELSE 0
      /\ st.artifacts = n
      /\ st.p50 = IF n = 0 THEN 0 ELSE AgeAt(((n - 1) * 50) \div 100)
      /\ st.p90 = IF n = 0 THEN 0 ELSE AgeAt(((n - 1) * 90) \div 100)
      /\ st.max = IF n = 0 THEN 0 ELSE AgeAt(n - 1)
  BY DEF FetchStats
<1>2. /\ IsFiniteSet(Ids(IsLegacy)) /\ IsFiniteSet(Ids(IsResolved)) /\ IsFiniteSet(Ids(InAgeBasis))
      /\ Cardinality(Ids(IsFetch)) =
            Cardinality(Ids(IsResolved)) + Cardinality(Ids(IsMissed)) + Cardinality(Ids(IsLegacy))
  BY PartsSumToCalls
<1>3. /\ IsFiniteSet(Artifacts) /\ c <= Cardinality(Ids(InAgeBasis))
      /\ \A a \in Artifacts : OldestFetch(a) \in 0..MaxAge
  BY AgeBasis
<1>4. c \in Nat /\ Cardinality(Ids(IsLegacy)) \in Nat /\ Cardinality(Ids(InAgeBasis)) \in Nat
  BY <1>2, <1>3, FS_CardinalityType
<1>5. Cardinality(lateIds) <= Cardinality(Ids(IsLegacy))
  BY <1>2, FS_Subset
<1>6. Ids(InAgeBasis) \in SUBSET Ids(IsResolved)
  BY DEF Ids, InAgeBasis
<1>7. Cardinality(Ids(InAgeBasis)) <= Cardinality(Ids(IsResolved))
  BY <1>2, <1>6, FS_Subset
<1>8. ASSUME n # 0 PROVE 0 <= st.p50 /\ st.p50 <= st.p90 /\ st.p90 <= st.max
  <2> DEFINE k == ((n - 1) * 50) \div 100
             l == ((n - 1) * 90) \div 100
  <2>1. n = c /\ c \in Nat /\ c > 0
    BY <1>4, <1>8
  <2>2. k \in Nat /\ l \in Nat /\ n - 1 \in Nat /\ k <= l /\ l <= n - 1 /\ n - 1 < c
    BY <2>1
  <2>3. st.p50 = AgeAt(k) /\ st.p90 = AgeAt(l) /\ st.max = AgeAt(n - 1)
    BY <1>1, <1>8
  <2> HIDE DEF k, l, n, c
  <2>4. k < c /\ l < c
    BY <2>1, <2>2
  <2>5. AgeAt(k) \in 0..MaxAge
    BY <1>3, <2>2, <2>4, QuantileExists, LedgerAssumption DEF c
  <2>6. AgeAt(k) <= AgeAt(l)
    BY <1>3, <2>2, <2>4, QuantilesAreOrdered, LedgerAssumption DEF c
  <2>7. AgeAt(l) <= AgeAt(n - 1)
    BY <1>3, <2>2, <2>4, QuantilesAreOrdered, LedgerAssumption DEF c
  <2> QED
    BY <2>3, <2>5, <2>6, <2>7
<1>9. n = 0 => st.p50 = 0 /\ st.p90 = 0 /\ st.max = 0
  BY <1>1
<1>10. /\ outcomeOK => st.calls = st.resolved + st.missed + st.legacy
       /\ st.late <= st.legacy
       /\ st.artifacts <= st.shadow /\ st.shadow <= st.resolved
  <2> HIDE DEF c, lateIds
  <2>1. CASE shadowOK
    BY <1>1, <1>2, <1>3, <1>4, <1>5, <1>7, <2>1
  <2>2. CASE ~shadowOK
    <3>1. 0 <= Cardinality(Ids(IsResolved))
      BY <1>2, FS_CardinalityType
    <3> QED
      BY <1>1, <1>2, <1>4, <1>5, <2>2, <3>1
  <2> QED
    BY <2>1, <2>2
<1> HIDE DEF st, n
<1>11. 0 <= st.p50 /\ st.p50 <= st.p90 /\ st.p90 <= st.max
  BY <1>8, <1>9
<1> QED
  BY <1>10, <1>11 DEF st

(* The numbers of one LedgerFetchStats call agree with each other: for any *)
(* rows and any subset of the columns, the three outcomes sum to the calls,*)
(* late rows are legacy rows, shadow rows resolved ones, and the quantiles *)
(* exist and are ordered.                                                  *)
THEOREM StatsAddUp == Spec => []NumbersAddUp
<1>1. Init => AgesKnown /\ CallInv
  BY DEF Init, AgesKnown, CallInv, IdleCall, CallFor
<1>2. TypeOK /\ AgesKnown => NumbersAddUp
  BY StatsAgree DEF NumbersAddUp
<1> QED
  BY <1>1, <1>2, CallStep, AgesStep, LedgerTypeCorrect, PTL DEF Spec
=============================================================================
