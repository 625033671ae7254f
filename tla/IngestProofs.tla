----------------------------- MODULE IngestProofs -----------------------------
(***************************************************************************)
(* Proofs about Ingest for any number of runs, workers, files and changes.  *)
(***************************************************************************)
EXTENDS Ingest, TLAPS

-----------------------------------------------------------------------------
(* Types. *)

LEMMA SizeType == \A c : Size(c) \in Sizes
  BY DEF Size, Sizes

(* A worker that is busy holds an item, and one that registers has read. *)
Busy(k) ==
    k.at \in {"open", "read", "register"} =>
        k.item \in Item /\ (k.at = "register" => k.raw \in Raw)

BusyInv == \A r \in Runs, w \in Workers : Busy(worker[r][w])

Typed == TypeOK /\ BusyInv

LEMMA IdleType == Idle \in Worker /\ Busy(Idle)
  BY DEF Idle, Worker, Busy

(* Typing the workers one by one is typing them all. *)
LEMMA OneWorker ==
    ASSUME Typed, NEW r \in Runs, NEW w \in Workers, NEW v \in Worker, Busy(v),
           worker' = [worker EXCEPT ![r][w] = v]
    PROVE  worker' \in [Runs -> [Workers -> Worker]] /\ BusyInv'
  BY DEF Typed, TypeOK, BusyInv

(* The same for reports, field by field. *)
LEMMA OneReport ==
    ASSUME TypeOK, NEW r \in Runs
    PROVE  /\ \A e \in {None, "fatal", "cancelled"} :
                 [report EXCEPT ![r].err = e] \in [Runs -> Report]
           /\ \A f \in Files :
                 /\ [report EXCEPT ![r].indexed = @ \cup {f}] \in [Runs -> Report]
                 /\ [report EXCEPT ![r].skipped = @ \cup {f}] \in [Runs -> Report]
           /\ report[r].err \in {None, "fatal", "cancelled"}
  <1>1. report[r] \in Report /\ report \in [Runs -> Report]
    BY DEF TypeOK
  <1>2. \A e \in {None, "fatal", "cancelled"} : [report[r] EXCEPT !.err = e] \in Report
    BY <1>1 DEF Report
  <1>3. \A f \in Files : /\ [report[r] EXCEPT !.indexed = @ \cup {f}] \in Report
                         /\ [report[r] EXCEPT !.skipped = @ \cup {f}] \in Report
    BY <1>1 DEF Report
  <1>4. report[r].err \in {None, "fatal", "cancelled"}
    BY <1>1 DEF Report
  <1> QED BY <1>1, <1>2, <1>3, <1>4

LEMMA TypeInit == Init => Typed
  <1> SUFFICES ASSUME Init PROVE Typed
    OBVIOUS
  <1>1. NoReport \in Report
    BY DEF NoReport, Report
  <1>2. TypeOK
    BY <1>1, IdleType, IngestAssumption DEF Init, TypeOK, Times
  <1>3. BusyInv
    BY IdleType DEF Init, BusyInv
  <1> QED BY <1>2, <1>3 DEF Typed

LEMMA TypeStep == Typed /\ [Next]_vars => Typed'
  <1> SUFFICES ASSUME Typed, [Next]_vars PROVE Typed'
    OBVIOUS
  <1>a. TypeOK /\ BusyInv
    BY DEF Typed
  <1> USE <1>a, IngestAssumption DEF files
  <1>0. ASSUME UNCHANGED worker PROVE BusyInv'
    BY <1>0 DEF BusyInv, Busy
  <1>1. ASSUME NEW f \in Changing, RemoveFile(f) PROVE Typed'
    BY <1>1, <1>0 DEF RemoveFile, Typed, TypeOK
  <1>2. ASSUME NEW f \in Changing, NEW c \in Contents, Write(f, c) PROVE Typed'
    <2>1. \A k \in Worker : /\ [k EXCEPT !.seen = @ \cup {c}] \in Worker
                            /\ Busy(k) => Busy([k EXCEPT !.seen = @ \cup {c}])
      BY DEF Worker, Busy
    <2>2. worker' \in [Runs -> [Workers -> Worker]] /\ BusyInv'
      <3>1. ASSUME NEW r \in Runs, NEW w \in Workers
            PROVE  worker'[r][w] \in Worker /\ Busy(worker'[r][w])
        <4>1. worker[r][w] \in Worker /\ Busy(worker[r][w])
          BY DEF TypeOK, BusyInv
        <4>2. \/ worker'[r][w] = worker[r][w]
              \/ worker'[r][w] = [worker[r][w] EXCEPT !.seen = @ \cup {c}]
          BY <1>2 DEF Write
        <4> QED BY <2>1, <4>1, <4>2
      <3>2. worker' = [r \in Runs |-> [w \in Workers |-> worker'[r][w]]]
        BY <1>2 DEF Write
      <3> QED BY <3>1, <3>2 DEF BusyInv
    <2>3. mtime' \in [Files -> Times]
      BY <1>2 DEF Write, TypeOK, Times
    <2> QED BY <1>2, <2>2, <2>3 DEF Write, Typed, TypeOK
  <1>3. ASSUME NEW r \in Runs, Start(r) PROVE Typed'
    BY <1>3, <1>0 DEF Start, Typed, TypeOK
  <1>4. ASSUME NEW r \in Runs, Cancel(r) PROVE Typed'
    BY <1>4, <1>0 DEF Cancel, Typed, TypeOK
  <1>5. ASSUME NEW r \in Runs, NEW f \in Files, Collect(r, f) PROVE Typed'
    <2>1. Collected(f) \in Item
      <3> DEFINE sk == content[f] \in Large \cup {None} \/ f \in Denied
      <3>1. sk \in BOOLEAN
        OBVIOUS
      <3>2. Collected(f) = [file |-> f, mtime |-> mtime[f], size |-> Size(content[f]),
                            skip |-> sk]
        BY DEF Collected
      <3> HIDE DEF sk
      <3> QED BY <3>1, <3>2, SizeType DEF Item, TypeOK
    <2> QED BY <1>5, <2>1, <1>0 DEF Collect, Typed, TypeOK
  <1>6. ASSUME NEW r \in Runs, NEW f \in Files, CollectMissing(r, f) PROVE Typed'
    BY <1>6, <1>0 DEF CollectMissing, Typed, TypeOK
  <1>7. ASSUME NEW r \in Runs, CollectCancelled(r) PROVE Typed'
    BY <1>7, <1>0 DEF CollectCancelled, Report, Typed, TypeOK
  <1>8. ASSUME NEW r \in Runs, CollectDone(r) PROVE Typed'
    BY <1>8, <1>0 DEF CollectDone, Typed, TypeOK
  <1>9. ASSUME NEW r \in Runs, NEW w \in Workers, NEW it \in queue[r], Feed(r, w, it)
        PROVE Typed'
    <2>1. it \in Item
      BY DEF TypeOK
    <2>2. /\ [Idle EXCEPT !.at = "open", !.item = it] \in Worker
          /\ Busy([Idle EXCEPT !.at = "open", !.item = it])
      BY <2>1 DEF Idle, Worker, Busy
    <2>3. worker' \in [Runs -> [Workers -> Worker]] /\ BusyInv'
      BY <1>9, <2>2, OneWorker DEF Feed
    <2> QED BY <1>9, <2>3 DEF Feed, Typed, TypeOK
  <1>10. ASSUME NEW r \in Runs, FeedEnds(r) PROVE Typed'
    BY <1>10, <1>0 DEF FeedEnds, Typed, TypeOK
  <1>11. ASSUME NEW r \in Runs, PoolDone(r) PROVE Typed'
    <2> DEFINE e == IF report[r].err = None /\ ctx[r] THEN "cancelled" ELSE report[r].err
    <2>1. e \in {None, "fatal", "cancelled"}
      BY OneReport
    <2>2. report' = [report EXCEPT ![r].err = e]
      BY <1>11 DEF PoolDone
    <2> HIDE DEF e
    <2>3. report' \in [Runs -> Report]
      BY <2>1, <2>2, OneReport
    <2> QED BY <1>11, <1>0, <2>3 DEF PoolDone, Typed, TypeOK
  <1>12. ASSUME NEW r \in Runs, Return(r) PROVE Typed'
    <2>1. worker' \in [Runs -> [Workers -> Worker]] /\ BusyInv'
      BY <1>12, IdleType DEF Return, TypeOK, BusyInv
    <2> QED BY <1>12, <2>1 DEF Return, NoReport, Report, Typed, TypeOK
  <1>13. ASSUME NEW r \in Runs, NEW w \in Workers, WorkerStep(r, w) PROVE Typed'
    <2> DEFINE k == worker[r][w]
    <2>1. k \in Worker /\ Busy(k)
      BY DEF TypeOK, BusyInv
    <2>2. ASSUME k.at \in {"open", "read", "register"} PROVE k.item.file \in Files
      BY <2>1, <2>2 DEF Busy, Item
    <2>3. ASSUME worker' = [worker EXCEPT ![r][w] = Idle]
          PROVE worker' \in [Runs -> [Workers -> Worker]] /\ BusyInv'
      BY <2>3, IdleType, OneWorker
    <2>4. ASSUME k.at \in {"open", "read", "register"}, Indexed(r, w) \/ Skipped(r, w)
          PROVE /\ worker' \in [Runs -> [Workers -> Worker]] /\ BusyInv'
                /\ report' \in [Runs -> Report]
      <3>1. worker' = [worker EXCEPT ![r][w] = Idle]
        BY <2>4 DEF Indexed, Skipped
      <3>2. ASSUME Indexed(r, w) PROVE report' \in [Runs -> Report]
        BY <2>2, <2>4, <3>2, OneReport DEF Indexed
      <3>3. ASSUME Skipped(r, w) PROVE report' \in [Runs -> Report]
        BY <2>2, <2>4, <3>3, OneReport DEF Skipped
      <3>4. report' \in [Runs -> Report]
        BY <2>4, <3>2, <3>3
      <3> QED BY <2>3, <3>1, <3>4
    <2>5. CASE SkipUnread(r, w)
      BY <2>4, <2>5 DEF SkipUnread, Typed, TypeOK
    <2>6. CASE OpenFile(r, w)
      <3> DEFINE v == [k EXCEPT !.at = "read", !.seen = {content[k.item.file]}]
      <3>1. content[k.item.file] \in Contents
        BY <2>2, <2>6 DEF OpenFile, TypeOK
      <3>2. v \in Worker /\ Busy(v)
        BY <2>1, <2>6, <3>1 DEF Worker, Busy, OpenFile
      <3>3. worker' = [worker EXCEPT ![r][w] = v]
        BY <2>6 DEF OpenFile, TypeOK
      <3>4. worker' \in [Runs -> [Workers -> Worker]] /\ BusyInv'
        BY <3>2, <3>3, OneWorker
      <3> QED BY <2>6, <3>4 DEF OpenFile, Typed, TypeOK
    <2>7. CASE ReadFile(r, w)
      <3>1. PICK c \in Readable(k.seen) \ Binary :
                worker' = [worker EXCEPT ![r][w].at = "register", ![r][w].seen = {},
                                         ![r][w].raw = c]
        BY <2>7 DEF ReadFile
      <3> DEFINE v == [k EXCEPT !.at = "register", !.seen = {}, !.raw = c]
      <3>2. c \in Raw
        BY <2>1, <3>1 DEF Readable, Raw, Worker
      <3>3. v \in Worker /\ Busy(v)
        BY <2>1, <2>7, <3>2 DEF Worker, Busy, ReadFile
      <3>4. worker' = [worker EXCEPT ![r][w] = v]
        BY <3>1 DEF TypeOK
      <3>5. worker' \in [Runs -> [Workers -> Worker]] /\ BusyInv'
        BY <3>3, <3>4, OneWorker
      <3> QED BY <2>7, <3>5 DEF ReadFile, Typed, TypeOK
    <2>8. CASE SkipRead(r, w)
      BY <2>4, <2>8 DEF SkipRead, Typed, TypeOK
    <2>9. CASE Register(r, w)
      <3>1. SourceMeta(k.item, k.raw) \in Row
        BY <2>1, <2>9 DEF Register, SourceMeta, Row, Busy, Item
      <3>2. row' \in [Files -> Row \cup {None}]
        BY <2>2, <2>9, <3>1 DEF Register, TypeOK
      <3> QED BY <2>4, <2>9, <3>2 DEF Register, Typed, TypeOK
    <2>10. CASE RegisterFails(r, w)
      BY <2>4, <2>10 DEF RegisterFails, Typed, TypeOK
    <2>11. CASE RegisterFatal(r, w)
      <3> DEFINE e == IF report[r].err = None THEN "fatal" ELSE report[r].err
      <3>1. e \in {None, "fatal", "cancelled"}
        BY OneReport
      <3>2. report' = [report EXCEPT ![r].err = e]
        BY <2>11 DEF RegisterFatal
      <3> HIDE DEF e
      <3>3. report' \in [Runs -> Report]
        BY <3>1, <3>2, OneReport
      <3> QED BY <2>3, <2>11, <3>3 DEF RegisterFatal, Typed, TypeOK
    <2>12. CASE WorkerEnds(r, w)
      <3> DEFINE v == [k EXCEPT !.at = "gone"]
      <3>1. v \in Worker /\ Busy(v)
        BY <2>1 DEF Worker, Busy
      <3>2. worker' = [worker EXCEPT ![r][w] = v]
        BY <2>12 DEF WorkerEnds, TypeOK
      <3>3. worker' \in [Runs -> [Workers -> Worker]] /\ BusyInv'
        BY <3>1, <3>2, OneWorker
      <3> QED BY <2>12, <3>3 DEF WorkerEnds, Typed, TypeOK
    <2> QED
      BY <1>13, <2>5, <2>6, <2>7, <2>8, <2>9, <2>10, <2>11, <2>12 DEF WorkerStep
  <1>14. CASE UNCHANGED vars
    BY <1>14, <1>0 DEF vars, run, Typed, TypeOK
  <1> QED
    BY <1>1, <1>2, <1>3, <1>4, <1>5, <1>6, <1>7, <1>8, <1>9, <1>10, <1>11, <1>12,
       <1>13, <1>14
    DEF Next, FeederStep

(* Every variable of the model stays in its range, for every instance. *)
THEOREM IngestTypeCorrect == Spec => []TypeOK
  <1>1. Typed => TypeOK
    BY DEF Typed
  <1> QED BY <1>1, TypeInit, TypeStep, PTL DEF Spec

-----------------------------------------------------------------------------
(* Staleness: as long as a file has the time its item was noted with,      *)
(* whatever a worker has read of it is what it contains.                   *)

Noted(it) == it.mtime <= mtime[it.file]

Unchanged(it) == it.mtime = mtime[it.file] /\ content[it.file] # None

Fresh(k) ==
    k.at \in {"open", "read", "register"} =>
        /\ Noted(k.item)
        /\ k.at = "read" /\ Unchanged(k.item) => k.seen = {content[k.item.file]}
        /\ k.at = "register" /\ Unchanged(k.item) => k.raw = content[k.item.file]

RowFresh(f) ==
    row[f] # None =>
        /\ row[f].mtime <= mtime[f]
        /\ row[f].mtime = mtime[f] /\ content[f] # None => row[f].src = content[f]

QueueInv  == \A r \in Runs : \A it \in queue[r] : Noted(it)
WorkerInv == \A r \in Runs, w \in Workers : Fresh(worker[r][w])
RowInv    == \A f \in Files : RowFresh(f)

FreshInv == QueueInv /\ WorkerInv /\ RowInv

LEMMA FreshInit == Init => FreshInv
  BY DEF Init, FreshInv, QueueInv, WorkerInv, RowInv, RowFresh, Fresh, Idle

(* A changed file is newer than every note of it. *)
LEMMA WriteFresh ==
    ASSUME Typed, FreshInv, NEW f \in Files, NEW c \in Contents, Write(f, c)
    PROVE  FreshInv'
  <1> USE DEF FreshInv, Noted, Unchanged
  <1>1. /\ \A g \in Files : /\ mtime'[g] \in Nat /\ mtime[g] \in Nat
                            /\ mtime[g] <= mtime'[g]
                            /\ g # f => mtime'[g] = mtime[g] /\ content'[g] = content[g]
        /\ mtime[f] < mtime'[f]
    BY IngestAssumption DEF Typed, TypeOK, Write, Times
  <1>2. QueueInv'
    <2>1. \A r \in Runs : \A it \in queue[r] :
              it.mtime \in Nat /\ it.file \in Files
      BY IngestAssumption DEF Typed, TypeOK, Item, Times
    <2> QED BY <1>1, <2>1 DEF QueueInv, Write
  <1>3. ASSUME NEW r \in Runs, NEW w \in Workers PROVE Fresh(worker[r][w])'
    <2> DEFINE k == worker[r][w]
    <2>1. /\ worker'[r][w].at = k.at /\ worker'[r][w].item = k.item
          /\ worker'[r][w].raw = k.raw
          /\ k.at = "read" /\ k.item.file # f => worker'[r][w].seen = k.seen
      <3>1. k \in Worker
        BY DEF Typed, TypeOK
      <3>2. \/ worker'[r][w] = k
            \/ k.item.file = f /\ worker'[r][w] = [k EXCEPT !.seen = @ \cup {c}]
        BY DEF Write
      <3> QED BY <3>1, <3>2 DEF Worker
    <2>2. SUFFICES ASSUME k.at \in {"open", "read", "register"}
                   PROVE Fresh(worker[r][w])'
      BY <2>1 DEF Fresh
    <2>3. k.item \in Item
      BY <2>2 DEF Typed, BusyInv, Busy
    <2>4. k.item.mtime \in Nat /\ k.item.file \in Files
      BY <2>3, IngestAssumption DEF Item, Times
    <2>5. Fresh(k)
      BY DEF WorkerInv
    <2> QED BY <1>1, <2>1, <2>2, <2>4, <2>5 DEF Fresh
  <1>4. RowInv'
    <2>1. ASSUME NEW g \in Files, row[g] # None PROVE row[g].mtime \in Nat
      BY <2>1, IngestAssumption DEF Typed, TypeOK, Row, Times
    <2> QED BY <1>1, <2>1 DEF RowInv, RowFresh, Write
  <1> QED BY <1>2, <1>3, <1>4 DEF WorkerInv

LEMMA FreshStep == Typed /\ FreshInv /\ [Next]_vars => FreshInv'
  <1> SUFFICES ASSUME Typed, FreshInv, [Next]_vars PROVE FreshInv'
    OBVIOUS
  <1> USE DEF files
  <1>0. ASSUME UNCHANGED <<content, mtime>>
        PROVE /\ UNCHANGED row => RowInv'
              /\ UNCHANGED worker => WorkerInv'
              /\ (\A r \in Runs : queue'[r] \subseteq queue[r]) => QueueInv'
    BY <1>0 DEF FreshInv, RowInv, RowFresh, WorkerInv, Fresh, QueueInv, Noted, Unchanged
  <1>1. ASSUME NEW r \in Runs, NEW w \in Workers, NEW v,
               worker' = [worker EXCEPT ![r][w] = v], UNCHANGED <<content, mtime>>,
               Fresh(v)
        PROVE WorkerInv'
    <2>1. ASSUME NEW q \in Runs, NEW u \in Workers PROVE Fresh(worker[q][u])'
      <3>1. \/ worker'[q][u] = v \/ worker'[q][u] = worker[q][u]
        BY <1>1 DEF Typed, TypeOK
      <3>2. Fresh(worker[q][u])
        BY DEF FreshInv, WorkerInv
      <3> QED BY <1>1, <3>1, <3>2 DEF Fresh, Noted, Unchanged
    <2> QED BY <2>1 DEF WorkerInv
  <1>2. Fresh(Idle)
    BY DEF Fresh, Idle
  <1>3. ASSUME NEW f \in Changing, RemoveFile(f) PROVE FreshInv'
    <2>1. \A g \in Files : content'[g] # None => content'[g] = content[g]
      BY <1>3, IngestAssumption DEF RemoveFile, Typed, TypeOK
    <2>2. mtime' = mtime /\ row' = row /\ queue' = queue /\ worker' = worker
      BY <1>3 DEF RemoveFile
    <2>3. RowInv' /\ QueueInv'
      BY <2>1, <2>2 DEF FreshInv, RowInv, RowFresh, QueueInv, Noted
    <2>4. ASSUME NEW r \in Runs, NEW w \in Workers PROVE Fresh(worker[r][w])'
      <3>1. Fresh(worker[r][w]) /\ Busy(worker[r][w])
        BY DEF FreshInv, WorkerInv, Typed, BusyInv
      <3> QED BY <2>1, <2>2, <3>1 DEF Fresh, Busy, Noted, Unchanged, Item
    <2> QED BY <2>3, <2>4 DEF FreshInv, WorkerInv
  <1>4. ASSUME NEW f \in Changing, NEW c \in Contents, Write(f, c) PROVE FreshInv'
    BY <1>4, WriteFresh, IngestAssumption
  <1>5. ASSUME NEW r \in Runs, NEW f \in Files, Collect(r, f) PROVE FreshInv'
    <2>1. Noted(Collected(f)) /\ Collected(f).file = f
      BY IngestAssumption DEF Noted, Collected, Typed, TypeOK, Times
    <2>2. QueueInv'
      BY <1>5, <2>1 DEF Collect, FreshInv, QueueInv, Noted, Typed, TypeOK
    <2> QED BY <1>0, <1>5, <2>2 DEF Collect, FreshInv
  <1>6. ASSUME NEW r \in Runs, NEW w \in Workers, NEW it \in queue[r], Feed(r, w, it)
        PROVE FreshInv'
    <2> DEFINE v == [Idle EXCEPT !.at = "open", !.item = it]
    <2>1. Fresh(v)
      BY DEF Fresh, Idle, FreshInv, QueueInv
    <2>2. WorkerInv'
      BY <1>1, <1>6, <2>1 DEF Feed
    <2>3. \A q \in Runs : queue'[q] \subseteq queue[q]
      BY <1>6 DEF Feed, Typed, TypeOK
    <2> QED BY <1>0, <1>6, <2>2, <2>3 DEF Feed, FreshInv
  <1>7. ASSUME NEW r \in Runs,
               \/ Start(r) \/ Cancel(r) \/ CollectDone(r) \/ PoolDone(r)
               \/ \E f \in Files : CollectMissing(r, f)
        PROVE FreshInv'
    BY <1>0, <1>7 DEF Start, Cancel, CollectDone, PoolDone, CollectMissing, FreshInv
  <1>8. ASSUME NEW r \in Runs, CollectCancelled(r) \/ FeedEnds(r) PROVE FreshInv'
    <2>1. \A q \in Runs : queue'[q] \subseteq queue[q]
      BY <1>8 DEF CollectCancelled, FeedEnds, Typed, TypeOK
    <2> QED BY <1>0, <1>8, <2>1 DEF CollectCancelled, FeedEnds, FreshInv
  <1>9. ASSUME NEW r \in Runs, Return(r) PROVE FreshInv'
    <2>1. ASSUME NEW q \in Runs, NEW u \in Workers PROVE Fresh(worker[q][u])'
      <3>1. worker'[q][u] = Idle \/ worker'[q][u] = worker[q][u]
        BY <1>9 DEF Return, Typed, TypeOK
      <3>2. Fresh(worker[q][u])
        BY DEF FreshInv, WorkerInv
      <3> QED BY <1>2, <1>9, <3>1, <3>2 DEF Return, Fresh, Noted, Unchanged
    <2> QED BY <1>0, <1>9, <2>1 DEF Return, FreshInv, WorkerInv
  <1>10. ASSUME NEW r \in Runs, NEW w \in Workers, WorkerStep(r, w) PROVE FreshInv'
    <2> DEFINE k == worker[r][w]
    <2>1. k \in Worker /\ Busy(k) /\ Fresh(k)
      BY DEF Typed, TypeOK, BusyInv, FreshInv, WorkerInv
    <2>2. CASE SkipUnread(r, w) \/ SkipRead(r, w) \/ RegisterFails(r, w)
      BY <1>0, <1>1, <1>2, <2>2 DEF SkipUnread, SkipRead, RegisterFails, Skipped, FreshInv
    <2>3. CASE RegisterFatal(r, w)
      BY <1>0, <1>1, <1>2, <2>3 DEF RegisterFatal, FreshInv
    <2>4. CASE OpenFile(r, w)
      <3> DEFINE v == [k EXCEPT !.at = "read", !.seen = {content[k.item.file]}]
      <3>1. worker' = [worker EXCEPT ![r][w] = v]
        BY <2>4 DEF OpenFile, Typed, TypeOK
      <3>2. Fresh(v)
        BY <2>1, <2>4 DEF OpenFile, Fresh, Worker
      <3> QED BY <1>0, <1>1, <2>4, <3>1, <3>2 DEF OpenFile, FreshInv
    <2>5. CASE ReadFile(r, w)
      <3>1. PICK c \in Readable(k.seen) \ Binary :
                worker' = [worker EXCEPT ![r][w].at = "register", ![r][w].seen = {},
                                         ![r][w].raw = c]
        BY <2>5 DEF ReadFile
      <3> DEFINE v == [k EXCEPT !.at = "register", !.seen = {}, !.raw = c]
      <3>2. worker' = [worker EXCEPT ![r][w] = v]
        BY <3>1 DEF Typed, TypeOK
      <3>3. ASSUME NEW x, k.seen = {x} PROVE c = x
        BY <3>1, <3>3 DEF Readable
      <3>4. Fresh(v)
        BY <2>1, <2>5, <3>3 DEF ReadFile, Fresh, Worker
      <3> QED BY <1>0, <1>1, <2>5, <3>2, <3>4 DEF ReadFile, FreshInv
    <2>6. CASE Register(r, w)
      <3>1. k.item.file \in Files
        BY <2>1, <2>6 DEF Register, Busy, Item
      <3>2. RowInv'
        BY <2>1, <2>6, <3>1 DEF Register, SourceMeta, Fresh, Noted, Unchanged, FreshInv,
                                RowInv, RowFresh, Typed, TypeOK
      <3> QED BY <1>0, <1>1, <1>2, <2>6, <3>2 DEF Register, Indexed, FreshInv
    <2>7. CASE WorkerEnds(r, w)
      <3> DEFINE v == [k EXCEPT !.at = "gone"]
      <3>1. worker' = [worker EXCEPT ![r][w] = v]
        BY <2>7 DEF WorkerEnds, Typed, TypeOK
      <3>2. Fresh(v)
        BY <2>1 DEF Fresh, Worker
      <3> QED BY <1>0, <1>1, <2>7, <3>1, <3>2 DEF WorkerEnds, FreshInv
    <2> QED BY <1>10, <2>2, <2>3, <2>4, <2>5, <2>6, <2>7 DEF WorkerStep
  <1>11. CASE UNCHANGED vars
    BY <1>0, <1>11 DEF vars, run, FreshInv
  <1> QED
    BY <1>3, <1>4, <1>5, <1>6, <1>7, <1>8, <1>9, <1>10, <1>11 DEF Next, FeederStep

(* A row that StaleOf lets pass describes its file as it is, for any       *)
(* number of concurrent runs and workers and any sequence of changes to    *)
(* the files: size and time are noted before the content is read.          *)
THEOREM FreshRowsAreCurrent == Spec => []NotStaleMeansCurrent
  <1>1. Typed /\ FreshInv => NotStaleMeansCurrent
    BY DEF Typed, TypeOK, FreshInv, RowInv, RowFresh, NotStaleMeansCurrent, StaleOf
  <1> QED BY <1>1, TypeInit, TypeStep, FreshInit, FreshStep, PTL DEF Spec

-----------------------------------------------------------------------------
(* Accounting: a file a run has listed is in one place at a time, waiting  *)
(* in the queue, in the hands of one worker or in the report, and it gets  *)
(* lost only where the run then ends with an error.                        *)

Holds(r, w) == worker[r][w].at \in {"open", "read", "register"}

InHand(r, w) == worker[r][w].item.file

Reported(r) == report[r].indexed \cup report[r].skipped

(* What the phases leave to do. *)
PhaseInv(r) ==
    /\ phase[r] \in {"off", "collect"} =>
         report[r] = NoReport /\ \A w \in Workers : ~Holds(r, w)
    /\ phase[r] = "off" => listed[r] = {} /\ queue[r] = {} /\ ~stopFeed[r]
    /\ phase[r] = "collect" => todo[r] \cap listed[r] = {}
    /\ phase[r] \in {"wait", "done"} => queue[r] = {}
    /\ phase[r] = "done" => \A w \in Workers : ~Holds(r, w)

InOnePlace(r) ==
    /\ \A a, b \in queue[r] : a.file = b.file => a = b
    /\ \A a \in queue[r] : /\ a.file \notin Reported(r)
                           /\ \A w \in Workers : Holds(r, w) => InHand(r, w) # a.file
    /\ \A w \in Workers : Holds(r, w) => InHand(r, w) \notin Reported(r)
    /\ \A v, w \in Workers : Holds(r, v) /\ Holds(r, w) /\ InHand(r, v) = InHand(r, w) => v = w
    /\ report[r].indexed \cap report[r].skipped = {}

OnlyListed(r) ==
    /\ \A a \in queue[r] : a.file \in listed[r]
    /\ \A w \in Workers : Holds(r, w) => InHand(r, w) \in listed[r]
    /\ Reported(r) \subseteq listed[r]

NoneLost(r) ==
    report[r].err = None /\ ~ctx[r] =>
        \A f \in listed[r] : \/ f \in Reported(r)
                             \/ \E a \in queue[r] : a.file = f
                             \/ \E w \in Workers : Holds(r, w) /\ InHand(r, w) = f

(* The two ways to lose a file: the feeder stops early, a worker drops the *)
(* file it could not register.                                             *)
LossIsTold(r) ==
    /\ stopFeed[r] => report[r].err # None
    /\ phase[r] = "done" /\ ctx[r] => report[r].err # None

Accounted(r) ==
    PhaseInv(r) /\ InOnePlace(r) /\ OnlyListed(r) /\ NoneLost(r) /\ LossIsTold(r)

AccountInv == \A r \in Runs : Accounted(r)

LEMMA AccountInit == Init => AccountInv
  <1> SUFFICES ASSUME Init, NEW r \in Runs PROVE Accounted(r)
    BY DEF AccountInv
  <1>1. /\ phase[r] = "off" /\ ~stopFeed[r] /\ queue[r] = {} /\ listed[r] = {}
        /\ report[r] = NoReport /\ Reported(r) = {}
        /\ report[r].indexed \cap report[r].skipped = {}
        /\ \A w \in Workers : ~Holds(r, w)
    BY DEF Init, NoReport, Reported, Holds, Idle
  <1> QED
    BY <1>1 DEF Accounted, PhaseInv, InOnePlace, OnlyListed, NoneLost, LossIsTold

(* What a run's account is about. *)
SameRun(r) ==
    /\ phase'[r] = phase[r] /\ ctx'[r] = ctx[r] /\ stopFeed'[r] = stopFeed[r]
    /\ todo'[r] = todo[r] /\ queue'[r] = queue[r] /\ listed'[r] = listed[r]
    /\ report'[r] = report[r]

SameWorkers(r) ==
    \A w \in Workers : /\ worker'[r][w].at = worker[r][w].at
                       /\ worker'[r][w].item = worker[r][w].item

LEMMA AccountKept ==
    ASSUME NEW r \in Runs, Accounted(r), SameRun(r), SameWorkers(r)
    PROVE  Accounted(r)'
  <1>1. /\ \A w \in Workers : /\ Holds(r, w)' <=> Holds(r, w)
                              /\ InHand(r, w)' = InHand(r, w)
        /\ Reported(r)' = Reported(r)
    BY DEF Holds, InHand, Reported, SameRun, SameWorkers
  <1>2. PhaseInv(r)' /\ LossIsTold(r)'
    BY <1>1 DEF Accounted, PhaseInv, LossIsTold, SameRun
  <1>3. InOnePlace(r)' /\ OnlyListed(r)'
    BY <1>1 DEF Accounted, InOnePlace, OnlyListed, SameRun
  <1>4. NoneLost(r)'
    BY <1>1 DEF Accounted, NoneLost, SameRun
  <1> QED BY <1>2, <1>3, <1>4 DEF Accounted

(* A worker that holds its file on, or lets nothing go: the account stays. *)
LEMMA SameHands ==
    ASSUME Typed, NEW r \in Runs, NEW w \in Workers, NEW v, Accounted(r),
           worker' = [worker EXCEPT ![r][w] = v],
           v.item = worker[r][w].item,
           v.at \in {"open", "read", "register"} <=> Holds(r, w),
           SameRun(r)
    PROVE  Accounted(r)'
  <1>1. \A u \in Workers : /\ Holds(r, u)' <=> Holds(r, u)
                           /\ InHand(r, u)' = InHand(r, u)
    BY DEF Typed, TypeOK, Holds, InHand
  <1> QED
    BY <1>1 DEF Accounted, PhaseInv, InOnePlace, OnlyListed, NoneLost, LossIsTold,
                Reported, SameRun

(* A file goes from the hands of a worker into the report. *)
LEMMA HandedIn ==
    ASSUME Typed, NEW r \in Runs, NEW w \in Workers, Accounted(r), Holds(r, w),
           Indexed(r, w) \/ Skipped(r, w),
           UNCHANGED <<phase, ctx, stopFeed, todo, queue, listed>>
    PROVE  Accounted(r)'
  <1> DEFINE f == InHand(r, w)
  <1>1. \A u \in Workers : /\ Holds(r, u)' <=> Holds(r, u) /\ u # w
                           /\ u # w => InHand(r, u)' = InHand(r, u)
    BY DEF Indexed, Skipped, Idle, Holds, InHand, Typed, TypeOK
  <1>2. report[r] \in Report
    BY DEF Typed, TypeOK
  <1>3. /\ Reported(r)' = Reported(r) \cup {f}
        /\ report'[r].err = report[r].err
        /\ \/ /\ report'[r].indexed = report[r].indexed \cup {f}
              /\ report'[r].skipped = report[r].skipped
           \/ /\ report'[r].skipped = report[r].skipped \cup {f}
              /\ report'[r].indexed = report[r].indexed
    <2>1. CASE Indexed(r, w)
      <3>1. report'[r] = [report[r] EXCEPT !.indexed = @ \cup {f}]
        BY <2>1 DEF Indexed, InHand, Typed, TypeOK
      <3> QED BY <1>2, <3>1 DEF Report, Reported
    <2>2. CASE Skipped(r, w)
      <3>1. report'[r] = [report[r] EXCEPT !.skipped = @ \cup {f}]
        BY <2>2 DEF Skipped, InHand, Typed, TypeOK
      <3> QED BY <1>2, <3>1 DEF Report, Reported
    <2> QED BY <2>1, <2>2
  <1> HIDE DEF f
  <1>4. /\ f \in listed[r] /\ f \notin Reported(r)
        /\ \A a \in queue[r] : a.file # f
        /\ \A u \in Workers : u # w /\ Holds(r, u) => InHand(r, u) # f
        /\ phase[r] \notin {"off", "collect", "done"}
    BY DEF f, Accounted, InOnePlace, OnlyListed, PhaseInv
  <1>5. PhaseInv(r)'
    BY <1>1, <1>4 DEF Accounted, PhaseInv
  <1>6. InOnePlace(r)'
    BY <1>1, <1>3, <1>4 DEF Accounted, InOnePlace, Reported
  <1>7. OnlyListed(r)'
    BY <1>1, <1>3, <1>4 DEF Accounted, OnlyListed
  <1>8. NoneLost(r)'
    BY <1>1, <1>3 DEF Accounted, NoneLost, f
  <1>9. LossIsTold(r)'
    BY <1>3, <1>4 DEF Accounted, LossIsTold
  <1> QED BY <1>5, <1>6, <1>7, <1>8, <1>9 DEF Accounted

(* The walk lists a file for the first time. *)
LEMMA CollectAccount ==
    ASSUME Typed, NEW r \in Runs, NEW f \in Files, Accounted(r), Collect(r, f)
    PROVE  Accounted(r)'
  <1>1. /\ queue'[r] = queue[r] \cup {Collected(f)} /\ listed'[r] = listed[r] \cup {f}
        /\ todo'[r] = todo[r] \ {f} /\ Collected(f).file = f
        /\ f \in todo[r] /\ phase[r] = "collect"
        /\ UNCHANGED <<phase, ctx, stopFeed, worker, report>>
    BY DEF Collect, Collected, Typed, TypeOK
  <1>2. /\ Reported(r) = {} /\ report'[r] = report[r] /\ Reported(r)' = {}
        /\ \A w \in Workers : ~Holds(r, w) /\ ~Holds(r, w)'
    BY <1>1 DEF Accounted, PhaseInv, Reported, NoReport, Holds
  <1>3. f \notin listed[r] /\ \A a \in queue[r] : a.file # f
    BY <1>1 DEF Accounted, PhaseInv, OnlyListed
  <1>4. PhaseInv(r)'
    BY <1>1, <1>2 DEF Accounted, PhaseInv
  <1>5. InOnePlace(r)' /\ OnlyListed(r)'
    BY <1>1, <1>2, <1>3 DEF Accounted, InOnePlace, OnlyListed
  <1>6. NoneLost(r)' /\ LossIsTold(r)'
    BY <1>1, <1>2 DEF Accounted, NoneLost, LossIsTold
  <1> QED BY <1>4, <1>5, <1>6 DEF Accounted

(* The feeder hands an item to a worker that waits. *)
LEMMA FeedAccount ==
    ASSUME Typed, NEW r \in Runs, NEW w \in Workers, NEW it \in queue[r], Accounted(r),
           Feed(r, w, it)
    PROVE  Accounted(r)'
  <1>1. /\ queue'[r] = queue[r] \ {it} /\ phase[r] = "feed" /\ ~Holds(r, w)
        /\ UNCHANGED <<phase, ctx, stopFeed, todo, listed, report>>
    BY DEF Feed, Typed, TypeOK, Holds
  <1>2. /\ Holds(r, w)' /\ InHand(r, w)' = it.file
        /\ \A u \in Workers : u # w => /\ Holds(r, u)' <=> Holds(r, u)
                                       /\ InHand(r, u)' = InHand(r, u)
    BY DEF Feed, Typed, TypeOK, Holds, InHand, Idle
  <1>3. Reported(r)' = Reported(r)
    BY <1>1 DEF Reported
  <1>4. PhaseInv(r)' /\ LossIsTold(r)'
    BY <1>1 DEF Accounted, PhaseInv, LossIsTold
  <1>5. InOnePlace(r)' /\ OnlyListed(r)'
    BY <1>1, <1>2, <1>3 DEF Accounted, InOnePlace, OnlyListed
  <1>6. NoneLost(r)'
    BY <1>1, <1>2, <1>3 DEF Accounted, NoneLost
  <1> QED BY <1>4, <1>5, <1>6 DEF Accounted

(* The steps that move no file: the walk's other steps, the feeder's end,  *)
(* the pool's and the run's.                                               *)
LEMMA RunAccount ==
    ASSUME Typed, NEW r \in Runs, Accounted(r),
           \/ Start(r) \/ Cancel(r) \/ CollectCancelled(r) \/ CollectDone(r)
           \/ FeedEnds(r) \/ PoolDone(r) \/ \E f \in Files : CollectMissing(r, f)
    PROVE  Accounted(r)'
  <1>1. worker' = worker /\ \A w \in Workers : Holds(r, w)' <=> Holds(r, w)
    BY DEF Start, Cancel, CollectCancelled, CollectDone, FeedEnds, PoolDone,
           CollectMissing, Holds
  <1> USE DEF Typed, TypeOK
  <1>2. \A w \in Workers : InHand(r, w)' = InHand(r, w)
    BY <1>1 DEF InHand
  <1>3. /\ listed' = listed /\ stopFeed' = stopFeed
        /\ queue'[r] \subseteq queue[r]
    BY DEF Start, Cancel, CollectCancelled, CollectDone, FeedEnds, PoolDone,
           CollectMissing
  <1>4. report[r] \in Report
    OBVIOUS
  <1>5. /\ report'[r].indexed = report[r].indexed /\ report'[r].skipped = report[r].skipped
        /\ report[r].err # None => report'[r].err # None
    BY <1>4, IngestAssumption
    DEF Start, Cancel, CollectCancelled, CollectDone, FeedEnds, PoolDone,
        CollectMissing, Report
  <1>6. Reported(r)' = Reported(r)
    BY <1>5 DEF Reported
  <1>7. InOnePlace(r)' /\ OnlyListed(r)'
    BY <1>1, <1>2, <1>3, <1>5, <1>6 DEF Accounted, InOnePlace, OnlyListed
  <1>8. PhaseInv(r)' /\ LossIsTold(r)' /\ NoneLost(r)'
    <2>1. CASE Start(r)
      BY <1>1, <1>2, <1>6, <2>1
      DEF Start, Accounted, PhaseInv, LossIsTold, NoneLost
    <2>2. CASE Cancel(r)
      BY <1>1, <1>2, <1>6, <2>2
      DEF Cancel, Accounted, PhaseInv, LossIsTold, NoneLost
    <2>3. CASE CollectCancelled(r)
      <3>1. /\ phase'[r] = "done" /\ phase[r] = "collect" /\ queue'[r] = {}
            /\ report'[r].err = "cancelled"
        BY <1>4, <2>3 DEF CollectCancelled, Report
      <3>2. "cancelled" # None
        BY IngestAssumption
      <3> QED
        BY <1>1, <1>2, <1>6, <3>1, <3>2
        DEF Accounted, PhaseInv, LossIsTold, NoneLost
    <2>4. CASE CollectDone(r)
      BY <1>1, <1>2, <1>6, <2>4
      DEF CollectDone, Accounted, PhaseInv, LossIsTold, NoneLost
    <2>5. CASE FeedEnds(r)
      <3>1. /\ phase'[r] = "wait" /\ phase[r] = "feed" /\ queue'[r] = {}
            /\ queue[r] = {} \/ ctx[r] \/ stopFeed[r]
            /\ UNCHANGED <<ctx, report>>
        BY <2>5 DEF FeedEnds
      <3> QED
        BY <1>1, <1>2, <1>3, <1>6, <3>1
        DEF Accounted, PhaseInv, LossIsTold, NoneLost
    <2>6. CASE PoolDone(r)
      <3>1. /\ phase'[r] = "done" /\ phase[r] = "wait" /\ UNCHANGED <<ctx, queue>>
            /\ \A w \in Workers : ~Holds(r, w)
            /\ report'[r].err = IF report[r].err = None /\ ctx[r] THEN "cancelled"
                                ELSE report[r].err
        BY <1>4, <2>6 DEF PoolDone, Holds, Report
      <3>2. "cancelled" # None
        BY IngestAssumption
      <3> QED
        BY <1>1, <1>2, <1>3, <1>6, <3>1, <3>2
        DEF Accounted, PhaseInv, LossIsTold, NoneLost
    <2>7. CASE \E f \in Files : CollectMissing(r, f)
      BY <1>1, <1>2, <1>6, <2>7
      DEF CollectMissing, Accounted, PhaseInv, LossIsTold, NoneLost
    <2> QED BY <2>1, <2>2, <2>3, <2>4, <2>5, <2>6, <2>7
  <1> QED BY <1>7, <1>8 DEF Accounted

LEMMA ReturnAccount ==
    ASSUME Typed, NEW r \in Runs, Accounted(r), Return(r)
    PROVE  Accounted(r)'
  <1>1. /\ phase'[r] = "off" /\ phase[r] = "done" /\ listed'[r] = {}
        /\ queue'[r] = queue[r] /\ ~stopFeed'[r] /\ report'[r] = NoReport
        /\ \A w \in Workers : worker'[r][w] = Idle
    BY DEF Return, Typed, TypeOK
  <1>2. queue[r] = {}
    BY <1>1 DEF Accounted, PhaseInv
  <1>3. \A w \in Workers : ~Holds(r, w)'
    BY <1>1 DEF Holds, Idle
  <1>4. Reported(r)' = {}
    BY <1>1 DEF Reported, NoReport
  <1> QED
    BY <1>1, <1>2, <1>3, <1>4
    DEF Accounted, PhaseInv, InOnePlace, OnlyListed, NoneLost, LossIsTold, NoReport

(* A worker drops the file it could not register, and says so. *)
LEMMA FatalAccount ==
    ASSUME Typed, NEW r \in Runs, NEW w \in Workers, Accounted(r), RegisterFatal(r, w)
    PROVE  Accounted(r)'
  <1>1. \A u \in Workers : /\ Holds(r, u)' <=> Holds(r, u) /\ u # w
                           /\ u # w => InHand(r, u)' = InHand(r, u)
    BY DEF RegisterFatal, Idle, Holds, InHand, Typed, TypeOK
  <1>2. report[r] \in Report /\ Holds(r, w)
    BY DEF Typed, TypeOK, RegisterFatal, Holds
  <1>3. /\ report'[r].indexed = report[r].indexed /\ report'[r].skipped = report[r].skipped
        /\ report'[r].err # None
        /\ UNCHANGED <<phase, ctx, todo, queue, listed>>
    BY <1>2, IngestAssumption DEF RegisterFatal, Typed, TypeOK, Report
  <1>4. Reported(r)' = Reported(r) /\ phase[r] \notin {"off", "collect", "done"}
    BY <1>2, <1>3 DEF Reported, Accounted, PhaseInv
  <1>5. PhaseInv(r)' /\ NoneLost(r)' /\ LossIsTold(r)'
    BY <1>1, <1>3, <1>4 DEF Accounted, PhaseInv, NoneLost, LossIsTold
  <1>6. InOnePlace(r)' /\ OnlyListed(r)'
    BY <1>1, <1>3, <1>4 DEF Accounted, InOnePlace, OnlyListed
  <1> QED BY <1>5, <1>6 DEF Accounted

LEMMA WorkerAccount ==
    ASSUME Typed, NEW r \in Runs, NEW w \in Workers, Accounted(r), WorkerStep(r, w)
    PROVE  Accounted(r)'
  <1> DEFINE k == worker[r][w]
  <1>1. k \in Worker
    BY DEF Typed, TypeOK
  <1>2. CASE SkipUnread(r, w) \/ SkipRead(r, w) \/ RegisterFails(r, w) \/ Register(r, w)
    <2>1. Holds(r, w) /\ (Indexed(r, w) \/ Skipped(r, w))
      BY <1>2 DEF SkipUnread, SkipRead, RegisterFails, Register, Holds
    <2>2. UNCHANGED <<phase, ctx, stopFeed, todo, queue, listed>>
      BY <1>2 DEF SkipUnread, SkipRead, RegisterFails, Register
    <2> QED BY <2>1, <2>2, HandedIn
  <1>3. CASE RegisterFatal(r, w)
    BY <1>3, FatalAccount
  <1>4. CASE OpenFile(r, w)
    <2> DEFINE v == [k EXCEPT !.at = "read", !.seen = {content[k.item.file]}]
    <2>1. worker' = [worker EXCEPT ![r][w] = v]
      BY <1>4 DEF OpenFile, Typed, TypeOK
    <2>2. v.item = k.item /\ v.at = "read" /\ Holds(r, w) /\ SameRun(r)
      BY <1>1, <1>4 DEF OpenFile, Worker, Holds, SameRun
    <2> HIDE DEF v
    <2> QED BY <2>1, <2>2, SameHands
  <1>5. CASE ReadFile(r, w)
    <2>1. PICK c \in Readable(k.seen) \ Binary :
              worker' = [worker EXCEPT ![r][w].at = "register", ![r][w].seen = {},
                                       ![r][w].raw = c]
      BY <1>5 DEF ReadFile
    <2> DEFINE v == [k EXCEPT !.at = "register", !.seen = {}, !.raw = c]
    <2>2. worker' = [worker EXCEPT ![r][w] = v]
      BY <2>1 DEF Typed, TypeOK
    <2>3. v.item = k.item /\ v.at = "register" /\ Holds(r, w) /\ SameRun(r)
      BY <1>1, <1>5 DEF ReadFile, Worker, Holds, SameRun
    <2> HIDE DEF v
    <2> QED BY <2>2, <2>3, SameHands
  <1>6. CASE WorkerEnds(r, w)
    <2> DEFINE v == [k EXCEPT !.at = "gone"]
    <2>1. worker' = [worker EXCEPT ![r][w] = v]
      BY <1>6 DEF WorkerEnds, Typed, TypeOK
    <2>2. v.item = k.item /\ v.at = "gone" /\ ~Holds(r, w) /\ SameRun(r)
      BY <1>1, <1>6 DEF WorkerEnds, Worker, Holds, SameRun
    <2> HIDE DEF v
    <2> QED BY <2>1, <2>2, SameHands
  <1> QED BY <1>2, <1>3, <1>4, <1>5, <1>6 DEF WorkerStep

(* A step of one run leaves the others alone. *)
LEMMA OtherRuns ==
    ASSUME Typed, NEW r \in Runs, NEW q \in Runs, q # r,
           \/ Start(r) \/ Cancel(r) \/ FeederStep(r)
           \/ \E w \in Workers : WorkerStep(r, w)
    PROVE  SameRun(q) /\ SameWorkers(q)
  <1> USE DEF Typed, TypeOK, SameRun, SameWorkers
  <1>1. CASE Start(r) \/ Cancel(r)
    BY <1>1 DEF Start, Cancel
  <1>2. CASE FeederStep(r)
    BY <1>2 DEF FeederStep, Collect, CollectMissing, CollectCancelled, CollectDone,
                Feed, FeedEnds, PoolDone, Return
  <1>3. ASSUME NEW w \in Workers, WorkerStep(r, w) PROVE SameRun(q) /\ SameWorkers(q)
    <2>1. CASE \/ SkipUnread(r, w) \/ SkipRead(r, w) \/ RegisterFails(r, w)
               \/ Register(r, w) \/ RegisterFatal(r, w)
      BY <2>1 DEF SkipUnread, SkipRead, RegisterFails, Register, RegisterFatal,
                  Indexed, Skipped
    <2>2. CASE OpenFile(r, w) \/ ReadFile(r, w) \/ WorkerEnds(r, w)
      BY <2>2 DEF OpenFile, ReadFile, WorkerEnds
    <2> QED BY <1>3, <2>1, <2>2 DEF WorkerStep
  <1> QED BY <1>1, <1>2, <1>3

LEMMA AccountStep == Typed /\ AccountInv /\ [Next]_vars => AccountInv'
  <1> SUFFICES ASSUME Typed, AccountInv, [Next]_vars, NEW q \in Runs
               PROVE  Accounted(q)'
    BY DEF AccountInv
  <1>0. Accounted(q)
    BY DEF AccountInv
  <1>1. ASSUME NEW f \in Changing, RemoveFile(f) PROVE Accounted(q)'
    BY <1>0, <1>1, AccountKept DEF RemoveFile, SameRun, SameWorkers
  <1>2. ASSUME NEW f \in Changing, NEW c \in Contents, Write(f, c) PROVE Accounted(q)'
    <2>1. ASSUME NEW w \in Workers
          PROVE  /\ worker'[q][w].at = worker[q][w].at
                 /\ worker'[q][w].item = worker[q][w].item
      <3>1. worker[q][w] \in Worker
        BY DEF Typed, TypeOK
      <3>2. \/ worker'[q][w] = worker[q][w]
            \/ worker'[q][w] = [worker[q][w] EXCEPT !.seen = @ \cup {c}]
        BY <1>2 DEF Write
      <3> QED BY <3>1, <3>2 DEF Worker
    <2> QED BY <1>0, <1>2, <2>1, AccountKept DEF Write, SameRun, SameWorkers
  <1>3. ASSUME NEW r \in Runs,
               \/ Start(r) \/ Cancel(r) \/ FeederStep(r)
               \/ \E w \in Workers : WorkerStep(r, w)
        PROVE Accounted(q)'
    <2>1. CASE q # r
      BY <1>0, <1>3, <2>1, OtherRuns, AccountKept
    <2>2. CASE q = r
      BY <1>0, <1>3, <2>2, RunAccount, CollectAccount, FeedAccount, ReturnAccount,
         WorkerAccount DEF FeederStep
    <2> QED BY <2>1, <2>2
  <1>4. CASE UNCHANGED vars
    BY <1>0, <1>4, AccountKept DEF vars, run, SameRun, SameWorkers
  <1> QED BY <1>1, <1>2, <1>3, <1>4 DEF Next

(* A run that reports no error has every file it listed in its report, as  *)
(* indexed or as skipped and never as both, for any number of workers and  *)
(* whatever is cancelled or fails on the way.                              *)
THEOREM ReportAccountsForEveryFile == Spec => []ReportIsComplete
  <1>1. Typed /\ AccountInv => ReportIsComplete
    <2> SUFFICES ASSUME Typed, AccountInv, NEW r \in Runs, phase[r] = "done",
                        report[r].err = None
                 PROVE  /\ Reported(r) = listed[r]
                        /\ report[r].indexed \cap report[r].skipped = {}
      BY DEF ReportIsComplete, Reported
    <2>1. Accounted(r)
      BY DEF AccountInv
    <2>2. ~ctx[r] /\ queue[r] = {} /\ \A w \in Workers : ~Holds(r, w)
      BY <2>1 DEF Accounted, PhaseInv, LossIsTold
    <2>3. \A f \in listed[r] : f \in Reported(r)
      BY <2>1, <2>2 DEF Accounted, NoneLost
    <2> QED BY <2>1, <2>3 DEF Accounted, OnlyListed, InOnePlace
  <1> QED BY <1>1, TypeInit, TypeStep, AccountInit, AccountStep, PTL DEF Spec
=============================================================================
