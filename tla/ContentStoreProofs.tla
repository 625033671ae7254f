------------------------- MODULE ContentStoreProofs -------------------------
(***************************************************************************)
(* Proofs about ContentStore, for every set of contents, uris, media types *)
(* and concurrent calls.                                                   *)
(***************************************************************************)
EXTENDS ContentStore, TLAPS

(* A call that has started knows what it registers. *)
JobInv ==
    \A r \in Registrars :
        /\ reg[r].pc # "idle" => /\ reg[r].hash \in Hashes
                                 /\ reg[r].media \in MediaTypes
                                 /\ reg[r].uri \in Keys
        /\ reg[r].pc = "raw" => reg[r].raw \in Hashes
        /\ reg[r].hook => reg[r].raw = None

(* The calls that work on files hold the lock, and know their file. *)
CallInv ==
    /\ \A p \in Purgers :
         /\ lock = p <=> purger[p].pc \in {"loop", "moved", "keep", "doomed"}
         /\ purger[p].pc \in {"moved", "keep", "doomed"} => purger[p].cur \in Hashes
         /\ purger[p].pc \in {"idle", "wait", "loop"} => purger[p].cur = None
    /\ \A c \in Collectors :
         /\ lock = c <=> gc[c].pc # "idle"
         /\ gc[c].pc = "remove" => gc[c].cur \in Entries

Typed == TypeOK /\ JobInv /\ CallInv

LEMMA InitTyped == Init => Typed
  BY StoreAssumption DEF Init, Typed, TypeOK, JobInv, CallInv, IdleJob, IdlePurge, IdleGC, Reclaiming, Collecting,
     Job, PurgeCall, GCCall, Mtime

LEMMA RegisterTyped ==
    ASSUME Typed, NEW r \in Registrars, RegisterStep(r)
    PROVE  Typed'
  <1> USE StoreAssumption
  <1>1. CASE RegisterPlace(r)
    <2>1. PICK h \in Hashes, m \in MediaTypes, u \in Keys, raw \in Hashes \cup {None},
               e \in Expectations :
            /\ u \in Hashes => u = h /\ raw = None /\ e = None
            /\ WriteBlob(h)
            /\ reg' = [reg EXCEPT ![r] =
                 [pc |-> IF raw = None THEN "commit" ELSE "raw", hash |-> h,
                  media |-> m, uri |-> u, hook |-> u \in Hashes, raw |-> raw, expect |-> e]]
      BY <1>1 DEF RegisterPlace
    <2>2. reg' \in [Registrars -> Job]
      BY <2>1 DEF Typed, TypeOK, Job
    <2>3. JobInv'
      BY <2>1, <2>2 DEF Typed, TypeOK, JobInv
    <2>4. blob' \in [Hashes -> Mtime] /\ exposed' \subseteq Hashes
      BY <2>1 DEF WriteBlob, Typed, TypeOK, Mtime
    <2> QED
      BY <1>1, <2>2, <2>3, <2>4 DEF RegisterPlace, Typed, TypeOK, CallInv, rows, ghost
  <1>2. CASE RegisterPlaceRaw(r)
    <2>1. reg' \in [Registrars -> Job] /\ JobInv'
      BY <1>2 DEF RegisterPlaceRaw, Typed, TypeOK, JobInv, Job
    <2>2. blob' \in [Hashes -> Mtime] /\ exposed' \subseteq Hashes
      BY <1>2 DEF RegisterPlaceRaw, WriteBlob, Typed, TypeOK, JobInv, Mtime
    <2> QED
      BY <1>2, <2>1, <2>2 DEF RegisterPlaceRaw, Typed, TypeOK, CallInv, rows, ghost
  <1>3. ASSUME reg' = [reg EXCEPT ![r] = IdleJob]
        PROVE  reg' \in [Registrars -> Job] /\ JobInv'
    BY <1>3 DEF Typed, TypeOK, JobInv, Job, IdleJob
  <1>4. ASSUME reg[r].pc = "commit", NEW id \in 1..MaxId, PutSource(reg[r], id)
        PROVE  sources' \subseteq Source
    <2>1. SourceRow(reg[r], id) \in Source
      BY <1>4 DEF SourceRow, Source, Typed, TypeOK, JobInv, Job
    <2> QED
      BY <1>4, <2>1 DEF PutSource, Typed, TypeOK
  <1>5. CASE RegisterExisting(r)
    <2>1. PICK a \in artifacts : PutSource(reg[r], a.id)
      BY <1>5 DEF RegisterExisting
    <2>2. a.id \in 1..MaxId
      BY DEF Typed, TypeOK, Artifact
    <2>3. sources' \subseteq Source
      BY <1>4, <1>5, <2>1, <2>2 DEF RegisterExisting
    <2> QED
      BY <1>3, <1>5, <2>3 DEF RegisterExisting, Typed, TypeOK, CallInv, files, ghost
  <1>6. CASE RegisterNew(r)
    <2>1. PICK id \in 1..MaxId, usable \in MarkUsable :
            LET row == [id |-> id, hash |-> reg[r].hash, media |-> reg[r].media]
            IN /\ artifacts' = artifacts \cup {row}
               /\ chunks' = chunks \cup {id}
               /\ watermark' = IF usable THEN id ELSE watermark
               /\ PutSource(reg[r], id)
               /\ meaning' = meaning \cup {row}
               /\ unlogged' = IF usable THEN unlogged ELSE unlogged \cup {id}
      BY <1>6 DEF RegisterNew
    <2>2. [id |-> id, hash |-> reg[r].hash, media |-> reg[r].media] \in Artifact
      BY <1>6 DEF RegisterNew, Artifact, Typed, JobInv
    <2>3. sources' \subseteq Source
      BY <1>4, <1>6, <2>1 DEF RegisterNew
    <2> QED
      BY <1>3, <1>6, <2>1, <2>2, <2>3 DEF RegisterNew, Typed, TypeOK, CallInv, files
  <1>7. CASE RegisterFail(r)
    BY <1>3, <1>7 DEF RegisterFail, Typed, TypeOK, CallInv, rows, files, ghost
  <1> QED
    BY <1>1, <1>2, <1>5, <1>6, <1>7 DEF RegisterStep

LEMMA PurgeTyped ==
    ASSUME Typed,
           \/ \E c \in 1..now+1 : PurgeOlderThan(c)
           \/ \E p \in Purgers, c \in 0..now+1 : PurgeHookRows(p, c)
    PROVE  Typed'
  <1> USE StoreAssumption
  <1>1. ASSUME NEW c \in 1..now+1, PurgeOlderThan(c) PROVE Typed'
    BY <1>1 DEF PurgeOlderThan, Typed, TypeOK, JobInv, CallInv, files, ghost
  <1>2. ASSUME NEW p \in Purgers, NEW c \in 0..now+1, PurgeHookRows(p, c) PROVE Typed'
    <2>1. PICK S \in SUBSET ShadowOwned(c) :
            LET ids == {a.id : a \in {b \in artifacts : b.hash \in S}}
            IN /\ chunks' = chunks \ ids
               /\ sources' = {s \in sources : s.art \notin ids}
               /\ artifacts' = {a \in artifacts : a.hash \notin S}
               /\ purger' = [purger EXCEPT ![p] =
                    [pc |-> "wait", todo |-> S, cur |-> None, cutoff |-> c]]
      BY <1>2 DEF PurgeHookRows
    <2>2. S \subseteq Hashes
      BY DEF ShadowOwned
    <2>3. c \in 0..MaxTime+1
      BY DEF Typed, TypeOK
    <2>4. purger' \in [Purgers -> PurgeCall]
      BY <2>1, <2>2, <2>3 DEF Typed, TypeOK, PurgeCall
    <2>5. CallInv'
      BY <1>2, <2>1 DEF PurgeHookRows, Typed, TypeOK, CallInv
    <2> QED
      BY <1>2, <2>1, <2>4, <2>5 DEF PurgeHookRows, Typed, TypeOK, JobInv, files, ghost
  <1> QED
    BY <1>1, <1>2

LEMMA ReclaimTyped ==
    ASSUME Typed, NEW p \in Purgers, ReclaimStep(p) \/ PurgerCrash(p)
    PROVE  Typed'
  <1> USE StoreAssumption
  <1> SUFFICES /\ purger' \in [Purgers -> PurgeCall]
               /\ blob' \in [Hashes -> Mtime] /\ quar' \in [Hashes -> Mtime]
               /\ lock' \in Purgers \cup Collectors \cup {None}
               /\ exposed' \subseteq Hashes
               /\ CallInv'
    BY DEF Typed, TypeOK, JobInv, ReclaimStep, PurgerCrash, ReclaimLock, ReclaimLockFail,
       ReclaimRename, ReclaimCheck, ReclaimRemove, ReclaimRemoveFail, ReclaimRollback,
       ReclaimRollbackFail, ReclaimDone, rows, ghost
  <1> USE DEF Typed, TypeOK, PurgeCall, Reclaiming
  <1>1. CASE ReclaimLock(p)
    <2>1. purger' \in [Purgers -> PurgeCall]
      BY <1>1 DEF ReclaimLock
    <2>2. CallInv'
      BY <1>1 DEF ReclaimLock, CallInv
    <2> QED
      BY <1>1, <2>1, <2>2 DEF ReclaimLock, files
  <1>2. CASE ReclaimLockFail(p)
    BY <1>2 DEF ReclaimLockFail, CallInv, files, IdlePurge
  <1>3. CASE ReclaimRename(p)
    <2>1. PICK h \in purger[p].todo :
           \/ /\ blob[h] # None
              /\ quar' = [quar EXCEPT ![h] = blob[h]]
              /\ blob' = [blob EXCEPT ![h] = None]
              /\ purger' = [purger EXCEPT ![p] =
                                Reclaiming("moved", purger[p].todo \ {h}, h)]
           \/ /\ purger' = [purger EXCEPT ![p] =
                                Reclaiming("loop", purger[p].todo \ {h}, None)]
              /\ UNCHANGED files
      BY <1>3 DEF ReclaimRename
    <2>2. h \in Hashes /\ purger[p].pc = "loop" /\ lock = p
      BY <1>3 DEF ReclaimRename, CallInv
    <2>3. purger' \in [Purgers -> PurgeCall]
      <3>1. /\ Reclaiming("moved", purger[p].todo \ {h}, h) \in PurgeCall
            /\ Reclaiming("loop", purger[p].todo \ {h}, None) \in PurgeCall
        BY <2>2
      <3> QED
        BY <2>1, <3>1
    <2>4. blob' \in [Hashes -> Mtime] /\ quar' \in [Hashes -> Mtime]
      BY <2>1, <2>2 DEF files, Mtime
    <2>5. CallInv'
      BY <1>3, <2>1, <2>2 DEF ReclaimRename, CallInv
    <2> QED
      BY <1>3, <2>3, <2>4, <2>5 DEF ReclaimRename
  <1>4. CASE ReclaimCheck(p)
    BY <1>4 DEF ReclaimCheck, CallInv, files
  <1>5. CASE ReclaimRemove(p)
    BY <1>5 DEF ReclaimRemove, CallInv, Mtime
  <1>6. CASE ReclaimRemoveFail(p)
    BY <1>6 DEF ReclaimRemoveFail, CallInv, files
  <1>7. CASE ReclaimRollback(p)
    BY <1>7 DEF ReclaimRollback, CallInv, Mtime
  <1>8. CASE ReclaimRollbackFail(p)
    BY <1>8 DEF ReclaimRollbackFail, CallInv, files
  <1>9. CASE ReclaimDone(p)
    BY <1>9 DEF ReclaimDone, CallInv, files, IdlePurge
  <1>10. CASE PurgerCrash(p)
    BY <1>10 DEF PurgerCrash, CallInv, files, IdlePurge
  <1> QED
    BY <1>1, <1>2, <1>3, <1>4, <1>5, <1>6, <1>7, <1>8, <1>9, <1>10 DEF ReclaimStep

LEMMA CollectTyped ==
    ASSUME Typed, NEW c \in Collectors, GCStep(c)
    PROVE  Typed'
  <1> USE StoreAssumption
  <1> SUFFICES /\ gc' \in [Collectors -> GCCall]
               /\ blob' \in [Hashes -> Mtime] /\ quar' \in [Hashes -> Mtime]
               /\ lock' \in Purgers \cup Collectors \cup {None}
               /\ exposed' \subseteq Hashes
               /\ CallInv'
    BY DEF Typed, TypeOK, JobInv, GCStep, GCLock, GCQueryContent, GCQueryRaw, GCStat,
       GCRemove, GCDone, rows, ghost
  <1> USE DEF Typed, TypeOK, GCCall, Collecting, Mtime
  <1>1. CASE GCLock(c)
    BY <1>1 DEF GCLock, CallInv, files
  <1>2. CASE GCQueryContent(c)
    <2>1. gc' \in [Collectors -> GCCall]
      BY <1>2 DEF GCQueryContent
    <2>2. CallInv'
      BY <1>2 DEF GCQueryContent, CallInv
    <2> QED
      BY <1>2, <2>1, <2>2 DEF GCQueryContent, files
  <1>3. CASE GCQueryRaw(c)
    <2>1. gc' \in [Collectors -> GCCall]
      BY <1>3 DEF GCQueryRaw
    <2>2. CallInv'
      BY <1>3 DEF GCQueryRaw, CallInv
    <2> QED
      BY <1>3, <2>1, <2>2 DEF GCQueryRaw, files
  <1>4. CASE GCStat(c)
    <2>1. PICK e \in gc[c].todo :
            gc' = [gc EXCEPT ![c] =
                     IF GCCandidate(c, e)
                     THEN Collecting("remove", gc[c].refs, gc[c].todo \ {e}, e, EntryTime(e))
                     ELSE Collecting("scan", gc[c].refs, gc[c].todo \ {e}, None, None)]
      BY <1>4 DEF GCStat
    <2>2. e \in Entries /\ EntryTime(e) \in Mtime
      BY DEF Entries, EntryTime
    <2>3. gc' \in [Collectors -> GCCall]
      BY <2>1, <2>2
    <2> QED
      BY <1>4, <2>1, <2>2, <2>3 DEF GCStat, CallInv, files
  <1>5. CASE GCRemove(c)
    <2>1. gc[c].cur[1] \in Hashes
      BY <1>5 DEF GCRemove, CallInv, Entries
    <2>2. gc' \in [Collectors -> GCCall]
      BY <1>5 DEF GCRemove, Mtime
    <2>3. CallInv'
      BY <1>5 DEF GCRemove, CallInv
    <2>4. blob' \in [Hashes -> Mtime] /\ quar' \in [Hashes -> Mtime] /\ exposed' \subseteq Hashes
      BY <1>5, <2>1 DEF GCRemove, Mtime
    <2> QED
      BY <1>5, <2>2, <2>3, <2>4 DEF GCRemove
  <1>6. CASE GCDone(c)
    BY <1>6 DEF GCDone, CallInv, files, IdleGC, Mtime
  <1> QED
    BY <1>1, <1>2, <1>3, <1>4, <1>5, <1>6 DEF GCStep

LEMMA TickTyped == Typed /\ Tick => Typed'
  BY StoreAssumption DEF Tick, Typed, TypeOK, JobInv, CallInv, rows, files, ghost

LEMMA NextTyped == Typed /\ [Next]_vars => Typed'
  <1>1. Typed /\ UNCHANGED vars => Typed'
    BY DEF vars, rows, files, ghost, Typed, TypeOK, JobInv, CallInv
  <1> QED
    BY <1>1, RegisterTyped, PurgeTyped, ReclaimTyped, CollectTyped, TickTyped DEF Next

(* Types are kept by every step of every call: Register, both purges, the  *)
(* reclaim loop, the collector.                                            *)
THEOREM TypeCorrect == Spec => []TypeOK
  <1>1. Typed => TypeOK
    BY DEF Typed
  <1> QED
    BY <1>1, InitTyped, NextTyped, PTL DEF Spec

(* The store lock is held exactly by the calls that are going to release it *)
(* (reclaimHookBlobs, GCOrphanBlobs).                                      *)
THEOREM LockHasAHolder == Spec => []LockIsInUse
  <1>1. Typed => LockIsInUse
    BY DEF Typed, CallInv, LockIsInUse
  <1> QED
    BY <1>1, InitTyped, NextTyped, PTL DEF Spec

-----------------------------------------------------------------------------
(* The rows. *)

RowInv ==
    /\ RowsAgree
    /\ \A s \in sources : s.hook => s.raw = None

IdInv ==
    /\ artifacts \subseteq meaning
    /\ \A m \in meaning : m.id \in unlogged \/ m.id <= watermark
    /\ IdNeverRebinds

(* Only Register and the two purges write rows. *)
LEMMA OtherStepsKeepRows ==
    ASSUME [Next]_vars,
           ~\E r \in Registrars : RegisterExisting(r) \/ RegisterNew(r),
           ~\E c \in 1..now+1 : PurgeOlderThan(c),
           ~\E p \in Purgers, c \in 0..now+1 : PurgeHookRows(p, c)
    PROVE  UNCHANGED <<rows, ghost>>
  BY DEF Next, RegisterStep, ReclaimStep, GCStep, RegisterPlace, RegisterPlaceRaw, RegisterFail,
     PurgerCrash, ReclaimLock, ReclaimLockFail, ReclaimRename, ReclaimCheck, ReclaimRemove,
     ReclaimRemoveFail, ReclaimRollback, ReclaimRollbackFail, ReclaimDone, GCLock,
     GCQueryContent, GCQueryRaw, GCStat, GCRemove, GCDone, Tick, vars

LEMMA NewRow ==
    ASSUME NEW r \in Registrars, RegisterNew(r)
    PROVE  \E id \in 1..MaxId, usable \in MarkUsable :
             LET row == [id |-> id, hash |-> reg[r].hash, media |-> reg[r].media]
             IN /\ IsNextArtifactID(id, IF usable THEN watermark ELSE 0)
                /\ artifacts' = artifacts \cup {row}
                /\ chunks' = chunks \cup {id}
                /\ watermark' = IF usable THEN id ELSE watermark
                /\ PutSource(reg[r], id)
                /\ meaning' = meaning \cup {row}
                /\ unlogged' = IF usable THEN unlogged ELSE unlogged \cup {id}
  BY DEF RegisterNew

LEMMA RowStep == Typed /\ RowInv /\ [Next]_vars => RowInv'
  <1> SUFFICES ASSUME Typed, RowInv, [Next]_vars PROVE RowInv'
    OBVIOUS
  <1> USE StoreAssumption DEF RowInv, RowsAgree
  <1>1. ASSUME NEW r \in Registrars, NEW id \in 1..MaxId, PutSource(reg[r], id),
               \A s \in sources : s.hook => s.raw = None
        PROVE  \A s \in sources' : s.hook => s.raw = None
    BY <1>1 DEF PutSource, SourceRow, Typed, JobInv
  <1>2. ASSUME NEW r \in Registrars, RegisterExisting(r) PROVE RowInv'
    <2>1. PICK a \in artifacts : PutSource(reg[r], a.id)
      BY <1>2 DEF RegisterExisting
    <2>2. a.id \in 1..MaxId
      BY DEF Typed, TypeOK, Artifact
    <2>3. \A s \in sources' : \E b \in artifacts : s.art = b.id
      BY <2>1 DEF PutSource, SourceRow
    <2> QED
      BY <1>1, <1>2, <2>1, <2>2, <2>3 DEF RegisterExisting
  <1>3. ASSUME NEW r \in Registrars, RegisterNew(r) PROVE RowInv'
    <2>1. PICK id \in 1..MaxId, usable \in MarkUsable :
             LET row == [id |-> id, hash |-> reg[r].hash, media |-> reg[r].media]
             IN /\ IsNextArtifactID(id, IF usable THEN watermark ELSE 0)
                /\ artifacts' = artifacts \cup {row}
                /\ chunks' = chunks \cup {id}
                /\ PutSource(reg[r], id)
      BY <1>3, NewRow
    <2> DEFINE row == [id |-> id, hash |-> reg[r].hash, media |-> reg[r].media]
    <2>2. \A a \in artifacts : a.id \in 1..MaxId /\ id > a.id
      BY <2>1 DEF IsNextArtifactID, Typed, TypeOK, Artifact
    <2>3. \A a \in artifacts : a.id # row.id /\ ~(a.hash = row.hash /\ a.media = row.media)
      BY <1>3, <2>2 DEF RegisterNew
    <2>4. \A s \in sources' : \E b \in artifacts' : s.art = b.id
      <3>1. \A s \in sources : \E b \in artifacts' : s.art = b.id
        BY <2>1
      <3>2. row \in artifacts' /\ row.id = id /\ SourceRow(reg[r], id).art = id
        BY <2>1 DEF SourceRow
      <3> QED
        BY <2>1, <3>1, <3>2 DEF PutSource
    <2>5. chunks' = {a.id : a \in artifacts'}
      <3>1. chunks' = {a.id : a \in artifacts} \cup {row.id} /\ artifacts' = artifacts \cup {row}
        BY <2>1
      <3> HIDE DEF row
      <3> QED
        BY <3>1
    <2>6. \A a, b \in artifacts' :
            a.id = b.id \/ (a.hash = b.hash /\ a.media = b.media) => a = b
      BY <2>1, <2>3
    <2> QED
      BY <1>1, <2>1, <2>4, <2>5, <2>6
  <1>4. ASSUME NEW c \in 1..now+1, PurgeOlderThan(c) PROVE RowInv'
    BY <1>4 DEF PurgeOlderThan
  <1>5. ASSUME NEW p \in Purgers, NEW c \in 0..now+1, PurgeHookRows(p, c) PROVE RowInv'
    <2>1. PICK S \in SUBSET ShadowOwned(c) :
            LET ids == {a.id : a \in {b \in artifacts : b.hash \in S}}
            IN /\ chunks' = chunks \ ids
               /\ sources' = {s \in sources : s.art \notin ids}
               /\ artifacts' = {a \in artifacts : a.hash \notin S}
      BY <1>5 DEF PurgeHookRows
    <2> DEFINE ids == {a.id : a \in {b \in artifacts : b.hash \in S}}
    <2>2. \A a \in artifacts : a.id \in ids <=> a.hash \in S
      OBVIOUS
    <2>3. \A s \in sources' : \E a \in artifacts' : s.art = a.id
      BY <2>1, <2>2
    <2>4. chunks' = {a.id : a \in artifacts'}
      BY <2>1, <2>2
    <2> QED
      BY <2>1, <2>3, <2>4
  <1> QED
    BY <1>2, <1>3, <1>4, <1>5, OtherStepsKeepRows DEF rows

(* The three tables stay in step through Register, PurgeOlderThan and      *)
(* purgeHookRows, whatever runs concurrently.                              *)
THEOREM RowsStayInStep == Spec => []RowsAgree
  <1>1. Init => RowInv
    BY DEF Init, RowInv, RowsAgree
  <1>2. RowInv => RowsAgree
    BY DEF RowInv
  <1> QED
    BY <1>1, <1>2, InitTyped, NextTyped, RowStep, PTL DEF Spec

LEMMA IdStep == Typed /\ IdInv /\ [Next]_vars => IdInv'
  <1> SUFFICES ASSUME Typed, IdInv, [Next]_vars PROVE IdInv'
    OBVIOUS
  <1> USE StoreAssumption DEF IdInv, IdNeverRebinds
  <1>1. ASSUME NEW r \in Registrars, RegisterNew(r) PROVE IdInv'
    <2>1. PICK id \in 1..MaxId, usable \in MarkUsable :
             LET row == [id |-> id, hash |-> reg[r].hash, media |-> reg[r].media]
             IN /\ IsNextArtifactID(id, IF usable THEN watermark ELSE 0)
                /\ artifacts' = artifacts \cup {row}
                /\ watermark' = IF usable THEN id ELSE watermark
                /\ meaning' = meaning \cup {row}
                /\ unlogged' = IF usable THEN unlogged ELSE unlogged \cup {id}
      BY <1>1, NewRow
    <2>2. \A m \in meaning : m.id \in 1..MaxId
      BY DEF Typed, TypeOK, Artifact
    <2>3. watermark \in 0..MaxId /\ (usable => id > watermark)
      BY <2>1 DEF IsNextArtifactID, Typed, TypeOK
    <2>4. CASE usable
      BY <2>1, <2>2, <2>3, <2>4
    <2>5. CASE ~usable
      BY <2>1, <2>2, <2>3, <2>5
    <2> QED
      BY <2>4, <2>5
  <1>2. ASSUME NEW r \in Registrars, RegisterExisting(r) PROVE IdInv'
    BY <1>2 DEF RegisterExisting, ghost
  <1>3. ASSUME NEW c \in 1..now+1, PurgeOlderThan(c) PROVE IdInv'
    BY <1>3 DEF PurgeOlderThan, ghost
  <1>4. ASSUME NEW p \in Purgers, NEW c \in 0..now+1, PurgeHookRows(p, c) PROVE IdInv'
    BY <1>4 DEF PurgeHookRows, ghost
  <1> QED
    BY <1>1, <1>2, <1>3, <1>4, OtherStepsKeepRows DEF rows, ghost

(* An id given out by Register names one content for ever, as long as the  *)
(* watermark statements of its transaction worked.                         *)
THEOREM IdsNameOneContent == Spec => []IdNeverRebinds
  <1>1. Init => IdInv
    BY DEF Init, IdInv, IdNeverRebinds
  <1>2. IdInv => IdNeverRebinds
    BY DEF IdInv
  <1> QED
    BY <1>1, <1>2, InitTyped, NextTyped, IdStep, PTL DEF Spec

LEMMA SparesStep == Typed /\ RowInv /\ [Next]_vars => [SparesOthers]_vars
  <1> SUFFICES ASSUME Typed, RowInv, [Next]_vars,
                      NEW p \in Purgers, purger[p].pc = "idle", purger'[p].pc = "wait"
               PROVE  /\ \A s \in sources \ sources' :
                           s.hook /\ (purger'[p].cutoff > 0 => s.at < purger'[p].cutoff)
                      /\ \A h \in purger'[p].todo : ~Referenced(h)'
                      /\ \A a \in artifacts \ artifacts' : a.hash \in purger'[p].todo
    BY DEF SparesOthers
  <1>1. \E c \in 0..now+1 : PurgeHookRows(p, c)
    BY DEF Next, vars, RegisterStep, ReclaimStep, GCStep, RegisterPlace, RegisterPlaceRaw,
       RegisterExisting, RegisterNew, RegisterFail, PurgeOlderThan, PurgeHookRows, PurgerCrash,
       ReclaimLock, ReclaimLockFail, ReclaimRename, ReclaimCheck, ReclaimRemove,
       ReclaimRemoveFail, ReclaimRollback, ReclaimRollbackFail, ReclaimDone, GCLock,
       GCQueryContent, GCQueryRaw, GCStat, GCRemove, GCDone, Tick, Reclaiming, IdlePurge,
       Typed, TypeOK
  <1>2. PICK c \in 0..now+1 : PurgeHookRows(p, c)
    BY <1>1
  <1>3. PICK S \in SUBSET ShadowOwned(c) :
          LET ids == {a.id : a \in {b \in artifacts : b.hash \in S}}
          IN /\ sources' = {s \in sources : s.art \notin ids}
             /\ artifacts' = {a \in artifacts : a.hash \notin S}
             /\ purger' = [purger EXCEPT ![p] =
                  [pc |-> "wait", todo |-> S, cur |-> None, cutoff |-> c]]
    BY <1>2 DEF PurgeHookRows
  <1>4. purger'[p].todo = S /\ purger'[p].cutoff = c
    BY <1>3 DEF Typed, TypeOK
  <1>5. ASSUME NEW s \in sources \ sources' PROVE s.hook /\ (c > 0 => s.at < c)
    <2>1. PICK a \in artifacts : a.hash \in S /\ s.art = a.id
      BY <1>3
    <2> QED
      BY <2>1 DEF ShadowOwned, SourcesOf
  <1>6. ASSUME NEW h \in S PROVE ~Referenced(h)'
    <2>1. ~ContentReferenced(h)'
      BY <1>3 DEF ContentReferenced
    <2>2. ~RawReferenced(h)'
      <3> SUFFICES ASSUME NEW s \in sources, s.raw = h PROVE FALSE
        BY <1>3 DEF RawReferenced
      <3>1. s.hook /\ h \in Hashes
        BY DEF ShadowOwned, Typed, TypeOK, Source
      <3> QED
        BY <3>1, StoreAssumption DEF RowInv
    <2> QED
      BY <2>1, <2>2 DEF Referenced
  <1> QED
    BY <1>3, <1>4, <1>5, <1>6

(* A hook purge never touches explicit sources, raw blobs or captures      *)
(* renewed since its cutoff, and hands to reclaimHookBlobs only hashes no  *)
(* row names any more.                                                     *)
THEOREM HookPurgeIsSelective == Spec => HookPurgeSparesOthers
  <1>1. Init => RowInv
    BY DEF Init, RowInv, RowsAgree
  <1> QED
    BY <1>1, InitTyped, NextTyped, RowStep, SparesStep, PTL DEF Spec, HookPurgeSparesOthers

-----------------------------------------------------------------------------
(* The files. *)

(* A blob placed by a call that has not committed is too young for anyone  *)
(* to remove, at its path or in quarantine.                                *)
PlacedSafe(h) ==
    \/ blob[h] = now
    \/ \E p \in Purgers : Holding(p, h) /\ quar[h] = now

(* What the collector knows: a referenced blob is in its list or young. *)
CollectorSafe(c) ==
    /\ gc[c].pc = "raw" =>
         \A h \in Hashes \ exposed :
            ContentReferenced(h) => h \in gc[c].refs \/ blob[h] = now
    /\ gc[c].pc \in {"scan", "remove"} =>
         \A h \in Hashes \ exposed :
            Referenced(h) => h \in gc[c].refs \/ blob[h] = now
    /\ gc[c].pc = "remove" =>
         /\ gc[c].seen # now
         /\ gc[c].cur[2] = "blob" => gc[c].cur[1] \notin gc[c].refs

FileInv ==
    /\ \A h \in Hashes : blob[h] # None => blob[h] <= now
    /\ \A h \in Hashes : quar[h] # None => quar[h] <= now
    /\ \A p \in Purgers :
         purger[p].pc \in {"moved", "keep", "doomed"} => quar[purger[p].cur] # None
    /\ \A h \in Hashes \ exposed : InFlight(h) => PlacedSafe(h)
    /\ \A c \in Collectors : CollectorSafe(c)
    /\ BlobLossOnlyInOpenWindows

(* A young file at its path is what a placed blob is while the collector   *)
(* has the lock, and a placed blob is kept in any case.                    *)
LEMMA PlacedFacts ==
    ASSUME Typed, FileInv, NEW h \in Hashes \ exposed, InFlight(h)
    PROVE  /\ BlobKept(h)
           /\ \A c \in Collectors : gc[c].pc # "idle" => blob[h] = now
  BY StoreAssumption DEF FileInv, PlacedSafe, BlobKept, Holding, Typed, TypeOK, CallInv

(* A step that only moves rows and ends registrations. *)
LEMMA RowStepKeepsFiles ==
    ASSUME Typed, FileInv,
           UNCHANGED <<files, lock, purger, gc, now, exposed>>,
           \A h \in Hashes : /\ InFlight(h)' => InFlight(h)
                             /\ Referenced(h)' => Referenced(h) \/ InFlight(h)
                             /\ ContentReferenced(h)' => ContentReferenced(h) \/ InFlight(h)
    PROVE  FileInv'
  <1>1. \A h \in Hashes \ exposed' : InFlight(h)' => PlacedSafe(h)'
    BY DEF FileInv, PlacedSafe, Holding, files
  <1>2. BlobLossOnlyInOpenWindows'
    <2> SUFFICES ASSUME NEW h \in Hashes \ exposed, Referenced(h)' PROVE BlobKept(h)'
      BY DEF BlobLossOnlyInOpenWindows
    <2>1. BlobKept(h)
      BY PlacedFacts DEF FileInv, BlobLossOnlyInOpenWindows
    <2> QED
      BY <2>1 DEF BlobKept, Holding, files
  <1>3. \A c \in Collectors : CollectorSafe(c)'
    BY PlacedFacts DEF FileInv, CollectorSafe, files
  <1> QED
    BY <1>1, <1>2, <1>3 DEF FileInv, files

LEMMA CommitKeepsFiles ==
    ASSUME Typed, FileInv, NEW r \in Registrars,
           RegisterExisting(r) \/ RegisterNew(r) \/ RegisterFail(r)
    PROVE  FileInv'
  <1>1. reg' = [reg EXCEPT ![r] = IdleJob] /\ UNCHANGED <<files, lock, purger, gc, now, exposed>>
    BY DEF RegisterExisting, RegisterNew, RegisterFail
  <1>2. \A h \in Hashes : InFlight(h)' => InFlight(h)
    BY <1>1, StoreAssumption DEF InFlight, Placed, IdleJob, Typed, TypeOK
  <1>3. ASSUME NEW id, PutSource(reg[r], id), NEW h \in Hashes, RawReferenced(h)',
               reg[r].pc = "commit"
        PROVE  RawReferenced(h) \/ InFlight(h)
    BY <1>3 DEF PutSource, SourceRow, RawReferenced, InFlight, Placed
  <1>4. CASE RegisterFail(r)
    BY <1>1, <1>2, <1>4, RowStepKeepsFiles
       DEF RegisterFail, rows, Referenced, ContentReferenced, RawReferenced
  <1>5. CASE RegisterExisting(r)
    <2>1. PICK a \in artifacts : PutSource(reg[r], a.id)
      BY <1>5 DEF RegisterExisting
    <2>2. \A h \in Hashes : ContentReferenced(h)' => ContentReferenced(h)
      BY <1>5 DEF RegisterExisting, ContentReferenced
    <2>3. \A h \in Hashes : Referenced(h)' => Referenced(h) \/ InFlight(h)
      BY <1>3, <1>5, <2>1, <2>2 DEF RegisterExisting, Referenced
    <2> QED
      BY <1>1, <1>2, <2>2, <2>3, RowStepKeepsFiles
  <1>6. CASE RegisterNew(r)
    <2>1. PICK id \in 1..MaxId :
            /\ artifacts' = artifacts \cup
                 {[id |-> id, hash |-> reg[r].hash, media |-> reg[r].media]}
            /\ PutSource(reg[r], id)
      BY <1>6, NewRow
    <2>2. \A h \in Hashes : ContentReferenced(h)' => ContentReferenced(h) \/ InFlight(h)
      BY <1>6, <2>1 DEF RegisterNew, ContentReferenced, InFlight, Placed
    <2>3. \A h \in Hashes : Referenced(h)' => Referenced(h) \/ InFlight(h)
      BY <1>3, <1>6, <2>1, <2>2 DEF RegisterNew, Referenced
    <2> QED
      BY <1>1, <1>2, <2>2, <2>3, RowStepKeepsFiles
  <1> QED
    BY <1>4, <1>5, <1>6

LEMMA PlaceKeepsFiles ==
    ASSUME Typed, FileInv, NEW r \in Registrars, RegisterPlace(r) \/ RegisterPlaceRaw(r)
    PROVE  FileInv'
  <1>1. PICK h \in Hashes : /\ WriteBlob(h)
                            /\ \A g \in Hashes : InFlight(g)' => InFlight(g) \/ g = h
    <2>1. CASE RegisterPlace(r)
      <3>1. PICK h \in Hashes, raw \in Hashes \cup {None} :
              /\ WriteBlob(h)
              /\ \E m \in MediaTypes, u \in Keys, e \in Expectations :
                   reg' = [reg EXCEPT ![r] =
                     [pc |-> IF raw = None THEN "commit" ELSE "raw", hash |-> h,
                      media |-> m, uri |-> u, hook |-> u \in Hashes, raw |-> raw, expect |-> e]]
        BY <2>1 DEF RegisterPlace
      <3>2. \A g \in Hashes : InFlight(g)' => InFlight(g) \/ g = h
        BY <3>1, StoreAssumption DEF InFlight, Placed, Typed, TypeOK
      <3> QED
        BY <3>1, <3>2
    <2>2. CASE RegisterPlaceRaw(r)
      <3>1. reg[r].raw \in Hashes /\ WriteBlob(reg[r].raw)
        BY <2>2 DEF RegisterPlaceRaw, Typed, JobInv
      <3>2. \A g \in Hashes : InFlight(g)' => InFlight(g) \/ g = reg[r].raw
        BY <2>2 DEF RegisterPlaceRaw, InFlight, Placed, Typed, TypeOK, Job
      <3> QED
        BY <3>1, <3>2
    <2> QED
      BY <2>1, <2>2
  <1>2. UNCHANGED <<rows, quar, lock, purger, gc, now>>
    BY DEF RegisterPlace, RegisterPlaceRaw
  <1>3. /\ blob' = [blob EXCEPT ![h] = now] /\ exposed' = exposed \ {h}
        /\ blob'[h] = now
        /\ \A g \in Hashes : g # h => blob'[g] = blob[g] /\ (g \in exposed' <=> g \in exposed)
    BY <1>1 DEF WriteBlob, Typed, TypeOK
  <1>4. now \in Nat /\ now # None
    BY StoreAssumption DEF Typed, TypeOK
  <1>5. \A g \in Hashes : /\ Referenced(g)' <=> Referenced(g)
                          /\ ContentReferenced(g)' <=> ContentReferenced(g)
    BY <1>2 DEF Referenced, ContentReferenced, RawReferenced, rows
  <1>6. \A g \in Hashes \ exposed' : InFlight(g)' => PlacedSafe(g)'
    BY <1>1, <1>2, <1>3 DEF FileInv, PlacedSafe, Holding
  <1>7. BlobLossOnlyInOpenWindows'
    BY <1>2, <1>3, <1>4, <1>5 DEF FileInv, BlobLossOnlyInOpenWindows, BlobKept, Holding
  <1>8. \A c \in Collectors : CollectorSafe(c)'
    BY <1>2, <1>3, <1>5 DEF FileInv, CollectorSafe
  <1>9. \A g \in Hashes : blob'[g] # None => blob'[g] <= now'
    BY <1>2, <1>3, <1>4 DEF FileInv
  <1> QED
    BY <1>2, <1>6, <1>7, <1>8, <1>9 DEF FileInv

LEMMA PurgeKeepsFiles ==
    ASSUME Typed, FileInv,
           \/ \E c \in 1..now+1 : PurgeOlderThan(c)
           \/ \E p \in Purgers, c \in 0..now+1 : PurgeHookRows(p, c)
    PROVE  FileInv'
  <1>1. CASE \E c \in 1..now+1 : PurgeOlderThan(c)
    <2>1. artifacts' \subseteq artifacts /\ sources' \subseteq sources
          /\ UNCHANGED <<files, lock, reg, purger, gc, now, exposed>>
      BY <1>1 DEF PurgeOlderThan
    <2>2. \A h \in Hashes : /\ InFlight(h)' => InFlight(h)
                            /\ Referenced(h)' => Referenced(h)
                            /\ ContentReferenced(h)' => ContentReferenced(h)
      BY <2>1 DEF InFlight, Referenced, ContentReferenced, RawReferenced
    <2> QED
      BY <2>1, <2>2, RowStepKeepsFiles
  <1>2. CASE \E p \in Purgers, c \in 0..now+1 : PurgeHookRows(p, c)
    <2>1. PICK p \in Purgers, c \in 0..now+1 : PurgeHookRows(p, c)
      BY <1>2
    <2>2. /\ artifacts' \subseteq artifacts /\ sources' \subseteq sources
          /\ UNCHANGED <<files, lock, reg, gc, now, exposed>>
          /\ purger[p].pc = "idle"
          /\ \E S : purger' = [purger EXCEPT ![p] =
                 [pc |-> "wait", todo |-> S, cur |-> None, cutoff |-> c]]
      BY <2>1 DEF PurgeHookRows
    <2>3. \A h \in Hashes : /\ InFlight(h)' <=> InFlight(h)
                            /\ Referenced(h)' => Referenced(h)
                            /\ ContentReferenced(h)' => ContentReferenced(h)
      BY <2>2 DEF InFlight, Referenced, ContentReferenced, RawReferenced
    <2>4. \A q \in Purgers, h \in Hashes : Holding(q, h)' <=> Holding(q, h)
      BY <2>2 DEF Holding, Typed, TypeOK
    <2>5. \A h \in Hashes \ exposed' : InFlight(h)' => PlacedSafe(h)'
      BY <2>2, <2>3, <2>4 DEF FileInv, PlacedSafe, files
    <2>6. BlobLossOnlyInOpenWindows'
      BY <2>2, <2>3, <2>4 DEF FileInv, BlobLossOnlyInOpenWindows, BlobKept, files
    <2>7. \A d \in Collectors : CollectorSafe(d)'
      BY <2>2, <2>3 DEF FileInv, CollectorSafe, files
    <2>8. \A q \in Purgers : purger'[q].pc \in {"moved", "keep", "doomed"} =>
                                quar'[purger'[q].cur] # None
      BY <2>2 DEF FileInv, files, Typed, TypeOK
    <2> QED
      BY <2>2, <2>5, <2>6, <2>7, <2>8 DEF FileInv, files
  <1> QED
    BY <1>1, <1>2

(* Who holds the lock works on files alone. *)
LEMMA ReclaimAlone ==
    ASSUME Typed, NEW p \in Purgers, lock = p
    PROVE  /\ \A c \in Collectors : gc[c].pc = "idle"
           /\ \A q \in Purgers, h \in Hashes : Holding(q, h) => q = p
  BY StoreAssumption DEF Typed, CallInv, Holding

LEMMA ReclaimKeepsFiles ==
    ASSUME Typed, FileInv, NEW p \in Purgers, ReclaimStep(p) \/ PurgerCrash(p)
    PROVE  FileInv'
  <1> USE StoreAssumption
  <1>0. UNCHANGED <<rows, reg, gc, now>>
    BY DEF ReclaimStep, PurgerCrash, ReclaimLock, ReclaimLockFail, ReclaimRename, ReclaimCheck,
       ReclaimRemove, ReclaimRemoveFail, ReclaimRollback, ReclaimRollbackFail, ReclaimDone
  <1>1. \A h \in Hashes : /\ InFlight(h)' <=> InFlight(h)
                          /\ Referenced(h)' <=> Referenced(h)
                          /\ ContentReferenced(h)' <=> ContentReferenced(h)
    BY <1>0 DEF InFlight, Referenced, ContentReferenced, RawReferenced, rows
  <1>2. now \in Nat /\ now # None
    BY DEF Typed, TypeOK
  <1>3. ASSUME UNCHANGED files,
               exposed \subseteq exposed',
               purger[p].pc \in {"idle", "wait", "loop"} \/ purger[p].cur \in exposed',
               purger'[p].pc \in {"idle", "wait", "loop"},
               \A q \in Purgers : q # p => purger'[q] = purger[q]
        PROVE  FileInv'
    <2>1. \A q \in Purgers, h \in Hashes \ exposed' : Holding(q, h)' <=> Holding(q, h)
      BY <1>3 DEF Holding, Typed, TypeOK
    <2>2. \A h \in Hashes \ exposed' : InFlight(h)' => PlacedSafe(h)'
      BY <1>0, <1>1, <1>3, <2>1 DEF FileInv, PlacedSafe, files
    <2>3. BlobLossOnlyInOpenWindows'
      BY <1>1, <1>3, <2>1 DEF FileInv, BlobLossOnlyInOpenWindows, BlobKept, files
    <2>4. \A c \in Collectors : CollectorSafe(c)'
      BY <1>0, <1>1, <1>3 DEF FileInv, CollectorSafe, files
    <2>5. \A q \in Purgers : purger'[q].pc \in {"moved", "keep", "doomed"} =>
                                quar'[purger'[q].cur] # None
      BY <1>3 DEF FileInv, files, Typed, TypeOK
    <2> QED
      BY <1>0, <1>3, <2>2, <2>3, <2>4, <2>5 DEF FileInv, files
  <1>4. CASE ReclaimLock(p)
    BY <1>3, <1>4 DEF ReclaimLock, Reclaiming, Typed, TypeOK
  <1>5. CASE ReclaimLockFail(p)
    BY <1>3, <1>5 DEF ReclaimLockFail, Reclaiming, IdlePurge, Typed, TypeOK
  <1>6. CASE ReclaimDone(p)
    BY <1>3, <1>6 DEF ReclaimDone, Reclaiming, IdlePurge, Typed, TypeOK
  <1>7. CASE ReclaimRollbackFail(p)
    BY <1>3, <1>7 DEF ReclaimRollbackFail, Reclaiming, Typed, TypeOK
  <1>8. CASE PurgerCrash(p)
    <2>1. purger[p].pc \in {"idle", "wait", "loop"} \/ purger[p].cur \in exposed'
      BY <1>8 DEF PurgerCrash, Typed, TypeOK, CallInv, PurgeCall
    <2> QED
      BY <1>3, <1>8, <2>1 DEF PurgerCrash, Reclaiming, IdlePurge, Typed, TypeOK
  <1>9. ASSUME lock = p, \A q \in Purgers : q # p => purger'[q] = purger[q]
        PROVE  /\ \A c \in Collectors : CollectorSafe(c)'
               /\ \A q \in Purgers : q # p => purger'[q].pc \notin {"moved", "keep", "doomed"}
    BY <1>0, <1>9, ReclaimAlone DEF CollectorSafe, Typed, CallInv
  <1>10. CASE ReclaimRename(p)
    <2>0. lock = p /\ purger[p].pc = "loop"
      BY <1>10 DEF ReclaimRename, Typed, CallInv
    <2>1. PICK h \in purger[p].todo :
           \/ /\ blob[h] # None
              /\ quar' = [quar EXCEPT ![h] = blob[h]]
              /\ blob' = [blob EXCEPT ![h] = None]
              /\ purger' = [purger EXCEPT ![p] =
                                Reclaiming("moved", purger[p].todo \ {h}, h)]
           \/ /\ purger' = [purger EXCEPT ![p] =
                                Reclaiming("loop", purger[p].todo \ {h}, None)]
              /\ UNCHANGED files
      BY <1>10 DEF ReclaimRename
    <2>2. h \in Hashes /\ exposed' = exposed
      BY <1>10 DEF ReclaimRename, Typed, TypeOK, PurgeCall
    <2>3. CASE blob'[h] = None /\ blob[h] # None
      <3>1. /\ quar'[h] = blob[h]
            /\ purger'[p].pc = "moved" /\ purger'[p].cur = h
            /\ \A g \in Hashes : g # h => blob'[g] = blob[g] /\ quar'[g] = quar[g]
            /\ \A q \in Purgers : q # p => purger'[q] = purger[q]
        BY <2>1, <2>2, <2>3 DEF Typed, TypeOK, Reclaiming, files
      <3>2. Holding(p, h)' /\ \A q \in Purgers, g \in Hashes : ~Holding(q, g)
        BY <2>0, <3>1, ReclaimAlone DEF Holding
      <3>3. \A g \in Hashes \ exposed' : InFlight(g)' => PlacedSafe(g)'
        BY <1>0, <1>1, <2>2, <3>1, <3>2 DEF FileInv, PlacedSafe
      <3>4. BlobLossOnlyInOpenWindows'
        BY <1>1, <2>2, <2>3, <3>1, <3>2 DEF FileInv, BlobLossOnlyInOpenWindows, BlobKept
      <3>5. /\ \A g \in Hashes : blob'[g] # None => blob'[g] <= now'
            /\ \A g \in Hashes : quar'[g] # None => quar'[g] <= now'
        BY <1>0, <2>2, <2>3, <3>1 DEF FileInv
      <3>6. \A q \in Purgers : purger'[q].pc \in {"moved", "keep", "doomed"} =>
                                  quar'[purger'[q].cur] # None
        BY <1>9, <2>0, <2>3, <3>1
      <3> QED
        BY <1>9, <2>0, <3>1, <3>3, <3>4, <3>5, <3>6 DEF FileInv
    <2>4. CASE UNCHANGED files /\ purger' = [purger EXCEPT ![p] =
                                Reclaiming("loop", purger[p].todo \ {h}, None)]
      BY <1>3, <2>0, <2>2, <2>4 DEF Reclaiming, Typed, TypeOK
    <2> QED
      BY <2>1, <2>2, <2>3, <2>4 DEF Typed, TypeOK
  <1>11. CASE ReclaimCheck(p)
    <2> DEFINE h == purger[p].cur
    <2>1. /\ lock = p /\ purger[p].pc = "moved" /\ h \in Hashes
          /\ UNCHANGED <<files, exposed>>
          /\ \A q \in Purgers : q # p => purger'[q] = purger[q]
          /\ purger'[p].cur = h
          /\ \/ purger'[p].pc = "keep"
             \/ purger'[p].pc = "doomed" /\ ~Fresh(quar[h]) /\ ~Referenced(h)
      BY <1>11 DEF ReclaimCheck, Reclaiming, Typed, TypeOK, CallInv
    <2>2. quar[h] # None /\ quar[h] \in Nat /\ \A q \in Purgers, g \in Hashes : Holding(q, g) => q = p /\ g = h
      BY <2>1, ReclaimAlone DEF FileInv, Holding, Typed, TypeOK, Mtime
    <2>3. CASE purger'[p].pc = "keep"
      <3>1. \A q \in Purgers, g \in Hashes : Holding(q, g) => Holding(q, g)'
        BY <2>1, <2>2, <2>3 DEF Holding
      <3> QED
        BY <1>0, <1>1, <1>9, <2>1, <2>2, <2>3, <3>1
           DEF FileInv, PlacedSafe, BlobLossOnlyInOpenWindows, BlobKept, files
    <2>4. CASE purger'[p].pc = "doomed" /\ ~Fresh(quar[h]) /\ ~Referenced(h)
      <3>1. quar[h] # now
        BY <1>2, <2>2, <2>4 DEF Fresh
      <3>2. \A g \in Hashes \ exposed : InFlight(g) => blob[g] = now
        BY <2>2, <3>1 DEF FileInv, PlacedSafe
      <3>3. \A g \in Hashes \ exposed : Referenced(g) => blob[g] # None
        BY <2>2, <2>4 DEF FileInv, BlobLossOnlyInOpenWindows, BlobKept
      <3> QED
        BY <1>0, <1>1, <1>9, <2>1, <2>2, <2>4, <3>2, <3>3
           DEF FileInv, PlacedSafe, BlobLossOnlyInOpenWindows, BlobKept, files
    <2> QED
      BY <2>1, <2>3, <2>4
  <1>12. CASE ReclaimRemove(p)
    <2> DEFINE h == purger[p].cur
    <2>1. /\ lock = p /\ purger[p].pc = "doomed" /\ h \in Hashes
          /\ UNCHANGED <<blob, exposed>>
          /\ \A g \in Hashes : g # h => quar'[g] = quar[g]
          /\ quar'[h] = None
          /\ \A q \in Purgers : q # p => purger'[q] = purger[q]
          /\ purger'[p].pc = "loop"
      BY <1>12 DEF ReclaimRemove, Reclaiming, Typed, TypeOK, CallInv
    <2>2. \A q \in Purgers, g \in Hashes : ~Holding(q, g)
      BY <2>1, ReclaimAlone DEF Holding
    <2>3. \A g \in Hashes \ exposed' : InFlight(g)' => PlacedSafe(g)'
      BY <1>0, <1>1, <2>1, <2>2 DEF FileInv, PlacedSafe
    <2>4. BlobLossOnlyInOpenWindows'
      BY <1>1, <2>1, <2>2 DEF FileInv, BlobLossOnlyInOpenWindows, BlobKept
    <2>5. \A q \in Purgers : purger'[q].pc \notin {"moved", "keep", "doomed"}
      BY <1>9, <2>1
    <2> QED
      BY <1>0, <1>9, <2>1, <2>3, <2>4, <2>5 DEF FileInv
  <1>13. CASE ReclaimRemoveFail(p)
    <2> DEFINE h == purger[p].cur
    <2>1. /\ lock = p /\ purger[p].pc = "doomed" /\ h \in Hashes
          /\ UNCHANGED <<files, exposed>>
          /\ \A q \in Purgers : q # p => purger'[q] = purger[q]
          /\ purger'[p].pc = "keep" /\ purger'[p].cur = h
      BY <1>13 DEF ReclaimRemoveFail, Reclaiming, Typed, TypeOK, CallInv
    <2>2. \A q \in Purgers, g \in Hashes : ~Holding(q, g)
      BY <2>1, ReclaimAlone DEF Holding
    <2>3. \A q \in Purgers : purger'[q].pc \in {"moved", "keep", "doomed"} =>
                                quar'[purger'[q].cur] # None
      BY <1>9, <2>1 DEF FileInv, files
    <2> QED
      BY <1>0, <1>1, <1>9, <2>1, <2>2, <2>3
         DEF FileInv, PlacedSafe, BlobLossOnlyInOpenWindows, BlobKept, files
  <1>14. CASE ReclaimRollback(p)
    <2> DEFINE h == purger[p].cur
    <2>1. /\ lock = p /\ purger[p].pc = "keep" /\ h \in Hashes
          /\ \A g \in Hashes : g # h => quar'[g] = quar[g] /\ blob'[g] = blob[g]
          /\ quar'[h] = None /\ blob'[h] = quar[h]
          /\ exposed' = IF blob[h] # None /\ blob[h] # quar[h]
                        THEN exposed \cup {h} ELSE exposed
          /\ \A q \in Purgers : q # p => purger'[q] = purger[q]
          /\ purger'[p].pc = "loop"
      BY <1>14 DEF ReclaimRollback, Reclaiming, Typed, TypeOK, CallInv
    <2>2. quar[h] # None /\ \A q \in Purgers, g \in Hashes : Holding(q, g) => q = p /\ g = h
      BY <2>1, ReclaimAlone DEF FileInv, Holding
    <2>3. \A g \in Hashes \ exposed' : InFlight(g)' => PlacedSafe(g)'
      <3> SUFFICES ASSUME NEW g \in Hashes \ exposed', InFlight(g) PROVE blob'[g] = now
        BY <1>0, <1>1 DEF PlacedSafe
      <3>1. g \in Hashes \ exposed /\ PlacedSafe(g)
        BY <2>1 DEF FileInv
      <3> QED
        BY <1>2, <2>1, <2>2, <3>1 DEF PlacedSafe
    <2>4. BlobLossOnlyInOpenWindows'
      BY <1>1, <2>1, <2>2 DEF FileInv, BlobLossOnlyInOpenWindows, BlobKept
    <2>5. \A q \in Purgers : purger'[q].pc \notin {"moved", "keep", "doomed"}
      BY <1>9, <2>1
    <2>6. /\ \A g \in Hashes : blob'[g] # None => blob'[g] <= now'
          /\ \A g \in Hashes : quar'[g] # None => quar'[g] <= now'
      BY <1>0, <2>1 DEF FileInv
    <2> QED
      BY <1>9, <2>1, <2>3, <2>4, <2>5, <2>6 DEF FileInv
  <1> QED
    BY <1>4, <1>5, <1>6, <1>7, <1>8, <1>10, <1>11, <1>12, <1>13, <1>14 DEF ReclaimStep

LEMMA CollectKeepsFiles ==
    ASSUME Typed, FileInv, NEW c \in Collectors, GCStep(c)
    PROVE  FileInv'
  <1> USE StoreAssumption
  <1>0. UNCHANGED <<rows, reg, purger, now>>
    BY DEF GCStep, GCLock, GCQueryContent, GCQueryRaw, GCStat, GCRemove, GCDone
  <1>1. \A h \in Hashes : /\ InFlight(h)' <=> InFlight(h)
                          /\ Referenced(h)' <=> Referenced(h)
                          /\ ContentReferenced(h)' <=> ContentReferenced(h)
                          /\ RawReferenced(h)' <=> RawReferenced(h)
    BY <1>0 DEF InFlight, Referenced, ContentReferenced, RawReferenced, rows
  <1>2. now \in Nat /\ now # None
    BY DEF Typed, TypeOK
  <1>3. ASSUME UNCHANGED <<files, exposed>>, CollectorSafe(c)',
               \A d \in Collectors : d # c => gc'[d] = gc[d]
        PROVE  FileInv'
    <2>1. \A d \in Collectors : CollectorSafe(d)'
      BY <1>0, <1>1, <1>3 DEF FileInv, CollectorSafe, files
    <2> QED
      BY <1>0, <1>1, <1>3, <2>1
         DEF FileInv, PlacedSafe, Holding, BlobLossOnlyInOpenWindows, BlobKept, files
  <1>4. CASE GCLock(c)
    <2>1. /\ UNCHANGED <<files, exposed>> /\ gc'[c].pc = "start"
          /\ \A d \in Collectors : d # c => gc'[d] = gc[d]
      BY <1>4 DEF GCLock, Collecting, Typed, TypeOK
    <2> QED
      BY <1>3, <2>1 DEF CollectorSafe
  <1>5. CASE GCQueryContent(c)
    <2>1. /\ UNCHANGED <<files, exposed>> /\ gc'[c].pc = "raw"
          /\ gc'[c].refs = {h \in Hashes : ContentReferenced(h)}
          /\ \A d \in Collectors : d # c => gc'[d] = gc[d]
      BY <1>5 DEF GCQueryContent, Collecting, Typed, TypeOK
    <2> QED
      BY <1>1, <1>3, <2>1 DEF CollectorSafe
  <1>6. CASE GCQueryRaw(c)
    <2>1. /\ UNCHANGED <<files, exposed>> /\ gc[c].pc = "raw" /\ gc'[c].pc = "scan"
          /\ gc'[c].refs = gc[c].refs \cup {h \in Hashes : RawReferenced(h)}
          /\ \A d \in Collectors : d # c => gc'[d] = gc[d]
      BY <1>6 DEF GCQueryRaw, Collecting, Typed, TypeOK
    <2>2. \A h \in Hashes \ exposed :
            ContentReferenced(h) => h \in gc[c].refs \/ blob[h] = now
      BY <2>1 DEF FileInv, CollectorSafe
    <2>3. CollectorSafe(c)'
      BY <1>0, <1>1, <2>1, <2>2 DEF CollectorSafe, Referenced, files
    <2> QED
      BY <1>3, <2>1, <2>3
  <1>7. CASE GCStat(c)
    <2>1. PICK e \in gc[c].todo :
            gc' = [gc EXCEPT ![c] =
                     IF GCCandidate(c, e)
                     THEN Collecting("remove", gc[c].refs, gc[c].todo \ {e}, e, EntryTime(e))
                     ELSE Collecting("scan", gc[c].refs, gc[c].todo \ {e}, None, None)]
      BY <1>7 DEF GCStat
    <2>2. /\ UNCHANGED <<files, exposed>> /\ gc[c].pc = "scan"
          /\ gc'[c].refs = gc[c].refs
          /\ \A d \in Collectors : d # c => gc'[d] = gc[d]
      BY <1>7, <2>1 DEF GCStat, Collecting, Typed, TypeOK
    <2>3. \A h \in Hashes \ exposed :
            Referenced(h) => h \in gc[c].refs \/ blob[h] = now
      BY <2>2 DEF FileInv, CollectorSafe
    <2>4. CASE GCCandidate(c, e)
      <3>1. gc'[c].pc = "remove" /\ gc'[c].cur = e /\ gc'[c].seen = EntryTime(e)
        BY <2>1, <2>4 DEF Collecting, Typed, TypeOK
      <3>2. EntryTime(e) # now /\ (e[2] = "blob" => e[1] \notin gc[c].refs)
        BY <1>2, <2>4 DEF GCCandidate, Fresh
      <3>3. CollectorSafe(c)'
        BY <1>0, <1>1, <2>2, <2>3, <3>1, <3>2 DEF CollectorSafe, files
      <3> QED
        BY <1>3, <2>2, <3>3
    <2>5. CASE ~GCCandidate(c, e)
      <3>1. gc'[c].pc = "scan"
        BY <2>1, <2>5 DEF Collecting, Typed, TypeOK
      <3>2. CollectorSafe(c)'
        BY <1>0, <1>1, <2>2, <2>3, <3>1 DEF CollectorSafe, files
      <3> QED
        BY <1>3, <2>2, <3>2
    <2> QED
      BY <2>4, <2>5
  <1>8. CASE GCRemove(c)
    <2> DEFINE h == gc[c].cur[1]
    <2>1. /\ lock = c /\ gc[c].pc = "remove" /\ gc'[c].pc = "scan" /\ gc'[c].refs = gc[c].refs
          /\ h \in Hashes
          /\ \A d \in Collectors : d # c => gc'[d] = gc[d] /\ gc[d].pc = "idle"
      BY <1>8 DEF GCRemove, Collecting, Typed, TypeOK, CallInv, Entries
    <2>2. \A q \in Purgers : purger[q].pc \notin {"loop", "moved", "keep", "doomed"}
      BY <2>1 DEF Typed, CallInv
    <2>3. \A q \in Purgers, g \in Hashes : ~Holding(q, g) /\ ~Holding(q, g)'
      BY <1>0, <2>2 DEF Holding
    <2>4. /\ \A g \in Hashes \ exposed : InFlight(g) => blob[g] = now
          /\ \A g \in Hashes \ exposed : Referenced(g) => blob[g] # None
          /\ \A g \in Hashes \ exposed : Referenced(g) => g \in gc[c].refs \/ blob[g] = now
      BY <2>1, <2>3
         DEF FileInv, PlacedSafe, BlobLossOnlyInOpenWindows, BlobKept, CollectorSafe
    <2>5. ASSUME exposed \subseteq exposed',
                 \A g \in Hashes \ exposed' :
                    (InFlight(g) \/ Referenced(g)) => blob'[g] = blob[g],
                 \A g \in Hashes : blob'[g] # None => blob'[g] = blob[g],
                 \A g \in Hashes : quar'[g] # None => quar'[g] = quar[g]
          PROVE  FileInv'
      <3>1. \A d \in Collectors : CollectorSafe(d)'
        BY <1>0, <1>1, <2>1, <2>4, <2>5 DEF CollectorSafe, Referenced
      <3>2. \A g \in Hashes \ exposed' : InFlight(g)' => PlacedSafe(g)'
        BY <1>0, <1>1, <2>4, <2>5 DEF PlacedSafe
      <3>3. BlobLossOnlyInOpenWindows'
        BY <1>1, <2>4, <2>5 DEF BlobLossOnlyInOpenWindows, BlobKept
      <3>4. /\ \A g \in Hashes : blob'[g] # None => blob'[g] <= now'
            /\ \A g \in Hashes : quar'[g] # None => quar'[g] <= now'
        BY <1>0, <2>5 DEF FileInv
      <3>5. \A q \in Purgers : purger'[q].pc \notin {"moved", "keep", "doomed"}
        BY <1>0, <2>2
      <3> QED
        BY <3>1, <3>2, <3>3, <3>4, <3>5 DEF FileInv
    <2>6. CASE gc[c].cur[2] = "blob"
      <3>1. /\ blob' = [blob EXCEPT ![h] = None] /\ UNCHANGED quar
            /\ exposed' = IF blob[h] # gc[c].seen THEN exposed \cup {h} ELSE exposed
        BY <1>8, <2>6 DEF GCRemove
      <3>2. h \notin exposed' => blob[h] # now /\ h \notin gc[c].refs
        BY <2>1, <2>6, <3>1 DEF FileInv, CollectorSafe
      <3>3. \A g \in Hashes \ exposed' :
              (InFlight(g) \/ Referenced(g)) => blob'[g] = blob[g]
        BY <2>4, <3>1, <3>2 DEF Typed, TypeOK
      <3>4. \A g \in Hashes : blob'[g] # None => blob'[g] = blob[g]
        BY <3>1 DEF Typed, TypeOK
      <3>5. exposed \subseteq exposed'
        BY <3>1
      <3> QED
        BY <2>5, <3>1, <3>3, <3>4, <3>5
    <2>7. CASE gc[c].cur[2] = "purging"
      <3>1. quar' = [quar EXCEPT ![h] = None] /\ UNCHANGED <<blob, exposed>>
        BY <1>8, <2>7 DEF GCRemove
      <3>2. \A g \in Hashes : quar'[g] # None => quar'[g] = quar[g]
        BY <3>1 DEF Typed, TypeOK
      <3> QED
        BY <2>5, <3>1, <3>2
    <2> QED
      BY <1>8, <2>6, <2>7 DEF GCRemove
  <1>9. CASE GCDone(c)
    <2>1. /\ UNCHANGED <<files, exposed>> /\ gc'[c].pc = "idle"
          /\ \A d \in Collectors : d # c => gc'[d] = gc[d]
      BY <1>9 DEF GCDone, IdleGC, Collecting, Typed, TypeOK
    <2> QED
      BY <1>3, <2>1 DEF CollectorSafe
  <1> QED
    BY <1>4, <1>5, <1>6, <1>7, <1>8, <1>9 DEF GCStep

LEMMA TickKeepsFiles == Typed /\ FileInv /\ Tick => FileInv'
  <1> SUFFICES ASSUME Typed, FileInv, Tick PROVE FileInv'
    OBVIOUS
  <1>1. /\ UNCHANGED <<rows, files, reg, purger, gc, exposed>> /\ now' = now + 1
        /\ \A r \in Registrars : reg[r].pc = "idle"
        /\ \A c \in Collectors : gc[c].pc = "idle"
    BY DEF Tick
  <1>2. \A h \in Hashes : ~InFlight(h)' /\ (Referenced(h)' <=> Referenced(h))
    BY <1>1 DEF InFlight, Placed, Referenced, ContentReferenced, RawReferenced, rows
  <1>3. \A c \in Collectors : CollectorSafe(c)'
    BY <1>1 DEF CollectorSafe
  <1>4. /\ \A h \in Hashes : blob'[h] # None => blob'[h] <= now'
        /\ \A h \in Hashes : quar'[h] # None => quar'[h] <= now'
    BY <1>1, StoreAssumption DEF FileInv, files, Typed, TypeOK, Mtime
  <1>5. BlobLossOnlyInOpenWindows'
    BY <1>1, <1>2 DEF FileInv, BlobLossOnlyInOpenWindows, BlobKept, Holding, files
  <1> QED
    BY <1>1, <1>2, <1>3, <1>4, <1>5 DEF FileInv, files

LEMMA FileStep == Typed /\ FileInv /\ [Next]_vars => FileInv'
  <1> SUFFICES ASSUME Typed, FileInv, [Next]_vars PROVE FileInv'
    OBVIOUS
  <1>1. CASE UNCHANGED vars
    <2>1. UNCHANGED <<files, lock, purger, gc, now, exposed, rows, reg>>
      BY <1>1 DEF vars
    <2> QED
      BY <2>1, RowStepKeepsFiles
         DEF InFlight, Referenced, ContentReferenced, RawReferenced, rows
  <1> QED
    BY <1>1, CommitKeepsFiles, PlaceKeepsFiles, PurgeKeepsFiles, ReclaimKeepsFiles,
       CollectKeepsFiles, TickKeepsFiles DEF Next, RegisterStep

(* Whatever Register, both purges, the reclaim loop and the collector do   *)
(* concurrently, a committed row names a file that is there, unless its    *)
(* hash went through one of the three open windows since it was placed.    *)
THEOREM BlobsAreKept == Spec => []BlobLossOnlyInOpenWindows
  <1>1. Init => FileInv
    BY StoreAssumption DEF Init, FileInv, PlacedSafe, CollectorSafe, BlobLossOnlyInOpenWindows,
       InFlight, Placed, IdleJob, IdlePurge, Reclaiming, IdleGC, Collecting, Referenced,
       ContentReferenced, RawReferenced
  <1>2. FileInv => BlobLossOnlyInOpenWindows
    BY DEF FileInv
  <1> QED
    BY <1>1, <1>2, InitTyped, NextTyped, FileStep, PTL DEF Spec

-----------------------------------------------------------------------------
(* ContentStore implements ContentRows. *)

UrisNameOneSource == \A s, t \in sources : s.uri = t.uri => s = t

LEMMA UriStep == Typed /\ UrisNameOneSource /\ [Next]_vars => UrisNameOneSource'
  <1> SUFFICES ASSUME Typed, UrisNameOneSource, [Next]_vars PROVE UrisNameOneSource'
    OBVIOUS
  <1> USE DEF UrisNameOneSource
  <1>1. ASSUME NEW r \in Registrars, NEW id, PutSource(reg[r], id) PROVE UrisNameOneSource'
    BY <1>1 DEF PutSource, SourceRow
  <1>2. ASSUME NEW r \in Registrars, RegisterExisting(r) \/ RegisterNew(r) PROVE UrisNameOneSource'
    BY <1>1, <1>2, NewRow DEF RegisterExisting
  <1>3. ASSUME NEW c \in 1..now+1, PurgeOlderThan(c) PROVE UrisNameOneSource'
    BY <1>3 DEF PurgeOlderThan
  <1>4. ASSUME NEW p \in Purgers, NEW c \in 0..now+1, PurgeHookRows(p, c) PROVE UrisNameOneSource'
    BY <1>4 DEF PurgeHookRows
  <1> QED
    BY <1>2, <1>3, <1>4, OtherStepsKeepRows DEF rows

(* The two tables as functions. *)
Arts == [id \in {a.id : a \in artifacts} |-> ContentOf(id)]
Srcs == [uri \in {s.uri : s \in sources} |-> NamedBy(uri)]

LEMMA TablesAreFunctions ==
    ASSUME RowInv, UrisNameOneSource
    PROVE  /\ DOMAIN Arts = {a.id : a \in artifacts}
           /\ \A a \in artifacts : Arts[a.id] = <<a.hash, a.media>>
           /\ DOMAIN Srcs = {s.uri : s \in sources}
           /\ \A s \in sources : Srcs[s.uri] = s.art
  <1>1. ASSUME NEW a \in artifacts PROVE Arts[a.id] = <<a.hash, a.media>>
    <2>1. a = CHOOSE b \in artifacts : b.id = a.id
      BY DEF RowInv, RowsAgree
    <2> QED
      BY <2>1 DEF Arts, ContentOf
  <1>2. ASSUME NEW s \in sources PROVE Srcs[s.uri] = s.art
    <2>1. s = CHOOSE t \in sources : t.uri = s.uri
      BY DEF UrisNameOneSource
    <2> QED
      BY <2>1 DEF Srcs, NamedBy
  <1> QED
    BY <1>1, <1>2 DEF Arts, Srcs

(* The tables after a step, by the same lemma. *)
LEMMA TablesStayFunctions ==
    ASSUME RowInv', UrisNameOneSource'
    PROVE  /\ DOMAIN Arts' = {a.id : a \in artifacts'}
           /\ \A a \in artifacts' : Arts'[a.id] = <<a.hash, a.media>>
           /\ DOMAIN Srcs' = {s.uri : s \in sources'}
           /\ \A s \in sources' : Srcs'[s.uri] = s.art
  <1>1. ASSUME NEW a \in artifacts' PROVE Arts'[a.id] = <<a.hash, a.media>>
    <2>1. a = CHOOSE b \in artifacts' : b.id = a.id
      BY DEF RowInv, RowsAgree
    <2> QED
      BY <2>1 DEF Arts, ContentOf
  <1>2. ASSUME NEW s \in sources' PROVE Srcs'[s.uri] = s.art
    <2>1. s = CHOOSE t \in sources' : t.uri = s.uri
      BY DEF UrisNameOneSource
    <2> QED
      BY <2>1 DEF Srcs, NamedBy
  <1> QED
    BY <1>1, <1>2 DEF Arts, Srcs

LEMMA IsNextIsNextArtifactID ==
    ASSUME Typed, NEW id \in Nat, IsNextArtifactID(id, watermark)
    PROVE  id = 1 + Content!Max({watermark} \cup DOMAIN Arts)
  <1> DEFINE T == {watermark} \cup DOMAIN Arts
  <1>1. DOMAIN Arts = {a.id : a \in artifacts}
    BY DEF Arts
  <1>2. watermark \in Nat /\ \A a \in artifacts : a.id \in Nat
    BY StoreAssumption DEF Typed, TypeOK, Artifact
  <1>3. T \subseteq Nat /\ \A x \in T : id > x
    BY <1>1, <1>2 DEF IsNextArtifactID
  <1>4. id - 1 \in T
    <2>1. CASE id = watermark + 1
      BY <1>2, <2>1
    <2>2. CASE \E a \in artifacts : id = a.id + 1
      <3>1. PICK a \in artifacts : id = a.id + 1
        BY <2>2
      <3>2. id - 1 = a.id
        BY <1>2, <3>1
      <3> QED
        BY <1>1, <3>2
    <2>3. id = watermark + 1 \/ \E a \in artifacts : id = a.id + 1
      BY DEF IsNextArtifactID
    <2> QED
      BY <2>1, <2>2, <2>3
  <1> HIDE DEF T
  <1>5. \A x \in T : id - 1 >= x
    BY <1>3
  <1>6. Content!Max(T) \in T /\ \A x \in T : Content!Max(T) >= x
    BY <1>4, <1>5 DEF Content!Max
  <1>7. Content!Max(T) = id - 1
    <2>1. PICK m : m = Content!Max(T)
      OBVIOUS
    <2>2. m \in Nat /\ id > m /\ m >= id - 1
      BY <1>3, <1>4, <1>6, <2>1
    <2> QED
      BY <2>1, <2>2
  <1> QED
    BY <1>7 DEF T

(* Saving: the uri of the source row names the id of the artifact row, the *)
(* id the content; all else stays.                                         *)
LEMMA PutSaves ==
    ASSUME RowInv, UrisNameOneSource, RowInv', UrisNameOneSource',
           NEW j, NEW id, NEW content, PutSource(j, id),
           DOMAIN Arts' = DOMAIN Arts \cup {id},
           Arts'[id] = content, \A i \in DOMAIN Arts \ {id} : Arts'[i] = Arts[i],
           watermark' = IF id \in DOMAIN Arts THEN watermark ELSE id
    PROVE  Content!SaveAs(id, j.uri, content)
  <1> DEFINE new == SourceRow(j, id)
  <1>1. new.uri = j.uri /\ new.art = id /\ new \in sources'
    BY DEF SourceRow, PutSource
  <1>2. \A s \in sources' : s = new \/ (s \in sources /\ s.uri # j.uri)
    BY DEF PutSource
  <1>3. \A s \in sources : s.uri # j.uri => s \in sources'
    BY DEF PutSource
  <1> HIDE DEF new
  <1>4. DOMAIN Srcs' = DOMAIN Srcs \cup {j.uri}
    <2>1. \A u \in DOMAIN Srcs' : u \in DOMAIN Srcs \/ u = j.uri
      BY <1>1, <1>2, TablesAreFunctions, TablesStayFunctions
    <2>2. \A u \in DOMAIN Srcs : u \in DOMAIN Srcs' \/ u = j.uri
      BY <1>3, TablesAreFunctions, TablesStayFunctions
    <2>3. j.uri \in DOMAIN Srcs'
      BY <1>1, TablesStayFunctions
    <2> QED
      BY <2>1, <2>2, <2>3
  <1>5. Srcs'[j.uri] = id
    BY <1>1, TablesStayFunctions
  <1>6. \A u \in DOMAIN Srcs \ {j.uri} : Srcs'[u] = Srcs[u]
    <2> SUFFICES ASSUME NEW s \in sources, s.uri # j.uri PROVE Srcs'[s.uri] = Srcs[s.uri]
      BY TablesAreFunctions
    <2> QED
      BY <1>3, TablesAreFunctions, TablesStayFunctions
  <1>7. Srcs' = [u \in DOMAIN Srcs \cup {j.uri} |-> IF u = j.uri THEN id ELSE Srcs[u]]
    <2>1. Srcs' = [u \in DOMAIN Srcs' |-> Srcs'[u]]
      BY DEF Srcs
    <2> QED
      BY <1>4, <1>5, <1>6, <2>1
  <1>8. Arts' = [a \in DOMAIN Arts \cup {id} |-> IF a = id THEN content ELSE Arts[a]]
    <2>1. Arts' = [a \in DOMAIN Arts' |-> Arts'[a]]
      BY DEF Arts
    <2> QED
      BY <2>1
  <1> QED
    BY <1>7, <1>8 DEF Content!SaveAs, Arts, Srcs

LEMMA ExistingIsSaved ==
    ASSUME Typed, RowInv, UrisNameOneSource, RowInv', UrisNameOneSource',
           NEW r \in Registrars, RegisterExisting(r)
    PROVE  Content!RowsNext
  <1>1. PICK a \in artifacts : /\ a.hash = reg[r].hash /\ a.media = reg[r].media
                               /\ PutSource(reg[r], a.id)
    BY DEF RegisterExisting
  <1> DEFINE content == <<a.hash, a.media>>
  <1>2. UNCHANGED <<artifacts, watermark>> /\ Arts' = Arts
    BY DEF RegisterExisting, Arts, ContentOf
  <1>3. a.id \in DOMAIN Arts /\ Arts[a.id] = content
    BY TablesAreFunctions
  <1>4. Content!SaveAs(a.id, reg[r].uri, content)
    BY <1>1, <1>2, <1>3, PutSaves
  <1>5. reg[r].uri \in Keys /\ content \in Hashes \X MediaTypes
    BY <1>1 DEF RegisterExisting, Typed, JobInv
  <1>6. a.id \in Content!IdsFor(content)
    BY <1>3 DEF Content!IdsFor, Content!Known, Arts
  <1> QED
    BY <1>4, <1>5, <1>6 DEF Content!RowsNext

LEMMA NewIsSaved ==
    ASSUME MarkUsable \subseteq {TRUE},
           Typed, RowInv, UrisNameOneSource, RowInv', UrisNameOneSource',
           NEW r \in Registrars, RegisterNew(r)
    PROVE  Content!RowsNext
  <1>1. PICK id \in 1..MaxId :
             LET row == [id |-> id, hash |-> reg[r].hash, media |-> reg[r].media]
             IN /\ IsNextArtifactID(id, watermark)
                /\ artifacts' = artifacts \cup {row}
                /\ watermark' = id
                /\ PutSource(reg[r], id)
    <2>1. \A usable \in MarkUsable : usable = TRUE
      OBVIOUS
    <2> QED
      BY <2>1, NewRow
  <1> PICK content : content = <<reg[r].hash, reg[r].media>>
    OBVIOUS
  <1>2. PICK row : row.id = id /\ <<row.hash, row.media>> = content /\ artifacts' = artifacts \cup {row}
    BY <1>1
  <1>3. id \in Nat /\ \A a \in artifacts : a.id # id
    BY <1>1, StoreAssumption DEF IsNextArtifactID, Typed, TypeOK, Artifact
  <1>4. \A a \in artifacts : <<a.hash, a.media>> # content
    BY DEF RegisterNew
  <1>5. id \notin DOMAIN Arts /\ DOMAIN Arts' = DOMAIN Arts \cup {id}
    <2>1. /\ DOMAIN Arts = {a.id : a \in artifacts}
          /\ DOMAIN Arts' = {a.id : a \in artifacts'}
      BY DEF Arts
    <2> QED
      BY <1>2, <1>3, <2>1
  <1>6. Arts'[id] = content
    BY <1>2, TablesStayFunctions
  <1>7. \A i \in DOMAIN Arts \ {id} : Arts'[i] = Arts[i]
    <2> SUFFICES ASSUME NEW a \in artifacts PROVE Arts'[a.id] = Arts[a.id]
      BY TablesAreFunctions
    <2>1. Arts[a.id] = <<a.hash, a.media>>
      BY TablesAreFunctions
    <2>2. Arts'[a.id] = <<a.hash, a.media>>
      BY <1>2, TablesStayFunctions
    <2> QED
      BY <2>1, <2>2
  <1>8. Content!SaveAs(id, reg[r].uri, content)
    BY <1>1, <1>5, <1>6, <1>7, PutSaves
  <1>9. reg[r].uri \in Keys /\ content \in Hashes \X MediaTypes
    BY DEF RegisterNew, Typed, JobInv
  <1>10. id \in Content!IdsFor(content)
    <2>1. Content!Known(content) = {}
      <3>1. \A i \in DOMAIN Arts : Arts[i] # content
        BY <1>4, TablesAreFunctions
      <3> QED
        BY <3>1 DEF Content!Known, Arts
    <2>2. id = Content!nextArtifactID
      BY <1>1, <1>3, IsNextIsNextArtifactID DEF Content!nextArtifactID, Arts
    <2> QED
      BY <2>1, <2>2 DEF Content!IdsFor
  <1> QED
    BY <1>8, <1>9, <1>10 DEF Content!RowsNext

LEMMA PurgeIsOfSources ==
    ASSUME RowInv, UrisNameOneSource, RowInv', UrisNameOneSource', NEW c, PurgeOlderThan(c)
    PROVE  Content!RowsNext
  <1> PICK old : old = DOMAIN Srcs \ DOMAIN Srcs'
    OBVIOUS
  <1>1. /\ sources' \subseteq sources /\ artifacts' \subseteq artifacts /\ UNCHANGED watermark
        /\ \A a \in artifacts : a \in artifacts' <=> \E s \in sources' : s.art = a.id
    BY DEF PurgeOlderThan
  <1>2. /\ DOMAIN Srcs' \subseteq DOMAIN Srcs /\ \A u \in DOMAIN Srcs' : Srcs'[u] = Srcs[u]
        /\ DOMAIN Arts' \subseteq DOMAIN Arts /\ \A i \in DOMAIN Arts' : Arts'[i] = Arts[i]
    BY <1>1, TablesAreFunctions, TablesStayFunctions
  <1>3. Srcs' = [u \in DOMAIN Srcs \ old |-> Srcs[u]]
    <2>1. Srcs' = [u \in DOMAIN Srcs' |-> Srcs'[u]]
      BY DEF Srcs
    <2>2. DOMAIN Srcs' = DOMAIN Srcs \ old
      BY <1>2
    <2> QED
      BY <1>2, <2>1, <2>2
  <1>4. DOMAIN Arts' = {Srcs'[u] : u \in DOMAIN Srcs'}
    <2>1. ASSUME NEW a \in artifacts' PROVE \E u \in DOMAIN Srcs' : Srcs'[u] = a.id
      <3>1. PICK s \in sources' : s.art = a.id
        BY <1>1, <2>1
      <3> QED
        BY <3>1, TablesStayFunctions
    <2>2. ASSUME NEW s \in sources' PROVE s.art \in DOMAIN Arts'
      BY <2>2, TablesStayFunctions DEF RowInv, RowsAgree
    <2> QED
      BY <2>1, <2>2, TablesStayFunctions
  <1>5. Arts' = [i \in {Srcs'[u] : u \in DOMAIN Srcs'} |-> Arts[i]]
    <2>1. Arts' = [i \in DOMAIN Arts' |-> Arts'[i]]
      BY DEF Arts
    <2> QED
      BY <1>2, <1>4, <2>1
  <1>6. Content!PurgeSources(old)
    BY <1>1, <1>3, <1>5 DEF Content!PurgeSources, Content!Restrict, Content!Range, Arts, Srcs
  <1>7. old \in SUBSET DOMAIN Srcs
    OBVIOUS
  <1> QED
    BY <1>6, <1>7 DEF Content!RowsNext, Srcs

LEMMA PurgeIsOfArtifacts ==
    ASSUME RowInv, UrisNameOneSource, RowInv', UrisNameOneSource', NEW p, NEW c, PurgeHookRows(p, c)
    PROVE  Content!RowsNext
  <1>1. PICK S :
          LET ids == {a.id : a \in {b \in artifacts : b.hash \in S}}
          IN /\ sources' = {s \in sources : s.art \notin ids}
             /\ artifacts' = {a \in artifacts : a.hash \notin S}
             /\ UNCHANGED watermark
    BY DEF PurgeHookRows
  <1> PICK ids : ids = {a.id : a \in {b \in artifacts : b.hash \in S}}
    OBVIOUS
  <1>2. /\ sources' \subseteq sources /\ artifacts' \subseteq artifacts /\ UNCHANGED watermark
        /\ \A s \in sources : s \in sources' <=> s.art \notin ids
    BY <1>1
  <1>3. /\ \A a \in artifacts : a \in artifacts' <=> a.id \notin ids
        /\ ids \subseteq {a.id : a \in artifacts}
    BY <1>1 DEF RowInv, RowsAgree
  <1>4. /\ \A u \in DOMAIN Srcs : u \in DOMAIN Srcs' <=> Srcs[u] \notin ids
        /\ DOMAIN Srcs' \subseteq DOMAIN Srcs /\ \A u \in DOMAIN Srcs' : Srcs'[u] = Srcs[u]
    BY <1>2, TablesAreFunctions, TablesStayFunctions DEF UrisNameOneSource
  <1>5. /\ DOMAIN Arts' = DOMAIN Arts \ ids
        /\ \A i \in DOMAIN Arts' : Arts'[i] = Arts[i]
    BY <1>2, <1>3, TablesAreFunctions, TablesStayFunctions
  <1>6. Srcs' = [u \in {x \in DOMAIN Srcs : Srcs[x] \notin ids} |-> Srcs[u]]
    <2>1. Srcs' = [u \in DOMAIN Srcs' |-> Srcs'[u]]
      BY DEF Srcs
    <2>2. DOMAIN Srcs' = {x \in DOMAIN Srcs : Srcs[x] \notin ids}
      BY <1>4
    <2> QED
      BY <1>4, <2>1, <2>2
  <1>7. Arts' = [i \in DOMAIN Arts \ ids |-> Arts[i]]
    <2>1. Arts' = [i \in DOMAIN Arts' |-> Arts'[i]]
      BY DEF Arts
    <2> QED
      BY <1>5, <2>1
  <1>8. Content!PurgeArtifacts(ids)
    BY <1>2, <1>6, <1>7 DEF Content!PurgeArtifacts, Content!Restrict, Arts, Srcs
  <1>9. ids \in SUBSET DOMAIN Arts
    BY <1>3, TablesAreFunctions
  <1> QED
    BY <1>8, <1>9 DEF Content!RowsNext, Arts

(* Every step of every call is a step of ContentRows or none: an id that a *)
(* reader holds names the content it named, or nothing, whatever Register, *)
(* the purges, the reclaim loop, the collector and their failures do, as   *)
(* long as the watermark can be written.                                   *)
THEOREM StoreImplementsContentRows ==
    ASSUME MarkUsable \subseteq {TRUE}
    PROVE  Spec => ContentIsAddressed
  <1>1. Init => UrisNameOneSource /\ RowInv
    BY DEF Init, UrisNameOneSource, RowInv, RowsAgree
  <1>2. Init => Content!RowsInit
    BY DEF Init, Content!RowsInit
  <1>3. ASSUME Typed, RowInv, UrisNameOneSource, RowInv', UrisNameOneSource', [Next]_vars
        PROVE  [Content!RowsNext]_(Content!contentRows)
    <2>1. UNCHANGED rows => UNCHANGED Content!contentRows
      BY DEF rows, Content!contentRows, ContentOf, NamedBy
    <2> QED
      BY <1>3, <2>1, OtherStepsKeepRows, ExistingIsSaved, NewIsSaved, PurgeIsOfSources, PurgeIsOfArtifacts
  <1> QED
    BY <1>1, <1>2, <1>3, InitTyped, NextTyped, RowStep, UriStep, PTL
       DEF Spec, ContentIsAddressed, Content!RowsSpec
=============================================================================
