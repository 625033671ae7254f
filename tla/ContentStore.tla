---------------------------- MODULE ContentStore ----------------------------
(***************************************************************************)
(* The content store of one project: the rows of content.db (artifacts,    *)
(* chunks, sources, id_watermark), the content-addressed blob files under  *)
(* artifacts/, and the operations that put them out of step with each      *)
(* other.  A blob file is placed before the row that names it commits and  *)
(* removed after the row is gone, so rows and files never change in one    *)
(* step.  Several processes work on one store: servers and hooks register  *)
(* content, a server purges shadow captures at startup, the command line   *)
(* purges by age and collects orphan blobs.                                *)
(*                                                                         *)
(* A file is its modification time (its content is its hash).  Time runs   *)
(* in units of gcOrphanMinAge, the one-hour grace period.                  *)
(***************************************************************************)
EXTENDS Integers, FiniteSets

CONSTANTS
    Hashes,      \* sha256 names of contents
    MediaTypes,
    Uris,        \* names of explicit (not shadow) sources
    Registrars,  \* concurrent Register calls
    Purgers,     \* concurrent PurgeHookOnlyOlderThan calls
    Collectors,  \* concurrent GCOrphanBlobs calls
    None,        \* no hash, no file, no holder
    Expectations,\* values of Registration.ExpectedOldSrcHash; None is ""
    MarkUsable,  \* outcomes of the watermark statements: TRUE, or FALSE as well
    MaxHashes,   \* budget of one hook purge (startupPurgeMaxHashes)
    MaxId,       \* bound: artifact ids issued
    MaxTime      \* bound: grace periods that pass

ASSUME StoreAssumption ==
    /\ None \notin Hashes \cup Purgers \cup Collectors \cup Nat
    /\ Collectors \cap Purgers = {}
    /\ Hashes \cap Uris = {}
    /\ Expectations \subseteq Hashes \cup {None}
    /\ MarkUsable \subseteq BOOLEAN
    /\ MaxHashes \in Nat /\ MaxId \in Nat /\ MaxTime \in Nat

VARIABLES
    artifacts,   \* rows of table artifacts
    chunks,      \* ids of the artifacts whose chunk rows are present
    sources,     \* rows of table sources
    watermark,   \* id_watermark.next for 'artifacts'
    blob,        \* artifacts/<h>: mtime or None
    quar,        \* artifacts/<h>.purging: mtime or None
    lock,        \* holder of the store's lock file
    reg,         \* Register calls in progress
    purger,      \* PurgeHookOnlyOlderThan calls in progress
    gc,          \* GCOrphanBlobs calls in progress
    now,         \* the clock
    meaning,     \* history: every artifact row ever committed
    unlogged,    \* history: ids issued while the watermark was unusable
    exposed      \* history: hashes whose last placed file went through a
                 \* window in which the code gives no protection

rows  == <<artifacts, chunks, sources, watermark>>
files == <<blob, quar>>
ghost == <<meaning, unlogged>>
vars  == <<rows, files, lock, reg, purger, gc, now, ghost, exposed>>

-----------------------------------------------------------------------------
(* Rows, files and calls. *)

(* A shadow capture's uri is "shadow:" + title + ":" + hash: the hash names it. *)
Keys == Uris \cup Hashes

Artifact == [id: 1..MaxId, hash: Hashes, media: MediaTypes]

Source == [uri: Keys, art: 1..MaxId, hook: BOOLEAN, src: Hashes,
           raw: Hashes \cup {None}, at: 0..MaxTime]

Mtime == (0..MaxTime) \cup {None}

Job == [pc: {"idle", "raw", "commit"}, hash: Hashes \cup {None},
        media: MediaTypes \cup {None}, uri: Keys \cup {None}, hook: BOOLEAN,
        raw: Hashes \cup {None}, expect: Hashes \cup {None}]

IdleJob == [pc |-> "idle", hash |-> None, media |-> None, uri |-> None,
            hook |-> FALSE, raw |-> None, expect |-> None]

PurgeCall == [pc: {"idle", "wait", "loop", "moved", "keep", "doomed"},
              todo: SUBSET Hashes, cur: Hashes \cup {None}, cutoff: 0..MaxTime+1]

Reclaiming(pc, todo, cur) == [pc |-> pc, todo |-> todo, cur |-> cur, cutoff |-> 0]

IdlePurge == Reclaiming("idle", {}, None)

(* Directory entries the collector looks at: <<h, "blob">> and <<h, "purging">>. *)
Entries == Hashes \X {"blob", "purging"}

GCCall == [pc: {"idle", "start", "raw", "scan", "remove"}, refs: SUBSET Hashes,
           todo: SUBSET Entries, cur: Entries \cup {None}, seen: Mtime]

Collecting(pc, refs, todo, cur, seen) ==
    [pc |-> pc, refs |-> refs, todo |-> todo, cur |-> cur, seen |-> seen]

IdleGC == Collecting("idle", {}, {}, None, None)

TypeOK ==
    /\ artifacts \subseteq Artifact
    /\ chunks \subseteq 1..MaxId
    /\ sources \subseteq Source
    /\ watermark \in 0..MaxId
    /\ blob \in [Hashes -> Mtime]
    /\ quar \in [Hashes -> Mtime]
    /\ lock \in Purgers \cup Collectors \cup {None}
    /\ reg \in [Registrars -> Job]
    /\ purger \in [Purgers -> PurgeCall]
    /\ gc \in [Collectors -> GCCall]
    /\ now \in 0..MaxTime
    /\ meaning \subseteq Artifact
    /\ unlogged \subseteq 1..MaxId
    /\ exposed \subseteq Hashes

Init ==
    /\ artifacts = {} /\ chunks = {} /\ sources = {} /\ watermark = 0
    /\ blob = [h \in Hashes |-> None]
    /\ quar = [h \in Hashes |-> None]
    /\ lock = None
    /\ reg = [r \in Registrars |-> IdleJob]
    /\ purger = [p \in Purgers |-> IdlePurge]
    /\ gc = [c \in Collectors |-> IdleGC]
    /\ now = 0
    /\ meaning = {} /\ unlogged = {} /\ exposed = {}

(* time.Since(mtime) < gcOrphanMinAge *)
Fresh(t) == now - t < 1

ContentReferenced(h) == \E a \in artifacts : a.hash = h
RawReferenced(h) == \E s \in sources : s.raw = h

(* Some committed row names the blob: what stillReferenced asks. *)
Referenced(h) == ContentReferenced(h) \/ RawReferenced(h)

(* The hashes a registration has placed and not yet committed. *)
Placed(j) == {h \in Hashes :
                (j.pc # "idle" /\ h = j.hash) \/ (j.pc = "commit" /\ h = j.raw)}

InFlight(h) == \E r \in Registrars : h \in Placed(reg[r])

-----------------------------------------------------------------------------
(* Register: blobs first, then one transaction. *)

(* writeBlob renames a new file over whatever is there, so its mtime is now. *)
WriteBlob(h) == /\ blob' = [blob EXCEPT ![h] = now]
                /\ exposed' = exposed \ {h}

(* Only web sources carry a raw blob; a shadow capture is named by its hash. *)
RegisterPlace(r) ==
    /\ reg[r].pc = "idle"
    /\ \E h \in Hashes, m \in MediaTypes, u \in Keys, raw \in Hashes \cup {None},
          e \in Expectations :
         LET hook == u \in Hashes
         IN /\ hook => u = h /\ raw = None /\ e = None
            /\ WriteBlob(h)
            /\ reg' = [reg EXCEPT ![r] =
                 [pc |-> IF raw = None THEN "commit" ELSE "raw", hash |-> h,
                  media |-> m, uri |-> u, hook |-> hook, raw |-> raw, expect |-> e]]
    /\ UNCHANGED <<rows, quar, lock, purger, gc, now, ghost>>

RegisterPlaceRaw(r) ==
    /\ reg[r].pc = "raw"
    /\ WriteBlob(reg[r].raw)
    /\ reg' = [reg EXCEPT ![r].pc = "commit"]
    /\ UNCHANGED <<rows, quar, lock, purger, gc, now, ghost>>

(* Mutant: the next id from MAX(id) alone, the watermark forgotten. *)
NextIDFromRowsOnly(id, mark) ==
    /\ \A a \in artifacts : id > a.id
    /\ id = 1 \/ \E a \in artifacts : id = a.id + 1

(* nextArtifactID: one more than the larger of the watermark and MAX(id).  *)
(* A watermark that cannot be read counts as 0.                            *)
IsNextArtifactID(id, mark) ==
    /\ id > mark
    /\ \A a \in artifacts : id > a.id
    /\ id = mark + 1 \/ \E a \in artifacts : id = a.id + 1

(* The source row: an upsert by uri, or a compare-and-swap on src_hash. *)
CASHolds(j) ==
    j.expect = None \/ \E s \in sources : s.uri = j.uri /\ s.src = j.expect

SourceRow(j, id) == [uri |-> j.uri, art |-> id, hook |-> j.hook,
                     src |-> j.hash, raw |-> j.raw, at |-> now]

PutSource(j, id) ==
    sources' = {s \in sources : s.uri # j.uri} \cup {SourceRow(j, id)}

(* The content is already stored under this media type: only the source moves. *)
RegisterExisting(r) ==
    /\ reg[r].pc = "commit"
    /\ CASHolds(reg[r])
    /\ \E a \in artifacts :
         /\ a.hash = reg[r].hash /\ a.media = reg[r].media
         /\ PutSource(reg[r], a.id)
    /\ reg' = [reg EXCEPT ![r] = IdleJob]
    /\ UNCHANGED <<artifacts, chunks, watermark, files, lock, purger, gc, now,
                   ghost, exposed>>

(* New content: the row, its chunks and the watermark in the transaction.  *)
(* A failing watermark statement is logged and does not fail the call.     *)
RegisterNew(r) ==
    /\ reg[r].pc = "commit"
    /\ CASHolds(reg[r])
    /\ ~\E a \in artifacts : a.hash = reg[r].hash /\ a.media = reg[r].media
    /\ \E id \in 1..MaxId, usable \in MarkUsable :
         LET row == [id |-> id, hash |-> reg[r].hash, media |-> reg[r].media]
         IN /\ IsNextArtifactID(id, IF usable THEN watermark ELSE 0)
            /\ artifacts' = artifacts \cup {row}
            /\ chunks' = chunks \cup {id}
            /\ watermark' = IF usable THEN id ELSE watermark
            /\ PutSource(reg[r], id)
            /\ meaning' = meaning \cup {row}
            /\ unlogged' = IF usable THEN unlogged ELSE unlogged \cup {id}
    /\ reg' = [reg EXCEPT ![r] = IdleJob]
    /\ UNCHANGED <<files, lock, purger, gc, now, exposed>>

(* A failed write, an exhausted BUSY retry, a CAS conflict, a cancelled    *)
(* context or a crash: the transaction rolls back, the placed blobs stay.  *)
RegisterFail(r) ==
    /\ reg[r].pc # "idle"
    /\ reg' = [reg EXCEPT ![r] = IdleJob]
    /\ UNCHANGED <<rows, files, lock, purger, gc, now, ghost, exposed>>

-----------------------------------------------------------------------------
(* PurgeOlderThan: one transaction; it touches no file. *)

(* Mutant: an orphan artifact loses its chunks and keeps its row. *)
PurgeKeepsArtifactRows(cutoff) ==
    LET kept == {s \in sources : s.at >= cutoff}
        orphan == {a \in artifacts : \A s \in kept : s.art # a.id}
    IN /\ sources' = kept
       /\ chunks' = chunks \ {a.id : a \in orphan}
       /\ UNCHANGED <<artifacts, watermark, files, lock, reg, purger, gc, now, ghost, exposed>>

PurgeOlderThan(cutoff) ==
    LET kept == {s \in sources : s.at >= cutoff}
        orphan == {a \in artifacts : \A s \in kept : s.art # a.id}
    IN /\ sources' = kept
       /\ chunks' = chunks \ {a.id : a \in orphan}
       /\ artifacts' = artifacts \ orphan
       /\ UNCHANGED <<watermark, files, lock, reg, purger, gc, now, ghost, exposed>>

-----------------------------------------------------------------------------
(* PurgeHookOnlyOlderThan: purgeHookRows, then reclaimHookBlobs. *)

SourcesOf(h) == {s \in sources : \E a \in artifacts : a.hash = h /\ s.art = a.id}

(* Mutant: the age clause dropped. *)
ShadowOwnedAnyAge(cutoff) ==
    {h \in Hashes :
        /\ \E s \in SourcesOf(h) : s.hook
        /\ \A s \in SourcesOf(h) : s.hook
        /\ ~\E s \in sources : s.raw = h /\ ~s.hook}

(* shadowOwnedFilter: every source of the hash is a hook capture, no other *)
(* source keeps it as raw blob, and (cutoff > 0) none is recent.           *)
ShadowOwned(cutoff) ==
    {h \in Hashes :
        /\ \E s \in SourcesOf(h) : s.hook
        /\ \A s \in SourcesOf(h) : s.hook
        /\ ~\E s \in sources : s.raw = h /\ ~s.hook
        /\ cutoff > 0 => \A s \in SourcesOf(h) : s.at < cutoff}

(* Either without budget (the command line) or the first MaxHashes hashes  *)
(* (startup); hash order is arbitrary.  chunks and sources are deleted by  *)
(* the selection, artifacts by the captured hashes.                        *)
PurgeHookRows(p, cutoff) ==
    /\ purger[p].pc = "idle"
    /\ \E S \in SUBSET ShadowOwned(cutoff) :
         LET ids == {a.id : a \in {b \in artifacts : b.hash \in S}}
         IN /\ S # {}
            /\ S = ShadowOwned(cutoff) \/ Cardinality(S) = MaxHashes
            /\ chunks' = chunks \ ids
            /\ sources' = {s \in sources : s.art \notin ids}
            /\ artifacts' = {a \in artifacts : a.hash \notin S}
            /\ purger' = [purger EXCEPT ![p] =
                 [pc |-> "wait", todo |-> S, cur |-> None, cutoff |-> cutoff]]
    /\ UNCHANGED <<watermark, files, lock, reg, gc, now, ghost, exposed>>

ReclaimLock(p) ==
    /\ purger[p].pc = "wait"
    /\ lock = None
    /\ lock' = p
    /\ purger' = [purger EXCEPT ![p] = Reclaiming("loop", purger[p].todo, None)]
    /\ UNCHANGED <<rows, files, reg, gc, now, ghost, exposed>>

(* The lock is not had in time, or the context ends: the files are left to GC. *)
ReclaimLockFail(p) ==
    /\ purger[p].pc = "wait"
    /\ purger' = [purger EXCEPT ![p] = IdlePurge]
    /\ UNCHANGED <<rows, files, lock, reg, gc, now, ghost, exposed>>

(* os.Rename(p, q): a missing file is skipped, and so is one the rename fails on. *)
ReclaimRename(p) ==
    /\ purger[p].pc = "loop"
    /\ \E h \in purger[p].todo :
         \/ /\ blob[h] # None
            /\ quar' = [quar EXCEPT ![h] = blob[h]]
            /\ blob' = [blob EXCEPT ![h] = None]
            /\ purger' = [purger EXCEPT ![p] =
                              Reclaiming("moved", purger[p].todo \ {h}, h)]
         \/ /\ purger' = [purger EXCEPT ![p] =
                              Reclaiming("loop", purger[p].todo \ {h}, None)]
            /\ UNCHANGED files
    /\ UNCHANGED <<rows, lock, reg, gc, now, ghost, exposed>>

(* Mutant: references re-checked, the age of the file not. *)
ReclaimCheckReferencesOnly(p) ==
    LET h == purger[p].cur
    IN /\ purger[p].pc = "moved"
       /\ purger' = [purger EXCEPT ![p] =
            Reclaiming(IF Referenced(h) THEN "keep" ELSE "doomed", purger[p].todo, h)]
       /\ UNCHANGED <<rows, files, lock, reg, gc, now, ghost, exposed>>

(* Stat of the quarantined file, then stillReferenced; a failing stat or   *)
(* query counts as a reason to keep it.                                    *)
ReclaimCheck(p) ==
    LET h == purger[p].cur
        keep == Fresh(quar[h]) \/ Referenced(h)
    IN /\ purger[p].pc = "moved"
       /\ \/ purger' = [purger EXCEPT ![p] = Reclaiming("keep", purger[p].todo, h)]
          \/ ~keep /\ purger' = [purger EXCEPT ![p] = Reclaiming("doomed", purger[p].todo, h)]
       /\ UNCHANGED <<rows, files, lock, reg, gc, now, ghost, exposed>>

(* os.Remove(q) *)
ReclaimRemove(p) ==
    /\ purger[p].pc = "doomed"
    /\ quar' = [quar EXCEPT ![purger[p].cur] = None]
    /\ purger' = [purger EXCEPT ![p] = Reclaiming("loop", purger[p].todo, None)]
    /\ UNCHANGED <<rows, blob, lock, reg, gc, now, ghost, exposed>>

ReclaimRemoveFail(p) ==
    /\ purger[p].pc = "doomed"
    /\ purger' = [purger EXCEPT ![p] = Reclaiming("keep", purger[p].todo, purger[p].cur)]
    /\ UNCHANGED <<rows, files, lock, reg, gc, now, ghost, exposed>>

(* os.Rename(q, p), over a file placed meanwhile. *)
ReclaimRollback(p) ==
    LET h == purger[p].cur
    IN /\ purger[p].pc = "keep"
       /\ blob' = [blob EXCEPT ![h] = quar[h]]
       /\ quar' = [quar EXCEPT ![h] = None]
       /\ exposed' = IF blob[h] # None /\ blob[h] # quar[h]
                     THEN exposed \cup {h} ELSE exposed
       /\ purger' = [purger EXCEPT ![p] = Reclaiming("loop", purger[p].todo, None)]
       /\ UNCHANGED <<rows, lock, reg, gc, now, ghost>>

(* The error of the rollback rename is dropped: the file stays in quarantine. *)
ReclaimRollbackFail(p) ==
    /\ purger[p].pc = "keep"
    /\ exposed' = exposed \cup {purger[p].cur}
    /\ purger' = [purger EXCEPT ![p] = Reclaiming("loop", purger[p].todo, None)]
    /\ UNCHANGED <<rows, files, lock, reg, gc, now, ghost>>

(* The loop ends, or the context is cancelled at the top of it. *)
ReclaimDone(p) ==
    /\ purger[p].pc = "loop"
    /\ lock' = None
    /\ purger' = [purger EXCEPT ![p] = IdlePurge]
    /\ UNCHANGED <<rows, files, reg, gc, now, ghost, exposed>>

(* The process dies; the kernel releases its lock. *)
PurgerCrash(p) ==
    /\ purger[p].pc \in {"wait", "loop", "moved", "keep", "doomed"}
    /\ lock' = IF lock = p THEN None ELSE lock
    /\ exposed' = exposed \cup ({purger[p].cur} \ {None})
    /\ purger' = [purger EXCEPT ![p] = IdlePurge]
    /\ UNCHANGED <<rows, files, reg, gc, now, ghost>>

-----------------------------------------------------------------------------
(* GCOrphanBlobs: two queries for the references, then file by file. *)

GCLock(c) ==
    /\ gc[c].pc = "idle"
    /\ lock = None
    /\ lock' = c
    /\ gc' = [gc EXCEPT ![c] = Collecting("start", {}, {}, None, None)]
    /\ UNCHANGED <<rows, files, reg, purger, now, ghost, exposed>>

GCQueryContent(c) ==
    /\ gc[c].pc = "start"
    /\ gc' = [gc EXCEPT ![c] =
         Collecting("raw", {h \in Hashes : ContentReferenced(h)}, {}, None, None)]
    /\ UNCHANGED <<rows, files, lock, reg, purger, now, ghost, exposed>>

GCQueryRaw(c) ==
    /\ gc[c].pc = "raw"
    /\ gc' = [gc EXCEPT ![c] =
         Collecting("scan", gc[c].refs \cup {h \in Hashes : RawReferenced(h)},
                    Entries, None, None)]
    /\ UNCHANGED <<rows, files, lock, reg, purger, now, ghost, exposed>>

EntryTime(e) == IF e[2] = "blob" THEN blob[e[1]] ELSE quar[e[1]]

(* A .purging file is a candidate whatever the references say. *)
GCCandidate(c, e) ==
    /\ e[2] = "blob" => e[1] \notin gc[c].refs
    /\ EntryTime(e) # None
    /\ ~Fresh(EntryTime(e))

GCStat(c) ==
    /\ gc[c].pc = "scan"
    /\ \E e \in gc[c].todo :
         gc' = [gc EXCEPT ![c] =
                  IF GCCandidate(c, e)
                  THEN Collecting("remove", gc[c].refs, gc[c].todo \ {e}, e, EntryTime(e))
                  ELSE Collecting("scan", gc[c].refs, gc[c].todo \ {e}, None, None)]
    /\ UNCHANGED <<rows, files, lock, reg, purger, now, ghost, exposed>>

GCRemove(c) ==
    LET h == gc[c].cur[1]
    IN /\ gc[c].pc = "remove"
       /\ \/ /\ gc[c].cur[2] = "blob"
             /\ blob' = [blob EXCEPT ![h] = None]
             /\ exposed' = IF blob[h] # gc[c].seen THEN exposed \cup {h} ELSE exposed
             /\ UNCHANGED quar
          \/ /\ gc[c].cur[2] = "purging"
             /\ quar' = [quar EXCEPT ![h] = None]
             /\ UNCHANGED <<blob, exposed>>
       /\ gc' = [gc EXCEPT ![c] = Collecting("scan", gc[c].refs, gc[c].todo, None, None)]
       /\ UNCHANGED <<rows, lock, reg, purger, now, ghost>>

(* The walk is over, a query, stat or remove fails, or the process dies. *)
GCDone(c) ==
    /\ gc[c].pc # "idle"
    /\ lock' = None
    /\ gc' = [gc EXCEPT ![c] = IdleGC]
    /\ UNCHANGED <<rows, files, reg, purger, now, ghost, exposed>>

-----------------------------------------------------------------------------
(* A grace period passes.  Assumption: no Register call and no collection  *)
(* lasts a grace period.                                                   *)
Tick ==
    /\ now < MaxTime
    /\ \A r \in Registrars : reg[r].pc = "idle"
    /\ \A c \in Collectors : gc[c].pc = "idle"
    /\ now' = now + 1
    /\ UNCHANGED <<rows, files, lock, reg, purger, gc, ghost, exposed>>

RegisterStep(r) ==
    \/ RegisterPlace(r) \/ RegisterPlaceRaw(r)
    \/ RegisterExisting(r) \/ RegisterNew(r) \/ RegisterFail(r)

ReclaimStep(p) ==
    \/ ReclaimLock(p) \/ ReclaimLockFail(p)
    \/ ReclaimRename(p) \/ ReclaimCheck(p)
    \/ ReclaimRemove(p) \/ ReclaimRemoveFail(p)
    \/ ReclaimRollback(p) \/ ReclaimRollbackFail(p)
    \/ ReclaimDone(p)

GCStep(c) ==
    \/ GCLock(c) \/ GCQueryContent(c) \/ GCQueryRaw(c)
    \/ GCStat(c) \/ GCRemove(c) \/ GCDone(c)

Next ==
    \/ \E r \in Registrars : RegisterStep(r)
    \/ \E c \in 1..now+1 : PurgeOlderThan(c)
    \/ \E p \in Purgers :
         \/ \E c \in 0..now+1 : PurgeHookRows(p, c)
         \/ ReclaimStep(p)
         \/ PurgerCrash(p)
    \/ \E c \in Collectors : GCStep(c)
    \/ Tick

Spec == Init /\ [][Next]_vars

-----------------------------------------------------------------------------
(* Properties. *)

(* A call that quarantined h and will put it back or has yet to decide. *)
Holding(p, h) == purger[p].pc \in {"moved", "keep"} /\ purger[p].cur = h

BlobKept(h) ==
    \/ blob[h] # None
    \/ \E p \in Purgers : Holding(p, h) /\ quar[h] # None

(* A committed row never names a missing file, except for a hash that went *)
(* through one of the three windows the code leaves open: a crash or a     *)
(* failed rename while it was quarantined, a rollback over a newer file,   *)
(* and a file replaced between the collector's stat and its remove.        *)
(* (Register places before it commits; reclaimHookBlobs and GCOrphanBlobs  *)
(* re-check age and references before they remove.)                        *)
BlobLossOnlyInOpenWindows ==
    \A h \in Hashes \ exposed : Referenced(h) => BlobKept(h)

(* The rows agree: a source points at an artifact, every artifact has its  *)
(* chunks and no chunk outlives its artifact, ids and (hash, media) pairs  *)
(* are unique.  (Register, PurgeOlderThan and purgeHookRows each keep the  *)
(* three tables together.)                                                 *)
RowsAgree ==
    /\ \A s \in sources : \E a \in artifacts : s.art = a.id
    /\ chunks = {a.id : a \in artifacts}
    /\ \A a, b \in artifacts :
         a.id = b.id \/ (a.hash = b.hash /\ a.media = b.media) => a = b

(* An artifact id handed out once never comes to name another content,     *)
(* also when the artifact was purged meanwhile, unless the watermark was   *)
(* unusable when that id was issued.  (nextArtifactID and id_watermark.)   *)
IdNeverRebinds ==
    \A a, b \in meaning : a.id = b.id => a = b \/ a.id \in unlogged

(* The rows as a reader sees them: an id names a content, a uri names an id. *)
ContentOf(id) == LET a == CHOOSE b \in artifacts : b.id = id IN <<a.hash, a.media>>
NamedBy(uri)  == (CHOOSE s \in sources : s.uri = uri).art

Content == INSTANCE ContentRows WITH
    Contents  <- Hashes \X MediaTypes,
    URIs      <- Keys,
    artifacts <- [id \in {a.id : a \in artifacts} |-> ContentOf(id)],
    sources   <- [uri \in {s.uri : s \in sources} |-> NamedBy(uri)]

(* As long as the watermark can be written, Register and both purges       *)
(* change the rows the way ContentRows says, in one step each, and nothing *)
(* else changes them: not placing, quarantining or removing a file, not a  *)
(* call that fails half way, not a crash.                                  *)
ContentIsAddressed == Content!RowsSpec

(* A hook purge deletes only hook sources older than its cutoff, and after *)
(* it commits no row names a hash handed on to reclaimHookBlobs.           *)
SparesOthers ==
    \A p \in Purgers : purger[p].pc = "idle" /\ purger'[p].pc = "wait" =>
        /\ \A s \in sources \ sources' :
             s.hook /\ (purger'[p].cutoff > 0 => s.at < purger'[p].cutoff)
        /\ \A h \in purger'[p].todo : ~Referenced(h)'
        /\ \A a \in artifacts \ artifacts' : a.hash \in purger'[p].todo

HookPurgeSparesOthers == [][SparesOthers]_vars

(* The store lock is held by a call that is past lockStoreCtx and on every *)
(* path of which release() is still to come: no return, error, crash or    *)
(* overlap of calls leaves it taken.  (defer release() in reclaimHookBlobs *)
(* and GCOrphanBlobs.)                                                     *)
LockIsInUse ==
    /\ \A p \in Purgers :
         lock = p <=> purger[p].pc \in {"loop", "moved", "keep", "doomed"}
    /\ \A c \in Collectors : lock = c <=> gc[c].pc # "idle"
=============================================================================
