---------------------------- MODULE SessionStore ----------------------------
(***************************************************************************)
(* The rows of one worktree's session.db and the processes that share it.  *)
(* A server opens a session (its row and its session_start event are two   *)
(* transactions), sweeps expired events and old empty sessions in bounded  *)
(* batches, then records events until it stops.  A hook is a short-lived   *)
(* process that checks that its host session exists, registers it when it  *)
(* does not, and appends.  A consumer pages through the events with a      *)
(* rowid cursor.                                                           *)
(*                                                                         *)
(* Every transaction is one step (BEGIN IMMEDIATE).  Row ids are issued as *)
(* SQLite issues an INTEGER PRIMARY KEY without AUTOINCREMENT: one more    *)
(* than the largest id in the table.                                       *)
(***************************************************************************)
EXTENDS Integers, FiniteSets

CONSTANTS
    Servers,      \* server processes; each names its own session (UUIDv7)
    HostSessions, \* session ids of the host program, used by hooks
    Hooks,        \* hook processes
    Consumers,    \* clients of ctr_export_events
    None,
    Retentions,   \* values of retention_sec; 0 states no policy
    ClientTypes,  \* event types given to ctr_record_event
    GCAge,        \* emptySessionMaxAgeSec
    Batch,        \* sweepBatchSessions
    Limit,        \* events on one export page
    Lag,          \* time between a process's look at the clock and what it
                  \* does with it, at most
    MaxEvents,    \* bound: events appended
    MaxTime       \* bound: clock

Types == {"session_start", "other"}

ASSUME SessionAssumption ==
    /\ None \notin Servers \cup HostSessions
    /\ Servers \cap HostSessions = {}
    /\ Retentions \subseteq Nat
    /\ ClientTypes \subseteq Types
    /\ GCAge \in Nat /\ Batch \in Nat \ {0} /\ Limit \in Nat \ {0}
    /\ Lag \in Nat /\ MaxEvents \in Nat /\ MaxTime \in Nat

VARIABLES
    sessions,  \* rows of table sessions
    events,    \* rows of table session_events
    server,    \* where each server is
    sweepNow,  \* the time a server's sweep was given
    hook,      \* hook processes
    cursor,    \* next_after, as each consumer last received it
    now,
    born,      \* history: events ever appended
    top,       \* history: the largest rowid ever given out
    delivered  \* history: event_ids each consumer received

vars == <<sessions, events, server, sweepNow, hook, cursor, now, born, top, delivered>>

-----------------------------------------------------------------------------
(* Rows and processes. *)

SessionIds == Servers \cup HostSessions

Session == [sid: SessionIds, started: 0..MaxTime, ret: Retentions]

(* event_id is a UUIDv7: unique.  "again" is history: the rowid had been    *)
(* given out before, to an event deleted since.                            *)
Event == [id: 1..MaxEvents, eid: 1..MaxEvents, sid: SessionIds, type: Types,
          ts: 0..MaxTime, again: BOOLEAN]

ServerStates == {"absent", "inserted", "opened", "sweep", "collect", "up", "stopped"}

IdleHook == [pc |-> "idle", sid |-> None, ret |-> None]

(* ret is the retention the hook registers its session with. *)
HookCall == [pc: {"register"}, sid: HostSessions, ret: Retentions]
            \cup [pc: {"append"}, sid: HostSessions, ret: {None}]

(* The scope of a consumer's cursor: one session, or None for the worktree. *)
Cursor == [scope: SessionIds \cup {None}, after: 0..MaxEvents]

TypeOK ==
    /\ sessions \subseteq Session
    /\ events \subseteq Event
    /\ server \in [Servers -> ServerStates]
    /\ sweepNow \in [Servers -> 0..MaxTime]
    /\ hook \in [Hooks -> HookCall \cup {IdleHook}]
    /\ cursor \in [Consumers -> Cursor]
    /\ now \in 0..MaxTime
    /\ born \in 0..MaxEvents
    /\ top \in 0..MaxEvents
    /\ delivered \in [Consumers -> SUBSET (1..MaxEvents)]

Init ==
    /\ sessions = {} /\ events = {}
    /\ server = [s \in Servers |-> "absent"]
    /\ sweepNow = [s \in Servers |-> 0]
    /\ hook = [h \in Hooks |-> IdleHook]
    /\ cursor \in [Consumers -> [scope: SessionIds \cup {None}, after: {0}]]
    /\ now = 0 /\ born = 0 /\ top = 0
    /\ delivered = [c \in Consumers |-> {}]

HasSession(sid) == \E s \in sessions : s.sid = sid

EventsOf(sid) == {e \in events : e.sid = sid}

-----------------------------------------------------------------------------
(* Appending. *)

(* SQLite's choice of rowid: one more than the largest in the table. *)
IsNextRowid(i) ==
    /\ i \in 1..MaxEvents
    /\ \A e \in events : e.id < i
    /\ i = 1 \/ \E e \in events : e.id = i - 1

(* A caller reads the clock before it waits for the writer lock: a time     *)
(* stamp is up to Lag old when the row that carries it is committed.        *)
Stamps == {t \in 0..MaxTime : t <= now /\ now <= t + Lag}

(* The INSERT of appendEvent, without its gate. *)
InsertEvent(sid, type, ts) ==
    /\ born < MaxEvents
    /\ \E i \in 1..MaxEvents :
         /\ IsNextRowid(i)
         /\ events' = events \cup {[id |-> i, eid |-> born + 1, sid |-> sid,
                                    type |-> type, ts |-> ts, again |-> i <= top]}
         /\ top' = IF i > top THEN i ELSE top
    /\ born' = born + 1

(* Mutant: an INSERT that relies on an earlier check of the session. *)
AppendUngated(sid, type, ts) == InsertEvent(sid, type, ts)

(* INSERT ... SELECT ... WHERE EXISTS(the session's row): ErrNotFound when  *)
(* the row is gone, and nothing is written.                                 *)
AppendEvent(sid, type, ts) ==
    /\ HasSession(sid)
    /\ InsertEvent(sid, type, ts)

(* EnsureSession: INSERT OR IGNORE of the row and, when the row is new, its *)
(* session_start event with the same stamp, in one transaction.             *)
EnsureSession(sid, ret) ==
    IF HasSession(sid)
    THEN UNCHANGED <<sessions, events, born, top>>
    ELSE \E t \in Stamps :
           /\ sessions' = sessions \cup {[sid |-> sid, started |-> t, ret |-> ret]}
           /\ InsertEvent(sid, "session_start", t)

-----------------------------------------------------------------------------
(* A server: Open, Sweep, ctr_record_event, stop. *)

ServerGoes(s, state) == server' = [server EXCEPT ![s] = state]

(* Open's first transaction. *)
OpenInsert(s) ==
    /\ server[s] = "absent"
    /\ ServerGoes(s, "inserted")
    /\ \E r \in Retentions, t \in Stamps :
         sessions' = sessions \cup {[sid |-> s, started |-> t, ret |-> r]}
    /\ UNCHANGED <<events, sweepNow, hook, cursor, now, born, top, delivered>>

(* The stamps of one process do not run backwards: none is older than the   *)
(* one of its session's row.                                                *)
StampsOf(s) == {t \in Stamps : \A r \in sessions : r.sid = s => r.started <= t}

(* Open's second transaction, the session_start event. *)
OpenAnnounce(s) ==
    /\ server[s] = "inserted"
    /\ ServerGoes(s, "opened")
    /\ \E ts \in StampsOf(s) : AppendEvent(s, "session_start", ts)
    /\ UNCHANGED <<sessions, sweepNow, hook, cursor, now, delivered>>

(* sweepSessionRetentionAtStart passes time.Now() right after Open. *)
SweepBegin(s) ==
    /\ server[s] = "opened"
    /\ ServerGoes(s, "sweep")
    /\ sweepNow' = [sweepNow EXCEPT ![s] = now]
    /\ UNCHANGED <<sessions, events, hook, cursor, now, born, top, delivered>>

(* Mutant: one global cutoff, whatever the session's own policy. *)
ExpiredForAll(e, at) == \E r \in sessions : r.ret > 0 /\ e.ts < at - r.ret

(* s.retention_sec > 0 AND e.ts < now - s.retention_sec, e joined with its session *)
Expired(e, at) ==
    \E r \in sessions : r.sid = e.sid /\ r.ret > 0 /\ e.ts < at - r.ret

(* A non-empty batch of X, of at most Batch members. *)
IsBatch(D, X) == D \subseteq X /\ D # {} /\ Cardinality(D) <= Batch

(* One retention batch: the expired events with the smallest ids. *)
SweepEvents(s) ==
    /\ server[s] = "sweep"
    /\ LET X == {e \in events : Expired(e, sweepNow[s])} IN
         \/ /\ X = {}
            /\ ServerGoes(s, "collect")
            /\ UNCHANGED events
         \/ \E D \in SUBSET X :
              /\ IsBatch(D, X)
              /\ D = X \/ Cardinality(D) = Batch
              /\ \A d \in D, x \in X \ D : d.id < x.id
              /\ events' = events \ D
              /\ UNCHANGED server
    /\ UNCHANGED <<sessions, sweepNow, hook, cursor, now, born, top, delivered>>

(* Sweep returns, or its process stops: the time it was given is forgotten. *)
SweepEnds(s, state) ==
    /\ ServerGoes(s, state)
    /\ sweepNow' = [sweepNow EXCEPT ![s] = 0]

(* started_at < now - emptySessionMaxAgeSec, and no event but session_start *)
Collectable(r, at) ==
    /\ r.started < at - GCAge
    /\ \A e \in EventsOf(r.sid) : e.type = "session_start"

(* One batch of the empty-session collection: the session_start events of   *)
(* the batch and then its rows, in one transaction.                         *)
CollectSessions(s) ==
    /\ server[s] = "collect"
    /\ LET X == {r \in sessions : Collectable(r, sweepNow[s])} IN
         \/ /\ X = {}
            /\ SweepEnds(s, "up")
            /\ UNCHANGED <<sessions, events>>
         \/ \E D \in SUBSET X :
              /\ IsBatch(D, X)
              /\ D = X \/ Cardinality(D) = Batch
              /\ sessions' = sessions \ D
              /\ events' = {e \in events : \/ e.type # "session_start"
                                           \/ \A r \in D : r.sid # e.sid}
              /\ UNCHANGED <<server, sweepNow>>
    /\ UNCHANGED <<hook, cursor, now, born, top, delivered>>

(* A failed sweep transaction ends the sweep; the server goes on. *)
SweepFails(s) ==
    /\ server[s] \in {"sweep", "collect"}
    /\ SweepEnds(s, "up")
    /\ UNCHANGED <<sessions, events, hook, cursor, now, born, top, delivered>>

(* ctr_record_event, under the server's own session. *)
RecordEvent(s) ==
    /\ server[s] = "up"
    /\ \E t \in ClientTypes, ts \in StampsOf(s) : AppendEvent(s, t, ts)
    /\ UNCHANGED <<sessions, server, sweepNow, hook, cursor, now, delivered>>

(* Open fails after its first transaction, the process is killed, or the    *)
(* client closes the connection.                                            *)
ServerStops(s) ==
    /\ server[s] \notin {"absent", "stopped"}
    /\ SweepEnds(s, "stopped")
    /\ UNCHANGED <<sessions, events, hook, cursor, now, born, top, delivered>>

-----------------------------------------------------------------------------
(* A hook process: dispatch. *)

(* The SessionStart event only registers the session. *)
HookSessionStart(sid, ret) ==
    /\ ~HasSession(sid)
    /\ EnsureSession(sid, ret)
    /\ UNCHANGED <<server, sweepNow, hook, cursor, now, delivered>>

(* Any other event: SessionExists, on a connection of its own. *)
HookCheck(h, sid, ret) ==
    /\ hook[h].pc = "idle"
    /\ hook' = [hook EXCEPT ![h] =
                  IF HasSession(sid)
                  THEN [pc |-> "append", sid |-> sid, ret |-> None]
                  ELSE [pc |-> "register", sid |-> sid, ret |-> ret]]
    /\ UNCHANGED <<sessions, events, server, sweepNow, cursor, now, born, top, delivered>>

HookRegister(h) ==
    /\ hook[h].pc = "register"
    /\ EnsureSession(hook[h].sid, hook[h].ret)
    /\ hook' = [hook EXCEPT ![h].pc = "append", ![h].ret = None]
    /\ UNCHANGED <<server, sweepNow, cursor, now, delivered>>

(* The event itself; a captured tool result appends two more. *)
HookAppend(h) ==
    /\ hook[h].pc = "append"
    /\ \E ts \in Stamps : AppendEvent(hook[h].sid, "other", ts)
    /\ hook' \in {hook, [hook EXCEPT ![h] = IdleHook]}
    /\ UNCHANGED <<sessions, server, sweepNow, cursor, now, delivered>>

(* The session is gone, the deadline passed or the process was killed: the  *)
(* event is dropped.                                                        *)
HookDrop(h) ==
    /\ hook[h].pc # "idle"
    /\ hook' = [hook EXCEPT ![h] = IdleHook]
    /\ UNCHANGED <<sessions, events, server, sweepNow, cursor, now, born, top, delivered>>

-----------------------------------------------------------------------------
(* ctr_export_events. *)

InScope(e, c) == cursor[c].scope \in {None, e.sid}

(* What Export selects for a cursor, before its limit. *)
Pending(c) == {e \in events : InScope(e, c) /\ e.id > cursor[c].after}

(* Mutant: the cursor of the whole page, events over the budget included. *)
PageEnd(n, kept, page) == \E e \in page : e.id = n /\ \A f \in page : f.id <= n

(* applyExportBudget: next_after is the id of the last event returned. *)
IsNextAfter(n, kept, page) == \E e \in kept : e.id = n /\ \A f \in kept : f.id <= n

IsPrefix(D, X) == D \subseteq X /\ \A d \in D, x \in X \ D : d.id < x.id

(* One call: the first Limit rows after the cursor, cut where the byte      *)
(* budget ends.  A call that returns nothing leaves the cursor where it is. *)
ExportPage(c) ==
    /\ \E page \in SUBSET Pending(c) :
         /\ IsPrefix(page, Pending(c))
         /\ page = Pending(c) \/ Cardinality(page) = Limit
         /\ Cardinality(page) <= Limit
         /\ \E kept \in (SUBSET page) \ {{}} :
              /\ IsPrefix(kept, page)
              /\ \E n \in 1..MaxEvents :
                   /\ IsNextAfter(n, kept, page)
                   /\ cursor' = [cursor EXCEPT ![c].after = n]
              /\ delivered' = [delivered EXCEPT ![c] = @ \cup {e.eid : e \in kept}]
    /\ UNCHANGED <<sessions, events, server, sweepNow, hook, now, born, top>>

-----------------------------------------------------------------------------

(* Assumption: a start takes at most Lag, from the stamp of its session's   *)
(* row to its sweep.                                                        *)
Tick ==
    /\ now < MaxTime
    /\ \A s \in Servers : server[s] \in {"inserted", "opened"} =>
         \A r \in sessions : r.sid = s => now < r.started + Lag
    /\ now' = now + 1
    /\ UNCHANGED <<sessions, events, server, sweepNow, hook, cursor, born, top, delivered>>

SweepStep(s) == SweepEvents(s) \/ CollectSessions(s)

ServerStep(s) ==
    \/ OpenInsert(s) \/ OpenAnnounce(s) \/ SweepBegin(s)
    \/ SweepStep(s) \/ SweepFails(s) \/ RecordEvent(s) \/ ServerStops(s)

HookStep(h) == HookRegister(h) \/ HookAppend(h) \/ HookDrop(h)

Next ==
    \/ \E s \in Servers : ServerStep(s)
    \/ \E x \in HostSessions, r \in Retentions : HookSessionStart(x, r)
    \/ \E h \in Hooks, x \in HostSessions, r \in Retentions : HookCheck(h, x, r)
    \/ \E h \in Hooks : HookStep(h)
    \/ \E c \in Consumers : ExportPage(c)
    \/ Tick

Spec == Init /\ [][Next]_vars

-----------------------------------------------------------------------------
(* Properties. *)

(* No event outlives its session's row (session.go appendEvent's WHERE      *)
(* EXISTS): an orphan would escape every retention join for ever.           *)
NoOrphanEvents == \A e \in events : HasSession(e.sid)

(* Paging loses nothing but what a rowid given out twice hides: an event    *)
(* still in the table at or before a consumer's cursor, and in its scope,   *)
(* was returned to that consumer, unless its rowid had belonged to an event *)
(* deleted before (mcp_session.go applyExportBudget, session.go:63).  Those *)
(* it does skip, which the comment there (386-387) rules out: a collection  *)
(* may delete the last row, a session_start that a client recorded.         *)
CursorMissesNothing ==
    \A c \in Consumers : \A e \in events :
        InScope(e, c) /\ e.id <= cursor[c].after /\ ~e.again => e.eid \in delivered[c]

(* An event leaves the table only when it has expired under the policy of   *)
(* its own session, or as the session_start of a session that is deleted    *)
(* with it, old and otherwise empty (retention.go Sweep).                   *)
DeletedByOwnPolicy ==
    [][\A e \in events \ events' :
         \E r \in sessions :
           /\ r.sid = e.sid
           /\ \/ r.ret > 0 /\ e.ts < now - r.ret
              \/ /\ r \notin sessions' /\ r.started < now - GCAge
                 /\ \A f \in EventsOf(r.sid) : f.type = "session_start"]_vars

(* An event stays under the policy it was appended under: while it is in    *)
(* the table its session has one row, and always the same one, although     *)
(* collections delete rows and hooks register a session id again with       *)
(* another retention (retention.go Sweep, session.go EnsureSession).        *)
PolicyIsForLife ==
    [][\A e \in events \cap events' :
         \E r \in sessions \cap sessions' :
           r.sid = e.sid /\ \A q \in sessions \cup sessions' : q.sid = e.sid => q = r]_vars

=============================================================================
