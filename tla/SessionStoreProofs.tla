------------------------- MODULE SessionStoreProofs -------------------------
(***************************************************************************)
(* Proofs about SessionStore, for any number of servers, hooks, host       *)
(* sessions and consumers and any batch size, page size and age limit.     *)
(***************************************************************************)
EXTENDS SessionStore, TLAPS

NewEvent(i, sid, type, ts) ==
    [id |-> i, eid |-> born + 1, sid |-> sid, type |-> type, ts |-> ts, again |-> i <= top]

(* What an INSERT does to the table, whatever the rowid it gets. *)
LEMMA InsertShape ==
    ASSUME TypeOK, NEW sid \in SessionIds, NEW type \in Types, NEW ts \in 0..MaxTime,
           InsertEvent(sid, type, ts)
    PROVE  /\ born' = born + 1 /\ born' \in 0..MaxEvents /\ top' \in 0..MaxEvents
           /\ \E i \in 1..MaxEvents :
                /\ IsNextRowid(i)
                /\ events' = events \cup {NewEvent(i, sid, type, ts)}
                /\ NewEvent(i, sid, type, ts) \in Event
                /\ top' = IF i > top THEN i ELSE top
  <1>1. born' = born + 1 /\ born' \in 0..MaxEvents /\ born + 1 \in 1..MaxEvents
    BY SessionAssumption DEF InsertEvent, TypeOK
  <1>2. PICK i \in 1..MaxEvents :
          /\ IsNextRowid(i)
          /\ events' = events \cup {NewEvent(i, sid, type, ts)}
          /\ top' = IF i > top THEN i ELSE top
    BY DEF InsertEvent, NewEvent
  <1>3. NewEvent(i, sid, type, ts) \in Event
    BY <1>1, <1>2 DEF NewEvent, Event
  <1>4. top' \in 0..MaxEvents
    BY <1>2, SessionAssumption DEF TypeOK
  <1> QED
    BY <1>1, <1>2, <1>3, <1>4

(* EnsureSession either changes nothing or adds the row with its event. *)
LEMMA EnsureShape ==
    ASSUME TypeOK, NEW sid \in HostSessions, NEW ret \in Retentions, EnsureSession(sid, ret)
    PROVE  \/ UNCHANGED <<sessions, events, born, top>>
           \/ /\ ~HasSession(sid)
              /\ \E t \in 0..MaxTime :
                   /\ sessions' = sessions \cup {[sid |-> sid, started |-> t, ret |-> ret]}
                   /\ [sid |-> sid, started |-> t, ret |-> ret] \in Session
                   /\ InsertEvent(sid, "session_start", t)
  <1>1. CASE HasSession(sid)
    BY <1>1 DEF EnsureSession
  <1>2. CASE ~HasSession(sid)
    <2>1. PICK t \in Stamps :
            /\ sessions' = sessions \cup {[sid |-> sid, started |-> t, ret |-> ret]}
            /\ InsertEvent(sid, "session_start", t)
      BY <1>2 DEF EnsureSession
    <2>2. t \in 0..MaxTime /\ sid \in SessionIds
      BY DEF Stamps, SessionIds
    <2> QED
      BY <1>2, <2>1, <2>2 DEF Session
  <1> QED
    BY <1>1, <1>2

(* The numbers in a well-formed state, for the arithmetic of later steps. *)
LEMMA Numbers ==
    ASSUME TypeOK
    PROVE  /\ now \in Int /\ now >= 0 /\ born \in Int /\ top \in Int /\ top >= 0
           /\ \A e \in events : e.id \in Int /\ e.eid \in Int /\ e.ts \in Int
                                /\ e.id >= 1 /\ e.eid >= 1
           /\ \A s \in Servers : sweepNow[s] \in Int
           /\ \A c \in Consumers : cursor[c].after \in Int
           /\ \A r \in sessions : r.ret \in Int /\ r.started \in Int
  <1>1. /\ now \in Int /\ now >= 0 /\ born \in Int /\ top \in Int /\ top >= 0
        /\ \A s \in Servers : sweepNow[s] \in Int
    BY SessionAssumption DEF TypeOK
  <1>2. ASSUME NEW e \in events
        PROVE  e.id \in Int /\ e.eid \in Int /\ e.ts \in Int /\ e.id >= 1 /\ e.eid >= 1
    <2>1. e \in Event
      BY DEF TypeOK
    <2> QED
      BY <2>1, SessionAssumption DEF Event
  <1>3. ASSUME NEW r \in sessions
        PROVE  r.ret \in Int /\ r.started \in Int
    <2>1. r \in Session
      BY DEF TypeOK
    <2>2. r.ret \in Retentions /\ r.started \in Int
      BY <2>1 DEF Session
    <2>3. Retentions \subseteq Int
      BY SessionAssumption
    <2> QED
      BY <2>2, <2>3
  <1>4. ASSUME NEW c \in Consumers
        PROVE  cursor[c].after \in Int
    BY DEF TypeOK, Cursor
  <1> QED
    BY <1>1, <1>2, <1>3, <1>4

-----------------------------------------------------------------------------
(* Types. *)

LEMMA TypeInit == Init => TypeOK
  BY SessionAssumption DEF Init, TypeOK, ServerStates, HookCall, IdleHook, Cursor

LEMMA TypeServer ==
    ASSUME TypeOK, NEW s \in Servers, ServerStep(s)
    PROVE  TypeOK'
  <1>t. s \in SessionIds
    BY DEF SessionIds
  <1>1. CASE OpenInsert(s)
    <2>1. \A r \in Retentions, t \in Stamps : [sid |-> s, started |-> t, ret |-> r] \in Session
      BY <1>t DEF Session, Stamps
    <2> QED
      BY <1>1, <2>1 DEF OpenInsert, TypeOK, ServerGoes, ServerStates
  <1>2. CASE OpenAnnounce(s)
    <2>1. PICK ts \in 0..MaxTime : InsertEvent(s, "session_start", ts)
      BY <1>2 DEF OpenAnnounce, AppendEvent, StampsOf, Stamps
    <2>2. events' \subseteq Event /\ born' \in 0..MaxEvents /\ top' \in 0..MaxEvents
      BY <2>1, <1>t, InsertShape DEF TypeOK, Types
    <2> QED
      BY <1>2, <2>2 DEF OpenAnnounce, TypeOK, ServerGoes, ServerStates
  <1>3. CASE SweepBegin(s)
    BY <1>3 DEF SweepBegin, TypeOK, ServerGoes, ServerStates
  <1>4. CASE SweepEvents(s)
    <2>1. events' \subseteq events /\ server' \in [Servers -> ServerStates]
      BY <1>4 DEF SweepEvents, TypeOK, ServerGoes, ServerStates
    <2> QED
      BY <1>4, <2>1 DEF SweepEvents, TypeOK
  <1>5. CASE CollectSessions(s)
    <2>1. events' \subseteq events /\ sessions' \subseteq sessions
      BY <1>5 DEF CollectSessions
    <2>2. UNCHANGED <<server, sweepNow>> \/ SweepEnds(s, "up")
      BY <1>5 DEF CollectSessions
    <2>3. server' \in [Servers -> ServerStates] /\ sweepNow' \in [Servers -> 0..MaxTime]
      BY <2>2, SessionAssumption DEF TypeOK, SweepEnds, ServerGoes, ServerStates
    <2> QED
      BY <1>5, <2>1, <2>3 DEF CollectSessions, TypeOK
  <1>6. CASE SweepFails(s)
    BY <1>6, SessionAssumption DEF SweepFails, TypeOK, SweepEnds, ServerGoes, ServerStates
  <1>7. CASE RecordEvent(s)
    <2>1. PICK t \in ClientTypes, ts \in 0..MaxTime : InsertEvent(s, t, ts)
      BY <1>7 DEF RecordEvent, AppendEvent, StampsOf, Stamps
    <2>2. events' \subseteq Event /\ born' \in 0..MaxEvents /\ top' \in 0..MaxEvents
      BY <2>1, <1>t, InsertShape, SessionAssumption DEF TypeOK
    <2> QED
      BY <1>7, <2>2 DEF RecordEvent, TypeOK
  <1>8. CASE ServerStops(s)
    BY <1>8, SessionAssumption DEF ServerStops, TypeOK, SweepEnds, ServerGoes, ServerStates
  <1> QED
    BY <1>1, <1>2, <1>3, <1>4, <1>5, <1>6, <1>7, <1>8 DEF ServerStep, SweepStep

LEMMA TypeEnsure ==
    ASSUME TypeOK, NEW sid \in HostSessions, NEW ret \in Retentions, EnsureSession(sid, ret)
    PROVE  /\ sessions' \subseteq Session /\ events' \subseteq Event
           /\ born' \in 0..MaxEvents /\ top' \in 0..MaxEvents
  <1>1. CASE UNCHANGED <<sessions, events, born, top>>
    BY <1>1 DEF TypeOK
  <1>2. ASSUME NEW t \in 0..MaxTime,
               sessions' = sessions \cup {[sid |-> sid, started |-> t, ret |-> ret]},
               [sid |-> sid, started |-> t, ret |-> ret] \in Session,
               InsertEvent(sid, "session_start", t)
        PROVE  /\ sessions' \subseteq Session /\ events' \subseteq Event
               /\ born' \in 0..MaxEvents /\ top' \in 0..MaxEvents
    <2>1. events' \subseteq Event /\ born' \in 0..MaxEvents /\ top' \in 0..MaxEvents
      BY <1>2, InsertShape DEF TypeOK, Types, SessionIds
    <2> QED
      BY <1>2, <2>1 DEF TypeOK
  <1> QED
    BY <1>1, <1>2, EnsureShape

LEMMA TypeHook ==
    ASSUME TypeOK, NEW h \in Hooks, HookStep(h)
    PROVE  TypeOK'
  <1>t. hook[h].pc # "idle" => hook[h] \in HookCall
    BY DEF TypeOK, IdleHook
  <1>1. CASE HookRegister(h)
    <2>1. hook[h] \in [pc: {"register"}, sid: HostSessions, ret: Retentions]
      BY <1>1, <1>t DEF HookRegister, HookCall
    <2>2. hook' \in [Hooks -> HookCall \cup {IdleHook}]
      BY <1>1, <2>1 DEF HookRegister, TypeOK, HookCall
    <2>3. /\ sessions' \subseteq Session /\ events' \subseteq Event
          /\ born' \in 0..MaxEvents /\ top' \in 0..MaxEvents
      BY <1>1, <2>1, TypeEnsure DEF HookRegister
    <2> QED
      BY <1>1, <2>2, <2>3 DEF HookRegister, TypeOK
  <1>2. CASE HookAppend(h)
    <2>1. hook[h] \in HookCall
      BY <1>2, <1>t DEF HookAppend
    <2>2. PICK ts \in 0..MaxTime : InsertEvent(hook[h].sid, "other", ts)
      BY <1>2 DEF HookAppend, AppendEvent, Stamps
    <2>3. events' \subseteq Event /\ born' \in 0..MaxEvents /\ top' \in 0..MaxEvents
      BY <2>1, <2>2, InsertShape DEF TypeOK, Types, HookCall, SessionIds
    <2>4. hook' \in [Hooks -> HookCall \cup {IdleHook}]
      BY <1>2 DEF HookAppend, TypeOK
    <2> QED
      BY <1>2, <2>3, <2>4 DEF HookAppend, TypeOK
  <1>3. CASE HookDrop(h)
    BY <1>3 DEF HookDrop, TypeOK
  <1> QED
    BY <1>1, <1>2, <1>3 DEF HookStep

LEMMA TypeExport ==
    ASSUME TypeOK, NEW c \in Consumers, ExportPage(c)
    PROVE  TypeOK'
  <1>1. PICK kept \in SUBSET events, n \in 1..MaxEvents :
          /\ cursor' = [cursor EXCEPT ![c].after = n]
          /\ delivered' = [delivered EXCEPT ![c] = @ \cup {e.eid : e \in kept}]
    BY DEF ExportPage, Pending
  <1>2. {e.eid : e \in kept} \subseteq 1..MaxEvents
    BY <1>1 DEF TypeOK, Event
  <1>3. delivered' \in [Consumers -> SUBSET (1..MaxEvents)]
    BY <1>1, <1>2 DEF TypeOK
  <1>4. cursor' \in [Consumers -> Cursor]
    BY <1>1, SessionAssumption DEF TypeOK, Cursor
  <1> QED
    BY <1>3, <1>4 DEF ExportPage, TypeOK

LEMMA TypeNext == TypeOK /\ [Next]_vars => TypeOK'
  <1> SUFFICES ASSUME TypeOK, [Next]_vars PROVE TypeOK'
    OBVIOUS
  <1>1. CASE \E s \in Servers : ServerStep(s)
    BY <1>1, TypeServer
  <1>2. ASSUME NEW x \in HostSessions, NEW r \in Retentions, HookSessionStart(x, r)
        PROVE  TypeOK'
    BY <1>2, TypeEnsure DEF HookSessionStart, TypeOK
  <1>3. ASSUME NEW h \in Hooks, NEW x \in HostSessions, NEW r \in Retentions, HookCheck(h, x, r)
        PROVE  TypeOK'
    BY <1>3 DEF HookCheck, TypeOK, HookCall
  <1>4. CASE \E h \in Hooks : HookStep(h)
    BY <1>4, TypeHook
  <1>5. CASE \E c \in Consumers : ExportPage(c)
    BY <1>5, TypeExport
  <1>6. CASE Tick
    BY <1>6, SessionAssumption DEF Tick, TypeOK
  <1>7. CASE UNCHANGED vars
    BY <1>7 DEF vars, TypeOK
  <1> QED
    BY <1>1, <1>2, <1>3, <1>4, <1>5, <1>6, <1>7 DEF Next

(* Every row, cursor and process of a worktree's session.db stays well       *)
(* formed: in particular a hook that is about to register or append always  *)
(* knows its session and its policy (hook.go dispatch).                      *)
THEOREM SessionTypeCorrect == Spec => []TypeOK
  BY TypeInit, TypeNext, PTL DEF Spec

-----------------------------------------------------------------------------
(* No orphans: a row is inserted only beside its session's row, and the     *)
(* collector removes a session's row only with all of its events.           *)

LEMMA OrphanInsert ==
    ASSUME TypeOK, NEW sid \in SessionIds, NEW type \in Types, NEW ts \in 0..MaxTime,
           NoOrphanEvents, InsertEvent(sid, type, ts),
           sessions \subseteq sessions', HasSession(sid)'
    PROVE  NoOrphanEvents'
  <1>1. PICK i : events' = events \cup {NewEvent(i, sid, type, ts)}
    BY InsertShape
  <1> QED
    BY <1>1 DEF NoOrphanEvents, HasSession, NewEvent

LEMMA OrphanEnsure ==
    ASSUME TypeOK, NEW sid \in HostSessions, NEW ret \in Retentions,
           NoOrphanEvents, EnsureSession(sid, ret)
    PROVE  NoOrphanEvents'
  <1>1. CASE UNCHANGED <<sessions, events, born, top>>
    BY <1>1 DEF NoOrphanEvents, HasSession
  <1>2. ASSUME NEW t \in 0..MaxTime,
               sessions' = sessions \cup {[sid |-> sid, started |-> t, ret |-> ret]},
               InsertEvent(sid, "session_start", t)
        PROVE  NoOrphanEvents'
    <2> DEFINE row == [sid |-> sid, started |-> t, ret |-> ret]
    <2>1. row \in sessions' /\ row.sid = sid
      BY <1>2
    <2>2. HasSession(sid)' /\ sessions \subseteq sessions'
      BY <1>2, <2>1 DEF HasSession
    <2> QED
      BY <1>2, <2>2, OrphanInsert DEF SessionIds, Types
  <1> QED
    BY <1>1, <1>2, EnsureShape

LEMMA OrphanServer ==
    ASSUME TypeOK, NoOrphanEvents, NEW s \in Servers, ServerStep(s)
    PROVE  NoOrphanEvents'
  <1>t. s \in SessionIds /\ {"session_start", "other"} = Types
    BY DEF SessionIds, Types
  <1>1. CASE OpenInsert(s)
    BY <1>1 DEF OpenInsert, NoOrphanEvents, HasSession
  <1>2. CASE OpenAnnounce(s)
    <2>1. HasSession(s)' /\ sessions' = sessions
      BY <1>2 DEF OpenAnnounce, AppendEvent, HasSession
    <2>2. PICK ts \in 0..MaxTime : InsertEvent(s, "session_start", ts)
      BY <1>2 DEF OpenAnnounce, AppendEvent, StampsOf, Stamps
    <2> QED
      BY <2>1, <2>2, <1>t, OrphanInsert
  <1>3. CASE SweepBegin(s) \/ SweepFails(s) \/ ServerStops(s)
    BY <1>3 DEF SweepBegin, SweepFails, ServerStops, NoOrphanEvents, HasSession
  <1>4. CASE SweepEvents(s)
    <2>1. events' \subseteq events /\ sessions' = sessions
      BY <1>4 DEF SweepEvents
    <2> QED
      BY <2>1 DEF NoOrphanEvents, HasSession
  <1>5. CASE CollectSessions(s)
    <2>1. CASE UNCHANGED <<sessions, events>>
      BY <2>1 DEF NoOrphanEvents, HasSession
    <2>2. ASSUME NEW D \in SUBSET {r \in sessions : Collectable(r, sweepNow[s])},
                 sessions' = sessions \ D,
                 events' = {e \in events : \/ e.type # "session_start"
                                           \/ \A r \in D : r.sid # e.sid}
          PROVE  NoOrphanEvents'
      <3> SUFFICES ASSUME NEW e \in events' PROVE HasSession(e.sid)'
        BY DEF NoOrphanEvents
      <3>1. PICK r \in sessions : r.sid = e.sid
        BY <2>2 DEF NoOrphanEvents, HasSession
      <3>2. r \notin D
        BY <2>2, <3>1 DEF Collectable, EventsOf
      <3> QED
        BY <2>2, <3>1, <3>2 DEF HasSession
    <2> QED
      BY <1>5, <2>1, <2>2 DEF CollectSessions
  <1>6. CASE RecordEvent(s)
    <2>1. PICK t \in ClientTypes, ts \in 0..MaxTime : HasSession(s) /\ InsertEvent(s, t, ts)
      BY <1>6 DEF RecordEvent, AppendEvent, StampsOf, Stamps
    <2>2. HasSession(s)' /\ sessions' = sessions
      BY <1>6, <2>1 DEF RecordEvent, HasSession
    <2> QED
      BY <2>1, <2>2, <1>t, OrphanInsert, SessionAssumption
  <1> QED
    BY <1>1, <1>2, <1>3, <1>4, <1>5, <1>6 DEF ServerStep, SweepStep

LEMMA OrphanNext == TypeOK /\ NoOrphanEvents /\ [Next]_vars => NoOrphanEvents'
  <1> SUFFICES ASSUME TypeOK, NoOrphanEvents, [Next]_vars PROVE NoOrphanEvents'
    OBVIOUS
  <1>1. CASE \E s \in Servers : ServerStep(s)
    BY <1>1, OrphanServer
  <1>2. ASSUME NEW x \in HostSessions, NEW r \in Retentions, HookSessionStart(x, r)
        PROVE  NoOrphanEvents'
    BY <1>2, OrphanEnsure DEF HookSessionStart
  <1>3. ASSUME NEW h \in Hooks, HookRegister(h)
        PROVE  NoOrphanEvents'
    <2>1. hook[h] \in HookCall
      BY <1>3 DEF HookRegister, TypeOK, IdleHook
    <2> QED
      BY <1>3, <2>1, OrphanEnsure DEF HookRegister, HookCall
  <1>4. ASSUME NEW h \in Hooks, HookAppend(h)
        PROVE  NoOrphanEvents'
    <2>1. hook[h].sid \in SessionIds
      BY <1>4 DEF HookAppend, TypeOK, IdleHook, HookCall, SessionIds
    <2>2. HasSession(hook[h].sid) /\ sessions' = sessions
      BY <1>4 DEF HookAppend, AppendEvent
    <2>3. PICK i, ts : events' = events \cup {NewEvent(i, hook[h].sid, "other", ts)}
      BY <1>4, <2>1, InsertShape DEF HookAppend, AppendEvent, Types, Stamps
    <2> QED
      BY <2>2, <2>3 DEF NoOrphanEvents, HasSession, NewEvent
  <1>5. CASE UNCHANGED <<sessions, events>>
    BY <1>5 DEF NoOrphanEvents, HasSession
  <1> QED
    BY <1>1, <1>2, <1>3, <1>4, <1>5
    DEF Next, HookStep, HookCheck, HookDrop, ExportPage, Tick, vars

(* No interleaving of the collector with servers and hooks leaves an event  *)
(* without its session (session.go appendEvent, retention.go Sweep).        *)
THEOREM NoOrphans == Spec => []NoOrphanEvents
  <1>1. Init => NoOrphanEvents
    BY DEF Init, NoOrphanEvents
  <1> QED
    BY <1>1, TypeInit, TypeNext, OrphanNext, PTL DEF Spec

-----------------------------------------------------------------------------
(* Deletions. *)

SweepTime == \A s \in Servers : sweepNow[s] <= now

LEMMA SweepTimeNext == TypeOK /\ SweepTime /\ [Next]_vars => SweepTime'
  <1> SUFFICES ASSUME TypeOK, SweepTime, [Next]_vars PROVE SweepTime'
    OBVIOUS
  <1>1. ASSUME NEW s \in Servers, SweepBegin(s)
        PROVE  SweepTime'
    BY <1>1 DEF SweepBegin, SweepTime, TypeOK
  <1>2. CASE Tick
    BY <1>2 DEF Tick, SweepTime, TypeOK
  <1>3. CASE UNCHANGED <<sweepNow, now>>
    BY <1>3 DEF SweepTime
  <1>4. ASSUME NEW s \in Servers, sweepNow' = [sweepNow EXCEPT ![s] = 0], UNCHANGED now
        PROVE  SweepTime'
    BY <1>4, Numbers DEF SweepTime, TypeOK
  <1> QED
    BY <1>1, <1>2, <1>3, <1>4
    DEF SweepEnds, Next, ServerStep, SweepStep, HookStep, OpenInsert, OpenAnnounce, SweepEvents,
        CollectSessions, SweepFails, RecordEvent, ServerStops, HookSessionStart,
        HookCheck, HookRegister, HookAppend, HookDrop, ExportPage, vars

DeletesByOwnPolicy ==
    \A e \in events \ events' :
      \E r \in sessions :
        /\ r.sid = e.sid
        /\ \/ r.ret > 0 /\ e.ts < now - r.ret
           \/ /\ r \notin sessions' /\ r.started < now - GCAge
              /\ \A f \in EventsOf(r.sid) : f.type = "session_start"

LEMMA DeletionStep == TypeOK /\ SweepTime /\ [Next]_vars => DeletesByOwnPolicy
  <1> SUFFICES ASSUME TypeOK, SweepTime, [Next]_vars,
                      NEW e \in events \ events'
               PROVE  \E r \in sessions :
                        /\ r.sid = e.sid
                        /\ \/ r.ret > 0 /\ e.ts < now - r.ret
                           \/ /\ r \notin sessions' /\ r.started < now - GCAge
                              /\ \A f \in EventsOf(r.sid) : f.type = "session_start"
    BY DEF DeletesByOwnPolicy
  <1>t. /\ now \in Int /\ e.ts \in Int /\ GCAge \in Int
        /\ \A s \in Servers : sweepNow[s] \in Int /\ sweepNow[s] <= now
        /\ \A r \in sessions : r.ret \in Int /\ r.started \in Int
    BY Numbers, SessionAssumption DEF SweepTime
  <1>1. ASSUME NEW s \in Servers, SweepEvents(s)
        PROVE  \E r \in sessions : r.sid = e.sid /\ r.ret > 0 /\ e.ts < now - r.ret
    <2>1. Expired(e, sweepNow[s])
      BY <1>1 DEF SweepEvents
    <2>2. PICK r \in sessions : r.sid = e.sid /\ r.ret > 0 /\ e.ts < sweepNow[s] - r.ret
      BY <2>1 DEF Expired
    <2> QED
      BY <2>2, <1>t
  <1>2. ASSUME NEW s \in Servers, CollectSessions(s)
        PROVE  \E r \in sessions :
                 /\ r.sid = e.sid /\ r \notin sessions' /\ r.started < now - GCAge
                 /\ \A f \in EventsOf(r.sid) : f.type = "session_start"
    <2>1. PICK D \in SUBSET {r \in sessions : Collectable(r, sweepNow[s])} :
            /\ sessions' = sessions \ D
            /\ events' = {d \in events : \/ d.type # "session_start"
                                         \/ \A r \in D : r.sid # d.sid}
      BY <1>2 DEF CollectSessions
    <2>2. PICK r \in D : r.sid = e.sid
      BY <2>1
    <2>3. r.started < sweepNow[s] - GCAge /\ \A f \in EventsOf(r.sid) : f.type = "session_start"
      BY <2>1, <2>2 DEF Collectable
    <2> QED
      BY <2>1, <2>2, <2>3, <1>t
  <1>3. CASE events \subseteq events'
    BY <1>3
  <1> QED
    BY <1>1, <1>2, <1>3
    DEF Next, ServerStep, SweepStep, HookStep, OpenInsert, OpenAnnounce, SweepBegin,
        SweepFails, RecordEvent, ServerStops, HookSessionStart, AppendEvent, EnsureSession,
        InsertEvent, HookCheck, HookRegister, HookAppend, HookDrop, ExportPage, Tick, vars

(* Whatever sweeps run side by side, an event is deleted only under the     *)
(* policy of its own session or with its empty session (retention.go Sweep). *)
THEOREM SweepHonoursPolicy == Spec => DeletedByOwnPolicy
  <1>1. Init => SweepTime
    BY SessionAssumption DEF Init, SweepTime
  <1>2. TypeOK /\ SweepTime /\ [Next]_vars => [DeletesByOwnPolicy]_vars
    BY DeletionStep
  <1> QED
    BY <1>1, <1>2, TypeInit, TypeNext, SweepTimeNext, PTL
    DEF Spec, DeletedByOwnPolicy, DeletesByOwnPolicy

-----------------------------------------------------------------------------
(* Policies.  A row is added only for a session that has none.              *)

RowsInv ==
    /\ \A s \in Servers : server[s] = "absent" => ~HasSession(s)
    /\ \A r, q \in sessions : r.sid = q.sid => q = r

NewRowsAreNew == \A q \in sessions' \ sessions : ~HasSession(q.sid)

(* One row more, for a session without one. *)
LEMMA RowAdded ==
    ASSUME RowsInv, NEW row, ~HasSession(row.sid), sessions' = sessions \cup {row},
           \A s \in Servers : server'[s] = "absent" => server[s] = "absent" /\ s # row.sid
    PROVE  RowsInv' /\ NewRowsAreNew
  <1>1. \A r \in sessions : r.sid # row.sid
    BY DEF HasSession
  <1>2. \A s \in Servers : server'[s] = "absent" => ~HasSession(s)'
    BY DEF RowsInv, HasSession
  <1>3. \A r, q \in sessions' : r.sid = q.sid => q = r
    BY <1>1 DEF RowsInv
  <1> QED
    BY <1>2, <1>3 DEF RowsInv, NewRowsAreNew

LEMMA RowsKept ==
    ASSUME RowsInv, sessions' \subseteq sessions,
           \A s \in Servers : server'[s] = "absent" => server[s] = "absent"
    PROVE  RowsInv' /\ NewRowsAreNew
  BY DEF RowsInv, NewRowsAreNew, HasSession

LEMMA RowsEnsure ==
    ASSUME TypeOK, RowsInv, NEW sid \in HostSessions, NEW ret \in Retentions,
           EnsureSession(sid, ret), UNCHANGED server
    PROVE  RowsInv' /\ NewRowsAreNew
  <1>1. CASE UNCHANGED <<sessions, events, born, top>>
    BY <1>1, RowsKept
  <1>2. ASSUME NEW t, ~HasSession(sid),
               sessions' = sessions \cup {[sid |-> sid, started |-> t, ret |-> ret]}
        PROVE  RowsInv' /\ NewRowsAreNew
    <2> DEFINE row == [sid |-> sid, started |-> t, ret |-> ret]
    <2>1. row.sid = sid /\ sessions' = sessions \cup {row}
      BY <1>2
    <2>2. \A s \in Servers : s # sid
      BY SessionAssumption
    <2> HIDE DEF row
    <2> QED
      BY <1>2, <2>1, <2>2, RowAdded
  <1> QED
    BY <1>1, <1>2, EnsureShape

LEMMA RowsServer ==
    ASSUME TypeOK, RowsInv, NEW s \in Servers, ServerStep(s)
    PROVE  RowsInv' /\ NewRowsAreNew
  <1>t. server \in [Servers -> ServerStates]
    BY DEF TypeOK
  <1>1. CASE OpenInsert(s)
    <2>1. PICK r, t : sessions' = sessions \cup {[sid |-> s, started |-> t, ret |-> r]}
      BY <1>1 DEF OpenInsert
    <2> DEFINE row == [sid |-> s, started |-> t, ret |-> r]
    <2>2. row.sid = s /\ sessions' = sessions \cup {row}
      BY <2>1
    <2>3. ~HasSession(s) /\ server' = [server EXCEPT ![s] = "inserted"]
      BY <1>1 DEF OpenInsert, RowsInv, ServerGoes
    <2> HIDE DEF row
    <2> QED
      BY <1>t, <2>2, <2>3, RowAdded
  <1>2. ASSUME sessions' \subseteq sessions,
               \/ UNCHANGED server
               \/ \E state \in ServerStates \ {"absent"} : ServerGoes(s, state)
        PROVE  RowsInv' /\ NewRowsAreNew
    BY <1>t, <1>2, RowsKept DEF ServerGoes
  <1>3. CASE OpenAnnounce(s) \/ RecordEvent(s) \/ SweepBegin(s)
    BY <1>2, <1>3 DEF OpenAnnounce, RecordEvent, SweepBegin, ServerStates
  <1>4. CASE SweepStep(s)
    BY <1>2, <1>4 DEF SweepStep, SweepEvents, CollectSessions, SweepEnds, ServerStates
  <1>5. CASE SweepFails(s) \/ ServerStops(s)
    BY <1>2, <1>5 DEF SweepFails, ServerStops, SweepEnds, ServerStates
  <1> QED
    BY <1>1, <1>3, <1>4, <1>5 DEF ServerStep

LEMMA RowsNext == TypeOK /\ RowsInv /\ [Next]_vars => RowsInv' /\ NewRowsAreNew
  <1> SUFFICES ASSUME TypeOK, RowsInv, [Next]_vars PROVE RowsInv' /\ NewRowsAreNew
    OBVIOUS
  <1>1. CASE \E s \in Servers : ServerStep(s)
    BY <1>1, RowsServer
  <1>2. ASSUME NEW x \in HostSessions, NEW r \in Retentions, HookSessionStart(x, r)
        PROVE  RowsInv' /\ NewRowsAreNew
    BY <1>2, RowsEnsure DEF HookSessionStart
  <1>3. ASSUME NEW h \in Hooks, HookRegister(h)
        PROVE  RowsInv' /\ NewRowsAreNew
    <2>1. hook[h] \in [pc: {"register"}, sid: HostSessions, ret: Retentions]
      BY <1>3 DEF HookRegister, TypeOK, IdleHook, HookCall
    <2> QED
      BY <1>3, <2>1, RowsEnsure DEF HookRegister
  <1>4. CASE UNCHANGED <<sessions, server>>
    BY <1>4, RowsKept
  <1> QED
    BY <1>1, <1>2, <1>3, <1>4
    DEF Next, HookStep, HookCheck, HookAppend, HookDrop, ExportPage, Tick, vars

KeepsPolicy ==
    \A e \in events \cap events' :
      \E r \in sessions \cap sessions' :
        r.sid = e.sid /\ \A q \in sessions \cup sessions' : q.sid = e.sid => q = r

LEMMA PolicyStep ==
    ASSUME NoOrphanEvents, NoOrphanEvents', RowsInv, NewRowsAreNew
    PROVE  KeepsPolicy
  <1> SUFFICES ASSUME NEW e \in events, e \in events'
               PROVE  \E r \in sessions \cap sessions' :
                        /\ r.sid = e.sid
                        /\ \A q \in sessions \cup sessions' : q.sid = e.sid => q = r
    BY DEF KeepsPolicy
  <1>1. PICK r \in sessions : r.sid = e.sid
    BY DEF NoOrphanEvents, HasSession
  <1>2. PICK p \in sessions' : p.sid = e.sid
    BY DEF NoOrphanEvents, HasSession
  <1>3. \A q \in sessions' : q.sid = e.sid => q \in sessions
    BY <1>1 DEF NewRowsAreNew, HasSession
  <1>4. \A q \in sessions : q.sid = e.sid => q = r
    BY <1>1 DEF RowsInv
  <1> QED
    BY <1>1, <1>2, <1>3, <1>4

(* However collections and registrations follow each other, no event comes  *)
(* under another policy than the one it was appended under (retention.go    *)
(* Sweep, session.go EnsureSession).                                        *)
THEOREM PolicyIsKept == Spec => PolicyIsForLife
  <1>1. Init => NoOrphanEvents /\ RowsInv
    BY DEF Init, NoOrphanEvents, RowsInv, HasSession
  <1>2. /\ NoOrphanEvents /\ NoOrphanEvents' /\ TypeOK /\ RowsInv /\ [Next]_vars
        => RowsInv' /\ [KeepsPolicy]_vars
    BY RowsNext, PolicyStep
  <1> QED
    BY <1>1, <1>2, TypeInit, TypeNext, OrphanNext, PTL
    DEF Spec, PolicyIsForLife, KeepsPolicy

-----------------------------------------------------------------------------
(* Paging.  A rowid that was never given out before lies beyond every       *)
(* cursor when its row is committed, so only a page can move a cursor past  *)
(* it, and a page returns every row up to the cursor it leaves.             *)

PagingInv ==
    /\ \A c \in Consumers : cursor[c].after <= top
    /\ \A e \in events : e.id <= top
    /\ CursorMissesNothing

LEMMA PagingInsert ==
    ASSUME TypeOK, PagingInv,
           NEW sid \in SessionIds, NEW type \in Types, NEW ts \in 0..MaxTime,
           InsertEvent(sid, type, ts), UNCHANGED <<cursor, delivered>>
    PROVE  PagingInv'
  <1>1. PICK i \in 1..MaxEvents :
          /\ events' = events \cup {NewEvent(i, sid, type, ts)}
          /\ top' = IF i > top THEN i ELSE top
    BY InsertShape
  <1> DEFINE new == NewEvent(i, sid, type, ts)
  <1>2. events' = events \cup {new} /\ new.id = i /\ new.again = (i <= top)
    BY <1>1 DEF NewEvent
  <1>3. i \in Int /\ top' >= i /\ top' >= top /\ top' \in Int
    BY <1>1, Numbers
  <1> HIDE DEF new
  <1>4. \A c \in Consumers : cursor'[c].after <= top'
    BY <1>3, Numbers DEF PagingInv
  <1>5. \A e \in events' : e.id <= top'
    BY <1>2, <1>3, Numbers DEF PagingInv
  <1>6. CursorMissesNothing'
    <2> SUFFICES ASSUME NEW c \in Consumers, NEW e \in events', InScope(e, c)',
                        e.id <= cursor'[c].after, ~e.again
                 PROVE  e.eid \in delivered'[c]
      BY DEF CursorMissesNothing
    <2>1. CASE e = new
      <3>1. ~(i <= top)
        BY <2>1, <1>2, Zenon
      <3>2. i <= cursor[c].after /\ cursor[c].after <= top
        BY <2>1, <1>2 DEF PagingInv
      <3> QED
        BY <3>1, <3>2, <1>3, Numbers
    <2>2. CASE e \in events
      BY <2>2 DEF PagingInv, CursorMissesNothing, InScope
    <2> QED
      BY <1>2, <2>1, <2>2
  <1> QED
    BY <1>4, <1>5, <1>6 DEF PagingInv

(* Deleting rows hides none of the others. *)
LEMMA PagingDelete ==
    ASSUME PagingInv, events' \subseteq events, UNCHANGED <<top, cursor, delivered>>
    PROVE  PagingInv'
  BY DEF PagingInv, CursorMissesNothing, InScope

LEMMA PagingExport ==
    ASSUME TypeOK, PagingInv, NEW c \in Consumers, ExportPage(c)
    PROVE  PagingInv'
  <1>0. UNCHANGED <<sessions, events, top>>
    BY DEF ExportPage
  <1>2. PICK page \in SUBSET Pending(c), kept \in SUBSET Pending(c), n \in 1..MaxEvents :
          /\ IsPrefix(page, Pending(c)) /\ kept \subseteq page /\ IsPrefix(kept, page)
          /\ IsNextAfter(n, kept, page)
          /\ cursor' = [cursor EXCEPT ![c].after = n]
          /\ delivered' = [delivered EXCEPT ![c] = @ \cup {e.eid : e \in kept}]
    BY DEF ExportPage
  <1>3. PICK last \in kept : last.id = n
    BY <1>2 DEF IsNextAfter
  <1>4. last \in events /\ n <= top
    BY <1>2, <1>3 DEF Pending, PagingInv
  <1>5. /\ cursor'[c].after = n /\ cursor'[c].scope = cursor[c].scope
        /\ \A d \in Consumers \ {c} : cursor'[d] = cursor[d]
    BY <1>2 DEF TypeOK, Cursor
  <1>6. /\ delivered'[c] = delivered[c] \cup {e.eid : e \in kept}
        /\ \A d \in Consumers \ {c} : delivered'[d] = delivered[d]
    BY <1>2 DEF TypeOK
  <1>7. \A d \in Consumers : cursor'[d].after <= top'
    BY <1>0, <1>4, <1>5 DEF PagingInv
  <1>8. CursorMissesNothing'
    <2> SUFFICES ASSUME NEW d \in Consumers, NEW e \in events, InScope(e, d)',
                        e.id <= cursor'[d].after, ~e.again
                 PROVE  e.eid \in delivered'[d]
      BY <1>0 DEF CursorMissesNothing
    <2>1. CASE d # c
      BY <2>1, <1>5, <1>6 DEF PagingInv, CursorMissesNothing, InScope
    <2>2. CASE d = c
      <3>1. InScope(e, c) /\ e.id <= n
        BY <2>2, <1>5 DEF InScope
      <3>2. CASE e.id <= cursor[c].after
        BY <2>2, <3>1, <3>2, <1>6 DEF PagingInv, CursorMissesNothing
      <3>3. CASE e.id > cursor[c].after
        <4>1. e \in Pending(c)
          BY <3>1, <3>3 DEF Pending
        <4>2. e \in page
          BY <4>1, <3>1, <1>2, <1>3, <1>4, Numbers DEF IsPrefix
        <4>3. e \in kept
          BY <4>2, <3>1, <1>2, <1>3, <1>4, Numbers DEF IsPrefix
        <4> QED
          BY <2>2, <4>3, <1>6
      <3> QED
        BY <3>2, <3>3, Numbers
    <2> QED
      BY <2>1, <2>2
  <1> QED
    BY <1>0, <1>7, <1>8 DEF PagingInv

LEMMA PagingEnsure ==
    ASSUME TypeOK, PagingInv, NEW sid \in HostSessions, NEW ret \in Retentions,
           EnsureSession(sid, ret), UNCHANGED <<cursor, delivered>>
    PROVE  PagingInv'
  <1>1. CASE UNCHANGED <<sessions, events, born, top>>
    BY <1>1, PagingDelete
  <1>2. ASSUME NEW t \in 0..MaxTime, InsertEvent(sid, "session_start", t)
        PROVE  PagingInv'
    BY <1>2, PagingInsert DEF SessionIds, Types
  <1> QED
    BY <1>1, <1>2, EnsureShape

LEMMA PagingServer ==
    ASSUME TypeOK, PagingInv, NEW s \in Servers, ServerStep(s)
    PROVE  PagingInv'
  <1>t. s \in SessionIds /\ "session_start" \in Types
    BY DEF SessionIds, Types
  <1>1. CASE OpenAnnounce(s)
    <2>1. PICK ts \in 0..MaxTime : InsertEvent(s, "session_start", ts)
      BY <1>1 DEF OpenAnnounce, AppendEvent, StampsOf, Stamps
    <2> QED
      BY <1>1, <1>t, <2>1, PagingInsert DEF OpenAnnounce
  <1>2. CASE RecordEvent(s)
    <2>1. PICK t \in ClientTypes, ts \in 0..MaxTime : InsertEvent(s, t, ts)
      BY <1>2 DEF RecordEvent, AppendEvent, StampsOf, Stamps
    <2>2. t \in Types
      BY SessionAssumption
    <2> QED
      BY <1>2, <1>t, <2>1, <2>2, PagingInsert DEF RecordEvent
  <1>3. CASE OpenInsert(s) \/ SweepBegin(s) \/ SweepFails(s) \/ ServerStops(s)
    BY <1>3, PagingDelete DEF OpenInsert, SweepBegin, SweepFails, ServerStops
  <1>4. CASE SweepStep(s)
    <2>1. events' \subseteq events /\ UNCHANGED <<top, cursor, delivered>>
      BY <1>4 DEF SweepStep, SweepEvents, CollectSessions
    <2> QED
      BY <2>1, PagingDelete
  <1> QED
    BY <1>1, <1>2, <1>3, <1>4 DEF ServerStep

LEMMA PagingNext == TypeOK /\ PagingInv /\ [Next]_vars => PagingInv'
  <1> SUFFICES ASSUME TypeOK, PagingInv, [Next]_vars PROVE PagingInv'
    OBVIOUS
  <1>1. CASE \E s \in Servers : ServerStep(s)
    BY <1>1, PagingServer
  <1>2. ASSUME NEW x \in HostSessions, NEW r \in Retentions, HookSessionStart(x, r)
        PROVE  PagingInv'
    BY <1>2, PagingEnsure DEF HookSessionStart
  <1>3. ASSUME NEW h \in Hooks, HookRegister(h)
        PROVE  PagingInv'
    <2>1. hook[h] \in [pc: {"register"}, sid: HostSessions, ret: Retentions]
      BY <1>3 DEF HookRegister, TypeOK, IdleHook, HookCall
    <2> QED
      BY <1>3, <2>1, PagingEnsure DEF HookRegister
  <1>4. ASSUME NEW h \in Hooks, HookAppend(h)
        PROVE  PagingInv'
    <2>1. hook[h].sid \in SessionIds /\ "other" \in Types
      BY <1>4 DEF HookAppend, TypeOK, IdleHook, HookCall, SessionIds, Types
    <2>2. PICK ts \in 0..MaxTime : InsertEvent(hook[h].sid, "other", ts)
      BY <1>4 DEF HookAppend, AppendEvent, Stamps
    <2> QED
      BY <1>4, <2>1, <2>2, PagingInsert DEF HookAppend
  <1>5. CASE \E c \in Consumers : ExportPage(c)
    BY <1>5, PagingExport
  <1>6. CASE UNCHANGED <<events, top, cursor, delivered>>
    BY <1>6, PagingDelete
  <1> QED
    BY <1>1, <1>2, <1>3, <1>4, <1>5, <1>6
    DEF Next, HookStep, HookCheck, HookDrop, Tick, vars

(* Whatever clients record, whatever sweeps delete and however old the time *)
(* stamps are: paging with next_after skips no event but one whose rowid    *)
(* had been given out before (mcp_session.go applyExportBudget,             *)
(* retention.go Sweep).                                                     *)
THEOREM ExportLosesNothing == Spec => []CursorMissesNothing
  <1>1. Init => PagingInv
    <2>1. ASSUME Init, NEW c \in Consumers PROVE cursor[c].after = 0
      BY <2>1 DEF Init
    <2> QED
      BY <2>1 DEF Init, PagingInv, CursorMissesNothing
  <1>2. PagingInv => CursorMissesNothing
    BY DEF PagingInv
  <1> QED
    BY <1>1, <1>2, TypeInit, TypeNext, PagingNext, PTL DEF Spec
=============================================================================
