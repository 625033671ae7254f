------------------------- MODULE HookHandlerProofs --------------------------
(***************************************************************************)
(* Proofs about HookHandler: the invariant says of each process where it   *)
(* can be for its input and what it has left behind when it is there.      *)
(* Every part looks at one process and at facts that stay true once they   *)
(* are (a schema, a registered content), so a step of one process keeps    *)
(* what is known of the others.                                            *)
(***************************************************************************)
EXTENDS HookHandler, TLAPS

-----------------------------------------------------------------------------
(* The inductive invariant. *)

Starting  == {"ensure", "hint", "query"}
Guarding  == {"stat", "guardStore", "guardIngest", "guardRegister", "deny", "warn"}
Shadowing == {"shadow", "shadowStore", "shadowIngest", "created", "summary"}
Past      == {"new"} \cup Ended

(* Each step belongs to one kind of event. *)
Routed(p) ==
    /\ p.pc \notin Past => p.in.gate = "ok"
    /\ p.pc \in Starting => p.in.event = "SessionStart"
    /\ p.pc \in Working \ Starting => p.in.event # "SessionStart"
    /\ p.pc \in Guarding => p.in.event = "PreToolUse"
    /\ p.pc \in {"append"} \cup Shadowing => p.in.event \in Recorded
    /\ p.pc \in Shadowing => p.in.event = "PostToolUse"

(* The whole input, and a guard that looks at a file has one. *)
Admitted(p) ==
    /\ p.in.whole /\ p.in.tool # "Grep" => p.in.file \in Files
    /\ p.pc \in {"stat", "guardStore", "guardIngest", "guardRegister"} =>
          p.in.whole /\ p.in.tool # "Grep"

(* What was committed so far, unless a line says that something was not. *)
Accounted(p) ==
    /\ p.pc \in Shadowing /\ p.in.named => EventType(p.in) \in p.recorded \/ p.drops # {}
    /\ p.pc = "summary" => "artifact_created" \in p.recorded \/ p.drops # {}
    /\ p.pc = "done" => Expected(p.in) \subseteq p.recorded \/ p.drops # {}

(* The hint and its line. *)
Hinted(p) ==
    /\ p.pc \in {"new", "ensure"} \cup Waiting \cup Opening => p.drops = {}
    /\ p.pc \in {"hint", "query"} => p.drops \subseteq {"ensure-failed"}
    /\ p.pc \notin Ended => "hint" \notin p.out
    /\ p.pc = "done" /\ "hint" \in p.out => p.drops \subseteq {"hint-ok", "ensure-failed"}
    /\ p.pc = "query" => p.in.compact /\ p.in.host = "cc"
    /\ p.pc = "done" /\ p.in.gate = "ok" /\ p.in.event = "SessionStart" /\ p.in.compact
          /\ p.in.host = "cc" => p.drops \cap (HintLines \cup OpenReasons) # {}

(* What the content store has by then. *)
Backed(h, p) ==
    /\ p.pc \in {"created", "summary"}
          \/ p.recorded \cap {"artifact_created", "tool_result_summary"} # {} =>
          <<"shadow", h>> \in stored
    /\ p.pc \in {"guardStore", "guardIngest"} => p.seen <= version[p.in.file]
    /\ p.pc = "guardRegister" => p.seen <= p.read
    /\ p.pc \in {"deny", "warn"} \/ "deny" \in p.out =>
          p.in.tool = "Grep" \/ \E v \in p.seen..MaxVersion : <<p.in.file, v>> \in stored
    /\ p.pc = "warn" \/ "warning" \in p.recorded => "deny" \in p.out
    /\ p.pc \notin {"warn"} \cup Ended => "deny" \notin p.out

Known(h, p) ==
    /\ Routed(p)
    /\ Admitted(p)
    /\ Accounted(p)
    /\ Hinted(p)
    /\ Backed(h, p)
    /\ p.pc \in Working => db = "ready"

IInv == TypeOK /\ \A h \in Hooks : Known(h, hook[h])

-----------------------------------------------------------------------------
(* What a step does to its process. *)

Places == Waiting \cup Opening \cup Working \cup Ended

(* Only the process h changed, into a process with the same input. *)
Only(h) ==
    /\ hook' \in [Hooks -> Process]
    /\ hook'[h].in = hook[h].in
    /\ \A g \in Hooks \ {h} : hook'[g] = hook[g]

(* ... and is at pc with these records, lines and output. *)
Became(h, pc, recorded, drops, out) ==
    /\ Only(h)
    /\ hook'[h].pc = pc /\ hook'[h].recorded = recorded /\ hook'[h].drops = drops
    /\ hook'[h].out = out /\ hook'[h].seen = hook[h].seen /\ hook'[h].read = hook[h].read

(* What the others rely on stays. *)
Grows ==
    /\ stored \subseteq stored'
    /\ db = "ready" => db' = "ready"
    /\ \A f \in Files : version[f] <= version'[f]

LEMMA MoveStep ==
    ASSUME TypeOK, NEW h \in Hooks, NEW pc \in Places, Move(h, pc)
    PROVE  Became(h, pc, hook[h].recorded, hook[h].drops, hook[h].out)
<1> DEFINE q == [hook[h] EXCEPT !.pc = pc]
<1>1. hook[h] \in Process
  BY DEF TypeOK
<1>2. hook' = [hook EXCEPT ![h] = q]
  BY DEF Move
<1>3. q \in Process
  BY <1>1 DEF Process, Places
<1>4. q.pc = pc /\ q.recorded = hook[h].recorded /\ q.drops = hook[h].drops
      /\ q.out = hook[h].out /\ q.seen = hook[h].seen /\ q.read = hook[h].read /\ q.in = hook[h].in
  BY <1>1 DEF Process
<1> HIDE DEF q
<1> QED
  BY <1>2, <1>3, <1>4 DEF Became, Only, TypeOK

LEMMA DropStep ==
    ASSUME TypeOK, NEW h \in Hooks, NEW pc \in Places, NEW r \in Reasons, Drop(h, r, pc)
    PROVE  Became(h, pc, hook[h].recorded, hook[h].drops \cup {r}, hook[h].out)
<1> DEFINE q == [hook[h] EXCEPT !.pc = pc, !.init = FALSE, !.drops = hook[h].drops \cup {r}]
<1>1. hook[h] \in Process
  BY DEF TypeOK
<1>2. hook' = [hook EXCEPT ![h] = q]
  BY DEF Drop
<1>3. q \in Process
  BY <1>1 DEF Process, Places
<1>4. q.pc = pc /\ q.recorded = hook[h].recorded /\ q.drops = hook[h].drops \cup {r}
      /\ q.out = hook[h].out /\ q.seen = hook[h].seen /\ q.read = hook[h].read /\ q.in = hook[h].in
  BY <1>1 DEF Process
<1> HIDE DEF q
<1> QED
  BY <1>2, <1>3, <1>4 DEF Became, Only, TypeOK

LEMMA CommitStep ==
    ASSUME TypeOK, NEW h \in Hooks, NEW pc \in Places, NEW ev \in EventTypes, Commit(h, ev, pc)
    PROVE  Became(h, pc, hook[h].recorded \cup {ev}, hook[h].drops, hook[h].out)
<1> DEFINE q == [hook[h] EXCEPT !.pc = pc, !.recorded = hook[h].recorded \cup {ev}]
<1>1. hook[h] \in Process
  BY DEF TypeOK
<1>2. hook' = [hook EXCEPT ![h] = q]
  BY DEF Commit
<1>3. q \in Process
  BY <1>1 DEF Process, Places
<1>4. q.pc = pc /\ q.recorded = hook[h].recorded \cup {ev} /\ q.drops = hook[h].drops
      /\ q.out = hook[h].out /\ q.seen = hook[h].seen /\ q.read = hook[h].read /\ q.in = hook[h].in
  BY <1>1 DEF Process
<1> HIDE DEF q
<1> QED
  BY <1>2, <1>3, <1>4 DEF Became, Only, TypeOK

(* A process that takes a step keeps the invariant if it keeps its part. *)
LEMMA OthersKeep ==
    ASSUME IInv, NEW h \in Hooks, Only(h), Grows,
           sessions' \subseteq STRING, db' \in {"none", "bare", "ready"},
           {recovery', marker', busy', contentDB'} \subseteq BOOLEAN,
           version' \in [Files -> 0..MaxVersion],
           Known(h, hook[h])'
    PROVE  IInv'
<1>1. TypeOK'
  BY DEF TypeOK, Only
<1>2. ASSUME NEW g \in Hooks, g # h PROVE Known(g, hook[g])'
  <2>1. hook'[g] = hook[g] /\ Known(g, hook[g]) /\ hook[g].in.file = hook'[g].in.file
    BY <1>2 DEF Only, IInv
  <2>2. Routed(hook[g])' /\ Admitted(hook[g])' /\ Accounted(hook[g])' /\ Hinted(hook[g])'
    BY <2>1 DEF Known, Routed, Admitted, Accounted, Hinted
  <2>3. Backed(g, hook[g])'
    <3>1. /\ hook[g].pc \in {"created", "summary"}
                \/ hook[g].recorded \cap {"artifact_created", "tool_result_summary"} # {} =>
                <<"shadow", g>> \in stored'
      BY <2>1 DEF Known, Backed, Grows
    <3>2. hook[g].pc \in {"guardStore", "guardIngest"} => hook[g].seen <= version'[hook[g].in.file]
      <4> SUFFICES ASSUME hook[g].pc \in {"guardStore", "guardIngest"}
                   PROVE  hook[g].seen <= version'[hook[g].in.file]
        OBVIOUS
      <4>1. hook[g].in.file \in Files /\ hook[g].seen <= version[hook[g].in.file]
        BY <2>1 DEF Known, Backed, Admitted
      <4>2. hook[g].seen \in Int /\ version[hook[g].in.file] \in Int /\ version'[hook[g].in.file] \in Int
        BY <4>1, <1>1 DEF IInv, TypeOK, Process
      <4>3. version[hook[g].in.file] <= version'[hook[g].in.file]
        BY <4>1 DEF Grows
      <4> QED
        BY <4>1, <4>2, <4>3
    <3>3. hook[g].pc \in {"deny", "warn"} \/ "deny" \in hook[g].out =>
            hook[g].in.tool = "Grep"
            \/ \E v \in hook[g].seen..MaxVersion : <<hook[g].in.file, v>> \in stored'
      BY <2>1 DEF Known, Backed, Grows
    <3>4. /\ hook[g].pc = "warn" \/ "warning" \in hook[g].recorded => "deny" \in hook[g].out
          /\ hook[g].pc \notin {"warn"} \cup Ended => "deny" \notin hook[g].out
          /\ hook[g].pc = "guardRegister" => hook[g].seen <= hook[g].read
      BY <2>1 DEF Known, Backed
    <3> QED
      BY <2>1, <3>1, <3>2, <3>3, <3>4 DEF Backed
  <2>4. (hook[g].pc \in Working => db = "ready")'
    BY <2>1 DEF Known, Grows
  <2> QED
    BY <2>2, <2>3, <2>4 DEF Known
<1> QED
  BY <1>1, <1>2 DEF IInv

-----------------------------------------------------------------------------
(* A step that leaves everything but the process as it was. *)

LEMMA PlainStep ==
    ASSUME IInv, NEW h \in Hooks, Only(h), UNCHANGED <<db, env, sessions, stored, contentDB>>,
           Known(h, hook[h])'
    PROVE  IInv'
<1>1. \A f \in Files : version[f] \in Int
  BY DEF IInv, TypeOK
<1>2. Grows
  BY <1>1 DEF Grows, env
<1> QED
  BY <1>2, OthersKeep DEF env, IInv, TypeOK

LEMMA Here ==
    ASSUME IInv, NEW h \in Hooks
    PROVE  hook[h] \in Process /\ hook[h].in \in Input /\ Known(h, hook[h])
BY DEF IInv, TypeOK, Process

-----------------------------------------------------------------------------
(* Ways to an end. *)

(* A line ends the call, for a compaction one of the lines that count it. *)
LEMMA DropDone ==
    ASSUME IInv, NEW h \in Hooks, NEW r \in Reasons, Drop(h, r, "done"), hook[h].pc \notin Ended,
           stored \subseteq stored',
           \/ hook[h].in.gate # "ok"
           \/ hook[h].in.event # "SessionStart"
           \/ r \in HintLines \cup OpenReasons
    PROVE  Only(h) /\ Known(h, hook[h])'
<1>1. Known(h, hook[h])
  BY Here
<1>2. Became(h, "done", hook[h].recorded, hook[h].drops \cup {r}, hook[h].out)
  BY DropStep DEF IInv, Places, Ended
<1>3. Only(h) /\ hook'[h].in = hook[h].in /\ hook'[h].pc = "done"
  BY <1>2 DEF Became, Only
<1>4. Routed(hook[h])' /\ (hook[h].pc \in Working => db = "ready")'
  BY <1>3 DEF Routed, Past, Ended, Starting, Guarding, Shadowing, Working
<1>5. Admitted(hook[h])'
  BY <1>1, <1>3 DEF Known, Admitted
<1>6. Accounted(hook[h])'
  BY <1>2, <1>3 DEF Became, Accounted, Shadowing
<1>7. Hinted(hook[h])'
  BY <1>1, <1>2, <1>3 DEF Known, Hinted, Became, Waiting, Opening, Ended
<1>8. Backed(h, hook[h])'
  BY <1>1, <1>2, <1>3 DEF Known, Backed, Became, Ended
<1> QED
  BY <1>3, <1>4, <1>5, <1>6, <1>7, <1>8 DEF Known

(* The call ends with everything recorded, and was no compaction. *)
LEMMA MoveDone ==
    ASSUME IInv, NEW h \in Hooks, Move(h, "done"), hook[h].pc \notin Ended,
           stored \subseteq stored',
           Expected(hook[h].in) \subseteq hook[h].recorded \/ hook[h].drops # {},
           ~(/\ hook[h].in.gate = "ok" /\ hook[h].in.event = "SessionStart"
             /\ hook[h].in.compact /\ hook[h].in.host = "cc")
    PROVE  Only(h) /\ Known(h, hook[h])'
<1>1. Known(h, hook[h])
  BY Here
<1>2. Became(h, "done", hook[h].recorded, hook[h].drops, hook[h].out)
  BY MoveStep DEF IInv, Places, Ended
<1>3. Only(h) /\ hook'[h].in = hook[h].in /\ hook'[h].pc = "done"
  BY <1>2 DEF Became, Only
<1>4. Routed(hook[h])' /\ (hook[h].pc \in Working => db = "ready")'
  BY <1>3 DEF Routed, Past, Ended, Starting, Guarding, Shadowing, Working
<1>5. Admitted(hook[h])'
  BY <1>1, <1>3 DEF Known, Admitted
<1>6. Accounted(hook[h])'
  BY <1>2, <1>3 DEF Became, Accounted, Shadowing
<1>7. Hinted(hook[h])'
  BY <1>1, <1>2, <1>3 DEF Known, Hinted, Became, Waiting, Opening, Ended
<1>8. Backed(h, hook[h])'
  BY <1>1, <1>2, <1>3 DEF Known, Backed, Became, Ended
<1> QED
  BY <1>3, <1>4, <1>5, <1>6, <1>7, <1>8 DEF Known

LEMMA PlainDrop ==
    ASSUME IInv, NEW h \in Hooks, NEW r \in Reasons, Drop(h, r, "done"), hook[h].pc \notin Ended,
           UNCHANGED <<db, env, sessions, stored, contentDB>>,
           \/ hook[h].in.gate # "ok"
           \/ hook[h].in.event # "SessionStart"
           \/ r \in HintLines \cup OpenReasons
    PROVE  IInv'
<1>1. stored \subseteq stored'
  OBVIOUS
<1>2. Only(h) /\ Known(h, hook[h])'
  BY <1>1, DropDone
<1> QED
  BY <1>2, PlainStep

LEMMA PlainDone ==
    ASSUME IInv, NEW h \in Hooks, Move(h, "done"), hook[h].pc \notin Ended,
           UNCHANGED <<db, env, sessions, stored, contentDB>>,
           Expected(hook[h].in) \subseteq hook[h].recorded \/ hook[h].drops # {},
           ~(/\ hook[h].in.gate = "ok" /\ hook[h].in.event = "SessionStart"
             /\ hook[h].in.compact /\ hook[h].in.host = "cc")
    PROVE  IInv'
<1>1. stored \subseteq stored'
  OBVIOUS
<1>2. Only(h) /\ Known(h, hook[h])'
  BY <1>1, MoveDone
<1> QED
  BY <1>2, PlainStep

-----------------------------------------------------------------------------
(* Run and OpenAppend. *)

LEMMA OpeningMove ==
    ASSUME IInv, NEW h \in Hooks, NEW pc \in {"lease"} \cup Opening,
           hook[h].pc \in Waiting \cup Opening, hook[h].in.gate = "ok", stored \subseteq stored',
           Became(h, pc, hook[h].recorded, hook[h].drops, hook[h].out)
    PROVE  Only(h) /\ Known(h, hook[h])'
BY Here DEF Known, Routed, Admitted, Accounted, Hinted, Backed, Became, Only,
   Past, Starting, Guarding, Shadowing, Waiting, Opening, Working, Ended

LEMMA RunStep ==
    ASSUME IInv, NEW h \in Hooks, Run(h)
    PROVE  IInv'
<1>1. hook[h].pc = "new" /\ stored' = stored /\ TypeOK
  BY DEF Run, IInv
<1>2. CASE In(h).gate = "ok" /\ Move(h, "lease")
  BY <1>1, <1>2, MoveStep, OpeningMove, PlainStep DEF Run, In, Places, Waiting
<1>3. CASE In(h).gate = "hooks-off" /\ Move(h, "done")
  <2>1. Expected(hook[h].in) = {}
    BY <1>3 DEF Expected, In
  <2> QED
    BY <1>1, <1>3, <2>1, PlainDone DEF Run, In, Ended
<1>4. CASE In(h).gate # "ok" /\ Drop(h, In(h).gate, "done")
  <2>1. In(h).gate \in Reasons
    BY Here DEF In, Input, Reasons
  <2> QED
    BY <1>1, <1>4, <2>1, PlainDrop DEF Run, In, Ended
<1> QED
  BY <1>2, <1>3, <1>4 DEF Run

LEMMA OpenStep ==
    ASSUME IInv, NEW h \in Hooks,
           AcquireSharedLease(h) \/ CheckRecoverMarker(h)
    PROVE  IInv'
<1>1. /\ hook[h].pc \in {"lease"} \cup Opening /\ stored' = stored /\ TypeOK
      /\ UNCHANGED <<db, env, sessions, stored, contentDB>>
  BY DEF AcquireSharedLease, CheckRecoverMarker, Opening, IInv
<1>2. hook[h].in.gate = "ok"
  BY <1>1, Here DEF Known, Routed, Past, Opening, Ended
<1>3. ASSUME NEW r \in OpenReasons, Drop(h, r, "done") PROVE IInv'
  BY <1>1, <1>3, PlainDrop DEF HintLines, OpenReasons, Reasons, Opening, Ended
<1>4. ASSUME NEW pc \in Opening, Move(h, pc) PROVE IInv'
  BY <1>1, <1>2, <1>4, MoveStep, OpeningMove, PlainStep DEF Places, Waiting
<1> QED
  BY <1>3, <1>4 DEF AcquireSharedLease, CheckRecoverMarker, OpenReasons, Opening

LEMMA InitLockStep ==
    ASSUME IInv, NEW h \in Hooks, AcquireInitLock(h)
    PROVE  IInv'
<1>1. /\ hook[h].pc = "init" /\ hook[h].pc \in Opening /\ stored' = stored /\ TypeOK
      /\ UNCHANGED <<db, env, sessions, stored, contentDB>>
  BY DEF AcquireInitLock, Opening, IInv
<1>2. hook[h].in.gate = "ok"
  BY <1>1, Here DEF Known, Routed, Past, Ended
<1>3. CASE Drop(h, "lease-held", "done")
  BY <1>1, <1>3, PlainDrop DEF HintLines, OpenReasons, Reasons, Ended
<1>4. CASE Move(h, "connect")
  BY <1>1, <1>2, <1>4, MoveStep, OpeningMove, PlainStep DEF Places, Waiting, Opening
<1>5. CASE hook' = [hook EXCEPT ![h].pc = "connect", ![h].init = TRUE]
  <2> DEFINE q == [hook[h] EXCEPT !.pc = "connect", !.init = TRUE]
  <2>1. hook[h] \in Process
    BY Here
  <2>2. hook' = [hook EXCEPT ![h] = q]
    BY <1>5
  <2>3. q \in Process
    BY <2>1 DEF Process, Opening
  <2>4. q.pc = "connect" /\ q.recorded = hook[h].recorded /\ q.drops = hook[h].drops
        /\ q.out = hook[h].out /\ q.seen = hook[h].seen /\ q.read = hook[h].read /\ q.in = hook[h].in
    BY <2>1 DEF Process
  <2> HIDE DEF q
  <2>5. Became(h, "connect", hook[h].recorded, hook[h].drops, hook[h].out)
    BY <1>1, <2>2, <2>3, <2>4 DEF Became, Only, TypeOK
  <2> QED
    BY <1>1, <1>2, <2>5, OpeningMove, PlainStep DEF Opening
<1> QED
  BY <1>3, <1>4, <1>5 DEF AcquireInitLock

(* Connect and MigrateWriter change session.db, and a process that works  *)
(* has it ready.                                                          *)
LEMMA DatabaseStep ==
    ASSUME IInv, NEW h \in Hooks, Only(h), UNCHANGED <<env, sessions, stored, contentDB>>,
           db' \in {"none", "bare", "ready"}, db = "ready" => db' = "ready",
           Known(h, hook[h])'
    PROVE  IInv'
<1>1. \A f \in Files : version[f] \in Int
  BY DEF IInv, TypeOK
<1>2. Grows
  BY <1>1 DEF Grows, env
<1> QED
  BY <1>2, OthersKeep DEF env, IInv, TypeOK

LEMMA ConnectStep ==
    ASSUME IInv, NEW h \in Hooks, Connect(h)
    PROVE  IInv'
<1>1. /\ hook[h].pc = "connect" /\ hook[h].pc \in Opening /\ stored' = stored /\ TypeOK
      /\ UNCHANGED <<env, sessions, stored, contentDB>>
  BY DEF Connect, Opening, IInv
<1>2. hook[h].in.gate = "ok"
  BY <1>1, Here DEF Known, Routed, Past, Ended
<1>3. db' \in {"none", "bare", "ready"} /\ (db = "ready" => db' = "ready")
  BY <1>1 DEF Connect, TypeOK
<1>4. CASE Drop(h, "open-failed", "done")
  <2>1. Only(h) /\ Known(h, hook[h])'
    BY <1>1, <1>4, DropDone DEF HintLines, OpenReasons, Reasons, Ended
  <2> QED
    BY <1>1, <1>3, <2>1, DatabaseStep
<1>5. CASE Move(h, "migrate")
  BY <1>1, <1>2, <1>3, <1>5, MoveStep, OpeningMove, DatabaseStep DEF Places, Opening
<1> QED
  BY <1>4, <1>5 DEF Connect

LEMMA MigrateStep ==
    ASSUME IInv, NEW h \in Hooks, MigrateWriter(h)
    PROVE  IInv'
<1>1. /\ hook[h].pc = "migrate" /\ stored' = stored /\ TypeOK
      /\ UNCHANGED <<env, sessions, stored, contentDB>>
  BY DEF MigrateWriter, IInv
<1>2. hook[h].in.gate = "ok" /\ hook[h].drops = {}
  BY <1>1, Here DEF Known, Routed, Hinted, Past, Opening, Ended
<1>3. ASSUME NEW r \in {"lease-held", "open-failed"}, Drop(h, r, "done"), UNCHANGED db PROVE IInv'
  BY <1>1, <1>3, PlainDrop DEF HintLines, OpenReasons, Reasons, Ended
<1>4. ASSUME NEW pc \in {"ensure", "exists"}, db' = "ready",
             pc = "ensure" <=> In(h).event = "SessionStart",
             hook' = [hook EXCEPT ![h].init = FALSE, ![h].pc = pc]
      PROVE  IInv'
  <2> DEFINE q == [hook[h] EXCEPT !.init = FALSE, !.pc = pc]
  <2>1. hook[h] \in Process /\ Known(h, hook[h])
    BY Here
  <2>2. hook' = [hook EXCEPT ![h] = q]
    BY <1>4
  <2>3. q \in Process
    BY <2>1 DEF Process, Working
  <2>4. q.pc = pc /\ q.recorded = hook[h].recorded /\ q.drops = hook[h].drops
        /\ q.out = hook[h].out /\ q.seen = hook[h].seen /\ q.read = hook[h].read /\ q.in = hook[h].in
    BY <2>1 DEF Process
  <2> HIDE DEF q
  <2>5. Became(h, pc, hook[h].recorded, hook[h].drops, hook[h].out)
    BY <1>1, <2>2, <2>3, <2>4 DEF Became, Only, TypeOK
  <2>6. Known(h, hook[h])'
    BY <1>1, <1>2, <1>4, <2>1, <2>5 DEF Known, Routed, Admitted, Accounted, Hinted, Backed,
       Became, Only, In, Past, Starting, Guarding, Shadowing, Waiting, Opening, Working, Ended
  <2> QED
    BY <1>1, <1>4, <2>5, <2>6, DatabaseStep DEF Became
<1> QED
  BY <1>3, <1>4 DEF MigrateWriter

-----------------------------------------------------------------------------
(* Registration and the hint. *)

(* A step of dispatch: it may register its session or content. *)
LEMMA WorkStep ==
    ASSUME IInv, NEW h \in Hooks, Only(h), UNCHANGED <<db, env>>, sessions' \subseteq STRING,
           contentDB' \in BOOLEAN, stored \subseteq stored', Known(h, hook[h])'
    PROVE  IInv'
<1>1. \A f \in Files : version[f] \in Int
  BY DEF IInv, TypeOK
<1>2. Grows
  BY <1>1 DEF Grows, env
<1> QED
  BY <1>2, OthersKeep DEF env, IInv, TypeOK

(* EnsureSession commits at most the session_start. *)
LEMMA Registers ==
    ASSUME IInv, NEW h \in Hooks, NEW pc \in Places, Register(h, pc)
    PROVE  /\ sessions' \subseteq STRING
           /\ \E rec \in SUBSET EventTypes :
                 /\ hook[h].recorded \subseteq rec /\ rec \subseteq hook[h].recorded \cup {"session_start"}
                 /\ Became(h, pc, rec, hook[h].drops, hook[h].out)
<1>1. hook[h] \in Process /\ hook[h].in \in Input /\ TypeOK
  BY Here DEF IInv
<1>2. sessions' \subseteq STRING
  BY <1>1 DEF Register, In, Input, TypeOK
<1>3. hook[h].recorded \in SUBSET EventTypes /\ "session_start" \in EventTypes
  BY <1>1 DEF Process, EventTypes
<1>4. CASE Move(h, pc)
  BY <1>1, <1>2, <1>3, <1>4, MoveStep
<1>5. CASE Commit(h, "session_start", pc)
  <2>1. Became(h, pc, hook[h].recorded \cup {"session_start"}, hook[h].drops, hook[h].out)
    BY <1>1, <1>3, <1>5, CommitStep
  <2> QED
    BY <1>2, <1>3, <2>1
<1> QED
  BY <1>4, <1>5 DEF Register

LEMMA SessionStartStep ==
    ASSUME IInv, NEW h \in Hooks, SessionStart(h)
    PROVE  IInv'
<1>1. /\ hook[h].pc = "ensure" /\ TypeOK /\ Known(h, hook[h])
      /\ UNCHANGED <<db, env, stored, contentDB>>
  BY Here DEF SessionStart, IInv
<1>2. ASSUME NEW rec, NEW drops, rec \subseteq hook[h].recorded \cup {"session_start"},
             drops \subseteq {"ensure-failed"}, Became(h, "hint", rec, drops, hook[h].out)
      PROVE  Known(h, hook[h])'
  BY <1>1, <1>2 DEF Known, Routed, Admitted, Accounted, Hinted, Backed,
       Became, Only, Past, Starting, Guarding, Shadowing, Waiting, Opening, Working, Ended
<1>3. hook[h].drops = {} /\ hook[h].pc \in Places /\ "hint" \in Places
  BY <1>1 DEF Known, Hinted, Places, Working
<1>4. CASE Register(h, "hint")
  <2>1. /\ sessions' \subseteq STRING
        /\ \E rec \in SUBSET EventTypes :
              /\ rec \subseteq hook[h].recorded \cup {"session_start"}
              /\ Became(h, "hint", rec, hook[h].drops, hook[h].out)
    BY <1>3, <1>4, Registers
  <2> QED
    BY <1>1, <1>2, <1>3, <2>1, WorkStep DEF Became, TypeOK
<1>5. CASE Drop(h, "ensure-failed", "hint") /\ UNCHANGED sessions
  <2>1. Became(h, "hint", hook[h].recorded, hook[h].drops \cup {"ensure-failed"}, hook[h].out)
    BY <1>1, <1>3, <1>5, DropStep DEF Reasons
  <2> QED
    BY <1>1, <1>2, <1>3, <1>5, <2>1, PlainStep DEF Became
<1> QED
  BY <1>4, <1>5 DEF SessionStart

LEMMA HintGatesStep ==
    ASSUME IInv, NEW h \in Hooks, HintGates(h)
    PROVE  IInv'
<1>1. /\ hook[h].pc = "hint" /\ TypeOK /\ Known(h, hook[h])
      /\ UNCHANGED <<db, env, sessions, stored, contentDB>>
  BY Here DEF HintGates, IInv
<1>2. hook[h].in.event = "SessionStart"
  BY <1>1 DEF Known, Routed, Starting
<1>3. CASE (~In(h).compact \/ In(h).host # "cc") /\ Move(h, "done")
  <2>1. Expected(hook[h].in) = {}
    BY <1>2 DEF Expected, Recorded
  <2> QED
    BY <1>1, <1>3, <2>1, PlainDone DEF In, Ended
<1>4. CASE Drop(h, "hint-empty", "done")
  BY <1>1, <1>4, PlainDrop DEF HintLines, Reasons, Ended
<1>5. CASE In(h).compact /\ In(h).host = "cc" /\ Move(h, "query")
  <2>1. Became(h, "query", hook[h].recorded, hook[h].drops, hook[h].out)
    BY <1>1, <1>5, MoveStep DEF Places, Working
  <2>2. Known(h, hook[h])'
    BY <1>1, <1>5, <2>1 DEF In, Known, Routed, Admitted, Accounted, Hinted, Backed,
       Became, Only, Past, Starting, Guarding, Shadowing, Waiting, Opening, Working, Ended
  <2> QED
    BY <1>1, <2>1, <2>2, PlainStep DEF Became
<1>6. In(h).host \in {"cc", "cx"} /\ In(h).compact \in BOOLEAN
  BY Here DEF In, Input
<1> QED
  BY <1>3, <1>4, <1>5, <1>6 DEF HintGates

LEMMA HintQueryStep ==
    ASSUME IInv, NEW h \in Hooks, HintQuery(h)
    PROVE  IInv'
<1>1. /\ hook[h].pc = "query" /\ TypeOK /\ Known(h, hook[h]) /\ hook[h] \in Process
      /\ UNCHANGED <<db, env, sessions, stored, contentDB>>
  BY Here DEF HintQuery, IInv
<1>2. CASE Drop(h, "hint-unavailable", "done") \/ Drop(h, "hint-empty", "done")
  BY <1>1, <1>2, PlainDrop DEF HintLines, Reasons, Ended
<1>3. CASE hook' = [hook EXCEPT ![h].pc = "done", ![h].out = @ \cup {"hint"},
                                ![h].drops = @ \cup {"hint-ok"}]
  <2> DEFINE q == [hook[h] EXCEPT !.pc = "done", !.out = hook[h].out \cup {"hint"},
                                  !.drops = hook[h].drops \cup {"hint-ok"}]
  <2>1. hook' = [hook EXCEPT ![h] = q]
    BY <1>3
  <2>2. q \in Process
    BY <1>1 DEF Process, Ended, Reasons, HintLines
  <2>3. /\ q.pc = "done" /\ q.recorded = hook[h].recorded /\ q.drops = hook[h].drops \cup {"hint-ok"}
        /\ q.out = hook[h].out \cup {"hint"} /\ q.seen = hook[h].seen /\ q.read = hook[h].read /\ q.in = hook[h].in
    BY <1>1 DEF Process
  <2> HIDE DEF q
  <2>4. Became(h, "done", hook[h].recorded, hook[h].drops \cup {"hint-ok"}, hook[h].out \cup {"hint"})
    BY <1>1, <2>1, <2>2, <2>3 DEF Became, Only, TypeOK
  <2>5. Routed(hook[h])' /\ Admitted(hook[h])' /\ Accounted(hook[h])' /\ Hinted(hook[h])'
    BY <1>1, <2>4 DEF HintLines, Known, Routed, Admitted, Accounted, Hinted, Backed,
       Became, Only, Past, Starting, Guarding, Shadowing, Waiting, Opening, Working, Ended
  <2>6. Backed(h, hook[h])' /\ (hook[h].pc \in Working => db = "ready")'
    BY <1>1, <2>4 DEF Known, Routed, Admitted, Accounted, Hinted, Backed,
       Became, Only, Past, Starting, Guarding, Shadowing, Waiting, Opening, Working, Ended
  <2> QED
    BY <1>1, <2>4, <2>5, <2>6, PlainStep DEF Became, Known
<1> QED
  BY <1>2, <1>3 DEF HintQuery

-----------------------------------------------------------------------------
(* The first step for an event, and the events that are appended. *)

LEMMA FirstPlaces ==
    ASSUME NEW in \in Input
    PROVE  /\ First(in) \in {"deny", "stat", "append", "done"}
           /\ First(in) = "deny" => in.event = "PreToolUse" /\ in.tool = "Grep"
           /\ First(in) = "stat" => in.event = "PreToolUse" /\ in.whole /\ in.tool # "Grep"
           /\ First(in) = "append" => in.event \in Recorded
           /\ First(in) = "done" => in.event \notin Recorded
BY DEF First, GuardGrep, GuardRead, GuardBash, GuardPowerShell, Recorded

LEMMA FirstMove ==
    ASSUME IInv, NEW h \in Hooks, hook[h].pc \in {"exists", "register"}, stored' = stored, db' = db,
           NEW rec, rec \subseteq hook[h].recorded \cup {"session_start"},
           Became(h, First(hook[h].in), rec, hook[h].drops, hook[h].out)
    PROVE  Known(h, hook[h])'
<1>1. Known(h, hook[h]) /\ hook[h].in \in Input
  BY Here
<1>2. /\ hook'[h].in = hook[h].in /\ hook'[h].pc = First(hook[h].in) /\ hook'[h].recorded = rec
      /\ hook'[h].drops = hook[h].drops /\ hook'[h].out = hook[h].out /\ hook'[h].seen = hook[h].seen /\ hook'[h].read = hook[h].read
  BY DEF Became, Only
<1>3. hook[h].in.gate = "ok" /\ hook[h].in.event # "SessionStart"
  BY <1>1 DEF Known, Routed, Past, Ended, Working, Starting
<1>4. Routed(hook[h])'
  BY <1>1, <1>2, <1>3, FirstPlaces DEF Routed, Past, Ended, Starting, Guarding, Shadowing, Working
<1>5. Admitted(hook[h])'
  BY <1>1, <1>2, FirstPlaces DEF Known, Admitted
<1>6. Accounted(hook[h])'
  <2>1. First(hook[h].in) = "done" => Expected(hook[h].in) = {}
    BY <1>1, FirstPlaces DEF Expected, Recorded
  <2> QED
    BY <1>1, <1>2, <2>1, FirstPlaces DEF Accounted, Shadowing
<1>7. Hinted(hook[h])'
  BY <1>1, <1>2, <1>3, FirstPlaces DEF Known, Hinted, Waiting, Opening, Ended
<1>8. Backed(h, hook[h])'
  BY <1>1, <1>2, FirstPlaces DEF Known, Backed, Ended
<1>9. (hook[h].pc \in Working => db = "ready")'
  BY <1>1 DEF Known, Working
<1> QED
  BY <1>4, <1>5, <1>6, <1>7, <1>8, <1>9 DEF Known

LEMMA SessionExistsStep ==
    ASSUME IInv, NEW h \in Hooks, SessionExists(h)
    PROVE  IInv'
<1>1. /\ hook[h].pc = "exists" /\ TypeOK /\ Known(h, hook[h]) /\ hook[h].in \in Input
      /\ UNCHANGED <<db, env, sessions, stored, contentDB>>
  BY Here DEF SessionExists, IInv
<1>2. hook[h].in.gate = "ok" /\ hook[h].in.event # "SessionStart"
  BY <1>1 DEF Known, Routed, Past, Ended, Working, Starting
<1>3. CASE Drop(h, "session-check-failed", "done")
  BY <1>1, <1>2, <1>3, PlainDrop DEF Reasons, Ended
<1>4. CASE Move(h, "register")
  <2>1. Became(h, "register", hook[h].recorded, hook[h].drops, hook[h].out)
    BY <1>1, <1>4, MoveStep DEF Places, Working
  <2>2. Known(h, hook[h])'
    BY <1>1, <1>2, <2>1 DEF Known, Routed, Admitted, Accounted, Hinted, Backed,
       Became, Only, Past, Starting, Guarding, Shadowing, Waiting, Opening, Working, Ended
  <2> QED
    BY <1>1, <2>1, <2>2, PlainStep DEF Became
<1>5. CASE Move(h, First(hook[h].in))
  <2>1. First(hook[h].in) \in Places
    BY <1>1, FirstPlaces DEF Places, Working, Ended
  <2>2. Became(h, First(hook[h].in), hook[h].recorded, hook[h].drops, hook[h].out)
    BY <1>1, <1>5, <2>1, MoveStep
  <2>3. Known(h, hook[h])'
    BY <1>1, <2>2, FirstMove
  <2> QED
    BY <1>1, <2>2, <2>3, PlainStep DEF Became
<1> QED
  BY <1>3, <1>4, <1>5 DEF SessionExists, In

LEMMA RegisterStep ==
    ASSUME IInv, NEW h \in Hooks, RegisterOnFirstEvent(h)
    PROVE  IInv'
<1>1. /\ hook[h].pc = "register" /\ TypeOK /\ Known(h, hook[h]) /\ hook[h].in \in Input
      /\ UNCHANGED <<db, env, stored, contentDB>>
  BY Here DEF RegisterOnFirstEvent, IInv
<1>2. hook[h].in.event # "SessionStart"
  BY <1>1 DEF Known, Routed, Working, Starting
<1>3. CASE Drop(h, "ensure-failed", "done") /\ UNCHANGED sessions
  BY <1>1, <1>2, <1>3, PlainDrop DEF Reasons, Ended
<1>4. CASE Register(h, First(hook[h].in))
  <2>1. First(hook[h].in) \in Places
    BY <1>1, FirstPlaces DEF Places, Working, Ended
  <2>2. /\ sessions' \subseteq STRING
        /\ \E rec \in SUBSET EventTypes :
              /\ rec \subseteq hook[h].recorded \cup {"session_start"}
              /\ Became(h, First(hook[h].in), rec, hook[h].drops, hook[h].out)
    BY <1>4, <2>1, Registers
  <2>3. Only(h) /\ Known(h, hook[h])'
    BY <1>1, <2>2, FirstMove DEF Became
  <2> QED
    BY <1>1, <2>2, <2>3, WorkStep DEF TypeOK
<1> QED
  BY <1>3, <1>4 DEF RegisterOnFirstEvent, In

(* An append commits its event or leaves its line. *)
LEMMA Appends ==
    ASSUME IInv, NEW h \in Hooks, NEW ev \in EventTypes, NEW r \in Reasons, NEW pc \in Places,
           Append(h, ev, r, pc)
    PROVE  \/ Became(h, pc, hook[h].recorded \cup {ev}, hook[h].drops, hook[h].out)
           \/ Became(h, pc, hook[h].recorded, hook[h].drops \cup {r}, hook[h].out)
BY CommitStep, DropStep DEF Append, IInv

LEMMA EventTypeIsEvent ==
    ASSUME NEW in \in Input
    PROVE  /\ EventType(in) \in EventTypes
           /\ EventType(in) \notin {"warning", "artifact_created", "tool_result_summary"}
BY DEF EventType, EventTypes, Input, Events

LEMMA AppendEventStep ==
    ASSUME IInv, NEW h \in Hooks, AppendEvent(h)
    PROVE  IInv'
<1> DEFINE in == hook[h].in
           pc == IF in.event = "PostToolUse" THEN "shadow" ELSE "done"
<1>1. /\ hook[h].pc = "append" /\ TypeOK /\ Known(h, hook[h]) /\ in \in Input
      /\ UNCHANGED <<db, env, sessions, stored, contentDB>>
  BY Here DEF AppendEvent, IInv
<1>2. in.gate = "ok" /\ in.event \in Recorded /\ pc \in Places /\ in.named \in BOOLEAN
  BY <1>1 DEF Known, Routed, Past, Ended, Places, Working, Input
<1>3. ASSUME NEW rec, NEW drops, Became(h, pc, rec, drops, hook[h].out),
             hook[h].drops \subseteq drops, rec \subseteq hook[h].recorded \cup {EventType(in)},
             in.named => EventType(in) \in rec \/ drops # {}
      PROVE  IInv'
  <2>1. /\ hook'[h].in = in /\ hook'[h].pc = pc /\ hook'[h].recorded = rec
        /\ hook'[h].drops = drops /\ hook'[h].out = hook[h].out /\ hook'[h].seen = hook[h].seen /\ hook'[h].read = hook[h].read
    BY <1>3 DEF Became, Only
  <2>2. Routed(hook[h])' /\ Admitted(hook[h])'
    BY <1>1, <1>2, <2>1 DEF Known, Routed, Admitted, Past, Ended, Starting, Guarding, Shadowing,
       Working, Recorded
  <2>3. Accounted(hook[h])'
    <3>1. pc = "done" => Expected(in) \subseteq rec \/ drops # {}
      BY <1>2, <1>3 DEF Expected
    <3> QED
      BY <1>3, <2>1, <3>1 DEF Accounted
  <2>4. Hinted(hook[h])'
    BY <1>1, <1>2, <2>1 DEF Known, Hinted, Waiting, Opening, Ended, Recorded
  <2>5. Backed(h, hook[h])'
    <3>1. rec \cap {"artifact_created", "tool_result_summary"} # {} =>
            hook[h].recorded \cap {"artifact_created", "tool_result_summary"} # {}
      BY <1>1, <1>3, EventTypeIsEvent
    <3>2. "warning" \in rec => "warning" \in hook[h].recorded
      BY <1>1, <1>3, EventTypeIsEvent
    <3> QED
      BY <1>1, <2>1, <3>1, <3>2 DEF Known, Backed, Ended
  <2>6. (hook[h].pc \in Working => db = "ready")'
    BY <1>1 DEF Known, Working
  <2> QED
    BY <1>1, <1>3, <2>2, <2>3, <2>4, <2>5, <2>6, PlainStep DEF Became, Known
<1>4. CASE in.named /\ Append(h, EventType(in), "append-failed", pc)
  <2>1. EventType(in) \in EventTypes /\ "append-failed" \in Reasons
    BY <1>1, EventTypeIsEvent DEF Reasons
  <2>2. \/ Became(h, pc, hook[h].recorded \cup {EventType(in)}, hook[h].drops, hook[h].out)
        \/ Became(h, pc, hook[h].recorded, hook[h].drops \cup {"append-failed"}, hook[h].out)
    BY <1>2, <1>4, <2>1, Appends
  <2> HIDE DEF pc
  <2> QED
    BY <1>3, <2>2
<1>5. CASE ~in.named /\ Move(h, pc)
  <2>1. Became(h, pc, hook[h].recorded, hook[h].drops, hook[h].out)
    BY <1>1, <1>2, <1>5, MoveStep
  <2> HIDE DEF pc
  <2> QED
    BY <1>3, <1>5, <2>1
<1> QED
  BY <1>2, <1>4, <1>5 DEF AppendEvent, In

-----------------------------------------------------------------------------
(* The guards. *)

LEMMA GuardFacts ==
    ASSUME IInv, NEW h \in Hooks, hook[h].pc \in Guarding
    PROVE  /\ hook[h].in.gate = "ok" /\ hook[h].in.event = "PreToolUse" /\ hook[h].in.event # "SessionStart"
           /\ Expected(hook[h].in) = {} /\ db = "ready"
           /\ hook[h].pc \in {"stat", "guardStore", "guardIngest", "guardRegister"} =>
                 hook[h].in.file \in Files /\ hook[h].in.tool # "Grep"
<1>1. Known(h, hook[h])
  BY Here
<1> QED
  BY <1>1 DEF Known, Routed, Admitted, Past, Ended, Guarding, Working, Expected, Recorded

LEMMA GuardStatStep ==
    ASSUME IInv, NEW h \in Hooks, GuardStat(h)
    PROVE  IInv'
<1> DEFINE v == version[hook[h].in.file]
<1>1. /\ hook[h].pc = "stat" /\ TypeOK /\ Known(h, hook[h]) /\ hook[h] \in Process
      /\ UNCHANGED <<db, env, sessions, stored, contentDB>>
  BY Here DEF GuardStat, IInv
<1>2. /\ hook[h].in.file \in Files /\ hook[h].in.gate = "ok" /\ hook[h].in.event = "PreToolUse"
      /\ Expected(hook[h].in) = {}
  BY <1>1, GuardFacts DEF Guarding
<1>3. v \in 0..MaxVersion /\ MaxVersion \in Nat
  BY <1>1, <1>2, HookAssumption DEF TypeOK
<1>4. PICK pc \in {"guardStore", "done"} : hook' = [hook EXCEPT ![h].pc = pc, ![h].seen = v]
  BY DEF GuardStat, In
<1> DEFINE q == [hook[h] EXCEPT !.pc = pc, !.seen = v]
<1>5. hook' = [hook EXCEPT ![h] = q]
  BY <1>4
<1>6. q \in Process
  BY <1>1, <1>3 DEF Process, Working, Ended
<1>7. /\ q.pc = pc /\ q.recorded = hook[h].recorded /\ q.drops = hook[h].drops
      /\ q.out = hook[h].out /\ q.seen = v /\ q.in = hook[h].in
  BY <1>1 DEF Process
<1> HIDE DEF q
<1>8. /\ Only(h) /\ hook'[h].pc = pc /\ hook'[h].recorded = hook[h].recorded
      /\ hook'[h].drops = hook[h].drops /\ hook'[h].out = hook[h].out /\ hook'[h].seen = v
      /\ hook'[h].in = hook[h].in
  BY <1>1, <1>5, <1>6, <1>7 DEF Only, TypeOK
<1>9. version' = version /\ v <= v
  BY <1>1, <1>3 DEF env
<1>10. "deny" \notin hook[h].out
  BY <1>1 DEF Known, Backed, Ended
<1>11. Routed(hook[h])' /\ Admitted(hook[h])' /\ Accounted(hook[h])' /\ Hinted(hook[h])'
  BY <1>1, <1>2, <1>8 DEF Known, Routed, Admitted, Accounted, Hinted, Past, Starting, Guarding,
     Shadowing, Waiting, Opening, Working, Ended, Recorded
<1>12. Backed(h, hook[h])'
  BY <1>1, <1>8, <1>9, <1>10 DEF Known, Backed, Ended
<1>13. (hook[h].pc \in Working => db = "ready")'
  BY <1>1 DEF Known, Working
<1> QED
  BY <1>1, <1>8, <1>11, <1>12, <1>13, PlainStep DEF Known

(* OpenContext: the content store, or a line and the end. *)
LEMMA OpenStoreStep ==
    ASSUME IInv, NEW h \in Hooks, NEW r \in Reasons, NEW pc \in Places, OpenStore(h, r, pc),
           UNCHANGED <<db, env, sessions, stored>>,
           hook[h].pc \notin Ended, hook[h].in.event # "SessionStart",
           Became(h, pc, hook[h].recorded, hook[h].drops, hook[h].out) => Known(h, hook[h])'
    PROVE  IInv'
<1>1. TypeOK /\ sessions' \subseteq STRING
  BY DEF IInv, TypeOK
<1>2. CASE Move(h, pc) /\ contentDB' = TRUE
  <2>1. Became(h, pc, hook[h].recorded, hook[h].drops, hook[h].out)
    BY <1>1, <1>2, MoveStep
  <2> QED
    BY <1>1, <1>2, <2>1, WorkStep DEF Became
<1>3. CASE Drop(h, r, "done") /\ UNCHANGED contentDB
  BY <1>3, PlainDrop
<1> QED
  BY <1>2, <1>3 DEF OpenStore

LEMMA GuardStoreStep ==
    ASSUME IInv, NEW h \in Hooks, GuardStore(h)
    PROVE  IInv'
<1>1. /\ hook[h].pc = "guardStore" /\ TypeOK /\ Known(h, hook[h])
      /\ UNCHANGED <<db, env, sessions, stored>> /\ OpenStore(h, "guard-store", "guardIngest")
  BY Here DEF GuardStore, IInv
<1>2. hook[h].in.event # "SessionStart"
  BY <1>1, GuardFacts DEF Guarding
<1>3. ASSUME Became(h, "guardIngest", hook[h].recorded, hook[h].drops, hook[h].out)
      PROVE  Known(h, hook[h])'
  <2>1. version' = version
    BY <1>1 DEF env
  <2> QED
    BY <1>1, <1>3, <2>1 DEF Known, Routed, Admitted, Accounted, Hinted, Backed,
       Became, Only, Past, Starting, Guarding, Shadowing, Waiting, Opening, Working, Ended
<1> QED
  BY <1>1, <1>2, <1>3, OpenStoreStep DEF Reasons, Places, Working, Ended

(* What is read now is not older than what was seen. *)
LEMMA GuardIngestStep ==
    ASSUME IInv, NEW h \in Hooks, GuardIngest(h)
    PROVE  IInv'
<1> DEFINE v == version[hook[h].in.file]
<1>1. /\ hook[h].pc = "guardIngest" /\ TypeOK /\ Known(h, hook[h]) /\ hook[h] \in Process
      /\ UNCHANGED <<db, env, sessions, stored, contentDB>>
  BY Here DEF GuardIngest, IInv
<1>2. /\ hook[h].in.file \in Files /\ hook[h].in.gate = "ok" /\ hook[h].in.event = "PreToolUse"
      /\ Expected(hook[h].in) = {}
  BY <1>1, GuardFacts DEF Guarding
<1>3. CASE Move(h, "done")
  BY <1>1, <1>2, <1>3, PlainDone DEF Ended
<1>4. CASE hook' = [hook EXCEPT ![h].pc = "guardRegister", ![h].read = v]
  <2>1. v \in 0..MaxVersion /\ hook[h].seen <= v
    BY <1>1, <1>2 DEF TypeOK, Known, Backed
  <2> DEFINE q == [hook[h] EXCEPT !.pc = "guardRegister", !.read = v]
  <2>2. hook' = [hook EXCEPT ![h] = q]
    BY <1>4
  <2>3. q \in Process
    BY <1>1, <2>1 DEF Process, Working
  <2>4. /\ q.pc = "guardRegister" /\ q.recorded = hook[h].recorded /\ q.drops = hook[h].drops
        /\ q.out = hook[h].out /\ q.seen = hook[h].seen /\ q.read = v /\ q.in = hook[h].in
    BY <1>1 DEF Process
  <2> HIDE DEF q
  <2>5. /\ Only(h) /\ hook'[h].pc = "guardRegister" /\ hook'[h].recorded = hook[h].recorded
        /\ hook'[h].drops = hook[h].drops /\ hook'[h].out = hook[h].out
        /\ hook'[h].seen = hook[h].seen /\ hook'[h].read = v /\ hook'[h].in = hook[h].in
    BY <1>1, <2>2, <2>3, <2>4 DEF Only, TypeOK
  <2>6. Routed(hook[h])' /\ Admitted(hook[h])' /\ Accounted(hook[h])' /\ Hinted(hook[h])'
    BY <1>1, <1>2, <2>5 DEF Known, Routed, Admitted, Accounted, Hinted, Past, Starting, Guarding,
       Shadowing, Waiting, Opening, Working, Ended, Recorded
  <2>7. Backed(h, hook[h])'
    <3>1. "deny" \notin hook'[h].out /\ "warning" \notin hook'[h].recorded
      BY <1>1, <2>5 DEF Known, Backed, Ended
    <3>2. hook'[h].recorded \cap {"artifact_created", "tool_result_summary"} # {} =>
             <<"shadow", h>> \in stored'
      BY <1>1, <2>5 DEF Known, Backed
    <3> QED
      BY <2>1, <2>5, <3>1, <3>2 DEF Backed
  <2>8. (hook[h].pc \in Working => db = "ready")'
    BY <1>1 DEF Known, Working
  <2> QED
    BY <1>1, <2>5, <2>6, <2>7, <2>8, PlainStep DEF Known
<1> QED
  BY <1>3, <1>4 DEF GuardIngest, In

(* What is registered has no part older than what was seen. *)
LEMMA GuardRegisterStep ==
    ASSUME IInv, NEW h \in Hooks, GuardRegister(h)
    PROVE  IInv'
<1> DEFINE v == hook[h].read
<1>1. /\ hook[h].pc = "guardRegister" /\ TypeOK /\ Known(h, hook[h]) /\ hook[h] \in Process
      /\ UNCHANGED <<db, env, sessions, contentDB>>
  BY Here DEF GuardRegister, IInv
<1>2. /\ hook[h].in.file \in Files /\ hook[h].in.gate = "ok" /\ hook[h].in.event = "PreToolUse"
      /\ Expected(hook[h].in) = {}
  BY <1>1, GuardFacts DEF Guarding
<1>3. CASE Move(h, "done") /\ UNCHANGED stored
  BY <1>1, <1>2, <1>3, PlainDone DEF Ended
<1>4. CASE stored' = stored \cup {<<hook[h].in.file, v>>} /\ Move(h, "deny")
  <2>1. Became(h, "deny", hook[h].recorded, hook[h].drops, hook[h].out)
    BY <1>1, <1>4, MoveStep DEF Places, Working
  <2>2. v \in hook[h].seen..MaxVersion
    <3>1. v \in 0..MaxVersion /\ hook[h].seen \in 0..MaxVersion /\ MaxVersion \in Nat
      BY <1>1, <1>2, HookAssumption DEF TypeOK, Process
    <3>2. hook[h].seen <= v
      BY <1>1 DEF Known, Backed
    <3> QED
      BY <3>1, <3>2
  <2>3. Routed(hook[h])' /\ Admitted(hook[h])' /\ Accounted(hook[h])' /\ Hinted(hook[h])'
    BY <1>1, <2>1 DEF Known, Routed, Admitted, Accounted, Hinted, Backed,
       Became, Only, Past, Starting, Guarding, Shadowing, Waiting, Opening, Working, Ended
  <2>4. Backed(h, hook[h])'
    <3>1. /\ hook'[h].in = hook[h].in /\ hook'[h].pc = "deny" /\ hook'[h].recorded = hook[h].recorded
          /\ hook'[h].out = hook[h].out /\ hook'[h].seen = hook[h].seen /\ hook'[h].read = hook[h].read /\ stored \subseteq stored'
      BY <1>4, <2>1 DEF Became, Only
    <3>2. \E w \in hook'[h].seen..MaxVersion : <<hook'[h].in.file, w>> \in stored'
      BY <1>4, <2>2, <3>1
    <3>3. "deny" \notin hook'[h].out /\ "warning" \notin hook'[h].recorded
      BY <1>1, <3>1 DEF Known, Backed, Ended
    <3>4. hook'[h].recorded \cap {"artifact_created", "tool_result_summary"} # {} => <<"shadow", h>> \in stored'
      BY <1>1, <3>1 DEF Known, Backed
    <3> QED
      BY <3>1, <3>2, <3>3, <3>4 DEF Backed
  <2>5. (hook[h].pc \in Working => db = "ready")'
    BY <1>1 DEF Known, Working
  <2> QED
    BY <1>1, <1>4, <2>1, <2>3, <2>4, <2>5, WorkStep DEF Became, Known, TypeOK
<1> QED
  BY <1>3, <1>4 DEF GuardRegister, In

LEMMA DenyStep ==
    ASSUME IInv, NEW h \in Hooks, Deny(h)
    PROVE  IInv'
<1> DEFINE q == [hook[h] EXCEPT !.pc = "warn", !.out = hook[h].out \cup {"deny"}]
<1>1. /\ hook[h].pc = "deny" /\ TypeOK /\ Known(h, hook[h]) /\ hook[h] \in Process
      /\ UNCHANGED <<db, env, sessions, stored, contentDB>>
  BY Here DEF Deny, IInv
<1>2. hook' = [hook EXCEPT ![h] = q]
  BY DEF Deny, Write
<1>3. q \in Process
  BY <1>1 DEF Process, Working
<1>4. /\ q.pc = "warn" /\ q.recorded = hook[h].recorded /\ q.drops = hook[h].drops
      /\ q.out = hook[h].out \cup {"deny"} /\ q.seen = hook[h].seen /\ q.read = hook[h].read /\ q.in = hook[h].in
  BY <1>1 DEF Process
<1> HIDE DEF q
<1>5. Became(h, "warn", hook[h].recorded, hook[h].drops, hook[h].out \cup {"deny"})
  BY <1>1, <1>2, <1>3, <1>4 DEF Became, Only, TypeOK
<1>6. Known(h, hook[h])'
  BY <1>1, <1>5 DEF Known, Routed, Admitted, Accounted, Hinted, Backed,
       Became, Only, Past, Starting, Guarding, Shadowing, Waiting, Opening, Working, Ended
<1> QED
  BY <1>1, <1>5, <1>6, PlainStep DEF Became

LEMMA DenyWarningStep ==
    ASSUME IInv, NEW h \in Hooks, DenyWarning(h)
    PROVE  IInv'
<1>1. /\ hook[h].pc = "warn" /\ TypeOK /\ Known(h, hook[h])
      /\ UNCHANGED <<db, env, sessions, stored, contentDB>>
  BY Here DEF DenyWarning, IInv
<1>2. hook[h].in.event = "PreToolUse" /\ Expected(hook[h].in) = {}
  BY <1>1, GuardFacts DEF Guarding
<1>3. \/ Became(h, "done", hook[h].recorded \cup {"warning"}, hook[h].drops, hook[h].out)
      \/ Became(h, "done", hook[h].recorded, hook[h].drops \cup {"guard-append"}, hook[h].out)
  BY Appends DEF DenyWarning, EventTypes, Reasons, Places, Ended
<1>4. ASSUME NEW rec, NEW drops, rec \subseteq hook[h].recorded \cup {"warning"},
             Became(h, "done", rec, drops, hook[h].out)
      PROVE  IInv'
  <2>1. Routed(hook[h])' /\ Admitted(hook[h])' /\ Accounted(hook[h])' /\ Hinted(hook[h])'
    BY <1>1, <1>2, <1>4 DEF Known, Routed, Admitted, Accounted, Hinted, Backed,
       Became, Only, Past, Starting, Guarding, Shadowing, Waiting, Opening, Working, Ended
  <2>2. Backed(h, hook[h])' /\ (hook[h].pc \in Working => db = "ready")'
    BY <1>1, <1>2, <1>4 DEF Known, Routed, Admitted, Accounted, Hinted, Backed,
       Became, Only, Past, Starting, Guarding, Shadowing, Waiting, Opening, Working, Ended
  <2> QED
    BY <1>1, <1>4, <2>1, <2>2, PlainStep DEF Became, Known
<1> QED
  BY <1>3, <1>4

-----------------------------------------------------------------------------
(* What shadowCapture does. *)

LEMMA ShadowFacts ==
    ASSUME IInv, NEW h \in Hooks, hook[h].pc \in Shadowing
    PROVE  /\ hook[h].in.gate = "ok" /\ hook[h].in.event = "PostToolUse" /\ db = "ready"
           /\ hook[h].in.event # "SessionStart"
           /\ hook[h].in.named => EventType(hook[h].in) \in hook[h].recorded \/ hook[h].drops # {}
<1>1. Known(h, hook[h])
  BY Here
<1> QED
  BY <1>1 DEF Known, Routed, Accounted, Past, Ended, Shadowing, Working

LEMMA ShadowCaptureStep ==
    ASSUME IInv, NEW h \in Hooks, ShadowCapture(h)
    PROVE  IInv'
<1>1. /\ hook[h].pc = "shadow" /\ TypeOK /\ Known(h, hook[h]) /\ hook[h].in.body \in Bodies
      /\ UNCHANGED <<db, env, sessions, stored, contentDB>>
  BY Here DEF ShadowCapture, IInv, Input
<1>2. /\ hook[h].in.gate = "ok" /\ hook[h].in.event = "PostToolUse"
      /\ hook[h].in.named => EventType(hook[h].in) \in hook[h].recorded \/ hook[h].drops # {}
  BY <1>1, ShadowFacts DEF Shadowing
<1>3. CASE hook[h].in.body = "skip" /\ Move(h, "done")
  <2>1. Expected(hook[h].in) \subseteq hook[h].recorded \/ hook[h].drops # {}
    BY <1>2, <1>3 DEF Expected
  <2> QED
    BY <1>1, <1>2, <1>3, <2>1, PlainDone DEF Ended
<1>4. CASE Drop(h, "shadow-oversize", "done") \/ Drop(h, "shadow-denylist", "done")
  BY <1>1, <1>2, <1>4, PlainDrop DEF Reasons, Ended
<1>5. CASE Move(h, "shadowStore")
  <2>1. Became(h, "shadowStore", hook[h].recorded, hook[h].drops, hook[h].out)
    BY <1>1, <1>5, MoveStep DEF Places, Working
  <2>2. Known(h, hook[h])'
    BY <1>1, <2>1 DEF Known, Routed, Admitted, Accounted, Hinted, Backed,
       Became, Only, Past, Starting, Guarding, Shadowing, Waiting, Opening, Working, Ended
  <2> QED
    BY <1>1, <2>1, <2>2, PlainStep DEF Became
<1> QED
  BY <1>1, <1>3, <1>4, <1>5 DEF ShadowCapture, In, Bodies

LEMMA ShadowStoreStep ==
    ASSUME IInv, NEW h \in Hooks, ShadowStore(h)
    PROVE  IInv'
<1>1. /\ hook[h].pc = "shadowStore" /\ TypeOK /\ Known(h, hook[h])
      /\ UNCHANGED <<db, env, sessions, stored>> /\ OpenStore(h, "shadow-store", "shadowIngest")
  BY Here DEF ShadowStore, IInv
<1>2. hook[h].in.event # "SessionStart"
  BY <1>1, ShadowFacts DEF Shadowing
<1>3. ASSUME Became(h, "shadowIngest", hook[h].recorded, hook[h].drops, hook[h].out)
      PROVE  Known(h, hook[h])'
  BY <1>1, <1>3 DEF Known, Routed, Admitted, Accounted, Hinted, Backed,
       Became, Only, Past, Starting, Guarding, Shadowing, Waiting, Opening, Working, Ended
<1> QED
  BY <1>1, <1>2, <1>3, OpenStoreStep DEF Reasons, Places, Working, Ended

LEMMA ShadowIngestStep ==
    ASSUME IInv, NEW h \in Hooks, ShadowIngest(h)
    PROVE  IInv'
<1>1. /\ hook[h].pc = "shadowIngest" /\ TypeOK /\ Known(h, hook[h])
      /\ UNCHANGED <<db, env, sessions, contentDB>>
  BY Here DEF ShadowIngest, IInv
<1>2. hook[h].in.event # "SessionStart"
  BY <1>1, ShadowFacts DEF Shadowing
<1>3. CASE Drop(h, "shadow-ingest", "done") /\ UNCHANGED stored
  BY <1>1, <1>2, <1>3, PlainDrop DEF Reasons, Ended
<1>4. CASE stored' = stored \cup {<<"shadow", h>>} /\ Move(h, "created")
  <2>1. Became(h, "created", hook[h].recorded, hook[h].drops, hook[h].out)
    BY <1>1, <1>4, MoveStep DEF Places, Working
  <2>2. Routed(hook[h])' /\ Admitted(hook[h])' /\ Accounted(hook[h])' /\ Hinted(hook[h])'
    BY <1>1, <2>1 DEF Known, Routed, Admitted, Accounted, Hinted, Backed,
       Became, Only, Past, Starting, Guarding, Shadowing, Waiting, Opening, Working, Ended
  <2>3. Backed(h, hook[h])'
    <3>1. /\ hook'[h].in = hook[h].in /\ hook'[h].pc = "created" /\ hook'[h].recorded = hook[h].recorded
          /\ hook'[h].out = hook[h].out /\ <<"shadow", h>> \in stored'
      BY <1>4, <2>1 DEF Became, Only
    <3>2. "deny" \notin hook'[h].out /\ "warning" \notin hook'[h].recorded
      BY <1>1, <3>1 DEF Known, Backed, Ended
    <3> QED
      BY <3>1, <3>2 DEF Backed
  <2>4. (hook[h].pc \in Working => db = "ready")'
    BY <1>1 DEF Known, Working
  <2> QED
    BY <1>1, <1>4, <2>1, <2>2, <2>3, <2>4, WorkStep DEF Became, Known, TypeOK
<1> QED
  BY <1>3, <1>4 DEF ShadowIngest

(* The two events of an artifact that is there. *)
LEMMA ShadowEventsStep ==
    ASSUME IInv, NEW h \in Hooks, ShadowCreated(h) \/ ShadowSummary(h)
    PROVE  IInv'
<1>1. /\ hook[h].pc \in {"created", "summary"} /\ TypeOK /\ Known(h, hook[h])
      /\ UNCHANGED <<db, env, sessions, stored, contentDB>>
  BY Here DEF ShadowCreated, ShadowSummary, IInv
<1>2. /\ hook[h].in.gate = "ok" /\ hook[h].in.event = "PostToolUse"
      /\ hook[h].in.named => EventType(hook[h].in) \in hook[h].recorded \/ hook[h].drops # {}
  BY <1>1, ShadowFacts DEF Shadowing
<1>3. <<"shadow", h>> \in stored /\ "deny" \notin hook[h].out /\ "warning" \notin hook[h].recorded
      /\ "hint" \notin hook[h].out
  BY <1>1 DEF Known, Backed, Hinted, Ended
<1>4. CASE ShadowCreated(h)
  <2>1. \/ Became(h, "summary", hook[h].recorded \cup {"artifact_created"}, hook[h].drops, hook[h].out)
        \/ Became(h, "summary", hook[h].recorded, hook[h].drops \cup {"shadow-append"}, hook[h].out)
    BY <1>4, Appends DEF ShadowCreated, EventTypes, Reasons, Places, Working
  <2>2. ASSUME NEW rec, NEW drops, Became(h, "summary", rec, drops, hook[h].out),
               hook[h].drops \subseteq drops, hook[h].recorded \subseteq rec, "warning" \notin rec,
               "artifact_created" \in rec \/ drops # {}
        PROVE  IInv'
    <3>1. Routed(hook[h])' /\ Admitted(hook[h])' /\ Accounted(hook[h])' /\ Hinted(hook[h])'
      BY <1>1, <1>2, <2>2 DEF Known, Routed, Admitted, Accounted, Hinted, Backed,
       Became, Only, Past, Starting, Guarding, Shadowing, Waiting, Opening, Working, Ended
    <3>2. Backed(h, hook[h])' /\ (hook[h].pc \in Working => db = "ready")'
      BY <1>1, <1>3, <2>2 DEF Known, Backed, Became, Only, Working
    <3> QED
      BY <1>1, <2>2, <3>1, <3>2, PlainStep DEF Became, Known
  <2> QED
    BY <1>3, <2>1, <2>2
<1>5. CASE ShadowSummary(h)
  <2>1. \/ Became(h, "done", hook[h].recorded \cup {"tool_result_summary"}, hook[h].drops, hook[h].out)
        \/ Became(h, "done", hook[h].recorded, hook[h].drops \cup {"shadow-append"}, hook[h].out)
    BY <1>5, Appends DEF ShadowSummary, EventTypes, Reasons, Places, Ended
  <2>2. "artifact_created" \in hook[h].recorded \/ hook[h].drops # {}
    BY <1>1, <1>5 DEF Known, Accounted, ShadowSummary
  <2>3. ASSUME NEW rec, NEW drops, Became(h, "done", rec, drops, hook[h].out),
               hook[h].drops \subseteq drops, hook[h].recorded \subseteq rec, "warning" \notin rec,
               "tool_result_summary" \in rec \/ drops # {}
        PROVE  IInv'
    <3>1. Expected(hook[h].in) \subseteq rec \/ drops # {}
      BY <1>2, <2>2, <2>3 DEF Expected
    <3>2. Routed(hook[h])' /\ Admitted(hook[h])' /\ Accounted(hook[h])' /\ Hinted(hook[h])'
      BY <1>1, <1>2, <1>3, <2>3, <3>1 DEF Known, Routed, Admitted, Accounted, Hinted, Backed,
       Became, Only, Past, Starting, Guarding, Shadowing, Waiting, Opening, Working, Ended
    <3>3. Backed(h, hook[h])' /\ (hook[h].pc \in Working => db = "ready")'
      BY <1>1, <1>3, <2>3 DEF Known, Backed, Became, Only, Working, Ended
    <3> QED
      BY <1>1, <2>3, <3>2, <3>3, PlainStep DEF Became, Known
  <2> QED
    BY <1>3, <2>1, <2>3
<1> QED
  BY <1>4, <1>5

-----------------------------------------------------------------------------
(* The environment, and the invariant. *)

LEMMA DeadlineStep ==
    ASSUME IInv, NEW h \in Hooks, Deadline(h)
    PROVE  IInv'
<1> DEFINE q == [hook[h] EXCEPT !.due = TRUE]
<1>1. TypeOK /\ Known(h, hook[h]) /\ hook[h] \in Process /\ UNCHANGED <<db, env, sessions, stored, contentDB>>
  BY Here DEF Deadline, IInv
<1>2. hook' = [hook EXCEPT ![h] = q]
  BY DEF Deadline
<1>3. q \in Process
  BY <1>1 DEF Process
<1>4. /\ q.pc = hook[h].pc /\ q.recorded = hook[h].recorded /\ q.drops = hook[h].drops
      /\ q.out = hook[h].out /\ q.seen = hook[h].seen /\ q.read = hook[h].read /\ q.in = hook[h].in
  BY <1>1 DEF Process
<1> HIDE DEF q
<1>5. Became(h, hook[h].pc, hook[h].recorded, hook[h].drops, hook[h].out)
  BY <1>1, <1>2, <1>3, <1>4 DEF Became, Only, TypeOK
<1>6. Known(h, hook[h])'
  BY <1>1, <1>5 DEF env, Known, Routed, Admitted, Accounted, Hinted, Backed, Became, Only
<1> QED
  BY <1>1, <1>5, <1>6, PlainStep DEF Became

LEMMA KillStep ==
    ASSUME IInv, NEW h \in Hooks, Kill(h)
    PROVE  IInv'
<1> DEFINE q == [hook[h] EXCEPT !.pc = "killed", !.init = FALSE]
<1>1. TypeOK /\ Known(h, hook[h]) /\ hook[h] \in Process /\ UNCHANGED <<db, env, sessions, stored, contentDB>>
  BY Here DEF Kill, IInv
<1>2. hook' = [hook EXCEPT ![h] = q]
  BY DEF Kill
<1>3. q \in Process
  BY <1>1 DEF Process, Ended
<1>4. /\ q.pc = "killed" /\ q.recorded = hook[h].recorded /\ q.drops = hook[h].drops
      /\ q.out = hook[h].out /\ q.seen = hook[h].seen /\ q.read = hook[h].read /\ q.in = hook[h].in
  BY <1>1 DEF Process
<1> HIDE DEF q
<1>5. Became(h, "killed", hook[h].recorded, hook[h].drops, hook[h].out)
  BY <1>1, <1>2, <1>3, <1>4 DEF Became, Only, TypeOK
<1>6. Known(h, hook[h])'
  BY <1>1, <1>5 DEF Known, Routed, Admitted, Accounted, Hinted, Backed,
       Became, Only, Past, Starting, Guarding, Shadowing, Waiting, Opening, Working, Ended
<1> QED
  BY <1>1, <1>5, <1>6, PlainStep DEF Became

(* The other processes and the worktree change no hook process. *)
LEMMA EnvironmentStep ==
    ASSUME IInv, Recover \/ SweepSession \/ OtherStoreUser \/ WriteFile
    PROVE  IInv'
<1>1. hook' = hook /\ db' = db /\ stored' = stored
  BY DEF Recover, SweepSession, OtherStoreUser, WriteFile
<1>2. version' \in [Files -> 0..MaxVersion] /\ \A f \in Files : version[f] <= version'[f]
  <2>1. version \in [Files -> 0..MaxVersion] /\ MaxVersion \in Nat
    BY HookAssumption DEF IInv, TypeOK
  <2>2. CASE WriteFile
    BY <2>1, <2>2 DEF WriteFile
  <2>3. CASE version' = version
    BY <2>1, <2>3
  <2> QED
    BY <2>2, <2>3 DEF env, Recover, SweepSession, OtherStoreUser
<1>3. TypeOK'
  BY <1>1, <1>2 DEF env, IInv, TypeOK, Recover, SweepSession, OtherStoreUser, WriteFile
<1>4. ASSUME NEW h \in Hooks PROVE Known(h, hook[h])'
  <2>1. Known(h, hook[h]) /\ hook[h] \in Process
    BY Here
  <2>2. hook[h].pc \in {"guardStore", "guardIngest"} => hook[h].seen <= version'[hook[h].in.file]
    <3> SUFFICES ASSUME hook[h].pc \in {"guardStore", "guardIngest"}
                 PROVE  hook[h].seen <= version'[hook[h].in.file]
      OBVIOUS
    <3>1. hook[h].in.file \in Files /\ hook[h].seen <= version[hook[h].in.file]
      BY <2>1 DEF Known, Admitted, Backed
    <3>2. hook[h].seen \in Int /\ version[hook[h].in.file] \in Int /\ version'[hook[h].in.file] \in Int
      BY <1>2, <2>1, <3>1 DEF IInv, TypeOK, Process
    <3> QED
      BY <1>2, <3>1, <3>2
  <2> QED
    BY <1>1, <2>1, <2>2 DEF Known, Routed, Admitted, Accounted, Hinted, Backed
<1> QED
  BY <1>3, <1>4 DEF IInv

LEMMA InvariantInit == Init => IInv
<1> SUFFICES ASSUME Init PROVE IInv
  OBVIOUS
<1>1. PICK in \in Scenarios :
        hook = [h \in Hooks |-> [pc |-> "new", in |-> in[h], due |-> FALSE, init |-> FALSE,
                                 seen |-> 0, read |-> 0, recorded |-> {}, drops |-> {}, out |-> {}]]
  BY DEF Init
<1>2. \A h \in Hooks : in[h] \in Input /\ (in[h].whole /\ in[h].tool # "Grep" => in[h].file \in Files)
  BY HookAssumption
<1>3. MaxVersion \in Nat /\ 0 \in 0..MaxVersion
  BY HookAssumption
<1>4. hook \in [Hooks -> Process]
  BY <1>1, <1>2, <1>3 DEF Process, Waiting
<1>5. version \in [Files -> 0..MaxVersion]
  <2>1. version = [f \in Files |-> 1]
    BY DEF Init
  <2> QED
    BY <1>3, <2>1, HookAssumption
<1>6. TypeOK
  BY <1>4, <1>5 DEF Init, TypeOK
<1>7. ASSUME NEW h \in Hooks PROVE Known(h, hook[h])
  <2>1. /\ hook[h].pc = "new" /\ hook[h].in = in[h] /\ hook[h].recorded = {} /\ hook[h].drops = {}
        /\ hook[h].out = {}
    BY <1>1
  <2> QED
    BY <1>2, <2>1 DEF Known, Routed, Admitted, Accounted, Hinted, Backed, Past, Starting, Guarding,
       Shadowing, Waiting, Opening, Working, Ended
<1> QED
  BY <1>6, <1>7 DEF IInv

LEMMA InvariantStep == IInv /\ [Next]_vars => IInv'
<1> SUFFICES ASSUME IInv, [Next]_vars PROVE IInv'
  OBVIOUS
<1>1. CASE UNCHANGED vars
  BY <1>1 DEF vars, env, IInv, TypeOK, Known, Routed, Admitted, Accounted, Hinted, Backed
<1>2. ASSUME NEW h \in Hooks, HookStep(h) PROVE IInv'
  BY <1>2, RunStep, OpenStep, InitLockStep, ConnectStep, MigrateStep, SessionStartStep, HintGatesStep,
     HintQueryStep, SessionExistsStep, RegisterStep, AppendEventStep, GuardStatStep, GuardStoreStep,
     GuardIngestStep, GuardRegisterStep, DenyStep, DenyWarningStep, ShadowCaptureStep, ShadowStoreStep, ShadowIngestStep,
     ShadowEventsStep DEF HookStep
<1> QED
  BY <1>1, <1>2, DeadlineStep, KillStep, EnvironmentStep DEF Next

LEMMA Invariance == Spec => []IInv
BY InvariantInit, InvariantStep, PTL DEF Spec

-----------------------------------------------------------------------------
(* The theorems. *)

(* Every variable of the hook processes and of what they share keeps its   *)
(* type, whatever the host sends within Scenarios.                         *)
THEOREM TypeCorrect == Spec => []TypeOK
<1>1. IInv => TypeOK
  BY DEF IInv
<1> QED
  BY <1>1, Invariance, PTL

(* OpenAppend: no hook uses session.db before a schema is there, with the  *)
(* init lock or past it, for any number of hooks that start together.      *)
THEOREM SchemaBeforeUse == Spec => []OpenedMeansMigrated
<1>1. IInv => OpenedMeansMigrated
  BY DEF IInv, Known, OpenedMeansMigrated
<1> QED
  BY <1>1, Invariance, PTL

(* guardRead, guardBash, guardPowerShell: what is denied was registered,   *)
(* in the version the guard looked at or a later one.                      *)
THEOREM DeniedIsStored == Spec => []DenyMeansStored
<1>1. IInv => DenyMeansStored
  BY DEF IInv, Known, Backed, DenyMeansStored, In
<1> QED
  BY <1>1, Invariance, PTL

(* shadowCapture and denyTool: an event tells of what was done before it.  *)
THEOREM LogIsTrue == Spec => []RecordsAreTrue
<1>1. IInv => RecordsAreTrue
  BY DEF IInv, Known, Backed, RecordsAreTrue
<1> QED
  BY <1>1, Invariance, PTL

(* Run and dispatch: a call that ends has recorded what it stands for or   *)
(* left a line, and a compaction leaves the line that counts it.           *)
THEOREM FailOpenIsNotSilent == Spec => []NothingVanishes
<1>1. IInv => NothingVanishes
  BY DEF IInv, Known, Accounted, Hinted, NothingVanishes, In
<1> QED
  BY <1>1, Invariance, PTL

=============================================================================
