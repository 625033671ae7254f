---------------------------- MODULE HookSettings ----------------------------
(***************************************************************************)
(* The settings files of the two hosts, which belong to the user and hold  *)
(* his own hook groups beside groups an older version installed: what      *)
(* `hook uninstall` takes out of one, and how doctor counts what is left.  *)
(* A group of Claude's settings.json carries a marker, one of Codex's      *)
(* hooks.json cannot: there the entries carry it.                          *)
(*                                                                         *)
(* A file is what its JSON says, not its bytes: when a group goes, the     *)
(* file is written anew, indented, its keys sorted, its strings escaped.   *)
(* The values of the groups that stay and of the other top-level keys stay *)
(* what they were; the latter are left out here.  A file no group is taken *)
(* out of must not be written at all.  The order of the entries in a group *)
(* is never looked at: they are a set.                                     *)
(***************************************************************************)
EXTENDS Integers, Sequences, FiniteSets, Functions

CONSTANT MaxGroups         \* bound: groups of a file

Hosts  == {"claude", "codex"}
Events == {"SessionStart", "SubagentStop", "Stop"}

(* hookRegistrations and codexRegistrations; the other events they share,  *)
(* or share with the user's, are like the ones kept here.                  *)
Registrations(host) ==
    IF host = "claude" THEN {"SessionStart", "SubagentStop"} ELSE {"SessionStart"}

-----------------------------------------------------------------------------
(* Groups.  A garbled group does not unmarshal into the fields probed.     *)

Entries == [command: {"hook", "codex-hook", "other"}, marked: BOOLEAN]
Groups  == [garbled: {FALSE}, marked: BOOLEAN, hooks: {h \in SUBSET Entries : Cardinality(h) <= 2}]
             \cup {[garbled |-> TRUE, marked |-> FALSE, hooks |-> {}]}

(* isHookCommandToken, isCodexHookCommandToken *)
IsCommandToken(host, entry) ==
    entry.command = IF host = "claude" THEN "hook" ELSE "codex-hook"

(* Mutant: one entry of ours makes the group ours. *)
isOurHookGroupAny(g) ==
    ~g.garbled /\ g.marked /\ \E e \in g.hooks : IsCommandToken("claude", e)

isOurHookGroup(g) ==
    ~g.garbled /\ g.marked /\ g.hooks # {} /\ \A e \in g.hooks : IsCommandToken("claude", e)

heldHookGroup(g) ==
    /\ ~g.garbled /\ g.marked
    /\ \E e \in g.hooks : IsCommandToken("claude", e)
    /\ \E e \in g.hooks : ~IsCommandToken("claude", e)

manualHookGroup(g) ==
    ~g.garbled /\ ~g.marked /\ \E e \in g.hooks : IsCommandToken("claude", e)

IsOurCodexEntry(e) == IsCommandToken("codex", e) /\ e.marked

isOurCodexGroup(g) == ~g.garbled /\ g.hooks # {} /\ \A e \in g.hooks : IsOurCodexEntry(e)

heldCodexGroup(g) ==
    /\ ~g.garbled
    /\ \E e \in g.hooks : IsOurCodexEntry(e)
    /\ \E e \in g.hooks : ~IsOurCodexEntry(e)

manualCodexGroup(g) ==
    ~g.garbled /\ \E e \in g.hooks : IsCommandToken("codex", e) /\ ~e.marked

IsOurs(host, g)   == IF host = "claude" THEN isOurHookGroup(g) ELSE isOurCodexGroup(g)
IsHeld(host, g)   == IF host = "claude" THEN heldHookGroup(g) ELSE heldCodexGroup(g)
IsManual(host, g) == IF host = "claude" THEN manualHookGroup(g) ELSE manualCodexGroup(g)

-----------------------------------------------------------------------------
(* Files.  An event whose key holds an array of groups is in the domain of *)
(* hooks, one whose key holds anything else in notarray.  The groups of an *)
(* event are a function on their places: what is taken out leaves the rest *)
(* where it was.  A blank file and JSON null are a file without any.       *)

States  == {"absent", "unreadable", "invalid", "hooksinvalid", "ok"}
NoHooks == [e \in {} |-> <<>>]

GroupsIn(f, e) == IF e \in DOMAIN f.hooks THEN f.hooks[e] ELSE <<>>
Places(f)      == UNION {{e} \X DOMAIN GroupsIn(f, e) : e \in Events}
GroupAt(f, p)  == GroupsIn(f, p[1])[p[2]]

(* removeHookGroups: what is left, whether a group went, or an error. *)
removeHookGroups(host, f, events) ==
    LET stay(e) == {i \in DOMAIN GroupsIn(f, e) : ~IsOurs(host, GroupsIn(f, e)[i])}
        left    == {e \in DOMAIN f.hooks : e \in events => stay(e) # {}}
    IN  [err     |-> f.state # "ok" \/ events \cap f.notarray # {},
         removed |-> \E e \in events : stay(e) # DOMAIN GroupsIn(f, e),
         file    |-> [f EXCEPT !.hooks = [e \in left |-> IF e \in events THEN Restrict(@[e], stay(e)) ELSE @[e]]]]

(* removeHookSettings, removeCodexHooks *)
RemoveOurs(host, f) == removeHookGroups(host, f, Registrations(host))

(* runHookUninstall and runHookUninstallCodex, the file that is there      *)
(* afterwards and the exit status.  Only a file a group was taken out of   *)
(* is written, and atomicWriteFile renames over it or leaves it as it was. *)
runHookUninstall(host, f, writeFails) ==
    LET r == RemoveOurs(host, f)
    IN  CASE f.state = "absent"     -> [file |-> f, ok |-> TRUE]
          [] f.state # "absent" /\ r.err -> [file |-> f, ok |-> FALSE]
          [] f.state = "ok" /\ ~r.err /\ ~r.removed -> [file |-> f, ok |-> TRUE]
          [] f.state = "ok" /\ ~r.err /\ r.removed  ->
                [file |-> IF writeFails THEN f ELSE r.file, ok |-> ~writeFails]

(* scanRegisteredHooks and scanCodexRegisteredHooks: one class per group,  *)
(* the first that fits, over every event whatever its name.                *)
ClassOf(host, g) ==
    CASE IsOurs(host, g) -> "count"
      [] ~IsOurs(host, g) /\ IsHeld(host, g) -> "held"
      [] ~IsOurs(host, g) /\ ~IsHeld(host, g) /\ IsManual(host, g) -> "manual"
      [] OTHER -> "none"

InClass(host, f, c) == {p \in Places(f) : ClassOf(host, GroupAt(f, p)) = c}

scanRegisteredHooks(host, f) ==
    [c \in {"count", "held", "manual"} |->
        IF f.state = "ok" THEN Cardinality(InClass(host, f, c)) ELSE 0]

-----------------------------------------------------------------------------
(* Reference definitions. *)

PlacesOf(host, f) ==       \* groups the host would run a command of ours from
    {p \in Places(f) : /\ ~GroupAt(f, p).garbled
                       /\ \E e \in GroupAt(f, p).hooks : IsCommandToken(host, e)}

Foreign(host, f, e) ==     \* what is not ours to take, where it is
    LET foreign(g) == g.garbled \/ g.hooks = {} \/ \E x \in g.hooks : ~IsCommandToken(host, x)
    IN  Restrict(GroupsIn(f, e), {i \in DOMAIN GroupsIn(f, e) : foreign(GroupsIn(f, e)[i])})

(* Uninstalling takes nothing of the user's: a group with an entry that is *)
(* not ours stays in its place, also when ours share it; a file nothing of *)
(* ours is in, or that cannot be read or written, is not touched; what is  *)
(* left needs no second run.  Doctor counts each group a command of ours   *)
(* runs from in exactly one class, and the class it says uninstall removes *)
(* is empty after uninstall but for events no version ever registered.     *)
(* (removeHookGroups and the six group predicates.)                        *)
UninstallSparesOthers(f) ==
    \A host \in Hosts, writeFails \in BOOLEAN :
        LET r    == runHookUninstall(host, f, writeFails)
            scan == scanRegisteredHooks(host, f)
            left == scanRegisteredHooks(host, r.file)
        IN  /\ \A e \in Events : Foreign(host, r.file, e) = Foreign(host, f, e)
            /\ f.state = "ok" => scan["count"] + scan["held"] + scan["manual"] = Cardinality(PlacesOf(host, f))
            /\ ~r.ok \/ scan["count"] = 0 => r.file = f
            /\ left["held"] = scan["held"] /\ left["manual"] = scan["manual"]
            /\ r.ok => /\ runHookUninstall(host, r.file, writeFails) = r
                       /\ f.state = "ok" => \A e \in Registrations(host) : \A i \in DOMAIN GroupsIn(r.file, e) :
                             ~IsOurs(host, GroupsIn(r.file, e)[i])
=============================================================================
