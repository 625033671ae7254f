---------------------------- MODULE MCAlgorithms ----------------------------
(***************************************************************************)
(* Every small input of the pure algorithms: a text is written rune by     *)
(* rune, a text to be chunked line by line, a settings file group by       *)
(* group, a log append by append, and every input on the way is one state. *)
(* One kind of input grows at a time: they have nothing to do with each    *)
(* other.                                                                  *)
(***************************************************************************)
EXTENDS TextRanges, HookSettings, SidecarLogs

VARIABLES text, lines, settings, log

inputVars == <<text, lines, settings, log>>

EmptySettings == [state |-> "ok", notarray |-> {}, hooks |-> NoHooks]

InputInit ==
    /\ text = <<>> /\ lines = <<>> /\ log = <<>>
    /\ settings \in {[EmptySettings EXCEPT !.state = s] : s \in States}

Only(input) ==
    /\ input # "text" => text = <<>> /\ UNCHANGED text
    /\ input # "lines" => lines = <<>> /\ UNCHANGED lines
    /\ input # "settings" => settings = EmptySettings /\ UNCHANGED settings
    /\ input # "log" => log = <<>> /\ UNCHANGED log

WriteRune ==
    /\ Only("text")
    /\ \E rune \in {<<"a">>, <<"n">>, <<"L", "C">>} :
          Len(text \o rune) <= MaxText /\ text' = text \o rune

WriteLine ==
    /\ Only("lines") /\ Len(lines) < MaxLines
    /\ \E line \in [len: 1..(Target + 1), heading: BOOLEAN] : lines' = Append(lines, line)

WriteGroup ==
    /\ Only("settings") /\ settings.state = "ok"
    /\ Cardinality(Places(settings)) < MaxGroups
    /\ \E e \in Events \ settings.notarray, g \in Groups :
          settings' = [settings EXCEPT !.hooks =
                         [x \in DOMAIN @ \cup {e} |-> IF x = e THEN Append(GroupsIn(settings, e), g) ELSE @[x]]]

SpoilEvent ==
    /\ Only("settings") /\ settings.state = "ok" /\ settings.notarray = {}
    /\ \E e \in Events \ DOMAIN settings.hooks : settings' = [settings EXCEPT !.notarray = {e}]

(* Of the purges, the two that differ in every field that differs at all.  *)
WriteLog ==
    /\ Only("log") /\ Len(log) < MaxAppends
    /\ \E kind \in {"startup", "gc", "drop"}, torn \in BOOLEAN :
          /\ log # <<>> => (log[1].kind = "drop" <=> kind = "drop")
          /\ \E cut \in {c \in Cuts(kind) : torn <=> c.at # "end"} :
                log' = Append(log, [kind |-> kind, cut |-> cut])

InputNext == WriteRune \/ WriteLine \/ WriteGroup \/ SpoilEvent \/ WriteLog

InputSpec == InputInit /\ [][InputNext]_inputVars

(* Fetched ranges and snippets of the text are what they say they are. *)
TextCutsAreExact == CutsAreExact(text)

(* The chunks of the lines hold all of them, in order, without a gap. *)
TextChunksCover == ChunksCoverTheText(lines)

(* `hook uninstall` takes nothing of the user's out of the settings, and   *)
(* doctor counts every group that runs one of our commands once.           *)
SettingsAreSpared == UninstallSparesOthers(settings)

(* Torn appends make doctor report no purge and no drop that was not.      *)
LogInventsNothing == TornLinesInventNothing(log)
=============================================================================
