--------------------------- MODULE MCHookHandler ----------------------------
EXTENDS HookHandler, TLC

CONSTANTS h1, h2

Base == [gate |-> "ok", session |-> "s", event |-> "PostToolUse", tool |-> "Write",
         host |-> "cc", compact |-> FALSE, whole |-> FALSE, file |-> None,
         named |-> TRUE, pattern |-> "tool_call", body |-> "skip"]

Off     == [Base EXCEPT !.gate = "hooks-off"]
Bad     == [Base EXCEPT !.gate = "bad-cwd"]
Start   == [Base EXCEPT !.event = "SessionStart"]
Compact == [Start EXCEPT !.compact = TRUE]
Grep    == [Base EXCEPT !.event = "PreToolUse", !.tool = "Grep", !.whole = TRUE]
Read    == [Grep EXCEPT !.tool = "Read", !.file = CHOOSE f \in Files : TRUE]
Text    == [Base EXCEPT !.tool = "Bash", !.pattern = "test_run", !.body = "text"]
Big     == [Base EXCEPT !.body = "oversize"]
Denied  == [Base EXCEPT !.body = "denied", !.named = FALSE]
Failure == [Base EXCEPT !.event = "PostToolUseFailure"]

(* Pairs of calls that meet in a file, a lock or a row. *)
MCScenarios ==
    {(h1 :> p[1]) @@ (h2 :> p[2]) :
        p \in {<<Compact, Text>>, <<Read, Read>>, <<Read, Text>>, <<Start, Grep>>,
               <<Failure, Big>>, <<Denied, Start>>, <<Off, Bad>>}}
=============================================================================
