----------------------------- MODULE MCCommands -----------------------------
(***************************************************************************)
(* Two components that share no state in one run: one of them moves only   *)
(* where the other is at its initial state.                                *)
(*                                                                         *)
(* PurgeCommand: a project with two worktrees and one with none; every     *)
(* request the flags can spell, for one project and for all, and one that  *)
(* is refused.  Search: two contents, one of two chunks, four kinds of     *)
(* text, a short and a long token, and calls with one and two queries.     *)
(***************************************************************************)
EXTENDS PurgeCommand, Search, TLC

CONSTANTS p1, p2, both, stem, long, other, u1, u2

MCProjectOf == [w \in Worktrees |-> p1]
Flags       == [project : {p1, "all"}, older : BOOLEAN, gc : BOOLEAN, sessions : BOOLEAN,
                vacuum : BOOLEAN, hookOnly : BOOLEAN]
MCRequests  == {q \in Flags : ~Refused(q)} \cup
               {[project |-> "all", older |-> FALSE, gc |-> FALSE, sessions |-> FALSE, vacuum |-> TRUE, hookOnly |-> FALSE]}

MCContents == {<<both, long>>, <<stem>>, <<other>>}
MCEventTexts == {both}
MCLiteral == both :> {"go", "store"} @@ stem :> {} @@ long :> {"store"} @@ other :> {}
MCStems   == both :> {"go", "store"} @@ stem :> {"go", "store"} @@ long :> {"store"} @@ other :> {}
MCSize    == both :> 2 @@ stem :> 3 @@ long :> 1 @@ other :> 1

MCCalls ==
    {[queries |-> <<{"go", "store"}>>, scope |-> "content", limit |-> 2, budget |-> 4],
     [queries |-> <<{"store"}, {"go"}>>, scope |-> "content", limit |-> 2, budget |-> 5],
     [queries |-> <<{"store"}>>, scope |-> "all", limit |-> 1, budget |-> 4],
     [queries |-> <<{"go", "store"}>>, scope |-> "events", limit |-> 1, budget |-> 1]}

NoPurge  == dir = {} /\ turns = 0 /\ cmd.pc = "idle"
NoSearch == ops = 0 /\ call = NoCall /\ fetch = NoFetch

(* A command that has ended is the one thing that may stay as it is.       *)
Ended == cmd.pc = "exit" /\ UNCHANGED <<purgeVars, searchVars>>

CommandsNext ==
    \/ NoSearch /\ PurgeNext /\ UNCHANGED searchVars
    \/ NoPurge /\ SearchNext /\ UNCHANGED purgeVars
    \/ Ended

CommandsInit == PurgeInit /\ SearchInit

CommandsSpec == CommandsInit /\ [][CommandsNext]_<<purgeVars, searchVars>>

(* The worktrees are told apart by nothing. *)
AnyOrder == Permutations(Worktrees)
=============================================================================
