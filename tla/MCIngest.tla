------------------------------ MODULE MCIngest ------------------------------
(***************************************************************************)
(* The instance of Ingest TLC checks, and the inputs of MCAlgorithms, from *)
(* the chunks an indexed text is cut into on.  They share no state with    *)
(* the runs, so they grow only before the first of these and before any    *)
(* file is there, and all else happens only while they are empty.  The     *)
(* last append of a log is not torn.                                       *)
(***************************************************************************)
EXTENDS Ingest, MCAlgorithms

NoInput == text = <<>> /\ lines = <<>> /\ log = <<>> /\ settings = EmptySettings
NoRun   ==
    /\ \A f \in Files : content[f] = None /\ mtime[f] = 0 /\ row[f] = None
    /\ \A r \in Runs : phase[r] = "off" /\ ~ctx[r]

(* A written input is put away for the next. *)
PutAway ==
    /\ ~NoInput
    /\ text' = <<>> /\ lines' = <<>> /\ log' = <<>> /\ settings' = EmptySettings

MCNext ==
    \/ NoInput /\ Next /\ UNCHANGED inputVars
    \/ /\ NoRun /\ (InputNext \/ PutAway) /\ UNCHANGED vars
       /\ Len(log') = MaxAppends => log'[MaxAppends].cut.at = "end"

MCInit == Init /\ InputInit /\ (NoInput \/ NoRun)

MCSpec == MCInit /\ [][MCNext]_<<vars, inputVars>> /\ Fairness
=============================================================================
