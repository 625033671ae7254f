---------------------------- MODULE FetchRecord -----------------------------
(***************************************************************************)
(* What the savings ledger promises about ctr_fetch: the log of outcomes   *)
(* that LedgerFetchStats reads back.  A call that ended may be recorded    *)
(* once or not at all; what is recorded may say less than what happened,   *)
(* never something else; and what the log says of a call never changes     *)
(* afterwards, whatever happens to the schema of the table.                *)
(***************************************************************************)
EXTENDS Integers, Sequences

CONSTANTS
    Procs,   \* processes that record fetches
    Arts,    \* artifact ids
    Ages     \* ages in seconds; an age is never negative

VARIABLES
    log,     \* what a reader makes of the rows, in the order of their ids
    pending  \* the outcome of the call each process is about to record

vars == <<log, pending>>

Nothing     == <<"nothing">>
Legacy      == <<"legacy">>
Other       == <<"other">>
Missed      == <<"missed">>
Resolved(a) == <<"resolved", a>>
Shadow(a, age) == <<"shadow", a, age>>

Outcomes == {Missed} \cup {Resolved(a) : a \in Arts}
                     \cup {Shadow(a, age) : a \in Arts, age \in Ages}

(* A resolved fetch of shadow content may be counted without its age, and  *)
(* every outcome may be left unmeasured: an undercount, never a false one. *)
Understates(o) ==
    {o, Legacy} \cup (IF o[1] = "shadow" THEN {Resolved(o[2])} ELSE {})

Init == log = <<>> /\ pending = [p \in Procs |-> Nothing]

Learn(p) ==
    /\ pending[p] = Nothing
    /\ \E o \in Outcomes : pending' = [pending EXCEPT ![p] = o]
    /\ UNCHANGED log

Record(p) ==
    /\ pending[p] # Nothing
    /\ \E r \in Understates(pending[p]) : log' = Append(log, r)
    /\ pending' = [pending EXCEPT ![p] = Nothing]

Forget(p) ==
    /\ pending' = [pending EXCEPT ![p] = Nothing]
    /\ UNCHANGED log

(* A call of another tool, or a fetch that a binary from before the fetch  *)
(* columns records without its outcome.                                    *)
RecordBlind == (\E r \in {Legacy, Other} : log' = Append(log, r)) /\ UNCHANGED pending

Next == RecordBlind \/ \E p \in Procs : Learn(p) \/ Record(p) \/ Forget(p)

Spec == Init /\ [][Next]_vars
=============================================================================
