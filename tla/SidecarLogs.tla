----------------------------- MODULE SidecarLogs ----------------------------
(***************************************************************************)
(* The two append-only text logs, purge.log and session.drops.log, and the *)
(* readers doctor reports them with.  An append may be torn (a crash, a    *)
(* full disk): the record stops inside a field or behind the tab that ends *)
(* one, and the next record is written on the same line.                   *)
(*                                                                         *)
(* A field is a cell that knows which append wrote it and what it looks    *)
(* like; two cells without a tab between them become one that nobody       *)
(* wrote.  A field has at most 64 bytes, so the reader's limit of 1 MiB    *)
(* per line is out of reach of a few torn appends and is left out.         *)
(***************************************************************************)
EXTENDS Integers, Sequences, FiniteSets

CONSTANTS
    MaxAppends,    \* bound: records of a log
    TailLength     \* entries doctor asks for

ASSUME LogAssumption == MaxAppends \in Nat /\ TailLength \in Nat \ {0}

(* What the fields of a record look like.  "ts" is an integer of ten       *)
(* digits.  Only the two purges of captures measure the last three fields; *)
(* a collection and a purge by hook have no policy and no cutoff, a start  *)
(* whose retention reaches beyond 1970 has no cutoff and measures nothing. *)
Layout(kind) ==
    CASE kind = "startup" -> <<"ts", "path", "policy", "ts", "status", "int", "int", "int", "int">>
      [] kind = "skipped" -> <<"ts", "path", "policy", "dash", "status", "int", "dash", "dash", "dash">>
      [] kind = "hook"    -> <<"ts", "path", "dash", "dash", "status", "int", "int", "int", "int">>
      [] kind = "older"   -> <<"ts", "path", "policy", "ts", "status", "int", "dash", "dash", "dash">>
      [] kind = "gc"      -> <<"ts", "path", "dash", "dash", "status", "int", "dash", "dash", "dash">>
      [] kind = "drop"    -> <<"ts", "reason", "text", "text", "text">>

PurgeKinds == {"startup", "skipped", "hook", "older", "gc"}

(* Where an append stops: behind n whole fields and the tab, inside field  *)
(* n + 1 (or behind it, before the tab), with few digits of it or with all *)
(* of them, or not at all.                                                 *)
Cuts(kind) ==
    LET n == Len(Layout(kind))
    IN  [at: {"tab"}, n: 1..(n - 1)] \cup [at: {"short", "long"}, n: 0..(n - 1)]
            \cup [at: {"end"}, n: {n}]

Empty        == [by |-> 0, is |-> "empty"]
Cell(i, s)   == [by |-> i, is |-> s]

(* What stays of a field that is cut inside. *)
CutCell(i, s, at) ==
    IF at = "long" THEN Cell(i, s)
    ELSE Cell(0, CASE s \in {"path", "status", "reason"} -> "junk"
                   [] s = "ts" -> "int"
                   [] OTHER -> s)

(* AppendPurgeLog and appendDrop: the cells append i leaves in the file. *)
AppendRecord(i, a) ==
    LET field == Layout(a.kind)
    IN  [k \in 1..(IF a.cut.at = "end" THEN a.cut.n ELSE a.cut.n + 1) |->
           IF k <= a.cut.n THEN Cell(i, field[k])
           ELSE IF a.cut.at = "tab" THEN Empty ELSE CutCell(i, field[k], a.cut.at)]

(* A cell that runs into the timestamp of the next record: "-" becomes its *)
(* sign, digits become more digits, too many for 64 bits when both had ten.*)
Merge(x, y) ==
    CASE x.is = "empty" -> y
      [] x.is \in {"int", "dash"} -> Cell(0, "int")
      [] x.is = "ts" -> Cell(0, IF y.is = "ts" THEN "wide" ELSE "int")
      [] x.is = "policy" -> Cell(0, "policy")
      [] OTHER -> Cell(0, "junk")

(* The first cell of y is written behind the last of x. *)
Joined(x, y) ==
    [c \in 1..(Len(x) + Len(y) - 1) |->
       IF c < Len(x) THEN x[c] ELSE IF c = Len(x) THEN Merge(x[c], y[1]) ELSE y[c - Len(x) + 1]]

(* The line each append is in, up to what that append wrote of it. *)
LineAt(log) ==
    LET at[i \in 1..Len(log)] ==
          Joined(IF i = 1 \/ log[i - 1].cut.at = "end" THEN <<Empty>> ELSE at[i - 1], AppendRecord(i, log[i]))
    IN  at

(* The lines of the file, each known by the append that ends it; the last  *)
(* one may lack its newline.                                               *)
LineEnds(log) == {i \in 1..Len(log) : i = Len(log) \/ log[i].cut.at = "end"}

-----------------------------------------------------------------------------
IsInt(c)       == c.is \in {"ts", "int"}
isDashOrInt(c) == c.is = "dash" \/ IsInt(c)
isUnixTS(c)    == c.is \in {"ts", "int", "wide"}

(* Mutant: the fields the entry counts with, and no others. *)
ParsesByCount(line) ==
    Len(line) >= 9 /\ IsInt(line[1]) /\ line[2].is = "path" /\ IsInt(line[6])

(* The conditions of purgeLogTail's loop. *)
Parses(line) ==
    /\ Len(line) >= 9
    /\ IsInt(line[1]) /\ IsInt(line[6])
    /\ line[2].is = "path" /\ line[5].is = "status"
    /\ \A k \in {4, 7, 8, 9} : isDashOrInt(line[k])

(* The entries, the newest n of the lines that parse, and the number of    *)
(* lines that do not.                                                      *)
purgeLogTail(log, n) ==
    LET line == LineAt(log)
        all  == {i \in LineEnds(log) : Parses(line[i])}
    IN  [entries  |-> {i \in all : Cardinality({j \in all : j > i}) < n},
         total    |-> Cardinality(LineEnds(log)),
         unparsed |-> Cardinality(LineEnds(log) \ all)]

(* A line counts for its reason when it has two fields or five. *)
ReasonLine(line) ==
    Len(line) \in {2, 5} /\ line[2].is # "empty" /\ isUnixTS(line[1])

(* The reasons counted, as the cells they were read from. *)
dropsByReason(log) ==
    LET line == LineAt(log)
        all  == {i \in LineEnds(log) : ReasonLine(line[i])}
    IN  [total    |-> Cardinality(LineEnds(log)),
         reasons  |-> [i \in all |-> line[i][2]],
         unparsed |-> Cardinality(LineEnds(log) \ all)]

-----------------------------------------------------------------------------
IsWhole(log, i) ==         \* record i stands on a line of its own
    log[i].cut.at = "end" /\ (i = 1 \/ log[i - 1].cut.at = "end")

(* A torn append invents nothing: what doctor reports of a purge (which    *)
(* path, under which policy, up to when, with what result) was written by  *)
(* one and the same append.  So were its numbers (how many, and the three  *)
(* fields measured), but for those that append did not come to the end of, *)
(* where the next records go on; and so was its time, unless the append    *)
(* before it stopped inside its own time, whose digits stand before it.    *)
(* The reason a drop is counted under is one an append wrote, but for a    *)
(* torn last line; and every record that stands on a line of its own is    *)
(* reported, a purge when fewer than the asked for were logged since.      *)
(* (The length condition alone does not do this: a torn line and the next  *)
(* record can have nine fields together.)                                  *)
EntriesAreWritten(log) ==
    LET line == LineAt(log) IN
    \A i \in purgeLogTail(log, TailLength).entries : \E k \in 1..i : \A c \in 1..9 :
        \/ line[i][c] = Cell(k, Layout(log[k].kind)[c])
        \/ c > 5 /\ log[k].cut.n < c
        \/ c = 1 /\ k > 1 /\ log[k - 1].cut.n = 0

WholeEntriesAreShown(log) ==
    \A i \in 1..Len(log) :
        IsWhole(log, i) /\ Len(log) - i < TailLength =>
            /\ i \in purgeLogTail(log, TailLength).entries
            /\ \A c \in 1..9 : LineAt(log)[i][c].by = i

ReasonsAreWritten(log) ==
    LET reasons == dropsByReason(log).reasons IN
    \A i \in DOMAIN reasons :
        (\E k \in 1..i : reasons[i] = Cell(k, "reason")) \/ (i = Len(log) /\ log[i].cut.at # "end")

WholeReasonsCount(log) ==
    LET reasons == dropsByReason(log).reasons IN
    \A i \in 1..Len(log) : IsWhole(log, i) => i \in DOMAIN reasons /\ reasons[i] = Cell(i, "reason")

TornLinesInventNothing(log) ==
    log # <<>> =>
        IF log[1].kind = "drop" THEN ReasonsAreWritten(log) /\ WholeReasonsCount(log)
        ELSE EntriesAreWritten(log) /\ WholeEntriesAreShown(log)
=============================================================================
