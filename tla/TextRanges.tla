----------------------------- MODULE TextRanges -----------------------------
(***************************************************************************)
(* How stored text is cut: into chunks when it is indexed (ChunkText),     *)
(* into the range a selector asks for (ReadRange), into what a byte budget *)
(* leaves of it (applyFetchBudget) and into the window of a snippet.  Off- *)
(* sets are 0-based and half-open, lines 1-based and inclusive, as in the  *)
(* code; a text is the sequence of its bytes.                              *)
(*                                                                         *)
(* Only what the cuts look at is kept of a byte: "L" starts a rune of two  *)
(* bytes, "C" continues one, "n" is a newline (the white space of a        *)
(* snippet too), "a" is any other byte.  Every text is valid UTF-8: ingest *)
(* refuses the rest.                                                       *)
(***************************************************************************)
EXTENDS Integers, Sequences, FiniteSets, FiniteSetsExt, SequencesExt, Totals

CONSTANTS
    MaxText,       \* bound: bytes of a text
    MaxLines,      \* bound: lines of a text that is chunked
    Target,        \* chunkTargetBytes
    Half           \* snippetHalf

ASSUME TextAssumption ==
    /\ {MaxText, MaxLines} \subseteq Nat
    /\ Target \in Nat \ {0} /\ Half \in Nat \ {0}

-----------------------------------------------------------------------------
(* Runes. *)

RuneStart(b) == b # "C"

(* utf8.DecodeRune at offset p: the rune's size, 0 when it is not valid. *)
DecodeRune(d, p) ==
    CASE p >= Len(d) \/ d[p + 1] = "C" -> 0
      [] d[p + 1] = "L" -> IF p + 1 < Len(d) /\ d[p + 2] = "C" THEN 2 ELSE 0
      [] OTHER -> 1

(* The loop that goes back to the start of a rune. *)
Back(d, p) ==
    IF p >= Len(d) THEN p ELSE Max({q \in 0..p : q = 0 \/ RuneStart(d[q + 1])})

(* The loop that takes whole runes as long as they fit before end. *)
Forward(d, start, end) ==
    LET pos[p \in 0..Len(d)] ==
          LET size == DecodeRune(d, p) IN
          IF p >= end \/ size = 0 \/ p + size > end THEN p ELSE pos[p + size]
    IN  pos[start]

Clamp(x, lo, hi) == IF x < lo THEN lo ELSE IF x > hi THEN hi ELSE x

snapUTF8(d, start, end) ==
    LET s == Clamp(start, 0, Len(d))
        b == Back(d, s)
    IN  <<b, Forward(d, b, IF end < s THEN s ELSE Clamp(end, 0, Len(d)))>>

snapWindow(d, start, end) == <<Back(d, start), Forward(d, Back(d, start), end)>>

(* capBytes and truncateUTF8: the length that is kept. *)
CapBytes(d, n) == IF Len(d) <= n THEN Len(d) ELSE Back(d, n)

Slice(d, lo, hi) == SubSeq(d, lo + 1, hi)
Valid(d)         == Forward(d, 0, Len(d)) = Len(d)

-----------------------------------------------------------------------------
(* Lines and selectors. *)

Newlines(d) == {i \in 1..Len(d) : d[i] = "n"}

countLines(d) ==
    IF d = <<>> THEN 0
    ELSE 1 + Cardinality(Newlines(d)) - (IF Last(d) = "n" THEN 1 ELSE 0)

(* Where the lines of d start; behind a last newline starts an empty one.  *)
starts(d) ==
    LET to[i \in 0..Len(d)] ==
          IF i = 0 THEN <<0>> ELSE IF d[i] = "n" THEN Append(to[i - 1], i) ELSE to[i - 1]
    IN  to[Len(d)]

lineByteRange(d, lineStart, lineEnd) ==
    LET lo    == Max({lineStart, 1})
        begin == starts(d)[lo]
        end   == IF lineEnd < Len(starts(d)) THEN starts(d)[lineEnd + 1] ELSE Len(d)
    IN  IF lo > Len(starts(d)) THEN <<Len(d), Len(d)>> ELSE <<begin, Max({begin, end})>>

(* selectorFromInput: which fields are given decides the kind, or none. *)
SelectorKind(given) ==
    LET kinds == {k \in {"chunk", "line", "byte"} :
                    given \cap (CASE k = "chunk" -> {"chunk_id"}
                                  [] k = "line" -> {"line_start", "line_end"}
                                  [] k = "byte" -> {"byte_start", "byte_end"}) # {}}
        half  == \E pair \in {{"line_start", "line_end"}, {"byte_start", "byte_end"}} :
                    Cardinality(given \cap pair) = 1
    IN  IF half \/ Cardinality(kinds) # 1 THEN "invalid" ELSE CHOOSE k \in kinds : TRUE

LineSelectorOK(d, s, e) == s >= 1 /\ e >= s /\ s <= countLines(d) /\ e <= countLines(d)
ByteSelectorOK(d, s, e) == s >= 0 /\ e > s /\ s < Len(d) /\ e <= Len(d)

(* What ReadRange returns for an accepted selector; a byte range has no lines. *)
ReadLines(d, s, e) ==
    LET r == lineByteRange(d, s, e)
    IN  [start |-> r[1], end |-> r[2], lineStart |-> s, lineEnd |-> e]
ReadBytes(d, s, e) ==
    LET r == snapUTF8(d, s, e)
    IN  [start |-> r[1], end |-> r[2], lineStart |-> 0, lineEnd |-> 0]

(* Mutant: a cut behind a newline counts the line that has not begun. *)
ApplyFetchBudgetOneMore(d, res, max) ==
    LET n   == CapBytes(Slice(d, res.start, res.end), max)
        cut == Slice(d, res.start, res.start + n)
    IN  [res EXCEPT !.end = res.start + n,
                    !.lineEnd = IF res.end - res.start <= max \/ res.lineStart = 0 THEN @
                                ELSE res.lineStart + Cardinality(Newlines(cut))]

(* applyFetchBudget: the end and the last line of what is really returned. *)
ApplyFetchBudget(d, res, max) ==
    LET n   == CapBytes(Slice(d, res.start, res.end), max)
        cut == Slice(d, res.start, res.start + n)
        nl  == Cardinality(Newlines(cut)) - (IF cut # <<>> /\ Last(cut) = "n" THEN 1 ELSE 0)
    IN  [res EXCEPT !.end = res.start + n,
                    !.lineEnd = IF res.end - res.start <= max \/ res.lineStart = 0 THEN @
                                ELSE res.lineStart + nl]

-----------------------------------------------------------------------------
(* snippetWindow around a token that matches at idx. *)

Spaces(d, lo, hi) == {i \in lo..(hi - 1) : d[i + 1] = "n"}

SnippetWindow(d, idx) ==
    LET lo    == idx - Half
        hi    == idx + Half
        start == IF lo <= 0 THEN 0
                 ELSE IF Spaces(d, lo, idx) # {} THEN Min(Spaces(d, lo, idx)) + 1 ELSE lo
        end   == IF hi >= Len(d) THEN Len(d)
                 ELSE IF Spaces(d, idx, hi) # {} THEN Max(Spaces(d, idx, hi)) ELSE hi
    IN  snapWindow(d, start, end)

-----------------------------------------------------------------------------
(* ChunkText, on lines: each has a length and may be a heading. *)

Line == [len: Nat \ {0}, heading: BOOLEAN]

offsets(lines, j)  == Total([k \in DOMAIN lines |-> lines[k].len], j)
Bytes(lines, i, j) == offsets(lines, j) - offsets(lines, i - 1)

(* Where a chunk starts: its first line, whether that was in the chunk     *)
(* before it too, and the line of the last heading so far, 0 when none.    *)
FirstStart == [line |-> 1, overlap |-> FALSE, title |-> 0]

(* The line before which a chunk is cut: a heading, or the line that would *)
(* pass the target, but never before the chunk has a line the one before   *)
(* it has not.                                                             *)
CutAt(lines, at, j) ==
    /\ ~at.overlap \/ j >= at.line + 2
    /\ lines[j].heading \/ Bytes(lines, at.line, j) > Target

CutLine(lines, at) ==
    Min({j \in (at.line + 1)..(Len(lines) + 1) : j = Len(lines) + 1 \/ CutAt(lines, at, j)})

LastHeading(lines, i, j, none) ==
    LET hs == {k \in i..j : lines[k].heading} IN IF hs = {} THEN none ELSE Max(hs)

(* Mutant: the heading becomes the title of the next chunk, which starts behind it. *)
NextStartBehindHeading(lines, at) ==
    LET end   == CutLine(lines, at)
        back  == ~lines[end].heading /\ end - at.line > 1
        title == LastHeading(lines, at.line, Min({end, Len(lines)}), at.title)
        next  == IF back THEN end - 1 ELSE IF lines[end].heading THEN end + 1 ELSE end
    IN  IF end > Len(lines) THEN at
        ELSE [line |-> Min({next, Len(lines)}), overlap |-> back, title |-> title]

(* Where the next chunk starts: one line earlier, unless at a heading or   *)
(* behind a chunk of one line.                                             *)
NextStart(lines, at) ==
    LET end   == CutLine(lines, at)
        back  == ~lines[end].heading /\ end - at.line > 1
        title == LastHeading(lines, at.line, end - 1, at.title)
    IN  IF end > Len(lines) THEN at
        ELSE [line |-> IF back THEN end - 1 ELSE end, overlap |-> back, title |-> title]

(* A chunk: its lines, its bytes and the line of its title. *)
ChunkAt(lines, at) ==
    LET end == CutLine(lines, at)
    IN  [lineStart |-> at.line, lineEnd |-> end - 1,
         start |-> offsets(lines, at.line - 1), end |-> offsets(lines, end - 1),
         title |-> IF lines[at.line].heading THEN at.line ELSE at.title]

(* Every chunk adds a line: there are not more of them than lines.         *)
ChunkStarts(lines) ==
    LET at[k \in 1..Len(lines)] == IF k = 1 THEN FirstStart ELSE NextStart(lines, at[k - 1])
    IN  at

ChunkText(lines) ==
    LET at   == ChunkStarts(lines)
        last == Min({k \in 1..Len(lines) : CutLine(lines, at[k]) = Len(lines) + 1})
    IN  IF lines = <<>> THEN <<>> ELSE [k \in 1..last |-> ChunkAt(lines, at[k])]

-----------------------------------------------------------------------------
(* Properties. *)

LineOf(d, p) == 1 + Cardinality({i \in Newlines(d) : i <= p})   \* line of the byte at p

(* What a cut returns is what it says it returns.  A fetch gives whole     *)
(* runes, the bytes from start to end, of the lines lineStart to lineEnd   *)
(* and no other, also when the budget cuts a rune, a line or the whole     *)
(* range away; an uncut line range holds every byte of its lines; two byte *)
(* ranges that meet in the middle of a rune return parts that meet, with-  *)
(* out a gap and without a byte twice.  A snippet shows the token it was   *)
(* cut around, in whole runes, whenever the token is not longer than half  *)
(* a window.  (ReadRange, snapUTF8, applyFetchBudget, snippetWindow.)      *)
LinesAreExact(d, s, e, max) ==
    LET whole == ReadLines(d, s, e)
        r     == ApplyFetchBudget(d, whole, max)
        cut   == Slice(d, r.start, r.end)
    IN  /\ \A p \in 0..(Len(d) - 1) :
              LineOf(d, p) \in s..e <=> p \in whole.start..(whole.end - 1)
        /\ Valid(cut) /\ Len(cut) <= max
        /\ cut # <<>> => LineOf(d, r.start) = r.lineStart /\ LineOf(d, r.end - 1) = r.lineEnd
        /\ r.end < whole.end => max < DecodeRune(d, r.end) + Len(cut)

BytesMeet(d, a, b, c) ==
    /\ Valid(Slice(d, ReadBytes(d, a, b).start, ReadBytes(d, a, b).end))
    /\ ReadBytes(d, a, b).end = ReadBytes(d, b, c).start

SnippetShowsToken(d, idx, len) ==
    LET w == SnippetWindow(d, idx)
    IN  w[1] <= idx /\ idx + len <= w[2] /\ Valid(Slice(d, w[1], w[2]))

IsToken(d, idx, len) ==
    LET t == Slice(d, idx, idx + len)
    IN  idx + len <= Len(d) /\ RuneStart(d[idx + 1]) /\ Valid(t) /\ Newlines(t) = {}

CutsAreExact(d) ==
    /\ \A s, e \in 0..(MaxText + 1), max \in 1..MaxText :
          LineSelectorOK(d, s, e) => LinesAreExact(d, s, e, max)
    /\ \A a, b, c \in 0..Len(d) :
          ByteSelectorOK(d, a, b) /\ ByteSelectorOK(d, b, c) => BytesMeet(d, a, b, c)
    /\ \A idx \in 0..(Len(d) - 1), len \in 1..Half :
          IsToken(d, idx, len) => SnippetShowsToken(d, idx, len)

(* The chunks of a text hold all of it and nothing but: they follow one    *)
(* another without a gap, each adds a line to the one before and repeats   *)
(* at most one of its lines, none is over the target but for a line it     *)
(* could not do without, and each carries the heading its first line is    *)
(* under.  (ChunkText and its progress rule.)                              *)
ChunksCoverTheText(lines) ==
    lines # <<>> =>
        LET cs == ChunkText(lines) IN
        /\ cs[1].start = 0 /\ Last(cs).end = offsets(lines, Len(lines))
        /\ \A i \in 1..Len(cs) :
              /\ cs[i].end - cs[i].start > Target =>
                    cs[i].lineEnd - cs[i].lineStart <= IF i > 1 /\ cs[i - 1].lineEnd = cs[i].lineStart THEN 1 ELSE 0
              /\ cs[i].title = LastHeading(lines, 1, cs[i].lineStart, 0)
        /\ \A i \in 1..(Len(cs) - 1) :
              /\ cs[i + 1].lineStart \in {cs[i].lineEnd, cs[i].lineEnd + 1}
              /\ cs[i + 1].lineEnd > cs[i].lineEnd
              /\ cs[i + 1].start <= cs[i].end /\ cs[i + 1].end > cs[i].end
=============================================================================
