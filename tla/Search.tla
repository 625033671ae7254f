------------------------------- MODULE Search -------------------------------
(***************************************************************************)
(* ctr_search and the ctr_fetch that follows it, beside everything that    *)
(* changes the rows meanwhile.  A search is a series of statements, each a *)
(* snapshot of its own: for every query the two full-text indexes are      *)
(* ranked, the short tokens are looked for in the texts, the ranks are     *)
(* merged and the rows of the best are loaded; between any two of them     *)
(* another process indexes, indexes again, purges or sweeps.  A row id     *)
(* that is ranked may belong to another row when it is loaded: the ids of  *)
(* chunks and events are the largest plus one, those of artifacts are      *)
(* issued from a watermark.                                                *)
(*                                                                         *)
(* A text is what the queries can see of it: the tokens it holds literally *)
(* and the ones it holds as word stems, and the bytes of its snippet.      *)
(* bm25 is any order of the rows that match.                               *)
(***************************************************************************)
EXTENDS ContentRows, Integers, Sequences, FiniteSets, FiniteSetsExt, Functions, Totals

CONSTANTS
    EventTexts,    \* summaries of session events
    Literal,       \* tokens a text holds literally
    Stems,         \* tokens a text holds as stems
    Size,          \* bytes of a text's snippet
    ShortTokens,   \* tokens of less than three runes
    Calls,         \* the calls a client makes: queries, scope, limit, budget
    MaxOps         \* bound: changes of the rows

ASSUME SearchAssumption ==
    /\ MaxOps \in Nat
    /\ Size \in [DOMAIN Size -> Nat]              \* every text has one
    /\ EventTexts \subseteq DOMAIN Size
    /\ \A content \in Contents : content \in Seq(DOMAIN Size)   \* its chunk texts
    /\ \A c \in Calls : /\ c.limit \in 1..10 /\ c.budget \in Nat \ {0}
                        /\ Len(c.queries) \in 1..8
                        /\ c.scope \in {"content", "events", "all"}

VARIABLES
    chunks,        \* id -> the artifact and the chunk of it
    events,        \* id -> text
    call,          \* the search in progress
    fetch,         \* the fetch of one of its hits
    reissued,      \* row ids that were given out again during the search
    ops

rows == <<contentRows, chunks, events>>
searchVars == <<rows, call, fetch, reissued, ops>>

NoCall  == [pc |-> "idle"]
NoFetch == [pc |-> "idle"]

NextRow(table) == 1 + Max({0} \cup DOMAIN table)     \* INTEGER PRIMARY KEY
TextOf(row)    == artifacts[row.artifact][row.ordinal]

SearchInit ==
    /\ RowsInit
    /\ chunks = [i \in {} |-> <<>>] /\ events = [i \in {} |-> 0]
    /\ call = NoCall /\ fetch = NoFetch /\ reissued = {} /\ ops = 0

-----------------------------------------------------------------------------
(* What changes the rows. *)

Change == ops < MaxOps /\ ops' = ops + 1 /\ UNCHANGED <<call, fetch>>

(* Register: a new artifact brings its chunks. *)
Register(uri, content) ==
    LET first == NextRow(chunks)
        new   == IF Known(content) = {} THEN first..(first + Len(content) - 1) ELSE {}
    IN  \E id \in IdsFor(content) :
            /\ Change
            /\ SaveAs(id, uri, content)
            /\ chunks' = [c \in DOMAIN chunks \cup new |->
                            IF c \in new THEN [artifact |-> id, ordinal |-> c - first + 1] ELSE chunks[c]]
            /\ reissued' = reissued \cup (new \X {"content"})
            /\ UNCHANGED events

(* The chunks of the artifacts that go, go in the same transaction. *)
KeepChunksOf(left) ==
    /\ chunks' = Restrict(chunks, {c \in DOMAIN chunks : chunks[c].artifact \in left})
    /\ UNCHANGED <<events, reissued>>

PurgeOlderThan(old) == Change /\ PurgeSources(old) /\ KeepChunksOf(DOMAIN artifacts')

(* Which artifacts are shadow captures is a matter of ContentStore; here it *)
(* may be any.                                                             *)
PurgeHookRows(ids) == Change /\ ids # {} /\ PurgeArtifacts(ids) /\ KeepChunksOf(DOMAIN artifacts')

AppendEvent(text) ==
    /\ Change
    /\ events' = [i \in DOMAIN events \cup {NextRow(events)} |-> IF i = NextRow(events) THEN text ELSE events[i]]
    /\ reissued' = reissued \cup {<<NextRow(events), "events">>}
    /\ UNCHANGED <<contentRows, chunks>>

SweepEvent(i) ==
    /\ Change /\ i \in DOMAIN events
    /\ events' = Restrict(events, DOMAIN events \ {i})
    /\ UNCHANGED <<contentRows, chunks, reissued>>

-----------------------------------------------------------------------------
(* The rows a statement of the search can see: chunks whose artifact some  *)
(* source names, or the events.                                            *)

HasSource(a) == \E u \in DOMAIN sources : sources[u] = a

Seen(table) ==
    IF table = "events" THEN events
    ELSE [c \in {x \in DOMAIN chunks : HasSource(chunks[x].artifact)} |-> TextOf(chunks[c])]

Query        == call.queries[call.i]
Step(new)    == call' = new /\ UNCHANGED <<rows, fetch, reissued, ops>>

(* A ranking gives each of its rows its place, from 1.                     *)
Rankings(S)   == {rank \in [S -> 1..Cardinality(S)] : IsInjective(rank)}
Take(rank, n) == Restrict(rank, {r \in DOMAIN rank : rank[r] <= n})
NoRanking     == [r \in {} |-> 0]

(* normalizeQuery: porter takes every token, trigram the long ones. *)
PorterMatch(text, q)  == q # {} /\ q \subseteq Stems[text]
TrigramMatch(text, q) == q \ ShortTokens # {} /\ q \ ShortTokens \subseteq Literal[text]

(* registerSearch: the content is searched first, unless only events are   *)
(* asked for.                                                              *)
SearchStart(c) ==
    /\ call.pc \in {"idle", "done", "failed"} /\ fetch.pc = "idle"
    /\ call' = [pc |-> "porter", table |-> IF c.scope = "events" THEN "events" ELSE "content", i |-> 1,
                queries |-> c.queries, scope |-> c.scope, limit |-> c.limit, budget |-> c.budget,
                avail |-> c.budget, porter |-> NoRanking, trigram |-> NoRanking, top |-> {},
                hits |-> <<>>, results |-> <<>>]
    /\ reissued' = {} /\ UNCHANGED <<rows, fetch, ops>>

(* bm25Rank and bm25RankEvents, of the porter and of the trigram index. *)
RankPorter ==
    /\ call.pc = "porter"
    /\ LET rowsOf == Seen(call.table)
       IN  \E rank \in Rankings({r \in DOMAIN rowsOf : PorterMatch(rowsOf[r], Query)}) :
              Step([call EXCEPT !.pc = "trigram", !.porter = Take(rank, 4 * call.limit)])

RankTrigram ==
    /\ call.pc = "trigram"
    /\ LET rowsOf == Seen(call.table)
       IN  \E rank \in Rankings({r \in DOMAIN rowsOf : TrigramMatch(rowsOf[r], Query)}) :
              Step([call EXCEPT !.pc = "filter", !.trigram = Take(rank, 4 * call.limit)])

(* The texts filterShortTokenCandidates reads: those of the table, whether *)
(* a source names them or not.                                             *)
RowTexts ==
    IF call.table = "events" THEN events ELSE [c \in DOMAIN chunks |-> TextOf(chunks[c])]

(* Mutant: candidates are taken as the trigram index gives them. *)
filterShortTokenCandidatesNone(rank) == rank

(* What is left of the candidates moves up. *)
filterShortTokenCandidates(rank) ==
    LET kept == {r \in DOMAIN rank : /\ r \in DOMAIN RowTexts
                                    /\ Query \cap ShortTokens \subseteq Literal[RowTexts[r]]}
    IN  IF Query \cap ShortTokens = {} THEN rank
        ELSE [r \in kept |-> Cardinality({x \in kept : rank[x] <= rank[r]})]

(* rrfMerge: 1/(60 + rank) for each list, as a fraction. *)
Score(r, porter, trigram) ==
    LET inP == r \in DOMAIN porter
        inT == r \in DOMAIN trigram
        p   == 60 + porter[r]
        t   == 60 + trigram[r]
    IN  CASE inP /\ inT  -> [num |-> p + t, den |-> p * t]
          [] inP /\ ~inT -> [num |-> 1, den |-> p]
          [] OTHER       -> [num |-> 1, den |-> t]

(* The order of the sort: the better score first, the smaller id first     *)
(* when they are equal.                                                    *)
Before(x, y, porter, trigram) ==
    LET a == Score(x, porter, trigram)
        b == Score(y, porter, trigram)
    IN  \/ a.num * b.den > b.num * a.den
        \/ a.num * b.den = b.num * a.den /\ x < y

topN(porter, trigram, n) ==
    LET merged == DOMAIN porter \cup DOMAIN trigram
    IN  {r \in merged : Cardinality({x \in merged : Before(x, r, porter, trigram)}) < n}

FilterAndMerge ==
    /\ call.pc = "filter"
    /\ LET t == filterShortTokenCandidates(call.trigram)
       IN  Step([call EXCEPT !.pc = "load", !.trigram = t, !.top = topN(call.porter, t, call.limit), !.hits = <<>>])

(* loadHit and loadEventHit, the best row first: a row that is gone is     *)
(* skipped.                                                                *)
LoadHit ==
    /\ call.pc = "load"
    /\ \E r \in call.top :
          /\ \A x \in call.top \ {r} : Before(r, x, call.porter, call.trigram)
          /\ LET hit == [row |-> r, text |-> Seen(call.table)[r],
                         artifact |-> IF call.table = "content" THEN chunks[r].artifact ELSE 0]
             IN  Step([call EXCEPT !.top = @ \ {r},
                                   !.hits = IF r \in DOMAIN Seen(call.table) THEN Append(@, hit) ELSE @])

(* Of the first n hits, and of them all. *)
BytesTo(hits, n)        == Total([k \in DOMAIN hits |-> Size[hits[k].text]], n)
contentBudgetUsed(hits) == BytesTo(hits, Len(hits))

(* applyBudget, and the loop over the summaries in queryEventSection: as   *)
(* many hits as fit, from the front.                                       *)
applyBudget(hits, share) ==
    LET fit == {k \in 0..Len(hits) : BytesTo(hits, k) <= share}
    IN  SubSeq(hits, 1, Max({k \in fit : \A j \in 0..k : j \in fit}))

(* Mutant: what is left is divided by all queries, not by those to come. *)
ShareOfAll == IF call.table = "events" THEN call.avail ELSE call.avail \div Len(call.queries)

(* Of the content each query to come has an equal part of what is left;    *)
(* the events take what they find, in the order of the queries.            *)
Share ==
    IF call.table = "events" THEN call.avail ELSE call.avail \div (Len(call.queries) - call.i + 1)

(* The end of one query: the budget is applied, and the next query, the    *)
(* events, or the client is next.                                          *)
QueryDone ==
    /\ call.pc = "load" /\ call.top = {}
    /\ LET kept   == applyBudget(call.hits, Share)
           result == [table |-> call.table, i |-> call.i, found |-> call.hits, hits |-> kept,
                      truncated |-> Len(kept) < Len(call.hits)]
           last   == call.i = Len(call.queries)
           next   == [call EXCEPT !.results = Append(@, result), !.avail = @ - contentBudgetUsed(kept), !.hits = <<>>]
       IN  CASE ~last -> Step([next EXCEPT !.pc = "porter", !.i = @ + 1])
             [] last /\ call.table = "content" /\ call.scope = "all" ->
                  Step([next EXCEPT !.pc = "porter", !.i = 1, !.table = "events"])
             [] OTHER -> Step([next EXCEPT !.pc = "done"])

(* Any statement may fail; the client gets an error and no result. *)
SearchFails ==
    /\ call.pc \in {"porter", "trigram", "filter"} \/ (call.pc = "load" /\ call.top # {})
    /\ Step([call EXCEPT !.pc = "failed", !.results = <<>>])

-----------------------------------------------------------------------------
(* registerFetch for a hit of a finished search: ReadRange reads the arti- *)
(* fact's row, then readChunk the chunk's.                                 *)

ContentHits == UNION {Range(call.results[k].hits) : k \in {j \in DOMAIN call.results : call.results[j].table = "content"}}

FetchArtifact(hit) ==
    /\ call.pc = "done" /\ fetch.pc = "idle" /\ hit \in ContentHits
    /\ fetch' = IF hit.artifact \in DOMAIN artifacts
                THEN [pc |-> "chunk", hit |-> hit, content |-> artifacts[hit.artifact]]
                ELSE [pc |-> "done", hit |-> hit, text |-> "not found"]
    /\ UNCHANGED <<rows, call, reissued, ops>>

FetchChunk ==
    /\ fetch.pc = "chunk"
    /\ LET id == fetch.hit.row
       IN  fetch' = [pc |-> "done", hit |-> fetch.hit,
                     text |-> IF id \notin DOMAIN chunks THEN "not found"
                              ELSE IF chunks[id].artifact # fetch.hit.artifact THEN "invalid selector"
                              ELSE fetch.content[chunks[id].ordinal]]
    /\ UNCHANGED <<rows, call, reissued, ops>>

(* The blob of the content cannot be read any more, or a statement fails. *)
FetchFails ==
    /\ fetch.pc = "chunk"
    /\ fetch' = [pc |-> "done", hit |-> fetch.hit, text |-> "not found"]
    /\ UNCHANGED <<rows, call, reissued, ops>>

FetchEnd ==
    /\ fetch.pc = "done" /\ fetch' = NoFetch
    /\ call' = NoCall /\ reissued' = {} /\ UNCHANGED <<rows, ops>>

-----------------------------------------------------------------------------
SearchNext ==
    \/ \E u \in URIs, c \in Contents : Register(u, c)
    \/ \E old \in SUBSET DOMAIN sources : PurgeOlderThan(old)
    \/ \E ids \in SUBSET DOMAIN artifacts : PurgeHookRows(ids)
    \/ \E t \in EventTexts : AppendEvent(t)
    \/ \E i \in DOMAIN events : SweepEvent(i)
    \/ \E c \in Calls : SearchStart(c)
    \/ RankPorter \/ RankTrigram \/ FilterAndMerge \/ LoadHit \/ QueryDone \/ SearchFails
    \/ (call.pc = "done" /\ \E hit \in ContentHits : FetchArtifact(hit))
    \/ FetchChunk \/ FetchFails \/ FetchEnd

SearchSpec == SearchInit /\ [][SearchNext]_searchVars

-----------------------------------------------------------------------------
(* Properties. *)

(* A fetch by the ids of a hit returns the text the hit showed, or an      *)
(* error; never another text, although chunk ids are given out again and   *)
(* the artifact and the chunk are read in two statements.                  *)
FetchReturnsTheHit ==
    fetch.pc = "done" => fetch.text \in {fetch.hit.text, "not found", "invalid selector"}

Finished == call.pc = "done"

(* Every hit holds every token of its query, literally or as stems, the    *)
(* short ones too that the trigram index cannot be asked for, unless its   *)
(* row id was given out again while the search was running.                *)
HitsMatchTheQuery ==
    Finished =>
      \A k \in DOMAIN call.results :
        LET res == call.results[k]
            q   == call.queries[res.i]
        IN  \A j \in DOMAIN res.hits :
              LET h == res.hits[j] IN
              \/ q \subseteq Stems[h.text] \/ q \subseteq Literal[h.text]
              \/ <<h.row, res.table>> \in reissued

(* The hits and the events of a search share one budget: together they are *)
(* never over it, a query whose hits were cut says so, and none is cut     *)
(* while its even part of the budget would have held its next hit: what    *)
(* other queries found never costs a query its part, and what they did not *)
(* use is not lost.                                                        *)
BudgetIsShared ==
    Finished =>
      LET n    == Len(call.queries)
          used(k) == Total([j \in DOMAIN call.results |-> contentBudgetUsed(call.results[j].hits)], k)
      IN  /\ used(Len(call.results)) <= call.budget
          /\ \A k \in DOMAIN call.results :
                LET res  == call.results[k]
                    next == Size[res.found[Len(res.hits) + 1].text]
                IN  res.truncated /\ res.table = "content" =>
                      /\ contentBudgetUsed(res.hits) + next > call.budget \div n
                      /\ res.i = n => used(k) + next > call.budget
          /\ \A k \in DOMAIN call.results :
                ~call.results[k].truncated => call.results[k].hits = call.results[k].found
=============================================================================
