---------------------------- MODULE ContentRows ----------------------------
(***************************************************************************)
(* What content.db promises the readers beside it: rows that name a        *)
(* content by an id, and uris that name such an id.  Every change is one   *)
(* transaction.  An id is issued once: no purge gives it to another        *)
(* content.  ContentStore implements this; Search reads it.                *)
(***************************************************************************)
EXTENDS Integers, FiniteSetsExt, Functions

CONSTANTS
    Contents,      \* what can be stored
    URIs           \* names of sources

VARIABLES
    artifacts,     \* id -> content
    watermark,     \* the largest artifact id ever issued
    sources        \* uri -> artifact id

contentRows == <<artifacts, watermark, sources>>

RowsInit ==
    /\ artifacts = [i \in {} |-> 0] /\ watermark = 0
    /\ sources = [u \in {} |-> 0]

(* Mutant: the id is the largest of the rows that are there, plus one. *)
nextArtifactIDFromRows == 1 + Max({0} \cup DOMAIN artifacts)

nextArtifactID == 1 + Max({watermark} \cup DOMAIN artifacts)

(* A content that is stored keeps its row; a new one takes the next id. *)
Known(content)  == {a \in DOMAIN artifacts : artifacts[a] = content}
IdsFor(content) == IF Known(content) = {} THEN {nextArtifactID} ELSE Known(content)

(* Register: the uri points at the content from now on. *)
SaveAs(id, uri, content) ==
    /\ artifacts' = [a \in DOMAIN artifacts \cup {id} |-> IF a = id THEN content ELSE artifacts[a]]
    /\ watermark' = IF id \in DOMAIN artifacts THEN watermark ELSE id
    /\ sources' = [u \in DOMAIN sources \cup {uri} |-> IF u = uri THEN id ELSE sources[u]]

(* PurgeOlderThan: the old sources go, and in the same transaction every   *)
(* artifact no source names any more.                                      *)
PurgeSources(old) ==
    /\ sources' = Restrict(sources, DOMAIN sources \ old)
    /\ artifacts' = Restrict(artifacts, Range(sources'))
    /\ UNCHANGED watermark

(* purgeHookRows: its artifacts go, with every source that names one of    *)
(* them; an artifact without a source that it did not select stays.        *)
PurgeArtifacts(ids) ==
    /\ artifacts' = Restrict(artifacts, DOMAIN artifacts \ ids)
    /\ sources' = Restrict(sources, {u \in DOMAIN sources : sources[u] \notin ids})
    /\ UNCHANGED watermark

RowsNext ==
    \/ \E uri \in URIs, content \in Contents :
         \E id \in IdsFor(content) : SaveAs(id, uri, content)
    \/ \E old \in SUBSET DOMAIN sources : PurgeSources(old)
    \/ \E ids \in SUBSET DOMAIN artifacts : PurgeArtifacts(ids)

RowsSpec == RowsInit /\ [][RowsNext]_contentRows
=============================================================================
