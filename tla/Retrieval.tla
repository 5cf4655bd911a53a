------------------------------ MODULE Retrieval ------------------------------
(***************************************************************************)
(* Reading the document index (search.rs, and the search, compare, page    *)
(* and delete commands of main.rs) while other processes ingest into it    *)
(* and delete from it.  How a document gets into the index is Library's;   *)
(* here its row, its chunks and their vectors are written in one step.     *)
(*                                                                         *)
(* Documents and chunks are numbered; a new one takes the number after the *)
(* largest there is (INTEGER PRIMARY KEY without AUTOINCREMENT).  How well *)
(* a chunk matches is not modelled: a ranker answers any ranking.          *)
(***************************************************************************)
EXTENDS Naturals, Sequences, FiniteSets, FiniteSetsExt, SequencesExt

CONSTANTS Books,        \* documents of the project
          NameOf,       \* NameOf[p]: the base name of path p
          Likeness,     \* Likeness[n]: the base names the pattern `%/n' fits
          MaxDoc,       \* bound: largest document number
          MaxChunk,     \* bound: largest chunk number
          MaxIngests,   \* bound: ingests
          MaxTop,       \* bound: the largest --top-k asked for
          HybridFactor, \* HYBRID_FACTOR
          RrfK,         \* RRF_K
          None

ASSUME RetrievalAssumption ==
    /\ None \notin Books
    /\ {MaxDoc, MaxChunk, MaxIngests, MaxTop, HybridFactor} \subseteq Nat \ {0} /\ RrfK \in Nat
    /\ \A p \in Books : NameOf[p] \in DOMAIN Likeness

VARIABLES shelf,    \* [number -> path or None]
          stamped,  \* [number -> ingested_at]
          rows,     \* [number -> [doc, ord] of the chunk, or NoRow]
          embedded, \* the numbers chunks_vec has a vector for
          clock,    \* ingests so far
          answer,   \* the last search: its rankings and its hits
          hit,      \* the hit a reader goes on from, or NoHit
          shown     \* what it was shown: <<the document meant, the one it got>>

retrievalVars == <<shelf, stamped, rows, embedded, clock, answer, hit, shown>>

Docs == 1 .. MaxDoc
ChunkNumbers == 1 .. MaxChunk
NoRow == [doc |-> 0, ord |-> 0]
NoHit == [row |-> 0, doc |-> 0, path |-> None, kept |-> FALSE]
NoAnswer == [mode |-> "none", top |-> 0, lex |-> <<>>, near |-> <<>>, hits |-> <<>>]

RetrievalTypeOK ==
    /\ shelf \in [Docs -> Books \cup {None}] /\ stamped \in [Docs -> 0 .. MaxIngests]
    /\ rows \in [ChunkNumbers -> [doc : 0 .. MaxDoc, ord : 0 .. MaxChunk]]
    /\ \A i \in ChunkNumbers : rows[i] # NoRow => shelf[rows[i].doc] # None
    /\ embedded \subseteq ChunkNumbers /\ clock \in 0 .. MaxIngests
    /\ answer.mode \in {"none", "lexical", "dense", "hybrid"} /\ answer.hits \in Seq(ChunkNumbers)
    /\ hit \in [row : 0 .. MaxChunk, doc : 0 .. MaxDoc, path : Books \cup {None}, kept : BOOLEAN]
    /\ shown \in (Books \cup {None}) \X (Books \cup {None})

RetrievalInit ==
    /\ shelf = [d \in Docs |-> None] /\ stamped = [d \in Docs |-> 0]
    /\ rows = [i \in ChunkNumbers |-> NoRow] /\ embedded = {} /\ clock = 0
    /\ answer = NoAnswer /\ hit = NoHit /\ shown = <<None, None>>

Chunks == {i \in ChunkNumbers : rows[i] # NoRow}
PathAt(i) == shelf[rows[i].doc]
NextNumber(used) == Max(used \cup {0}) + 1
Indexed == {d \in Docs : shelf[d] # None}

-----------------------------------------------------------------------------
(* Writers.                                                                *)

\* Mutant of Upserted: INSERT OR REPLACE, which deletes the row it replaces.
Replacing(p) == NextNumber({d \in Indexed : shelf[d] # p})
\* upsert_document: a path keeps its number.
Upserted(p) ==
    IF \E d \in Indexed : shelf[d] = p THEN CHOOSE d \in Indexed : shelf[d] = p ELSE NextNumber(Indexed)

\* The chunks without those of a path, and the numbers for its new ones.
OtherChunks(p) == {i \in Chunks : PathAt(i) # p}
NewRows(p, size) == (Max(OtherChunks(p) \cup {0}) + 1) .. (Max(OtherChunks(p) \cup {0}) + size)
ChunksOf(p, d, size) ==
    [i \in ChunkNumbers |-> IF i \in OtherChunks(p) THEN rows[i]
                    ELSE IF i \in NewRows(p, size) THEN [doc |-> d, ord |-> i + 1 - Min(NewRows(p, size))] ELSE NoRow]

\* run_ingest; the vectors are there if the encoder is.  What a replaced
\* document had as vectors stays, under numbers that are given out again.
Ingest(p, size, encoded) ==
    LET d == Upserted(p)
    IN  /\ answer = NoAnswer  \* a search reads one state of the index
        /\ clock < MaxIngests /\ d <= MaxDoc /\ NewRows(p, size) \subseteq ChunkNumbers
        /\ clock' = clock + 1
        /\ shelf' = [e \in Docs |-> IF e = d THEN p ELSE IF shelf[e] = p THEN None ELSE shelf[e]]
        /\ stamped' = [stamped EXCEPT ![d] = clock']
        /\ rows' = ChunksOf(p, d, size)
        /\ embedded' = IF encoded THEN embedded \cup NewRows(p, size) ELSE embedded
        /\ UNCHANGED <<answer, hit, shown>>

\* run_delete, by number or by the path ingest stored.
Delete(d) ==
    /\ answer = NoAnswer /\ d \in Indexed
    /\ shelf' = [shelf EXCEPT ![d] = None] /\ stamped' = [stamped EXCEPT ![d] = 0]
    /\ rows' = ChunksOf(shelf[d], d, 0)
    /\ hit' = IF hit.doc = d THEN [hit EXCEPT !.kept = FALSE] ELSE hit
    /\ UNCHANGED <<embedded, clock, answer, shown>>

-----------------------------------------------------------------------------
(* Searching.                                                              *)

Cut(s, k) == SubSeq(s, 1, IF k < Len(s) THEN k ELSE Len(s))

\* chunks_fts: some of the chunks, the best first.
LexicalOf(full, k) == Cut(full, k)

\* The nearest k vectors, joined with the chunks afterwards.
DenseOf(near, k) ==
    LET cut == Cut(near, k)
        found == {r \in DOMAIN cut : cut[r] \in Chunks}
    IN  [n \in 1 .. Cardinality(found) |->
            cut[CHOOSE r \in found : Cardinality({q \in found : q <= r}) = n]]

RankIn(s, i) == IF \E r \in DOMAIN s : s[r] = i THEN CHOOSE r \in DOMAIN s : s[r] = i ELSE 0
\* What a ranker adds to a chunk's score, 1 / (RRF_K + rank), as a fraction.
Share(s, i) == IF RankIn(s, i) = 0 THEN <<0, 1>> ELSE <<1, RrfK + RankIn(s, i)>>
AtLeast(x, y) == x[1] * y[2] >= y[1] * x[2]

\* Mutant of Score: the dense rank takes the place of the lexical one.
LastScore(lex, dense, i) == IF RankIn(dense, i) # 0 THEN Share(dense, i) ELSE Share(lex, i)
\* The sum over the rankers.
Score(lex, dense, i) ==
    LET x == Share(lex, i)
        y == Share(dense, i)
    IN  <<x[1] * y[2] + y[1] * x[2], x[2] * y[2]>>

\* rrf_fuse: equal scores stay in the order of a HashMap, which is any.
Fused(lex, dense, k) ==
    LET all == ToSet(lex) \cup ToSet(dense)
    IN  {Cut(s, k) : s \in {o \in SetToSeqs(all) :
            \A a, b \in DOMAIN o : a < b => AtLeast(Score(lex, dense, o[a]), Score(lex, dense, o[b]))}}

Hybrid(full, near, k) == Fused(LexicalOf(full, k * HybridFactor), DenseOf(near, k * HybridFactor), k)

Rankings(S) == UNION {SetToSeqs(T) : T \in SUBSET S}

\* `search': with no encoder or no vectors' table it falls back to lexical.
Search(mode, k) ==
    /\ answer = NoAnswer
    /\ \E full \in IF mode = "dense" THEN {<<>>} ELSE Rankings(Chunks),
          near \in IF mode = "lexical" THEN {<<>>} ELSE SetToSeqs(embedded) :
          \E hits \in CASE mode = "lexical" -> {LexicalOf(full, k)}
                        [] mode = "dense" -> {DenseOf(near, k)}
                        [] mode = "hybrid" -> Hybrid(full, near, k) :
             answer' = [mode |-> mode, top |-> k, lex |-> full, near |-> DenseOf(near, k * HybridFactor), hits |-> hits]
    /\ UNCHANGED <<shelf, stamped, rows, embedded, clock, hit, shown>>

\* The reader goes on from one hit: its chunk, its document and its source.
Keep(r) ==
    /\ r \in DOMAIN answer.hits
    /\ LET i == answer.hits[r] IN
       hit' = [row |-> i, doc |-> rows[i].doc, path |-> PathAt(i), kept |-> TRUE]
    /\ answer' = NoAnswer /\ UNCHANGED <<shelf, stamped, rows, embedded, clock, shown>>

Forget ==
    /\ answer # NoAnswer /\ answer' = NoAnswer
    /\ UNCHANGED <<shelf, stamped, rows, embedded, clock, hit, shown>>

\* The text of a chunk's number; the hit's snippet if there is none any more.
Text(h) == IF h.row \in Chunks THEN PathAt(h.row) ELSE h.path

\* `compare' prints it beside the hit's source.
Expand ==
    /\ hit # NoHit
    /\ shown' = <<hit.path, Text(hit)>>
    /\ hit' = NoHit /\ UNCHANGED <<shelf, stamped, rows, embedded, clock, answer>>

\* resolve_doc_id, by a base name: the document ingested last that fits.
Resolved(name) ==
    LET fitting == {d \in Indexed : NameOf[shelf[d]] \in Likeness[name]}
    IN  {d \in fitting : \A e \in fitting : stamped[e] <= stamped[d]}

\* `page': by the number of a hit, or by the printed name of a book.
PageOfHit ==
    /\ hit # NoHit /\ hit.doc \in Indexed
    /\ shown' = <<hit.path, shelf[hit.doc]>>
    /\ hit' = NoHit /\ UNCHANGED <<shelf, stamped, rows, embedded, clock, answer>>

PageByName(p) ==
    \E d \in Resolved(NameOf[p]) :
        /\ \E e \in Indexed : shelf[e] = p
        /\ shown' = <<p, shelf[d]>>
        /\ UNCHANGED <<shelf, stamped, rows, embedded, clock, answer, hit>>

RetrievalNext ==
    \/ \E p \in Books, size \in 1 .. 2, encoded \in BOOLEAN : Ingest(p, size, encoded)
    \/ \E d \in Docs : Delete(d)
    \/ \E mode \in {"lexical", "dense", "hybrid"}, k \in 1 .. MaxTop : Search(mode, k)
    \/ \E r \in 1 .. MaxTop : Keep(r)
    \/ Forget \/ Expand \/ PageOfHit \/ \E p \in Books : PageByName(p)

RetrievalSpec == RetrievalInit /\ [][RetrievalNext]_retrievalVars

-----------------------------------------------------------------------------
(* Properties.                                                             *)

(* The number a hit, `list' or an earlier `ingest' named a document by     *)
(* stays its own until it is deleted, however often it is ingested again   *)
(* (upsert_document): `page' and `delete --by-id' reach the document that  *)
(* was meant.                                                              *)
NumberStays == hit.kept => shelf[hit.doc] = hit.path

(* What no ranking puts behind another chunk, and one puts before it, the  *)
(* fused answer puts before it too, and never leaves out while it keeps    *)
(* the other, however equal scores happen to fall (rrf_fuse).              *)
RankedBefore(s, a, b) == RankIn(s, a) # 0 /\ (RankIn(s, b) = 0 \/ RankIn(s, a) < RankIn(s, b))
NotBelow(s, a, b) == RankedBefore(s, a, b) \/ RankIn(s, b) = 0
FusedFair ==
    answer.mode = "hybrid" =>
        LET lex == LexicalOf(answer.lex, answer.top * HybridFactor)
            dense == answer.near
        IN  \A a \in ToSet(lex) \cup ToSet(dense), b \in ToSet(answer.hits) :
                NotBelow(lex, a, b) /\ NotBelow(dense, a, b) /\ (RankedBefore(lex, a, b) \/ RankedBefore(dense, a, b))
                    => RankedBefore(answer.hits, a, b)

(* A hit leads where it was found, and fusing keeps what both rankers say  *)
(* (upsert_document, rrf_fuse).                                            *)
RetrievalSafe == NumberStays /\ FusedFair

(* "they don't cause query bugs because the dense_search JOIN with chunks  *)
(* filters non-existent ids out" (ingest.rs:280-283).  The vectors of      *)
(* chunks that are gone are filtered out after they have taken their       *)
(* places among the nearest k: fewer chunks are found than were asked for  *)
(* and than there are.                                                     *)
DenseFills ==
    answer.mode = "dense" =>
        LET found == Cardinality(embedded \cap Chunks)
        IN  Len(answer.hits) = IF answer.top < found THEN answer.top ELSE found

(* "Return just the matched chunk's snippet" for a chunk that vanished     *)
(* between the ranking and the reading (main.rs:2145-2147).  Its number    *)
(* may be another document's by then, whose text is printed in its place.  *)
ShownIsItsOwn == [][Expand => shown'[1] = shown'[2]]_retrievalVars

(* "so the LLM can request pages from a specific book by its printed       *)
(* filename" (store.rs:715-718).  The name is a LIKE pattern: `_' and `%'  *)
(* in it fit other names, and of the names that fit the document ingested  *)
(* last answers.                                                           *)
ByPrintedName == [][\A p \in Books : PageByName(p) => shown'[1] = shown'[2]]_retrievalVars
=============================================================================
