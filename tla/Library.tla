------------------------------ MODULE Library ------------------------------
(***************************************************************************)
(* The document index: ingest.rs, store.rs, search.rs and the ingest,      *)
(* delete, search and reindex-pages commands of main.rs.  Every command is *)
(* a process of its own on one SQLite file; a transaction is one action,   *)
(* what happens between two of them interleaves.                           *)
(*                                                                         *)
(* A document is its content, cut into SizeOf[content] chunks; a chunk's   *)
(* text is its content and its place.  Rows take the number after the      *)
(* largest there is (INTEGER PRIMARY KEY without AUTOINCREMENT); a         *)
(* document's own number stands for its path.                              *)
(***************************************************************************)
EXTENDS Naturals, FiniteSets, FiniteSetsExt

CONSTANTS Paths,    \* files under the project root
          Contents, \* what a file can hold
          SizeOf,   \* SizeOf[c]: how many chunks content c makes
          Workers,  \* processes that ingest
          MaxRow,   \* largest chunk number
          NoContent \* no file, no document, no vector

ASSUME LibraryAssumption ==
    /\ SizeOf \in [Contents -> Nat]
    /\ MaxRow \in Nat
    /\ NoContent \notin Contents \cup Paths

VARIABLES onDisk,  \* onDisk[p]: what the file holds now
          seen,    \* every content the file has held
          docs,    \* documents: the content each row's sha256 is of
          chunks,  \* chunks[i]: the chunk of number i
          vectors, \* chunks_vec: the text the vector of number i was made from
          pages,   \* pages: the content the page rows of a document are of
          job      \* job[w]: what process w is doing

libraryVars == <<onDisk, seen, docs, chunks, vectors, pages, job>>

Rows == 1 .. MaxRow
NoChunk == [path |-> NoContent]
Resting == [step |-> "rest"]

ChunkText(c, ord) == <<c, ord>>
NoText == <<NoContent, 0>>

LibraryInit ==
    /\ onDisk \in [Paths -> Contents]
    /\ seen = [p \in Paths |-> {onDisk[p]}]
    /\ docs = [p \in Paths |-> NoContent]
    /\ chunks = [i \in Rows |-> NoChunk]
    /\ vectors = [i \in Rows |-> NoText]
    /\ pages = [p \in Paths |-> NoContent]
    /\ job = [w \in Workers |-> Resting]

RowsOf(p) == {i \in Rows : chunks[i].path = p}
RowOf(p, ord) == CHOOSE i \in RowsOf(p) : chunks[i].ord = ord

\* The file is rewritten.  Its modification time is compared with its hash, so
\* what it held before counts as another content.
Edit(p, c) ==
    /\ c \notin seen[p]
    /\ onDisk' = [onDisk EXCEPT ![p] = c]
    /\ seen' = [seen EXCEPT ![p] = @ \cup {c}]
    /\ UNCHANGED <<docs, chunks, vectors, pages, job>>

\* ingest_path reads the bytes for the hash and looks the document up: a row
\* with this hash means there is nothing to do.
ReadBytes(w, p) ==
    /\ job[w] = Resting
    /\ job' = IF docs[p] = onDisk[p] THEN job
              ELSE [job EXCEPT ![w] = [step |-> "text", path |-> p, sha |-> onDisk[p]]]
    /\ UNCHANGED <<onDisk, seen, docs, chunks, vectors, pages>>

\* Mutant of ReadText: the text first and the hash after it.
HashLast(w) ==
    /\ job[w].step = "text"
    /\ job' = [job EXCEPT ![w] = [step |-> "commit", path |-> job[w].path,
                                  sha |-> onDisk[job[w].path], text |-> job[w].sha]]
    /\ UNCHANGED <<onDisk, seen, docs, chunks, vectors, pages>>

\* It reads the file again for its text; a reader may fail on it.
ReadText(w) ==
    /\ job[w].step = "text"
    /\ \/ job' = [job EXCEPT ![w] = [step |-> "commit", path |-> job[w].path, sha |-> job[w].sha,
                                     text |-> onDisk[job[w].path]]]
       \/ job' = [job EXCEPT ![w] = Resting]
    /\ UNCHANGED <<onDisk, seen, docs, chunks, vectors, pages>>

\* replace_chunks: the document's rows go, the new ones come after the largest
\* row that is left.
Replaced(p, c) ==
    LET kept == {i \in Rows : chunks[i] # NoChunk /\ chunks[i].path # p}
        top == Max(kept \cup {0})
    IN  [i \in Rows |->
           IF i \in kept THEN chunks[i]
           ELSE IF c # NoContent /\ i > top /\ i <= top + SizeOf[c]
                  THEN [path |-> p, ord |-> i - top, text |-> ChunkText(c, i - top)]
           ELSE NoChunk]

\* One transaction: the row, its chunks (with their index) and its pages.
Commit(w) ==
    LET p == job[w].path
        c == job[w].text
        kept == {i \in Rows : chunks[i] # NoChunk /\ chunks[i].path # p}
    IN  /\ job[w].step = "commit"
        /\ Max(kept \cup {0}) + SizeOf[c] <= MaxRow
        /\ docs' = [docs EXCEPT ![p] = job[w].sha]
        /\ chunks' = Replaced(p, c)
        /\ pages' = [pages EXCEPT ![p] = c]
        /\ job' = [job EXCEPT ![w] = [step |-> "encode", path |-> p, text |-> c]]
        /\ UNCHANGED <<onDisk, seen, vectors>>

\* try_populate_chunks_vec: the encoder may not be there, or fail.
Encode(w) ==
    /\ job[w].step = "encode"
    /\ \/ job' = [job EXCEPT ![w].step = "ids"]
       \/ job' = [job EXCEPT ![w] = Resting]
    /\ UNCHANGED <<onDisk, seen, docs, chunks, vectors, pages>>

\* The document's row numbers now, in order; another count means somebody has
\* replaced them.
FetchIds(w) ==
    LET p == job[w].path
        c == job[w].text
    IN  /\ job[w].step = "ids"
        /\ job' = [job EXCEPT ![w] =
              IF Cardinality(RowsOf(p)) # SizeOf[c] THEN Resting
              ELSE [step |-> "store", text |-> c, ids |-> [k \in 1 .. SizeOf[c] |-> RowOf(p, k)]]]
        /\ UNCHANGED <<onDisk, seen, docs, chunks, vectors, pages>>

StoreVectors(w) ==
    /\ job[w].step = "store"
    /\ vectors' = [i \in Rows |->
          LET ords == {k \in DOMAIN job[w].ids : job[w].ids[k] = i}
          IN  IF ords = {} THEN vectors[i] ELSE ChunkText(job[w].text, CHOOSE k \in ords : TRUE)]
    /\ job' = [job EXCEPT ![w] = Resting]
    /\ UNCHANGED <<onDisk, seen, docs, chunks, pages>>

\* delete, by number or by path: chunks and pages go with the row, the vectors
\* stay.
DeleteDoc(p) ==
    /\ docs[p] # NoContent
    /\ docs' = [docs EXCEPT ![p] = NoContent]
    /\ chunks' = Replaced(p, NoContent)
    /\ pages' = [pages EXCEPT ![p] = NoContent]
    /\ UNCHANGED <<onDisk, seen, vectors, job>>

\* reindex-pages: the pages of the file as it is now, the chunks as they were.
ReindexPages(p) ==
    /\ docs[p] # NoContent
    /\ pages' = [pages EXCEPT ![p] = onDisk[p]]
    /\ UNCHANGED <<onDisk, seen, docs, chunks, vectors, job>>

\* The process is killed between two of its transactions.
KillIngest(w) ==
    /\ job[w] # Resting
    /\ job' = [job EXCEPT ![w] = Resting]
    /\ UNCHANGED <<onDisk, seen, docs, chunks, vectors, pages>>

LibraryNext ==
    \/ \E p \in Paths : DeleteDoc(p) \/ ReindexPages(p) \/ \E c \in Contents : Edit(p, c)
    \/ \E w \in Workers :
         \/ \E p \in Paths : ReadBytes(w, p)
         \/ ReadText(w) \/ Commit(w) \/ Encode(w) \/ FetchIds(w) \/ StoreVectors(w) \/ KillIngest(w)

LibrarySpec == LibraryInit /\ [][LibraryNext]_libraryVars

\* dense_search: the chunks whose vector is nearest to a text; a vector
\* without a chunk is joined away.
DenseHits(text) == {i \in Rows : chunks[i] # NoChunk /\ vectors[i] = text /\ text # NoText}

----------------------------------------------------------------------------
\* Row numbers belong to documents that exist, and each document has the rows
\* of one content.
LibraryTypeOK ==
    /\ onDisk \in [Paths -> Contents]
    /\ docs \in [Paths -> Contents \cup {NoContent}]
    /\ \A p \in Paths : (RowsOf(p) # {} \/ pages[p] # NoContent) => docs[p] # NoContent
    /\ \A i, j \in Rows : chunks[i] # NoChunk /\ chunks[i].path = chunks[j].path
                            => chunks[i].text[1] = chunks[j].text[1]

\* An ingest that answers "unchanged" is right about it: what the index holds
\* of the file is what the file holds, although the hash and the text are read
\* one after the other, while the file is edited and other processes ingest it
\* (ingest.rs, the (sha256, mtime) skip).
UnchangedIsIndexed ==
    \A p \in Paths : docs[p] = onDisk[p] /\ docs[p] # NoContent
      => \A i \in RowsOf(p) : chunks[i].text[1] = onDisk[p]

\* ingest.rs:280-283, of vectors whose chunk is gone: "they don't cause query
\* bugs because the dense_search JOIN with chunks filters non-existent ids
\* out": a dense hit is a chunk with the text its vector was made from.
DenseFindsItsText ==
    \A i \in Rows : \A j \in DenseHits(vectors[i]) : chunks[j].text = vectors[i]
=============================================================================
