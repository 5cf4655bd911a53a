------------------------------- MODULE MCStores --------------------------------
(***************************************************************************)
(* What is kept on disk, in parts that share no state: which file is a     *)
(* folder's journal, a journal packed and loaded, conversations copied,    *)
(* the document index and its search, mind maps and the two drawings of    *)
(* them, the models fetched, and the databases' versions.  As in MCChannel *)
(* a behaviour is one of one part while the others rest.                   *)
(***************************************************************************)
EXTENDS JournalFiles, JournalArchive, Transfer, Library, Retrieval,
        MindMaps, FlowDrawing, TreeDrawing, Models, Schema, TLC

VARIABLE turn  \* the part this behaviour is of

storesVars == <<turn, filesVars, archiveVars, transferVars, libraryVars, retrievalVars,
                mapVars, flowVars, treeVars, modelVars, schemaVars>>

CONSTANTS d1, d2, r1, b2

(* Folder d2 is a repository's working copy; content b2 is the longer.     *)
RepoOf == (d1 :> NoBox @@ d2 :> r1)
Sizes == [c \in Contents |-> IF c = b2 THEN 2 ELSE 1]

(* A book called a_b and one called axb, as `_' stands for any letter.     *)
NamesOf == [p \in Books |-> IF p = "p1" THEN "a_b" ELSE "axb"]
LikenessOf == [n \in {"a_b", "axb"} |-> IF n = "a_b" THEN {"a_b", "axb"} ELSE {n}]
OldInsightsOf == <<"t1">>

BoxesOf == {[along |-> 30, across |-> 120], [along |-> 120, across |-> 30]}
NodeSizesOf == {[w |-> 40, h |-> 30], [w |-> 120, h |-> 90]}

StoresInit ==
    /\ turn \in {"files", "archive", "transfer", "library", "retrieval",
                 "maps", "flow", "tree", "models", "schema"}
    /\ FilesInit /\ ArchiveInit /\ TransferInit /\ LibraryInit /\ RetrievalInit
    /\ MapsInit /\ FlowInit /\ TreeInit /\ ModelsInit /\ SchemaInit
    /\ turn # "library" => onDisk = [p \in Paths |-> b2]
    /\ turn # "schema" => version = 0 /\ chat = {}

(* One part moves, the others keep their state.                            *)
FilesTurn ==
    /\ turn = "files" /\ FilesNext
    /\ UNCHANGED <<archiveVars, transferVars, libraryVars, retrievalVars>>
    /\ UNCHANGED <<mapVars, flowVars, treeVars, modelVars, schemaVars>>

ArchiveTurn ==
    /\ turn = "archive" /\ ArchiveNext
    /\ UNCHANGED <<filesVars, transferVars, libraryVars, retrievalVars>>
    /\ UNCHANGED <<mapVars, flowVars, treeVars, modelVars, schemaVars>>

TransferTurn ==
    /\ turn = "transfer" /\ TransferNext
    /\ UNCHANGED <<filesVars, archiveVars, libraryVars, retrievalVars>>
    /\ UNCHANGED <<mapVars, flowVars, treeVars, modelVars, schemaVars>>

LibraryTurn ==
    /\ turn = "library" /\ LibraryNext
    /\ UNCHANGED <<filesVars, archiveVars, transferVars, retrievalVars>>
    /\ UNCHANGED <<mapVars, flowVars, treeVars, modelVars, schemaVars>>

RetrievalTurn ==
    /\ turn = "retrieval" /\ RetrievalNext
    /\ UNCHANGED <<filesVars, archiveVars, transferVars, libraryVars>>
    /\ UNCHANGED <<mapVars, flowVars, treeVars, modelVars, schemaVars>>

MapsTurn ==
    /\ turn = "maps" /\ MapsNext
    /\ UNCHANGED <<filesVars, archiveVars, transferVars, libraryVars, retrievalVars>>
    /\ UNCHANGED <<flowVars, treeVars, modelVars, schemaVars>>

FlowTurn ==
    /\ turn = "flow" /\ FlowNext
    /\ UNCHANGED <<filesVars, archiveVars, transferVars, libraryVars, retrievalVars>>
    /\ UNCHANGED <<mapVars, treeVars, modelVars, schemaVars>>

TreeTurn ==
    /\ turn = "tree" /\ TreeNext
    /\ UNCHANGED <<filesVars, archiveVars, transferVars, libraryVars, retrievalVars>>
    /\ UNCHANGED <<mapVars, flowVars, modelVars, schemaVars>>

ModelsTurn ==
    /\ turn = "models" /\ ModelsNext
    /\ UNCHANGED <<filesVars, archiveVars, transferVars, libraryVars, retrievalVars>>
    /\ UNCHANGED <<mapVars, flowVars, treeVars, schemaVars>>

SchemaTurn ==
    /\ turn = "schema" /\ SchemaNext
    /\ UNCHANGED <<filesVars, archiveVars, transferVars, libraryVars, retrievalVars>>
    /\ UNCHANGED <<mapVars, flowVars, treeVars, modelVars>>

StoresNext ==
    /\ \/ FilesTurn \/ ArchiveTurn \/ TransferTurn \/ LibraryTurn \/ RetrievalTurn
       \/ MapsTurn \/ FlowTurn \/ TreeTurn \/ ModelsTurn \/ SchemaTurn
    /\ UNCHANGED turn

StoresSpec == StoresInit /\ [][StoresNext]_storesVars

(* The types of the ten parts.                                             *)
StoresTypeOK ==
    /\ FilesTypeOK /\ ArchiveTypeOK /\ TransferTypeOK /\ LibraryTypeOK /\ RetrievalTypeOK
    /\ MapsTypeOK /\ FlowTypeOK /\ TreeTypeOK /\ ModelsTypeOK /\ SchemaTypeOK

(* What is copied arrives as it was: a folder that shares a journal still  *)
(* reads its entries, and a conversation that is there is there with its   *)
(* files (journal_tools.rs, chat_transfer.rs, chat_clone.rs).              *)
CopiesWhole == ShareKeepsEntries /\ CopyIsComplete

(* What was kept is found again: a journal comes out of its archive as it  *)
(* went in and the older release's insights come along once, a hit leads   *)
(* to the document it was found in, and what both rankers put first comes  *)
(* first (journal_tools.rs, journal.rs, store.rs, search.rs).              *)
KeptIsFound == ArchiveSafe /\ RetrievalSafe

(* What a run finds prepared is fit for use: a document taken for indexed  *)
(* is, a database opened is at its version, a model in place is whole, a   *)
(* mind map is a tree with its arrows and references and arrives as one    *)
(* (ingest.rs, store.rs, migrations.rs, asr/, mindmap.rs).                 *)
FoundFit == UnchangedIsIndexed /\ SchemaSafe /\ ModelsSafe /\ MapsWhole /\ ArrivesWhole

(* What is drawn can be read: no box or arrow on another, no text past its *)
(* box (mindmap_flow.rs, mindmap_svg.rs).                                  *)
DrawingsApart == FlowDrawn /\ TreeDrawn
=============================================================================
