---------------------------- MODULE JournalArchive ----------------------------
(***************************************************************************)
(* A journal that moves: `chat dump' packs it page by page while it is     *)
(* written to, `chat load' and `journal import' write the archive into     *)
(* another journal (journal_cli.rs, journal_tools.rs), and an older        *)
(* release's insights come into it when it is opened (journal.rs).  All of *)
(* them store through `add', which folds a note into an equal one.         *)
(*                                                                         *)
(* An entry is its text with its category, the time it was written, one    *)
(* work-item flag and the entries it links to.                             *)
(***************************************************************************)
EXTENDS Naturals, Sequences, FiniteSets, FiniteSetsExt, SequencesExt

CONSTANTS Notes,       \* texts of entries, with their category
          OldInsights, \* texts of the old insights, all of time 0
          Callers,     \* sessions' calls that open the journal
          PageSize,    \* MAX_PAGE_SIZE
          Window,      \* DEDUP_WINDOW_SECS
          MaxNumber,   \* bound: largest entry number
          MaxTime,     \* bound: the clock
          MaxDeletes,  \* bound: entries deleted
          MaxLoads,    \* bound: times the archive is loaded
          NoNote

ASSUME ArchiveAssumption ==
    /\ NoNote \notin Notes /\ OldInsights \in Seq(Notes)
    /\ PageSize \in Nat \ {0} /\ {Window, MaxNumber, MaxTime, MaxDeletes, MaxLoads} \subseteq Nat

VARIABLES now,
          here,    \* the journal that is packed
          there,   \* the journal the archive is loaded into
          dump,    \* [step, out, first, stays]: what `chat dump' has so far
          load,    \* [step, n, ids, again]: the load under way, whether after a whole one
          loads,   \* loads begun
          deletes,
          copying, \* [Callers -> how far its import of the insights is, or "done"]
          marked   \* journal_meta says the insights were imported

archiveVars == <<now, here, there, dump, load, loads, deletes, copying, marked>>

EntryIds == 1 .. MaxNumber
NoEntry == [text |-> NoNote, at |-> 0, flag |-> "none", links |-> {}]
Entry == [text : Notes, at : 0 .. MaxTime, flag : {"none", "open", "closed"}, links : SUBSET EntryIds]
Journals == [EntryIds -> Entry \cup {NoEntry}]
Held(j) == {i \in EntryIds : j[i] # NoEntry}

ArchiveTypeOK ==
    /\ now \in 0 .. MaxTime /\ here \in Journals /\ there \in Journals
    /\ dump.step \in {"rest", "paging", "packed"} /\ dump.out \in Seq([id : EntryIds, e : Entry])
    /\ dump.first \in 0 .. MaxNumber /\ dump.stays \subseteq EntryIds
    /\ load.step \in {"rest", "entries", "links", "done"} /\ load.ids \in [EntryIds -> 0 .. MaxNumber] /\ load.again \in BOOLEAN
    /\ loads \in 0 .. MaxLoads /\ deletes \in 0 .. MaxDeletes
    /\ copying \in [Callers -> 0 .. Len(OldInsights) + 1] /\ marked \in BOOLEAN

ArchiveInit ==
    /\ now = 0 /\ here = [i \in EntryIds |-> NoEntry] /\ there = here
    /\ dump = [step |-> "rest", out |-> <<>>, first |-> 0, stays |-> {}]
    /\ load = [step |-> "rest", n |-> 0, ids |-> [i \in EntryIds |-> 0], again |-> FALSE] /\ loads = 0
    /\ deletes = 0 /\ copying = [o \in Callers |-> 0] /\ marked = FALSE

-----------------------------------------------------------------------------
(* add.                                                                    *)

\* Mutant of Same: the window is counted from today.
SameLately(j, e) == {i \in Held(j) : j[i].text = e.text /\ j[i].at + Window >= now}
\* The notes a note is folded into: as old as it, or younger.
Same(j, e) == {i \in Held(j) : j[i].text = e.text /\ j[i].at + Window >= e.at}

Home(j, e) == IF Same(j, e) # {} THEN Max(Same(j, e)) ELSE Max(Held(j) \cup {0}) + 1

\* A flag that is set, open or closed, stays as it is.
Flagged(e, flag) == IF e.flag = "none" /\ flag # "none" THEN [e EXCEPT !.flag = "open"] ELSE e

Added(j, e) ==
    [j EXCEPT ![Home(j, e)] = IF Same(j, e) # {} THEN Flagged(@, e.flag) ELSE [e EXCEPT !.links = {}]]

HasRoom(j, e) == Home(j, e) \in EntryIds

-----------------------------------------------------------------------------
(* The journal that is packed.                                             *)

Tick == now < MaxTime /\ now' = now + 1 /\ UNCHANGED <<here, there, dump, load, loads, deletes, copying, marked>>

\* A session adds an entry, with a `journal#N' in its text or without.
Write(t, flag, refs) ==
    LET e == [text |-> t, at |-> now, flag |-> flag, links |-> {}] IN
    /\ dump.step # "packed" /\ HasRoom(here, e) /\ refs \subseteq Held(here) \ Same(here, e)
    /\ here' = IF Same(here, e) # {} THEN Added(here, e)
               ELSE [Added(here, e) EXCEPT ![Home(here, e)].links = refs]
    /\ UNCHANGED <<now, there, dump, load, loads, deletes, copying, marked>>

CloseEntry(i) ==
    /\ dump.step # "packed" /\ here[i].flag = "open" /\ here' = [here EXCEPT ![i].flag = "closed"]
    /\ UNCHANGED <<now, there, dump, load, loads, deletes, copying, marked>>

\* `journal delete', or gc: the links to it go with it.
DropEntry(i) ==
    /\ dump.step # "packed" /\ i \in Held(here) /\ deletes < MaxDeletes /\ deletes' = deletes + 1
    /\ here' = [k \in EntryIds |-> IF k = i THEN NoEntry ELSE [here[k] EXCEPT !.links = @ \ {i}]]
    /\ dump' = [dump EXCEPT !.stays = @ \ {i}]
    /\ UNCHANGED <<now, there, load, loads, copying, marked>>

\* import_legacy_insights: one transaction a row, the mark after the last.
\* Every call that opens the journal for a session does it, and may die.
CopyInsight(o) ==
    LET e == [text |-> OldInsights[copying[o] + 1], at |-> 0, flag |-> "none", links |-> {}] IN
    /\ dump.step # "packed" /\ copying[o] < Len(OldInsights) /\ (copying[o] = 0 => ~marked)
    /\ HasRoom(here, e) /\ here' = Added(here, e)
    /\ copying' = [copying EXCEPT ![o] = @ + 1]
    /\ UNCHANGED <<now, there, dump, load, loads, deletes, marked>>

MarkImported(o) ==
    /\ dump.step # "packed" /\ copying[o] = Len(OldInsights) /\ marked' = TRUE
    /\ copying' = [copying EXCEPT ![o] = Len(OldInsights) + 1]
    /\ UNCHANGED <<now, here, there, dump, load, loads, deletes>>

OpenerDies(o) ==
    /\ dump.step # "packed" /\ copying[o] \in 1 .. Len(OldInsights) /\ copying' = [copying EXCEPT ![o] = 0]
    /\ UNCHANGED <<now, here, there, dump, load, loads, deletes, marked>>

-----------------------------------------------------------------------------
(* Packing.                                                                *)

\* list: newest first, by the time and then the number.
Younger(a, b) == here[a].at > here[b].at \/ (here[a].at = here[b].at /\ a > b)
AgeRank(i) == Cardinality({k \in Held(here) : Younger(k, i)}) + 1
Newest == [k \in 1 .. Cardinality(Held(here)) |-> CHOOSE i \in Held(here) : AgeRank(i) = k]

\* Mutant of Total: as many as there were when the first page was read.
FirstTotal == dump.first
Total == Cardinality(Held(here))

StartDump ==
    /\ dump.step = "rest" /\ Held(here) # {}
    /\ dump' = [step |-> "paging", out |-> <<>>, first |-> Cardinality(Held(here)), stays |-> Held(here)]
    /\ UNCHANGED <<now, here, there, load, loads, deletes, copying, marked>>

\* Mutant of Replayed: in the order the pages came.
AsListed(s) == s
\* Oldest first.
Replayed(s) == Reverse(s)

\* export_entries reads the page after what it has; a short page is the last.
ReadPage ==
    LET from == Len(dump.out)
        upto == IF from + PageSize < Len(Newest) THEN from + PageSize ELSE Len(Newest)
        out == dump.out \o [k \in 1 .. (IF upto > from THEN upto - from ELSE 0) |->
                              [id |-> Newest[from + k], e |-> here[Newest[from + k]]]]
        last == Len(out) - from < PageSize \/ Len(out) >= Total
    IN  /\ dump.step = "paging"
        /\ dump' = [dump EXCEPT !.out = IF last THEN Replayed(out) ELSE out, !.step = IF last THEN "packed" ELSE "paging"]
        /\ UNCHANGED <<now, here, there, load, loads, deletes, copying, marked>>

-----------------------------------------------------------------------------
(* Loading.                                                                *)

StartLoading ==
    /\ dump.step = "packed" /\ load.step \in {"rest", "done"} /\ loads < MaxLoads
    /\ loads' = loads + 1
    /\ load' = [step |-> IF dump.out = <<>> THEN "links" ELSE "entries",
                n |-> 1, ids |-> [i \in EntryIds |-> 0], again |-> load.step = "done"]
    /\ UNCHANGED <<now, here, there, dump, deletes, copying, marked>>

\* import: where an entry landed is kept, to number the links.  What was
\* folded into another note keeps that one's state; a new one gets its own.
LoadEntry ==
    LET a == dump.out[load.n] IN
    /\ load.step = "entries" /\ HasRoom(there, a.e) /\ there' = Added(there, a.e)
    /\ load' = [load EXCEPT !.step = IF load.n = Len(dump.out) THEN "links" ELSE "entries",
                            !.n = @ + 1, !.ids[a.id] = Home(there, a.e)]
    /\ UNCHANGED <<now, here, dump, loads, deletes, copying, marked>>

\* import_links: those with both ends in the archive; none to itself.
Renumbered(a) == {load.ids[l] : l \in a.e.links} \ {0, load.ids[a.id]}
LoadLinks ==
    /\ load.step = "links" /\ load' = [load EXCEPT !.step = "done"]
    /\ there' = [i \in EntryIds |-> [there[i] EXCEPT !.links = @ \cup
                    UNION {Renumbered(a) : a \in {b \in ToSet(dump.out) : load.ids[b.id] = i}}]]
    /\ UNCHANGED <<now, here, dump, loads, deletes, copying, marked>>

LoadDies ==
    /\ load.step \in {"entries", "links"} /\ load' = [load EXCEPT !.step = "rest"]
    /\ UNCHANGED <<now, here, there, dump, loads, deletes, copying, marked>>

ArchiveNext ==
    \/ Tick \/ \E t \in Notes, flag \in {"none", "open"}, refs \in {{}} \cup {{i} : i \in EntryIds} : Write(t, flag, refs)
    \/ \E i \in EntryIds : CloseEntry(i) \/ DropEntry(i)
    \/ \E o \in Callers : CopyInsight(o) \/ MarkImported(o) \/ OpenerDies(o)
    \/ StartDump \/ ReadPage \/ StartLoading \/ LoadEntry \/ LoadLinks \/ LoadDies

ArchiveSpec == ArchiveInit /\ [][ArchiveNext]_archiveVars

-----------------------------------------------------------------------------
(* Properties.                                                             *)

(* An entry that was in the journal from the first page to the last is in  *)
(* the archive, whatever was added meanwhile and moved the pages           *)
(* (export_entries).                                                       *)
DumpWhole == dump.step = "packed" => dump.stays \subseteq {a.id : a \in ToSet(dump.out)}

(* "Every entry of the journal that `project` reads from, oldest first"    *)
(* (journal_cli.rs:122-123).  Two notes written between two pages push one *)
(* that was read behind a younger one, and it is read again.               *)
NotYounger(a, b) == a.e.at < b.e.at \/ (a.e.at = b.e.at /\ a.id <= b.id)
OldestFirst ==
    dump.step = "packed" =>
        \A k, m \in DOMAIN dump.out : k < m => NotYounger(dump.out[k], dump.out[m])

(* What one load of an archive in order writes is the archive again: every *)
(* entry a place of its own, its text, time and state, and the links       *)
(* between them, though two notes of the same text are folded into one if  *)
(* the older comes second (import, import_entries).                        *)
ComesBack(a) ==
    LET e == there[load.ids[a.id]]
    IN  /\ \A b \in ToSet(dump.out) : load.ids[b.id] = load.ids[a.id] => b.id = a.id
        /\ e.text = a.e.text /\ e.at = a.e.at /\ e.links = Renumbered(a)
        /\ (a.e.flag = e.flag \/ \E b \in ToSet(dump.out) : b.id = a.id /\ b # a)

LoadKeeps == load.step = "done" /\ loads = 1 /\ OldestFirst => \A a \in ToSet(dump.out) : ComesBack(a)

(* However many open the journal and however often they die, an old        *)
(* insight is in it once (import_legacy_insights).                         *)
InsightsOnce ==
    /\ \A i, k \in Held(here) : here[i].at = 0 /\ here[k].at = 0 /\ here[i].text = here[k].text => i = k
    /\ marked /\ deletes = 0 => ToSet(OldInsights) \subseteq {here[i].text : i \in Held(here)}

(* What a journal was comes out of its archive: packed whole while it is   *)
(* written to, loaded as it was packed, and no insight twice               *)
(* (export_entries, import, import_legacy_insights).                       *)
ArchiveSafe == DumpWhole /\ LoadKeeps /\ InsightsOnce

(* "Loading the same archive twice writes nothing the second time"         *)
(* (journal_tools.rs:430-431).  The older of two notes of one text is      *)
(* folded into the younger: its flag is opened there and its links are     *)
(* added to it.                                                            *)
LoadedTwiceIsLoadedOnce == [][load.again => there' = there]_archiveVars
=============================================================================
