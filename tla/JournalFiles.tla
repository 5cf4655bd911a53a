---------------------------- MODULE JournalFiles ----------------------------
(***************************************************************************)
(* Which file a folder's journal is: project_key, adopt_path_journal, open *)
(* and retire of journal.rs; resolve, share, unshare, adopt, import and    *)
(* the writes of daemon/journal_tools.rs.  Every tool call is a blocking   *)
(* task of its own, so writes run beside a share or an unshare and between *)
(* any two of its steps; the operator's own commands come one at a time.   *)
(*                                                                         *)
(* A journal file is a box, so that a writer that has opened one still     *)
(* writes into it after it was renamed.  An entry is its text; numbers,    *)
(* flags, links, maps and the duplicate check (which only folds an entry   *)
(* into one with its text) are Journal's and are left out here.            *)
(***************************************************************************)
EXTENDS Naturals, FiniteSets

CONSTANTS Folders,  \* directories sessions run in
          Repos,    \* repository keys
          Repo,     \* Repo[f]: the repository of folder f, or NoBox
          Scribes,  \* writes under way at a time
          Texts,    \* entries, all different
          MaxBoxes, \* files made
          Chains,   \* whether the operator shares on what is shared
          NoBox     \* no file, no key, no command

ASSUME JournalFilesAssumption ==
    /\ Repo \in [Folders -> Repos \cup {NoBox}]
    /\ NoBox \notin Folders \cup Repos \cup (1 .. MaxBoxes)
    /\ Folders \cap Repos = {}
    /\ MaxBoxes \in Nat /\ Chains \in BOOLEAN

VARIABLES fileOf,   \* fileOf[k]: the box filed under key k
          held,     \* held[b]: the texts in box b
          label,    \* label[b]: journal_meta.project_path
          boxes,    \* how many boxes there are
          shares,   \* journal_shares: shares[f] is the key f writes into
          scribe,   \* scribe[w]: the box w has opened and what it will add
          share,    \* the operator's command under way
          partners, \* partners[f]: the folder whose journal f was told to share
          spent     \* texts written so far

filesVars == <<fileOf, held, label, boxes, shares, scribe, share, partners, spent>>

Keys == Folders \cup Repos
BoxNumbers == 1 .. MaxBoxes
Idle == [kind |-> "idle"]

FilesInit ==
    /\ fileOf = [k \in Keys |-> NoBox]
    /\ held = [b \in BoxNumbers |-> {}]
    /\ label = [b \in BoxNumbers |-> NoBox]
    /\ boxes = 0
    /\ shares = [f \in Folders |-> NoBox]
    /\ scribe = [w \in Scribes |-> Idle]
    /\ share = Idle
    /\ partners = [f \in Folders |-> NoBox]
    /\ spent = {}

\* project_key: the repository when there is one, else the directory.
ProjectKey(f) == IF Repo[f] = NoBox THEN f ELSE Repo[f]

\* resolve: the shared key of the folder, else its own.
ResolvedKey(f) == IF shares[f] # NoBox THEN shares[f] ELSE ProjectKey(f)

\* What a call without a session reads: it creates nothing, and falls back to
\* the directory's journal while the repository has none.
ReadKey(f) ==
    IF shares[f] # NoBox THEN shares[f]
    ELSE IF fileOf[ProjectKey(f)] # NoBox THEN ProjectKey(f) ELSE f

\* open refuses a file that is labelled for another key.
Labelled(key) == label[fileOf[key]] = key

Reads(f) ==
    LET key == ReadKey(f)
    IN  IF fileOf[key] = NoBox \/ ~Labelled(key) THEN {} ELSE held[fileOf[key]]

\* adopt: a journal filed under the directory becomes that of the key, if the
\* key has none and the file says it is the directory's.
Adopts(key, f) ==
    /\ key # f
    /\ fileOf[key] = NoBox /\ fileOf[f] # NoBox
    /\ label[fileOf[f]] = f

\* open(create): the key's file, a new one if there is none, refused when it
\* is labelled for another.  Yields the files, the labels and the box.
OpenedBox(key, f) ==
    IF Adopts(key, f)
      THEN {[files |-> [fileOf EXCEPT ![key] = fileOf[f], ![f] = NoBox],
             labels |-> [label EXCEPT ![fileOf[f]] = key], box |-> fileOf[f], made |-> boxes]}
    ELSE IF fileOf[key] = NoBox
      THEN {[files |-> [fileOf EXCEPT ![key] = b],
             labels |-> [label EXCEPT ![b] = key], box |-> b, made |-> b] : b \in {boxes + 1} \cap BoxNumbers}
    ELSE {[files |-> fileOf, labels |-> label, box |-> fileOf[key], made |-> boxes] :
             b \in {x \in {key} : Labelled(x)}}

OpenFor(key, f, w, text) ==
    /\ scribe[w] = Idle
    /\ text \notin spent
    /\ spent' = spent \cup {text}
    /\ \E o \in OpenedBox(key, f) :
         /\ fileOf' = o.files
         /\ label' = o.labels
         /\ boxes' = o.made
         /\ scribe' = [scribe EXCEPT ![w] = [kind |-> "add", box |-> o.box, text |-> text]]
    /\ UNCHANGED <<held, shares, share, partners>>

\* journal_add of a session in f.
BeginAdd(w, f, text) == OpenFor(ResolvedKey(f), f, w, text)

\* journal_import into f: the key is the folder's, whatever it shares.
BeginImport(w, f, text) == OpenFor(ProjectKey(f), f, w, text)

FinishAdd(w) ==
    /\ scribe[w] # Idle
    /\ held' = [held EXCEPT ![scribe[w].box] = @ \cup {scribe[w].text}]
    /\ scribe' = [scribe EXCEPT ![w] = Idle]
    /\ UNCHANGED <<fileOf, label, boxes, shares, share, partners, spent>>

\* adopt_path_journal dies after the label changed and before the rename: the
\* file is the directory's by name and the repository's by label.
AdoptCut(f) ==
    /\ Adopts(ResolvedKey(f), f)
    /\ label' = [label EXCEPT ![fileOf[f]] = ResolvedKey(f)]
    /\ UNCHANGED <<fileOf, held, boxes, shares, scribe, share, partners, spent>>

\* share, run in folder f (by a session there or in a terminal) for folder g,
\* up to opening the two journals: what will be merged is g's own journal now.
\* It ends here when that one does not open.
BeginShare(f, g, key) ==
    LET own == ProjectKey(g)
    IN  /\ share = Idle /\ f # g
        /\ shares[g] = NoBox
        /\ own # key
        /\ Chains \/ (shares[f] = NoBox /\ \A h \in Folders : shares[h] # own)
        /\ \E o \in OpenedBox(key, key) :
             /\ fileOf' = o.files
             /\ label' = o.labels
             /\ boxes' = o.made
             /\ share' =
                  IF fileOf[own] # NoBox /\ ~Labelled(own) THEN Idle
                  ELSE [kind |-> "share", step |-> "merge", with |-> f, folder |-> g, key |-> key,
                        own |-> own, into |-> o.box,
                        had |-> IF fileOf[own] = NoBox THEN {} ELSE held[fileOf[own]]]
        /\ UNCHANGED <<held, shares, scribe, partners, spent>>

ShareAt(kind, step) == share.kind = kind /\ share.step = step

\* merge_into: the entries it listed, one after the other.
Merge ==
    /\ ShareAt("share", "merge")
    /\ held' = [held EXCEPT ![share.into] = @ \cup share.had]
    /\ share' = [share EXCEPT !.step = "retire"]
    /\ UNCHANGED <<fileOf, label, boxes, shares, scribe, partners, spent>>

\* retire: the folder's own file is renamed out of the way.
Retire ==
    /\ ShareAt("share", "retire")
    /\ fileOf' = [fileOf EXCEPT ![share.own] = NoBox]
    /\ share' = [share EXCEPT !.step = "record"]
    /\ UNCHANGED <<held, label, boxes, shares, scribe, partners, spent>>

\* A directory's key is given up when its first session files the journal
\* under the repository.  A share recorded for it is left behind; and a session
\* that still has such a row takes the copy an unshare has just made for the
\* journal of the key.  What follows is SharersAgree's business.
Moves(key) == key \in Folders /\ Repo[key] # NoBox

\* Mutant of Record: the row names the key the folder had, not the shared one.
RecordOwn ==
    /\ ShareAt("share", "record")
    /\ shares' = [shares EXCEPT ![share.folder] = share.own]
    /\ partners' = [partners EXCEPT ![share.folder] = share.with]
    /\ share' = [kind |-> "done", folder |-> share.folder, had |-> share.had]
    /\ UNCHANGED <<fileOf, held, label, boxes, scribe, spent>>

Record ==
    /\ ShareAt("share", "record")
    /\ shares' = [shares EXCEPT ![share.folder] = share.key]
    /\ partners' = [partners EXCEPT ![share.folder] = share.with]
    /\ share' = [kind |-> "done", folder |-> share.folder, had |-> IF Moves(share.key) THEN {} ELSE share.had]
    /\ UNCHANGED <<fileOf, held, label, boxes, scribe, spent>>

\* unshare: a copy of the shared journal becomes the folder's own, then the row
\* goes; refused while the folder has a journal of its own.
BeginUnshare(g) ==
    LET key == shares[g]
        own == ProjectKey(g)
        had == Reads(g)
    IN  /\ share = Idle
        /\ key # NoBox
        /\ IF fileOf[key] = NoBox THEN UNCHANGED <<fileOf, held, label, boxes>>
           ELSE /\ Labelled(key)
                /\ fileOf[own] = NoBox
                /\ boxes + 1 \in BoxNumbers
                /\ boxes' = boxes + 1
                /\ fileOf' = [fileOf EXCEPT ![own] = boxes']
                /\ held' = [held EXCEPT ![boxes'] = held[fileOf[key]]]
                /\ label' = [label EXCEPT ![boxes'] = own]
        /\ share' = [kind |-> "unshare", step |-> "record", folder |-> g, had |-> had]
        /\ UNCHANGED <<shares, scribe, partners, spent>>

Unrecord ==
    /\ ShareAt("unshare", "record")
    /\ shares' = [shares EXCEPT ![share.folder] = NoBox]
    /\ partners' = [partners EXCEPT ![share.folder] = NoBox]
    /\ share' = [kind |-> "done", folder |-> share.folder,
                 had |-> IF Moves(shares[share.folder]) THEN {} ELSE share.had]
    /\ UNCHANGED <<fileOf, held, label, boxes, scribe, spent>>

\* The command returns, or the daemon dies or an I/O error ends it between two
\* of its steps; tasks under way die with the daemon, or go on.
EndCommand ==
    /\ share # Idle
    /\ share' = Idle
    /\ UNCHANGED <<fileOf, held, label, boxes, shares, scribe, partners, spent>>

FilesRestart ==
    /\ scribe' = [w \in Scribes |-> Idle]
    /\ share' = Idle
    /\ UNCHANGED <<fileOf, held, label, boxes, shares, partners, spent>>

FilesNext ==
    \/ \E w \in Scribes :
         \/ \E f \in Folders, t \in Texts : BeginAdd(w, f, t) \/ BeginImport(w, f, t)
         \/ FinishAdd(w)
    \/ \E f \in Folders : AdoptCut(f) \/ BeginUnshare(f)
    \/ \E f, g \in Folders : \E key \in {ResolvedKey(f), ReadKey(f)} : BeginShare(f, g, key)
    \/ Merge \/ Retire \/ Record \/ Unrecord \/ EndCommand \/ FilesRestart

FilesSpec == FilesInit /\ [][FilesNext]_filesVars

----------------------------------------------------------------------------
\* A key's file exists, holds texts that were written, and no file is filed
\* under two keys.
FilesTypeOK ==
    /\ fileOf \in [Keys -> (1 .. boxes) \cup {NoBox}]
    /\ held \in [BoxNumbers -> SUBSET spent]
    /\ label \in [BoxNumbers -> Keys \cup {NoBox}]
    /\ shares \in [Folders -> Keys \cup {NoBox}]
    /\ \A k, l \in Keys : k # l /\ fileOf[k] # NoBox => fileOf[k] # fileOf[l]

\* A share or an unshare that reports success has cost its folder nothing: what
\* the folder read when the command began it still reads (README.md:301, "The
\* folder's own entries are merged in"), whatever was written, adopted or cut
\* short around it; but for a shared key that Moves.
ShareKeepsEntries ==
    share.kind = "done" => share.had \subseteq Reads(share.folder)

\* README.md:301: after journal share "that folder's reads and writes go to
\* this journal": until it is unshared, the folder and the one whose journal it
\* shares are on one file.
SharersAgree ==
    share = Idle =>
      \A f \in Folders : partners[f] # NoBox => fileOf[ReadKey(f)] = fileOf[ReadKey(partners[f])]
=============================================================================
