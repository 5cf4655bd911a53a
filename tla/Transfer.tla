------------------------------ MODULE Transfer ------------------------------
(***************************************************************************)
(* Conversations carried between machines and copied on one: chat dump    *)
(* and load (chat_transfer.rs, main.rs), chat clone (chat_clone.rs) and the nick   *)
(* and journal a load hands over.  A conversation is three places on disk, *)
(* none of which moves together with another: a transcript and a session   *)
(* folder in a project's folder, and a history folder of the machine.      *)
(* Commands are processes of their own: they interleave step by step,      *)
(* break off at any step and may be killed at any step.                    *)
(*                                                                         *)
(* "what is in a place" is the command that put it there.  An archive is   *)
(* the conversation it holds and the side folders packed with it; the text *)
(* of transcripts, the rewriting of ids and paths and the zip format are   *)
(* left out.                                                               *)
(***************************************************************************)
EXTENDS FiniteSets

CONSTANTS Commands,      \* invocations of chat load and chat clone
          Conversations, \* conversation ids
          Foreign,       \* those other machines have archives of
          Projects,      \* project folders
          Nobody         \* not a command: nothing is there

ASSUME TransferAssumption ==
    /\ Nobody \notin Commands /\ Foreign \subseteq Conversations
    /\ Commands \cap Conversations = {}  \* a minted uuid is new

VARIABLES disk,    \* disk[p]: the command that put what is at place p
          whole,   \* transcripts that were written to their end
          command, \* command[c]: what invocation c has done so far
          archive, \* archive[c]: the zip that invocation c packs here
          named,   \* conversations this machine remembers a nick for
          imported \* conversations whose journal was handed to the daemon

transferVars == <<disk, whole, command, archive, named, imported>>

\* An id given by the archive, or minted: the invocation stands for its uuid.
Ids == Conversations \cup Commands

Transcript(f, id) == <<"transcript", f, id>>
SessionDir(f, id) == <<"session", f, id>>
HistoryDir(id) == <<"history", "machine", id>>

Places == {Transcript(f, id) : f \in Projects, id \in Ids}
            \cup {SessionDir(f, id) : f \in Projects, id \in Ids}
            \cup {HistoryDir(id) : id \in Ids}

Side == {"session", "history"}
Nothing == [kind |-> "none"]

TransferInit ==
    /\ disk \in [Places -> {Nobody}]
    /\ whole = {}
    /\ command = [c \in Commands |-> Nothing]
    /\ archive = [c \in Commands |-> Nothing]
    /\ named = {}
    /\ imported = {}

Present(p) == disk[p] # Nobody
Empty(places) == [p \in Places |-> IF p \in places THEN Nobody ELSE disk[p]]
Put(c, p) == [disk EXCEPT ![p] = c]

\* Claude Code starts a conversation of its own: the source of a clone, and
\* what an archive made on this machine came from.
Converse(f, id, c) ==
    /\ command[c] = Nothing
    /\ id \in Conversations
    /\ \A g \in Projects : ~Present(Transcript(g, id))
    /\ ~Present(HistoryDir(id)) /\ ~Present(SessionDir(f, id))
    /\ \E side \in SUBSET Side :
         disk' = [p \in Places |->
                    IF \/ p = Transcript(f, id)
                       \/ p = SessionDir(f, id) /\ "session" \in side
                       \/ p = HistoryDir(id) /\ "history" \in side
                    THEN c ELSE disk[p]]
    /\ whole' = whole \cup {Transcript(f, id)}
    /\ command' = [command EXCEPT ![c] = [kind |-> "claude"]]
    /\ UNCHANGED <<archive, named, imported>>

\* The id is the machine's, not the project's: a transcript anywhere counts.
AlreadyHere(f, id) ==
    \/ \E g \in Projects : Present(Transcript(g, id))
    \/ Present(SessionDir(f, id))
    \/ Present(HistoryDir(id))

\* load_conversation up to the staging folders.
BeginLoad(c, f, id, newId, side, nick) ==
    LET as == IF newId THEN c ELSE id
    IN  /\ command[c] = Nothing
        /\ id \in Foreign \/ \E d \in Commands : archive[d] = [kind |-> "zip", id |-> id, side |-> side]
        /\ ~AlreadyHere(f, as)
        /\ command' = [command EXCEPT ![c] =
              [kind |-> "load", step |-> "session", folder |-> f, id |-> as, side |-> side,
               nick |-> nick /\ ~newId]]
        /\ UNCHANGED <<disk, whole, archive, named, imported>>

At(c, kind, step) == command[c].kind = kind /\ command[c].step = step
To(c, step) == command' = [command EXCEPT ![c].step = step]

\* A staged folder is renamed into its place; the rename fails where a folder
\* (never an empty one) has come up meanwhile.
PlaceDir(c, step, next, part, place) ==
    /\ At(c, "load", step)
    /\ IF part \notin command[c].side THEN To(c, next) /\ UNCHANGED disk
       ELSE /\ ~Present(place)
            /\ To(c, next)
            /\ disk' = Put(c, place)
    /\ UNCHANGED <<whole, archive, named, imported>>

PlaceSession(c) == PlaceDir(c, "session", "history", "session", SessionDir(command[c].folder, command[c].id))
PlaceHistory(c) == PlaceDir(c, "history", "transcript", "history", HistoryDir(command[c].id))

\* Mutant of PlaceTranscript: before the folders it points at.
TranscriptFirst(c) ==
    LET t == Transcript(command[c].folder, command[c].id)
    IN  /\ command[c].kind = "load" /\ command[c].step \in {"session", "history", "transcript"}
        /\ disk' = Put(c, t)
        /\ whole' = whole \cup {t}
        /\ To(c, "nick")
        /\ UNCHANGED <<archive, named, imported>>

\* The transcript comes last; its rename replaces a file that is there.
PlaceTranscript(c) ==
    LET t == Transcript(command[c].folder, command[c].id)
    IN  /\ At(c, "load", "transcript")
        /\ disk' = Put(c, t)
        /\ whole' = whole \cup {t}
        /\ To(c, "nick")
        /\ UNCHANGED <<archive, named, imported>>

\* What the load would see again of itself, and only of itself, is removed.
Undone(c) ==
    LET f == command[c].folder
        id == command[c].id
    IN  IF Present(Transcript(f, id)) THEN {} ELSE {SessionDir(f, id), HistoryDir(id)}

\* A bad entry, a full disk, a rename refused: any step before the last may
\* fail, and the command undoes what it did.
LoadFails(c) ==
    /\ command[c].kind = "load"
    /\ command[c].step \in {"session", "history", "transcript"}
    /\ disk' = Empty(Undone(c))
    /\ To(c, "over")
    /\ UNCHANGED <<whole, archive, named, imported>>

\* load_nick: a nick this machine remembers already is kept.
LoadNick(c) ==
    /\ At(c, "load", "nick")
    /\ named' = IF command[c].nick THEN named \cup {command[c].id} ELSE named
    /\ To(c, "journal")
    /\ UNCHANGED <<disk, whole, archive, imported>>

\* import_entries and import_mindmaps; the daemon may not answer, and the
\* operator is told to import by hand.
LoadJournal(c) ==
    /\ At(c, "load", "journal")
    /\ imported' \in {imported, imported \cup {command[c].id}}
    /\ To(c, "over")
    /\ UNCHANGED <<disk, whole, archive, named>>

\* resolve_conversation: the project's own folder first, else the one folder
\* that has it.
Found(f, id) ==
    IF Present(Transcript(f, id)) THEN {f}
    ELSE LET others == {g \in Projects : Present(Transcript(g, id))}
         IN  IF Cardinality(others) = 1 THEN others ELSE {}

\* clone_conversation: side folders, transcript, title; the id is new.
BeginClone(c, f, id) ==
    /\ command[c] = Nothing
    /\ \E g \in Found(f, id) :
         command' = [command EXCEPT ![c] =
            [kind |-> "clone", step |-> "session", folder |-> g, id |-> c, side |-> {},
             source |-> id]]
    /\ UNCHANGED <<disk, whole, archive, named, imported>>

CopyDir(c, step, next, from, to) ==
    /\ At(c, "clone", step)
    /\ IF Present(from)
       THEN /\ disk' = Put(c, to)
            /\ command' = [command EXCEPT ![c].step = next, ![c].side = @ \cup {step}]
       ELSE To(c, next) /\ UNCHANGED disk
    /\ UNCHANGED <<whole, archive, named, imported>>

CopySession(c) ==
    LET f == command[c].folder
    IN  CopyDir(c, "session", "history", SessionDir(f, command[c].source), SessionDir(f, c))

CopyHistory(c) == CopyDir(c, "history", "transcript", HistoryDir(command[c].source), HistoryDir(c))

CreateTranscript(c) ==
    /\ At(c, "clone", "transcript")
    /\ disk' = Put(c, Transcript(command[c].folder, c))
    /\ To(c, "lines")
    /\ UNCHANGED <<whole, archive, named, imported>>

FinishClone(c) ==
    /\ At(c, "clone", "lines")
    /\ whole' = whole \cup {Transcript(command[c].folder, c)}
    /\ To(c, "over")
    /\ UNCHANGED <<disk, archive, named, imported>>

CloneFails(c) ==
    LET f == command[c].folder
    IN  /\ command[c].kind = "clone"
        /\ command[c].step # "over"
        /\ disk' = Empty({Transcript(f, c), SessionDir(f, c), HistoryDir(c)})
        /\ To(c, "over")
        /\ UNCHANGED <<whole, archive, named, imported>>

\* dump_conversation: the file is made first, never over one that is there,
\* and is no archive until its directory is written at the end.
BeginDump(c, f, id) ==
    /\ command[c] = Nothing
    /\ \E g \in Found(f, id) :
         command' = [command EXCEPT ![c] =
            [kind |-> "dump", step |-> "pack", folder |-> g, source |-> id]]
    /\ archive' = [archive EXCEPT ![c] = [kind |-> "cut"]]
    /\ UNCHANGED <<disk, whole, named, imported>>

FinishDump(c) ==
    LET f == command[c].folder
        id == command[c].source
    IN  /\ At(c, "dump", "pack")
        /\ archive' = [archive EXCEPT ![c] =
              [kind |-> "zip", id |-> id,
               side |-> {part \in Side : Present(IF part = "session" THEN SessionDir(f, id)
                                                 ELSE HistoryDir(id))}]]
        /\ To(c, "over")
        /\ UNCHANGED <<disk, whole, named, imported>>

DumpFails(c) ==
    /\ At(c, "dump", "pack")
    /\ archive' = [archive EXCEPT ![c] = Nothing]
    /\ To(c, "over")
    /\ UNCHANGED <<disk, whole, named, imported>>

\* The process is killed: nothing is undone.
Killed(c) ==
    /\ command[c].kind \in {"load", "clone", "dump"}
    /\ command[c].step # "over"
    /\ To(c, "over")
    /\ UNCHANGED <<disk, whole, archive, named, imported>>

TransferNext ==
    \E c \in Commands :
       \/ \E f \in Projects, id \in Ids : Converse(f, id, c) \/ BeginClone(c, f, id) \/ BeginDump(c, f, id)
       \/ \E f \in Projects, id \in Conversations, newId \in BOOLEAN, side \in SUBSET Side,
            nick \in BOOLEAN : BeginLoad(c, f, id, newId, side, nick)
       \/ PlaceSession(c) \/ PlaceHistory(c) \/ PlaceTranscript(c) \/ LoadFails(c)
       \/ LoadNick(c) \/ LoadJournal(c)
       \/ CopySession(c) \/ CopyHistory(c) \/ CreateTranscript(c) \/ FinishClone(c)
       \/ CloneFails(c) \/ FinishDump(c) \/ DumpFails(c) \/ Killed(c)

TransferSpec == TransferInit /\ [][TransferNext]_transferVars

----------------------------------------------------------------------------
\* Every place is empty or holds what one command put, and only transcripts
\* are ever whole.
TransferTypeOK ==
    /\ disk \in [Places -> Commands \cup {Nobody}]
    /\ whole \subseteq {Transcript(f, id) : f \in Projects, id \in Ids}
    /\ named \subseteq Ids /\ imported \subseteq Ids
    /\ \A c \in Commands : command[c].kind \in {"none", "claude", "load", "clone", "dump"}

\* A copy under an id of its own, by chat clone or chat load --new-id, is
\* listed by /resume only once every folder its transcript points at is there,
\* wherever the command failed or was killed: the transcript comes last
\* (chat_clone.rs:291, chat_transfer.rs:42) and an undo takes nothing from a
\* copy that is already listed.
CopyIsComplete ==
    \A c \in Commands, f \in Projects :
       command[c].kind \in {"load", "clone"} /\ Present(Transcript(f, c))
         => /\ "session" \in command[c].side => disk[SessionDir(f, c)] = c
            /\ "history" \in command[c].side => disk[HistoryDir(c)] = c

\* chat_transfer.rs:40-43: "Everything lands in staging folders first and the
\* transcript is put in place last, so a failed load leaves no half
\* conversation visible to /resume": a loaded conversation has the folders its
\* load had brought.
LoadedIsWhole ==
    \A c \in Commands :
       command[c].kind = "load" /\ command[c].step \in {"nick", "journal"}
         => /\ "session" \in command[c].side => Present(SessionDir(command[c].folder, command[c].id))
            /\ "history" \in command[c].side => Present(HistoryDir(command[c].id))
=============================================================================
