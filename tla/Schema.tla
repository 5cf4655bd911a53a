--------------------------------- MODULE Schema ---------------------------------
(***************************************************************************)
(* How the two databases get their tables: the document index of a project *)
(* (store.rs open_or_init_v2, migrations.rs) and chat.db (daemon/chat.rs   *)
(* ensure_chat_db_schema).  There is no migration process: every command,  *)
(* session and daemon migrates what it opens, several at a time, and any   *)
(* of them may be killed between two statements.                           *)
(*                                                                         *)
(* A script is a sequence of steps, each one statement or one transaction. *)
(* An opener looks at the version once, then runs the script for it.       *)
(***************************************************************************)
EXTENDS Naturals, Sequences, FiniteSets

CONSTANTS Openers,   \* processes that open the databases
          Terminals, \* terminals with a nick of their own in one directory
          MaxKills   \* bound: openers killed

ASSUME SchemaAssumption == MaxKills \in Nat

VARIABLES index,   \* objects and columns of index.db
          version, \* its schema_version, 0: no row
          chat,    \* what chat.db has
          memory,  \* nick_memory: terminals with a row, "" the directory's
          chosen,  \* terminals on which a nick has been chosen
          script,  \* [Openers -> steps to go]
          probed,  \* [Openers -> columns its last look found missing]
          opener,  \* [Openers -> where it is, see SchemaTypeOK]
          alone,   \* openers beside whom nobody has opened anything
          kills

schemaVars == <<index, version, chat, memory, chosen, script, probed, opener, alone, kills>>

-----------------------------------------------------------------------------
(* index.db.                                                               *)

V1 == {"documents", "chunks", "chunks_fts", "schema_version"}
V2Columns == <<"type", "image_bytes">>
V3Columns == <<"page_start", "page_end">>
Insights == {"insight_tags", "salience"}
Current == 6
V6 == V1 \cup {"type", "image_bytes", "chunks_vec", "page_start", "page_end", "pages"}

Alter(c) == [do |-> "alter", what |-> {c}]
Create(s) == [do |-> "create", what |-> s]
Converge == [do |-> "converge", what |-> {}]  \* the transaction to Current
Stamp == [do |-> "stamp", what |-> {}]

\* Mutant of Fresh: the version goes in before what it stands for.
FreshStampFirst ==
    <<Stamp>> \o <<Alter("type"), Alter("image_bytes"), Create({"chunks_vec"}),
                   Alter("page_start"), Alter("page_end"), Create({"pages"})>>

\* v = 0: the deltas of V2 and V3, statement by statement, and the version.
Fresh ==
    <<Alter("type"), Alter("image_bytes"), Create({"chunks_vec"}),
      Alter("page_start"), Alter("page_end"), Create({"pages"}), Stamp>>

\* What open_or_init_v2 runs for the version it read.  An index of version 1
\* is left as it is.
ScriptFor(v) ==
    CASE v = 0 -> Fresh
      [] v = 2 -> <<[do |-> "v2", what |-> {}]>>
      [] v \in 3 .. Current - 1 -> <<Create({"chunks_vec", "pages"}), Converge>>
      [] OTHER -> <<>>

\* converge_v3: a `pages` of the first v3 gets its column renamed.
Renamed(objects) == (objects \ {"page_num"}) \cup (IF "page_num" \in objects THEN {"pages"} ELSE {})

\* The index after a step, or {} if the statement fails: a column is there.
Following(objects, s) ==
    CASE s.do = "alter" -> IF s.what \subseteq objects THEN {} ELSE objects \cup s.what
      [] s.do = "create" -> Renamed(objects) \cup s.what
      [] s.do = "v2" -> IF "page_start" \in objects THEN {}
                        ELSE (objects \ Insights) \cup {"page_start", "page_end", "pages"}
      [] s.do = "converge" -> objects \ Insights
      [] OTHER -> objects

\* The states earlier releases left, by their version.
Left == [v \in 0 .. Current |->
           CASE v = 0 -> {}
             [] v = 1 -> V1
             [] v = 2 -> V1 \cup {"type", "image_bytes", "chunks_vec"}
             [] v = 3 -> (V6 \ {"pages"}) \cup {"page_num"}
             [] v \in {4, 5} -> V6 \cup Insights
             [] OTHER -> V6]

Others(o) == {p \in Openers \ {o} : opener[p] \in {"index", "chat"}}
Begins(o) == alone' = IF Others(o) = {} THEN alone \cup {o} ELSE alone \ (Others(o) \cup {o})

\* SCHEMA_V1 and the look at the version.
OpenIndex(o) ==
    /\ opener[o] = "out"
    /\ index' = index \cup V1
    /\ script' = [script EXCEPT ![o] = ScriptFor(version)]
    /\ opener' = [opener EXCEPT ![o] = "index"]
    /\ Begins(o)
    /\ UNCHANGED <<version, chat, memory, chosen, probed, kills>>

\* A statement of the script; one that fails is taken for a corrupt index.
IndexStep(o) ==
    /\ opener[o] = "index" /\ script[o] # <<>>
    /\ LET s == Head(script[o])
           fails == Following(index, s) = {}
       IN  /\ index' = IF fails THEN index ELSE Following(index, s)
           /\ version' = IF ~fails /\ s.do \in {"stamp", "v2", "converge"} THEN Current ELSE version
           /\ opener' = IF fails THEN [opener EXCEPT ![o] = "noIndex"] ELSE opener
           /\ script' = [script EXCEPT ![o] = IF fails THEN <<>> ELSE Tail(@)]
    /\ UNCHANGED <<chat, memory, chosen, probed, alone, kills>>

\* run_migrations and validate_schema, of an index the script is done with.
ValidateIndex(o) ==
    /\ opener[o] = "index" /\ script[o] = <<>>
    /\ version' = IF version = 0 THEN 1 ELSE version
    /\ opener' = [opener EXCEPT ![o] = IF V1 \subseteq index /\ version' \in 1 .. Current
                                       THEN "open" ELSE "noIndex"]
    /\ UNCHANGED <<index, chat, memory, chosen, script, probed, alone, kills>>

-----------------------------------------------------------------------------
(* chat.db.                                                                *)

Tables == {"base", "bots", "chat_bindings", "conversation_nick", "pending_voice",
           "callback_tokens", "pending_asks"}
Whole == {"routing", "c2c"}     \* columns and index, looked for in the transaction
Columns == {"session_token", "message_thread_id", "claude_session_id", "registry_terminal",
            "is_voice"}         \* looked for, then added
Everything == Tables \cup Whole \cup Columns \cup {"nick_memory", "terminal"}

\* ensure_chat_db_schema: the migrations, in its order.
Migrations ==
    <<"base", "routing", "session_token", "bots", "chat_bindings", "nick_memory", "terminal",
      "message_thread_id", "conversation_nick", "claude_session_id", "registry_terminal",
      "is_voice", "pending_voice", "callback_tokens", "pending_asks", "c2c">>

\* Mutant of Missing: the column is not looked for.
MissingUnasked(c, has) == TRUE

Missing(c, has) == c \notin has

OpenChat(o) ==
    /\ opener[o] = "out"
    /\ script' = [script EXCEPT ![o] = Migrations]
    /\ opener' = [opener EXCEPT ![o] = "chat"]
    /\ Begins(o)
    /\ UNCHANGED <<index, version, chat, memory, chosen, probed, kills>>

Next1(o) == script' = [script EXCEPT ![o] = Tail(@)]

\* CREATE ... IF NOT EXISTS, or a transaction that looks for itself.
Idempotent(o) ==
    /\ opener[o] = "chat" /\ script[o] # <<>>
    /\ Head(script[o]) \in Tables \cup Whole \cup {"nick_memory"}
    /\ chat' = chat \cup {Head(script[o])}
    /\ Next1(o)
    /\ UNCHANGED <<index, version, memory, chosen, probed, opener, alone, kills>>

\* The look of the others, at the table's columns.
Probe(o) ==
    /\ opener[o] = "chat" /\ script[o] # <<>> /\ probed[o] = {}
    /\ Head(script[o]) \in Columns \cup {"terminal"}
    /\ IF Missing(Head(script[o]), chat)
       THEN probed' = [probed EXCEPT ![o] = {Head(script[o])}] /\ UNCHANGED script
       ELSE Next1(o) /\ UNCHANGED probed
    /\ UNCHANGED <<index, version, chat, memory, chosen, opener, alone, kills>>

\* ALTER TABLE ... ADD COLUMN: another opener may have added it since.
AddColumn(o) ==
    /\ probed[o] \cap Columns # {}
    /\ probed' = [probed EXCEPT ![o] = {}]
    /\ IF probed[o] \subseteq chat
       THEN /\ opener' = [opener EXCEPT ![o] = "noChat"]
            /\ script' = [script EXCEPT ![o] = <<>>] /\ UNCHANGED chat
       ELSE chat' = chat \cup probed[o] /\ Next1(o) /\ UNCHANGED opener
    /\ UNCHANGED <<index, version, memory, chosen, alone, kills>>

\* widen_nick_memory_to_terminals: the table is made anew, what it holds goes
\* to the directory's row.  Two rows would have the same key: it fails.
Widen(o) ==
    /\ probed[o] = {"terminal"}
    /\ probed' = [probed EXCEPT ![o] = {}]
    /\ IF Cardinality(memory) > 1
       THEN /\ opener' = [opener EXCEPT ![o] = "noChat"]
            /\ script' = [script EXCEPT ![o] = <<>>] /\ UNCHANGED <<chat, memory>>
       ELSE /\ chat' = chat \cup {"terminal"}
            /\ memory' = {"" : m \in memory}
            /\ Next1(o) /\ UNCHANGED opener
    /\ UNCHANGED <<index, version, chosen, alone, kills>>

ChatIsOpen(o) ==
    /\ opener[o] = "chat" /\ script[o] = <<>>
    /\ opener' = [opener EXCEPT ![o] = "open"]
    /\ UNCHANGED <<index, version, chat, memory, chosen, script, probed, alone, kills>>

\* remember_nick, of a session in terminal t: its row, then the directory's.
Choose(o, t) ==
    /\ opener[o] = "open" /\ "terminal" \in chat
    /\ memory' = memory \cup {t} /\ chosen' = chosen \cup {t}
    /\ opener' = [opener EXCEPT ![o] = "naming"]
    /\ UNCHANGED <<index, version, chat, script, probed, alone, kills>>

ChooseForDirectory(o) ==
    /\ opener[o] = "naming"
    /\ memory' = memory \cup {""}
    /\ opener' = [opener EXCEPT ![o] = "open"]
    /\ UNCHANGED <<index, version, chat, chosen, script, probed, alone, kills>>

-----------------------------------------------------------------------------
Close(o) ==
    /\ opener[o] \in {"open", "noIndex", "noChat"}
    /\ opener' = [opener EXCEPT ![o] = "out"]
    /\ UNCHANGED <<index, version, chat, memory, chosen, script, probed, alone, kills>>

\* Ctrl-C, a crash, a reboot: what is committed stays.
Kill(o) ==
    /\ opener[o] \in {"index", "chat", "naming"} /\ kills < MaxKills
    /\ kills' = kills + 1
    /\ opener' = [opener EXCEPT ![o] = "out"]
    /\ script' = [script EXCEPT ![o] = <<>>] /\ probed' = [probed EXCEPT ![o] = {}]
    /\ UNCHANGED <<index, version, chat, memory, chosen, alone>>

SchemaInit ==
    /\ version \in 0 .. Current /\ index = Left[version]
    /\ chat \in {{}, {"base", "routing", "session_token", "nick_memory"}}
    /\ memory \in IF chat = {} THEN {{}} ELSE {{}, {""}}
    /\ chosen = {}
    /\ script = [o \in Openers |-> <<>>] /\ probed = [o \in Openers |-> {}]
    /\ opener = [o \in Openers |-> "out"]
    /\ alone = {} /\ kills = 0

SchemaNext ==
    \E o \in Openers :
        \/ OpenIndex(o) \/ IndexStep(o) \/ ValidateIndex(o)
        \/ OpenChat(o) \/ Idempotent(o) \/ Probe(o) \/ AddColumn(o) \/ Widen(o) \/ ChatIsOpen(o)
        \/ \E t \in Terminals : Choose(o, t)
        \/ ChooseForDirectory(o) \/ Close(o) \/ Kill(o)

SchemaSpec == SchemaInit /\ [][SchemaNext]_schemaVars

SchemaTypeOK ==
    /\ version \in 0 .. Current /\ chat \subseteq Everything
    /\ index \subseteq V6 \cup Insights \cup {"page_num"}
    /\ chosen \subseteq Terminals /\ memory \subseteq Terminals \cup {""}
    /\ \A o \in Openers : probed[o] \subseteq Columns \cup {"terminal"} /\ Cardinality(probed[o]) <= 1
    /\ opener \in [Openers -> {"out", "index", "chat", "open", "naming", "noIndex", "noChat"}]
    /\ kills \in 0 .. MaxKills

-----------------------------------------------------------------------------
\* open_or_init_v2, "schema_version=6: idempotent re-open": the version is
\* never ahead of the objects, with whoever migrates beside and wherever one
\* is killed: what reads 6 needs to look no further.
VersionTells == version = Current => index = V6

\* apply_routing_migration, "a daemon crash mid-ALTER leaves the schema either
\* fully pre-migration or fully post": whatever was left, by however many
\* openers, the next one that is alone gets through all of chat.db.
ChatOpensAlone == \A o \in alone : opener[o] # "noChat"

\* ensure_chat_db_schema: an opener that got through finds everything there.
OpenedFindsAll ==
    \A o \in Openers : opener[o] = "chat" =>
        Everything \ {script[o][i] : i \in DOMAIN script[o]} \subseteq chat

SchemaSafe == VersionTells /\ ChatOpensAlone /\ OpenedFindsAll

\* open_and_validate, "lets reads against a brand-new project ... return empty
\* results instead of falsely flagging "corrupt"": a command that is alone
\* with the index is not told so.
IndexOpensAgain == \A o \in alone : opener[o] # "noIndex"

\* widen_nick_memory_to_terminals, "Give each terminal its own slot".
TerminalsKeepTheirs == chosen \subseteq memory
=============================================================================
