---------------------------- MODULE AgentRegistry ----------------------------
(***************************************************************************)
(* Who is on the map, and to whom a Telegram chat is routed: the           *)
(* agent_registry and chat_bindings tables (daemon/agent_registry.rs), the *)
(* registration and rename handlers (daemon/server.rs) and /switch         *)
(* (daemon/telegram.rs).                                                   *)
(*                                                                         *)
(* A handler runs its statements on a connection of its own, each          *)
(* committed by itself, so the other handlers run between them; only the   *)
(* row of a registration and a /switch are transactions.  The requests of  *)
(* one connection are handled one after the other.  All sessions run in    *)
(* one directory of the daemon's host.                                     *)
(***************************************************************************)
EXTENDS Naturals

CONSTANTS Sessions,   \* agent_ids, one per supervisor process
          Names,      \* nicks
          Nick,       \* [Sessions -> Names], the nick a process registers with
          Chats,      \* (routing_chat_id, routing_thread_id)
          Users,      \* Telegram users
          NoOne,      \* NULL, in no set above
          MaxConns,   \* bound: [Sessions -> connections its process makes]
          Renamed     \* bound: the sessions that are renamed

ASSUME RegistryAssumption ==
    /\ Nick \in [Sessions -> Names]
    /\ NoOne \notin Chats \cup Names \cup Users
    /\ MaxConns \in [Sessions -> Nat] /\ Renamed \in SUBSET Sessions

VARIABLES
    running,   \* sessions whose process exists
    link,      \* [Sessions -> Nat], the connection it uses, 0: none
    made,      \* [Sessions -> Nat], connections made so far
    open,      \* [Sessions -> set of connections the daemon has not seen close]
    row,       \* agent_registry.state, "none": no row
    name,      \* agent_registry.agent_name
    owner,     \* agent_registry.connection_id
    chat,      \* agent_registry.routing_chat_id, routing_thread_id
    lastUser,  \* agent_registry.last_user_id
    bound,     \* chat_bindings: [Chats -> Names \cup {NoOne}]
    reg,       \* [Sessions -> [Conns -> handler of agent_register]]
    ren        \* [Sessions -> handler of agent_rename]

wires == <<running, link, made, open>>
rows == <<row, name, owner, chat, lastUser>>
vars == <<wires, rows, bound, reg, ren>>

Conns == UNION {1..MaxConns[a] : a \in Sessions}
RegSteps == {"idle", "asked", "rowed", "restoring", "cleared", "done", "refused"}
RegHandlers == [at : RegSteps, nick : Names \cup {NoOne},
                todo : SUBSET Chats, next : Chats \cup {NoOne}]
RenHandlers == [at : {"idle", "checked", "named"},
                old : Names \cup {NoOne}, new : Names \cup {NoOne}]
NoReg == [at |-> "idle", nick |-> NoOne, todo |-> {}, next |-> NoOne]
NoRen == [at |-> "idle", old |-> NoOne, new |-> NoOne]

RegistryTypeOK ==
    /\ running \in SUBSET Sessions
    /\ made \in [Sessions -> Nat] /\ \A a \in Sessions : made[a] <= MaxConns[a]
    /\ link \in [Sessions -> {0} \cup Conns]
    /\ open \in [Sessions -> SUBSET Conns]
    /\ row \in [Sessions -> {"none", "alive", "orphaned", "dead"}]
    /\ name \in [Sessions -> Names \cup {NoOne}]
    /\ owner \in [Sessions -> {0} \cup Conns]
    /\ chat \in [Sessions -> Chats \cup {NoOne}]
    /\ lastUser \in [Sessions -> Users \cup {NoOne}]
    /\ bound \in [Chats -> Names \cup {NoOne}]
    /\ reg \in [Sessions -> [Conns -> RegHandlers]]
    /\ ren \in [Sessions -> RenHandlers]

Init ==
    /\ running = Sessions
    /\ link = [a \in Sessions |-> 0] /\ made = [a \in Sessions |-> 0]
    /\ open = [a \in Sessions |-> {}]
    /\ row = [a \in Sessions |-> "none"]
    /\ name = [a \in Sessions |-> NoOne]
    /\ owner = [a \in Sessions |-> 0]
    /\ chat = [a \in Sessions |-> NoOne]
    /\ lastUser = [a \in Sessions |-> NoOne]
    /\ bound = [k \in Chats |-> NoOne]
    /\ reg = [a \in Sessions |-> [c \in Conns |-> NoReg]]
    /\ ren = [a \in Sessions |-> NoRen]

Holds(a, k) == row[a] = "alive" /\ chat[a] = k

-----------------------------------------------------------------------------
(* Connections.  The supervisor's side of a connection ends before the     *)
(* daemon notices, and a new one may be in use by then.                    *)

(* daemon_leg: connect, and ask to be registered.                          *)
Connect(a) ==
    /\ a \in running /\ link[a] = 0 /\ made[a] < MaxConns[a]
    /\ LET c == made[a] + 1
       IN /\ link' = [link EXCEPT ![a] = c]
          /\ made' = [made EXCEPT ![a] = c]
          /\ open' = [open EXCEPT ![a] = @ \cup {c}]
          /\ reg' = [reg EXCEPT ![a][c].at = "asked"]
    /\ UNCHANGED <<running, rows, bound, ren>>

LinkLost(a) ==
    /\ link[a] # 0
    /\ link' = [link EXCEPT ![a] = 0]
    /\ UNCHANGED <<running, made, open, rows, bound, reg, ren>>

Exit(a) ==
    /\ a \in running
    /\ running' = running \ {a}
    /\ link' = [link EXCEPT ![a] = 0]
    /\ UNCHANGED <<made, open, rows, bound, reg, ren>>

\* Mutant of Orphan: the row goes whichever of its connections ended.
OrphanAnyConnection(a, c) ==
    row' = [row EXCEPT ![a] = IF @ = "alive" THEN "orphaned" ELSE @]

\* Mutant of Orphan: a state the table's CHECK refuses.
OrphanAsClosed(a, c) ==
    row' = [row EXCEPT ![a] = IF @ = "alive" /\ owner[a] = c THEN "closed" ELSE @]

(* mark_connection_orphaned                                                *)
Orphan(a, c) ==
    row' = [row EXCEPT ![a] = IF @ = "alive" /\ owner[a] = c THEN "orphaned" ELSE @]

(* run_request_loop: the read fails, after the requests that were sent     *)
(* before or, when the connection was reset, without them.                 *)
SeesClose(a, c) ==
    /\ c \in open[a] /\ c # link[a]
    /\ reg[a][c].at \in {"asked", "done", "refused"}
    /\ open' = [open EXCEPT ![a] = @ \ {c}]
    /\ reg' = [reg EXCEPT ![a][c] = NoReg]
    /\ Orphan(a, c)
    /\ UNCHANGED <<running, link, made, name, owner, chat, lastUser, bound, ren>>

(* The daemon stops and starts: reap_on_boot.                              *)
RestartDaemon ==
    /\ link' = [a \in Sessions |-> 0]
    /\ open' = [a \in Sessions |-> {}]
    /\ reg' = [a \in Sessions |-> [c \in Conns |-> NoReg]]
    /\ ren' = [a \in Sessions |-> NoRen]
    /\ row' = [a \in Sessions |-> IF row[a] = "alive" THEN "orphaned" ELSE row[a]]
    /\ UNCHANGED <<running, made, name, owner, chat, lastUser, bound>>

-----------------------------------------------------------------------------
(* agent_register: the row, then the chats bound to its nick one by one,   *)
(* then the rows that dead sessions of this nick left behind.              *)

(* The unique index on the routing key of live rows.                       *)
Clashes(a, k) == k # NoOne /\ \E b \in Sessions \ {a} : Holds(b, k)

(* register(): a row that exists keeps its name, and its routing key with  *)
(* it.  (A supervisor registers one id, so its connection has no other     *)
(* row to bury.)                                                           *)
RegisterRow(a, c) ==
    /\ reg[a][c].at = "asked" /\ c \in open[a]
    /\ ~Clashes(a, chat[a])
    /\ row' = [row EXCEPT ![a] = "alive"]
    /\ name' = [name EXCEPT ![a] = IF row[a] = "none" THEN Nick[a] ELSE @]
    /\ owner' = [owner EXCEPT ![a] = c]
    /\ reg' = [reg EXCEPT ![a][c].at = "rowed", ![a][c].nick = name'[a]]
    /\ UNCHANGED <<wires, chat, lastUser, bound, ren>>

(* The index refuses the row; the supervisor asks three times, and goes on *)
(* without a registration.                                                 *)
RefuseRow(a, c) ==
    /\ reg[a][c].at = "asked" /\ c \in open[a]
    /\ Clashes(a, chat[a])
    /\ reg' = [reg EXCEPT ![a][c].at = "refused"]
    /\ UNCHANGED <<wires, rows, bound, ren>>

(* restore_bindings_for: read the bindings of the nick ...                 *)
ReadBindings(a, c) ==
    /\ reg[a][c].at = "rowed"
    /\ reg' = [reg EXCEPT ![a][c].at = "restoring",
                          ![a][c].todo = {k \in Chats : bound[k] = reg[a][c].nick}]
    /\ UNCHANGED <<wires, rows, bound, ren>>

(* ... and for each chat clear the key in every other row, of any state,   *)
ClearHolders(a, c, k) ==
    /\ reg[a][c].at = "restoring" /\ k \in reg[a][c].todo
    /\ chat' = [b \in Sessions |-> IF b # a /\ chat[b] = k THEN NoOne ELSE chat[b]]
    /\ reg' = [reg EXCEPT ![a][c].at = "cleared", ![a][c].next = k]
    /\ UNCHANGED <<wires, row, name, owner, lastUser, bound, ren>>

(* then set it in this one.  Somebody may have taken the chat in between:  *)
(* the index refuses, and the rest of the chats is left.                   *)
TakeChat(a, c) ==
    /\ reg[a][c].at = "cleared"
    /\ LET k == reg[a][c].next
           refused == row[a] = "alive" /\ Clashes(a, k)
       IN /\ chat' = [chat EXCEPT ![a] = IF refused THEN @ ELSE k]
          /\ reg' = [reg EXCEPT ![a][c].at = "restoring", ![a][c].next = NoOne,
                                ![a][c].todo = IF refused THEN {} ELSE @ \ {k}]
    /\ UNCHANGED <<wires, row, name, owner, lastUser, bound, ren>>

\* Mutant of Supersede: whoever has the nick is buried, running or not.
SupersedeRunning(a, c) ==
    /\ reg[a][c].at = "restoring" /\ reg[a][c].todo = {}
    /\ row' = [b \in Sessions |->
          IF b # a /\ row[b] # "none" /\ name[b] = reg[a][c].nick THEN "dead" ELSE row[b]]
    /\ reg' = [reg EXCEPT ![a][c] = [NoReg EXCEPT !.at = "done"]]
    /\ UNCHANGED <<wires, name, owner, chat, lastUser, bound, ren>>

(* supersede_stale_slots: only rows whose process is gone, which no        *)
(* process will use again.                                                 *)
Supersede(a, c) ==
    /\ reg[a][c].at = "restoring" /\ reg[a][c].todo = {}
    /\ row' = [b \in Sessions |->
          IF b # a /\ row[b] # "none" /\ name[b] = reg[a][c].nick /\ b \notin running
          THEN "dead" ELSE row[b]]
    /\ reg' = [reg EXCEPT ![a][c] = [NoReg EXCEPT !.at = "done"]]
    /\ UNCHANGED <<wires, name, owner, chat, lastUser, bound, ren>>

Unregister(a) ==
    /\ row[a] # "none"
    /\ row' = [row EXCEPT ![a] = "dead"]
    /\ UNCHANGED <<wires, name, owner, chat, lastUser, bound, reg, ren>>

(* reap(): orphaned for a day.                                             *)
Reap ==
    /\ \E S \in SUBSET {a \in Sessions : row[a] = "orphaned"} :
          row' = [a \in Sessions |-> IF a \in S THEN "dead" ELSE row[a]]
    /\ UNCHANGED <<wires, name, owner, chat, lastUser, bound, reg, ren>>

-----------------------------------------------------------------------------
(* agent_rename: a check, the row, the bindings; three statements.         *)

CheckName(a, n) ==
    /\ a \in Renamed /\ ren[a].at = "idle" /\ row[a] = "alive" /\ n # name[a]
    /\ \A b \in Sessions \ {a} : row[b] = "alive" => name[b] # n
    /\ ren' = [ren EXCEPT ![a] = [at |-> "checked", old |-> name[a], new |-> n]]
    /\ UNCHANGED <<wires, rows, bound, reg>>

RenameRow(a) ==
    /\ ren[a].at = "checked"
    /\ name' = [name EXCEPT ![a] = ren[a].new]
    /\ ren' = [ren EXCEPT ![a].at = "named"]
    /\ UNCHANGED <<wires, row, owner, chat, lastUser, bound, reg>>

(* migrate_bindings                                                        *)
MoveBindings(a) ==
    /\ ren[a].at = "named"
    /\ bound' = [k \in Chats |-> IF bound[k] = ren[a].old THEN ren[a].new ELSE bound[k]]
    /\ ren' = [ren EXCEPT ![a] = NoRen]
    /\ UNCHANGED <<wires, rows, reg>>

-----------------------------------------------------------------------------
(* Telegram.                                                               *)

(* A message of u arrives in chat k and is routed: stamp_last_user_id.     *)
Inbound(u, a, k) ==
    /\ Holds(a, k)
    /\ lastUser' = [lastUser EXCEPT ![a] = u]
    /\ UNCHANGED <<wires, row, name, owner, chat, bound, reg, ren>>

\* Mutant of MaySwitch: an unanswered chat may be taken by anyone.
MaySwitchUnstamped(u, b) == lastUser[b] \in {u, NoOne}

(* The gate: only who last wrote to the bound session may move the chat.   *)
MaySwitch(u, b) == lastUser[b] = u

\* Mutant of Switch: the session that held the chat keeps its key.
SwitchKeepsHolder(u, a, k) ==
    /\ row[a] = "alive" /\ a \in running
    /\ ~Holds(a, k)
    /\ \A b \in Sessions : Holds(b, k) => MaySwitch(u, b)
    /\ chat' = [chat EXCEPT ![a] = k]
    /\ bound' = [bound EXCEPT ![k] = name[a]]
    /\ UNCHANGED <<wires, row, name, owner, lastUser, reg, ren>>

(* handle_switch(): u gives chat k to the live session a, found by its     *)
(* nick (of several the most recent, left open here).  A chat that is      *)
(* there already stays as it is.                                           *)
Switch(u, a, k) ==
    /\ row[a] = "alive" /\ a \in running
    /\ ~Holds(a, k)
    /\ \A b \in Sessions : Holds(b, k) => MaySwitch(u, b)
    /\ chat' = [b \in Sessions |-> IF b = a THEN k
                                  ELSE IF Holds(b, k) THEN NoOne ELSE chat[b]]
    /\ bound' = [bound EXCEPT ![k] = name[a]]
    /\ UNCHANGED <<wires, row, name, owner, lastUser, reg, ren>>

-----------------------------------------------------------------------------
RegisterStep(a, c) ==
    \/ RegisterRow(a, c) \/ RefuseRow(a, c)
    \/ ReadBindings(a, c) \/ (\E k \in Chats : ClearHolders(a, c, k))
    \/ TakeChat(a, c) \/ Supersede(a, c)

Next ==
    \/ \E a \in Sessions : Connect(a) \/ LinkLost(a) \/ Exit(a) \/ Unregister(a)
    \/ \E a \in Sessions, c \in Conns : SeesClose(a, c) \/ RegisterStep(a, c)
    \/ RestartDaemon \/ Reap
    \/ \E a \in Sessions, n \in Names : CheckName(a, n)
    \/ \E a \in Sessions : RenameRow(a) \/ MoveBindings(a)
    \/ \E u \in Users, a \in Sessions, k \in Chats : Inbound(u, a, k) \/ Switch(u, a, k)

Spec == Init /\ [][Next]_vars

-----------------------------------------------------------------------------
(* resolve_routing() expects one answer: whatever handlers interleave, a   *)
(* chat is routed to one live session at most.                             *)
OneHolder ==
    \A k \in Chats, a, b \in Sessions : Holds(a, k) /\ Holds(b, k) => a = b

(* mark_connection_orphaned(): a connection the daemon sees close late     *)
(* does not take the session off the map that has registered on a new one. *)
LateCloseSpares ==
    [][\A a \in Sessions :
          row[a] = "alive" /\ owner[a] = link[a] /\ link'[a] = link[a] =>
              row'[a] # "orphaned"]_vars

(* supersede_stale_slots(): "Two sessions genuinely running side by side   *)
(* ... both stay": nobody's registration buries a running session.         *)
RunningIsNotBuried ==
    [][\A a \in running :
          row[a] = "alive" /\ row'[a] = "dead" => Unregister(a)]_vars

(* handle_switch() and restore_bindings_for(): a chat leaves a live        *)
(* session only for the user who last wrote to it, for a session of the    *)
(* nick the chat was bound to, or because that session took another chat.  *)
Released(a, k) ==
    \/ \E u \in Users, b \in Sessions : Switch(u, b, k) /\ lastUser[a] = u
    \/ \E b \in Sessions \ {a}, c \in Conns : k \in reg[b][c].todo
    \/ chat'[a] # NoOne
ChatStays ==
    [][\A a \in Sessions, k \in Chats :
          Holds(a, k) /\ row'[a] = "alive" /\ chat'[a] # k => Released(a, k)]_vars

(* docs/OPERATIONS.md, "sessions re-register by themselves": a session     *)
(* that is back in touch with the daemon is back on the map.               *)
SessionsReRegister ==
    \A a \in Sessions : link[a] # 0 => reg[a][link[a]].at # "refused"
=============================================================================
