-------------------------------- MODULE Routing --------------------------------
(***************************************************************************)
(* Whose session reads what the operator writes into the topics of one     *)
(* Telegram group: the routing of a batch (daemon/telegram.rs), the        *)
(* subscriptions to the group's thread (daemon/server.rs) and what a       *)
(* session makes of a frame or a backlog (daemon/subscribe_client.rs,      *)
(* supervisor/mod.rs).                                                     *)
(*                                                                         *)
(* All topics of a group share one thread, `telegram:<chat>`.  A routed    *)
(* message stays undelivered in the store, reached or not: only a backlog  *)
(* marks it.  Nicks are unique here; AgentRegistry has them contended, and *)
(* the steps of a registration apart.                                      *)
(***************************************************************************)
EXTENDS Naturals, Sequences, FiniteSets

CONSTANTS Agents,  \* sessions
          Topics,  \* topics of the group, General included
          General, \* what is written outside of topics: no message_thread_id
          Posts,   \* messages of the operator
          Unbound, \* NULL, in neither Agents nor Topics
          MaxDrops \* bound: connections that end

ASSUME RoutingAssumption ==
    General \in Topics /\ Unbound \notin Topics \cup Agents /\ MaxDrops \in Nat

VARIABLES online,  \* sessions with a connection
          live,    \* sessions whose row is 'alive'
          key,     \* [Agents -> routing key of its row]
          nickOf,  \* chat_bindings: [Topics -> Agents \cup {Unbound}]
          stamped, \* sessions whose last_user_id is the operator's
          kept,    \* posts stored and not drained
          where,   \* [Posts -> topic it was written in, Unbound: not yet]
          outcome, \* frames of the committed batch: [post, to]
          listens, \* sessions subscribed to the thread
          frames,  \* [Agents -> frames on the way to it]
          backlog, \* [Agents -> posts in the answer to its subscription]
          readBy,  \* [Posts -> sessions it was typed into]
          waiting, \* [Posts -> sessions that held its topic since it came]
          drops

registry == <<live, key, nickOf, stamped>>
feed == <<listens, frames, backlog>>
routingVars == <<online, registry, kept, where, outcome, feed, readBy, waiting, drops>>

Frames == [post : Posts, to : Agents \cup {Unbound}]

RoutingTypeOK ==
    /\ live \subseteq Agents /\ online \subseteq Agents /\ stamped \subseteq Agents
    /\ key \in [Agents -> Topics \cup {Unbound}]
    /\ nickOf \in [Topics -> Agents \cup {Unbound}]
    /\ where \in [Posts -> Topics \cup {Unbound}]
    /\ kept \subseteq {p \in Posts : where[p] # Unbound}
    /\ outcome \subseteq Frames /\ frames \in [Agents -> SUBSET Frames]
    /\ listens \subseteq online
    /\ backlog \in [Agents -> SUBSET (Posts \ kept)]
    /\ readBy \in [Posts -> SUBSET Agents] /\ waiting \in [Posts -> SUBSET Agents]
    /\ drops \in 0 .. MaxDrops

RoutingInit ==
    /\ online = Agents /\ live = Agents
    /\ key = [a \in Agents |-> Unbound] /\ nickOf = [t \in Topics |-> Unbound]
    /\ stamped = {} /\ kept = {} /\ where = [p \in Posts |-> Unbound]
    /\ outcome = {} /\ listens = {}
    /\ frames = [a \in Agents |-> {}] /\ backlog = [a \in Agents |-> {}]
    /\ readBy = [p \in Posts |-> {}] /\ waiting = [p \in Posts |-> {}]
    /\ drops = 0

\* resolve_routing, topic_owner: live rows with this key; Routed is one of
\* them, there are never two.
HoldersIn(L, k, t) == {a \in L : k[a] = t}
Routed(L, k, t) == IF HoldersIn(L, k, t) = {} THEN Unbound ELSE CHOOSE a \in HoldersIn(L, k, t) : TRUE

\* The history, with who holds the topics of the posts w now.
HeldSince(w, L, k) ==
    [p \in Posts |-> IF w[p] = Unbound THEN {} ELSE waiting[p] \cup HoldersIn(L, k, w[p])]

-----------------------------------------------------------------------------
(* A batch of the long poll: messages and /switch commands in one          *)
(* transaction, the frames published after it.                             *)

Written == [kind : {"post"}, topic : Topics, post : Posts]
Switches == [kind : {"switch"}, topic : Topics, agent : Agents]

Start == [key |-> key, nickOf |-> nickOf, stamped |-> stamped, where |-> where, frames |-> {}]

\* The operator's message: stored, addressed to the holder of its topic, who
\* is stamped.  (Sessions of `claudebase run` register without a thread, so an
\* @-mention finds none of them.)
PostRow(s, u) ==
    LET to == Routed(live, s.key, u.topic) IN
    [s EXCEPT !.where[u.post] = u.topic,
              !.stamped = @ \cup ({to} \cap Agents),
              !.frames = @ \cup {[post |-> u.post, to |-> to]}]

\* handle_switch: to a live session, from no one or from a session the
\* operator has written to.
SwitchTopic(s, u) ==
    LET from == HoldersIn(live, s.key, u.topic) IN
    IF u.agent \notin live \cap online \/ u.agent \in from \/ ~(from \subseteq s.stamped) THEN s
    ELSE [s EXCEPT !.key = [a \in Agents |->
                               IF a = u.agent THEN u.topic ELSE IF a \in from THEN Unbound ELSE @[a]],
                   !.nickOf[u.topic] = u.agent]

Update(s, u) == IF u.kind = "post" THEN PostRow(s, u) ELSE SwitchTopic(s, u)

\* One update after the other; a batch has two of them at most.
Applied(us) ==
    LET s == Update(Start, us[1]) IN IF Len(us) = 1 THEN s ELSE Update(s, us[2])

Batches ==
    {us \in UNION {[1..n -> Written \cup Switches] : n \in 1..2} :
        /\ \A i \in DOMAIN us : us[i].kind = "post" =>
              /\ where[us[i].post] = Unbound
              /\ \A j \in DOMAIN us \ {i} : us[j].kind = "post" => us[j].post # us[i].post}

HandlePost(us) ==
    LET s == Applied(us)
        fresh == {p \in Posts : where[p] # s.where[p]}
    IN  /\ outcome = {}
        /\ key' = s.key /\ nickOf' = s.nickOf /\ stamped' = s.stamped /\ where' = s.where
        /\ kept' = kept \cup fresh
        /\ outcome' = s.frames
        /\ LET addressed(p) == {f.to : f \in {g \in s.frames : g.post = p}} \cap Agents
           IN  waiting' = [p \in Posts |-> HeldSince(s.where, live, s.key)[p] \cup addressed(p)]
        /\ UNCHANGED <<online, live, feed, readBy, drops>>

Broadcast(f) ==
    /\ f \in outcome
    /\ outcome' = outcome \ {f}
    /\ frames' = [a \in Agents |-> IF a \in listens THEN frames[a] \cup {f} ELSE frames[a]]
    /\ UNCHANGED <<online, registry, kept, where, listens, backlog, readBy, waiting, drops>>

-----------------------------------------------------------------------------
(* The session.                                                            *)

\* subscribe_new_threads, handle_chat_subscribe, drain_backlog: with any topic
\* of the group in its row the session asks for the thread, and is given all
\* of it that is not delivered.  (Inbox has the steps apart.)
Listen(a) ==
    /\ a \in online \ listens /\ key[a] # Unbound
    /\ listens' = listens \cup {a}
    /\ backlog' = [backlog EXCEPT ![a] = kept]
    /\ kept' = {}
    /\ UNCHANGED <<online, registry, where, outcome, frames, readBy, waiting, drops>>

Typed(a, P) == readBy' = [p \in Posts |-> IF p \in P THEN readBy[p] \cup {a} ELSE readBy[p]]

\* pump: a frame that names the session.  The topic in it is a string and read
\* as a number, so the question is asked of the chat, and thread_belongs_to
\* says yes: chat_bound_to knows this session or nobody.
ReadLive(a, f) ==
    /\ a \in online /\ f \in frames[a]
    /\ frames' = [frames EXCEPT ![a] = @ \ {f}]
    /\ Typed(a, IF f.to = a THEN {f.post} ELSE {})
    /\ UNCHANGED <<online, registry, kept, where, outcome, listens, backlog, waiting, drops>>

\* Mutant of Ours: the chat is asked about for every message.
OursByChat(a, p) == TRUE

\* routing_belongs_to for a message with a topic; without one, thread_belongs_to.
Ours(a, p) == where[p] = General \/ Routed(live, key, where[p]) = a

\* deliver_backlog; `unread` when the database cannot be read: withheld.
ReadBacklog(a, unread) ==
    /\ a \in online /\ backlog[a] # {}
    /\ backlog' = [backlog EXCEPT ![a] = {}]
    /\ Typed(a, IF unread THEN {} ELSE {p \in backlog[a] : Ours(a, p)})
    /\ UNCHANGED <<online, registry, kept, where, outcome, listens, frames, waiting, drops>>

\* Mutant of Drop: the forwarder outlives the connection.
DropUnheard(a) ==
    /\ a \in online /\ drops < MaxDrops
    /\ online' = online \ {a} /\ live' = live \ {a}
    /\ frames' = [frames EXCEPT ![a] = {}] /\ backlog' = [backlog EXCEPT ![a] = {}]
    /\ drops' = drops + 1
    /\ UNCHANGED <<key, nickOf, stamped, kept, where, outcome, listens, readBy, waiting>>

\* The connection ends: what was on the way is lost, the row is orphaned and
\* keeps its key.
Drop(a) ==
    /\ a \in online /\ drops < MaxDrops
    /\ online' = online \ {a} /\ live' = live \ {a} /\ listens' = listens \ {a}
    /\ frames' = [frames EXCEPT ![a] = {}] /\ backlog' = [backlog EXCEPT ![a] = {}]
    /\ drops' = drops + 1
    /\ UNCHANGED <<key, nickOf, stamped, kept, where, outcome, readBy, waiting>>

\* A new connection: the row is refused while another live one has its key;
\* else it is alive and takes a chat bound to its nick, from whoever has it.
Return(a) ==
    /\ a \notin online
    /\ online' = online \cup {a}
    /\ LET refused == key[a] # Unbound /\ HoldersIn(live, key, key[a]) # {}
           mine == {t \in Topics : nickOf[t] = a}
       IN  \/ refused /\ UNCHANGED <<live, key>>
           \/ /\ ~refused
              /\ live' = live \cup {a}
              /\ \E t \in IF mine = {} THEN {key[a]} ELSE mine :
                    key' = [b \in Agents |-> IF b = a THEN t
                                            ELSE IF key[b] \in mine THEN Unbound ELSE key[b]]
    /\ waiting' = HeldSince(where, live', key')
    /\ UNCHANGED <<nickOf, stamped, kept, where, outcome, feed, readBy, drops>>

-----------------------------------------------------------------------------
RoutingNext ==
    \/ \E us \in Batches : HandlePost(us)
    \/ \E f \in outcome : Broadcast(f)
    \/ \E a \in Agents :
          \/ Listen(a) \/ (\E f \in frames[a] : ReadLive(a, f))
          \/ (\E unread \in BOOLEAN : ReadBacklog(a, unread))
          \/ Drop(a) \/ Return(a)

RoutingSpec == RoutingInit /\ [][RoutingNext]_routingVars

-----------------------------------------------------------------------------
\* routing_belongs_to, "topic 3 belongs to one session and topic 4 to another":
\* what is written in a topic is typed only into sessions that have held the
\* topic since, whoever drains the group's thread, and with whatever topics
\* were switched or restored meanwhile.
TopicsKeepApart ==
    \A p \in Posts : where[p] # General => readBy[p] \subseteq waiting[p]

\* thread_belongs_to, "Bound elsewhere -> not ours": a message is not typed
\* into a session while its topic is another live session's.
BoundElsewhereIsNotOurs ==
    [][\A p \in Posts, a \in Agents : a \in readBy'[p] \ readBy[p] =>
          Routed(live, key, where[p]) \in {a, Unbound}]_routingVars

\* routing_belongs_to, "a withheld message comes back from the backlog": what
\* was not typed anywhere is still on its way to its topic's holder.
WithheldComesBack ==
    \A p \in Posts : where[p] # Unbound /\ readBy[p] = {} /\ drops = 0 =>
        \/ p \in kept \/ \E f \in outcome : f.post = p
        \/ \E a \in Agents : p \in backlog[a] \/ \E f \in frames[a] : f.post = p
=============================================================================
