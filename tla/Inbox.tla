-------------------------------- MODULE Inbox --------------------------------
(***************************************************************************)
(* How a message reaches one session: the row in chat.db, the broadcast    *)
(* bus of the daemon (daemon/chat.rs), the handlers of agent_send and      *)
(* chat_subscribe and the connection they answer on (daemon/server.rs),    *)
(* and the session's side of it (daemon/subscribe_client.rs,               *)
(* supervisor/inject.rs).                                                  *)
(*                                                                         *)
(* The session is the only subscriber of its thread, over one connection   *)
(* after the other.  A connection has a writer task and, once subscribed,  *)
(* a forwarder task; both outlive the client's end of it.                  *)
(***************************************************************************)
EXTENDS Naturals, FiniteSets

CONSTANTS Mail,      \* messages to the session's thread
          Unmarked,  \* those of the pool and the callbacks, published only
          MaxConns,  \* bound: connections the session makes
          Permits    \* ACCEPT_STORM_LIMIT

ASSUME InboxAssumption ==
    Unmarked \in SUBSET Mail /\ MaxConns \in Nat \ {0} /\ Permits \in Nat \ {0}

VARIABLES
    row,     \* [Mail -> "none" | "pending" | "marked"], delivered_at
    sender,  \* [Mail -> "idle" | "stored" | "reached"], the handler that sends it
    old,     \* messages past BACKLOG_MAX_AGE_MS
    link,    \* the connection the session uses, 0: none
    conn,    \* [Conns -> "new" | "open" | "closing" | "freed"], the handler
    writer,  \* [Conns -> BOOLEAN], the writer task runs
    sub,     \* [Conns -> "none" | "asked" | "joined" | "answered" | "failed"]
    heard,   \* connections with a receiver on the bus
    wire,    \* [Conns -> SUBSET Mail], live frames on the way to the session
    answer,  \* [Conns -> SUBSET Mail], a backlog on the way to the session
    waiting,  \* messages that wait in the injector
    accepted, \* message ids the injector has seen
    typed    \* [Mail -> Nat], how often a message was typed into the session

store == <<row, sender, old>>
daemon == <<conn, writer, sub, heard, wire, answer>>
client == <<waiting, accepted, typed>>
inboxVars == <<store, link, daemon, client>>

Conns == 1..MaxConns
Made == {c \in Conns : conn[c] # "new"}
Busy == {c \in Conns : conn[c] \in {"open", "closing"}}

InboxTypeOK ==
    /\ row \in [Mail -> {"none", "pending", "marked"}]
    /\ sender \in [Mail -> {"idle", "stored", "reached"}]
    /\ old \in SUBSET Mail
    /\ link \in {0} \cup Conns
    /\ conn \in [Conns -> {"new", "open", "closing", "freed"}]
    /\ writer \in [Conns -> BOOLEAN]
    /\ sub \in [Conns -> {"none", "asked", "joined", "answered", "failed"}]
    /\ heard \in SUBSET {c \in Conns : sub[c] \in {"joined", "answered"}}
    /\ wire \in [Conns -> SUBSET Mail]
    /\ answer \in [Conns -> SUBSET Mail]
    /\ waiting \in SUBSET Mail /\ accepted \in SUBSET Mail
    /\ typed \in [Mail -> Nat]

InboxInit ==
    /\ row = [m \in Mail |-> "none"] /\ sender = [m \in Mail |-> "idle"]
    /\ old = {} /\ link = 0
    /\ conn = [c \in Conns |-> "new"] /\ writer = [c \in Conns |-> FALSE]
    /\ sub = [c \in Conns |-> "none"] /\ heard = {}
    /\ wire = [c \in Conns |-> {}] /\ answer = [c \in Conns |-> {}]
    /\ waiting = {} /\ accepted = {}
    /\ typed = [m \in Mail |-> 0]

-----------------------------------------------------------------------------
(* Sending.                                                                *)

(* send_message(): the target must be alive, which it is from its          *)
(* registration until the daemon sees the end of the connection.           *)
Store(m) ==
    /\ row[m] = "none"
    /\ \E c \in Conns : conn[c] = "open"
    /\ row' = [row EXCEPT ![m] = "pending"]
    /\ sender' = [sender EXCEPT ![m] = "stored"]
    /\ UNCHANGED <<old, link, daemon, client>>

\* Mutant of Publish: the row is marked though nobody was reached.
PublishMarksAnyway(m) ==
    /\ sender[m] = "stored"
    /\ sender' = [sender EXCEPT ![m] = IF m \notin Unmarked THEN "reached" ELSE "idle"]
    /\ wire' = [c \in Conns |-> IF c \in heard THEN wire[c] \cup {m} ELSE wire[c]]
    /\ UNCHANGED <<row, old, link, conn, writer, sub, heard, answer, client>>

(* bus.publish(): every receiver counts, whoever is still behind it.  With *)
(* none the row is left for a later subscriber.                            *)
Publish(m) ==
    /\ sender[m] = "stored"
    /\ sender' = [sender EXCEPT ![m] =
          IF heard # {} /\ m \notin Unmarked THEN "reached" ELSE "idle"]
    /\ wire' = [c \in Conns |-> IF c \in heard THEN wire[c] \cup {m} ELSE wire[c]]
    /\ UNCHANGED <<row, old, link, conn, writer, sub, heard, answer, client>>

Mark(m) ==
    /\ sender[m] = "reached"
    /\ row' = [row EXCEPT ![m] = "marked"]
    /\ sender' = [sender EXCEPT ![m] = "idle"]
    /\ UNCHANGED <<old, link, daemon, client>>

Age(m) ==
    /\ row[m] # "none" /\ m \notin old
    /\ old' = old \cup {m}
    /\ UNCHANGED <<row, sender, link, daemon, client>>

-----------------------------------------------------------------------------
(* The session connects and subscribes to its thread.                      *)

(* The accept loop needs a permit; daemon_leg then asks for the            *)
(* subscription and counts the thread as subscribed.                       *)
Connect(c) ==
    /\ link = 0 /\ Cardinality(Busy) < Permits
    /\ conn[c] = "new" /\ \A d \in Conns : d < c => conn[d] # "new"
    /\ link' = c
    /\ conn' = [conn EXCEPT ![c] = "open"]
    /\ writer' = [writer EXCEPT ![c] = TRUE]
    /\ sub' = [sub EXCEPT ![c] = "asked"]
    /\ UNCHANGED <<store, heard, wire, answer, client>>

\* Mutant of Join: the backlog is drained first, the bus joined afterwards.
JoinAfterDrain(c) ==
    /\ conn[c] = "open"
    /\ \/ /\ sub[c] = "asked"
          /\ sub' = [sub EXCEPT ![c] = "joined"]
          /\ answer' = [answer EXCEPT ![c] = {m \in Mail : row[m] = "pending"}]
          /\ row' = [m \in Mail |->
                       IF row[m] = "pending" THEN "marked" ELSE row[m]]
          /\ UNCHANGED heard
       \/ /\ sub[c] = "joined"
          /\ sub' = [sub EXCEPT ![c] = "answered"]
          /\ heard' = heard \cup {c}
          /\ UNCHANGED <<answer, row>>
    /\ UNCHANGED <<sender, old, link, conn, writer, wire, client>>

(* handle_chat_subscribe: join the bus before the backlog is drained.      *)
Join(c) ==
    /\ conn[c] = "open" /\ sub[c] = "asked"
    /\ sub' = [sub EXCEPT ![c] = "joined"]
    /\ heard' = heard \cup {c}
    /\ UNCHANGED <<store, link, conn, writer, wire, answer, client>>

(* drain_backlog(): what was pending is marked and goes into the answer.   *)
Drain(c) ==
    /\ conn[c] = "open" /\ sub[c] = "joined"
    /\ sub' = [sub EXCEPT ![c] = "answered"]
    /\ answer' = [answer EXCEPT ![c] = {m \in Mail : row[m] = "pending"}]
    /\ row' = [m \in Mail |-> IF row[m] = "pending" THEN "marked" ELSE row[m]]
    /\ UNCHANGED <<sender, old, link, conn, writer, heard, wire, client>>

\* Mutant of DrainFails: the receiver outlives the refused subscription.
DrainFailsHeard(c) ==
    /\ conn[c] = "open" /\ sub[c] = "joined"
    /\ sub' = [sub EXCEPT ![c] = "failed"]
    /\ UNCHANGED <<store, link, conn, writer, heard, wire, answer, client>>

(* The store refuses the drain: an error is answered, the receiver and     *)
(* what it held are dropped, no forwarder is started.                      *)
DrainFails(c) ==
    /\ conn[c] = "open" /\ sub[c] = "joined"
    /\ sub' = [sub EXCEPT ![c] = "failed"]
    /\ heard' = heard \ {c}
    /\ wire' = [wire EXCEPT ![c] = {}]
    /\ UNCHANGED <<store, link, conn, writer, answer, client>>

-----------------------------------------------------------------------------
(* The session reads, and types what it reads.                             *)

\* Mutant of Take: no look at the ids seen before.
TakeAgain(M) ==
    /\ accepted' = accepted \cup M
    /\ waiting' = waiting \cup M
    /\ UNCHANGED typed

(* Injector::run: a message id is accepted once.                           *)
Take(M) ==
    /\ accepted' = accepted \cup M
    /\ waiting' = waiting \cup (M \ accepted)
    /\ UNCHANGED typed

(* pump(): a live frame.  (A frame of a subscription that is not answered  *)
(* yet waits in the receiver.)                                             *)
ReceiveFrame(c, m) ==
    /\ link = c /\ m \in wire[c] /\ sub[c] = "answered" /\ writer[c]
    /\ wire' = [wire EXCEPT ![c] = @ \ {m}]
    /\ Take({m})
    /\ UNCHANGED <<store, link, conn, writer, sub, heard, answer>>

(* deliver_backlog(), bound_backlog(): what is too old is left out.        *)
ReceiveAnswer(c) ==
    /\ link = c /\ answer[c] # {} /\ writer[c]
    /\ answer' = [answer EXCEPT ![c] = {}]
    /\ Take(answer[c] \ old)
    /\ UNCHANGED <<store, link, conn, writer, sub, heard, wire>>

(* The injector types everything that waits as one block.                  *)
Type ==
    /\ waiting # {}
    /\ typed' = [m \in Mail |-> IF m \in waiting THEN typed[m] + 1 ELSE typed[m]]
    /\ waiting' = {}
    /\ UNCHANGED <<store, link, daemon, accepted>>

-----------------------------------------------------------------------------
(* Connections end.                                                        *)

LinkLost ==
    /\ link # 0
    /\ link' = 0
    /\ UNCHANGED <<store, daemon, client>>

(* run_request_loop() returns when the read fails, between two requests.   *)
SeesClose(c) ==
    /\ conn[c] = "open" /\ c # link /\ sub[c] # "joined"
    /\ conn' = [conn EXCEPT ![c] = "closing"]
    /\ UNCHANGED <<store, link, writer, sub, heard, wire, answer, client>>

(* The writer task ends when a write fails, ...                            *)
WriteFails(c) ==
    /\ writer[c] /\ c # link
    /\ wire[c] # {} \/ answer[c] # {}
    /\ sub[c] # "joined"
    /\ writer' = [writer EXCEPT ![c] = FALSE]
    /\ wire' = [wire EXCEPT ![c] = {}] /\ answer' = [answer EXCEPT ![c] = {}]
    /\ UNCHANGED <<store, link, conn, sub, heard, client>>

(* ... or when nobody holds its queue any more: the request loop has       *)
(* returned and there is no forwarder.                                     *)
WriterDone(c) ==
    /\ writer[c] /\ conn[c] = "closing" /\ c \notin heard
    /\ writer' = [writer EXCEPT ![c] = FALSE]
    /\ wire' = [wire EXCEPT ![c] = {}] /\ answer' = [answer EXCEPT ![c] = {}]
    /\ UNCHANGED <<store, link, conn, sub, heard, client>>

(* The forwarder ends at the first frame it cannot hand on.                *)
ForwarderDone(c) ==
    /\ c \in heard /\ sub[c] = "answered" /\ ~writer[c] /\ wire[c] # {}
    /\ heard' = heard \ {c}
    /\ wire' = [wire EXCEPT ![c] = {}]
    /\ UNCHANGED <<store, link, conn, writer, sub, answer, client>>

(* handle_connection() waits for the writer, and its permit goes back.     *)
Free(c) ==
    /\ conn[c] = "closing" /\ ~writer[c]
    /\ conn' = [conn EXCEPT ![c] = "freed"]
    /\ UNCHANGED <<store, link, writer, sub, heard, wire, answer, client>>

(* The daemon restarts: connections and handlers are gone, rows stay.      *)
RestartDaemon ==
    /\ link' = 0
    /\ sender' = [m \in Mail |-> "idle"]
    /\ conn' = [c \in Conns |-> IF c \in Made THEN "freed" ELSE "new"]
    /\ writer' = [c \in Conns |-> FALSE]
    /\ heard' = {}
    /\ wire' = [c \in Conns |-> {}] /\ answer' = [c \in Conns |-> {}]
    /\ UNCHANGED <<row, old, sub, client>>

-----------------------------------------------------------------------------
SendStep(m) == Publish(m) \/ Mark(m)
SubscribeStep(c) == Join(c) \/ Drain(c) \/ DrainFails(c)
ReadStep(c) == ReceiveAnswer(c) \/ \E m \in Mail : ReceiveFrame(c, m)
EndStep(c) == WriteFails(c) \/ WriterDone(c) \/ ForwarderDone(c) \/ Free(c)

InboxNext ==
    \/ \E m \in Mail : Store(m) \/ SendStep(m) \/ Age(m)
    \/ \E c \in Conns : Connect(c) \/ SubscribeStep(c) \/ ReadStep(c)
                        \/ SeesClose(c) \/ EndStep(c)
    \/ Type \/ LinkLost \/ RestartDaemon

InboxSpec == InboxInit /\ [][InboxNext]_inboxVars

(* The runtime goes on with the tasks it has started; the session reads    *)
(* its connection and types when it may.  Connections need not end, and    *)
(* nobody has to send.                                                     *)
InboxFairSpec ==
    /\ InboxSpec
    /\ \A m \in Mail : WF_inboxVars(SendStep(m))
    /\ \A c \in Conns : WF_inboxVars(SubscribeStep(c)) /\ WF_inboxVars(EndStep(c))
    /\ \A c \in Conns : WF_inboxVars(ReceiveAnswer(c))
    /\ \A c \in Conns, m \in Mail : WF_inboxVars(ReceiveFrame(c, m))
    /\ WF_inboxVars(Type)

-----------------------------------------------------------------------------
(* inject.rs, run(): a message that comes live, as backlog and again after *)
(* a reconnect is typed into the session once.                             *)
TypedOnce == \A m \in Mail : typed[m] <= 1

(* handle_chat_subscribe(), "we don't miss a message posted in the gap     *)
(* between drain and subscribe": a message its sender left for later is    *)
(* not left while a forwarder is there.                                    *)
NoGap ==
    \A m \in Mail \ Unmarked, c \in heard :
        row[m] = "pending" /\ sender[m] = "idle" => sub[c] = "joined"

(* An earlier connection of the session whose subscription is still there, *)
(* or still to be answered: it counts as a subscriber and takes a backlog  *)
(* that nobody will read.                                                  *)
Ghost(c) ==
    \E d \in Conns \ {c} :
        d \in heard \/ (conn[d] = "open" /\ sub[d] \in {"asked", "joined"})

(* subscribe_client.rs: what is pending or sent while the session is       *)
(* connected is typed, unless a ghost was there or has been reached, the *)
(* connection ends first, its drain fails, or the message is too old.      *)
Delivered ==
    \A m \in Mail, c \in Conns :
        row[m] = "pending" /\ sender[m] # "reached" /\ link = c /\ ~Ghost(c)
            ~> typed[m] = 1 \/ link # c \/ sub[c] = "failed" \/ m \in old

(* subscribe_new_threads(), "Failures are logged and retried on the next   *)
(* tick": a session that counts its thread as subscribed can hear it.      *)
SubscribedHears == link # 0 => sub[link] # "failed"

(* handle_connection(), the permit is "released on Drop, freeing the slot  *)
(* for the next accept": a connection that ended gives its permit back.    *)
PermitReturns == \A c \in Conns : conn[c] = "closing" ~> conn[c] = "freed"
=============================================================================
