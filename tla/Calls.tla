---------------------------------- MODULE Calls ---------------------------------
(***************************************************************************)
(* How a program that is no session writes into one: POST /callback/<nick> *)
(* with the nick's token (daemon/callback.rs), or one connection to the    *)
(* nick's socket (daemon/agent_socket.rs).  Both end in deliver_resolved:  *)
(* a row in the session's thread, then a live frame for whoever listens.   *)
(* A caller is authorised at one time and stored and published at later    *)
(* ones, while sessions are renamed, end, and others take their nicks.     *)
(*                                                                         *)
(* The row is never marked delivered here: a session that connects again   *)
(* gets it as backlog, and its injector knows the message by its id.       *)
(***************************************************************************)
EXTENDS Naturals

CONSTANTS Callers,   \* connections, one message each
          Sessions,  \* agent ids
          Names,
          Unnamed,   \* the nick of a session that is not alive
          NoSession, \* the session of a call that has none
          MaxMinted, \* bound: tokens minted
          MaxChanges \* bound: registrations, renames, ends and losses

ASSUME CallsAssumption ==
    /\ Unnamed \notin Names /\ Names # {} /\ NoSession \notin Sessions
    /\ {MaxMinted, MaxChanges} \subseteq Nat

VARIABLES bearing,   \* agent_registry: [Sessions -> Names, or Unnamed]
          tokenOf,   \* callback_tokens: [Names -> a token, 0 for none]
          made,      \* the tokens there have been
          sockets,   \* nicks with a listener and its file
          request,   \* [Callers -> what came and how far it is]
          kept,      \* chat_messages: [Callers -> the session the row is for]
          marked,    \* the rows with a delivered_at
          listening, \* sessions with a forwarder on the bus
          quiet,     \* sessions in DND
          heard,     \* [Sessions -> [Callers -> how often it was typed into it]]
          opened,    \* history: [Callers -> who the token opened when asked]
          changes

registry == <<bearing, tokenOf, made, quiet>>
inbox == <<kept, marked, listening, heard>>
callsVars == <<registry, sockets, request, inbox, opened, changes>>

At == {"idle", "open", "asked", "granted", "stored", "ok", "no"}

Connections == [at : At, via : {"http", "socket"}, nick : Names, token : 0 .. MaxMinted,
                whole : BOOLEAN, session : Sessions \cup {NoSession}]

CallsTypeOK ==
    /\ bearing \in [Sessions -> Names \cup {Unnamed}] /\ tokenOf \in [Names -> 0 .. made]
    /\ made \in 0 .. MaxMinted
    /\ \A m, n \in Names : m # n /\ tokenOf[m] # 0 => tokenOf[m] # tokenOf[n]
    /\ sockets \subseteq Names /\ kept \in [Callers -> Sessions \cup {NoSession}]
    /\ request \in [Callers -> Connections]
    /\ marked \subseteq Callers /\ listening \subseteq Sessions /\ quiet \subseteq Sessions
    /\ heard \in [Sessions -> [Callers -> Nat]]
    /\ opened \in [Callers -> SUBSET Sessions] /\ changes \in 0 .. MaxChanges

Untried == [at |-> "idle", via |-> "http", nick |-> CHOOSE n \in Names : TRUE,
            token |-> 0, whole |-> TRUE, session |-> NoSession]

CallsInit ==
    /\ bearing = [s \in Sessions |-> Unnamed] /\ tokenOf = [n \in Names |-> 0]
    /\ made = 0
    /\ sockets = {} /\ request = [c \in Callers |-> Untried]
    /\ kept = [c \in Callers |-> NoSession] /\ marked = {}
    /\ listening = {} /\ quiet = {} /\ heard = [s \in Sessions |-> [c \in Callers |-> 0]]
    /\ opened = [c \in Callers |-> {}] /\ changes = 0

\* resolve_target: the one live session of that nick.
Named(n) == {s \in Sessions : bearing[s] = n}

-----------------------------------------------------------------------------
(* The sessions.                                                           *)

Change == changes < MaxChanges /\ changes' = changes + 1

\* Registration: a nick without a token gets one.
Enter(s, n) ==
    /\ Change /\ bearing[s] = Unnamed /\ bearing' = [bearing EXCEPT ![s] = n]
    /\ IF tokenOf[n] = 0
       THEN /\ made < MaxMinted /\ made' = made + 1
            /\ tokenOf' = [tokenOf EXCEPT ![n] = made + 1]
       ELSE UNCHANGED <<tokenOf, made>>
    /\ UNCHANGED <<quiet, sockets, request, inbox, opened>>

\* Mutant of Renames: the old nick's row is left.
RenamesLeaving(s, n) ==
    /\ Change /\ bearing[s] \notin {Unnamed, n} /\ Named(n) = {}
    /\ bearing' = [bearing EXCEPT ![s] = n]
    /\ tokenOf' = [tokenOf EXCEPT ![n] = tokenOf[bearing[s]]]
    /\ UNCHANGED <<made, quiet, sockets, request, inbox, opened>>

\* A rename takes the token along; one the new nick had is replaced.
Renames(s, n) ==
    /\ Change /\ bearing[s] \notin {Unnamed, n} /\ Named(n) = {}
    /\ bearing' = [bearing EXCEPT ![s] = n]
    /\ tokenOf' = [tokenOf EXCEPT ![n] = tokenOf[bearing[s]], ![bearing[s]] = 0]
    /\ UNCHANGED <<made, quiet, sockets, request, inbox, opened>>

Leaves(s) ==
    /\ Change /\ bearing[s] # Unnamed /\ bearing' = [bearing EXCEPT ![s] = Unnamed]
    /\ listening' = listening \ {s}
    /\ UNCHANGED <<tokenOf, made, quiet, sockets, request, kept, marked, heard, opened>>

Quieten(s) ==
    /\ bearing[s] # Unnamed /\ quiet' = quiet \cup {s}
    /\ UNCHANGED <<bearing, tokenOf, made, sockets, request, inbox, opened, changes>>

\* The injector types a message once, by its id.
Typed(s, calls) ==
    heard' = [heard EXCEPT ![s] = [c \in Callers |-> IF c \in calls /\ @[c] = 0 THEN 1 ELSE @[c]]]

\* The session (re)connects: its backlog is marked and comes with the answer.
Listens(s) ==
    /\ bearing[s] # Unnamed /\ s \notin listening
    /\ listening' = listening \cup {s}
    /\ LET backlog == {c \in Callers : kept[c] = s /\ c \notin marked}
       IN  /\ marked' = marked \cup backlog
           /\ Typed(s, backlog)
    /\ UNCHANGED <<registry, sockets, request, kept, opened, changes>>

Deafened(s) ==
    /\ Change /\ s \in listening /\ listening' = listening \ {s}
    /\ UNCHANGED <<registry, sockets, request, kept, marked, heard, opened>>

\* reconcile_loop, one pass: as many listeners as live nicks.
Reconcile ==
    /\ sockets # {bearing[s] : s \in Sessions} \ {Unnamed}
    /\ sockets' = {bearing[s] : s \in Sessions} \ {Unnamed}
    /\ UNCHANGED <<registry, request, inbox, opened, changes>>

-----------------------------------------------------------------------------
(* The callers.                                                            *)

Become(c, r) == request' = [request EXCEPT ![c] = r]
GoesTo(c, to) == Become(c, [request[c] EXCEPT !.at = to])

\* A connection: a request's head, or a socket that was there to connect to.
Request(c) ==
    /\ request[c].at = "idle"
    /\ \E n \in Names, t \in 0 .. made :
          Become(c, [request[c] EXCEPT !.at = "open", !.nick = n, !.token = t])
    /\ UNCHANGED <<registry, sockets, inbox, opened, changes>>

Reach(c) ==
    /\ request[c].at = "idle"
    /\ \E n \in sockets :
          Become(c, [request[c] EXCEPT !.at = "open", !.via = "socket", !.nick = n])
    /\ UNCHANGED <<registry, sockets, inbox, opened, changes>>

\* handle_connection, handle_one: the body is read to its end, or to where the
\* caller stopped (a socket's also to 64 KiB); a route, method or length that
\* is refused ends here.
Body(c, whole) ==
    /\ request[c].at = "open"
    /\ Become(c, [request[c] EXCEPT !.at = "asked", !.whole = whole])
    /\ UNCHANGED <<registry, sockets, inbox, opened, changes>>

CallRefused(c) ==
    /\ request[c].at = "open" /\ GoesTo(c, "no")
    /\ UNCHANGED <<registry, sockets, inbox, opened, changes>>

\* dispatch: the token must be the one of the nick the session bears.  It reads
\* three times; Nicks has what happens in between.
Dispatch(c) ==
    /\ request[c].at = "asked" /\ request[c].via = "http"
    /\ LET here == Named(request[c].nick)
           key == tokenOf[request[c].nick]
       IN  IF \E s \in here : here = {s} /\ key # 0 /\ key = request[c].token
           THEN /\ Become(c, [request[c] EXCEPT !.at = "granted",
                                             !.session = CHOOSE s \in here : TRUE])
                /\ opened' = [opened EXCEPT ![c] = here]
           ELSE GoesTo(c, "no") /\ UNCHANGED opened
    /\ UNCHANGED <<registry, sockets, inbox, changes>>

\* deliver: no token, the nick of the socket as it is borne now.
Deliver(c) ==
    /\ request[c].at = "asked" /\ request[c].via = "socket"
    /\ LET here == Named(request[c].nick)
       IN  IF \E s \in here : here = {s}
           THEN Become(c, [request[c] EXCEPT !.at = "granted",
                                          !.session = CHOOSE s \in here : TRUE])
           ELSE GoesTo(c, "no")
    /\ UNCHANGED <<registry, sockets, inbox, opened, changes>>

\* deliver_resolved: send_message keeps a row for a session that is alive ...
StoreFor(c, s) ==
    /\ IF s # NoSession /\ bearing[s] # Unnamed
       THEN kept' = [kept EXCEPT ![c] = s] /\ GoesTo(c, "stored")
       ELSE GoesTo(c, "no") /\ UNCHANGED kept
    /\ UNCHANGED <<registry, sockets, marked, listening, heard, opened, changes>>

\* Mutant: the row goes to whoever bears the nick by then.
StoreByNick(c) ==
    /\ request[c].at = "granted"
    /\ StoreFor(c, IF Named(request[c].nick) = {} THEN NoSession
                   ELSE CHOOSE s \in Named(request[c].nick) : TRUE)

Store(c) == request[c].at = "granted" /\ StoreFor(c, request[c].session)

\* Mutant: a frame goes to a session that has the message already.
PublishAgain(c) ==
    /\ request[c].at = "stored" /\ GoesTo(c, "ok")
    /\ heard' = IF kept[c] \in listening
                THEN [heard EXCEPT ![kept[c]][c] = @ + 1] ELSE heard
    /\ UNCHANGED <<registry, sockets, kept, marked, listening, opened, changes>>

\* ... and whoever listens gets the frame, DND or not.
Publish(c) ==
    /\ request[c].at = "stored" /\ GoesTo(c, "ok")
    /\ IF kept[c] \in listening THEN Typed(kept[c], {c}) ELSE UNCHANGED heard
    /\ UNCHANGED <<registry, sockets, kept, marked, listening, opened, changes>>

CallsNext ==
    \/ \E s \in Sessions, n \in Names : Enter(s, n) \/ Renames(s, n)
    \/ \E s \in Sessions : Leaves(s) \/ Quieten(s) \/ Listens(s) \/ Deafened(s)
    \/ Reconcile
    \/ \E c \in Callers :
          \/ Request(c) \/ Reach(c) \/ CallRefused(c) \/ \E whole \in BOOLEAN : Body(c, whole)
          \/ Dispatch(c) \/ Deliver(c) \/ Store(c) \/ Publish(c)

CallsSpec == CallsInit /\ [][CallsNext]_callsVars

-----------------------------------------------------------------------------
(* Properties.                                                             *)

\* What a callback's token opened is what its text is kept for and typed into,
\* whatever was renamed or ended in between and whoever has the nick by now
\* (dispatch: "a token cannot open a session other than its own").
TokenOpensItsOwn ==
    \A c \in Callers :
       request[c].via = "http" /\ kept[c] # NoSession => kept[c] \in opened[c]

\* A call is typed at most once and only where it is kept, though its row stays
\* unmarked and comes again as the backlog of every new connection.
CallHeardOnce ==
    \A s \in Sessions, c \in Callers :
       heard[s][c] <= 1 /\ (heard[s][c] > 0 => kept[c] = s)

CallsSafe == TokenOpensItsOwn /\ CallHeardOnce

\* "read the declared body" (callback.rs:567-568): what is typed is the whole
\* of what the caller announced.
WholeBodies ==
    \A s \in Sessions, c \in Callers :
       heard[s][c] > 0 /\ request[c].via = "http" => request[c].whole

\* "handed to the same send_message + bus publish path that peer messages use"
\* (callback.rs:6-9), where "MVP DND is a hard block" (docs/PRD.md:1397): a
\* frame is not typed into a session in DND.
DNDBlocksCalls ==
    [][\A c \in Callers : Publish(c) => heard'[kept[c]] = heard[kept[c]] \/ kept[c] \notin quiet]_callsVars
=============================================================================
