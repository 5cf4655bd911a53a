---------------------------------- MODULE Dnd ----------------------------------
(***************************************************************************)
(* Do not disturb: messages to one agent that asked for quiet are kept and *)
(* drained later, by a tick every 30 seconds when the time is over, or by  *)
(* the handler that turns it off (daemon/server.rs, agent_registry.rs).    *)
(* One session is the agent; it subscribes to its own thread.              *)
(***************************************************************************)
EXTENDS Naturals, FiniteSets

CONSTANTS MaxMessages, \* bound: messages sent to the agent, in this order
          DrainLimit,  \* RATE_LIMIT_PER_AGENT
          MaxSwitches  \* bound: changes of the state, losses of the connection

ASSUME DndAssumption == {MaxMessages, DrainLimit, MaxSwitches} \subseteq Nat

Sent == 1..MaxMessages
Drains == {"tick", "handler"}

VARIABLES
    dnd,       \* dnd_until_ts: "off" NULL, "on" i64::MAX, "until" ahead, "over" past
    listening, \* the session subscribes to agent:<id>
    unread,    \* rows of the thread whose delivered_at is NULL
    last,      \* messages sent so far
    direct,    \* messages agent_send decided to deliver and has not published
    drain,     \* [Drains -> SUBSET Sent], read and not yet published
    emitted,   \* published to a subscriber, not yet marked
    reached,   \* [Sent -> Nat], publications that reached the session
    held,      \* messages accepted in a quiet time that has not ended since
    switches

dndVars == <<dnd, listening, unread, last, direct, drain, emitted, reached, held, switches>>

DndTypeOK ==
    /\ dnd \in {"off", "on", "until", "over"} /\ listening \in BOOLEAN
    /\ unread \in SUBSET Sent /\ last \in 0..MaxMessages
    /\ direct \in SUBSET Sent /\ emitted \in SUBSET Sent /\ held \in SUBSET Sent
    /\ drain \in [Drains -> SUBSET Sent]
    /\ reached \in [Sent -> Nat] /\ switches \in 0..MaxSwitches

DndInit ==
    /\ dnd = "off" /\ listening = TRUE /\ unread = {} /\ last = 0
    /\ direct = {} /\ drain = [d \in Drains |-> {}] /\ emitted = {}
    /\ reached = [m \in Sent |-> 0] /\ held = {} /\ switches = 0

Quiet == dnd \in {"on", "until"}
Switch == switches < MaxSwitches /\ switches' = switches + 1

-----------------------------------------------------------------------------
(* send_message(): the row is written; the recipient's quiet time decides  *)
(* whether it is published now.                                            *)
SendMessage ==
    /\ last < MaxMessages
    /\ last' = last + 1
    /\ unread' = unread \cup {last + 1}
    /\ direct' = IF Quiet THEN direct ELSE direct \cup {last + 1}
    /\ held' = IF Quiet THEN held \cup {last + 1} ELSE held
    /\ UNCHANGED <<dnd, listening, drain, emitted, reached, switches>>

(* Nobody subscribes: the row stays as it is.                              *)
Emit(m) ==
    /\ reached' = [reached EXCEPT ![m] = IF listening THEN @ + 1 ELSE @]
    /\ emitted' = IF listening THEN emitted \cup {m} ELSE emitted

(* handle_agent_send() goes on.                                            *)
EmitDirect(m) ==
    /\ m \in direct
    /\ direct' = direct \ {m}
    /\ Emit(m)
    /\ UNCHANGED <<dnd, listening, unread, last, drain, held, switches>>

(* The loops of dnd_drain_tick() and handle_agent_set_dnd(): the next one. *)
EmitDrained(d) ==
    /\ \E m \in drain[d] :
          /\ \A n \in drain[d] : m <= n
          /\ drain' = [drain EXCEPT ![d] = @ \ {m}]
          /\ Emit(m)
    /\ UNCHANGED <<dnd, listening, unread, last, direct, held, switches>>

MarkEmitted(m) ==
    /\ m \in emitted
    /\ emitted' = emitted \ {m}
    /\ unread' = unread \ {m}
    /\ UNCHANGED <<dnd, listening, last, direct, drain, reached, held, switches>>

(* drain_agent_inbox(), drain_dnd_tick() step 3: the oldest, so many.      *)
Oldest == {m \in unread : Cardinality({n \in unread : n < m}) < DrainLimit}

\* Mutant of DrainTick: the row is not looked at.
DrainTickAnyway ==
    /\ drain["tick"] = {} /\ Oldest # {}
    /\ drain' = [drain EXCEPT !["tick"] = Oldest]
    /\ UNCHANGED <<dnd, listening, unread, last, direct, emitted, reached, held, switches>>

(* drain_dnd_tick(): only a time that has run out, which is cleared.  The  *)
(* next tick waits for this one's task.                                    *)
DrainTick ==
    /\ dnd = "over" /\ drain["tick"] = {}
    /\ dnd' = "off"
    /\ drain' = [drain EXCEPT !["tick"] = Oldest]
    /\ UNCHANGED <<listening, unread, last, direct, emitted, reached, held, switches>>

(* handle_agent_set_dnd(): "off" drains at once; the session waits for the *)
(* answer before it sends another request.                                 *)
SetDnd(s) ==
    /\ Switch /\ drain["handler"] = {} /\ listening
    /\ dnd' = s
    /\ drain' = [drain EXCEPT !["handler"] = IF s = "off" THEN Oldest ELSE {}]
    /\ held' = IF s = "off" THEN {} ELSE held
    /\ UNCHANGED <<listening, unread, last, direct, emitted, reached>>

TimeIsOver ==
    /\ dnd = "until"
    /\ dnd' = "over" /\ held' = {}
    /\ UNCHANGED <<listening, unread, last, direct, drain, emitted, reached, switches>>

(* The connection is lost; its handlers still run to their end.            *)
Unsubscribe ==
    /\ Switch /\ listening
    /\ listening' = FALSE
    /\ UNCHANGED <<dnd, unread, last, direct, drain, emitted, reached, held>>

(* The session is back: drain_backlog() gives it every unread row, quiet   *)
(* time or not.                                                            *)
Resubscribe ==
    /\ ~listening
    /\ listening' = TRUE
    /\ reached' = [m \in Sent |-> IF m \in unread THEN reached[m] + 1 ELSE reached[m]]
    /\ unread' = {} /\ held' = {}
    /\ UNCHANGED <<dnd, last, direct, drain, emitted, switches>>

-----------------------------------------------------------------------------
DndNext ==
    \/ SendMessage \/ DrainTick \/ TimeIsOver \/ Unsubscribe \/ Resubscribe
    \/ \E s \in {"off", "on", "until"} : SetDnd(s)
    \/ \E m \in Sent : EmitDirect(m) \/ MarkEmitted(m)
    \/ \E d \in Drains : EmitDrained(d)

DndSpec == DndInit /\ [][DndNext]_dndVars

(* The tick comes every 30 seconds, handlers run on, clocks too.           *)
DndFairness ==
    /\ WF_dndVars(DrainTick) /\ WF_dndVars(TimeIsOver) /\ WF_dndVars(Resubscribe)
    /\ \A m \in Sent : WF_dndVars(EmitDirect(m)) /\ WF_dndVars(MarkEmitted(m))
    /\ \A d \in Drains : WF_dndVars(EmitDrained(d))

DndFairSpec == DndSpec /\ DndFairness

-----------------------------------------------------------------------------
(* PRD AC-C2C-4, "produces no notifications/claude/channel emit during the *)
(* DND window": what was accepted in a quiet time is not published before  *)
(* it ended, or was turned off, or the session asked for its backlog.      *)
QuietHours == [][\A m \in held : m \in held' => reached'[m] = reached[m]]_dndVars

(* drain_dnd_tick, FR-C2C-5.5, "leaves the remainder with delivered_at =   *)
(* NULL - they surface on the next tick": what is unread reaches the       *)
(* session, unless it asks for quiet.                                      *)
RemainderSurfaces ==
    \A m \in Sent : m \in unread ~> m \notin unread \/ Quiet
=============================================================================
