------------------------------ MODULE TelegramOut ------------------------------
(***************************************************************************)
(* Messages of one Telegram chat on their way out: chat_reply stores a row *)
(* and queues it (daemon/server.rs), the Telegram loop sends the queue and *)
(* marks the rows (daemon/telegram.rs), and a daemon that starts queues    *)
(* what is undelivered again.  The operator's own messages are rows of the *)
(* same thread, and a session that subscribes takes the thread's backlog.  *)
(***************************************************************************)
EXTENDS Naturals, Sequences

CONSTANTS Replies,  \* messages of sessions to the chat
          Inbound,  \* messages of the operator
          MaxFaults \* bound: restarts and marks that fail

ASSUME OutAssumption == Replies \cap Inbound = {} /\ MaxFaults \in Nat

Messages == Replies \cup Inbound

VARIABLES
    log,     \* messages in the order of created_at
    row,     \* [Messages -> "none" | "undelivered" | "delivered"]
    old,     \* messages of more than 24 hours
    posting, \* replies stored by their handler and not yet queued
    outq,    \* OUTBOUND_TG
    marking, \* messages sent whose row is still to be marked, one at most
    up,      \* the loop runs; it ends when Telegram answers 401
    sent,    \* [Messages -> Nat], how often the chat got it
    drained, \* messages a session was given as backlog
    blind,   \* [Messages -> Nat], sends whose mark failed or was never made
    faults

rowVars == <<log, row, old>>
outVars == <<rowVars, posting, outq, marking, up, sent, drained, blind, faults>>

OutTypeOK ==
    /\ log \in Seq(Messages)
    /\ row \in [Messages -> {"none", "undelivered", "delivered"}]
    /\ old \in SUBSET Messages /\ posting \in SUBSET Replies
    /\ outq \in Seq(Messages)
    /\ marking \in SUBSET Messages /\ drained \in SUBSET Messages
    /\ up \in BOOLEAN
    /\ {sent, blind} \subseteq [Messages -> Nat] /\ faults \in 0..MaxFaults

OutInit ==
    /\ log = <<>> /\ row = [m \in Messages |-> "none"] /\ old = {}
    /\ posting = {} /\ outq = <<>> /\ marking = {}
    /\ up = TRUE /\ sent = [m \in Messages |-> 0]
    /\ drained = {} /\ faults = 0
    /\ blind = [m \in Messages |-> 0]

StoreRow(m) ==
    /\ row[m] = "none"
    /\ row' = [row EXCEPT ![m] = "undelivered"]
    /\ log' = Append(log, m)

-----------------------------------------------------------------------------
(* handle_chat_post(): the reply becomes a row first, ...                  *)
Post(m) ==
    /\ StoreRow(m)
    /\ posting' = posting \cup {m}
    /\ UNCHANGED <<old, outq, marking, up, sent, drained, blind, faults>>

(* ... and is queued then.  A queue whose loop has ended refuses it: the   *)
(* row stays.                                                              *)
Queue(m) ==
    /\ m \in posting
    /\ posting' = posting \ {m}
    /\ outq' = IF up THEN Append(outq, m) ELSE outq
    /\ UNCHANGED <<rowVars, marking, up, sent, drained, blind, faults>>

(* A batch of the loop stores the operator's message; the notification of  *)
(* it leaves the row as it is.                                             *)
Receive(m) ==
    /\ up /\ StoreRow(m)
    /\ UNCHANGED <<old, posting, outq, marking, up, sent, drained, blind, faults>>

(* run_long_poll: the head of the queue is sent, its row marked after.     *)
Send ==
    /\ up /\ marking = {} /\ outq # <<>>
    /\ outq' = Tail(outq)
    /\ sent' = [sent EXCEPT ![Head(outq)] = @ + 1]
    /\ marking' = {Head(outq)}
    /\ UNCHANGED <<rowVars, posting, up, drained, blind, faults>>

(* The send fails: the message leaves the queue, "startup spool will       *)
(* re-enqueue".                                                            *)
SendFails ==
    /\ up /\ marking = {} /\ outq # <<>>
    /\ outq' = Tail(outq)
    /\ UNCHANGED <<rowVars, posting, marking, up, sent, drained, blind, faults>>

\* Mutant of Mark: the row stays undelivered.
MarkNothing ==
    /\ marking # {}
    /\ marking' = {}
    /\ UNCHANGED <<rowVars, posting, outq, up, sent, drained, blind, faults>>

Mark ==
    /\ marking # {}
    /\ marking' = {}
    /\ row' = [m \in Messages |-> IF m \in marking THEN "delivered" ELSE row[m]]
    /\ UNCHANGED <<log, old, posting, outq, up, sent, drained, blind, faults>>

Unmarked == blind' = [m \in Messages |-> IF m \in marking THEN blind[m] + 1 ELSE blind[m]]

(* The result of the UPDATE is not looked at.                              *)
MarkFails ==
    /\ marking # {} /\ faults < MaxFaults
    /\ faults' = faults + 1
    /\ marking' = {}
    /\ Unmarked
    /\ UNCHANGED <<rowVars, posting, outq, up, sent, drained>>

(* drain_backlog() of a session that subscribes to the chat's thread.      *)
Drain ==
    LET waiting == {m \in Messages : row[m] = "undelivered"} IN
    /\ waiting # {}
    /\ row' = [m \in Messages |-> IF m \in waiting THEN "delivered" ELSE row[m]]
    /\ drained' = drained \cup waiting
    /\ UNCHANGED <<log, old, posting, outq, marking, up, sent, blind, faults>>

Age(m) ==
    /\ row[m] # "none" /\ m \notin old
    /\ old' = old \cup {m}
    /\ UNCHANGED <<log, row, posting, outq, marking, up, sent, drained, blind, faults>>

Disconnected ==
    /\ up /\ marking = {}
    /\ up' = FALSE
    /\ outq' = <<>>
    /\ UNCHANGED <<rowVars, posting, marking, sent, drained, blind, faults>>

\* Mutant of Pending: what was sent is asked for by its queue, not its row.
PendingAll == {m \in Messages : row[m] # "none" /\ m \notin old}

(* drain_pending_outbound_tg(): every undelivered row of the thread that   *)
(* is young enough, ...                                                    *)
Pending == {m \in Messages : row[m] = "undelivered" /\ m \notin old}

(* ... by created_at.                                                      *)
Earlier(m, n) ==
    \E i, j \in 1..Len(log) : i < j /\ log[i] = m /\ log[j] = n

OldestFirst(q) ==
    /\ \A m \in Pending : \E i \in DOMAIN q : q[i] = m
    /\ \A i, j \in DOMAIN q : i < j => Earlier(q[i], q[j])

(* spawn_long_poll: before the loop starts.                                *)
RestartBot ==
    /\ faults < MaxFaults
    /\ faults' = faults + 1
    /\ up' = TRUE
    /\ \E n \in 0..Len(log) : \E q \in [1..n -> Pending] : OldestFirst(q) /\ outq' = q
    /\ posting' = {} /\ marking' = {}
    /\ Unmarked
    /\ UNCHANGED <<rowVars, sent, drained>>

-----------------------------------------------------------------------------
OutNext ==
    \/ \E m \in Replies : Post(m) \/ Queue(m)
    \/ \E m \in Inbound : Receive(m)
    \/ \E m \in Messages : Age(m)
    \/ Send \/ SendFails \/ Mark \/ MarkFails
    \/ Drain \/ Disconnected \/ RestartBot

OutSpec == OutInit /\ [][OutNext]_outVars

-----------------------------------------------------------------------------
(* "mark the chat.db row delivered so the daemon-restart spool drain does  *)
(* NOT re-enqueue an already-sent message": a message goes out once more   *)
(* only for a mark that failed or a daemon that died before it.            *)
SentOnce == \A m \in Messages : sent[m] <= 1 + blind[m]

(* OUTBOUND_TG, "a daemon crash between enqueue and send does NOT silently *)
(* lose the message": a reply the chat has not got can still be found as   *)
(* undelivered, unless a session that subscribed took it as backlog.       *)
ReplyFound ==
    \A m \in Replies : row[m] = "delivered" => sent[m] > 0 \/ m \in drained

(* A reply of a session neither gets lost nor goes out twice, over failed  *)
(* sends, failed marks and restarts of the daemon.                         *)
RepliesSafe == SentOnce /\ ReplyFound

(* drain_pending_outbound_tg(), "scan chat.db for agent-sent TG messages": *)
(* the operator's own messages are not sent back to him.                   *)
NoEcho == \A m \in Inbound : sent[m] = 0
=============================================================================
