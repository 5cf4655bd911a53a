-------------------------------- MODULE Reminders -------------------------------
(***************************************************************************)
(* Reminders of a journal (daemon/reminders.rs; journal.rs keeps them): an *)
(* entry written with `--every` comes back into its author's input when    *)
(* its time comes, until its flag is closed.  It is kept under the nick    *)
(* its author bore.  A tick reads what is due and then delivers one after  *)
(* the other, each in steps: a row in the session's thread, a live frame,  *)
(* the row marked, the next time set.  Sessions come, go and are renamed   *)
(* in between, and the daemon may die at any step.                         *)
(*                                                                         *)
(* Time is the action Falls: next_at of an entry is reached.               *)
(***************************************************************************)
EXTENDS Naturals, Sequences, FiniteSets, SequencesExt

CONSTANTS Entries, Authors, Nicknames,
          Absent,  \* the nick of a session that is not alive
          Nobody,  \* the author of an entry not written yet
          MaxSent, \* bound: rows stored
          MaxTurns \* bound: changes of sessions and flags, failures, deaths of the daemon

ASSUME RemindersAssumption ==
    /\ Absent \notin Nicknames /\ Nobody \notin Authors /\ {MaxSent, MaxTurns} \subseteq Nat
    /\ IsFiniteSet(Entries)

VARIABLES bears,      \* [Authors -> its nick, or Absent]
          author,     \* [Entries -> the session that wrote it, or Nobody]
          under,      \* entry_reminders.nick
          open,       \* entries whose reminder flag is open
          due,        \* entries whose next_at is reached
          deaf,       \* sessions with no forwarder on the bus
          dnd,        \* sessions in DND
          tick,       \* the deliveries of the tick at work
          step,       \* of the first: "store", "publish", "mark", "reschedule"
          gotThrough, \* whether the frame found a subscriber
          rows,       \* rows with no delivered_at: {[id, entry, session]}
          sent,       \* rows stored so far
          typed,      \* [Authors -> ids typed into it]
          told,       \* history: [Entries -> ids of it typed since it fell due]
          cut,        \* history: ids whose delivery was cut short
          turns

people == <<bears, deaf, dnd>>
entries == <<author, under, open>>
work == <<tick, step, gotThrough>>
inboxes == <<rows, sent, typed, told, cut>>
reminderVars == <<people, entries, due, work, inboxes, turns>>

Deliveries == [entry : Entries, session : Authors]

RemindersTypeOK ==
    /\ bears \in [Authors -> Nicknames \cup {Absent}] /\ deaf \cup dnd \subseteq Authors
    /\ author \in [Entries -> Authors \cup {Nobody}]
    /\ under \in [Entries -> Nicknames \cup {Absent}] /\ open \cup due \subseteq Entries
    /\ tick \in Seq(Deliveries)
    /\ step \in {"store", "publish", "mark", "reschedule"} /\ gotThrough \in BOOLEAN
    /\ rows \subseteq [id : 1 .. sent, entry : Entries, session : Authors]
    /\ sent \in 0 .. MaxSent /\ typed \in [Authors -> SUBSET (1 .. sent)]
    /\ told \in [Entries -> SUBSET (1 .. sent)] /\ cut \subseteq 1 .. sent
    /\ turns \in 0 .. MaxTurns

RemindersInit ==
    /\ bears = [s \in Authors |-> Absent] /\ deaf = Authors /\ dnd = {}
    /\ author = [e \in Entries |-> Nobody] /\ under = [e \in Entries |-> Absent]
    /\ open = {} /\ due = {} /\ tick = <<>> /\ step = "store" /\ gotThrough = FALSE
    /\ rows = {} /\ sent = 0 /\ typed = [s \in Authors |-> {}]
    /\ told = [e \in Entries |-> {}] /\ cut = {} /\ turns = 0

Turn == turns < MaxTurns /\ turns' = turns + 1

-----------------------------------------------------------------------------
(* Sessions and entries.                                                   *)

Takes(s, n) ==
    /\ Turn /\ bears[s] # n /\ \A o \in Authors : bears[o] # n
    /\ bears' = [bears EXCEPT ![s] = n]
    /\ UNCHANGED <<deaf, dnd, entries, due, work, inboxes>>

AuthorEnds(s) ==
    /\ Turn /\ bears[s] # Absent /\ bears' = [bears EXCEPT ![s] = Absent]
    /\ deaf' = deaf \cup {s}
    /\ UNCHANGED <<dnd, entries, due, work, inboxes>>

SetDnd(s) ==
    /\ Turn /\ dnd' = IF s \in dnd THEN dnd \ {s} ELSE dnd \cup {s}
    /\ UNCHANGED <<bears, deaf, entries, due, work, inboxes>>

\* The row of the delivery at work.
Row == [id |-> sent, entry |-> Head(tick).entry, session |-> Head(tick).session]

\* What comes to a session: typed once by its id.
Comes(s, new) ==
    LET fresh == {r \in new : r.id \notin typed[s]}
    IN  /\ typed' = [typed EXCEPT ![s] = @ \cup {r.id : r \in fresh}]
        /\ told' = [e \in Entries |-> told[e] \cup {r.id : r \in {q \in fresh : q.entry = e}}]

\* The delivery at work is cut short: the next tick delivers the entry again.
CutShort == cut' = cut \cup {sent}

\* It connects: forwarder first, then the backlog, which is marked.  A row of
\* the tick at work may be among it.
Hears(s) ==
    /\ bears[s] # Absent /\ s \in deaf /\ deaf' = deaf \ {s}
    /\ LET mine == {r \in rows : r.session = s}
       IN  /\ Comes(s, mine) /\ rows' = rows \ mine
           /\ IF tick # <<>> /\ step # "store" /\ Row \in mine THEN CutShort ELSE UNCHANGED cut
    /\ UNCHANGED <<bears, dnd, entries, due, work, sent, turns>>

\* insert_reminder: kept under the nick of the moment.
WriteEntry(s, e) ==
    /\ bears[s] # Absent /\ author[e] = Nobody
    /\ author' = [author EXCEPT ![e] = s] /\ under' = [under EXCEPT ![e] = bears[s]]
    /\ open' = open \cup {e}
    /\ UNCHANGED <<people, due, work, inboxes, turns>>

CloseFlag(e) ==
    /\ Turn /\ e \in open /\ open' = open \ {e}
    /\ UNCHANGED <<people, author, under, due, work, inboxes>>

Falls(e) ==
    /\ author[e] # Nobody /\ e \notin due /\ due' = due \cup {e}
    /\ told' = [told EXCEPT ![e] = {}]
    /\ UNCHANGED <<people, entries, work, rows, sent, typed, cut, turns>>

-----------------------------------------------------------------------------
(* The tick.                                                               *)

\* online_author: alive under that nick, and not in DND.
OnlineAuthor(e) ==
    {s \in Authors : bears[s] = under[e] /\ bears[s] # Absent /\ s \notin dnd}

\* collect: every open reminder that is due and has its author online, journal
\* by journal and by the time it fell due.
Collect ==
    /\ tick = <<>> /\ sent < MaxSent
    /\ LET found == {e \in due \cap open : OnlineAuthor(e) # {}}
       IN  /\ found # {}
           /\ tick' \in SetToSeqs({[entry |-> e, session |-> CHOOSE s \in OnlineAuthor(e) : TRUE]
                                     : e \in found})
    /\ step' = "store" /\ gotThrough' = FALSE
    /\ UNCHANGED <<people, entries, due, inboxes, turns>>

Drop == tick' = Tail(tick) /\ step' = "store" /\ gotThrough' = FALSE
Work(st) == tick # <<>> /\ step = st

\* deliver: send_message refuses a session that is gone by now, or fails.
StoreRow ==
    /\ Work("store")
    /\ \/ /\ bears[Head(tick).session] # Absent /\ sent < MaxSent
          /\ sent' = sent + 1 /\ step' = "publish"
          /\ rows' = rows \cup {[Row EXCEPT !.id = sent + 1]}
          /\ UNCHANGED <<tick, gotThrough, turns>>
       \/ /\ Drop /\ UNCHANGED <<rows, sent>>
          /\ IF bears[Head(tick).session] = Absent THEN UNCHANGED turns ELSE Turn
    /\ UNCHANGED <<people, entries, due, typed, told, cut>>

PublishFrame ==
    /\ Work("publish") /\ step' = "mark"
    /\ gotThrough' = (Head(tick).session \notin deaf)
    /\ IF Head(tick).session \notin deaf THEN Comes(Head(tick).session, {Row}) ELSE UNCHANGED <<typed, told>>
    /\ UNCHANGED <<people, entries, due, tick, rows, sent, cut, turns>>

Onward ==
    IF gotThrough THEN step' = "reschedule" /\ UNCHANGED <<tick, gotThrough>> ELSE Drop

\* Mutant: a row nobody heard is left for the backlog.
MarkHeard ==
    /\ Work("mark") /\ Onward
    /\ rows' = IF gotThrough THEN rows \ {Row} ELSE rows
    /\ UNCHANGED <<people, entries, due, sent, typed, told, cut, turns>>

\* The row is marked either way, unless that fails; nobody heard: due as before.
MarkRow ==
    /\ Work("mark") /\ Onward
    /\ \/ rows' = rows \ {Row} /\ UNCHANGED <<cut, turns>>
       \/ Turn /\ CutShort /\ UNCHANGED rows
    /\ UNCHANGED <<people, entries, due, sent, typed, told>>

\* reminder_sent: one interval from this tick, or not if that fails.
Reschedule ==
    /\ Work("reschedule") /\ Drop
    /\ \/ due' = due \ {Head(tick).entry} /\ UNCHANGED <<cut, turns>>
       \/ Turn /\ CutShort /\ UNCHANGED due
    /\ UNCHANGED <<people, entries, rows, sent, typed, told>>

DaemonDies ==
    /\ Turn /\ tick' = <<>> /\ step' = "store" /\ gotThrough' = FALSE
    /\ deaf' = Authors
    /\ IF tick # <<>> /\ step # "store" THEN CutShort ELSE UNCHANGED cut
    /\ UNCHANGED <<bears, dnd, entries, due, rows, sent, typed, told>>

TickStep == Collect \/ StoreRow \/ PublishFrame \/ MarkRow \/ Reschedule

RemindersNext ==
    \/ \E s \in Authors, n \in Nicknames : Takes(s, n)
    \/ \E s \in Authors, e \in Entries : WriteEntry(s, e)
    \/ \E s \in Authors : AuthorEnds(s) \/ SetDnd(s) \/ Hears(s)
    \/ \E e \in Entries : CloseFlag(e) \/ Falls(e)
    \/ TickStep \/ DaemonDies

RemindersSpec ==
    RemindersInit /\ [][RemindersNext]_reminderVars /\ WF_reminderVars(TickStep)

-----------------------------------------------------------------------------
(* Properties.                                                             *)

\* A reminder comes once each time it falls due, whoever connects, leaves or is
\* renamed meanwhile; a row that nobody heard does not come as backlog "next to
\* the next tick's own delivery" (deliver).  Once more, then or later, only for
\* a delivery that a failure or the daemon's death cut short, or whose row a
\* backlog took in mid-delivery.
RemindsOnce == \A e \in Entries : \A i, j \in told[e] \ cut : i = j

\* "the daemon puts the entry into the input of the session that wrote it ...
\* Only that session gets it" (README.md:235; reminders.rs:5-7).
OnlyItsAuthor ==
    \A e \in Entries, s \in Authors : told[e] \cap typed[s] # {} => s = author[e]
=============================================================================
