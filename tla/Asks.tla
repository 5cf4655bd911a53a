--------------------------------- MODULE Asks ---------------------------------
(***************************************************************************)
(* Questions a session puts to the operator with buttons (chat_ask):       *)
(* handle_chat_ask (daemon/server.rs) has the Telegram loop send the       *)
(* keyboard, waits for the acknowledgement and records the question        *)
(* (daemon/pending_asks.rs).  Taps come back as updates of later batches   *)
(* (daemon/telegram.rs).                                                   *)
(***************************************************************************)
EXTENDS Naturals, Sequences, FiniteSets

CONSTANTS Asked,  \* the questions
          Multi,  \* those with several answers, toggled until "done"
          Options,
          MaxTaps \* bound: taps of the operator

Done == "done"

ASSUME AsksAssumption ==
    Multi \in SUBSET Asked /\ MaxTaps \in Nat /\ Done \notin Options

VARIABLES
    asking,   \* [Asked -> "idle" | "waiting" | "acked" | "over"], the handler
    keyboard, \* questions whose keyboard the operator sees
    marked,   \* [Asked -> SUBSET Options], what the keyboard shows as chosen
    pending,  \* questions with a row in pending_asks
    expired,  \* questions past expires_at
    chosen,   \* [Asked -> SUBSET Options], selected_values_json
    taps,     \* taps at Telegram, in order
    answers,  \* [Asked -> Seq(SUBSET Options)], answers published
    meant,    \* [Asked -> SUBSET Options], what the operator's taps amount to
    missed    \* questions a tap of which came to nothing

table == <<pending, expired, chosen>>
askVars == <<asking, keyboard, marked, table, taps, answers, meant, missed>>

Tapped == [ask : Asked, on : Options \cup {Done}]

AsksTypeOK ==
    /\ asking \in [Asked -> {"idle", "waiting", "acked", "over"}]
    /\ keyboard \in SUBSET Asked /\ pending \in SUBSET Asked
    /\ expired \in SUBSET Asked /\ missed \in SUBSET Asked
    /\ marked \in [Asked -> SUBSET Options] /\ chosen \in [Asked -> SUBSET Options]
    /\ meant \in [Asked -> SUBSET Options]
    /\ taps \in Seq(Tapped)
    /\ answers \in [Asked -> Seq(SUBSET Options)]

NoChoice == [a \in Asked |-> {}]

AsksInit ==
    /\ asking = [a \in Asked |-> "idle"] /\ keyboard = {} /\ marked = NoChoice
    /\ pending = {} /\ expired = {} /\ chosen = NoChoice
    /\ taps = <<>> /\ answers = [a \in Asked |-> <<>>]
    /\ meant = NoChoice /\ missed = {}

Flip(S, o) == IF o \in S THEN S \ {o} ELSE S \cup {o}

-----------------------------------------------------------------------------
(* handle_chat_ask(): checked and queued for the loop.                     *)
Ask(a) ==
    /\ asking[a] = "idle"
    /\ asking' = [asking EXCEPT ![a] = "waiting"]
    /\ UNCHANGED <<keyboard, marked, table, taps, answers, meant, missed>>

(* The loop sends the keyboard and acknowledges with its message id, ...   *)
Show(a) ==
    /\ asking[a] = "waiting"
    /\ asking' = [asking EXCEPT ![a] = "acked"]
    /\ keyboard' = keyboard \cup {a}
    /\ UNCHANGED <<marked, table, taps, answers, meant, missed>>

(* ... or with the error of the send: the handler answers with it.         *)
ShowFails(a) ==
    /\ asking[a] = "waiting"
    /\ asking' = [asking EXCEPT ![a] = "over"]
    /\ UNCHANGED <<keyboard, marked, table, taps, answers, meant, missed>>

\* Mutant of Record: the row is written when the keyboard is queued.
RecordEarly(a) ==
    /\ asking[a] \in {"waiting", "acked"}
    /\ asking' = [asking EXCEPT ![a] = IF @ = "acked" THEN "over" ELSE @]
    /\ pending' = pending \cup {a}
    /\ UNCHANGED <<keyboard, marked, expired, chosen, taps, answers, meant, missed>>

(* insert_pending(), after the acknowledgement.                            *)
Record(a) ==
    /\ asking[a] = "acked"
    /\ asking' = [asking EXCEPT ![a] = "over"]
    /\ pending' = pending \cup {a}
    /\ UNCHANGED <<keyboard, marked, expired, chosen, taps, answers, meant, missed>>

(* The insert fails, or the daemon dies: the keyboard stays in the chat.   *)
Abandon(a) ==
    /\ asking[a] \in {"waiting", "acked"}
    /\ asking' = [asking EXCEPT ![a] = "over"]
    /\ UNCHANGED <<keyboard, marked, table, taps, answers, meant, missed>>

-----------------------------------------------------------------------------
(* The operator; buttons of one question with several answers are toggles. *)
Tap(a, o) ==
    /\ a \in keyboard /\ Len(taps) < MaxTaps
    /\ a \notin Multi => o # Done
    /\ taps' = Append(taps, [ask |-> a, on |-> o])
    /\ meant' = [meant EXCEPT ![a] =
          IF o = Done \/ answers[a] # <<>> \/ \E i \in 1..Len(taps) :
                            taps[i].ask = a /\ taps[i].on = Done
          THEN @ ELSE IF a \in Multi THEN Flip(@, o)
          ELSE IF \E i \in 1..Len(taps) : taps[i].ask = a THEN @ ELSE {o}]
    /\ UNCHANGED <<asking, keyboard, marked, table, answers, missed>>

\* Mutant of Answer: the row is left to the garbage collection.
AnswerAndKeep(a, S) ==
    /\ answers' = [answers EXCEPT ![a] = Append(@, S)]
    /\ UNCHANGED pending

(* The answer is published, and the row deleted in the same transaction.   *)
Answer(a, S) ==
    /\ answers' = [answers EXCEPT ![a] = Append(@, S)]
    /\ pending' = pending \ {a}

\* Mutant of Toggle: a second tap adds the option again.
ToggleOn(a, o) ==
    /\ chosen' = [chosen EXCEPT ![a] = @ \cup {o}]
    /\ marked' = [marked EXCEPT ![a] = chosen'[a]]

(* update_selected_values(), and the keyboard is drawn again.  (A redraw   *)
(* that fails leaves the marks to the next tap.)                           *)
Toggle(a, o) ==
    /\ chosen' = [chosen EXCEPT ![a] = Flip(@, o)]
    /\ \/ marked' = [marked EXCEPT ![a] = chosen'[a]]
       \/ UNCHANGED marked

(* process_batch_with_pairing(), a callback: for an unknown question it is *)
(* dropped; whether the question has expired is not looked at.             *)
Process ==
    LET a == Head(taps).ask
        o == Head(taps).on IN
    /\ taps # <<>>
    /\ taps' = Tail(taps)
    /\ \/ /\ a \notin pending
          /\ missed' = missed \cup {a}
          /\ UNCHANGED <<pending, chosen, marked, answers>>
       \/ /\ a \in pending /\ a \notin Multi
          /\ Answer(a, {o})
          /\ UNCHANGED <<chosen, marked, missed>>
       \/ /\ a \in pending \cap Multi /\ o = Done
          /\ Answer(a, chosen[a])
          /\ UNCHANGED <<chosen, marked, missed>>
       \/ /\ a \in pending \cap Multi /\ o # Done
          /\ Toggle(a, o)
          /\ UNCHANGED <<pending, answers, missed>>
    /\ UNCHANGED <<asking, keyboard, expired, meant>>

(* The batch of the tap is lost: a statement failed, the daemon died.      *)
LoseTap ==
    /\ taps # <<>>
    /\ taps' = Tail(taps)
    /\ missed' = missed \cup {Head(taps).ask}
    /\ UNCHANGED <<asking, keyboard, marked, table, answers, meant>>

Expire(a) ==
    /\ a \in pending \ expired
    /\ expired' = expired \cup {a}
    /\ UNCHANGED <<asking, keyboard, marked, pending, chosen, taps, answers, meant, missed>>

(* gc_expired(), at the end of a batch.                                    *)
Collect ==
    /\ pending \cap expired # {}
    /\ pending' = pending \ expired
    /\ UNCHANGED <<asking, keyboard, marked, expired, chosen, taps, answers, meant, missed>>

-----------------------------------------------------------------------------
AsksNext ==
    \/ \E a \in Asked :
          \/ Ask(a) \/ Show(a) \/ ShowFails(a) \/ Record(a) \/ Abandon(a)
          \/ Expire(a)
          \/ \E o \in Options \cup {Done} : Tap(a, o)
    \/ Process \/ LoseTap \/ Collect

AsksSpec == AsksInit /\ [][AsksNext]_askVars

-----------------------------------------------------------------------------
(* delete_pending(), "finalized a callback flow": a question is answered   *)
(* once, however many taps are under way.                                  *)
AnsweredOnce == \A a \in Asked : Len(answers[a]) <= 1

(* update_selected_values(), "no read-then-write race": the answer is what *)
(* the operator's taps amount to, unless one of them was lost or came when *)
(* the question was not recorded.                                          *)
AnswerIsMeant ==
    \A a \in Asked \ missed : answers[a] # <<>> => answers[a][1] = meant[a]

(* send-then-insert: no row without a keyboard, "so orphans never enter    *)
(* the table".                                                             *)
NoOrphanAsk == pending \subseteq keyboard

(* What a question that is asked may count on: one answer, the one that    *)
(* was meant, and no row nobody can answer.                                *)
AsksSafe == AnsweredOnce /\ AnswerIsMeant /\ NoOrphanAsk

(* handle_chat_ask(), "status: pending": a tap on a question that has not  *)
(* expired is not lost.                                                    *)
TapCounts == \A a \in missed : a \in expired \/ answers[a] # <<>>
=============================================================================
