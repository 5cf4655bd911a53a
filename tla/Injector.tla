------------------------------ MODULE Injector ------------------------------
(***************************************************************************)
(* The writer of inbound messages into a session's terminal                *)
(* (supervisor/inject.rs), the tracker of the operator's line              *)
(* (supervisor/draft.rs) and the verdicts of the screen                    *)
(* (supervisor/screen.rs), with the thread that forwards the operator's    *)
(* keys (supervisor/mod.rs).                                               *)
(*                                                                         *)
(* Claude Code itself is outside the repository: an input box, a           *)
(* conversation above it, and dialogs that take every key while they are   *)
(* up.  The screen is taken to show at once what it holds.                 *)
(***************************************************************************)
EXTENDS Naturals, FiniteSets, SequencesExt

CONSTANTS Msgs,       \* message ids
          Clears,     \* ids of clear requests
          Keys,       \* what the operator may press
          ClearKeys,  \* how many keys "/clear" has
          MaxLine     \* bound: what the operator puts on the line

AllKeys == {"char", "erase", "word", "recall", "paste", "pasteline",
            "enter", "kill"}

ASSUME InjectorAssumption ==
    /\ Keys \subseteq AllKeys /\ {"op", "/", "none"} \cap (Msgs \cup Clears) = {}
    /\ ClearKeys \in Nat \ {0} /\ MaxLine \in Nat

VARIABLES
    box,       \* the input box, left to right: messages, "op" and "/"
    convo,     \* "talk", or "cleared": only the banner and "/clear" above it
    dialog,    \* a dialog is on screen
    key,       \* a key the tracker has seen and the session has not
    pending, recalled,  \* DraftTracker
    queue,     \* messages waiting for the gate
    seen,      \* message ids accepted
    clears,    \* requests waiting
    outcome,   \* [Clears -> "none" | "asked" | "begun" | "ok" | "failed"]
    pc,        \* where the injector is
    late,      \* a dialog came up after the injector last looked for one
    wiped,     \* the conversation was empty since the request was taken up
    sent,      \* [Msgs -> Nat], how often a message was submitted
    done       \* the session has ended

session == <<box, convo, dialog>>
tracker == <<pending, recalled>>
work == <<queue, seen, clears, outcome>>
vars == <<session, key, tracker, work, pc, late, wiped, sent, done>>

ClearText == [i \in 1..ClearKeys |-> "/"]
Has(t) == \E i \in DOMAIN box : box[i] = t

InjectorTypeOK ==
    /\ box \in Seq(Msgs \cup {"op", "/"})
    /\ convo \in {"talk", "cleared"}
    /\ key \in Keys \cup {"none"}
    /\ pending \in Nat
    /\ queue \in Seq(seen) /\ seen \subseteq Msgs
    /\ clears \in Seq(Clears)
    /\ outcome \in [Clears -> {"none", "asked", "begun", "ok", "failed"}]
    /\ pc \in {"idle", "paste", "pause", "enter", "forget", "clear", "typed",
               "clearpause", "clearenter", "clearforget", "wait", "erase"}
    /\ sent \in [Msgs -> Nat]
    /\ {dialog, recalled, late, wiped, done} \subseteq BOOLEAN
    \* one clear is under way at a time, and only outside a message
    /\ Cardinality({k \in Clears : outcome[k] = "begun"}) =
          IF pc \in {"idle", "paste", "pause", "enter", "forget"} THEN 0 ELSE 1

Init ==
    /\ box = <<>> /\ convo = "talk" /\ dialog = FALSE
    /\ key = "none" /\ pending = 0 /\ recalled = FALSE
    /\ queue = <<>> /\ seen = {} /\ clears = <<>>
    /\ outcome = [k \in Clears |-> "none"]
    /\ pc = "idle" /\ late = FALSE /\ wiped = FALSE
    /\ sent = [m \in Msgs |-> 0] /\ done = FALSE

-----------------------------------------------------------------------------
(* The session: what Enter does.  A dialog takes it as its answer.         *)
Submit ==
    IF dialog
    THEN /\ dialog' = FALSE
         /\ UNCHANGED <<box, convo, wiped, sent>>
    ELSE /\ box' = <<>> /\ UNCHANGED dialog
         /\ IF box = <<>> THEN UNCHANGED <<convo, wiped, sent>>
            ELSE /\ convo' = IF box = ClearText THEN "cleared" ELSE "talk"
                 /\ wiped' = (wiped \/ box = ClearText)
                 /\ sent' = [m \in Msgs |-> sent[m] +
                       Cardinality({i \in DOMAIN box : box[i] = m})]

DialogUp ==
    /\ ~done /\ ~dialog
    /\ dialog' = TRUE /\ late' = TRUE
    /\ UNCHANGED <<box, convo, key, tracker, work, pc, wiped, sent, done>>

DialogGone ==
    /\ ~done /\ dialog
    /\ dialog' = FALSE
    /\ UNCHANGED <<box, convo, key, tracker, work, pc, late, wiped, sent, done>>

SessionEnds ==
    /\ ~done
    /\ done' = TRUE
    /\ UNCHANGED <<session, key, tracker, work, pc, late, wiped, sent>>

-----------------------------------------------------------------------------
(* The operator's keys: the tracker sees a key, then the session does.     *)

Backspaced(p) == IF p = 0 THEN 0 ELSE p - 1

(* observe_operator_input(), classify_escape_sequence().  The line end in  *)
(* a pasted text is taken for a submit.                                    *)
Observe(k) ==
    /\ ~done /\ key = "none"
    /\ k \in {"char", "paste", "pasteline"} =>
          Len(box) < MaxLine /\ pending < MaxLine
    /\ key' = k
    /\ pending' =
          IF k \in {"char", "paste"} THEN pending + 1
          ELSE IF k = "erase" THEN Backspaced(pending)
          ELSE IF k = "word" /\ pending = 0 THEN 1
          ELSE IF k \in {"enter", "kill", "pasteline"} THEN 0
          ELSE pending
    /\ recalled' =
          IF k \in {"recall", "paste"} THEN TRUE
          ELSE IF k \in {"enter", "kill", "pasteline"} THEN FALSE
          ELSE recalled
    /\ UNCHANGED <<session, work, pc, late, wiped, sent, done>>

(* The box after a key that is not Enter.  Erasing stops at a message,     *)
(* which has more characters than this counts.                             *)
Without(n) ==
    SubSeq(box, 1, Max({0, Len(box) - n} \cup {i \in DOMAIN box : box[i] \in Msgs}))

Edited(k) ==
    IF k \in {"char", "paste", "pasteline"} THEN {Append(box, "op")}
    ELSE IF k = "erase" THEN {Without(1)}
    ELSE IF k = "word" THEN {Without(n) : n \in 0..Len(box)}
    ELSE IF k = "recall" THEN {box} \cup (IF box = <<>> THEN {<<"op">>} ELSE {})
    ELSE {<<>>}

Forward ==
    /\ ~done /\ key # "none"
    /\ key' = "none"
    /\ IF key = "enter" THEN Submit
       ELSE /\ box' \in IF dialog THEN {box} ELSE Edited(key)
            /\ UNCHANGED <<convo, dialog, wiped, sent>>
    /\ UNCHANGED <<tracker, work, pc, late, done>>

-----------------------------------------------------------------------------
(* Injector::run: what comes in, and the gate.                             *)

(* A message the connection hands over.  One whose id was seen before is   *)
(* dropped: no step.                                                       *)
Receive(m) ==
    /\ ~done /\ pc = "idle"
    /\ m \notin seen
    /\ seen' = seen \cup {m} /\ queue' = Append(queue, m)
    /\ UNCHANGED <<session, key, tracker, clears, outcome, pc, late, wiped, sent, done>>

AskClear(k) ==
    /\ ~done /\ outcome[k] = "none"
    /\ outcome' = [outcome EXCEPT ![k] = "asked"]
    /\ clears' = Append(clears, k)
    /\ UNCHANGED <<session, key, tracker, queue, seen, pc, late, wiped, sent, done>>

\* Mutant of GateOpen: only the operator's line is looked at.
GateIgnoresDialog == pending = 0 /\ ~recalled

(* gate_open(): no dialog, and the operator's line believed empty.         *)
GateOpen == ~dialog /\ pending = 0 /\ ~recalled

(* Everything that waits is written as one block; a clear waits until      *)
(* nothing else does.                                                      *)
Look ==
    /\ ~done /\ pc = "idle" /\ GateOpen
    /\ late' = FALSE
    /\ \/ queue # <<>> /\ pc' = "paste" /\ UNCHANGED <<clears, outcome, wiped>>
       \/ /\ queue = <<>> /\ clears # <<>>
          /\ clears' = Tail(clears)
          /\ outcome' = [outcome EXCEPT ![Head(clears)] = "begun"]
          /\ wiped' = (convo = "cleared")
          /\ pc' = "clear"
    /\ UNCHANGED <<session, key, tracker, queue, seen, sent, done>>

(* What is written while a dialog is up is swallowed.                      *)
Write(text) == box' = IF dialog THEN box ELSE box \o text

-----------------------------------------------------------------------------
(* write_block(): paste, pause, look again, Enter.                         *)

Paste ==
    /\ ~done /\ pc = "paste"
    /\ Write(queue)
    /\ pc' = "pause"
    /\ UNCHANGED <<convo, dialog, key, tracker, work, late, wiped, sent, done>>

\* Mutant of LookAgain: Enter is pressed whatever is on the screen.
LookAgainBlind ==
    /\ ~done /\ pc = "pause"
    /\ pc' = "enter" /\ late' = FALSE
    /\ UNCHANGED <<session, key, tracker, work, wiped, sent, done>>

\* Mutant of LookAgain: a dialog in the pause leaves the block in the queue.
LookAgainKeeps ==
    /\ ~done /\ pc = "pause"
    /\ pc' = IF dialog THEN "idle" ELSE "enter"
    /\ late' = FALSE
    /\ UNCHANGED <<session, key, tracker, work, wiped, sent, done>>

(* With a dialog up the block stays in the box, and counts as written.     *)
LookAgain ==
    /\ ~done /\ pc = "pause"
    /\ pc' = IF dialog THEN "idle" ELSE "enter"
    /\ queue' = IF dialog THEN <<>> ELSE queue
    /\ late' = FALSE
    /\ UNCHANGED <<session, key, tracker, seen, clears, outcome, wiped, sent, done>>

PressEnter ==
    /\ ~done /\ pc \in {"enter", "clearenter"}
    /\ Submit
    /\ pc' = IF pc = "enter" THEN "forget" ELSE "clearforget"
    /\ UNCHANGED <<key, tracker, work, late, done>>

(* draft.clear(), whatever the operator has typed since the paste.         *)
Forget ==
    /\ ~done /\ pc \in {"forget", "clearforget"}
    /\ pending' = 0 /\ recalled' = FALSE
    /\ queue' = <<>>
    /\ pc' = IF pc = "forget" THEN "idle" ELSE "wait"
    /\ UNCHANGED <<session, key, seen, clears, outcome, late, wiped, sent, done>>

-----------------------------------------------------------------------------
(* clear_session(): type /clear, see it in the box, Enter, see the         *)
(* conversation gone.                                                      *)

Fails(k) == outcome' = [outcome EXCEPT ![k] = "failed"]
Begun == CHOOSE k \in Clears : outcome[k] = "begun"

TypeClear ==
    /\ ~done /\ pc = "clear"
    /\ Write(ClearText)
    /\ pc' = "typed"
    /\ UNCHANGED <<convo, dialog, key, tracker, work, late, wiped, sent, done>>

(* input_text() is the box, and nothing while a dialog is up.              *)
SeesTyped ==
    /\ ~done /\ pc = "typed"
    /\ pc' = IF box = ClearText /\ ~dialog THEN "clearpause" ELSE "erase"
    /\ UNCHANGED <<session, key, tracker, work, late, wiped, sent, done>>

LookBeforeClear ==
    /\ ~done /\ pc = "clearpause"
    /\ pc' = IF dialog THEN "erase" ELSE "clearenter"
    /\ late' = FALSE
    /\ UNCHANGED <<session, key, tracker, work, wiped, sent, done>>

\* Mutant of Erase: the failed clear is not reported.
EraseSilent ==
    /\ ~done /\ pc = "erase"
    /\ box' = IF dialog THEN box ELSE Without(ClearKeys)
    /\ pc' = "idle"
    /\ UNCHANGED <<convo, dialog, key, tracker, work, late, wiped, sent, done>>

(* What was typed must not stay behind.                                    *)
Erase ==
    /\ ~done /\ pc = "erase"
    /\ box' = IF dialog THEN box ELSE Without(ClearKeys)
    /\ Fails(Begun)
    /\ pc' = "idle"
    /\ UNCHANGED <<convo, dialog, key, tracker, queue, seen, clears, late, wiped, sent, done>>

\* Mutant of ClearEnds: the report does not wait for the screen.
ClearEndsUnseen ==
    /\ ~done /\ pc = "wait"
    /\ outcome' = [outcome EXCEPT ![Begun] = "ok"]
    /\ pc' = "idle"
    /\ UNCHANGED <<session, key, tracker, queue, seen, clears, late, wiped, sent, done>>

\* Mutant of ClearEnds: the wait for the screen has no end of its own.
ClearEndsIfSeen ==
    /\ ~done /\ pc = "wait"
    /\ convo = "cleared" /\ box = <<>> /\ ~dialog
    /\ outcome' = [outcome EXCEPT ![Begun] = "ok"]
    /\ pc' = "idle"
    /\ UNCHANGED <<session, key, tracker, queue, seen, clears, late, wiped, sent, done>>

(* shows_cleared_session() within CLEAR_DONE_WITHIN, or not.               *)
ClearEnds ==
    /\ ~done /\ pc = "wait"
    /\ outcome' = [outcome EXCEPT ![Begun] =
          IF convo = "cleared" /\ box = <<>> /\ ~dialog THEN "ok" ELSE "failed"]
    /\ pc' = "idle"
    /\ UNCHANGED <<session, key, tracker, queue, seen, clears, late, wiped, sent, done>>

-----------------------------------------------------------------------------
InjectorStep ==
    \/ Look \/ Paste \/ LookAgain \/ PressEnter \/ Forget
    \/ TypeClear \/ SeesTyped \/ LookBeforeClear \/ Erase \/ ClearEnds

Next ==
    \/ \E k \in Keys : Observe(k)
    \/ Forward
    \/ DialogUp \/ DialogGone \/ SessionEnds
    \/ \E m \in Msgs : Receive(m)
    \/ \E k \in Clears : AskClear(k)
    \/ InjectorStep

Spec == Init /\ [][Next]_vars

(* The injector polls its gate every GATE_POLL; the operator, the session  *)
(* and the daemon do as they like.                                         *)
FairSpec == Spec /\ WF_vars(InjectorStep)

-----------------------------------------------------------------------------
(* write_block(), clear_session(), F-3: "pressing Enter into one answers   *)
(* it".  The injector presses Enter into a dialog only when the dialog     *)
(* came up after the injector had looked for one.                          *)
AnswersNoDialog ==
    [][pc' # pc /\ pc \in {"enter", "clearenter"} /\ dialog => late]_vars

(* F-3: a message, or "/clear", is written into a dialog, and lost, only   *)
(* when the dialog came up after the gate was found open.                  *)
SwallowedByLateDialog ==
    [][pc' # pc /\ pc \in {"paste", "clear"} /\ dialog => late]_vars

(* run(): a message is submitted once, also when a dialog interrupted the  *)
(* paste and it was left in the box for a later Enter.                     *)
SubmittedOnce == \A m \in Msgs : sent[m] <= 1

(* clear_session(), "Ok once the empty session is on screen": a clear is   *)
(* reported done only if the conversation was empty since it was begun.    *)
ReportedClearIsReal ==
    [][\A k \in Clears : outcome'[k] = "ok" /\ outcome[k] # "ok" => wiped]_vars

(* run(), "kept in the queue and retried": with the gate open from some    *)
(* time on, what waits is written and every clear is answered for.         *)
GateReleases ==
    <>[](GateOpen /\ ~done) =>
        /\ [](queue # <<>> => <>(queue = <<>>))
        /\ \A k \in Clears : [](outcome[k] = "asked" => <>(outcome[k] \in {"ok", "failed"}))

(* DraftTracker::is_clean(), "True when the operator's input line is       *)
(* believed EMPTY and it is therefore safe to inject": a clean tracker     *)
(* with no key on its way means that none of the operator's text is there. *)
CleanIsEmpty ==
    pending = 0 /\ ~recalled /\ key = "none" => ~Has("op")
=============================================================================
