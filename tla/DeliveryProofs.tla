--------------------------- MODULE DeliveryProofs ---------------------------
(***************************************************************************)
(* Proofs about Inbox and Injector, the two halves of a message's way into *)
(* a session.  Of Inbox: types, the message that is typed once, and the    *)
(* gap between the subscription and the backlog; the delivery itself is a  *)
(* liveness property and stays with TLC.  Of Injector: what it writes and  *)
(* answers while a dialog is up, what a reported clear means, that a       *)
(* message is submitted once, and the types, for every interleaving of the *)
(* operator's keys and every number of messages and requests.              *)
(***************************************************************************)
EXTENDS Inbox, Injector, FiniteSetTheorems, SequenceTheorems, WellFoundedInduction, TLAPS

(* A connection that was never made has asked for nothing.                 *)
Untouched == \A c \in Conns : conn[c] = "new" => sub[c] = "none"

InboxInv == InboxTypeOK /\ Untouched

(* What was typed, or waits to be typed, was accepted before, and what     *)
(* waits has not been typed.                                               *)
Accepted ==
    /\ waiting \subseteq accepted
    /\ \A m \in Mail : m \notin accepted \/ m \in waiting => typed[m] = 0
    /\ TypedOnce

-----------------------------------------------------------------------------
(* The state as the daemon and the session start.                          *)
LEMMA InitInbox == InboxInit => InboxInv /\ Accepted /\ NoGap
  BY InboxAssumption
     DEF InboxInit, InboxInv, InboxTypeOK, Untouched, Accepted, TypedOnce, NoGap

(* What a step of the senders keeps: connections and the session's side    *)
(* are theirs to read only.                                                *)
LEMMA SenderTypes ==
  ASSUME InboxInv, NEW m \in Mail, Store(m) \/ SendStep(m) \/ Age(m)
  PROVE  InboxInv'
<1> USE DEF InboxInv, InboxTypeOK, Untouched, store, daemon, client
<1>1. CASE Store(m)   BY <1>1 DEF Store
<1>2. CASE Publish(m) BY <1>2 DEF Publish
<1>3. CASE Mark(m)    BY <1>3 DEF Mark
<1>4. CASE Age(m)     BY <1>4 DEF Age
<1>5. QED BY <1>1, <1>2, <1>3, <1>4 DEF SendStep

(* What a step of a connection keeps, from its making to its end.          *)
LEMMA ConnectionTypes ==
  ASSUME InboxInv, NEW c \in Conns,
         Connect(c) \/ SubscribeStep(c) \/ SeesClose(c) \/ EndStep(c)
  PROVE  InboxInv'
<1> USE DEF InboxInv, InboxTypeOK, Untouched, store, client
<1>1. CASE Connect(c)       BY <1>1 DEF Connect
<1>2. CASE Join(c)          BY <1>2 DEF Join
<1>3. CASE Drain(c)         BY <1>3 DEF Drain
<1>4. CASE DrainFails(c)    BY <1>4 DEF DrainFails
<1>5. CASE SeesClose(c)     BY <1>5 DEF SeesClose
<1>6. CASE WriteFails(c)    BY <1>6 DEF WriteFails
<1>7. CASE WriterDone(c)    BY <1>7 DEF WriterDone
<1>8. CASE ForwarderDone(c) BY <1>8 DEF ForwarderDone
<1>9. CASE Free(c)          BY <1>9 DEF Free
<1>10. QED
  BY <1>1, <1>2, <1>3, <1>4, <1>5, <1>6, <1>7, <1>8, <1>9
     DEF SubscribeStep, EndStep

(* What a step of the session, and a restart of the daemon, keeps.         *)
LEMMA SessionTypes ==
  ASSUME InboxInv,
         (\E c \in Conns : ReadStep(c)) \/ Type \/ LinkLost \/ RestartDaemon
  PROVE  InboxInv'
<1> USE DEF InboxInv, InboxTypeOK, Untouched, store, daemon, client
<1>1. ASSUME NEW c \in Conns, NEW m \in Mail, ReceiveFrame(c, m) PROVE InboxInv'
  BY <1>1 DEF ReceiveFrame, Take
<1>2. ASSUME NEW c \in Conns, ReceiveAnswer(c) PROVE InboxInv'
  BY <1>2 DEF ReceiveAnswer, Take
<1>3. CASE Type          BY <1>3 DEF Type
<1>4. CASE LinkLost      BY <1>4 DEF LinkLost
<1>5. CASE RestartDaemon BY <1>5 DEF RestartDaemon, Made
<1>6. QED BY <1>1, <1>2, <1>3, <1>4, <1>5 DEF ReadStep

(* The type invariant is inductive with Untouched.                         *)
LEMMA StepTypes == InboxInv /\ [InboxNext]_inboxVars => InboxInv'
<1> SUFFICES ASSUME InboxInv, [InboxNext]_inboxVars PROVE InboxInv'
  OBVIOUS
<1>1. CASE UNCHANGED inboxVars
  BY <1>1 DEF InboxInv, InboxTypeOK, Untouched, inboxVars, store, daemon, client
<1>2. CASE InboxNext
  BY <1>2, SenderTypes, ConnectionTypes, SessionTypes DEF InboxNext
<1>3. QED BY <1>1, <1>2

(* Every variable of the inbox has its type in every reachable state, and  *)
(* only a subscription that was granted has a receiver on the bus.         *)
THEOREM InboxTypes == InboxSpec => []InboxTypeOK
<1>1. InboxInit => InboxInv BY InitInbox
<1>2. InboxInv => InboxTypeOK BY DEF InboxInv
<1>3. QED BY <1>1, <1>2, StepTypes, PTL DEF InboxSpec

(* Typed, unread and waiting messages stay told apart: only Take and Type  *)
(* write the session's side, and Take lets in what is new.                 *)
LEMMA StepAccepted ==
  InboxInv /\ Accepted /\ [InboxNext]_inboxVars => Accepted'
<1> SUFFICES ASSUME InboxInv, Accepted, [InboxNext]_inboxVars PROVE Accepted'
  OBVIOUS
<1> USE DEF Accepted, TypedOnce
<1>1. ASSUME NEW M, Take(M) PROVE Accepted'
  BY <1>1 DEF Take
<1>2. CASE Type
  BY <1>2 DEF Type, InboxInv, InboxTypeOK
<1>3. CASE UNCHANGED client
  BY <1>3 DEF client
<1>4. CASE \E c \in Conns : ReadStep(c)
  BY <1>1, <1>4 DEF ReadStep, ReceiveFrame, ReceiveAnswer
<1>5. ASSUME NEW m \in Mail, Store(m) \/ SendStep(m) \/ Age(m)
      PROVE  UNCHANGED client
  BY <1>5 DEF SendStep, Store, Publish, Mark, Age
<1>6. ASSUME NEW c \in Conns,
             Connect(c) \/ SubscribeStep(c) \/ SeesClose(c) \/ EndStep(c)
      PROVE  UNCHANGED client
  BY <1>6 DEF Connect, SubscribeStep, Join, Drain, DrainFails, SeesClose,
              EndStep, WriteFails, WriterDone, ForwarderDone, Free
<1>7. LinkLost \/ RestartDaemon \/ UNCHANGED inboxVars => UNCHANGED client
  BY DEF LinkLost, RestartDaemon, inboxVars
<1>8. QED BY <1>2, <1>3, <1>4, <1>5, <1>6, <1>7 DEF InboxNext

(* However often a message comes (live, as backlog, from a later           *)
(* connection), the injector types it into the session once.               *)
THEOREM TypedAtMostOnce == InboxSpec => []TypedOnce
<1>1. InboxInit => InboxInv /\ Accepted BY InitInbox
<1>2. InboxInv /\ Accepted /\ [InboxNext]_inboxVars => (InboxInv /\ Accepted)'
  BY StepTypes, StepAccepted
<1>3. Accepted => TypedOnce BY DEF Accepted
<1>4. QED BY <1>1, <1>2, <1>3, PTL DEF InboxSpec

-----------------------------------------------------------------------------
(* NoGap is inductive over the types: a sender leaves a message only when  *)
(* nobody is subscribed, and a drain takes everything that was left.       *)
LEMMA StepNoGap == InboxInv /\ NoGap /\ [InboxNext]_inboxVars => NoGap'
<1> SUFFICES ASSUME InboxInv, NoGap, [InboxNext]_inboxVars PROVE NoGap'
  OBVIOUS
<1> USE DEF NoGap
<1>1. ASSUME NEW m \in Mail, Store(m) PROVE NoGap'
  BY <1>1 DEF Store, daemon, InboxInv, InboxTypeOK
<1>2. ASSUME NEW m \in Mail, Publish(m) PROVE NoGap'
  BY <1>2 DEF Publish, InboxInv, InboxTypeOK
<1>3. ASSUME NEW m \in Mail, Mark(m) PROVE NoGap'
  BY <1>3 DEF Mark, daemon, InboxInv, InboxTypeOK
<1>4. ASSUME NEW m \in Mail, Age(m) PROVE NoGap'
  BY <1>4 DEF Age, daemon
<1>5. ASSUME NEW c \in Conns, Connect(c) PROVE NoGap'
  BY <1>5 DEF Connect, store, InboxInv, InboxTypeOK, Untouched
<1>6. ASSUME NEW c \in Conns, Join(c) PROVE NoGap'
  BY <1>6 DEF Join, store, InboxInv, InboxTypeOK
<1>7. ASSUME NEW c \in Conns, Drain(c) PROVE NoGap'
  BY <1>7 DEF Drain, InboxInv, InboxTypeOK
<1>8. ASSUME NEW c \in Conns, DrainFails(c) PROVE NoGap'
  BY <1>8 DEF DrainFails, store, InboxInv, InboxTypeOK
<1>9. ASSUME NEW c \in Conns, SeesClose(c) \/ EndStep(c) PROVE NoGap'
  BY <1>9 DEF SeesClose, EndStep, WriteFails, WriterDone, ForwarderDone, Free, store
<1>10. ASSUME NEW c \in Conns, ReadStep(c) PROVE NoGap'
  BY <1>10 DEF ReadStep, ReceiveFrame, ReceiveAnswer, store
<1>11. CASE Type \/ LinkLost \/ RestartDaemon \/ UNCHANGED inboxVars
  BY <1>11 DEF Type, LinkLost, RestartDaemon, inboxVars, store, daemon
<1>12. QED
  BY <1>1, <1>2, <1>3, <1>4, <1>5, <1>6, <1>7, <1>8, <1>9, <1>10, <1>11
     DEF InboxNext, SendStep, SubscribeStep

(* A message its sender left for the next subscriber is never left behind  *)
(* a subscription whose backlog has been answered.                         *)
THEOREM NothingInTheGap == InboxSpec => []NoGap
<1>1. InboxInit => InboxInv /\ NoGap BY InitInbox
<1>2. InboxInv /\ NoGap /\ [InboxNext]_inboxVars => (InboxInv /\ NoGap)'
  BY StepTypes, StepNoGap
<1>3. QED BY <1>1, <1>2, PTL DEF InboxSpec

-----------------------------------------------------------------------------
(* The injector.                                                           *)

(* Between a look that found no dialog and the write that follows it, a    *)
(* dialog that is up is a late one.                                        *)
DialogsAreLate ==
    dialog /\ pc \in {"paste", "clear", "enter", "clearenter"} => late

(* An empty conversation was emptied since the last request was begun.     *)
EmptyIsWiped ==
    /\ convo = "cleared" => wiped
    /\ wiped \in BOOLEAN
    /\ outcome \in [Clears -> {"none", "asked", "begun", "ok", "failed"}]

(* The thread of the operator's keys and the connection do not move the    *)
(* injector, and only Enter closes a dialog or touches the conversation.   *)
LEMMA OutsideStep ==
  ASSUME DialogsAreLate,
         \/ \E k \in Keys : Observe(k)
         \/ Forward \/ DialogUp \/ DialogGone \/ SessionEnds
         \/ \E m \in Msgs : Receive(m)
         \/ \E k \in Clears : AskClear(k)
  PROVE  DialogsAreLate' /\ pc' = pc
<1> USE DEF DialogsAreLate, session
<1>1. ASSUME NEW k \in Keys, Observe(k) PROVE DialogsAreLate' /\ pc' = pc
  BY <1>1 DEF Observe
<1>2. CASE Forward
  <2>1. pc' = pc /\ late' = late BY <1>2 DEF Forward
  <2>2. dialog' => dialog BY <1>2 DEF Forward, Submit
  <2>3. QED BY <2>1, <2>2
<1>3. CASE DialogUp \/ DialogGone \/ SessionEnds
  BY <1>3 DEF DialogUp, DialogGone, SessionEnds
<1>4. ASSUME NEW m \in Msgs, Receive(m) PROVE DialogsAreLate' /\ pc' = pc
  BY <1>4 DEF Receive
<1>5. ASSUME NEW k \in Clears, AskClear(k) PROVE DialogsAreLate' /\ pc' = pc
  BY <1>5 DEF AskClear
<1>6. QED BY <1>1, <1>2, <1>3, <1>4, <1>5

(* Every look of the injector starts the count anew, every write follows   *)
(* one.                                                                    *)
LEMMA InjectorLooks ==
  ASSUME DialogsAreLate, InjectorStep
  PROVE  DialogsAreLate'
<1> USE DEF DialogsAreLate, session
<1>1. CASE Look BY <1>1 DEF Look, GateOpen
<1>2. CASE Paste \/ TypeClear BY <1>2 DEF Paste, TypeClear
<1>3. CASE LookAgain BY <1>3 DEF LookAgain
<1>4. CASE PressEnter
  <2>1. pc' \in {"forget", "clearforget"} BY <1>4 DEF PressEnter
  <2>2. QED BY <2>1
<1>5. CASE Forget BY <1>5 DEF Forget
<1>6. CASE SeesTyped BY <1>6 DEF SeesTyped
<1>7. CASE LookBeforeClear BY <1>7 DEF LookBeforeClear
<1>8. CASE Erase \/ ClearEnds BY <1>8 DEF Erase, ClearEnds
<1>9. QED
  BY <1>1, <1>2, <1>3, <1>4, <1>5, <1>6, <1>7, <1>8 DEF InjectorStep

(* DialogsAreLate is inductive by itself.                                  *)
LEMMA StepLate == DialogsAreLate /\ [Next]_vars => DialogsAreLate'
<1> SUFFICES ASSUME DialogsAreLate, [Next]_vars PROVE DialogsAreLate'
  OBVIOUS
<1>1. CASE UNCHANGED vars BY <1>1 DEF vars, session, DialogsAreLate
<1>2. CASE Next BY <1>2, OutsideStep, InjectorLooks DEF Next
<1>3. QED BY <1>1, <1>2

(* An Enter of the injector answers a dialog, and a paste or a typed       *)
(* "/clear" disappears in one, only when the dialog came up after the      *)
(* injector had looked: inject.rs, write_block() and clear_session().      *)
THEOREM DialogsAreSpared == Spec => AnswersNoDialog /\ SwallowedByLateDialog
<1>1. Init => DialogsAreLate BY DEF Init, DialogsAreLate
<1>2. DialogsAreLate =>
        /\ pc' # pc /\ pc \in {"enter", "clearenter"} /\ dialog => late
        /\ pc' # pc /\ pc \in {"paste", "clear"} /\ dialog => late
  BY DEF DialogsAreLate
<1>3. QED
  BY <1>1, <1>2, StepLate, PTL
     DEF Spec, AnswersNoDialog, SwallowedByLateDialog

-----------------------------------------------------------------------------
(* What an Enter does to the conversation.                                 *)
LEMMA SubmitKeeps ==
  ASSUME convo = "cleared" => wiped, wiped \in BOOLEAN, Submit
  PROVE  (convo' = "cleared" => wiped') /\ wiped' \in BOOLEAN
BY DEF Submit

(* A step keeps EmptyIsWiped, and turns an outcome to "ok" only in         *)
(* ClearEnds, over an empty conversation.                                  *)
LEMMA StepWiped ==
  ASSUME EmptyIsWiped, [Next]_vars
  PROVE  /\ EmptyIsWiped'
         /\ \A k \in Clears : outcome'[k] = "ok" /\ outcome[k] # "ok" => wiped
<1> USE DEF EmptyIsWiped
<1> DEFINE Goal ==
      /\ EmptyIsWiped'
      /\ \A k \in Clears : outcome'[k] = "ok" /\ outcome[k] # "ok" => wiped
<1>1. ASSUME UNCHANGED <<convo, wiped, outcome>> PROVE Goal
  BY <1>1
<1>2. ASSUME Submit, UNCHANGED outcome PROVE Goal
  BY <1>2, SubmitKeeps
<1>3. CASE Forward
  <2>1. UNCHANGED outcome BY <1>3 DEF Forward, work
  <2>2. CASE key = "enter" BY <1>2, <1>3, <2>1, <2>2 DEF Forward
  <2>3. CASE key # "enter" BY <1>1, <1>3, <2>1, <2>3 DEF Forward
  <2>4. QED BY <2>2, <2>3
<1>4. CASE PressEnter BY <1>2, <1>4 DEF PressEnter, work
<1>5. CASE Look
  <2>1. CASE queue # <<>> /\ UNCHANGED <<clears, outcome, wiped>>
    BY <1>1, <1>5, <2>1 DEF Look, session
  <2>2. CASE /\ outcome' = [outcome EXCEPT ![Head(clears)] = "begun"]
             /\ wiped' = (convo = "cleared")
    <3>1. /\ outcome' \in [Clears -> {"none", "asked", "begun", "ok", "failed"}]
          /\ \A k \in Clears : outcome'[k] = "ok" => outcome[k] = "ok"
      BY <2>2
    <3>2. convo' = convo BY <1>5 DEF Look, session
    <3>3. wiped' \in BOOLEAN /\ (convo = "cleared" => wiped') BY <2>2
    <3>4. QED BY <3>1, <3>2, <3>3
  <2>3. QED BY <1>5, <2>1, <2>2 DEF Look
<1>6. ASSUME NEW k \in Clears, AskClear(k) PROVE Goal
  BY <1>6 DEF AskClear, session
<1>7. CASE Erase BY <1>7 DEF Erase, Fails
<1>8. CASE ClearEnds BY <1>8 DEF ClearEnds, session
<1>9. CASE UNCHANGED vars
  BY <1>1, <1>9 DEF vars, session, work
<1>10. CASE DialogUp \/ DialogGone \/ SessionEnds
  BY <1>1, <1>10 DEF DialogUp, DialogGone, SessionEnds, session, work
<1>11. ASSUME NEW k \in Keys, Observe(k) PROVE Goal
  BY <1>1, <1>11 DEF Observe, session, work
<1>12. ASSUME NEW m \in Msgs, Receive(m) PROVE Goal
  BY <1>1, <1>12 DEF Receive, session
<1>13. CASE Paste \/ LookAgain \/ Forget
  BY <1>1, <1>13 DEF Paste, LookAgain, Forget, session, work
<1>14. CASE TypeClear \/ SeesTyped \/ LookBeforeClear
  BY <1>1, <1>14 DEF TypeClear, SeesTyped, LookBeforeClear, session, work
<1>15. QED
  BY <1>3, <1>4, <1>5, <1>6, <1>7, <1>8, <1>9, <1>10, <1>11, <1>12, <1>13, <1>14
     DEF Next, InjectorStep

(* inject.rs, clear_session(): no clear is reported done unless the        *)
(* conversation has been empty since the request was begun.                *)
THEOREM ClearsAreReal == Spec => ReportedClearIsReal
<1>1. Init => EmptyIsWiped BY DEF Init, EmptyIsWiped
<1>2. EmptyIsWiped /\ [Next]_vars =>
        /\ EmptyIsWiped'
        /\ \A k \in Clears : outcome'[k] = "ok" /\ outcome[k] # "ok" => wiped
  BY StepWiped
<1>3. QED BY <1>1, <1>2, PTL DEF Spec, ReportedClearIsReal

-----------------------------------------------------------------------------
(* Messages.  A message is in the queue or in the box, once, and then not  *)
(* submitted yet; from the paste on the queue is only what was written,    *)
(* and a clear begins and ends with none.                                  *)
Content == Msgs \cup {"op", "/"}
MessagePhases == {"idle", "paste", "pause", "enter", "forget"}
ClearPhases == {"clear", "typed", "clearpause", "clearenter", "clearforget", "wait", "erase"}

CopiesTypeOK ==
    /\ box \in Seq(Content)
    /\ queue \in Seq(seen) /\ seen \subseteq Msgs
    /\ sent \in [Msgs -> Nat]
    /\ pc \in MessagePhases \cup ClearPhases

BoxOnce ==
    \A i \in 1..Len(box) : box[i] \in Msgs =>
        /\ box[i] \in seen /\ sent[box[i]] = 0
        /\ \A j \in 1..Len(box) : box[j] = box[i] => j = i

QueueOnce == \A i, j \in 1..Len(queue) : queue[i] = queue[j] => i = j

Unwritten ==
    pc \in {"idle", "paste"} =>
        \A i \in 1..Len(queue) :
            /\ sent[queue[i]] = 0
            /\ \A j \in 1..Len(box) : box[j] # queue[i]

UnseenUnsent == \A m \in Msgs \ seen : sent[m] = 0

ClearWaits == pc \in ClearPhases => queue = <<>>

CopyInv ==
    /\ CopiesTypeOK /\ SubmittedOnce
    /\ BoxOnce /\ QueueOnce /\ Unwritten /\ UnseenUnsent /\ ClearWaits

LEMMA InitCopies == Init => CopyInv
<1> SUFFICES ASSUME Init PROVE CopyInv
  OBVIOUS
<1>1. /\ box \in Seq(Content) /\ Len(box) = 0 /\ queue \in Seq(seen) /\ Len(queue) = 0
  BY DEF Init
<1>2. sent \in [Msgs -> Nat] /\ \A m \in Msgs : sent[m] = 0
  BY DEF Init
<1>3. QED
  BY <1>1, <1>2 DEF Init, CopyInv, CopiesTypeOK, SubmittedOnce, BoxOnce, QueueOnce, Unwritten,
     UnseenUnsent, ClearWaits, MessagePhases, ClearPhases

(* The highest of some whole numbers up to n, 0 among them, is one of them *)
(* (Max, as Without takes it).                                             *)
LEMMA MaxIsThere ==
  ASSUME NEW n \in Nat, NEW S \in SUBSET Int, 0 \in S, \A x \in S : x <= n
  PROVE  Max(S) \in S /\ Max(S) \in 0..n
<1> DEFINE T == {n - x : x \in S}
<1>1. T \subseteq Nat /\ T # {}
  <2>1. \A x \in S : n - x \in Nat
    OBVIOUS
  <2>2. QED BY <2>1
<1>2. PICK t \in T : \A s \in T : ~(<<s, t>> \in OpToRel(<, Nat))
  BY <1>1, NatLessThanWellFounded, WFMin, ZenonT(30)
<1>3. \A s \in T : t <= s
  <2> TAKE s \in T
  <2>1. ~(<<s, t>> \in {p \in Nat \X Nat : p[1] < p[2]})
    BY <1>2, Zenon DEF OpToRel
  <2>2. <<s, t>> \in Nat \X Nat
    BY <1>1
  <2>3. ~(s < t)
    BY <2>1, <2>2
  <2>4. s \in Nat /\ t \in Nat
    BY <1>1
  <2>5. QED BY <2>3, <2>4
<1>4. PICK u \in S : t = n - u
  OBVIOUS
<1>5. \A x \in S : u >= x
  <2> TAKE x \in S
  <2>1. n - x \in T
    OBVIOUS
  <2>2. n - u <= n - x
    BY <1>3, <1>4, <2>1
  <2> HIDE DEF T
  <2>3. QED BY <1>4, <2>2
<1> HIDE DEF T
<1>6. Max(S) \in S /\ \A x \in S : Max(S) >= x
  BY <1>5 DEF Max
<1>7. PICK y : y = Max(S)
  OBVIOUS
<1>8. y \in S /\ y >= 0 /\ y <= n /\ y \in Int
  BY <1>6, <1>7
<1>9. QED BY <1>7, <1>8

(* Every edit of the operator's, and what the injector takes back, leaves  *)
(* the messages that stay where they were.                                 *)
Stays(b) ==
    /\ b \in Seq(Content)
    /\ \A i \in 1..Len(b) : b[i] \in Msgs => i \in 1..Len(box) /\ b[i] = box[i]

LEMMA WithoutStays ==
  ASSUME box \in Seq(Content), NEW n \in Nat PROVE Stays(Without(n))
<1> DEFINE S == {0, Len(box) - n} \cup {i \in DOMAIN box : box[i] \in Msgs}
           k == Max(S)
<1>1. Len(box) \in Nat /\ DOMAIN box = 1..Len(box)
  BY LenProperties
<1>2. S \in SUBSET Int /\ 0 \in S /\ \A x \in S : x <= Len(box)
  <2>1. \A x \in S : x = 0 \/ x = Len(box) - n \/ x \in 1..Len(box)
    BY <1>1
  <2>2. 0 \in S
    OBVIOUS
  <2> HIDE DEF S
  <2>3. \A x \in S : x \in Int /\ x <= Len(box)
    BY <1>1, <2>1
  <2>4. QED BY <2>2, <2>3
<1> HIDE DEF S
<1>3. k \in 0..Len(box)
  BY <1>1, <1>2, MaxIsThere
<1> HIDE DEF k
<1>4. \A i \in 1..k : box[i] \in Content
  <2> TAKE i \in 1..k
  <2>1. i \in 1..Len(box)
    BY <1>1, <1>3
  <2>2. QED BY <2>1, ElementOfSeq
<1>5. /\ SubSeq(box, 1, k) \in Seq(Content)
      /\ Len(SubSeq(box, 1, k)) = IF 1 <= k THEN k - 1 + 1 ELSE 0
      /\ \A i \in 1..(k - 1 + 1) : SubSeq(box, 1, k)[i] = box[1 + i - 1]
  <2>1. k \in Int /\ 1 \in Int
    BY <1>3
  <2>2. QED BY <1>4, <2>1, SubSeqProperties
<1> DEFINE b == SubSeq(box, 1, k)
<1>6. Without(n) = b
  BY DEF Without, k, S
<1>7. Len(b) = k
  BY <1>3, <1>5
<1> HIDE DEF b
<1>8. \A i \in 1..Len(b) : i \in 1..Len(box) /\ b[i] = box[i]
  <2> TAKE i \in 1..Len(b)
  <2>1. i \in 1..k /\ i \in 1..Len(box) /\ 1 + i - 1 = i /\ i \in 1..(k - 1 + 1)
    BY <1>1, <1>3, <1>7
  <2>2. b[i] = box[1 + i - 1]
    BY <1>5, <2>1 DEF b
  <2>3. QED BY <2>1, <2>2
<1>9. b \in Seq(Content)
  BY <1>5 DEF b
<1>10. QED BY <1>6, <1>8, <1>9 DEF Stays

LEMMA EditStays ==
  ASSUME box \in Seq(Content), NEW k \in AllKeys, NEW b \in Edited(k)
  PROVE  Stays(b)
<1>0. Len(box) \in Nat /\ box \in Seq(Content)
  BY LenProperties
<1>1. Stays(Append(box, "op"))
  <2>1. /\ Append(box, "op") \in Seq(Content) /\ Len(Append(box, "op")) = Len(box) + 1
        /\ \A i \in 1..Len(box) : Append(box, "op")[i] = box[i]
        /\ Append(box, "op")[Len(box) + 1] = "op"
    BY <1>0, AppendProperties DEF Content
  <2>2. "op" \notin Msgs
    BY InjectorAssumption
  <2>3. QED BY <1>0, <2>1, <2>2 DEF Stays
<1>2. Stays(box) /\ Stays(<<>>)
  BY DEF Stays
<1>3. Stays(<<"op">>)
  <2>1. <<"op">> \in Seq(Content) /\ Len(<<"op">>) = 1 /\ <<"op">>[1] = "op"
    BY DEF Content
  <2>2. "op" \notin Msgs
    BY InjectorAssumption
  <2>3. QED BY <2>1, <2>2 DEF Stays
<1>4. \A n \in Nat : Stays(Without(n))
  BY <1>0, WithoutStays
<1>5. 1 \in Nat /\ 0..Len(box) \subseteq Nat
  BY <1>0
<1>6. CASE k \in {"char", "paste", "pasteline"}
  BY <1>1, <1>6 DEF Edited
<1>7. CASE k = "erase"
  BY <1>4, <1>5, <1>7 DEF Edited
<1>8. CASE k = "word"
  BY <1>4, <1>5, <1>8 DEF Edited
<1>9. CASE k = "recall"
  BY <1>2, <1>3, <1>9 DEF Edited
<1>10. CASE k \notin {"char", "paste", "pasteline", "erase", "word", "recall"}
  BY <1>2, <1>10 DEF Edited
<1>11. QED BY <1>6, <1>7, <1>8, <1>9, <1>10

(* What writes no message, submits none and takes none in.                 *)
LEMMA CopiesRest ==
  ASSUME CopyInv, UNCHANGED <<seen, sent>>, Stays(box'), queue' \in {queue, <<>>},
         pc' \in MessagePhases \cup ClearPhases,
         pc' \in {"idle", "paste"} => pc \in {"idle", "paste"} \/ queue' = <<>>,
         pc' \in ClearPhases => queue' = <<>>
  PROVE  CopyInv'
<1> USE DEF CopyInv
<1>1. /\ box' \in Seq(Content) /\ queue' \in Seq(seen)
  <2>1. <<>> \in Seq(seen)
    OBVIOUS
  <2>2. QED BY <2>1 DEF Stays, CopiesTypeOK
<1>2. CopiesTypeOK' /\ SubmittedOnce' /\ UnseenUnsent' /\ ClearWaits'
  BY <1>1 DEF CopiesTypeOK, SubmittedOnce, UnseenUnsent, ClearWaits
<1>3. BoxOnce'
  <2> SUFFICES ASSUME NEW i \in 1..Len(box'), box'[i] \in Msgs
               PROVE  /\ box'[i] \in seen /\ sent[box'[i]] = 0
                      /\ \A j \in 1..Len(box') : box'[j] = box'[i] => j = i
    BY DEF BoxOnce
  <2>1. \A j \in 1..Len(box') : box'[j] \in Msgs => j \in 1..Len(box) /\ box'[j] = box[j]
    BY DEF Stays
  <2>2. QED BY <2>1 DEF BoxOnce
<1>4. Len(<<>>) = 0
  OBVIOUS
<1>5. QueueOnce'
  BY <1>4 DEF QueueOnce
<1>6. Unwritten'
  <2> SUFFICES ASSUME pc' \in {"idle", "paste"}, NEW i \in 1..Len(queue')
               PROVE  sent[queue'[i]] = 0 /\ \A j \in 1..Len(box') : box'[j] # queue'[i]
    BY DEF Unwritten
  <2>1. queue' = queue /\ pc \in {"idle", "paste"}
    BY <1>4
  <2>2. queue[i] \in Msgs
    BY <2>1, ElementOfSeq DEF CopiesTypeOK
  <2>3. QED BY <2>1, <2>2 DEF Unwritten, Stays
<1>7. QED BY <1>2, <1>3, <1>5, <1>6

(* Enter: what is in the box is submitted, each message for the first      *)
(* time.                                                                   *)
LEMMA SubmitCopies ==
  ASSUME CopyInv, Submit, UNCHANGED <<seen, queue>>,
         \/ pc' = pc
         \/ pc = "enter" /\ pc' = "forget"
         \/ pc = "clearenter" /\ pc' = "clearforget"
  PROVE  CopyInv'
<1>0. /\ CopiesTypeOK /\ SubmittedOnce /\ BoxOnce /\ QueueOnce /\ Unwritten
      /\ UnseenUnsent /\ ClearWaits
  BY DEF CopyInv
<1>1. Stays(box) /\ Stays(<<>>)
  BY <1>0 DEF Stays, CopiesTypeOK
<1>2. /\ pc' \in MessagePhases \cup ClearPhases
      /\ pc' \in {"idle", "paste"} => pc \in {"idle", "paste"}
      /\ pc' \in ClearPhases => queue' = <<>>
  BY <1>0 DEF MessagePhases, ClearPhases, CopiesTypeOK, ClearWaits
<1>3. CASE dialog \/ box = <<>>
  <2>1. box' \in {box, <<>>} /\ UNCHANGED sent
    BY <1>3 DEF Submit
  <2>2. QED BY <1>1, <1>2, <2>1, CopiesRest
<1>4. CASE ~dialog /\ box # <<>>
  <2> DEFINE there(m) == {i \in DOMAIN box : box[i] = m}
  <2>1. /\ box' = <<>>
        /\ sent' = [m \in Msgs |-> sent[m] + Cardinality(there(m))]
    BY <1>4 DEF Submit
  <2>2. DOMAIN box = 1..Len(box)
    BY <1>0, LenProperties DEF CopiesTypeOK
  <2>3. \A m \in Msgs : \/ there(m) = {}
                        \/ sent[m] = 0 /\ m \in seen /\ \E i \in DOMAIN box : box[i] = m /\ there(m) = {i}
    BY <1>0, <2>2 DEF BoxOnce
  <2> DEFINE more(m) == Cardinality(there(m))
  <2>4. \A m \in Msgs : \/ more(m) = 0
                        \/ more(m) = 1 /\ sent[m] = 0 /\ m \in seen /\ \E i \in DOMAIN box : box[i] = m
    BY <2>3, FS_EmptySet, FS_Singleton
  <2> HIDE DEF more, there
  <2>5. \A m \in Msgs : sent'[m] = sent[m] + more(m) /\ sent[m] \in Nat
    BY <1>0, <2>1 DEF more, CopiesTypeOK
  <2>6. \A m \in Msgs : sent'[m] \in Nat /\ sent'[m] <= 1
    BY <1>0, <2>4, <2>5 DEF SubmittedOnce
  <2>7. sent' \in [Msgs -> Nat]
    BY <2>1, <2>6
  <2>8. CopiesTypeOK' /\ Len(box') = 0
    BY <1>0, <1>2, <2>1, <2>7 DEF CopiesTypeOK
  <2>9. SubmittedOnce' /\ BoxOnce' /\ QueueOnce' /\ ClearWaits'
    BY <1>0, <1>2, <2>6, <2>8 DEF SubmittedOnce, BoxOnce, QueueOnce, ClearWaits
  <2>10. UnseenUnsent'
    <3> SUFFICES ASSUME NEW m \in Msgs \ seen PROVE sent'[m] = 0
      BY DEF UnseenUnsent
    <3>1. sent[m] = 0 /\ more(m) = 0
      BY <1>0, <2>4 DEF UnseenUnsent
    <3>2. QED BY <2>5, <3>1
  <2>11. Unwritten'
    <3> SUFFICES ASSUME pc \in {"idle", "paste"}, NEW i \in 1..Len(queue)
                 PROVE  sent'[queue[i]] = 0
      BY <1>2, <2>8 DEF Unwritten
    <3>1. PICK m \in Msgs : m = queue[i]
      BY <1>0, ElementOfSeq DEF CopiesTypeOK
    <3>2. sent[m] = 0 /\ \A j \in DOMAIN box : box[j] # m
      BY <1>0, <2>2, <3>1 DEF Unwritten
    <3>3. more(m) = 0
      BY <2>4, <3>2
    <3>4. sent'[m] = sent[m] + more(m)
      BY <2>5
    <3>5. sent[m] + more(m) = 0
      BY <3>2, <3>3
    <3>6. sent'[m] = 0
      BY <3>4, <3>5
    <3>7. QED BY <3>1, <3>6
  <2>12. QED BY <2>8, <2>9, <2>10, <2>11 DEF CopyInv
<1>5. QED BY <1>3, <1>4

(* A message is taken in once, and is nowhere yet.                         *)
LEMMA StepReceive == ASSUME CopyInv, NEW m \in Msgs, Receive(m) PROVE CopyInv'
<1>0. /\ CopiesTypeOK /\ SubmittedOnce /\ BoxOnce /\ QueueOnce /\ Unwritten
      /\ UnseenUnsent /\ ClearWaits
  BY DEF CopyInv
<1>1. /\ pc = "idle" /\ m \notin seen /\ seen' = seen \cup {m} /\ queue' = Append(queue, m)
      /\ UNCHANGED <<box, pc, sent>>
  BY DEF Receive, session
<1> DEFINE q == Append(queue, m)
<1>2. queue \in Seq(seen \cup {m}) /\ Len(queue) \in Nat
  BY <1>0, SeqMonotonic, LenProperties DEF CopiesTypeOK
<1>3. /\ q \in Seq(seen \cup {m}) /\ Len(q) = Len(queue) + 1
      /\ \A i \in 1..Len(queue) : q[i] = queue[i]
      /\ q[Len(queue) + 1] = m
  BY <1>2, AppendProperties
<1> HIDE DEF q
<1>4. \A i \in 1..Len(queue) : queue[i] \in seen
  BY <1>0, ElementOfSeq DEF CopiesTypeOK
<1>5. \A i \in 1..Len(q) : i \in 1..Len(queue) \/ i = Len(queue) + 1
  BY <1>2, <1>3
<1>6. CopiesTypeOK'
  BY <1>0, <1>1, <1>3 DEF CopiesTypeOK, q
<1>7. SubmittedOnce' /\ UnseenUnsent' /\ ClearWaits' /\ BoxOnce'
  BY <1>0, <1>1 DEF SubmittedOnce, UnseenUnsent, ClearWaits, BoxOnce, ClearPhases
<1>8. \A i, j \in 1..Len(q) : q[i] = q[j] => i = j
  BY <1>0, <1>1, <1>3, <1>4, <1>5 DEF QueueOnce
<1>9. \A i \in 1..Len(q) : sent[q[i]] = 0 /\ \A j \in 1..Len(box) : box[j] # q[i]
  <2>1. sent[m] = 0 /\ \A j \in 1..Len(box) : box[j] # m
    BY <1>0, <1>1 DEF UnseenUnsent, BoxOnce
  <2>2. QED BY <1>0, <1>1, <1>3, <1>5, <2>1 DEF Unwritten
<1>10. QueueOnce' /\ Unwritten'
  BY <1>1, <1>8, <1>9 DEF QueueOnce, Unwritten, q
<1>11. QED BY <1>6, <1>7, <1>10 DEF CopyInv

(* The paste: from here on the queue is what stands in the box.            *)
LEMMA StepPaste == ASSUME CopyInv, Paste PROVE CopyInv'
<1>0. /\ CopiesTypeOK /\ SubmittedOnce /\ BoxOnce /\ QueueOnce /\ Unwritten
      /\ UnseenUnsent /\ ClearWaits
  BY DEF CopyInv
<1>1. /\ pc = "paste" /\ pc' = "pause" /\ box' = (IF dialog THEN box ELSE box \o queue)
      /\ UNCHANGED <<queue, seen, sent>>
  BY DEF Paste, Write, work
<1>2. box \in Seq(Content) /\ queue \in Seq(Content) /\ Len(box) \in Nat /\ Len(queue) \in Nat
  BY <1>0, SeqMonotonic, LenProperties DEF CopiesTypeOK, Content
<1> DEFINE b == box \o queue
<1>3. /\ b \in Seq(Content) /\ Len(b) = Len(box) + Len(queue)
      /\ \A i \in 1..Len(box) + Len(queue) :
            b[i] = IF i <= Len(box) THEN box[i] ELSE queue[i - Len(box)]
  BY <1>2, ConcatProperties
<1> HIDE DEF b
<1>4. \A i \in 1..Len(queue) : queue[i] \in seen
  BY <1>0, ElementOfSeq DEF CopiesTypeOK
<1>5. \A i \in 1..Len(b) :
         \/ i \in 1..Len(box) /\ b[i] = box[i]
         \/ ~(i <= Len(box)) /\ i - Len(box) \in 1..Len(queue) /\ b[i] = queue[i - Len(box)]
  BY <1>2, <1>3
<1>6. BoxOnce'
  <2>1. CASE dialog
    BY <1>0, <1>1, <2>1 DEF BoxOnce
  <2>2. CASE ~dialog
    <3> SUFFICES ASSUME NEW i \in 1..Len(b), b[i] \in Msgs
                 PROVE  /\ b[i] \in seen /\ sent[b[i]] = 0
                        /\ \A j \in 1..Len(b) : b[j] = b[i] => j = i
      BY <1>1, <2>2 DEF BoxOnce, b
    <3>1. b[i] \in seen /\ sent[b[i]] = 0
      BY <1>0, <1>1, <1>4, <1>5 DEF BoxOnce, Unwritten
    <3>2. ASSUME NEW j \in 1..Len(b), b[j] = b[i] PROVE j = i
      <4>1. CASE i \in 1..Len(box) /\ b[i] = box[i]
        <5>1. b[i] \in Msgs /\ b[i] = box[i]
          BY <4>1
        <5>2. CASE j \in 1..Len(box) /\ b[j] = box[j]
          BY <1>0, <3>2, <4>1, <5>1, <5>2 DEF BoxOnce
        <5>3. CASE j - Len(box) \in 1..Len(queue) /\ b[j] = queue[j - Len(box)]
          <6>1. box[i] # queue[j - Len(box)]
            BY <1>0, <1>1, <4>1, <5>3 DEF Unwritten
          <6>2. QED BY <3>2, <5>1, <5>3, <6>1
        <5>4. QED BY <1>5, <5>2, <5>3
      <4>2. CASE ~(i <= Len(box)) /\ i - Len(box) \in 1..Len(queue) /\ b[i] = queue[i - Len(box)]
        <5>1. j - Len(box) \in 1..Len(queue) /\ b[j] = queue[j - Len(box)]
          BY <1>0, <1>1, <1>5, <3>2, <4>2 DEF Unwritten
        <5>2. j - Len(box) = i - Len(box)
          BY <1>0, <3>2, <4>2, <5>1 DEF QueueOnce
        <5>3. QED BY <1>2, <5>2
      <4>3. QED BY <1>5, <4>1, <4>2
    <3>3. QED BY <3>1, <3>2
  <2>3. QED BY <2>1, <2>2
<1>7. box' \in Seq(Content)
  BY <1>1, <1>2, <1>3 DEF b
<1>8. CopiesTypeOK'
  BY <1>0, <1>1, <1>7 DEF CopiesTypeOK, MessagePhases
<1>9. SubmittedOnce' /\ UnseenUnsent' /\ ClearWaits' /\ QueueOnce' /\ Unwritten'
  BY <1>0, <1>1 DEF SubmittedOnce, UnseenUnsent, ClearWaits, QueueOnce, Unwritten, ClearPhases
<1>10. QED BY <1>6, <1>8, <1>9 DEF CopyInv

LEMMA StepCopies == CopyInv /\ [Next]_vars => CopyInv'
<1> SUFFICES ASSUME CopyInv, [Next]_vars PROVE CopyInv'
  OBVIOUS
<1>0. /\ box \in Seq(Content) /\ Stays(box) /\ pc \in MessagePhases \cup ClearPhases
      /\ pc \in ClearPhases => queue = <<>>
  BY DEF CopyInv, CopiesTypeOK, ClearWaits, Stays
<1>1. ASSUME UNCHANGED <<box, queue, seen, sent, pc>> PROVE CopyInv'
  BY <1>0, <1>1, CopiesRest
<1>2. CASE \/ \E k \in Keys : Observe(k)
           \/ DialogUp \/ DialogGone \/ SessionEnds
           \/ \E k \in Clears : AskClear(k)
           \/ UNCHANGED vars
  BY <1>1, <1>2 DEF Observe, DialogUp, DialogGone, SessionEnds, AskClear, vars, session, work
<1>3. CASE Forward
  <2>1. CASE key = "enter"
    BY <1>3, <2>1, SubmitCopies DEF Forward, work
  <2>2. CASE key # "enter"
    <3>1. key \in AllKeys \/ key \notin AllKeys
      OBVIOUS
    <3>2. Stays(box')
      <4>1. CASE key \in AllKeys
        BY <1>0, <1>3, <2>2, <4>1, EditStays DEF Forward
      <4>2. CASE key \notin AllKeys
        <5>1. Edited(key) = {<<>>}
          BY <4>2 DEF Edited, AllKeys
        <5>2. Stays(<<>>)
          BY DEF Stays
        <5>3. QED BY <1>0, <1>3, <2>2, <5>1, <5>2 DEF Forward
      <4>3. QED BY <4>1, <4>2
    <3>3. UNCHANGED <<queue, seen, sent, pc>>
      BY <1>3, <2>2 DEF Forward, work
    <3>4. QED BY <1>0, <3>2, <3>3, CopiesRest
  <2>3. QED BY <2>1, <2>2
<1>4. CASE PressEnter
  BY <1>4, SubmitCopies DEF PressEnter, work
<1>5. CASE Look \/ LookAgain \/ Forget \/ SeesTyped \/ LookBeforeClear \/ ClearEnds
  <2>1. UNCHANGED <<box, seen, sent>> /\ queue' \in {queue, <<>>}
    BY <1>5 DEF Look, LookAgain, Forget, SeesTyped, LookBeforeClear, ClearEnds, session, work
  <2>2. /\ pc' \in MessagePhases \cup ClearPhases
        /\ pc' \in {"idle", "paste"} => pc \in {"idle", "paste"} \/ queue' = <<>>
        /\ pc' \in ClearPhases => queue' = <<>>
    BY <1>0, <1>5 DEF Look, LookAgain, Forget, SeesTyped, LookBeforeClear, ClearEnds, session,
       work, MessagePhases, ClearPhases
  <2>3. QED BY <1>0, <2>1, <2>2, CopiesRest
<1>6. CASE TypeClear
  <2>1. /\ pc = "clear" /\ pc' = "typed" /\ UNCHANGED <<queue, seen, sent>>
        /\ box' = (IF dialog THEN box ELSE box \o ClearText)
    BY <1>6 DEF TypeClear, Write, work
  <2>2. /\ ClearText \in Seq(Content) /\ \A i \in 1..Len(ClearText) : ClearText[i] = "/"
        /\ Len(ClearText) \in Nat /\ Len(box) \in Nat
    <3>1. /\ ClearText \in [1..ClearKeys -> Content] /\ ClearKeys \in Nat
          /\ \A i \in 1..ClearKeys : ClearText[i] = "/"
      BY InjectorAssumption DEF ClearText, Content
    <3>2. ClearText \in Seq(Content) /\ Len(ClearText) = ClearKeys
      BY <3>1
    <3>3. QED BY <1>0, <3>1, <3>2, LenProperties
  <2>3. /\ box \o ClearText \in Seq(Content)
        /\ Len(box \o ClearText) = Len(box) + Len(ClearText)
        /\ \A i \in 1..Len(box) + Len(ClearText) :
              (box \o ClearText)[i] = IF i <= Len(box) THEN box[i] ELSE ClearText[i - Len(box)]
    BY <1>0, <2>2, ConcatProperties
  <2>4. "/" \notin Msgs
    BY InjectorAssumption
  <2>5. Stays(box \o ClearText)
    <3> DEFINE b == box \o ClearText
    <3> SUFFICES ASSUME NEW i \in 1..Len(b), b[i] \in Msgs
                 PROVE  i \in 1..Len(box) /\ b[i] = box[i]
      BY <2>3 DEF Stays
    <3>1. i \in 1..Len(box) + Len(ClearText) /\ i \in Nat
      BY <2>2, <2>3
    <3>2. b[i] = IF i <= Len(box) THEN box[i] ELSE ClearText[i - Len(box)]
      BY <2>3, <3>1
    <3> HIDE DEF b
    <3>3. ~(i <= Len(box)) => i - Len(box) \in 1..Len(ClearText)
      BY <2>2, <3>1
    <3>4. i <= Len(box)
      BY <2>2, <2>4, <3>2, <3>3
    <3>5. QED BY <2>2, <3>1, <3>2, <3>4
  <2>6. Stays(box') /\ queue = <<>>
    BY <1>0, <2>1, <2>5 DEF ClearPhases
  <2>7. QED BY <2>1, <2>6, CopiesRest DEF ClearPhases
<1>7. CASE Erase
  <2>1. /\ pc = "erase" /\ pc' = "idle" /\ UNCHANGED <<queue, seen, sent>>
        /\ box' = (IF dialog THEN box ELSE Without(ClearKeys))
    BY <1>7 DEF Erase
  <2>2. Stays(box') /\ queue = <<>>
    BY <1>0, <2>1, WithoutStays, InjectorAssumption DEF ClearPhases
  <2>3. QED BY <2>1, <2>2, CopiesRest DEF MessagePhases
<1>8. QED
  BY <1>2, <1>3, <1>4, <1>5, <1>6, <1>7, StepReceive, StepPaste DEF Next, InjectorStep

(* inject.rs, run() and write_block(): a message is submitted once, also   *)
(* when a dialog interrupted its paste and it was left in the box for a    *)
(* later Enter, whoever pressed that.                                      *)
THEOREM MessagesAreSubmittedOnce == Spec => []SubmittedOnce
<1>1. CopyInv => SubmittedOnce
  BY DEF CopyInv
<1>2. QED BY <1>1, InitCopies, StepCopies, PTL DEF Spec

-----------------------------------------------------------------------------
(* The types of the rest, and the one clear that is under way.             *)
Outcomes == {"none", "asked", "begun", "ok", "failed"}
UnderWay == {k \in Clears : outcome[k] = "begun"}

LineTypeOK ==
    /\ convo \in {"talk", "cleared"} /\ key \in Keys \cup {"none"}
    /\ pending \in Nat
    /\ dialog \in BOOLEAN /\ recalled \in BOOLEAN /\ done \in BOOLEAN
    /\ late \in BOOLEAN /\ wiped \in BOOLEAN

OneUnderWay ==
    /\ outcome \in [Clears -> Outcomes] /\ clears \in Seq(Clears)
    /\ pc \in MessagePhases => UnderWay = {}
    /\ pc \in ClearPhases => \E k \in Clears : UnderWay = {k}

LEMMA InitOthers == Init => LineTypeOK /\ OneUnderWay
<1> SUFFICES ASSUME Init PROVE LineTypeOK /\ OneUnderWay
  OBVIOUS
<1>1. LineTypeOK
  BY DEF Init, LineTypeOK
<1>2. clears \in Seq(Clears) /\ outcome \in [Clears -> Outcomes] /\ pc = "idle"
  BY DEF Init, Outcomes
<1>3. UnderWay = {}
  BY DEF Init, UnderWay
<1>4. QED BY <1>1, <1>2, <1>3 DEF OneUnderWay, ClearPhases

LEMMA SubmitLine ==
  ASSUME LineTypeOK, Submit
  PROVE  dialog' \in BOOLEAN /\ wiped' \in BOOLEAN /\ convo' \in {"talk", "cleared"}
<1>1. dialog' \in BOOLEAN /\ convo' \in {"talk", "cleared"}
  BY DEF Submit, LineTypeOK
<1>2. wiped' \in {wiped, (wiped \/ box = ClearText)}
  BY DEF Submit
<1>3. wiped' \in BOOLEAN
  BY <1>2, Zenon DEF LineTypeOK
<1>4. QED BY <1>1, <1>3

LEMMA StepLine == LineTypeOK /\ [Next]_vars => LineTypeOK'
<1> SUFFICES ASSUME LineTypeOK, [Next]_vars PROVE LineTypeOK'
  OBVIOUS
<1>1. ASSUME NEW k \in Keys, Observe(k) PROVE LineTypeOK'
  <2>1. pending' \in Nat
    <3>1. PICK p \in Nat : p = pending
      BY DEF LineTypeOK
    <3>2. pending' \in {p + 1, Backspaced(p), 1, 0, p}
      BY <1>1, <3>1 DEF Observe
    <3>3. p + 1 \in Nat /\ Backspaced(p) \in Nat
      BY DEF Backspaced
    <3>4. QED BY <3>2, <3>3
  <2>2. recalled' \in {TRUE, FALSE, recalled}
    BY <1>1 DEF Observe
  <2>3. recalled' \in BOOLEAN
    BY <2>2 DEF LineTypeOK
  <2>4. QED BY <1>1, <2>1, <2>3 DEF Observe, LineTypeOK, session
<1>2. CASE Forward
  <2>1. CASE key = "enter"
    <3>1. dialog' \in BOOLEAN /\ wiped' \in BOOLEAN /\ convo' \in {"talk", "cleared"}
      BY <1>2, <2>1, SubmitLine DEF Forward
    <3>2. QED BY <1>2, <3>1 DEF Forward, LineTypeOK, tracker
  <2>2. CASE key # "enter"
    BY <1>2, <2>2 DEF Forward, LineTypeOK, tracker
  <2>3. QED BY <2>1, <2>2
<1>3. CASE PressEnter
  <2>1. dialog' \in BOOLEAN /\ wiped' \in BOOLEAN /\ convo' \in {"talk", "cleared"}
    BY <1>3, SubmitLine DEF PressEnter
  <2>2. QED BY <1>3, <2>1 DEF PressEnter, LineTypeOK, tracker
<1>4. CASE Look
  <2>1. wiped' \in {wiped, (convo = "cleared")}
    BY <1>4 DEF Look
  <2>2. wiped' \in BOOLEAN
    BY <2>1, Zenon DEF LineTypeOK
  <2>3. QED BY <1>4, <2>2 DEF Look, LineTypeOK, session, tracker
<1>5. CASE DialogUp \/ DialogGone \/ SessionEnds \/ UNCHANGED vars
  BY <1>5 DEF DialogUp, DialogGone, SessionEnds, LineTypeOK, vars, session, tracker
<1>6. CASE (\E m \in Msgs : Receive(m)) \/ \E k \in Clears : AskClear(k)
  BY <1>6 DEF Receive, AskClear, LineTypeOK, session, tracker
<1>7. CASE Paste \/ LookAgain
  BY <1>7 DEF Paste, LookAgain, LineTypeOK, session, tracker
<1>f. CASE Forget
  <2>1. pending' \in Nat /\ recalled' \in BOOLEAN
    BY <1>f DEF Forget
  <2>2. QED BY <1>f, <2>1 DEF Forget, LineTypeOK, session
<1>8. CASE TypeClear \/ SeesTyped \/ LookBeforeClear \/ Erase \/ ClearEnds
  BY <1>8 DEF TypeClear, SeesTyped, LookBeforeClear, Erase, ClearEnds, LineTypeOK, session, tracker
<1>9. QED
  BY <1>1, <1>2, <1>3, <1>4, <1>5, <1>6, <1>7, <1>f, <1>8 DEF Next, InjectorStep

(* What takes up no clear and reports none.                                *)
LEMMA SameUnderWay ==
  ASSUME OneUnderWay, UNCHANGED <<clears, outcome>>,
         pc' \in MessagePhases => pc \in MessagePhases,
         pc' \in ClearPhases => pc \in ClearPhases
  PROVE  OneUnderWay'
BY DEF OneUnderWay, UnderWay

LEMMA ReportIs ==
  ASSUME OneUnderWay, pc \in ClearPhases, pc' = "idle", UNCHANGED clears,
         NEW o \in {"ok", "failed"}, outcome' = [outcome EXCEPT ![Begun] = o]
  PROVE  OneUnderWay'
<1>1. PICK k \in Clears : UnderWay = {k}
  BY DEF OneUnderWay
<1>2. Begun = k
  BY <1>1 DEF Begun, UnderWay
<1>3. outcome' \in [Clears -> Outcomes] /\ \A d \in Clears : outcome'[d] # "begun"
  BY <1>1, <1>2 DEF OneUnderWay, UnderWay, Outcomes
<1>4. QED BY <1>3 DEF OneUnderWay, UnderWay, ClearPhases

LEMMA StepUnderWay == OneUnderWay /\ [Next]_vars => OneUnderWay'
<1> SUFFICES ASSUME OneUnderWay, [Next]_vars PROVE OneUnderWay'
  OBVIOUS
<1>1. ASSUME NEW k \in Clears, AskClear(k) PROVE OneUnderWay'
  <2>1. /\ outcome[k] = "none" /\ outcome' = [outcome EXCEPT ![k] = "asked"] /\ pc' = pc
        /\ clears' = Append(clears, k)
    BY <1>1 DEF AskClear
  <2>2. outcome' \in [Clears -> Outcomes] /\ UnderWay' = UnderWay
    BY <2>1 DEF OneUnderWay, UnderWay, Outcomes
  <2>3. clears' \in Seq(Clears)
    BY <2>1, AppendProperties DEF OneUnderWay
  <2>4. QED BY <2>1, <2>2, <2>3 DEF OneUnderWay
<1>2. CASE Look
  <2>1. CASE pc' = "paste" /\ UNCHANGED <<clears, outcome>>
    BY <1>2, <2>1, SameUnderWay DEF Look, MessagePhases, ClearPhases
  <2>2. CASE /\ clears # <<>> /\ clears' = Tail(clears) /\ pc' = "clear"
             /\ outcome' = [outcome EXCEPT ![Head(clears)] = "begun"]
    <3>1. Head(clears) \in Clears /\ Tail(clears) \in Seq(Clears)
      BY <2>2, HeadTailProperties DEF OneUnderWay
    <3>2. UnderWay = {}
      BY <1>2 DEF OneUnderWay, Look, MessagePhases
    <3>3. outcome' \in [Clears -> Outcomes] /\ UnderWay' = {Head(clears)}
      BY <2>2, <3>1, <3>2 DEF OneUnderWay, UnderWay, Outcomes
    <3>4. QED BY <2>2, <3>1, <3>3 DEF OneUnderWay, MessagePhases, ClearPhases
  <2>3. QED BY <1>2, <2>1, <2>2 DEF Look
<1>3. CASE Erase
  BY <1>3, ReportIs DEF Erase, Fails, ClearPhases
<1>4. CASE ClearEnds
  BY <1>4, ReportIs DEF ClearEnds, ClearPhases
<1>5. CASE \/ \E k \in Keys : Observe(k)
           \/ Forward \/ DialogUp \/ DialogGone \/ SessionEnds
           \/ \E m \in Msgs : Receive(m)
           \/ UNCHANGED vars
  <2>1. UNCHANGED <<clears, outcome, pc>>
    BY <1>5 DEF Observe, Forward, DialogUp, DialogGone, SessionEnds, Receive, vars, work
  <2>2. QED BY <2>1, SameUnderWay
<1>6. CASE Paste \/ LookAgain \/ PressEnter \/ Forget
  <2>1. UNCHANGED <<clears, outcome>>
    BY <1>6 DEF Paste, LookAgain, PressEnter, Forget, work
  <2>2. /\ pc' \in MessagePhases => pc \in MessagePhases
        /\ pc' \in ClearPhases => pc \in ClearPhases
    BY <1>6 DEF Paste, LookAgain, PressEnter, Forget, MessagePhases, ClearPhases
  <2>3. QED BY <2>1, <2>2, SameUnderWay
<1>7. CASE TypeClear \/ SeesTyped \/ LookBeforeClear
  <2>1. UNCHANGED <<clears, outcome>>
    BY <1>7 DEF TypeClear, SeesTyped, LookBeforeClear, work
  <2>2. /\ pc' \in MessagePhases => pc \in MessagePhases
        /\ pc' \in ClearPhases => pc \in ClearPhases
    BY <1>7 DEF TypeClear, SeesTyped, LookBeforeClear, MessagePhases, ClearPhases
  <2>3. QED BY <2>1, <2>2, SameUnderWay
<1>8. QED
  BY <1>1, <1>2, <1>3, <1>4, <1>5, <1>6, <1>7 DEF Next, InjectorStep

(* The injector, the tracker and the session keep their types, and one     *)
(* clear is under way at a time, never within a message (inject.rs).       *)
THEOREM InjectorTypes == Spec => []InjectorTypeOK
<1>1. CopyInv /\ LineTypeOK /\ OneUnderWay => InjectorTypeOK
  <2> SUFFICES ASSUME CopyInv, LineTypeOK, OneUnderWay PROVE InjectorTypeOK
    OBVIOUS
  <2>1. /\ pc \in MessagePhases => Cardinality(UnderWay) = 0
        /\ pc \in ClearPhases => Cardinality(UnderWay) = 1
    BY FS_EmptySet, FS_Singleton DEF OneUnderWay
  <2>2. /\ CopiesTypeOK
        /\ outcome \in [Clears -> Outcomes] /\ clears \in Seq(Clears)
    BY DEF CopyInv, OneUnderWay
  <2>3. Cardinality({k \in Clears : outcome[k] = "begun"}) =
           IF pc \in {"idle", "paste", "pause", "enter", "forget"} THEN 0 ELSE 1
    BY <2>1, <2>2 DEF UnderWay, MessagePhases, CopiesTypeOK
  <2>4. QED
    BY <2>2, <2>3 DEF InjectorTypeOK, CopiesTypeOK, LineTypeOK, Content, Outcomes,
       MessagePhases, ClearPhases
<1>2. CopyInv /\ LineTypeOK /\ OneUnderWay /\ [Next]_vars =>
        CopyInv' /\ LineTypeOK' /\ OneUnderWay'
  BY StepCopies, StepLine, StepUnderWay
<1>3. QED BY <1>1, <1>2, InitCopies, InitOthers, PTL DEF Spec
=============================================================================
