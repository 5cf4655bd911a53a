------------------------- MODULE AgentRegistryProofs -------------------------
(***************************************************************************)
(* Theorems about AgentRegistry: its types, and that a chat is routed to   *)
(* one live session at most, for any number of sessions, chats and nicks.  *)
(***************************************************************************)
EXTENDS AgentRegistry, TLAPS

(* A handler that has not started is a handler. *)
LEMMA IdleHandlers == NoReg \in RegHandlers /\ NoRen \in RenHandlers
  BY DEF NoReg, NoRen, RegHandlers, RenHandlers, RegSteps

(* The initial state has the types. *)
LEMMA InitRegistryTypes == Init => RegistryTypeOK
  <1> SUFFICES ASSUME Init PROVE RegistryTypeOK
    OBVIOUS
  <1>1. /\ made \in [Sessions -> Nat] /\ \A a \in Sessions : made[a] <= MaxConns[a]
        /\ running \in SUBSET Sessions
        /\ link \in [Sessions -> {0} \cup Conns]
        /\ open \in [Sessions -> SUBSET Conns]
    BY RegistryAssumption DEF Init
  <1>2. /\ row \in [Sessions -> {"none", "alive", "orphaned", "dead"}]
        /\ name \in [Sessions -> Names \cup {NoOne}]
        /\ owner \in [Sessions -> {0} \cup Conns]
        /\ chat \in [Sessions -> Chats \cup {NoOne}]
        /\ lastUser \in [Sessions -> Users \cup {NoOne}]
        /\ bound \in [Chats -> Names \cup {NoOne}]
    BY DEF Init
  <1>3. reg \in [Sessions -> [Conns -> RegHandlers]] /\ ren \in [Sessions -> RenHandlers]
    BY IdleHandlers DEF Init
  <1> QED
    BY <1>1, <1>2, <1>3 DEF RegistryTypeOK

(* Connections come and go without harm to the types. *)
LEMMA WireTypes ==
    ASSUME RegistryTypeOK, NEW a \in Sessions, NEW c \in Conns,
           \/ Connect(a) \/ LinkLost(a) \/ Exit(a) \/ SeesClose(a, c) \/ RestartDaemon
    PROVE  RegistryTypeOK'
  <1>1. CASE Connect(a)
    <2> DEFINE d == made[a] + 1
    <2>1. made[a] \in Nat /\ d \in Nat /\ d <= MaxConns[a]
      <3>1. made[a] \in Nat
        BY DEF RegistryTypeOK
      <3>2. MaxConns[a] \in Nat
        BY RegistryAssumption
      <3>3. made[a] < MaxConns[a]
        BY <1>1 DEF Connect
      <3> QED
        BY <3>1, <3>2, <3>3
    <2>2. d \in Conns
      BY <2>1, RegistryAssumption DEF Conns
    <2>3. reg' = [reg EXCEPT ![a][d].at = "asked"]
      BY <1>1 DEF Connect
    <2>4. [reg[a][d] EXCEPT !.at = "asked"] \in RegHandlers
      <3>1. reg[a][d] \in RegHandlers
        BY <2>2 DEF RegistryTypeOK
      <3> HIDE DEF d
      <3> QED
        BY <3>1 DEF RegHandlers, RegSteps
    <2>5. reg' \in [Sessions -> [Conns -> RegHandlers]]
      BY <2>2, <2>3, <2>4 DEF RegistryTypeOK
    <2>6. /\ made' \in [Sessions -> Nat] /\ \A b \in Sessions : made'[b] <= MaxConns[b]
          /\ link' \in [Sessions -> {0} \cup Conns]
          /\ open' \in [Sessions -> SUBSET Conns]
      BY <1>1, <2>1, <2>2 DEF Connect, RegistryTypeOK
    <2> QED
      BY <1>1, <2>5, <2>6 DEF Connect, RegistryTypeOK, rows
  <1>2. CASE LinkLost(a)
    BY <1>2 DEF LinkLost, RegistryTypeOK, rows
  <1>3. CASE Exit(a)
    BY <1>3 DEF Exit, RegistryTypeOK, rows
  <1>4. CASE SeesClose(a, c)
    BY <1>4, IdleHandlers DEF SeesClose, Orphan, RegistryTypeOK
  <1>5. CASE RestartDaemon
    BY <1>5, IdleHandlers DEF RestartDaemon, RegistryTypeOK
  <1> QED
    BY <1>1, <1>2, <1>3, <1>4, <1>5

(* A step of agent_register keeps the types. *)
LEMMA RegisterTypes ==
    ASSUME RegistryTypeOK, NEW a \in Sessions, NEW c \in Conns, RegisterStep(a, c)
    PROVE  RegistryTypeOK'
  <1> DEFINE h == reg[a][c]
  <1>0. h \in RegHandlers
    BY DEF RegistryTypeOK
  <1>1. CASE RegisterRow(a, c)
    <2>1. name' \in [Sessions -> Names \cup {NoOne}]
      BY <1>1, RegistryAssumption DEF RegisterRow, RegistryTypeOK
    <2>2. [h EXCEPT !.at = "rowed", !.nick = name'[a]] \in RegHandlers
      BY <1>0, <2>1 DEF RegHandlers, RegSteps
    <2>3. reg' = [reg EXCEPT ![a][c] = [h EXCEPT !.at = "rowed", !.nick = name'[a]]]
      BY <1>1 DEF RegisterRow, RegistryTypeOK
    <2>4. reg' \in [Sessions -> [Conns -> RegHandlers]]
      BY <2>2, <2>3 DEF RegistryTypeOK
    <2> QED
      BY <1>1, <2>1, <2>4 DEF RegisterRow, RegistryTypeOK, wires
  <1>2. CASE RefuseRow(a, c)
    <2>1. [h EXCEPT !.at = "refused"] \in RegHandlers
      BY <1>0 DEF RegHandlers, RegSteps
    <2> QED
      BY <1>2, <2>1 DEF RefuseRow, RegistryTypeOK, wires, rows
  <1>3. CASE ReadBindings(a, c)
    <2> DEFINE K == {k \in Chats : bound[k] = reg[a][c].nick}
    <2>1. [h EXCEPT !.at = "restoring", !.todo = K] \in RegHandlers
      BY <1>0 DEF RegHandlers, RegSteps
    <2>2. reg' = [reg EXCEPT ![a][c] = [h EXCEPT !.at = "restoring", !.todo = K]]
      BY <1>3 DEF ReadBindings, RegistryTypeOK
    <2>3. reg' \in [Sessions -> [Conns -> RegHandlers]]
      BY <2>1, <2>2 DEF RegistryTypeOK
    <2> QED
      BY <1>3, <2>3 DEF ReadBindings, RegistryTypeOK, wires, rows
  <1>4. ASSUME NEW k \in Chats, ClearHolders(a, c, k) PROVE RegistryTypeOK'
    <2>1. [h EXCEPT !.at = "cleared", !.next = k] \in RegHandlers
      BY <1>0 DEF RegHandlers, RegSteps
    <2>2. reg' = [reg EXCEPT ![a][c] = [h EXCEPT !.at = "cleared", !.next = k]]
      BY <1>4 DEF ClearHolders, RegistryTypeOK
    <2>3. reg' \in [Sessions -> [Conns -> RegHandlers]]
      BY <2>1, <2>2 DEF RegistryTypeOK
    <2> QED
      BY <1>4, <2>3 DEF ClearHolders, RegistryTypeOK, wires
  <1>5. CASE TakeChat(a, c)
    <2>1. PICK T \in SUBSET Chats :
             reg' = [reg EXCEPT ![a][c] =
                       [h EXCEPT !.at = "restoring", !.next = NoOne, !.todo = T]]
      <3> DEFINE T == IF row[a] = "alive" /\ Clashes(a, h.next) THEN {} ELSE h.todo \ {h.next}
      <3>1. T \in SUBSET Chats
        BY <1>0 DEF RegHandlers
      <3>2. reg' = [reg EXCEPT ![a][c] =
                       [h EXCEPT !.at = "restoring", !.next = NoOne, !.todo = T]]
        BY <1>5 DEF TakeChat, RegistryTypeOK
      <3> QED
        BY <3>1, <3>2
    <2>2. [h EXCEPT !.at = "restoring", !.next = NoOne, !.todo = T] \in RegHandlers
      BY <1>0, <2>1 DEF RegHandlers, RegSteps
    <2>3. reg' \in [Sessions -> [Conns -> RegHandlers]]
      BY <2>1, <2>2 DEF RegistryTypeOK
    <2>4. chat' \in [Sessions -> Chats \cup {NoOne}]
      BY <1>0, <1>5 DEF TakeChat, RegistryTypeOK, RegHandlers
    <2> QED
      BY <1>5, <2>3, <2>4 DEF TakeChat, RegistryTypeOK, wires
  <1>6. CASE Supersede(a, c)
    <2>1. [NoReg EXCEPT !.at = "done"] \in RegHandlers
      BY IdleHandlers DEF RegHandlers, RegSteps
    <2> QED
      BY <1>6, <2>1 DEF Supersede, RegistryTypeOK, wires
  <1> QED
    BY <1>1, <1>2, <1>3, <1>4, <1>5, <1>6 DEF RegisterStep

(* For any sessions, nicks, chats and users: the tables and the handlers   *)
(* keep their types, and no statement leaves the columns' domains.         *)
THEOREM RegistryTypes == Spec => []RegistryTypeOK
  <1>1. RegistryTypeOK /\ [Next]_vars => RegistryTypeOK'
    <2> SUFFICES ASSUME RegistryTypeOK, [Next]_vars PROVE RegistryTypeOK'
      OBVIOUS
    <2>1. CASE UNCHANGED vars
      BY <2>1 DEF vars, wires, rows, RegistryTypeOK
    <2>2. ASSUME NEW a \in Sessions,
                 Connect(a) \/ LinkLost(a) \/ Exit(a) \/ Unregister(a)
          PROVE RegistryTypeOK'
      <3>1. CASE Unregister(a)
        BY <3>1 DEF Unregister, RegistryTypeOK, wires
      <3>2. CASE LinkLost(a)
        BY <3>2 DEF LinkLost, RegistryTypeOK, rows
      <3>3. CASE Exit(a)
        BY <3>3 DEF Exit, RegistryTypeOK, rows
      <3>4. CASE Connect(a)
        <4>1. PICK c \in Conns : TRUE
          <5>1. made[a] \in Nat /\ MaxConns[a] \in Nat /\ made[a] < MaxConns[a]
            BY <3>4, RegistryAssumption DEF Connect, RegistryTypeOK
          <5>2. MaxConns[a] \in 1..MaxConns[a]
            BY <5>1
          <5> QED
            BY <5>2 DEF Conns
        <4> QED
          BY <3>4, <4>1, WireTypes
      <3> QED
        BY <2>2, <3>1, <3>2, <3>3, <3>4
    <2>3. ASSUME NEW a \in Sessions, NEW c \in Conns, SeesClose(a, c) \/ RegisterStep(a, c)
          PROVE RegistryTypeOK'
      BY <2>3, WireTypes, RegisterTypes
    <2>4. CASE RestartDaemon
      BY <2>4, IdleHandlers DEF RestartDaemon, RegistryTypeOK
    <2>5. CASE Reap
      BY <2>5 DEF Reap, RegistryTypeOK, wires
    <2>6. ASSUME NEW a \in Sessions, NEW n \in Names, CheckName(a, n) PROVE RegistryTypeOK'
      <3>1. [at |-> "checked", old |-> name[a], new |-> n] \in RenHandlers
        BY DEF RegistryTypeOK, RenHandlers
      <3> QED
        BY <2>6, <3>1 DEF CheckName, RegistryTypeOK, wires, rows
    <2>7. ASSUME NEW a \in Sessions, RenameRow(a) \/ MoveBindings(a) PROVE RegistryTypeOK'
      <3>1. ren[a].new \in Names \cup {NoOne} /\ [ren[a] EXCEPT !.at = "named"] \in RenHandlers
        BY DEF RegistryTypeOK, RenHandlers
      <3>2. CASE RenameRow(a)
        <4>1. name' \in [Sessions -> Names \cup {NoOne}]
          BY <3>1, <3>2 DEF RenameRow, RegistryTypeOK
        <4>2. ren' \in [Sessions -> RenHandlers]
          BY <3>1, <3>2 DEF RenameRow, RegistryTypeOK
        <4> QED
          BY <3>2, <4>1, <4>2 DEF RenameRow, RegistryTypeOK, wires
      <3>3. CASE MoveBindings(a)
        <4>1. bound' \in [Chats -> Names \cup {NoOne}]
          BY <3>1, <3>3 DEF MoveBindings, RegistryTypeOK
        <4>2. ren' \in [Sessions -> RenHandlers]
          BY <3>3, IdleHandlers DEF MoveBindings, RegistryTypeOK
        <4> QED
          BY <3>3, <4>1, <4>2 DEF MoveBindings, RegistryTypeOK, wires, rows
      <3> QED
        BY <2>7, <3>2, <3>3
    <2>8. ASSUME NEW u \in Users, NEW a \in Sessions, NEW k \in Chats,
                 Inbound(u, a, k) \/ Switch(u, a, k)
          PROVE RegistryTypeOK'
      <3>1. CASE Inbound(u, a, k)
        <4>1. lastUser' \in [Sessions -> Users \cup {NoOne}]
          BY <3>1 DEF Inbound, RegistryTypeOK
        <4> QED
          BY <3>1, <4>1 DEF Inbound, RegistryTypeOK, wires
      <3>2. CASE Switch(u, a, k)
        <4>1. chat' \in [Sessions -> Chats \cup {NoOne}]
          BY <3>2 DEF Switch, RegistryTypeOK
        <4>2. bound' \in [Chats -> Names \cup {NoOne}]
          BY <3>2 DEF Switch, RegistryTypeOK
        <4> QED
          BY <3>2, <4>1, <4>2 DEF Switch, RegistryTypeOK, wires
      <3> QED
        BY <2>8, <3>1, <3>2
    <2> QED
      BY <2>1, <2>2, <2>3, <2>4, <2>5, <2>6, <2>7, <2>8 DEF Next
  <1> QED
    BY InitRegistryTypes, <1>1, PTL DEF Spec

(* One step keeps a chat with one live session: the two that give a row a  *)
(* key or life check the index first, and /switch clears the old holder.   *)
LEMMA OneHolderStep == RegistryTypeOK /\ OneHolder /\ [Next]_vars => OneHolder'
  <1> SUFFICES ASSUME RegistryTypeOK, OneHolder, [Next]_vars PROVE OneHolder'
    OBVIOUS
  <1>t. /\ row \in [Sessions -> {"none", "alive", "orphaned", "dead"}]
        /\ chat \in [Sessions -> Chats \cup {NoOne}]
    BY DEF RegistryTypeOK
  <1>k. NoOne \notin Chats
    BY RegistryAssumption
  \* It is enough to look at the steps that give some session a chat.
  <1>s. SUFFICES ASSUME ~ \A a \in Sessions, k \in Chats : Holds(a, k)' => Holds(a, k)
                 PROVE  OneHolder'
    BY DEF OneHolder
  <1>1. CASE UNCHANGED vars
    BY <1>1, <1>s DEF vars, rows, Holds
  <1>2. ASSUME NEW a \in Sessions,
               Connect(a) \/ LinkLost(a) \/ Exit(a) \/ Unregister(a)
                 \/ RenameRow(a) \/ MoveBindings(a)
        PROVE OneHolder'
    BY <1>2, <1>s, <1>t
    DEF Connect, LinkLost, Exit, Unregister, RenameRow, MoveBindings, rows, Holds
  <1>3. ASSUME NEW a \in Sessions, NEW c \in Conns,
               SeesClose(a, c) \/ RefuseRow(a, c) \/ ReadBindings(a, c) \/ Supersede(a, c)
        PROVE OneHolder'
    BY <1>3, <1>s, <1>t
    DEF SeesClose, Orphan, RefuseRow, ReadBindings, Supersede, rows, Holds
  <1>4. ASSUME NEW a \in Sessions, NEW c \in Conns, RegisterRow(a, c) PROVE OneHolder'
    BY <1>4, <1>t, <1>k DEF RegisterRow, Clashes, OneHolder, Holds
  <1>5. ASSUME NEW a \in Sessions, NEW c \in Conns, NEW k \in Chats, ClearHolders(a, c, k)
        PROVE OneHolder'
    BY <1>5, <1>s, <1>t, <1>k DEF ClearHolders, Holds
  <1>6. ASSUME NEW a \in Sessions, NEW c \in Conns, TakeChat(a, c) PROVE OneHolder'
    BY <1>6, <1>t, <1>k DEF TakeChat, Clashes, OneHolder, Holds
  <1>7. CASE RestartDaemon \/ Reap
    BY <1>7, <1>s, <1>t DEF RestartDaemon, Reap, Holds
  <1>8. ASSUME NEW a \in Sessions, NEW n \in Names, CheckName(a, n) PROVE OneHolder'
    BY <1>8, <1>s DEF CheckName, rows, Holds
  <1>9. ASSUME NEW u \in Users, NEW a \in Sessions, NEW k \in Chats, Inbound(u, a, k)
        PROVE OneHolder'
    BY <1>9, <1>s DEF Inbound, Holds
  <1>10. ASSUME NEW u \in Users, NEW a \in Sessions, NEW k \in Chats, Switch(u, a, k)
        PROVE OneHolder'
    BY <1>10, <1>t, <1>k DEF Switch, OneHolder, Holds
  <1> QED
    BY <1>1, <1>2, <1>3, <1>4, <1>5, <1>6, <1>7, <1>8, <1>9, <1>10 DEF Next, RegisterStep

(* Whatever handlers interleave, and however many sessions, chats and      *)
(* connections there are, routing has one answer.                          *)
THEOREM OneRoute == Spec => []OneHolder
  <1>1. Init => OneHolder
    BY DEF Init, OneHolder, Holds
  <1> QED
    BY <1>1, RegistryTypes, OneHolderStep, PTL DEF Spec

-----------------------------------------------------------------------------
(* The actions that write the state or the connection of a row.            *)
RowWritten ==
    \/ \E a \in Sessions, c \in Conns :
          SeesClose(a, c) \/ RegisterRow(a, c) \/ Supersede(a, c)
    \/ \E a \in Sessions : Unregister(a)
    \/ RestartDaemon \/ Reap

(* No other step touches them. *)
LEMMA OnlyRowWritten == [Next]_vars => UNCHANGED <<row, owner>> \/ RowWritten
  <1> SUFFICES ASSUME [Next]_vars PROVE UNCHANGED <<row, owner>> \/ RowWritten
    OBVIOUS
  <1>1. CASE UNCHANGED vars
    BY <1>1 DEF vars, rows
  <1>2. ASSUME NEW a \in Sessions,
               Connect(a) \/ LinkLost(a) \/ Exit(a) \/ RenameRow(a) \/ MoveBindings(a)
        PROVE UNCHANGED <<row, owner>>
    BY <1>2 DEF Connect, LinkLost, Exit, RenameRow, MoveBindings, rows
  <1>3. ASSUME NEW a \in Sessions, NEW c \in Conns,
               \/ RefuseRow(a, c) \/ ReadBindings(a, c) \/ TakeChat(a, c)
               \/ \E k \in Chats : ClearHolders(a, c, k)
        PROVE UNCHANGED <<row, owner>>
    BY <1>3 DEF RefuseRow, ReadBindings, TakeChat, ClearHolders, rows
  <1>4. ASSUME NEW a \in Sessions, NEW n \in Names, CheckName(a, n)
        PROVE UNCHANGED <<row, owner>>
    BY <1>4 DEF CheckName, rows
  <1>5. ASSUME NEW u \in Users, NEW a \in Sessions, NEW k \in Chats,
               Inbound(u, a, k) \/ Switch(u, a, k)
        PROVE UNCHANGED <<row, owner>>
    BY <1>5 DEF Inbound, Switch
  <1> QED
    BY <1>1, <1>2, <1>3, <1>4, <1>5 DEF Next, RegisterStep, RowWritten

(* A row knows the connection that registered it. *)
OwnerKnown == \A a \in Sessions : row[a] # "none" => owner[a] # 0

(* One step keeps it so: only a registration writes the column. *)
LEMMA OwnerStep == RegistryTypeOK /\ OwnerKnown /\ [Next]_vars => OwnerKnown'
  <1> SUFFICES ASSUME RegistryTypeOK, OwnerKnown, [Next]_vars PROVE OwnerKnown'
    OBVIOUS
  <1>t. /\ row \in [Sessions -> {"none", "alive", "orphaned", "dead"}]
        /\ owner \in [Sessions -> {0} \cup Conns]
    BY DEF RegistryTypeOK
  <1>c. \A c \in Conns : c # 0
    BY RegistryAssumption DEF Conns
  <1>1. CASE UNCHANGED <<row, owner>>
    BY <1>1 DEF OwnerKnown
  <1>2. ASSUME NEW a \in Sessions, NEW c \in Conns, RegisterRow(a, c) PROVE OwnerKnown'
    BY <1>2, <1>t, <1>c DEF RegisterRow, OwnerKnown
  <1>3. ASSUME NEW a \in Sessions, NEW c \in Conns, SeesClose(a, c) \/ Supersede(a, c)
        PROVE OwnerKnown'
    BY <1>3, <1>t DEF SeesClose, Orphan, Supersede, OwnerKnown
  <1>4. ASSUME NEW a \in Sessions, Unregister(a) PROVE OwnerKnown'
    BY <1>4, <1>t DEF Unregister, OwnerKnown
  <1>5. CASE RestartDaemon \/ Reap
    BY <1>5, <1>t DEF RestartDaemon, Reap, OwnerKnown
  <1> QED
    BY <1>1, <1>2, <1>3, <1>4, <1>5, OnlyRowWritten DEF RowWritten

(* mark_connection_orphaned() goes by connection: when the daemon notices  *)
(* the end of an old connection after the session registered on a new one, *)
(* the session stays on the map.                                           *)
THEOREM LateCloseIsHarmless == Spec => LateCloseSpares
  <1> DEFINE Spared == \A a \in Sessions :
          row[a] = "alive" /\ owner[a] = link[a] /\ link'[a] = link[a] =>
              row'[a] # "orphaned"
  <1>1. Init => OwnerKnown
    BY DEF Init, OwnerKnown
  <1>2. RegistryTypeOK /\ OwnerKnown /\ [Next]_vars => [Spared]_vars
    <2> SUFFICES ASSUME RegistryTypeOK, OwnerKnown, [Next]_vars PROVE [Spared]_vars
      OBVIOUS
    <2>t. row \in [Sessions -> {"none", "alive", "orphaned", "dead"}]
      BY DEF RegistryTypeOK
    <2>1. CASE UNCHANGED row
      BY <2>1
    <2>2. ASSUME NEW a \in Sessions, NEW c \in Conns,
                 SeesClose(a, c) \/ RegisterRow(a, c) \/ Supersede(a, c)
          PROVE Spared
      BY <2>2, <2>t DEF SeesClose, Orphan, RegisterRow, Supersede
    <2>3. ASSUME NEW a \in Sessions, Unregister(a) PROVE Spared
      BY <2>3, <2>t DEF Unregister
    <2>4. CASE RestartDaemon
      BY <2>4, <2>t DEF RestartDaemon, OwnerKnown
    <2>5. CASE Reap
      BY <2>5, <2>t DEF Reap
    <2> QED
      BY <2>1, <2>2, <2>3, <2>4, <2>5, OnlyRowWritten DEF RowWritten
  <1> QED
    BY <1>1, <1>2, RegistryTypes, OwnerStep, PTL DEF Spec, LateCloseSpares

(* supersede_stale_slots() asks the process: no registration, of whatever  *)
(* nick, takes a running session's live row away.                          *)
THEOREM RunningStays == Spec => RunningIsNotBuried
  <1> DEFINE Stays == \A a \in running :
          row[a] = "alive" /\ row'[a] = "dead" => Unregister(a)
  <1>1. RegistryTypeOK /\ [Next]_vars => [Stays]_vars
    <2> SUFFICES ASSUME RegistryTypeOK, [Next]_vars PROVE [Stays]_vars
      OBVIOUS
    <2>t. /\ row \in [Sessions -> {"none", "alive", "orphaned", "dead"}]
          /\ running \in SUBSET Sessions
      BY DEF RegistryTypeOK
    <2>1. CASE UNCHANGED row
      BY <2>1
    <2>2. ASSUME NEW a \in Sessions, NEW c \in Conns,
                 SeesClose(a, c) \/ RegisterRow(a, c) \/ Supersede(a, c)
          PROVE Stays
      BY <2>2, <2>t DEF SeesClose, Orphan, RegisterRow, Supersede
    <2>3. ASSUME NEW a \in Sessions, Unregister(a) PROVE Stays
      <3>1. ASSUME NEW b \in running, row[b] = "alive", row'[b] = "dead" PROVE b = a
        BY <2>3, <2>t, <3>1 DEF Unregister
      <3> QED
        BY <2>3, <3>1
    <2>4. CASE RestartDaemon \/ Reap
      BY <2>4, <2>t DEF RestartDaemon, Reap
    <2> QED
      BY <2>1, <2>2, <2>3, <2>4, OnlyRowWritten DEF RowWritten
  <1> QED
    BY <1>1, RegistryTypes, PTL DEF Spec, RunningIsNotBuried

-----------------------------------------------------------------------------
(* A handler that has cleared the holders of a chat knows which chat.      *)
NextKnown ==
    \A a \in Sessions, c \in Conns : reg[a][c].at = "cleared" => reg[a][c].next \in Chats

(* One step keeps it so: only the step that clears the holders goes there. *)
LEMMA NextStep == RegistryTypeOK /\ NextKnown /\ [Next]_vars => NextKnown'
  <1> SUFFICES ASSUME RegistryTypeOK, NextKnown, [Next]_vars PROVE NextKnown'
    OBVIOUS
  <1>t. reg \in [Sessions -> [Conns -> RegHandlers]]
    BY DEF RegistryTypeOK
  <1>1. CASE UNCHANGED reg
    BY <1>1 DEF NextKnown
  <1>2. ASSUME NEW a \in Sessions, NEW c \in Conns, NEW h \in RegHandlers,
               reg' = [reg EXCEPT ![a][c] = h], h.at # "cleared" \/ h.next \in Chats
        PROVE  NextKnown'
    <2> SUFFICES ASSUME NEW b \in Sessions, NEW d \in Conns
                 PROVE  (reg[b][d].at = "cleared" => reg[b][d].next \in Chats)'
      BY DEF NextKnown
    <2>1. reg'[b][d] = IF b = a /\ d = c THEN h ELSE reg[b][d]
      BY <1>2, <1>t
    <2> QED
      BY <1>2, <2>1 DEF NextKnown
  <1>3. ASSUME NEW a \in Sessions, Connect(a) PROVE NextKnown'
    <2> SUFFICES ASSUME NEW b \in Sessions, NEW d \in Conns
                 PROVE  (reg[b][d].at = "cleared" => reg[b][d].next \in Chats)'
      BY DEF NextKnown
    <2>1. \/ reg'[b][d] = reg[b][d]
          \/ reg'[b][d] = [reg[b][d] EXCEPT !.at = "asked"]
      BY <1>3, <1>t DEF Connect
    <2>2. reg[b][d] \in RegHandlers
      BY <1>t
    <2> QED
      BY <2>1, <2>2 DEF NextKnown, RegHandlers
  <1>4. ASSUME NEW a \in Sessions, NEW c \in Conns,
               \/ SeesClose(a, c) \/ RegisterRow(a, c) \/ RefuseRow(a, c)
               \/ ReadBindings(a, c) \/ TakeChat(a, c) \/ Supersede(a, c)
        PROVE  NextKnown'
    <2> SUFFICES ASSUME NEW b \in Sessions, NEW d \in Conns
                 PROVE  (reg[b][d].at = "cleared" => reg[b][d].next \in Chats)'
      BY DEF NextKnown
    <2>1. reg[a][c] \in RegHandlers /\ reg[b][d] \in RegHandlers
      BY <1>t
    <2>2. reg'[b][d] = reg[b][d] \/ reg'[b][d].at # "cleared"
      <3>1. CASE SeesClose(a, c)
        BY <3>1, <1>t DEF SeesClose, NoReg
      <3>2. CASE RegisterRow(a, c)
        BY <3>2, <2>1, <1>t DEF RegisterRow, RegHandlers
      <3>3. CASE RefuseRow(a, c)
        BY <3>3, <2>1, <1>t DEF RefuseRow, RegHandlers
      <3>4. CASE ReadBindings(a, c)
        BY <3>4, <2>1, <1>t DEF ReadBindings, RegHandlers
      <3>5. CASE TakeChat(a, c)
        BY <3>5, <2>1, <1>t DEF TakeChat, RegHandlers
      <3>6. CASE Supersede(a, c)
        BY <3>6, <1>t DEF Supersede, NoReg
      <3> QED
        BY <1>4, <3>1, <3>2, <3>3, <3>4, <3>5, <3>6
    <2> QED
      BY <2>2 DEF NextKnown
  <1>5. ASSUME NEW a \in Sessions, NEW c \in Conns, NEW k \in Chats, ClearHolders(a, c, k)
        PROVE  NextKnown'
    <2> DEFINE h == [reg[a][c] EXCEPT !.at = "cleared", !.next = k]
    <2>0. reg[a][c] \in RegHandlers
      BY <1>t
    <2>1. h \in RegHandlers /\ h.next \in Chats
      BY <2>0 DEF RegHandlers, RegSteps
    <2>2. reg' = [reg EXCEPT ![a][c] = h]
      BY <1>5, <1>t DEF ClearHolders
    <2> HIDE DEF h
    <2> QED
      BY <1>2, <2>1, <2>2
  <1>6. CASE RestartDaemon
    BY <1>6 DEF RestartDaemon, NoReg, NextKnown
  <1>7. ASSUME ~ UNCHANGED reg
        PROVE  \/ \E a \in Sessions : Connect(a)
               \/ \E a \in Sessions, c \in Conns : SeesClose(a, c) \/ RegisterStep(a, c)
               \/ RestartDaemon
    <2>1. ~ UNCHANGED vars
      BY <1>7 DEF vars
    <2>2. ASSUME NEW a \in Sessions,
                 \/ LinkLost(a) \/ Exit(a) \/ Unregister(a) \/ RenameRow(a)
                 \/ MoveBindings(a) \/ \E n \in Names : CheckName(a, n)
          PROVE  UNCHANGED reg
      BY <2>2 DEF LinkLost, Exit, Unregister, RenameRow, MoveBindings, CheckName
    <2>3. ASSUME NEW u \in Users, NEW a \in Sessions, NEW k \in Chats,
                 Inbound(u, a, k) \/ Switch(u, a, k)
          PROVE  UNCHANGED reg
      BY <2>3 DEF Inbound, Switch
    <2>4. Reap => UNCHANGED reg
      BY DEF Reap
    <2> QED
      BY <1>7, <2>1, <2>2, <2>3, <2>4 DEF Next
  <1> QED
    BY <1>1, <1>3, <1>4, <1>5, <1>6, <1>7 DEF RegisterStep

(* The actions that write the routing key of a row.                        *)
LEMMA OnlyChatWritten ==
    [Next]_vars =>
        \/ UNCHANGED chat
        \/ \E a \in Sessions, c \in Conns :
              TakeChat(a, c) \/ \E k \in Chats : ClearHolders(a, c, k)
        \/ \E u \in Users, a \in Sessions, k \in Chats : Switch(u, a, k)
  <1> SUFFICES ASSUME Next, ~ UNCHANGED chat
               PROVE  \/ \E a \in Sessions, c \in Conns :
                            TakeChat(a, c) \/ \E k \in Chats : ClearHolders(a, c, k)
                      \/ \E u \in Users, a \in Sessions, k \in Chats : Switch(u, a, k)
    BY DEF vars, rows
  <1>1. ASSUME NEW a \in Sessions,
               \/ Connect(a) \/ LinkLost(a) \/ Exit(a) \/ Unregister(a) \/ RenameRow(a)
               \/ MoveBindings(a) \/ \E n \in Names : CheckName(a, n)
        PROVE  UNCHANGED chat
    BY <1>1
    DEF Connect, LinkLost, Exit, Unregister, RenameRow, MoveBindings, CheckName, rows
  <1>2. ASSUME NEW a \in Sessions, NEW c \in Conns,
               \/ SeesClose(a, c) \/ RegisterRow(a, c) \/ RefuseRow(a, c)
               \/ ReadBindings(a, c) \/ Supersede(a, c)
        PROVE  UNCHANGED chat
    BY <1>2 DEF SeesClose, RegisterRow, RefuseRow, ReadBindings, Supersede, rows
  <1>3. RestartDaemon \/ Reap => UNCHANGED chat
    BY DEF RestartDaemon, Reap
  <1>4. ASSUME NEW u \in Users, NEW a \in Sessions, NEW k \in Chats, Inbound(u, a, k)
        PROVE  UNCHANGED chat
    BY <1>4 DEF Inbound
  <1> QED
    BY <1>1, <1>2, <1>3, <1>4 DEF Next, RegisterStep

(* handle_switch() and restore_bindings_for(): a live session loses a chat *)
(* only to who last wrote to it, to a registration that read the chat      *)
(* among its nick's bindings, or for another chat of its own.              *)
THEOREM ChatsStay == Spec => ChatStays
  <1> DEFINE Kept == \A a \in Sessions, k \in Chats :
          Holds(a, k) /\ row'[a] = "alive" /\ chat'[a] # k => Released(a, k)
  <1>1. Init => NextKnown
    BY DEF Init, NextKnown, NoReg
  <1>2. RegistryTypeOK /\ NextKnown /\ [Next]_vars => [Kept]_vars
    <2> SUFFICES ASSUME RegistryTypeOK, NextKnown, [Next]_vars,
                        NEW a \in Sessions, NEW k \in Chats,
                        Holds(a, k), row'[a] = "alive", chat'[a] # k
                 PROVE  Released(a, k)
      OBVIOUS
    <2>t. chat \in [Sessions -> Chats \cup {NoOne}] /\ chat[a] = k
      BY DEF RegistryTypeOK, Holds
    <2>n. NoOne \notin Chats
      BY RegistryAssumption
    <2>1. ASSUME NEW b \in Sessions, NEW c \in Conns, NEW l \in Chats, ClearHolders(b, c, l)
          PROVE  Released(a, k)
      <3>1. b # a /\ l = k
        BY <2>1, <2>t DEF ClearHolders
      <3>2. k \in reg[b][c].todo
        BY <2>1, <3>1 DEF ClearHolders
      <3> QED
        BY <3>1, <3>2 DEF Released
    <2>2. ASSUME NEW b \in Sessions, NEW c \in Conns, TakeChat(b, c) PROVE Released(a, k)
      <3>1. reg[b][c].next \in Chats
        BY <2>2 DEF TakeChat, NextKnown
      <3>2. chat'[a] # NoOne
        BY <2>2, <2>t, <2>n, <3>1 DEF TakeChat
      <3> QED
        BY <3>2 DEF Released
    <2>3. ASSUME NEW u \in Users, NEW b \in Sessions, NEW l \in Chats, Switch(u, b, l)
          PROVE  Released(a, k)
      <3>1. CASE a = b
        <4>1. chat'[a] = l
          BY <2>3, <3>1 DEF Switch
        <4> QED
          BY <4>1, <2>n DEF Released
      <3>2. CASE a # b
        <4>1. l = k
          BY <2>3, <2>t, <3>2 DEF Switch, Holds
        <4>2. lastUser[a] = u
          BY <2>3, <4>1 DEF Switch, MaySwitch
        <4> QED
          BY <2>3, <4>1, <4>2 DEF Released
      <3> QED
        BY <3>1, <3>2
    <2> QED
      BY <2>1, <2>2, <2>3, <2>t, OnlyChatWritten
  <1> QED
    BY <1>1, <1>2, RegistryTypes, NextStep, PTL DEF Spec, ChatStays
=============================================================================
