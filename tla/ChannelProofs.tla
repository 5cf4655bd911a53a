----------------------------- MODULE ChannelProofs -----------------------------
(***************************************************************************)
(* Proofs about MCChannel: the long poll and what its loop owes an update, *)
(* the replies on their way, posts and topics, questions with buttons,     *)
(* pairing, the quiet hours, and all six types.  That a parked note        *)
(* arrives is liveness and stays with TLC.                                 *)
(***************************************************************************)
EXTENDS MCChannel, WellFoundedInduction, TLAPS

-----------------------------------------------------------------------------
(* Every set of updates that is not empty has its highest: turned round,   *)
(* it is a set of numbers with a least one.                                *)
LEMMA HighestIsHighest ==
  ASSUME NEW S \in SUBSET (0..MaxUpdate), S # {}
  PROVE  Highest(S) \in S /\ \A v \in S : v <= Highest(S)
<1> DEFINE T == {MaxUpdate - u : u \in S}
<1>1. T \subseteq Nat /\ T # {}
  <2>1. \A u \in S : u \in 0..MaxUpdate /\ MaxUpdate \in Nat
    BY PollAssumption
  <2>2. \A u \in S : MaxUpdate - u \in Nat
    BY <2>1
  <2>3. QED BY <2>2
<1>2. PICK t \in T : \A s \in T : ~(<<s, t>> \in OpToRel(<, Nat))
  BY <1>1, NatLessThanWellFounded, WFMin, ZenonT(30)
<1>3. \A s \in T : t <= s
  <2> TAKE s \in T
  <2>1. ~(<<s, t>> \in {p \in Nat \X Nat : p[1] < p[2]})
    BY <1>2, Zenon DEF OpToRel
  <2>2. <<s, t>> \in Nat \X Nat
    BY <1>1
  <2>3. ~(s < t)
    BY <2>1, <2>2
  <2>4. s \in Nat /\ t \in Nat
    BY <1>1
  <2>5. QED BY <2>3, <2>4
<1>4. PICK u \in S : t = MaxUpdate - u
  OBVIOUS
<1>5. \A v \in S : v <= u
  <2> TAKE v \in S
  <2>1. MaxUpdate - v \in T
    OBVIOUS
  <2>2. t <= MaxUpdate - v
    BY <2>1, <1>3
  <2>3. u \in Int /\ v \in Int /\ MaxUpdate \in Int
    <3>1. u \in 0..MaxUpdate /\ v \in 0..MaxUpdate
      BY <1>4
    <3>2. QED BY <3>1, PollAssumption
  <2>4. MaxUpdate - u <= MaxUpdate - v
    BY <2>2, <1>4
  <2>5. QED BY <2>3, <2>4, SMT
<1>6. QED BY <1>4, <1>5 DEF Highest

-----------------------------------------------------------------------------
(* The inductive invariant.  Whoever carries an update has it from         *)
(* Telegram, ...                                                           *)
Known == batch \cup notes \cup parked \cup Carried \subseteq 1..arrived

(* ... and with each statement of the loop the offset has come further:    *)
(* what is fetched lies above it until it moves, ...                       *)
AheadOfOffset ==
    loop \in {"park", "move"} =>
        /\ top > 0 => offset < top
        /\ \A u \in batch \cup Held(back) : u <= top \/ u <= offset

(* ... and below it from then on.                                          *)
BehindOffset ==
    loop \in {"commit", "settle", "tell"} =>
        \A u \in batch \cup Held(back) : u <= offset

(* The notes up to the highest update are in hand when they are parked,    *)
(* and safe when the offset moves.                                         *)
NotesInHand ==
    loop = "park" => \A u \in Voices : offset < u /\ u <= top => u \in notes

NotesParked ==
    loop = "move" => \A u \in Voices : u <= top => u \in parked \/ rows[u] > 0

(* A text is stored only when the offset has passed it, so that a batch    *)
(* above the offset is new.                                                *)
StoredIsPassed == \A u \in Updates \ Voices : rows[u] > 0 => u <= offset

BatchIsNew == loop \in {"park", "move", "commit"} => \A u \in batch : rows[u] = 0

(* What is about to be told is in the store, once for each time.           *)
Telling(u) == (IF u \in batch \ Others THEN 1 ELSE 0) + back[u]

ToldIsStored ==
    loop \in {"settle", "tell"} => \A u \in Updates : heard[u] + Telling(u) <= rows[u]

PollInv ==
    /\ PollTypeOK /\ Known
    /\ AheadOfOffset /\ BehindOffset /\ NotesInHand /\ NotesParked
    /\ StoredIsPassed /\ BatchIsNew /\ ToldIsStored
    /\ UpdatesSafe

-----------------------------------------------------------------------------
(* The operators on counts.                                                *)
LEMMA AddIs ==
  ASSUME NEW f \in Copies, NEW S
  PROVE  /\ Add(f, S) \in Copies
         /\ \A u \in Updates : Add(f, S)[u] = IF u \in S THEN f[u] + 1 ELSE f[u]
         /\ Held(Add(f, S)) \subseteq Held(f) \cup S
BY DEF Add, Copies, Held

LEMMA PlusIs ==
  ASSUME NEW f \in Copies, NEW g \in Copies
  PROVE  /\ Plus(f, g) \in Copies
         /\ \A u \in Updates : Plus(f, g)[u] = f[u] + g[u]
BY DEF Plus, Copies

LEMMA TakeOne ==
  ASSUME NEW f \in Copies, NEW u \in Updates, f[u] > 0
  PROVE  /\ [f EXCEPT ![u] = @ - 1] \in Copies
         /\ Held([f EXCEPT ![u] = @ - 1]) \subseteq Held(f)
         /\ u \in Held(f)
BY DEF Held, Copies

LEMMA NoneHeld == NoCopies \in Copies /\ Held(NoCopies) = {}
BY DEF Held, Copies, NoCopies

LEMMA FetchedIs ==
  ASSUME PollTypeOK
  PROVE  /\ Fetched \subseteq Updates
         /\ \A u \in Fetched : offset < u /\ u <= arrived
         /\ Fetched # {} => /\ Highest(Fetched) \in Fetched
                            /\ \A u \in Fetched : u <= Highest(Fetched)
<1>1. Fetched \subseteq Updates /\ \A u \in Fetched : offset < u /\ u <= arrived
  BY DEF Fetched
<1>2. Fetched \in SUBSET (0..MaxUpdate)
  BY <1>1, PollAssumption DEF Updates
<1>3. QED BY <1>1, <1>2, HighestIsHighest

(* What Commit makes of the offset: it stays where it is.                  *)
LEMMA CommitOffset ==
  ASSUME PollTypeOK, loop = "commit", BehindOffset
  PROVE  Highest(batch \cup Held(back) \cup {offset}) = offset
<1> DEFINE S == batch \cup Held(back) \cup {offset}
<1>1. Updates \subseteq 0..MaxUpdate /\ offset \in 0..MaxUpdate
  BY PollAssumption DEF PollTypeOK, Updates
<1>2. S \in SUBSET (0..MaxUpdate) /\ S # {}
  BY <1>1 DEF PollTypeOK, Held
<1>3. \A u \in S : u <= offset
  BY <1>1 DEF BehindOffset
<1>4. Highest(S) \in S /\ \A u \in S : u <= Highest(S)
  BY <1>2, HighestIsHighest
<1>5. Highest(S) <= offset /\ offset <= Highest(S)
  BY <1>3, <1>4
<1>6. Highest(S) \in Int /\ offset \in Int
  BY <1>1, <1>2, <1>4
<1>7. QED BY <1>5, <1>6

-----------------------------------------------------------------------------
(* The state as the daemon first starts.                                   *)
LEMMA InitPoll == PollInit => PollInv
  BY PollAssumption
     DEF PollInit, PollInv, PollTypeOK, Known, AheadOfOffset, BehindOffset,
         NotesInHand, NotesParked, StoredIsPassed, BatchIsNew, ToldIsStored, Telling,
         UpdatesSafe, NoteSafe, TextOnce, NoPhantom, NoCopies, Copies, Updates, Held, Carried

(* Types, and what is known, statement by statement.                       *)
LEMMA StepTypes == PollInv /\ PollNext => PollTypeOK' /\ Known'
<1> SUFFICES ASSUME PollInv, PollNext PROVE PollTypeOK' /\ Known'
  OBVIOUS
<1>0. PollTypeOK /\ Known
  BY DEF PollInv
<1>a. /\ MaxUpdate \in Nat /\ MaxAttempts \in Nat /\ MaxCuts \in Nat
      /\ Updates = 1..MaxUpdate /\ Voices \in SUBSET Updates
  BY PollAssumption DEF Updates
<1> USE <1>0, <1>a, NoneHeld DEF PollTypeOK, Known, Carried, tables, work, voice
<1>1. CASE Arrive
  BY <1>1 DEF Arrive
<1>2. CASE Fetch
  <2>1. hand' \in Copies /\ Held(hand') \subseteq Held(hand) \cup notes'
    BY <1>2, AddIs DEF Fetch
  <2>f. Fetched \subseteq Updates /\ Fetched \subseteq 1..arrived
    <3>1. \A u \in Fetched : u \in Updates /\ u <= arrived
      BY FetchedIs
    <3>2. arrived \in Nat
      OBVIOUS
    <3>3. QED BY <3>1, <3>2
  <2>t. top' \in 0..arrived
    <3>1. CASE Fetched = {}
      BY <1>2, <3>1 DEF Fetch
    <3>2. CASE Fetched # {}
      <4>1. Highest(Fetched) \in 1..arrived
        BY <3>2, <2>f, FetchedIs
      <4>2. top' = Highest(Fetched)
        BY <1>2, <3>2 DEF Fetch
      <4>3. QED BY <4>1, <4>2
    <3>3. QED BY <3>1, <3>2
  <2>2. /\ batch' \in SUBSET (Updates \ Voices) /\ notes' \in SUBSET Voices
        /\ batch' \cup notes' \subseteq 1..arrived /\ top' \in 0..arrived
    <3>1. batch' = Fetched \ Voices /\ notes' = Fetched \cap Voices
      BY <1>2 DEF Fetch
    <3>2. QED BY <3>1, <2>f, <2>t
  <2>3. /\ back' = done /\ done' = NoCopies /\ loop' = "park"
        /\ UNCHANGED <<arrived, offset, parked, tries, rows, busy, heard, cuts>>
    BY <1>2 DEF Fetch
  <2>c. Carried' \subseteq Held(hand) \cup notes' \cup Held(busy) \cup Held(done)
    <3>1. Held(back') = Held(done) /\ Held(done') = {} /\ Held(busy') = Held(busy)
      BY <2>3
    <3>2. QED BY <2>1, <3>1
  <2>4. PollTypeOK'
    <3>1. Carried' \subseteq Voices /\ Held(tries') \subseteq Voices
      <4>1. tries' = tries
        BY <2>3
      <4>2. QED BY <2>2, <2>c, <4>1
    <3>2. back' \in Copies /\ done' \in Copies
      BY <2>3
    <3> HIDE DEF Carried
    <3>3. QED BY <2>1, <2>2, <2>3, <3>1, <3>2
  <2>5. Known'
    <3>1. Held(hand) \cup Held(busy) \cup Held(done) \subseteq 1..arrived /\ parked \subseteq 1..arrived
      OBVIOUS
    <3>2. Carried' \subseteq 1..arrived
      BY <2>2, <2>c, <3>1
    <3> HIDE DEF Carried
    <3>3. QED BY <2>2, <2>3, <3>1, <3>2
  <2>6. QED BY <2>4, <2>5
<1>3. CASE Park
  BY <1>3 DEF Park
<1>4. CASE Move
  BY <1>4 DEF Move
<1>5. CASE Commit
  <2>1. Add(rows, batch \ Others) \in Copies
    BY AddIs
  <2>2. rows' \in Copies
    BY <1>5, <2>1, PlusIs DEF Commit
  <2>3. offset' = offset
    BY <1>5, CommitOffset DEF Commit, PollInv
  <2>4. QED BY <1>5, <2>2, <2>3 DEF Commit
<1>u. ASSUME NEW S, Unpark(S)
      PROVE  /\ parked' \in SUBSET parked /\ tries' \in [Updates -> 0..MaxAttempts + 1]
             /\ Held(tries') \subseteq Voices
  BY <1>u DEF Unpark, Held
<1>6. CASE Settle
  BY <1>6, <1>u DEF Settle
<1>7. CASE Tell
  <2>1. Add(heard, batch \ Others) \in Copies
    BY AddIs
  <2>2. heard' \in Copies
    BY <1>7, <2>1, PlusIs DEF Tell
  <2>3. QED BY <1>7, <2>2 DEF Tell, Forget
<1>8. CASE FailBatch
  <2>1. /\ parked' \in SUBSET (parked \cup notes)
        /\ tries' \in [Updates -> 0..MaxAttempts + 1] /\ Held(tries') \subseteq Voices
    BY <1>8, <1>u DEF FailBatch
  <2>2. cuts' \in 0..MaxCuts
    BY <1>8 DEF FailBatch
  <2>3. /\ loop' = "poll" /\ Forget
        /\ UNCHANGED <<arrived, offset, rows, voice, heard>>
    BY <1>8 DEF FailBatch
  <2>4. Carried' \subseteq Carried /\ back' \in Copies
    BY <2>3 DEF Forget
  <2>5. batch' = {} /\ notes' = {} /\ top' = 0 /\ parked' \subseteq Voices
    BY <2>1, <2>3 DEF Forget
  <2>6. PollTypeOK'
    BY <2>1, <2>2, <2>3, <2>4, <2>5
  <2>7. Known'
    BY <2>1, <2>3, <2>4, <2>5
  <2>8. QED BY <2>6, <2>7
<1>9. CASE Unauthorized
  BY <1>9 DEF Unauthorized
<1>10. ASSUME NEW u \in Updates, Begin(u) PROVE PollTypeOK' /\ Known'
  <2>1. /\ hand' \in Copies /\ Held(hand') \subseteq Held(hand) /\ u \in Held(hand)
    BY <1>10, TakeOne DEF Begin
  <2>2. tries' \in [Updates -> 0..MaxAttempts + 1] /\ Held(tries') \subseteq Held(tries) \cup {u}
    BY <1>10 DEF Begin, Held
  <2>3. /\ busy' \in Copies /\ Held(busy') \subseteq Held(busy) \cup {u}
        /\ done' \in Copies /\ Held(done') \subseteq Held(done) \cup {u}
    BY <1>10, AddIs DEF Begin
  <2>4. UNCHANGED <<arrived, offset, parked, rows, loop, work, heard, cuts>>
    BY <1>10 DEF Begin
  <2>5. Carried' \subseteq Carried /\ u \in Voices
    BY <2>1, <2>3, <2>4
  <2>6. PollTypeOK'
    BY <2>1, <2>2, <2>3, <2>4, <2>5
  <2>7. Known'
    BY <2>4, <2>5
  <2>8. QED BY <2>6, <2>7
<1>11. ASSUME NEW u \in Updates, Finish(u) PROVE PollTypeOK' /\ Known'
  <2>1. /\ busy' \in Copies /\ Held(busy') \subseteq Held(busy) /\ u \in Held(busy)
    BY <1>11, TakeOne DEF Finish
  <2>2. done' \in Copies /\ Held(done') \subseteq Held(done) \cup {u}
    BY <1>11, AddIs DEF Finish
  <2>3. UNCHANGED <<arrived, tables, loop, work, hand, heard, cuts>>
    BY <1>11 DEF Finish
  <2>4. QED BY <2>1, <2>2, <2>3
<1>12. ASSUME Restart, cuts' \in 0..MaxCuts PROVE PollTypeOK' /\ Known'
  <2>1. hand' \in Copies /\ Held(hand') \subseteq parked
    BY <1>12 DEF Restart, Held, Copies
  <2>2. QED BY <1>12, <2>1 DEF Restart, Forget
<1>13. ASSUME NEW u \in Updates, Die(u) PROVE PollTypeOK' /\ Known'
  BY <1>12, <1>13 DEF Die
<1>14. CASE Crash
  BY <1>12, <1>14 DEF Crash
<1>15. QED
  BY <1>1, <1>2, <1>3, <1>4, <1>5, <1>6, <1>7, <1>8, <1>9, <1>10, <1>11, <1>13,
     <1>14 DEF PollNext, LoopStep, VoiceStep

-----------------------------------------------------------------------------
(* What the loop owes, statement by statement.                             *)
Owed ==
    /\ AheadOfOffset /\ BehindOffset /\ NotesInHand /\ NotesParked
    /\ StoredIsPassed /\ BatchIsNew /\ ToldIsStored
    /\ UpdatesSafe

(* Between two turns only the offset, the parked notes and the rows count. *)
Settled == StoredIsPassed /\ UpdatesSafe

LEMMA TurnOver ==
  ASSUME Settled', loop' \in {"poll", "gone"}
  PROVE  Owed'
BY DEF Settled, Owed, AheadOfOffset, BehindOffset, NotesInHand, NotesParked,
       BatchIsNew, ToldIsStored

(* The worker, and what arrives, disturb nothing of it.                    *)
LEMMA OthersOwed ==
  ASSUME Owed, UNCHANGED <<offset, parked, rows, loop, work, heard>>
  PROVE  Owed'
BY DEF Owed, AheadOfOffset, BehindOffset, NotesInHand, NotesParked, StoredIsPassed,
       BatchIsNew, ToldIsStored, Telling, UpdatesSafe, NoteSafe, TextOnce, NoPhantom, work

LEMMA FetchOwed == PollInv /\ Fetch => Owed'
<1> SUFFICES ASSUME PollInv, Fetch PROVE Owed'
  OBVIOUS
<1>0. /\ PollTypeOK /\ Known /\ Owed /\ loop' = "park"
      /\ UNCHANGED <<arrived, offset, parked, rows, heard>>
      /\ Updates \subseteq Nat /\ offset \in Nat /\ Voices \subseteq Updates
  BY PollAssumption DEF PollInv, Owed, Fetch, tables, PollTypeOK, Updates
<1>1. /\ batch' = Fetched \ Voices /\ notes' = Fetched \cap Voices /\ back' = done
      /\ top' = IF Fetched = {} THEN 0 ELSE Highest(Fetched)
  BY DEF Fetch
<1>2. \A u \in Updates : u <= arrived => u <= offset \/ u \in Fetched
  BY <1>0 DEF Fetched
<1>3. /\ top' > 0 => offset < top'
      /\ \A u \in Fetched : offset < u /\ u <= top'
      /\ \A u \in Updates : u <= top' => u <= arrived
  <2>1. CASE Fetched = {}
    BY <2>1, <1>0, <1>1 DEF PollTypeOK
  <2>2. CASE Fetched # {}
    BY <2>2, <1>0, <1>1, FetchedIs DEF PollTypeOK
  <2>3. QED BY <2>1, <2>2
<1>4. AheadOfOffset'
  <2>1. \A u \in Held(back') : u \in Updates /\ u <= arrived
    BY <1>0, <1>1 DEF Known, Carried, Held
  <2>2. QED BY <2>1, <1>0, <1>1, <1>2, <1>3 DEF AheadOfOffset
<1>5. NotesInHand'
  BY <1>0, <1>1, <1>2, <1>3 DEF NotesInHand
<1>6. BatchIsNew'
  BY <1>0, <1>1, <1>3 DEF BatchIsNew, Owed, StoredIsPassed, PollTypeOK, Copies, Fetched
<1>7. BehindOffset' /\ NotesParked' /\ ToldIsStored'
  BY <1>0 DEF BehindOffset, NotesParked, ToldIsStored
<1>8. StoredIsPassed' /\ UpdatesSafe'
  BY <1>0 DEF Owed, StoredIsPassed, UpdatesSafe, NoteSafe, TextOnce, NoPhantom
<1>9. QED BY <1>4, <1>5, <1>6, <1>7, <1>8 DEF Owed

LEMMA ParkOwed == PollInv /\ Park => Owed'
BY PollAssumption
   DEF PollInv, PollTypeOK, Owed, Park, work, AheadOfOffset, BehindOffset, NotesInHand,
       NotesParked, StoredIsPassed, BatchIsNew, ToldIsStored, UpdatesSafe, NoteSafe,
       TextOnce, NoPhantom, Updates

LEMMA MoveOwed == PollInv /\ Move => Owed'
<1> SUFFICES ASSUME PollInv, Move PROVE Owed'
  OBVIOUS
<1>a. /\ loop = "move" /\ loop' = "commit"
      /\ UNCHANGED <<parked, rows, batch, back, notes, top, heard>>
  BY DEF Move, work
<1>b. /\ Updates \subseteq Nat \ {0} /\ Voices \subseteq Updates
      /\ offset \in Nat /\ top \in Nat /\ batch \cup Held(back) \subseteq Updates
  <2>1. Updates \subseteq Nat \ {0} /\ Voices \subseteq Updates
    BY PollAssumption DEF Updates
  <2>2. offset \in Nat /\ top \in Nat /\ batch \subseteq Updates
    BY PollAssumption DEF PollInv, PollTypeOK
  <2>3. QED BY <2>1, <2>2 DEF Held
<1>0. Owed
  BY DEF PollInv, Owed
<1> USE <1>a, <1>b
<1>1. /\ offset' = IF top > 0 THEN top ELSE offset
      /\ offset' \in Nat /\ offset <= offset' /\ top <= offset'
  BY <1>0 DEF Move, Owed, AheadOfOffset
<1>2. BehindOffset'
  <2>1. \A u \in batch \cup Held(back) : u \in Nat /\ (u <= top \/ u <= offset)
    BY <1>0 DEF Owed, AheadOfOffset
  <2>2. \A u \in batch \cup Held(back) : u <= offset'
    BY <2>1, <1>1
  <2>3. QED BY <2>2 DEF BehindOffset, Held
<1>3. StoredIsPassed'
  BY <1>0, <1>1 DEF Owed, StoredIsPassed
<1>4. NoteSafe'
  BY <1>0, <1>1 DEF Owed, NotesParked, UpdatesSafe, NoteSafe
<1>5. BatchIsNew' /\ TextOnce' /\ NoPhantom'
  BY <1>0 DEF Owed, BatchIsNew, UpdatesSafe, TextOnce, NoPhantom
<1>6. AheadOfOffset' /\ NotesInHand' /\ NotesParked' /\ ToldIsStored'
  BY <1>0 DEF AheadOfOffset, NotesInHand, NotesParked, ToldIsStored
<1>7. QED BY <1>2, <1>3, <1>4, <1>5, <1>6 DEF Owed, UpdatesSafe

LEMMA CommitOwed == PollInv /\ Commit => Owed'
<1> SUFFICES ASSUME PollInv, Commit PROVE Owed'
  OBVIOUS
<1>0. /\ PollTypeOK /\ Owed /\ loop = "commit" /\ loop' = "settle"
      /\ UNCHANGED <<parked, batch, back, notes, top, heard>>
      /\ batch \subseteq Updates \ Voices /\ Voices \subseteq Updates
      /\ back \in Copies /\ heard \in Copies /\ rows \in Copies
      /\ Held(back) \subseteq Voices
  BY PollAssumption DEF PollInv, Owed, Commit, work, PollTypeOK, Carried
<1>1. offset' = offset
  BY <1>0, CommitOffset DEF Commit, Owed
<1>2. \A u \in Updates : rows'[u] = rows[u] + Telling(u)
  <2>1. Add(rows, batch \ Others) \in Copies
    BY <1>0, AddIs
  <2>2. rows' = Plus(Add(rows, batch \ Others), back)
    BY DEF Commit
  <2>3. QED BY <2>1, <2>2, <1>0, AddIs, PlusIs DEF Telling, Copies
<1>3. \A u \in Updates : /\ rows[u] \in Nat /\ heard[u] \in Nat /\ back[u] \in Nat
                         /\ Telling(u) \in Nat /\ (back[u] > 0 => u \in Held(back))
  BY <1>0 DEF Copies, Telling, Held
<1>4. \A u \in Updates \ Voices : /\ back[u] = 0
                                  /\ Telling(u) > 0 => u \in batch /\ Telling(u) = 1
  BY <1>0, <1>3 DEF Telling
<1>5. BehindOffset'
  BY <1>0, <1>1 DEF Owed, BehindOffset
<1>6. StoredIsPassed'
  BY <1>0, <1>1, <1>2, <1>3, <1>4 DEF Owed, StoredIsPassed, BehindOffset
<1>7. ToldIsStored'
  <2>1. \A u \in Updates : heard'[u] + Telling(u) <= rows'[u]
    BY <1>0, <1>2, <1>3 DEF Owed, UpdatesSafe, NoPhantom
  <2>2. QED BY <2>1, <1>0 DEF ToldIsStored, Telling
<1>8. NoteSafe' /\ NoPhantom'
  BY <1>0, <1>1, <1>2, <1>3 DEF Owed, UpdatesSafe, NoteSafe, NoPhantom
<1>9. TextOnce'
  BY <1>0, <1>2, <1>3, <1>4 DEF Owed, UpdatesSafe, TextOnce, BatchIsNew
<1>10. AheadOfOffset' /\ NotesInHand' /\ NotesParked' /\ BatchIsNew'
  BY <1>0 DEF AheadOfOffset, NotesInHand, NotesParked, BatchIsNew
<1>11. QED BY <1>5, <1>6, <1>7, <1>8, <1>9, <1>10 DEF Owed, UpdatesSafe

(* A transcript that is on its way through the batch is in the store once  *)
(* the batch is settled: its note may be let go.                           *)
LEMMA UnparkOwed ==
  ASSUME PollInv, loop = "settle", NEW S \in SUBSET Held(back), Unpark(S),
         UNCHANGED <<offset, rows, heard>>
  PROVE  Settled'
<1>1. \A u \in Held(back) : rows[u] > 0
  BY DEF PollInv, PollTypeOK, ToldIsStored, Telling, Held, Copies
<1>2. NoteSafe'
  BY <1>1 DEF PollInv, UpdatesSafe, NoteSafe, Unpark
<1>3. QED
  BY <1>2 DEF PollInv, Settled, StoredIsPassed, UpdatesSafe, TextOnce, NoPhantom

LEMMA SettleOwed == PollInv /\ Settle => Owed'
<1> SUFFICES ASSUME PollInv, Settle PROVE Owed'
  OBVIOUS
<1>1. Settled'
  BY UnparkOwed DEF Settle
<1>2. QED
  BY <1>1 DEF PollInv, Settle, work, Settled, Owed, AheadOfOffset, BehindOffset,
              NotesInHand, NotesParked, BatchIsNew, ToldIsStored, Telling

LEMMA TellOwed == PollInv /\ Tell => Owed'
<1> SUFFICES ASSUME PollInv, Tell PROVE Owed'
  OBVIOUS
<1>0. PollTypeOK /\ back \in Copies /\ heard \in Copies /\ ToldIsStored /\ loop = "tell"
  BY DEF PollInv, PollTypeOK, Tell
<1>1. \A u \in Updates : heard'[u] = heard[u] + Telling(u)
  <2>1. Add(heard, batch \ Others) \in Copies
    BY <1>0, AddIs
  <2>2. heard' = Plus(Add(heard, batch \ Others), back)
    BY DEF Tell
  <2>3. QED BY <2>1, <2>2, <1>0, AddIs, PlusIs DEF Telling, Copies
<1>2. UNCHANGED <<offset, parked, rows>> /\ loop' = "poll"
  BY DEF Tell, tables
<1>3. Settled'
  BY <1>0, <1>1, <1>2
     DEF PollInv, ToldIsStored, Settled, StoredIsPassed, UpdatesSafe, NoteSafe, TextOnce,
         NoPhantom
<1>4. QED BY <1>2, <1>3, TurnOver

(* Whatever part of a failing statement was done, nothing is owed.         *)
LEMMA FailOwed == PollInv /\ FailBatch => Owed'
<1> SUFFICES ASSUME PollInv, FailBatch PROVE Owed'
  OBVIOUS
<1>1. UNCHANGED <<offset, rows, heard>> /\ loop' = "poll"
  BY DEF FailBatch
<1>2. CASE loop = "settle"
  BY <1>1, <1>2, UnparkOwed, TurnOver DEF FailBatch
<1>3. CASE parked \subseteq parked'
  <2>1. Settled'
    BY <1>1, <1>3
       DEF PollInv, Settled, StoredIsPassed, UpdatesSafe, NoteSafe, TextOnce, NoPhantom
  <2>2. QED BY <2>1, <1>1, TurnOver
<1>4. QED BY <1>2, <1>3 DEF FailBatch

LEMMA RestartOwed == PollInv /\ (Restart \/ Unauthorized) => Owed'
<1> SUFFICES ASSUME PollInv, Restart \/ Unauthorized PROVE Owed'
  OBVIOUS
<1>1. UNCHANGED <<offset, parked, rows, heard>> /\ loop' \in {"poll", "gone"}
  BY DEF Restart, Unauthorized, tables
<1>2. Settled'
  BY <1>1
     DEF PollInv, Settled, StoredIsPassed, UpdatesSafe, NoteSafe, TextOnce, NoPhantom
<1>3. QED BY <1>1, <1>2, TurnOver

-----------------------------------------------------------------------------
(* The invariant is inductive.                                             *)
LEMMA StepPoll == PollInv /\ [PollNext]_pollVars => PollInv'
<1> SUFFICES ASSUME PollInv, [PollNext]_pollVars PROVE PollInv'
  OBVIOUS
<1>0. Owed
  BY DEF PollInv, Owed
<1>1. CASE UNCHANGED pollVars
  <2>1. PollTypeOK' /\ Known'
    BY <1>1 DEF PollInv, PollTypeOK, Known, Carried, Held, pollVars, tables, work, voice
  <2>2. Owed'
    BY <1>0, <1>1, OthersOwed DEF pollVars, tables
  <2>3. QED BY <2>1, <2>2 DEF PollInv, Owed
<1>2. CASE PollNext
  <2>1. Arrive => Owed'
    BY <1>0, OthersOwed DEF Arrive, tables
  <2>2. \A u \in Updates : Begin(u) \/ Finish(u) => Owed'
    BY <1>0, OthersOwed DEF Begin, Finish, tables
  <2>3. Owed'
    BY <1>2, <2>1, <2>2, FetchOwed, ParkOwed, MoveOwed, CommitOwed, SettleOwed, TellOwed,
       FailOwed, RestartOwed DEF PollNext, LoopStep, VoiceStep, Die, Crash
  <2>4. QED BY <1>2, <2>3, StepTypes DEF PollInv, Owed
<1>3. QED BY <1>1, <1>2

(* Every variable of the loop has its type in every reachable state: the   *)
(* offset never passes what Telegram has, and only voice notes are with    *)
(* the worker (run_long_poll).                                             *)
THEOREM PollTypes == PollSpec => []PollTypeOK
<1>1. PollInv => PollTypeOK BY DEF PollInv
<1>2. QED BY <1>1, InitPoll, StepPoll, PTL DEF PollSpec

(* For any number of updates, voice notes, crashes and failing statements: *)
(* a note the offset has passed is parked or stored, a text is stored once *)
(* at most, and nothing is told that is not in the store.                  *)
THEOREM UpdatesAreSafe == PollSpec => []UpdatesSafe
<1>1. PollInv => UpdatesSafe BY DEF PollInv
<1>2. QED BY <1>1, InitPoll, StepPoll, PTL DEF PollSpec

-----------------------------------------------------------------------------
(* Quiet hours.  What is held is held for a quiet time that goes on, and   *)
(* is in nobody's hands for publication.                                   *)
QuietInv ==
    /\ DndTypeOK
    /\ held # {} => Quiet
    /\ unread \cup held \cup direct \subseteq 1..last
    /\ direct \cap held = {}
    /\ \A d \in Drains : drain[d] \subseteq (1..last) \ held

LEMMA InitQuiet == DndInit => QuietInv
  BY DndAssumption DEF DndInit, QuietInv, DndTypeOK, Sent

(* A publication of what is not held keeps the invariant and is none of    *)
(* what is held.                                                           *)
LEMMA EmitQuiet ==
  ASSUME DndTypeOK, NEW m \in Sent, Emit(m)
  PROVE  /\ emitted' \in SUBSET Sent /\ reached' \in [Sent -> Nat]
         /\ \A n \in Sent : n # m => reached'[n] = reached[n]
BY DEF DndTypeOK, Emit

(* Every step keeps the invariant.                                         *)
LEMMA StepQuiet == QuietInv /\ [DndNext]_dndVars => QuietInv'
<1> SUFFICES ASSUME QuietInv, [DndNext]_dndVars PROVE QuietInv'
  OBVIOUS
<1> USE DndAssumption DEF QuietInv, DndTypeOK, Quiet, Switch, Sent
<1>1. CASE SendMessage BY <1>1 DEF SendMessage
<1>2. CASE DrainTick
  <2>1. /\ drain' \in [Drains -> SUBSET Sent]
        /\ \A d \in Drains : drain'[d] \subseteq (1..last) \ held
    BY <1>2 DEF DrainTick, Oldest, Drains
  <2>2. QED BY <1>2, <2>1 DEF DrainTick
<1>3. CASE TimeIsOver BY <1>3 DEF TimeIsOver
<1>4. CASE Unsubscribe
  <2>1. switches' \in 0..MaxSwitches
    BY <1>4 DEF Unsubscribe
  <2>2. QED BY <1>4, <2>1 DEF Unsubscribe
<1>5. CASE Resubscribe
  <2>1. reached' \in [Sent -> Nat]
    BY <1>5 DEF Resubscribe
  <2>2. QED BY <1>5, <2>1 DEF Resubscribe
<1>6. ASSUME NEW s \in {"off", "on", "until"}, SetDnd(s) PROVE QuietInv'
  <2>1. /\ drain' \in [Drains -> SUBSET Sent]
        /\ \A d \in Drains : drain'[d] \subseteq 1..last
        /\ held' = held \/ held' = {}
        /\ \A d \in Drains : drain'[d] \cap held' = {}
    BY <1>6 DEF SetDnd, Oldest, Drains
  <2>2. /\ dnd' = s /\ switches' \in 0..MaxSwitches /\ (held' # {} => s \in {"on", "until"})
        /\ UNCHANGED <<listening, unread, last, direct, emitted, reached>>
    BY <1>6 DEF SetDnd
  <2>3. QED BY <2>1, <2>2
<1>7. ASSUME NEW m \in Sent, EmitDirect(m) PROVE QuietInv'
  BY <1>7, EmitQuiet DEF EmitDirect
<1>8. ASSUME NEW m \in Sent, MarkEmitted(m) PROVE QuietInv'
  BY <1>8 DEF MarkEmitted
<1>9. ASSUME NEW d \in Drains, EmitDrained(d) PROVE QuietInv'
  BY <1>9, EmitQuiet DEF EmitDrained
<1>10. CASE UNCHANGED dndVars BY <1>10 DEF dndVars
<1>11. QED
  BY <1>1, <1>2, <1>3, <1>4, <1>5, <1>6, <1>7, <1>8, <1>9, <1>10 DEF DndNext

(* What is held and stays held reaches nobody in this step.                *)
LEMMA StepHolds ==
  ASSUME QuietInv, [DndNext]_dndVars, NEW m \in held, m \in held'
  PROVE  reached'[m] = reached[m]
<1>0. m \in Sent
  BY DEF QuietInv, DndTypeOK
<1>1. ASSUME NEW n \in Sent, EmitDirect(n) PROVE reached'[m] = reached[m]
  BY <1>0, <1>1, EmitQuiet DEF EmitDirect, QuietInv
<1>2. ASSUME NEW d \in Drains, EmitDrained(d) PROVE reached'[m] = reached[m]
  <2>1. PICK n \in drain[d] : Emit(n)
    BY <1>2 DEF EmitDrained
  <2>2. n \in Sent /\ n # m
    BY <2>1 DEF QuietInv, DndTypeOK
  <2>3. QED BY <1>0, <2>1, <2>2, EmitQuiet DEF QuietInv
<1>3. CASE Resubscribe
  BY <1>3 DEF Resubscribe
<1>4. QED
  BY <1>1, <1>2, <1>3
     DEF DndNext, dndVars, SendMessage, DrainTick, TimeIsOver, Unsubscribe, SetDnd,
         MarkEmitted

-----------------------------------------------------------------------------
(* The outbound queue.  A row stands in the log once, a message in the     *)
(* queue once and nowhere else on its way, ...                             *)
Queued == {outq[i] : i \in 1..Len(outq)}

Once(q) == \A i, j \in 1..Len(q) : q[i] = q[j] => i = j

OnItsWay ==
    /\ Once(log) /\ Once(outq)
    /\ (posting \cup Queued) \cap marking = {} /\ posting \cap Queued = {}
    /\ \A m \in posting \cup Queued \cup marking : row[m] # "none"
    /\ \A i \in 1..Len(log) : row[log[i]] # "none"

(* ... and what may still be sent has been sent no oftener than a mark of  *)
(* it was missed.                                                          *)
ToSend == posting \cup Queued \cup {m \in Messages \ marking : row[m] # "delivered"}

OutInv ==
    /\ OutTypeOK /\ OnItsWay
    /\ \A m \in ToSend : sent[m] <= blind[m]
    /\ \A m \in marking : sent[m] > 0
    /\ \A m \in Messages : row[m] = "delivered" => sent[m] > 0 \/ m \in drained
    /\ SentOnce

LEMMA InitOut == OutInit => OutInv
<1> SUFFICES ASSUME OutInit PROVE OutInv
  OBVIOUS
<1>1. OutTypeOK
  BY OutAssumption DEF OutInit, OutTypeOK, Messages
<1>2. OnItsWay /\ Queued = {}
  BY DEF OutInit, OnItsWay, Queued, Once
<1>3. QED BY <1>1, <1>2 DEF OutInv, OutInit, ToSend, SentOnce

(* A sequence without repetition stays one when its head goes or a new     *)
(* element is put behind it.                                               *)
LEMMA TailOnce ==
  ASSUME NEW S, NEW q \in Seq(S), q # <<>>, Once(q)
  PROVE  /\ Tail(q) \in Seq(S) /\ Once(Tail(q)) /\ Head(q) \in S
         /\ \A i \in 1..Len(Tail(q)) : Tail(q)[i] # Head(q) /\ Tail(q)[i] = q[i + 1] /\ i + 1 \in 1..Len(q)
         /\ Head(q) = q[1] /\ 1 \in 1..Len(q)
<1>1. /\ Tail(q) \in Seq(S) /\ Head(q) \in S /\ Head(q) = q[1] /\ 1 \in 1..Len(q)
      /\ \A i \in 1..Len(Tail(q)) : Tail(q)[i] = q[i + 1] /\ i + 1 \in 1..Len(q)
  OBVIOUS
<1>2. QED BY <1>1 DEF Once

LEMMA AppendOnce ==
  ASSUME NEW S, NEW q \in Seq(S), Once(q), NEW m \in S, \A i \in 1..Len(q) : q[i] # m
  PROVE  /\ Append(q, m) \in Seq(S) /\ Once(Append(q, m))
         /\ \A i \in 1..Len(Append(q, m)) :
               Append(q, m)[i] = m \/ (i \in 1..Len(q) /\ Append(q, m)[i] = q[i])
<1>1. /\ Append(q, m) \in Seq(S) /\ Len(Append(q, m)) = Len(q) + 1
      /\ \A i \in 1..Len(q) + 1 :
            Append(q, m)[i] = IF i = Len(q) + 1 THEN m ELSE q[i]
  OBVIOUS
<1>2. Len(q) \in Nat
  OBVIOUS
<1>3. QED BY <1>1, <1>2 DEF Once

(* A step that sends nothing and has nothing more to send keeps all that   *)
(* the sends depend on.                                                    *)
LEMMA NothingSent ==
  ASSUME OutInv, OutTypeOK', OnItsWay', ToSend' \subseteq ToSend,
         UNCHANGED <<sent, blind>>, marking' \subseteq marking, drained \subseteq drained',
         \A m \in Messages : row'[m] = "delivered" =>
            row[m] = "delivered" \/ m \in marking \/ m \in drained'
  PROVE  OutInv'
BY DEF OutInv, SentOnce

LEMMA StepOut == OutInv /\ [OutNext]_outVars => OutInv'
<1> SUFFICES ASSUME OutInv, [OutNext]_outVars PROVE OutInv'
  OBVIOUS
<1> USE DEF OutInv, OnItsWay, ToSend
<1>0. /\ OutTypeOK /\ Replies \subseteq Messages /\ Inbound \subseteq Messages
      /\ MaxFaults \in Nat /\ Once(log) /\ Once(outq)
  BY OutAssumption DEF Messages
<1>s. \A m \in Messages : sent[m] \in Nat /\ blind[m] \in Nat
  BY <1>0 DEF OutTypeOK
<1>r. ASSUME NEW m \in Messages, StoreRow(m)
      PROVE  /\ log' \in Seq(Messages) /\ Once(log') /\ row[m] = "none"
             /\ \A i \in 1..Len(log') : row'[log'[i]] # "none"
             /\ row' \in [Messages -> {"none", "undelivered", "delivered"}]
             /\ row'[m] = "undelivered" /\ \A n \in Messages : n # m => row'[n] = row[n]
  <2>1. \A i \in 1..Len(log) : log[i] # m
    BY <1>r DEF StoreRow
  <2>2. log \in Seq(Messages)
    BY <1>0 DEF OutTypeOK
  <2>3. /\ log' = Append(log, m) /\ row' = [row EXCEPT ![m] = "undelivered"] /\ row[m] = "none"
    BY <1>r DEF StoreRow
  <2>4. /\ row' \in [Messages -> {"none", "undelivered", "delivered"}]
        /\ row'[m] = "undelivered" /\ \A n \in Messages : n # m => row'[n] = row[n]
    BY <2>3, <1>0 DEF OutTypeOK
  <2>5. \A i \in 1..Len(log) : log[i] \in Messages /\ row[log[i]] # "none"
    BY <2>2
  <2>6. QED BY <1>0, <2>1, <2>2, <2>3, <2>4, <2>5, AppendOnce
<1>1. ASSUME NEW m \in Replies, Post(m) PROVE OutInv'
  <2>1. /\ StoreRow(m) /\ posting' = posting \cup {m} /\ Queued' = Queued /\ m \in Messages
        /\ UNCHANGED <<old, outq, marking, up, sent, drained, blind, faults>>
    BY <1>1, <1>0 DEF Post, Queued
  <2>2. m \notin posting \cup Queued \cup marking
    BY <2>1 DEF StoreRow
  <2>3. OutTypeOK' /\ OnItsWay'
    <3>1. OutTypeOK'
      BY <1>0, <2>1, <1>1, <1>r DEF OutTypeOK
    <3>2. OnItsWay'
      BY <1>0, <2>1, <2>2, <1>r DEF OutTypeOK, Queued
    <3>3. QED BY <3>1, <3>2
  <2>4. ToSend' \subseteq ToSend
    BY <2>1, <2>2, <1>r DEF OutTypeOK
  <2>5. QED BY <2>1, <2>3, <2>4, <1>r, NothingSent
<1>2. ASSUME NEW m \in Replies, Queue(m) PROVE OutInv'
  <2>1. /\ outq' \in Seq(Messages) /\ Once(outq') /\ Queued' \subseteq Queued \cup {m}
        /\ m \in posting /\ posting' = posting \ {m} /\ m \notin Queued
        /\ UNCHANGED <<log, row, old, marking, up, sent, drained, blind, faults>>
    <3>1. \A i \in 1..Len(outq) : outq[i] # m
      BY <1>2 DEF Queue, Queued
    <3>2. m \in Messages /\ outq \in Seq(Messages)
      BY <1>0 DEF OutTypeOK
    <3>3. QED BY <1>0, <1>2, <3>1, <3>2, AppendOnce DEF Queue, Queued, rowVars
  <2>2. OutTypeOK'
    BY <1>0, <2>1 DEF OutTypeOK
  <2>3. QED BY <1>0, <2>1, <2>2 DEF OutTypeOK, SentOnce
<1>3. ASSUME NEW m \in Inbound, Receive(m) PROVE OutInv'
  <2>1. /\ StoreRow(m) /\ Queued' = Queued /\ m \in Messages
        /\ UNCHANGED <<posting, old, outq, marking, up, sent, drained, blind, faults>>
    BY <1>3, <1>0 DEF Receive, Queued
  <2>2. OutTypeOK' /\ OnItsWay'
    <3>1. OutTypeOK'
      BY <1>0, <2>1, <1>3, <1>r DEF OutTypeOK
    <3>2. OnItsWay'
      BY <1>0, <2>1, <1>r DEF OutTypeOK, Queued
    <3>3. QED BY <3>1, <3>2
  <2>3. m \notin marking /\ ToSend' \subseteq ToSend
    BY <2>1, <1>r DEF OutTypeOK
  <2>4. QED BY <2>1, <2>2, <2>3, <1>r, NothingSent
<1>4. ASSUME NEW m \in Messages, Age(m) PROVE OutInv'
  BY <1>0, <1>4 DEF Age, OutTypeOK, SentOnce, Queued
<1>t. ASSUME outq # <<>>, outq' = Tail(outq)
      PROVE  /\ outq' \in Seq(Messages) /\ Once(outq') /\ Queued' \subseteq Queued
             /\ Head(outq) \in Queued \ Queued' /\ Head(outq) \in Messages
  <2>1. outq \in Seq(Messages)
    BY <1>0 DEF OutTypeOK
  <2>2. QED BY <1>0, <1>t, <2>1, TailOnce DEF Queued
<1>5. CASE Send
  <2> DEFINE h == Head(outq)
  <2>1. /\ outq' \in Seq(Messages) /\ Once(outq') /\ Queued' \subseteq Queued
        /\ h \in Queued \ Queued' /\ h \in Messages
    BY <1>5, <1>t DEF Send
  <2>2. /\ sent' = [sent EXCEPT ![h] = @ + 1] /\ marking' = {h} /\ marking = {}
        /\ UNCHANGED <<log, row, old, posting, up, drained, blind, faults>>
    BY <1>5 DEF Send, rowVars
  <2> HIDE DEF h
  <2>3. sent' \in [Messages -> Nat] /\ sent'[h] = sent[h] + 1
        /\ \A m \in Messages : m # h => sent'[m] = sent[m]
    BY <2>1, <2>2, <1>0 DEF OutTypeOK
  <2>4. OutTypeOK'
    BY <1>0, <2>1, <2>2, <2>3 DEF OutTypeOK
  <2>5. sent[h] <= blind[h] /\ h \notin posting
    BY <2>1
  <2>6. ToSend' \subseteq ToSend \ {h}
    BY <2>1, <2>2, <2>5 
  <2>7. OnItsWay'
    BY <2>1, <2>2, <2>5
  <2>8. \A m \in ToSend' : sent'[m] <= blind'[m]
    <3>1. ToSend \subseteq Messages
      BY <1>0 DEF OutTypeOK, Queued
    <3>2. \A m \in ToSend' : m \in Messages /\ m # h /\ sent[m] <= blind[m]
      BY <2>6, <3>1
    <3>3. QED BY <2>2, <2>3, <3>2
  <2>9. SentOnce'
    BY <2>2, <2>3, <2>5, <1>s, <2>1 DEF SentOnce
  <2>10. QED BY <2>2, <2>3, <2>4, <2>5, <2>7, <2>8, <2>9, <1>s, <2>1
<1>6. CASE SendFails
  <2>1. /\ outq' \in Seq(Messages) /\ Once(outq') /\ Queued' \subseteq Queued
    BY <1>6, <1>t DEF SendFails
  <2>2. UNCHANGED <<log, row, old, posting, marking, up, sent, drained, blind, faults>>
    BY <1>6 DEF SendFails, rowVars
  <2>3. QED BY <1>0, <2>1, <2>2 DEF OutTypeOK, SentOnce
<1>7. CASE Mark
  <2>1. /\ Queued' = Queued /\ marking' = {}
        /\ UNCHANGED <<log, old, posting, outq, up, sent, drained, blind, faults>>
    BY <1>7 DEF Mark, Queued
  <2>2. \A m \in Messages : row'[m] = IF m \in marking THEN "delivered" ELSE row[m]
    BY <1>7 DEF Mark
  <2>3. OutTypeOK'
    BY <1>0, <1>7 DEF Mark, OutTypeOK
  <2>4. OnItsWay'
    <3>1. log \in Seq(Messages) /\ outq \in Seq(Messages) /\ posting \cup Queued \cup marking \subseteq Messages
      BY <1>0 DEF OutTypeOK, Queued
    <3>2. \A i \in 1..Len(log) : log[i] \in Messages
      BY <3>1
    <3>3. \A m \in Messages : row[m] # "none" => row'[m] # "none"
      BY <2>2
    <3>4. QED BY <1>0, <2>1, <3>1, <3>2, <3>3
  <2>5. ToSend' \subseteq ToSend
    BY <2>1, <2>2
  <2>6. QED BY <2>1, <2>2, <2>3, <2>4, <2>5, NothingSent
<1>u. ASSUME Unmarked
      PROVE  /\ blind' \in [Messages -> Nat]
             /\ \A m \in Messages : blind'[m] = IF m \in marking THEN blind[m] + 1 ELSE blind[m]
  BY <1>u, <1>s DEF Unmarked
<1>8. CASE MarkFails
  <2>1. Queued' = Queued
    BY <1>8 DEF MarkFails, Queued
  <2>2. OutTypeOK'
    BY <1>0, <1>8, <1>u DEF MarkFails, OutTypeOK, rowVars
  <2>3. ToSend' \subseteq ToSend \cup marking /\ ToSend' \subseteq Messages
    <3>1. /\ posting \subseteq Messages /\ Queued \subseteq Messages
      BY <1>0 DEF OutTypeOK, Queued
    <3>2. marking' = {} /\ posting' = posting /\ row' = row
      BY <1>8 DEF MarkFails, rowVars
    <3>3. QED BY <2>1, <3>1, <3>2
  <2>4. \A m \in ToSend' : sent'[m] <= blind'[m]
    BY <1>8, <1>u, <1>s, <2>3 DEF MarkFails, SentOnce
  <2>5. SentOnce'
    BY <1>8, <1>u, <1>s DEF MarkFails, SentOnce
  <2>6. QED BY <1>0, <1>8, <2>1, <2>2, <2>4, <2>5 DEF MarkFails, rowVars
<1>9. CASE Drain
  <2> DEFINE W == {m \in Messages : row[m] = "undelivered"}
  <2>1. /\ Queued' = Queued /\ drained' = drained \cup W
        /\ UNCHANGED <<log, old, posting, outq, marking, up, sent, blind, faults>>
    BY <1>9 DEF Drain, Queued
  <2>2. \A m \in Messages : row'[m] = IF m \in W THEN "delivered" ELSE row[m]
    BY <1>9 DEF Drain
  <2>3. OutTypeOK'
    BY <1>0, <1>9 DEF Drain, OutTypeOK
  <2>4. OnItsWay'
    <3>1. log \in Seq(Messages) /\ outq \in Seq(Messages) /\ posting \cup Queued \cup marking \subseteq Messages
      BY <1>0 DEF OutTypeOK, Queued
    <3>2. \A i \in 1..Len(log) : log[i] \in Messages
      BY <3>1
    <3>3. \A m \in Messages : row[m] # "none" => row'[m] # "none"
      BY <2>2
    <3>4. QED BY <1>0, <2>1, <3>1, <3>2, <3>3
  <2>5. ToSend' \subseteq ToSend
    BY <2>1, <2>2
  <2>6. QED BY <2>1, <2>2, <2>3, <2>4, <2>5, NothingSent
<1>10. CASE Disconnected
  <2>1. /\ Queued' = {} /\ outq' = <<>> /\ up' = FALSE
        /\ UNCHANGED <<log, row, old, posting, marking, sent, drained, blind, faults>>
    BY <1>10 DEF Disconnected, Queued, rowVars
  <2>2. Once(outq') /\ outq' \in Seq(Messages)
    BY <2>1 DEF Once
  <2>3. OutTypeOK'
    BY <1>0, <2>1, <2>2 DEF OutTypeOK
  <2>4. OnItsWay' /\ ToSend' \subseteq ToSend
    BY <2>1, <2>2
  <2>5. QED BY <2>1, <2>3, <2>4, NothingSent
<1>11. CASE RestartBot
  <2>1. PICK n \in 0..Len(log) : \E q \in [1..n -> Pending] : OldestFirst(q) /\ outq' = q
    BY <1>11 DEF RestartBot
  <2>2. n \in Nat /\ log \in Seq(Messages) /\ Len(log) \in Nat
    BY <1>0, <2>1 DEF OutTypeOK
  <2>3. PICK q \in [1..n -> Pending] : OldestFirst(q) /\ outq' = q
    BY <2>1
  <2>4. q \in Seq(Messages) /\ Len(q) = n /\ DOMAIN q = 1..n /\ \A i \in 1..n : q[i] \in Pending
    BY <2>2 DEF Pending
  <2>5. Once(q)
    <3>1. \A m : ~Earlier(m, m)
      BY <2>2, <1>0 DEF Earlier, Once
    <3>2. \A i, j \in 1..n : i < j => q[i] # q[j]
      BY <2>3, <2>4, <3>1 DEF OldestFirst
    <3>3. \A i, j \in 1..n : i # j => i < j \/ j < i
      BY <2>2
    <3>4. QED BY <2>4, <3>2, <3>3 DEF Once
  <2>6. Queued' \subseteq Pending /\ outq' \in Seq(Messages) /\ Once(outq')
    BY <2>3, <2>4, <2>5 DEF Queued
  <2>7. UNCHANGED <<log, row, old, sent, drained>> /\ posting' = {} /\ marking' = {}
        /\ up' = TRUE /\ faults' \in 0..MaxFaults /\ Unmarked
    BY <1>0, <1>11 DEF RestartBot, rowVars, OutTypeOK
  <2>8. OutTypeOK'
    BY <1>0, <1>u, <2>6, <2>7 DEF OutTypeOK
  <2>9. \A m \in ToSend' : sent'[m] <= blind'[m]
    <3>1. ToSend' \subseteq {m \in Messages : row[m] # "delivered"}
      BY <2>6, <2>7 DEF Pending
    <3>2. QED BY <3>1, <2>7, <1>u, <1>s DEF SentOnce
  <2>10. OnItsWay'
    BY <2>6, <2>7 DEF Pending
  <2>11. SentOnce'
    BY <2>7, <1>u, <1>s DEF SentOnce
  <2>12. QED BY <2>7, <2>8, <2>9, <2>10, <2>11
<1>12. CASE UNCHANGED outVars
  BY <1>0, <1>12 DEF outVars, rowVars, OutTypeOK, SentOnce, Queued
<1>13. QED
  BY <1>1, <1>2, <1>3, <1>4, <1>5, <1>6, <1>7, <1>8, <1>9, <1>10, <1>11, <1>12 DEF OutNext

-----------------------------------------------------------------------------
(* The topics.  What is addressed to a session, and whoever holds a topic, *)
(* is on record for every post written there.                              *)
Addressed(F) == \A f \in F : where[f.post] # Unbound /\ (f.to \in Agents => f.to \in waiting[f.post])

TopicInv ==
    /\ RoutingTypeOK /\ TopicsKeepApart
    /\ \A p \in Posts : where[p] = Unbound => readBy[p] = {}
    /\ \A p \in Posts : where[p] # Unbound => HoldersIn(live, key, where[p]) \subseteq waiting[p]
    /\ Addressed(outcome) /\ \A a \in Agents : Addressed(frames[a])
    /\ \A a \in Agents : \A p \in backlog[a] : where[p] # Unbound

LEMMA InitTopics == RoutingInit => TopicInv
  BY RoutingAssumption DEF RoutingInit, TopicInv, RoutingTypeOK, TopicsKeepApart, Addressed

LEMMA RoutedIs ==
  ASSUME NEW L \in SUBSET Agents, NEW k, NEW t
  PROVE  /\ Routed(L, k, t) \in HoldersIn(L, k, t) \cup {Unbound}
         /\ \A a \in Agents : Routed(L, k, t) = a => a \in HoldersIn(L, k, t)
BY RoutingAssumption DEF Routed, HoldersIn

(* What the transaction of a batch has made of the tables by an update.    *)
Drafts ==
    [key : [Agents -> Topics \cup {Unbound}], nickOf : [Topics -> Agents \cup {Unbound}],
     stamped : SUBSET Agents, where : [Posts -> Topics \cup {Unbound}], frames : SUBSET Frames]

Sound(s) ==
    /\ s \in Drafts
    /\ \A p \in Posts : where[p] # Unbound => s.where[p] = where[p]
    /\ \A f \in s.frames : s.where[f.post] # Unbound

LEMMA StartSound == RoutingTypeOK => Sound(Start)
  BY DEF RoutingTypeOK, Sound, Start, Drafts

LEMMA UpdateSound ==
  ASSUME RoutingTypeOK, NEW s, Sound(s), NEW u \in Written \cup Switches,
         u.kind = "post" => where[u.post] = Unbound
  PROVE  Sound(Update(s, u))
<1>1. CASE u \in Written
  <2>1. u.kind = "post" /\ u.topic \in Topics /\ u.post \in Posts /\ where[u.post] = Unbound
    BY <1>1 DEF Written
  <2>2. PICK to : to = Routed(live, s.key, u.topic)
    OBVIOUS
  <2>3. to \in Agents \cup {Unbound}
    BY <2>2, RoutedIs DEF RoutingTypeOK, HoldersIn
  <2>4. PICK f : f = [post |-> u.post, to |-> to]
    OBVIOUS
  <2>5. f \in Frames /\ f.post = u.post
    BY <2>1, <2>3, <2>4 DEF Frames
  <2>6. PICK r : r = PostRow(s, u)
    OBVIOUS
  <2>7. /\ r = [s EXCEPT !.where[u.post] = u.topic, !.stamped = @ \cup ({to} \cap Agents),
                         !.frames = @ \cup {f}]
    BY <2>2, <2>4, <2>6 DEF PostRow
  <2>8. /\ s.key \in [Agents -> Topics \cup {Unbound}] /\ s.nickOf \in [Topics -> Agents \cup {Unbound}]
        /\ s.stamped \in SUBSET Agents /\ s.where \in [Posts -> Topics \cup {Unbound}]
        /\ s.frames \in SUBSET Frames
    BY DEF Sound, Drafts
  <2>9. /\ r = [key |-> s.key, nickOf |-> s.nickOf, stamped |-> s.stamped \cup ({to} \cap Agents),
                where |-> [s.where EXCEPT ![u.post] = u.topic], frames |-> s.frames \cup {f}]
    BY <2>7 DEF Sound, Drafts
  <2>10. r \in Drafts /\ r.where = [s.where EXCEPT ![u.post] = u.topic] /\ r.frames = s.frames \cup {f}
    BY <2>1, <2>5, <2>8, <2>9 DEF Drafts
  <2>11. \A p \in Posts : r.where[p] = IF p = u.post THEN u.topic ELSE s.where[p]
    BY <2>8, <2>10
  <2>12. \A g \in r.frames : r.where[g.post] # Unbound
    <3> TAKE g \in r.frames
    <3>1. g.post \in Posts
      BY <2>5, <2>8, <2>10 DEF Frames
    <3>2. g = f \/ g \in s.frames
      BY <2>10
    <3>3. QED BY <2>1, <2>5, <2>11, <3>1, <3>2, RoutingAssumption DEF Sound
  <2>13. Sound(r)
    BY <2>1, <2>10, <2>11, <2>12 DEF Sound
  <2>14. QED BY <2>1, <2>6, <2>13 DEF Update
<1>2. CASE u \in Switches
  <2>1. u.kind = "switch" /\ u.topic \in Topics /\ u.agent \in Agents
    BY <1>2 DEF Switches
  <2>2. PICK r : r = SwitchTopic(s, u)
    OBVIOUS
  <2>3. CASE r = s
    BY <2>1, <2>2, <2>3 DEF Update
  <2>4. CASE r # s
    <3> DEFINE from == HoldersIn(live, s.key, u.topic)
    <3>1. PICK k : k = [a \in Agents |-> IF a = u.agent THEN u.topic
                                         ELSE IF a \in from THEN Unbound ELSE s.key[a]]
      OBVIOUS
    <3>2. r = [s EXCEPT !.key = k, !.nickOf[u.topic] = u.agent]
      BY <2>2, <2>4, <3>1 DEF SwitchTopic
    <3>3. /\ s.key \in [Agents -> Topics \cup {Unbound}] /\ s.nickOf \in [Topics -> Agents \cup {Unbound}]
          /\ s.stamped \in SUBSET Agents /\ s.where \in [Posts -> Topics \cup {Unbound}]
          /\ s.frames \in SUBSET Frames
      BY DEF Sound, Drafts
    <3>4. k \in [Agents -> Topics \cup {Unbound}]
      BY <2>1, <3>1, <3>3
    <3>5. r = [key |-> k, nickOf |-> [s.nickOf EXCEPT ![u.topic] = u.agent], stamped |-> s.stamped,
               where |-> s.where, frames |-> s.frames]
      BY <3>2 DEF Sound, Drafts
    <3>6. r \in Drafts /\ r.where = s.where /\ r.frames = s.frames
      BY <2>1, <3>3, <3>4, <3>5 DEF Drafts
    <3>7. QED BY <2>1, <2>2, <3>6 DEF Update, Sound
  <2>5. QED BY <2>3, <2>4
<1>3. QED BY <1>1, <1>2

LEMMA AppliedSound ==
  ASSUME RoutingTypeOK, NEW us \in Batches
  PROVE  Sound(Applied(us))
<1>1. PICK n \in 1..2 : us \in [1..n -> Written \cup Switches]
  BY DEF Batches
<1>2. \A i \in 1..n : us[i] \in Written \cup Switches /\ (us[i].kind = "post" => where[us[i].post] = Unbound)
  BY <1>1 DEF Batches
<1>3. Len(us) = n /\ n \in {1, 2}
  BY <1>1
<1>4. Sound(Update(Start, us[1]))
  BY <1>2, <1>3, StartSound, UpdateSound
<1>5. Len(us) # 1 => Sound(Update(Update(Start, us[1]), us[2]))
  BY <1>2, <1>3, <1>4, UpdateSound
<1>6. QED BY <1>4, <1>5 DEF Applied

(* A batch puts its posts on record for the holders of their topics.       *)
LEMMA StepBatch ==
  ASSUME TopicInv, NEW us \in Batches, HandlePost(us)
  PROVE  TopicInv'
<1>1. PICK s : s = Applied(us)
  OBVIOUS
<1>2. Sound(s) /\ RoutingTypeOK
  BY <1>1, AppliedSound DEF TopicInv
<1>3. PICK w : w = waiting'
  OBVIOUS
<1>4. /\ key' = s.key /\ nickOf' = s.nickOf /\ stamped' = s.stamped /\ where' = s.where
      /\ kept' = kept \cup {p \in Posts : where[p] # s.where[p]} /\ outcome' = s.frames
      /\ UNCHANGED <<online, live, listens, frames, backlog, readBy, drops>>
  BY <1>1 DEF HandlePost, feed
<1>5. w = [p \in Posts |-> HeldSince(s.where, live, s.key)[p]
                           \cup ({f.to : f \in {g \in s.frames : g.post = p}} \cap Agents)]
  BY <1>1, <1>3 DEF HandlePost
<1>6. /\ s.key \in [Agents -> Topics \cup {Unbound}] /\ s.nickOf \in [Topics -> Agents \cup {Unbound}]
      /\ s.stamped \in SUBSET Agents /\ s.where \in [Posts -> Topics \cup {Unbound}]
      /\ s.frames \in SUBSET Frames
  BY <1>2 DEF Sound, Drafts
<1>7. \A p \in Posts :
         HeldSince(s.where, live, s.key)[p] =
            IF s.where[p] = Unbound THEN {} ELSE waiting[p] \cup HoldersIn(live, s.key, s.where[p])
  BY DEF HeldSince
<1>8. \A p \in Posts : /\ w[p] \in SUBSET Agents
                       /\ s.where[p] # Unbound => waiting[p] \cup HoldersIn(live, s.key, s.where[p]) \subseteq w[p]
  BY <1>2, <1>5, <1>7 DEF RoutingTypeOK, HoldersIn
<1>9. \A f \in s.frames : f.to \in Agents => f.to \in w[f.post]
  BY <1>5, <1>6 DEF Frames
<1>10. waiting' \in [Posts -> SUBSET Agents]
  BY <1>3, <1>5, <1>8
<1>11. \A p \in Posts : where[p] # Unbound => s.where[p] = where[p]
  BY <1>2 DEF Sound
<1>12. RoutingTypeOK'
  <2>1. \A p \in kept' : p \in Posts /\ where'[p] # Unbound
    BY <1>2, <1>4, <1>11 DEF RoutingTypeOK
  <2>2. \A a \in Agents : \A p \in backlog[a] : p \in Posts \ kept'
    BY <1>2, <1>4, <1>11 DEF RoutingTypeOK, TopicInv
  <2>3. backlog' \in [Agents -> SUBSET (Posts \ kept')]
    BY <1>2, <1>4, <2>2 DEF RoutingTypeOK
  <2>4. QED BY <1>2, <1>4, <1>6, <1>10, <2>1, <2>3 DEF RoutingTypeOK
<1>13. TopicsKeepApart'
  <2>1. ASSUME NEW p \in Posts, where'[p] # General PROVE readBy'[p] \subseteq waiting'[p]
    <3>1. CASE where[p] = Unbound
      BY <1>4, <3>1 DEF TopicInv
    <3>2. CASE where[p] # Unbound
      BY <1>3, <1>4, <1>8, <1>11, <2>1, <3>2 DEF TopicInv, TopicsKeepApart
    <3>3. QED BY <3>1, <3>2
  <2>2. QED BY <2>1 DEF TopicsKeepApart
<1>14. \A p \in Posts : /\ where'[p] = Unbound => readBy'[p] = {}
                        /\ where'[p] # Unbound => HoldersIn(live', key', where'[p]) \subseteq waiting'[p]
  BY <1>3, <1>4, <1>8, <1>11 DEF TopicInv
<1>15. Addressed(outcome)'
  BY <1>2, <1>3, <1>4, <1>9 DEF Addressed, Sound
<1>16. ASSUME NEW a \in Agents PROVE Addressed(frames[a])'
  <2>1. frames[a] \subseteq Frames /\ Addressed(frames[a])
    BY <1>2 DEF TopicInv, RoutingTypeOK
  <2>2. QED BY <1>3, <1>4, <1>8, <1>11, <2>1 DEF Addressed, Frames
<1>17. \A a \in Agents : \A p \in backlog'[a] : where'[p] # Unbound
  BY <1>2, <1>4, <1>11 DEF TopicInv, RoutingTypeOK
<1>18. QED BY <1>12, <1>13, <1>14, <1>15, <1>16, <1>17 DEF TopicInv
(* A step that neither writes posts nor moves topics, and types no post    *)
(* into a session it is not on record for.                                 *)
LEMMA RecordStays ==
  ASSUME TopicInv, RoutingTypeOK', UNCHANGED <<key, where, waiting>>, live' \subseteq live,
         outcome' \subseteq outcome, \A a \in Agents : frames'[a] \subseteq frames[a] \cup outcome,
         \A a \in Agents : backlog'[a] \subseteq backlog[a] \cup kept,
         \A p \in Posts : \A a \in readBy'[p] :
            a \in readBy[p] \/ (where[p] # Unbound /\ (where[p] = General \/ a \in waiting[p]))
  PROVE  TopicInv'
<1>1. TopicsKeepApart'
  BY DEF TopicInv, TopicsKeepApart
<1>2. Addressed(outcome)' /\ \A a \in Agents : Addressed(frames[a])'
  BY DEF TopicInv, Addressed
<1>3. \A a \in Agents : \A p \in backlog'[a] : where'[p] # Unbound
  BY DEF TopicInv, RoutingTypeOK
<1>4. \A p \in Posts : where'[p] # Unbound => HoldersIn(live', key', where'[p]) \subseteq waiting'[p]
  BY DEF TopicInv, HoldersIn
<1>5. \A p \in Posts : where'[p] = Unbound => readBy'[p] = {}
  BY DEF TopicInv
<1>6. QED BY <1>1, <1>2, <1>3, <1>4, <1>5 DEF TopicInv

(* What a session types has the type of what is read.                      *)
LEMMA TypedIs ==
  ASSUME RoutingTypeOK, NEW a \in Agents, NEW P, Typed(a, P)
  PROVE  /\ readBy' \in [Posts -> SUBSET Agents]
         /\ \A p \in Posts : \A b \in readBy'[p] : b \in readBy[p] \/ (b = a /\ p \in P)
BY DEF Typed, RoutingTypeOK

LEMMA StepReturn ==
  ASSUME TopicInv, NEW a \in Agents, Return(a)
  PROVE  TopicInv'
<1>1. RoutingTypeOK
  BY DEF TopicInv
<1>2. /\ online' = online \cup {a} /\ live' \in SUBSET Agents
      /\ key' \in [Agents -> Topics \cup {Unbound}]
      /\ UNCHANGED <<nickOf, stamped, kept, where, outcome, listens, frames, backlog, readBy, drops>>
  <2>1. CASE UNCHANGED <<live, key>>
    BY <1>1, <2>1 DEF Return, feed, RoutingTypeOK
  <2>2. CASE ~UNCHANGED <<live, key>>
    <3> DEFINE mine == {t \in Topics : nickOf[t] = a}
    <3>1. live' = live \cup {a}
      BY <2>2 DEF Return
    <3>2. PICK t \in IF mine = {} THEN {key[a]} ELSE mine :
             key' = [b \in Agents |-> IF b = a THEN t
                                      ELSE IF key[b] \in mine THEN Unbound ELSE key[b]]
      BY <2>2 DEF Return
    <3>3. t \in Topics \cup {Unbound}
      BY <1>1, <3>2 DEF RoutingTypeOK
    <3>4. QED BY <1>1, <3>1, <3>2, <3>3 DEF Return, feed, RoutingTypeOK
  <2>3. QED BY <2>1, <2>2
<1>3. waiting' = HeldSince(where, live', key')
  BY DEF Return
<1>4. \A p \in Posts : waiting'[p] = IF where[p] = Unbound THEN {}
                                     ELSE waiting[p] \cup HoldersIn(live', key', where[p])
  BY <1>3 DEF HeldSince
<1>5. waiting' \in [Posts -> SUBSET Agents]
  <2>1. waiting \in [Posts -> SUBSET Agents] /\ \A p \in Posts : HoldersIn(live', key', where[p]) \subseteq Agents
    BY <1>1, <1>2 DEF RoutingTypeOK, HoldersIn
  <2>2. QED BY <1>3, <2>1 DEF HeldSince
<1>6. RoutingTypeOK'
  BY <1>1, <1>2, <1>5 DEF RoutingTypeOK
<1>7. TopicsKeepApart'
  BY <1>2, <1>4 DEF TopicInv, TopicsKeepApart
<1>m. \A f \in Frames : where[f.post] # Unbound => waiting[f.post] \subseteq waiting'[f.post]
  BY <1>4 DEF Frames
<1>8. Addressed(outcome)'
  <2>1. outcome \subseteq Frames /\ Addressed(outcome)
    BY <1>1 DEF RoutingTypeOK, TopicInv
  <2>2. QED BY <1>2, <1>m, <2>1 DEF Addressed
<1>9. ASSUME NEW b \in Agents PROVE Addressed(frames[b])'
  <2>1. frames[b] \subseteq Frames /\ Addressed(frames[b])
    BY <1>1 DEF RoutingTypeOK, TopicInv
  <2>2. QED BY <1>2, <1>m, <2>1 DEF Addressed
<1>10. QED BY <1>2, <1>4, <1>6, <1>7, <1>8, <1>9 DEF TopicInv

LEMMA StepTopics == TopicInv /\ [RoutingNext]_routingVars => TopicInv'
<1> SUFFICES ASSUME TopicInv, [RoutingNext]_routingVars PROVE TopicInv'
  OBVIOUS
<1>0. RoutingTypeOK
  BY DEF TopicInv
<1>1. ASSUME NEW us \in Batches, HandlePost(us) PROVE TopicInv'
  BY <1>1, StepBatch
<1>2. ASSUME NEW f \in outcome, Broadcast(f) PROVE TopicInv'
  <2>1. RoutingTypeOK'
    BY <1>0, <1>2 DEF Broadcast, RoutingTypeOK, registry
  <2>2. QED BY <1>0, <1>2, <2>1, RecordStays DEF Broadcast, RoutingTypeOK, registry
<1>3. ASSUME NEW a \in Agents, Listen(a) PROVE TopicInv'
  <2>1. RoutingTypeOK'
    BY <1>0, <1>3 DEF Listen, RoutingTypeOK, registry
  <2>2. QED BY <1>0, <1>3, <2>1, RecordStays DEF Listen, RoutingTypeOK, registry
<1>4. ASSUME NEW a \in Agents, NEW f \in frames[a], ReadLive(a, f) PROVE TopicInv'
  <2>1. /\ f \in Frames /\ where[f.post] # Unbound /\ (f.to = a => a \in waiting[f.post])
        /\ frames' = [frames EXCEPT ![a] = @ \ {f}]
        /\ Typed(a, IF f.to = a THEN {f.post} ELSE {})
        /\ UNCHANGED <<online, registry, kept, where, outcome, listens, backlog, waiting, drops>>
    BY <1>0, <1>4 DEF ReadLive, TopicInv, Addressed, RoutingTypeOK
  <2>2. /\ readBy' \in [Posts -> SUBSET Agents]
        /\ \A p \in Posts : \A b \in readBy'[p] : b \in readBy[p] \/ (b = a /\ f.to = a /\ p = f.post)
    BY <1>0, <2>1, TypedIs
  <2>3. RoutingTypeOK'
    BY <1>0, <2>1, <2>2 DEF RoutingTypeOK, registry
  <2>4. \A b \in Agents : frames'[b] \subseteq frames[b]
    BY <1>0, <2>1 DEF RoutingTypeOK
  <2>5. QED BY <1>0, <2>1, <2>2, <2>3, <2>4, RecordStays DEF registry
<1>5. ASSUME NEW a \in Agents, NEW more \in BOOLEAN, ReadBacklog(a, more) PROVE TopicInv'
  <2>1. /\ backlog' = [backlog EXCEPT ![a] = {}]
        /\ Typed(a, IF more THEN {} ELSE {p \in backlog[a] : Ours(a, p)})
        /\ UNCHANGED <<online, registry, kept, where, outcome, listens, frames, waiting, drops>>
    BY <1>5 DEF ReadBacklog
  <2>2. /\ readBy' \in [Posts -> SUBSET Agents]
        /\ \A p \in Posts : \A b \in readBy'[p] :
              b \in readBy[p] \/ (b = a /\ p \in backlog[a] /\ Ours(a, p))
    BY <1>0, <2>1, TypedIs
  <2>3. ASSUME NEW p \in backlog[a], Ours(a, p)
        PROVE  where[p] # Unbound /\ (where[p] = General \/ a \in waiting[p])
    <3>1. p \in Posts /\ where[p] # Unbound
      BY <1>0, <2>3 DEF TopicInv, RoutingTypeOK
    <3>2. live \in SUBSET Agents
      BY <1>0 DEF RoutingTypeOK
    <3>3. where[p] = General \/ a \in HoldersIn(live, key, where[p])
      BY <2>3, <3>2, RoutedIs DEF Ours
    <3>4. QED BY <3>1, <3>3 DEF TopicInv
  <2>4. RoutingTypeOK'
    BY <1>0, <2>1, <2>2 DEF RoutingTypeOK, registry
  <2>5. \A b \in Agents : backlog'[b] \subseteq backlog[b]
    BY <1>0, <2>1 DEF RoutingTypeOK
  <2>6. QED BY <1>0, <2>1, <2>2, <2>3, <2>4, <2>5, RecordStays DEF registry
<1>6. ASSUME NEW a \in Agents, Drop(a) PROVE TopicInv'
  <2>1. RoutingTypeOK'
    BY <1>0, <1>6, RoutingAssumption DEF Drop, RoutingTypeOK
  <2>2. QED BY <1>0, <1>6, <2>1, RecordStays DEF Drop, RoutingTypeOK
<1>7. ASSUME NEW a \in Agents, Return(a) PROVE TopicInv'
  BY <1>7, StepReturn
<1>8. CASE UNCHANGED routingVars
  <2>1. RoutingTypeOK'
    BY <1>0, <1>8 DEF routingVars, registry, feed, RoutingTypeOK
  <2>2. QED BY <1>0, <1>8, <2>1, RecordStays DEF routingVars, registry, feed
<1>9. QED BY <1>1, <1>2, <1>3, <1>4, <1>5, <1>6, <1>7, <1>8 DEF RoutingNext

-----------------------------------------------------------------------------
(* Questions with buttons.  What a tap makes of the choice S of a question *)
(* when it is handled, and the taps that settle it.                        *)
Handled(a, S, o) ==
    IF a \notin Multi THEN {o} ELSE IF o = Done THEN S ELSE Flip(S, o)

Settles(a, t) == t.ask = a /\ (a \notin Multi \/ t.on = Done)

SettledBy(a, i) == \E j \in 1..i : Settles(a, taps[j])

(* The taps under way lead from what is chosen to what is meant: h is the  *)
(* choice after the first i of them, and stays when one has settled it.    *)
LeadsTo(a, h) ==
    /\ h \in [0..Len(taps) -> SUBSET Options]
    /\ h[0] = chosen[a] /\ h[Len(taps)] = meant[a]
    /\ \A i \in 1..Len(taps) :
          h[i] = IF taps[i].ask # a \/ SettledBy(a, i - 1) THEN h[i - 1]
                 ELSE Handled(a, h[i - 1], taps[i].on)
    /\ \A i \in 0..Len(taps) : SettledBy(a, i) => h[i] = meant[a]

AskInv ==
    /\ AsksTypeOK /\ AsksSafe
    /\ \A i \in 1..Len(taps) : taps[i].on = Done => taps[i].ask \in Multi
    /\ \A a \in Asked : asking[a] \in {"idle", "waiting", "acked"} => a \notin pending /\ answers[a] = <<>>
    /\ \A a \in Asked : asking[a] = "acked" => a \in keyboard
    /\ \A a \in pending : answers[a] = <<>>
    /\ \A a \in Asked \ missed :
          answers[a] = <<>> => \E h \in [0..Len(taps) -> SUBSET Options] : LeadsTo(a, h)

LEMMA InitAsks == AsksInit => AskInv
<1> SUFFICES ASSUME AsksInit PROVE AskInv
  OBVIOUS
<1>1. AsksTypeOK
  BY DEF AsksInit, AsksTypeOK, NoChoice
<1>2. AsksSafe
  BY DEF AsksInit, AsksSafe, AnsweredOnce, AnswerIsMeant, NoOrphanAsk
<1>3. ASSUME NEW a \in Asked PROVE \E h \in [0..Len(taps) -> SUBSET Options] : LeadsTo(a, h)
  <2>1. LeadsTo(a, [i \in 0..0 |-> {}])
    BY DEF AsksInit, LeadsTo, SettledBy, NoChoice
  <2>2. QED BY <2>1 DEF LeadsTo
<1>4. QED BY <1>1, <1>2, <1>3 DEF AskInv, AsksInit

(* A step that leaves the taps and this question's choice as they are.     *)
LEMMA SamePath ==
  ASSUME UNCHANGED <<taps, meant>>, NEW a \in Asked, chosen'[a] = chosen[a],
         \E h \in [0..Len(taps) -> SUBSET Options] : LeadsTo(a, h)
  PROVE  \E h \in [0..Len(taps') -> SUBSET Options] : LeadsTo(a, h)'
BY DEF LeadsTo, SettledBy, Settles

(* What the first tap under way is and what it leads to.                   *)
LEMMA FirstTap ==
  ASSUME AskInv, taps # <<>>
  PROVE  /\ Head(taps) \in Tapped /\ Tail(taps) \in Seq(Tapped)
         /\ Head(taps).on = Done => Head(taps).ask \in Multi
         /\ \A i \in 1..Len(Tail(taps)) : Tail(taps)[i].on = Done => Tail(taps)[i].ask \in Multi
<1>1. /\ taps \in Seq(Tapped) /\ Head(taps) = taps[1] /\ 1 \in 1..Len(taps)
      /\ Tail(taps) \in Seq(Tapped) /\ Head(taps) \in Tapped
      /\ \A i \in 1..Len(Tail(taps)) : Tail(taps)[i] = taps[i + 1] /\ i + 1 \in 1..Len(taps)
  BY DEF AskInv, AsksTypeOK
<1>2. QED BY <1>1 DEF AskInv

LEMMA FirstOfPath ==
  ASSUME AskInv, taps # <<>>, NEW a \in Asked, NEW h, LeadsTo(a, h)
  PROVE  /\ h[0] = chosen[a]
         /\ h[1] = IF Head(taps).ask # a THEN h[0] ELSE Handled(a, h[0], Head(taps).on)
         /\ Settles(a, Head(taps)) => h[1] = meant[a]
<1>1. /\ taps \in Seq(Tapped) /\ Head(taps) = taps[1] /\ 1 \in 1..Len(taps) /\ 1 - 1 = 0
      /\ 1 \in 0..Len(taps)
  BY DEF AskInv, AsksTypeOK
<1>2. ~SettledBy(a, 0)
  BY DEF SettledBy
<1>3. Settles(a, taps[1]) => SettledBy(a, 1)
  BY DEF SettledBy
<1>4. QED BY <1>1, <1>2, <1>3 DEF LeadsTo

(* A tap more.                                                             *)
LEMMA TapPath ==
  ASSUME AskInv, NEW b \in Asked, NEW o \in Options \cup {Done}, Tap(b, o),
         NEW a \in Asked, answers[a] = <<>>, NEW h, LeadsTo(a, h)
  PROVE  \E g \in [0..Len(taps') -> SUBSET Options] : LeadsTo(a, g)'
<1>n. PICK n : n = Len(taps)
  OBVIOUS
<1>t. PICK t : t = [ask |-> b, on |-> o]
  OBVIOUS
<1>g. PICK g : g = [i \in 0..n + 1 |-> IF i <= n THEN h[i] ELSE meant'[a]]
  OBVIOUS
<1>1. /\ taps \in Seq(Tapped) /\ n \in Nat /\ taps' = Append(taps, t) /\ Len(taps') = n + 1
      /\ t \in Tapped /\ taps' \in Seq(Tapped)
  BY <1>n, <1>t DEF AskInv, AsksTypeOK, Tap, Tapped
<1>2. \A i \in 1..n : taps'[i] = taps[i]
  BY <1>1
<1>3. taps'[n + 1] = t
  BY <1>1
<1>4. /\ chosen' = chosen
      /\ meant' \in [Asked -> SUBSET Options] /\ meant \in [Asked -> SUBSET Options]
      /\ a # b => meant'[a] = meant[a]
      /\ (b \notin Multi => o # Done)
  BY DEF Tap, table, AskInv, AsksTypeOK, Flip
<1>5. \A i \in 0..n : SettledBy(a, i)' <=> SettledBy(a, i)
  BY <1>1, <1>2 DEF SettledBy, Settles
<1>6. SettledBy(a, n + 1)' <=> SettledBy(a, n) \/ (a = b /\ (a \notin Multi \/ o = Done))
  <2>1. SettledBy(a, n + 1)' <=> \E j \in 1..n + 1 : Settles(a, taps'[j])
    BY DEF SettledBy, Settles
  <2>2. \A j \in 1..n + 1 : j \in 1..n \/ j = n + 1
    BY <1>1
  <2>3. \A j \in 1..n : j \in 1..n + 1 /\ taps'[j] = taps[j]
    BY <1>1, <1>2
  <2>4. n + 1 \in 1..n + 1 /\ (Settles(a, taps'[n + 1]) <=> a = b /\ (a \notin Multi \/ o = Done))
    BY <1>1, <1>3, <1>t DEF Settles
  <2>5. SettledBy(a, n) <=> \E j \in 1..n : Settles(a, taps[j])
    BY DEF SettledBy
  <2>6. QED BY <2>1, <2>2, <2>3, <2>4, <2>5
<1>7. meant'[a] = IF a # b \/ SettledBy(a, n) THEN meant[a] ELSE Handled(a, meant[a], o)
  <2>1. CASE a # b
    BY <1>4, <2>1
  <2>2. CASE a = b /\ SettledBy(a, n)
    <3>1. \E i \in 1..Len(taps) : taps[i].ask = a /\ (a \notin Multi \/ taps[i].on = Done)
      BY <2>2, <1>n DEF SettledBy, Settles
    <3>2. meant'[a] = meant[a]
      BY <3>1, <2>2, <1>4 DEF Tap, AskInv, AsksTypeOK
    <3>3. QED BY <3>2, <2>2
  <2>3. CASE a = b /\ ~SettledBy(a, n)
    <3>1. ~\E i \in 1..Len(taps) : taps[i].ask = a /\ (a \notin Multi \/ taps[i].on = Done)
      BY <2>3, <1>n DEF SettledBy, Settles
    <3>2. CASE a \in Multi
      BY <2>3, <3>1, <3>2, <1>4 DEF Tap, AskInv, AsksTypeOK, Handled
    <3>3. CASE a \notin Multi
      BY <2>3, <3>1, <3>3, <1>4 DEF Tap, AskInv, AsksTypeOK, Handled
    <3>4. QED BY <3>2, <3>3
  <2>4. QED BY <2>1, <2>2, <2>3
<1>8. /\ h \in [0..n -> SUBSET Options] /\ h[0] = chosen[a] /\ h[n] = meant[a]
      /\ \A i \in 0..n : SettledBy(a, i) => h[i] = meant[a]
      /\ \A i \in 1..n :
            h[i] = IF taps[i].ask # a \/ SettledBy(a, i - 1) THEN h[i - 1]
                   ELSE Handled(a, h[i - 1], taps[i].on)
  BY <1>n DEF LeadsTo
<1>9. /\ g \in [0..n + 1 -> SUBSET Options] /\ g[0] = chosen'[a] /\ g[n + 1] = meant'[a]
      /\ \A i \in 0..n : g[i] = h[i]
  <2>1. 0 \in 0..n /\ n \in 0..n /\ n + 1 \in 0..n + 1 /\ ~(n + 1 <= n)
    BY <1>1
  <2>2. \A i \in 0..n : i \in 0..n + 1 /\ g[i] = h[i]
    BY <1>1, <1>g
  <2>3. g[n + 1] = meant'[a]
    BY <2>1, <1>g
  <2>4. \A i \in 0..n + 1 : i \in 0..n \/ i = n + 1
    BY <1>1
  <2>5. ASSUME NEW i \in 0..n + 1
        PROVE  (IF i <= n THEN h[i] ELSE meant'[a]) \in SUBSET Options
    <3>1. i \in 0..n => h[i] \in SUBSET Options
      BY <1>8
    <3>2. meant'[a] \in SUBSET Options
      BY <1>4
    <3>3. QED BY <3>1, <3>2, <2>1, <2>4
  <2>6. g \in [0..n + 1 -> SUBSET Options]
    BY <2>5, <1>g
  <2>7. g[0] = chosen'[a]
    BY <2>1, <2>2, <1>4, <1>8
  <2>8. QED BY <2>2, <2>3, <2>6, <2>7
<1>10. \A i \in 1..n + 1 :
          g[i] = IF taps'[i].ask # a \/ SettledBy(a, i - 1)' THEN g[i - 1]
                 ELSE Handled(a, g[i - 1], taps'[i].on)
  <2> TAKE i \in 1..n + 1
  <2>1. CASE i \in 1..n
    <3>1. i - 1 \in 0..n /\ i \in 0..n
      BY <2>1, <1>1
    <3>2. g[i] = h[i] /\ g[i - 1] = h[i - 1] /\ taps'[i] = taps[i]
          /\ (SettledBy(a, i - 1)' <=> SettledBy(a, i - 1))
      BY <2>1, <3>1, <1>2, <1>5, <1>9
    <3>3. QED BY <2>1, <3>2, <1>8
  <2>2. CASE i = n + 1
    <3>1. i - 1 = n /\ n \in 0..n
      BY <2>2, <1>1
    <3>2. g[i] = meant'[a] /\ g[i - 1] = meant[a] /\ taps'[i] = t
          /\ (SettledBy(a, i - 1)' <=> SettledBy(a, n))
      BY <2>2, <3>1, <1>3, <1>5, <1>8, <1>9
    <3>3. t.ask = b /\ t.on = o
      BY <1>t
    <3>4. QED BY <3>2, <3>3, <1>7
  <2>3. QED BY <2>1, <2>2, <1>1
<1>11. \A i \in 0..n + 1 : SettledBy(a, i)' => g[i] = meant'[a]
  <2> SUFFICES ASSUME NEW i \in 0..n, SettledBy(a, i)' PROVE g[i] = meant'[a]
    BY <1>1, <1>9
  <2>1. SettledBy(a, i) /\ SettledBy(a, n)
    BY <1>1, <1>5 DEF SettledBy
  <2>2. g[i] = meant[a] /\ meant'[a] = meant[a]
    BY <2>1, <1>7, <1>8, <1>9
  <2>3. QED BY <2>2
<1>12. LeadsTo(a, g)'
  BY <1>1, <1>9, <1>10, <1>11 DEF LeadsTo
<1>13. QED BY <1>1, <1>9, <1>12

(* The first tap is handled: what is chosen by then is the path's next.    *)
LEMMA HandledPath ==
  ASSUME AskInv, taps # <<>>, taps' = Tail(taps), UNCHANGED meant,
         NEW a \in Asked, NEW h, LeadsTo(a, h), chosen'[a] = h[1],
         ~Settles(a, Head(taps))
  PROVE  \E g \in [0..Len(taps') -> SUBSET Options] : LeadsTo(a, g)'
<1>n. PICK n : n = Len(taps')
  OBVIOUS
<1>g. PICK g : g = [i \in 0..n |-> h[i + 1]]
  OBVIOUS
<1>1. /\ taps \in Seq(Tapped) /\ n \in Nat /\ Len(taps) = n + 1 /\ taps' \in Seq(Tapped)
      /\ \A i \in 1..n : taps'[i] = taps[i + 1]
      /\ Head(taps) = taps[1]
  BY <1>n DEF AskInv, AsksTypeOK
<1>2. /\ h \in [0..n + 1 -> SUBSET Options] /\ h[n + 1] = meant[a]
      /\ \A i \in 0..n + 1 : SettledBy(a, i) => h[i] = meant[a]
      /\ \A i \in 1..n + 1 :
            h[i] = IF taps[i].ask # a \/ SettledBy(a, i - 1) THEN h[i - 1]
                   ELSE Handled(a, h[i - 1], taps[i].on)
  BY <1>1 DEF LeadsTo
<1>3. \A i \in 0..n : i + 1 \in 0..n + 1 /\ g[i] = h[i + 1]
  BY <1>1, <1>g
<1>4. g \in [0..n -> SUBSET Options]
  BY <1>2, <1>3, <1>g
<1>5. \A i \in 0..n : SettledBy(a, i)' <=> SettledBy(a, i + 1)
  <2> TAKE i \in 0..n
  <2>1. ASSUME NEW j \in 1..i, Settles(a, taps'[j]) PROVE SettledBy(a, i + 1)
    <3>1. j \in 1..n /\ j + 1 \in 1..i + 1
      BY <1>1
    <3>2. Settles(a, taps[j + 1])
      BY <2>1, <3>1, <1>1
    <3>3. QED BY <3>1, <3>2 DEF SettledBy
  <2>2. ASSUME NEW j \in 1..i + 1, Settles(a, taps[j]) PROVE \E k \in 1..i : Settles(a, taps'[k])
    <3>1. j # 1
      BY <2>2, <1>1
    <3>2. j - 1 \in 1..i /\ j - 1 \in 1..n /\ (j - 1) + 1 = j
      BY <3>1, <1>1
    <3>3. taps'[j - 1] = taps[j]
      BY <3>2, <1>1
    <3>4. QED BY <2>2, <3>2, <3>3
  <2>3. (SettledBy(a, i))' <=> \E j \in 1..i : Settles(a, taps'[j])
    BY DEF SettledBy, Settles
  <2>4. QED BY <2>1, <2>2, <2>3 DEF SettledBy
<1>6. \A i \in 1..n :
          g[i] = IF taps'[i].ask # a \/ SettledBy(a, i - 1)' THEN g[i - 1]
                 ELSE Handled(a, g[i - 1], taps'[i].on)
  <2> TAKE i \in 1..n
  <2>1. i \in 0..n /\ i - 1 \in 0..n /\ (i - 1) + 1 = i /\ i + 1 \in 1..n + 1 /\ (i + 1) - 1 = i
    BY <1>1
  <2>2. g[i] = h[i + 1] /\ g[i - 1] = h[i] /\ taps'[i] = taps[i + 1]
        /\ (SettledBy(a, i - 1)' <=> SettledBy(a, i))
    BY <2>1, <1>1, <1>3, <1>5
  <2>3. QED BY <2>1, <2>2, <1>2
<1>7. \A i \in 0..n : SettledBy(a, i)' => g[i] = meant'[a]
  BY <1>2, <1>3, <1>5
<1>8. g[0] = chosen'[a] /\ g[n] = meant'[a]
  <2>1. 0 \in 0..n /\ n \in 0..n /\ 0 + 1 = 1
    BY <1>1
  <2>2. QED BY <2>1, <1>2, <1>3
<1>9. LeadsTo(a, g)'
  BY <1>n, <1>4, <1>6, <1>7, <1>8 DEF LeadsTo
<1>10. QED BY <1>n, <1>4, <1>9

(* An answer to a question that had none is its one answer.                *)
LEMMA AnswerIs ==
  ASSUME AsksTypeOK, NEW a \in Asked, NEW S \in SUBSET Options, answers[a] = <<>>, Answer(a, S)
  PROVE  /\ answers' \in [Asked -> Seq(SUBSET Options)] /\ pending' = pending \ {a}
         /\ answers'[a] # <<>> /\ Len(answers'[a]) = 1 /\ answers'[a][1] = S
         /\ \A b \in Asked : b # a => answers'[b] = answers[b]
<1>1. /\ Append(answers[a], S) \in Seq(SUBSET Options) /\ Append(answers[a], S) # <<>>
      /\ Len(Append(answers[a], S)) = 1 /\ Append(answers[a], S)[1] = S
  BY DEF AsksTypeOK
<1>2. QED BY <1>1 DEF Answer, AsksTypeOK

LEMMA StepProcess == AskInv /\ Process => AskInv'
<1> SUFFICES ASSUME AskInv, Process PROVE AskInv'
  OBVIOUS
<1>1. PICK b \in Asked, o \in Options \cup {Done} :
         Head(taps).ask = b /\ Head(taps).on = o /\ Head(taps) = [ask |-> b, on |-> o]
  BY FirstTap DEF Process, Tapped
<1>2. /\ taps # <<>> /\ taps' = Tail(taps) /\ UNCHANGED <<asking, keyboard, expired, meant>>
      /\ \/ /\ b \notin pending /\ missed' = missed \cup {b}
            /\ UNCHANGED <<pending, chosen, marked, answers>>
         \/ /\ b \in pending /\ b \notin Multi /\ Answer(b, {o})
            /\ UNCHANGED <<chosen, marked, missed>>
         \/ /\ b \in pending \cap Multi /\ o = Done /\ Answer(b, chosen[b])
            /\ UNCHANGED <<chosen, marked, missed>>
         \/ /\ b \in pending \cap Multi /\ o # Done /\ Toggle(b, o)
            /\ UNCHANGED <<pending, answers, missed>>
  BY <1>1 DEF Process
<1>3. AsksTypeOK /\ (b \in pending => answers[b] = <<>>) /\ (o = Done => b \in Multi)
  BY <1>1, <1>2, FirstTap DEF AskInv
<1>t. /\ taps' \in Seq(Tapped)
      /\ \A i \in 1..Len(taps') : taps'[i].on = Done => taps'[i].ask \in Multi
  BY <1>2, FirstTap
<1>o. ASSUME NEW a \in Asked \ missed, answers[a] = <<>>, chosen'[a] = chosen[a], a # b
      PROVE  \E g \in [0..Len(taps') -> SUBSET Options] : LeadsTo(a, g)'
  <2>1. PICK h : LeadsTo(a, h)
    BY <1>o DEF AskInv
  <2>2. h[1] = chosen[a] /\ ~Settles(a, Head(taps))
    BY <1>1, <1>2, <1>o, <2>1, FirstOfPath DEF Settles
  <2>3. QED BY <1>2, <1>o, <2>1, <2>2, HandledPath
<1>4. CASE b \notin pending
  <2>1. missed' = missed \cup {b} /\ UNCHANGED <<pending, chosen, marked, answers>>
    BY <1>2, <1>4
  <2>2. AsksTypeOK' /\ AsksSafe'
    BY <1>2, <1>3, <1>t, <2>1
       DEF AsksTypeOK, AskInv, AsksSafe, AnsweredOnce, AnswerIsMeant, NoOrphanAsk
  <2>3. \A a \in Asked \ missed' :
           answers'[a] = <<>> => \E g \in [0..Len(taps') -> SUBSET Options] : LeadsTo(a, g)'
    BY <1>o, <2>1
  <2>4. QED BY <1>2, <1>t, <2>1, <2>2, <2>3 DEF AskInv
<1>5. ASSUME NEW S \in SUBSET Options, b \in pending, Answer(b, S), UNCHANGED <<chosen, marked, missed>>,
             b \notin missed => S = meant[b]
      PROVE  AskInv'
  <2>1. /\ answers' \in [Asked -> Seq(SUBSET Options)] /\ pending' = pending \ {b}
        /\ answers'[b] # <<>> /\ Len(answers'[b]) = 1 /\ answers'[b][1] = S
        /\ \A a \in Asked : a # b => answers'[a] = answers[a]
    BY <1>3, <1>5, AnswerIs
  <2>2. AsksTypeOK'
    BY <1>2, <1>3, <1>5, <1>t, <2>1 DEF AsksTypeOK
  <2>3. AsksSafe'
    <3>1. AnsweredOnce'
      <4>1. \A a \in Asked : Len(answers[a]) <= 1
        BY DEF AskInv, AsksSafe, AnsweredOnce
      <4>2. ASSUME NEW a \in Asked PROVE Len(answers'[a]) <= 1
        <5>1. CASE a = b
          <6>1. Len(answers'[a]) = 1
            BY <2>1, <5>1
          <6>2. QED BY <6>1
        <5>2. CASE a # b BY <2>1, <4>1, <5>2
        <5>3. QED BY <5>1, <5>2
      <4>3. QED BY <4>2 DEF AnsweredOnce
    <3>2. ASSUME NEW a \in Asked \ missed', answers'[a] # <<>> PROVE answers'[a][1] = meant'[a]
      BY <1>2, <1>5, <2>1, <3>2 DEF AskInv, AsksSafe, AnswerIsMeant
    <3>3. AnswerIsMeant'
      BY <3>2 DEF AnswerIsMeant
    <3>4. NoOrphanAsk'
      BY <1>2, <2>1 DEF AskInv, AsksSafe, NoOrphanAsk
    <3>5. QED BY <3>1, <3>3, <3>4 DEF AsksSafe
  <2>4. \A a \in Asked \ missed' :
           answers'[a] = <<>> => \E g \in [0..Len(taps') -> SUBSET Options] : LeadsTo(a, g)'
    BY <1>o, <1>5, <2>1
  <2>5. /\ \A a \in Asked : asking'[a] \in {"idle", "waiting", "acked"} => a \notin pending' /\ answers'[a] = <<>>
        /\ \A a \in Asked : asking'[a] = "acked" => a \in keyboard'
        /\ \A a \in pending' : answers'[a] = <<>>
    BY <1>2, <1>3, <1>5, <2>1 DEF AskInv, AsksTypeOK
  <2>6. QED BY <1>t, <2>2, <2>3, <2>4, <2>5 DEF AskInv
<1>p. ASSUME b \in pending, b \notin missed
      PROVE  \E h : LeadsTo(b, h)
  BY <1>3, <1>p DEF AskInv
<1>6. CASE b \in pending /\ b \notin Multi
  <2>1. Answer(b, {o}) /\ UNCHANGED <<chosen, marked, missed>> /\ o \in Options
    BY <1>2, <1>3, <1>6
  <2>2. b \notin missed => {o} = meant[b]
    BY <1>1, <1>2, <1>6, <1>p, FirstOfPath DEF Handled, Settles
  <2>3. QED BY <1>5, <1>6, <2>1, <2>2
<1>7. CASE b \in pending \cap Multi /\ o = Done
  <2>1. Answer(b, chosen[b]) /\ UNCHANGED <<chosen, marked, missed>> /\ chosen[b] \in SUBSET Options
    BY <1>2, <1>3, <1>7 DEF AsksTypeOK
  <2>2. b \notin missed => chosen[b] = meant[b]
    BY <1>1, <1>2, <1>7, <1>p, FirstOfPath DEF Handled, Settles
  <2>3. QED BY <1>5, <1>7, <2>1, <2>2
<1>8. CASE b \in pending \cap Multi /\ o # Done
  <2>1. Toggle(b, o) /\ UNCHANGED <<pending, answers, missed>> /\ o \in Options
    BY <1>2, <1>8
  <2>2. /\ chosen' \in [Asked -> SUBSET Options] /\ marked' \in [Asked -> SUBSET Options]
        /\ chosen'[b] = Flip(chosen[b], o)
        /\ \A a \in Asked : a # b => chosen'[a] = chosen[a]
    <3>1. Flip(chosen[b], o) \in SUBSET Options
      BY <1>3, <2>1 DEF AsksTypeOK, Flip
    <3>2. chosen' = [chosen EXCEPT ![b] = Flip(chosen[b], o)]
      BY <2>1 DEF Toggle
    <3>3. chosen' \in [Asked -> SUBSET Options] /\ chosen'[b] = Flip(chosen[b], o)
          /\ \A a \in Asked : a # b => chosen'[a] = chosen[a]
      BY <1>3, <3>1, <3>2 DEF AsksTypeOK
    <3>4. marked' = [marked EXCEPT ![b] = chosen'[b]] \/ marked' = marked
      BY <2>1 DEF Toggle
    <3>5. QED BY <1>3, <3>1, <3>3, <3>4 DEF AsksTypeOK
  <2>3. AsksTypeOK' /\ AsksSafe'
    BY <1>2, <1>3, <1>t, <2>1, <2>2
       DEF AsksTypeOK, AskInv, AsksSafe, AnsweredOnce, AnswerIsMeant, NoOrphanAsk
  <2>4. b \notin missed => \E g \in [0..Len(taps') -> SUBSET Options] : LeadsTo(b, g)'
    <3> SUFFICES ASSUME b \notin missed
                 PROVE  \E g \in [0..Len(taps') -> SUBSET Options] : LeadsTo(b, g)'
      OBVIOUS
    <3>1. PICK h : LeadsTo(b, h)
      BY <1>8, <1>p
    <3>2. h[1] = chosen'[b] /\ ~Settles(b, Head(taps))
      BY <1>1, <1>2, <1>8, <2>2, <3>1, FirstOfPath DEF Handled, Settles
    <3>3. QED BY <1>2, <3>1, <3>2, HandledPath
  <2>5. \A a \in Asked \ missed' :
           answers'[a] = <<>> => \E g \in [0..Len(taps') -> SUBSET Options] : LeadsTo(a, g)'
    BY <1>o, <2>1, <2>2, <2>4
  <2>6. QED BY <1>2, <1>t, <2>1, <2>3, <2>5 DEF AskInv
<1>9. QED BY <1>4, <1>6, <1>7, <1>8

LEMMA StepAsks == AskInv /\ [AsksNext]_askVars => AskInv'
<1> SUFFICES ASSUME AskInv, [AsksNext]_askVars PROVE AskInv'
  OBVIOUS
<1>0. AsksTypeOK
  BY DEF AskInv
<1>p. ASSUME UNCHANGED <<taps, meant, chosen, answers, missed>>
      PROVE  \A a \in Asked \ missed' :
                answers'[a] = <<>> => \E g \in [0..Len(taps') -> SUBSET Options] : LeadsTo(a, g)'
  BY <1>p, SamePath DEF AskInv
<1> USE DEF AsksSafe, AnsweredOnce, AnswerIsMeant, NoOrphanAsk, table
<1>1. ASSUME NEW a \in Asked, Ask(a) PROVE AskInv'
  BY <1>0, <1>1, <1>p DEF Ask, AsksTypeOK, AskInv
<1>2. ASSUME NEW a \in Asked, Show(a) PROVE AskInv'
  BY <1>0, <1>2, <1>p DEF Show, AsksTypeOK, AskInv
<1>3. ASSUME NEW a \in Asked, ShowFails(a) PROVE AskInv'
  BY <1>0, <1>3, <1>p DEF ShowFails, AsksTypeOK, AskInv
<1>4. ASSUME NEW a \in Asked, Record(a) PROVE AskInv'
  BY <1>0, <1>4, <1>p DEF Record, AsksTypeOK, AskInv
<1>5. ASSUME NEW a \in Asked, Abandon(a) PROVE AskInv'
  BY <1>0, <1>5, <1>p DEF Abandon, AsksTypeOK, AskInv
<1>6. ASSUME NEW a \in Asked, Expire(a) PROVE AskInv'
  BY <1>0, <1>6, <1>p DEF Expire, AsksTypeOK, AskInv
<1>7. CASE Collect
  BY <1>0, <1>7, <1>p DEF Collect, AsksTypeOK, AskInv
<1>8. ASSUME NEW a \in Asked, NEW o \in Options \cup {Done}, Tap(a, o) PROVE AskInv'
  <2>1. /\ taps' = Append(taps, [ask |-> a, on |-> o]) /\ (a \notin Multi => o # Done)
        /\ UNCHANGED <<asking, keyboard, marked, pending, expired, chosen, answers, missed>>
    BY <1>8 DEF Tap
  <2>2. /\ taps' \in Seq(Tapped)
        /\ \A i \in 1..Len(taps') : taps'[i].on = Done => taps'[i].ask \in Multi
    <3>1. taps \in Seq(Tapped) /\ [ask |-> a, on |-> o] \in Tapped
      BY <1>0 DEF AsksTypeOK, Tapped
    <3>2. PICK t : t = [ask |-> a, on |-> o]
      OBVIOUS
    <3>3. /\ taps' \in Seq(Tapped) /\ Len(taps') = Len(taps) + 1 /\ Len(taps) \in Nat
          /\ \A i \in 1..Len(taps) : taps'[i] = taps[i]
          /\ taps'[Len(taps) + 1] = t
      BY <2>1, <3>1, <3>2
    <3>4. \A i \in 1..Len(taps') : i \in 1..Len(taps) \/ i = Len(taps) + 1
      BY <3>3
    <3>5. t.on = Done => t.ask \in Multi
      BY <2>1, <3>2
    <3>6. QED BY <3>3, <3>4, <3>5 DEF AskInv
  <2>3. /\ meant' \in [Asked -> SUBSET Options]
        /\ \A b \in Asked : answers[b] # <<>> => meant'[b] = meant[b]
    BY <1>0, <1>8, <2>1 DEF Tap, AsksTypeOK, Flip
  <2>4. AsksTypeOK' /\ AsksSafe'
    BY <1>0, <2>1, <2>2, <2>3 DEF AsksTypeOK, AskInv
  <2>5. \A b \in Asked \ missed' :
           answers'[b] = <<>> => \E g \in [0..Len(taps') -> SUBSET Options] : LeadsTo(b, g)'
    BY <1>8, <2>1, TapPath DEF AskInv
  <2>6. QED BY <2>1, <2>2, <2>4, <2>5 DEF AskInv
<1>9. CASE LoseTap
  <2>1. /\ taps # <<>> /\ taps' = Tail(taps) /\ missed' = missed \cup {Head(taps).ask}
        /\ UNCHANGED <<asking, keyboard, marked, pending, expired, chosen, answers, meant>>
    BY <1>9 DEF LoseTap
  <2>2. /\ taps' \in Seq(Tapped) /\ Head(taps).ask \in Asked
        /\ \A i \in 1..Len(taps') : taps'[i].on = Done => taps'[i].ask \in Multi
    BY <2>1, FirstTap DEF Tapped
  <2>3. AsksTypeOK' /\ AsksSafe'
    BY <1>0, <2>1, <2>2 DEF AsksTypeOK, AskInv
  <2>4. ASSUME NEW a \in Asked \ missed', answers[a] = <<>>
        PROVE  \E g \in [0..Len(taps') -> SUBSET Options] : LeadsTo(a, g)'
    <3>1. PICK h : LeadsTo(a, h)
      BY <2>1, <2>4 DEF AskInv
    <3>2. h[1] = chosen[a] /\ ~Settles(a, Head(taps))
      BY <2>1, <3>1, FirstOfPath DEF Settles
    <3>3. QED BY <2>1, <3>1, <3>2, HandledPath
  <2>5. QED BY <2>1, <2>2, <2>3, <2>4 DEF AskInv
<1>10. CASE UNCHANGED askVars
  BY <1>0, <1>10, <1>p DEF askVars, AsksTypeOK, AskInv
<1>11. QED
  BY <1>1, <1>2, <1>3, <1>4, <1>5, <1>6, <1>7, <1>8, <1>9, <1>10, StepProcess DEF AsksNext

-----------------------------------------------------------------------------
(* Pairing.  What a save that failed and a command with an older copy of   *)
(* the file may have cost of a code's count by now.                        *)
Again == MaxReplies - 1
Writes == IF command.at = "read" THEN commands - 1 ELSE commands
Lost == (misses + Writes) * Again

(* A copy of the file has one request with a code, and none with a code    *)
(* that was not made yet.                                                  *)
OfItsOwn(f) ==
    /\ f \in Contents
    /\ \A r \in f.pending : r.code < fresh
    /\ \A r, q \in f.pending : r.code = q.code => r = q

(* A code has been told no oftener than is counted with it and was lost;   *)
(* the loop's copy counts what it is about to say as well.                 *)
Counted ==
    /\ \A r \in file.pending :
          told[r.code] + (IF step = "reply" THEN saying[r.code] ELSE 0) <= r.replies + Lost
    /\ step # "load" => \A r \in copy.pending : told[r.code] + saying[r.code] <= r.replies + Lost
    /\ \A c \in Codes : told[c] + saying[c] <= MaxReplies + Lost

(* What is to be said is in the loop's copy, and on disk before it is said *)
(* but for a save that failed.                                             *)
ToSayIsKept ==
    /\ \A c \in Codes : saying[c] > 0 => \E r \in copy.pending : r.code = c
    /\ step = "reply" => \A c \in Codes : saying[c] > 0 => c \in saved \/ misses > 0
    /\ step \in {"load", "wait"} => saying = NoReplies
    /\ step = "gate" /\ ~dirty => saying = NoReplies

PairInv ==
    /\ AccessTypeOK /\ ToldIsSaved
    /\ OfItsOwn(file) /\ OfItsOwn(copy) /\ OfItsOwn(command.copy)
    /\ \A c \in Codes : c >= fresh => told[c] = 0 /\ saying[c] = 0
    /\ command.at = "read" => commands > 0
    /\ Counted /\ ToSayIsKept

(* What may have been lost grows, with each save, load or command that     *)
(* loses a count, by what one code may be said again.                      *)
LEMMA LostIs ==
  ASSUME AccessTypeOK, command.at = "read" => commands > 0
  PROVE  /\ misses \in Nat /\ Writes \in Nat /\ Lost \in Nat
         /\ Again \in Nat /\ MaxReplies = 1 + Again
         /\ (misses + 1 + Writes) * Again = Lost + Again
         /\ (misses + (Writes + 1)) * Again = Lost + Again
<1>1. Again \in Nat /\ MaxReplies = 1 + Again
  BY AccessAssumption DEF Again
<1>2. misses \in Nat /\ commands \in Nat
  BY AccessAssumption DEF AccessTypeOK
<1>3. Writes \in Nat
  BY <1>2 DEF Writes
<1>4. PICK m \in Nat, w \in Nat, k \in Nat : m = misses /\ w = Writes /\ k = Again
  BY <1>1, <1>2, <1>3
<1>5. /\ (m + w) * k \in Nat
      /\ (m + 1 + w) * k = (m + w) * k + k /\ (m + (w + 1)) * k = (m + w) * k + k
  BY SMT
<1>6. QED BY <1>1, <1>2, <1>3, <1>4, <1>5 DEF Lost

LEMMA LostGrows ==
  ASSUME AccessTypeOK, command.at = "read" => commands > 0
  PROVE  /\ misses' = misses /\ Writes' = Writes => Lost' = Lost
         /\ misses' = misses + 1 /\ Writes' = Writes => Lost' = Lost + Again
         /\ misses' = misses /\ Writes' = Writes + 1 => Lost' = Lost + Again
<1>1. Lost' = (misses' + Writes') * Again
  BY DEF Lost, Again
<1>2. QED BY <1>1, LostIs DEF Lost

LEMMA InitPairing == AccessInit => PairInv
<1> SUFFICES ASSUME AccessInit PROVE PairInv
  OBVIOUS
<1>1. AccessTypeOK
  <2>1. Defaults \in Contents
    BY DEF Contents, Defaults, Policies
  <2>2. NoReplies \in [Codes -> Nat]
    BY DEF NoReplies
  <2>3. NoCommand \in [at : {"idle", "read"}, copy : Contents]
    BY <2>1 DEF NoCommand
  <2>4. /\ 1 \in 1..MaxCodes + 1 /\ 0 \in 0..MaxBatch
        /\ 0 \in 0..MaxCommands /\ 0 \in 0..MaxMisses
    BY AccessAssumption
  <2>5. QED BY <2>1, <2>2, <2>3, <2>4 DEF AccessInit, AccessTypeOK
<1>2. /\ command.at = "idle" /\ commands = 0 /\ misses = 0
      /\ file.pending = {} /\ copy.pending = {} /\ command.copy.pending = {}
  BY DEF AccessInit, NoCommand, Defaults
<1>3. Lost = 0 /\ MaxReplies \in Nat
  <2>1. Lost = (0 + 0) * Again
    BY <1>2 DEF Lost, Writes
  <2>2. QED BY <2>1, AccessAssumption DEF Again
<1>4. OfItsOwn(file) /\ OfItsOwn(copy) /\ OfItsOwn(command.copy)
  BY <1>1, <1>2 DEF OfItsOwn, AccessTypeOK
<1>5. Counted /\ ToSayIsKept /\ ToldIsSaved
  BY <1>2, <1>3 DEF AccessInit, Counted, ToSayIsKept, ToldIsSaved, NoReplies
<1>6. QED BY <1>1, <1>2, <1>4, <1>5 DEF PairInv, AccessInit, NoReplies

(* What is known of the parts of a file.                                   *)
LEMMA FileIs ==
  ASSUME AccessTypeOK, NEW f, OfItsOwn(f)
  PROVE  /\ f.policy \in Policies /\ f.allow \in SUBSET Senders /\ f.pending \in SUBSET Requests
         /\ \A r \in f.pending : r.code \in Codes /\ r.replies \in 1..MaxReplies /\ r.of \in Senders
BY DEF OfItsOwn, Contents, Requests

(* The counts of the state before.                                         *)
LEMMA CountsAre ==
  ASSUME PairInv
  PROVE  /\ AccessTypeOK /\ MaxReplies \in Nat
         /\ \A c \in Codes : told[c] \in Nat /\ saying[c] \in Nat
BY AccessAssumption DEF PairInv, AccessTypeOK

(* A step of the loop that leaves the file, the counts and the commands    *)
(* as they are, and copies the file or goes on with what it has.           *)
LEMMA LoopStays ==
  ASSUME PairInv, AccessTypeOK',
         UNCHANGED <<file, command, commands, fresh, told, saved>>, misses' \in {misses, misses + 1},
         OfItsOwn(copy'), step' # "reply",
         saying' = NoReplies \/ (saying' = saying /\ step \notin {"load", "reply"}),
         \A r \in copy'.pending : IF step = "load" THEN r \in file.pending ELSE r \in copy.pending,
         ToSayIsKept'
  PROVE  PairInv'
<1>1. /\ Writes' = Writes /\ (command.at = "read" => commands > 0)
      /\ (command'.at = "read" => commands' > 0)
  BY DEF PairInv, Writes
<1>2. Lost \in Nat /\ Lost' \in Nat /\ Lost <= Lost'
  <2>1. AccessTypeOK
    BY DEF PairInv
  <2>2. Lost \in Nat /\ Again \in Nat /\ Lost <= Lost + Again /\ Lost + Again \in Nat
    BY <2>1, <1>1, LostIs
  <2>3. Lost' = Lost \/ Lost' = Lost + Again
    BY <2>1, <1>1, LostGrows
  <2>4. QED BY <2>2, <2>3
<1>3. \A c \in Codes : told'[c] = told[c] /\ told[c] \in Nat /\ saying[c] \in Nat
                       /\ saying'[c] \in Nat /\ saying'[c] <= saying[c] /\ (saying' # saying => saying'[c] = 0)
  BY CountsAre DEF NoReplies
<1>4. \A r \in file.pending : r.code \in Codes /\ r.replies \in Nat /\ told[r.code] <= r.replies + Lost
  <2> TAKE r \in file.pending
  <2>1. r.code \in Codes /\ r.replies \in 1..MaxReplies /\ MaxReplies \in Nat
    BY FileIs, CountsAre DEF PairInv
  <2>2. told[r.code] \in Nat /\ saying[r.code] \in Nat
    BY <2>1, <1>3
  <2>3. told[r.code] + (IF step = "reply" THEN saying[r.code] ELSE 0) <= r.replies + Lost
    BY DEF PairInv, Counted
  <2>4. QED BY <2>1, <2>2, <2>3, <1>2
<1>5. ASSUME NEW r \in file'.pending
      PROVE  told'[r.code] + (IF step' = "reply" THEN saying'[r.code] ELSE 0) <= r.replies + Lost'
  <2>1. r.code \in Codes /\ r.replies \in Nat /\ told[r.code] <= r.replies + Lost
    BY <1>4, <1>5
  <2>2. QED BY <2>1, <1>2, <1>3
<1>6. ASSUME NEW r \in copy'.pending, step' # "load"
      PROVE  told'[r.code] + saying'[r.code] <= r.replies + Lost'
  <2>1. r.code \in Codes /\ r.replies \in 1..MaxReplies /\ MaxReplies \in Nat
    <3>1. OfItsOwn(copy) /\ OfItsOwn(file) /\ (r \in copy.pending \/ r \in file.pending)
      BY <1>6 DEF PairInv
    <3>2. QED BY <3>1, FileIs, CountsAre
  <2>2. told'[r.code] = told[r.code] /\ told[r.code] \in Nat /\ saying'[r.code] \in Nat
        /\ saying[r.code] \in Nat /\ saying'[r.code] <= saying[r.code]
    BY <2>1, <1>3
  <2>3. CASE step # "load"
    <3>1. told[r.code] + saying[r.code] <= r.replies + Lost
      BY <2>3 DEF PairInv, Counted
    <3>2. QED BY <2>1, <2>2, <3>1, <1>2
  <2>4. CASE step = "load"
    <3>1. told[r.code] <= r.replies + Lost
      BY <1>4, <2>4, <1>6
    <3>2. saying'[r.code] = 0
      BY <2>1, <2>2, <2>4 DEF PairInv, ToSayIsKept, NoReplies
    <3>3. QED BY <2>1, <2>2, <3>1, <3>2, <1>2
  <2>5. QED BY <2>3, <2>4
<1>7. ASSUME NEW c \in Codes PROVE told'[c] + saying'[c] <= MaxReplies + Lost'
  <2>1. told[c] + saying[c] <= MaxReplies + Lost /\ MaxReplies \in Nat
    BY CountsAre DEF PairInv, Counted
  <2>2. QED BY <2>1, <1>2, <1>3
<1>8. Counted'
  BY <1>5, <1>6, <1>7 DEF Counted
<1>9. /\ OfItsOwn(file)' /\ OfItsOwn(command.copy)' /\ OfItsOwn(copy)'
  BY DEF PairInv, OfItsOwn
<1>10. \A c \in Codes : c >= fresh' => told'[c] = 0 /\ saying'[c] = 0
  BY <1>3 DEF PairInv
<1>11. ToldIsSaved'
  BY AccessAssumption DEF PairInv, ToldIsSaved, AccessTypeOK
<1>12. QED BY <1>1, <1>8, <1>9, <1>10, <1>11 DEF PairInv

(* What every write of the file and every cut of outdated codes leaves is  *)
(* a file again.                                                           *)
LEMMA PrunedIs ==
  ASSUME NEW f \in Contents
  PROVE  Pruned(f) \in Contents /\ Pruned(f).pending \subseteq f.pending
BY DEF Pruned, Contents

LEMMA FilesStay ==
  ASSUME NEW f \in Contents, NEW s \in Senders, NEW p \in Policies, NEW r
  PROVE  /\ [f EXCEPT !.allow = @ \cup {s}] \in Contents
         /\ [f EXCEPT !.allow = @ \ {s}] \in Contents
         /\ [f EXCEPT !.policy = p] \in Contents
         /\ [f EXCEPT !.allow = @ \cup {s}].pending = f.pending
         /\ [f EXCEPT !.allow = @ \ {s}].pending = f.pending
         /\ [f EXCEPT !.policy = p].pending = f.pending
         /\ [f EXCEPT !.allow = @ \cup {s}, !.pending = @ \ {r}] \in Contents
         /\ [f EXCEPT !.allow = @ \cup {s}, !.pending = @ \ {r}].pending \subseteq f.pending
BY DEF Pruned, Contents

LEMMA Writing ==
  ASSUME AccessTypeOK, NEW f \in Contents, WriteFile(f)
  PROVE  /\ file' \in Contents /\ saved' \in SUBSET Codes /\ saved \subseteq saved' /\ file' = f
         /\ \A r \in f.pending : r.code \in saved'
BY DEF AccessTypeOK, WriteFile, Contents, Requests

(* A request said again, and a new one.                                    *)
LEMMA RequestsAre ==
  ASSUME AccessTypeOK, NEW s \in Senders
  PROVE  /\ \A r \in copy.pending : r.replies < MaxReplies =>
              /\ Renewed(r) \in Requests /\ Renewed(r).code = r.code
              /\ Renewed(r).replies = r.replies + 1
              /\ [copy EXCEPT !.pending = (@ \ {r}) \cup {Renewed(r)}] \in Contents
              /\ [copy EXCEPT !.pending = (@ \ {r}) \cup {Renewed(r)}].pending
                    = (copy.pending \ {r}) \cup {Renewed(r)}
         /\ fresh \in Codes =>
              /\ [code |-> fresh, of |-> s, replies |-> 1] \in Requests
              /\ [copy EXCEPT !.pending = @ \cup {[code |-> fresh, of |-> s, replies |-> 1]}] \in Contents
              /\ [copy EXCEPT !.pending = @ \cup {[code |-> fresh, of |-> s, replies |-> 1]}].pending
                    = copy.pending \cup {[code |-> fresh, of |-> s, replies |-> 1]}
<1>0. copy \in Contents /\ copy.pending \subseteq Requests
  BY DEF AccessTypeOK, Contents
<1>1. ASSUME NEW r \in copy.pending, r.replies < MaxReplies
      PROVE  /\ Renewed(r) \in Requests /\ Renewed(r).code = r.code
             /\ Renewed(r).replies = r.replies + 1
  <2>1. r \in Requests
    BY <1>0
  <2>2. r.replies + 1 \in 1..MaxReplies
    BY <1>1, <2>1, AccessAssumption DEF Requests
  <2>3. QED BY <2>1, <2>2 DEF Renewed, Requests
<1>2. ASSUME NEW Q \in SUBSET Requests
      PROVE  [copy EXCEPT !.pending = Q] \in Contents /\ [copy EXCEPT !.pending = Q].pending = Q
  BY <1>0 DEF Contents
<1>3. fresh \in Codes => [code |-> fresh, of |-> s, replies |-> 1] \in Requests
  BY AccessAssumption DEF Requests
<1>4. QED BY <1>0, <1>1, <1>2, <1>3

LEMMA StepFile ==
  ASSUME AccessTypeOK, AccessNext
  PROVE  file' \in Contents /\ saved' \in SUBSET Codes /\ saved \subseteq saved'
<1>1. CASE SaveAccess
  BY <1>1, Writing DEF SaveAccess, AccessTypeOK
<1>2. ASSUME NEW s \in Senders, Allow(s) \/ Revoke(s)
      PROVE  file' \in Contents /\ saved' \in SUBSET Codes /\ saved \subseteq saved'
  BY <1>2, Writing, FilesStay DEF Allow, Revoke, AccessTypeOK, Policies
<1>3. ASSUME NEW c \in Codes, Pair(c)
      PROVE  file' \in Contents /\ saved' \in SUBSET Codes /\ saved \subseteq saved'
  <2>1. PICK r \in Pruned(command.copy).pending :
           WriteFile([Pruned(command.copy) EXCEPT !.allow = @ \cup {r.of}, !.pending = @ \ {r}])
    BY <1>3 DEF Pair
  <2>2. Pruned(command.copy) \in Contents /\ r.of \in Senders
    <3>1. Pruned(command.copy) \in Contents
      BY PrunedIs DEF AccessTypeOK
    <3>2. QED BY <3>1 DEF Contents, Requests
  <2>3. QED BY <2>1, <2>2, Writing, FilesStay DEF Policies
<1>4. ASSUME NEW p \in Policies, SetPolicy(p)
      PROVE  file' \in Contents /\ saved' \in SUBSET Codes /\ saved \subseteq saved'
  <2>1. command.copy \in Contents
    BY DEF AccessTypeOK
  <2>2. [command.copy EXCEPT !.policy = p] \in Contents
    BY <2>1 DEF Contents
  <2>3. QED BY <1>4, <2>2, Writing DEF SetPolicy
<1>5. CASE UNCHANGED <<file, saved>>
  BY <1>5 DEF AccessTypeOK
<1>6. QED
  BY <1>1, <1>2, <1>3, <1>4, <1>5
     DEF AccessNext, LoadAccess, BeginBatch, EndBatch, AbandonBatch, StayQuiet, SayCodes,
         ReadForCommand, RefuseCommand, GateDm, Confirm, CodeExpires

LEMMA StepCopy ==
  ASSUME AccessTypeOK, AccessNext
  PROVE  /\ copy' \in Contents /\ fresh' \in 1..MaxCodes + 1
         /\ saying' \in [Codes -> Nat] /\ dirty' \in BOOLEAN
<1>0. NoReplies \in [Codes -> Nat] /\ Defaults \in Contents
  BY DEF NoReplies, Defaults, Contents, Policies
<1>1. CASE LoadAccess
  BY <1>0, <1>1 DEF LoadAccess, AccessTypeOK
<1>2. CASE BeginBatch
  BY <1>2, PrunedIs, AccessAssumption DEF BeginBatch, AccessTypeOK
<1>3. ASSUME NEW s \in Senders, GateDm(s)
      PROVE  /\ copy' \in Contents /\ fresh' \in 1..MaxCodes + 1
             /\ saying' \in [Codes -> Nat] /\ dirty' \in BOOLEAN
  <2>1. CASE Pass(s)
    BY <2>1 DEF Pass, AccessTypeOK
  <2>2. CASE SayAgain(s)
    <3>1. PICK r \in copy.pending :
             /\ r.replies < MaxReplies /\ PairReply(r.code)
             /\ copy' = [copy EXCEPT !.pending = (@ \ {r}) \cup {Renewed(r)}]
      BY <2>2 DEF SayAgain, Requested
    <3>2. copy' \in Contents
      BY <3>1, RequestsAre
    <3>3. /\ saying' = [saying EXCEPT ![r.code] = @ + 1] /\ dirty' = TRUE
          /\ fresh' = fresh /\ r.code \in Codes
      BY <2>2, <3>1 DEF SayAgain, PairReply, AccessTypeOK, Contents, Requests
    <3>4. saying' \in [Codes -> Nat]
      BY <3>3 DEF AccessTypeOK
    <3>5. QED BY <3>2, <3>3, <3>4 DEF AccessTypeOK
  <2>3. CASE NewCode(s)
    <3>1. copy' \in Contents
      BY <2>3, RequestsAre DEF NewCode
    <3>2. fresh' \in 1..MaxCodes + 1
      BY <2>3, AccessAssumption DEF NewCode, Codes
    <3>3. saying' = [saying EXCEPT ![fresh] = @ + 1] /\ dirty' = TRUE /\ fresh \in Codes
      BY <2>3 DEF NewCode, PairReply
    <3>4. saying' \in [Codes -> Nat]
      BY <3>3 DEF AccessTypeOK
    <3>5. QED BY <3>1, <3>2, <3>3, <3>4
  <2>4. QED BY <1>3, <2>1, <2>2, <2>3 DEF GateDm
<1>4. CASE EndBatch \/ AbandonBatch
  BY <1>0, <1>4, AccessAssumption DEF EndBatch, AbandonBatch, AccessTypeOK
<1>5. CASE SayCodes
  BY <1>0, <1>5 DEF SayCodes, AccessTypeOK
<1>6. CASE UNCHANGED <<copy, dirty, saying, fresh>>
  BY <1>6 DEF AccessTypeOK
<1>7. QED
  BY <1>1, <1>2, <1>3, <1>4, <1>5, <1>6
     DEF AccessNext, StayQuiet, SaveAccess, ReadForCommand, RefuseCommand, EndCommand, loopVars,
         Confirm, Allow, Revoke, Pair, CodeExpires, SetPolicy

LEMMA StepRoom == AccessTypeOK /\ AccessNext => room' \in 0..MaxBatch
<1> SUFFICES ASSUME AccessTypeOK, AccessNext PROVE room' \in 0..MaxBatch
  OBVIOUS
<1>1. room' \in {room, 0, MaxBatch} \/ (room > 0 /\ room' = room - 1)
  BY DEF AccessNext, LoadAccess, BeginBatch, EndBatch, AbandonBatch, StayQuiet, SaveAccess, SayCodes,
         ReadForCommand, RefuseCommand, EndCommand, GateDm, Confirm, Allow, Revoke, Pair,
         CodeExpires, SetPolicy, loopVars
<1>2. QED BY <1>1, AccessAssumption DEF AccessTypeOK

LEMMA StepRest ==
  ASSUME AccessTypeOK, AccessNext
  PROVE  /\ step' \in {"load", "wait", "gate", "save", "reply"}
         /\ command' \in [at : {"idle", "read"}, copy : Contents]
         /\ told' \in [Codes -> Nat] /\ outdated' \in SUBSET Codes
         /\ approvals' \in SUBSET Senders /\ granted' \in SUBSET Senders
         /\ commands' \in 0..MaxCommands /\ misses' \in 0..MaxMisses
<1>1. step' \in {"load", "wait", "gate", "save", "reply"}
  BY DEF AccessTypeOK, AccessNext, LoadAccess, BeginBatch, EndBatch, AbandonBatch, StayQuiet,
         SaveAccess, SayCodes, ReadForCommand, RefuseCommand, EndCommand, GateDm, Confirm, Allow,
         Revoke, Pair, CodeExpires, SetPolicy, loopVars
<1>2. command' \in [at : {"idle", "read"}, copy : Contents] /\ commands' \in 0..MaxCommands
  <2>1. CASE ReadForCommand
    BY <2>1, AccessAssumption DEF ReadForCommand, AccessTypeOK
  <2>2. CASE EndCommand
    BY <2>2 DEF EndCommand, NoCommand, AccessTypeOK, Defaults, Contents, Policies
  <2>3. CASE UNCHANGED <<command, commands>>
    BY <2>3 DEF AccessTypeOK
  <2>4. QED
    BY <2>1, <2>2, <2>3
       DEF AccessNext, LoadAccess, BeginBatch, EndBatch, AbandonBatch, StayQuiet, SaveAccess,
           SayCodes, RefuseCommand, GateDm, Confirm, Allow, Revoke, Pair, CodeExpires, SetPolicy,
           outside
<1>3. told' \in [Codes -> Nat]
  <2>1. CASE SayCodes
    BY <2>1 DEF SayCodes, AccessTypeOK
  <2>2. CASE UNCHANGED told
    BY <2>2 DEF AccessTypeOK
  <2>3. QED
    BY <2>1, <2>2
       DEF AccessNext, LoadAccess, BeginBatch, EndBatch, AbandonBatch, StayQuiet, SaveAccess,
           ReadForCommand, RefuseCommand, EndCommand, GateDm, Confirm, Allow, Revoke, Pair,
           CodeExpires, SetPolicy
<1>4. outdated' \in SUBSET Codes
  BY DEF AccessTypeOK, AccessNext, LoadAccess, BeginBatch, EndBatch, AbandonBatch, StayQuiet,
         SaveAccess, SayCodes, ReadForCommand, RefuseCommand, EndCommand, GateDm, Confirm, Allow,
         Revoke, Pair, CodeExpires, SetPolicy
<1>5. approvals' \in SUBSET Senders /\ granted' \in SUBSET Senders
  <2>1. ASSUME NEW c \in Codes, Pair(c)
        PROVE  approvals' \in SUBSET Senders /\ granted' \in SUBSET Senders
    <3>1. PICK r \in Pruned(command.copy).pending :
             approvals' = approvals \cup {r.of} /\ granted' = granted \cup {r.of}
      BY <2>1 DEF Pair
    <3>2. r.of \in Senders
      BY PrunedIs DEF AccessTypeOK, Contents, Requests
    <3>3. QED BY <3>1, <3>2 DEF AccessTypeOK
  <2>2. QED
    BY <2>1
       DEF AccessTypeOK, AccessNext, LoadAccess, BeginBatch, EndBatch, AbandonBatch, StayQuiet,
           SaveAccess, SayCodes, ReadForCommand, RefuseCommand, GateDm, Confirm, Allow, Revoke,
           CodeExpires, SetPolicy, outside
<1>6. misses' \in 0..MaxMisses
  <2>1. misses' = misses \/ (misses < MaxMisses /\ misses' = misses + 1)
    BY DEF AccessNext, LoadAccess, BeginBatch, EndBatch, AbandonBatch, StayQuiet,
           SaveAccess, SayCodes, ReadForCommand, RefuseCommand, EndCommand, GateDm, Confirm, Allow,
           Revoke, Pair, CodeExpires, SetPolicy
  <2>2. QED BY <2>1, AccessAssumption DEF AccessTypeOK
<1>7. QED BY <1>1, <1>2, <1>3, <1>4, <1>5, <1>6

LEMMA StepAccessTypes == AccessTypeOK /\ AccessNext => AccessTypeOK'
BY StepFile, StepCopy, StepRoom, StepRest DEF AccessTypeOK

(* The loop's steps that only look, or only go on.                         *)
LEMMA StepLoop ==
  ASSUME PairInv, AccessTypeOK', NEW s,
         \/ LoadAccess \/ BeginBatch \/ EndBatch \/ AbandonBatch \/ StayQuiet
         \/ GateDm(s) /\ Pass(s)
  PROVE  PairInv'
<1>1. /\ OfItsOwn(file) /\ OfItsOwn(copy) /\ ToSayIsKept /\ AccessTypeOK
      /\ \A c \in Codes : saying[c] \in Nat
  BY DEF PairInv, AccessTypeOK
<1>2. UNCHANGED <<file, command, commands, fresh, told, saved>> /\ step' # "reply"
  BY DEF LoadAccess, BeginBatch, EndBatch, AbandonBatch, StayQuiet, GateDm, Pass, outside
<1>3. misses' \in {misses, misses + 1}
  BY DEF LoadAccess, BeginBatch, EndBatch, AbandonBatch, StayQuiet, GateDm, Pass, outside
<1>4. /\ saying' = NoReplies \/ (saying' = saying /\ step \notin {"load", "reply"})
      /\ copy'.pending \subseteq (IF step = "load" THEN file.pending ELSE copy.pending)
      /\ ToSayIsKept'
  <2>1. CASE LoadAccess
    <3>1. step = "load" /\ step' = "wait" /\ saying' = NoReplies
      BY <1>1, <2>1 DEF LoadAccess, ToSayIsKept
    <3>2. copy'.pending \subseteq file.pending
      BY <2>1 DEF LoadAccess, Defaults
    <3>3. QED BY <3>1, <3>2 DEF ToSayIsKept, NoReplies
  <2>2. CASE BeginBatch
    <3>1. step = "wait" /\ step' = "gate" /\ saying' = NoReplies /\ saying = NoReplies
      BY <1>1, <2>2 DEF BeginBatch, ToSayIsKept
    <3>2. copy'.pending \subseteq copy.pending
      BY <2>2, PrunedIs DEF BeginBatch, PairInv, AccessTypeOK
    <3>3. QED BY <3>1, <3>2 DEF ToSayIsKept, NoReplies
  <2>3. CASE EndBatch
    <3>1. /\ step = "gate" /\ step' \in {"load", "save"} /\ UNCHANGED <<copy, saying>>
          /\ (step' = "load" => saying = NoReplies)
      BY <1>1, <2>3 DEF EndBatch, ToSayIsKept, PairInv, AccessTypeOK
    <3>2. QED BY <1>1, <3>1 DEF ToSayIsKept, NoReplies
  <2>4. CASE AbandonBatch
    <3>1. step = "gate" /\ step' = "load" /\ UNCHANGED copy /\ saying' = NoReplies
      BY <2>4 DEF AbandonBatch
    <3>2. QED BY <3>1 DEF ToSayIsKept, NoReplies
  <2>5. CASE StayQuiet
    <3>1. step = "wait" /\ step' = "load" /\ UNCHANGED copy /\ saying' = NoReplies
      BY <1>1, <2>5 DEF StayQuiet, ToSayIsKept
    <3>2. QED BY <3>1 DEF ToSayIsKept, NoReplies
  <2>6. CASE GateDm(s) /\ Pass(s)
    <3>1. step = "gate" /\ step' = "gate" /\ UNCHANGED <<copy, saying, dirty>>
      BY <2>6 DEF GateDm, Pass
    <3>2. QED BY <1>1, <3>1 DEF ToSayIsKept
  <2>7. QED BY <2>1, <2>2, <2>3, <2>4, <2>5, <2>6
<1>5. OfItsOwn(copy')
  BY <1>1, <1>2, <1>4 DEF OfItsOwn, AccessTypeOK
<1>6. QED BY <1>2, <1>3, <1>4, <1>5, LoopStays

(* What a command leaves in the file counts every request at least once.   *)
LEMMA StepWrite ==
  ASSUME PairInv, AccessTypeOK', saved \subseteq saved', EndCommand, OfItsOwn(file')
  PROVE  PairInv'
<1>0. /\ UNCHANGED <<step, copy, saying, dirty, fresh, told, misses>>
      /\ command.at = "read" /\ command' = NoCommand /\ commands' = commands
  BY DEF EndCommand, loopVars
<1>1. AccessTypeOK /\ (command.at = "read" => commands > 0) /\ commands \in Nat
  BY AccessAssumption DEF PairInv, AccessTypeOK
<1>2. Writes' = Writes + 1
  BY <1>0, <1>1 DEF Writes, NoCommand
<1>3. /\ Lost' = Lost + Again /\ Lost \in Nat /\ Again \in Nat /\ MaxReplies = 1 + Again
  BY <1>0, <1>1, <1>2, LostIs, LostGrows
<1>4. \A c \in Codes : told[c] \in Nat /\ saying[c] \in Nat
                       /\ told[c] + saying[c] <= 1 + Again + Lost
  BY <1>3, CountsAre DEF PairInv, Counted
<1>5. ASSUME NEW r \in file'.pending
      PROVE  told'[r.code] + (IF step' = "reply" THEN saying'[r.code] ELSE 0) <= r.replies + Lost'
  <2>1. r.code \in Codes /\ r.replies \in Nat /\ r.replies >= 1
    BY AccessAssumption DEF OfItsOwn, Contents, Requests
  <2>2. QED BY <1>0, <1>3, <1>4, <2>1
<1>6. ASSUME NEW r \in copy'.pending, step' # "load"
      PROVE  told'[r.code] + saying'[r.code] <= r.replies + Lost'
  <2>1. r.code \in Codes /\ r.replies \in Nat /\ r.replies >= 1
    BY <1>0, AccessAssumption DEF PairInv, OfItsOwn, Contents, Requests
  <2>2. QED BY <1>0, <1>3, <1>4, <2>1
<1>7. \A c \in Codes : told'[c] + saying'[c] <= MaxReplies + Lost'
  BY <1>0, <1>3, <1>4
<1>8. Counted'
  BY <1>5, <1>6, <1>7 DEF Counted
<1>9. OfItsOwn(file)' /\ OfItsOwn(copy)' /\ OfItsOwn(command.copy)'
  BY <1>0 DEF PairInv, OfItsOwn, NoCommand, Defaults, AccessTypeOK
<1>10. ToSayIsKept' /\ ToldIsSaved'
  BY <1>0 DEF PairInv, ToSayIsKept, ToldIsSaved
<1>11. /\ \A c \in Codes : c >= fresh' => told'[c] = 0 /\ saying'[c] = 0
       /\ (command'.at = "read" => commands' > 0)
  BY <1>0 DEF PairInv, NoCommand
<1>12. QED BY <1>8, <1>9, <1>10, <1>11 DEF PairInv

(* A command writes the copy it read, changed in one place.                *)
LEMMA StepCommand ==
  ASSUME PairInv, AccessTypeOK', NEW s, NEW c, NEW p,
         Pair(c) \/ Allow(s) \/ Revoke(s) \/ SetPolicy(p) \/ RefuseCommand
  PROVE  PairInv'
<1>1. /\ OfItsOwn(file) /\ OfItsOwn(command.copy) /\ AccessTypeOK
      /\ command.copy \in Contents /\ file' \in Contents
  BY DEF PairInv, AccessTypeOK
<1>2. saved \subseteq saved' /\ EndCommand
  BY DEF Pair, Allow, Revoke, SetPolicy, RefuseCommand, WriteFile
<1>3. fresh' = fresh
  BY <1>2 DEF EndCommand
<1>4. file'.pending \subseteq command.copy.pending \/ file' = file
  <2>1. CASE Pair(c)
    <3>1. PICK r : file' = [Pruned(command.copy) EXCEPT !.allow = @ \cup {r.of}, !.pending = @ \ {r}]
      BY <2>1 DEF Pair, WriteFile
    <3>2. Pruned(command.copy) \in Contents /\ Pruned(command.copy).pending \subseteq command.copy.pending
      BY <1>1, PrunedIs
    <3>3. QED BY <3>1, <3>2 DEF Contents
  <2>2. CASE Allow(s) \/ Revoke(s)
    <3>1. \/ file' = [command.copy EXCEPT !.allow = @ \cup {s}]
          \/ file' = [command.copy EXCEPT !.allow = @ \ {s}]
      BY <2>2 DEF Allow, Revoke, WriteFile
    <3>2. QED BY <1>1, <3>1 DEF Contents
  <2>3. CASE SetPolicy(p)
    BY <1>1, <2>3 DEF SetPolicy, WriteFile, Contents
  <2>4. CASE RefuseCommand
    BY <2>4 DEF RefuseCommand
  <2>5. QED BY <2>1, <2>2, <2>3, <2>4
<1>5. OfItsOwn(file')
  BY <1>1, <1>3, <1>4 DEF OfItsOwn
<1>6. QED BY <1>2, <1>5, StepWrite

(* A command starts: its write is not behind it yet.                       *)
LEMMA StepRead ==
  ASSUME PairInv, AccessTypeOK', ReadForCommand
  PROVE  PairInv'
<1>1. /\ UNCHANGED <<file, step, copy, saying, dirty, fresh, told, saved, misses>>
      /\ command.at = "idle" /\ command' = [at |-> "read", copy |-> file]
      /\ commands' = commands + 1
  BY DEF ReadForCommand, loopVars
<1>2. AccessTypeOK /\ commands \in Nat /\ (command.at = "read" => commands > 0)
  BY AccessAssumption DEF PairInv, AccessTypeOK
<1>3. Writes' = Writes /\ commands' > 0
  <2>1. Writes = commands
    BY <1>1 DEF Writes
  <2>2. Writes' = commands' - 1
    BY <1>1 DEF Writes
  <2>3. QED BY <1>1, <1>2, <2>1, <2>2
<1>4. Lost' = Lost
  BY <1>1, <1>2, <1>3, LostGrows
<1>5. Counted'
  BY <1>1, <1>4 DEF PairInv, Counted
<1>6. OfItsOwn(file)' /\ OfItsOwn(copy)' /\ OfItsOwn(command.copy)'
  BY <1>1 DEF PairInv, OfItsOwn
<1>7. ToSayIsKept' /\ ToldIsSaved'
  BY <1>1 DEF PairInv, ToSayIsKept, ToldIsSaved
<1>8. \A c \in Codes : c >= fresh' => told'[c] = 0 /\ saying'[c] = 0
  BY <1>1 DEF PairInv
<1>9. QED BY <1>3, <1>5, <1>6, <1>7, <1>8 DEF PairInv

(* What is outside the loop and the file changes no count.                 *)
LEMMA StepOutside ==
  ASSUME PairInv, AccessTypeOK',
         UNCHANGED <<file, loopVars, command, commands, fresh, told, saved, misses>>
  PROVE  PairInv'
<1>1. UNCHANGED <<file, step, copy, saying, dirty, command, commands, fresh, told, saved, misses>>
  BY DEF loopVars
<1>2. Lost' = Lost
  BY <1>1 DEF Lost, Writes, Again
<1>3. Counted'
  BY <1>1, <1>2 DEF PairInv, Counted
<1>4. OfItsOwn(file)' /\ OfItsOwn(copy)' /\ OfItsOwn(command.copy)'
  BY <1>1 DEF PairInv, OfItsOwn
<1>5. ToSayIsKept' /\ ToldIsSaved'
  BY <1>1 DEF PairInv, ToSayIsKept, ToldIsSaved
<1>6. QED BY <1>1, <1>3, <1>4, <1>5 DEF PairInv

(* The loop's copy becomes the file, or what it counts is lost.            *)
LEMMA StepSave ==
  ASSUME PairInv, AccessTypeOK', SaveAccess
  PROVE  PairInv'
<1>1. /\ UNCHANGED <<copy, saying, dirty, command, commands, fresh, told>>
      /\ step = "save" /\ step' = "reply"
  BY DEF SaveAccess, outside
<1>2. /\ AccessTypeOK /\ OfItsOwn(copy) /\ OfItsOwn(file) /\ copy \in Contents
      /\ (command.at = "read" => commands > 0)
      /\ misses \in Nat
  BY AccessAssumption DEF PairInv, AccessTypeOK
<1>3. Lost \in Nat /\ Again \in Nat /\ MaxReplies = 1 + Again
  BY <1>2, LostIs
<1>4. \A c \in Codes : told[c] \in Nat /\ saying[c] \in Nat
                       /\ told[c] + saying[c] <= 1 + Again + Lost
  BY <1>3, CountsAre DEF PairInv, Counted
<1>5. ASSUME NEW r \in copy.pending PROVE r.code \in Codes /\ r.replies \in Nat
  BY <1>2, AccessAssumption DEF Contents, Requests
<1>6. \A r \in copy.pending : told[r.code] + saying[r.code] <= r.replies + Lost
  BY <1>1 DEF PairInv, Counted
<1>7. Writes' = Writes
  BY <1>1 DEF Writes
<1>8. OfItsOwn(file)' /\ OfItsOwn(copy)' /\ OfItsOwn(command.copy)'
  <2>1. file' = copy \/ file' = file
    BY DEF SaveAccess, WriteFile
  <2>2. QED BY <1>1, <2>1 DEF PairInv, OfItsOwn
<1>9. /\ \A c \in Codes : c >= fresh' => told'[c] = 0 /\ saying'[c] = 0
      /\ (command'.at = "read" => commands' > 0)
  BY <1>1 DEF PairInv
<1>10. CASE WriteFile(copy) /\ UNCHANGED misses
  <2>1. Lost' = Lost
    BY <1>2, <1>7, <1>10, LostGrows
  <2>2. Counted'
    BY <1>1, <1>6, <1>10, <2>1 DEF PairInv, Counted, WriteFile
  <2>3. ToSayIsKept' /\ ToldIsSaved'
    BY <1>1, <1>10 DEF PairInv, ToSayIsKept, ToldIsSaved, WriteFile
  <2>4. QED BY <2>2, <2>3, <1>8, <1>9 DEF PairInv
<1>11. CASE misses' = misses + 1 /\ UNCHANGED <<file, saved>>
  <2>1. Lost' = Lost + Again
    BY <1>2, <1>7, <1>11, LostGrows
  <2>2. \A r \in file.pending : r.code \in Codes /\ r.replies \in Nat /\ r.replies >= 1
    BY <1>2, AccessAssumption DEF OfItsOwn, Contents, Requests
  <2>3. \A r \in file'.pending :
           told'[r.code] + (IF step' = "reply" THEN saying'[r.code] ELSE 0) <= r.replies + Lost'
    BY <1>1, <1>3, <1>4, <1>11, <2>1, <2>2
  <2>4. \A r \in copy'.pending : told'[r.code] + saying'[r.code] <= r.replies + Lost'
    BY <1>1, <1>3, <1>4, <1>5, <1>6, <2>1
  <2>5. \A c \in Codes : told'[c] + saying'[c] <= MaxReplies + Lost'
    BY <1>1, <1>3, <1>4, <2>1
  <2>6. Counted'
    BY <2>3, <2>4, <2>5 DEF Counted
  <2>7. misses' > 0
    BY <1>2, <1>11
  <2>8. ToSayIsKept' /\ ToldIsSaved'
    BY <1>1, <1>11, <2>7 DEF PairInv, ToSayIsKept, ToldIsSaved
  <2>9. QED BY <2>6, <2>8, <1>8, <1>9 DEF PairInv
<1>12. QED BY <1>10, <1>11 DEF SaveAccess

(* The replies go out: what was counted for them is told.                  *)
LEMMA StepSay ==
  ASSUME PairInv, AccessTypeOK', SayCodes
  PROVE  PairInv'
<1>1. /\ UNCHANGED <<file, copy, dirty, command, commands, fresh, saved, misses>>
      /\ step = "reply" /\ step' = "load" /\ saying' = NoReplies
      /\ told' = [c \in Codes |-> told[c] + saying[c]]
  BY DEF SayCodes, outside
<1>2. Lost' = Lost
  BY <1>1 DEF Lost, Writes, Again
<1>3. \A c \in Codes : /\ told'[c] = told[c] + saying[c] /\ saying'[c] = 0
                       /\ told[c] \in Nat /\ saying[c] \in Nat
  BY <1>1, CountsAre DEF NoReplies
<1>4. Counted'
  <2>1. ASSUME NEW r \in file'.pending PROVE told'[r.code] <= r.replies + Lost'
    <3>1. r.code \in Codes
      BY <1>1 DEF PairInv, AccessTypeOK, Contents, Requests
    <3>2. told[r.code] + saying[r.code] <= r.replies + Lost
      BY <1>1 DEF PairInv, Counted
    <3>3. QED BY <1>2, <1>3, <3>1, <3>2
  <2>2. \A c \in Codes : told'[c] + saying'[c] <= MaxReplies + Lost'
    BY <1>2, <1>3 DEF PairInv, Counted
  <2>3. \A r \in file'.pending : told'[r.code] + 0 <= r.replies + Lost'
    <3>1. \A r \in file'.pending : told'[r.code] \in Nat
      BY <1>1 DEF AccessTypeOK, Contents, Requests
    <3>2. QED BY <2>1, <3>1
  <2>4. QED BY <1>1, <2>2, <2>3 DEF Counted
<1>5. OfItsOwn(file)' /\ OfItsOwn(copy)' /\ OfItsOwn(command.copy)'
  BY <1>1 DEF PairInv, OfItsOwn
<1>6. ToSayIsKept'
  BY <1>1, <1>3 DEF ToSayIsKept
<1>7. ToldIsSaved'
  <2>1. ASSUME NEW c \in Codes, told'[c] > 0 PROVE c \in saved' \/ misses' > 0
    <3>1. told[c] > 0 \/ saying[c] > 0
      BY <1>3, <2>1
    <3>2. QED BY <1>1, <3>1 DEF PairInv, ToldIsSaved, ToSayIsKept
  <2>2. QED BY <2>1 DEF ToldIsSaved
<1>8. /\ \A c \in Codes : c >= fresh' => told'[c] = 0 /\ saying'[c] = 0
      /\ (command'.at = "read" => commands' > 0)
  BY <1>1, <1>3 DEF PairInv
<1>9. QED BY <1>4, <1>5, <1>6, <1>7, <1>8 DEF PairInv

(* One code is to be said once more, and its request counts it.            *)
LEMMA StepAgain ==
  ASSUME PairInv, AccessTypeOK', NEW s \in Senders, GateDm(s), SayAgain(s)
  PROVE  PairInv'
<1>1. PICK r \in copy.pending :
         /\ r.replies < MaxReplies /\ PairReply(r.code)
         /\ copy' = [copy EXCEPT !.pending = (@ \ {r}) \cup {Renewed(r)}]
  BY DEF SayAgain, Requested
<1>2. /\ UNCHANGED <<file, step, command, commands, fresh, told, saved, misses>>
      /\ step = "gate" /\ dirty' = TRUE /\ saying' = [saying EXCEPT ![r.code] = @ + 1]
  BY <1>1 DEF GateDm, SayAgain, PairReply, outside
<1>3. AccessTypeOK /\ (command.at = "read" => commands > 0)
      /\ OfItsOwn(file) /\ OfItsOwn(copy) /\ OfItsOwn(command.copy)
  BY DEF PairInv
<1>4. Lost' = Lost /\ Lost \in Nat /\ MaxReplies \in Nat
  BY <1>2, <1>3, LostIs, AccessAssumption DEF Lost, Writes, Again
<1>5. /\ r.code \in Codes /\ r.replies \in Nat /\ r.code < fresh
      /\ Renewed(r).code = r.code /\ Renewed(r).replies = r.replies + 1
      /\ copy' \in Contents /\ copy'.pending = (copy.pending \ {r}) \cup {Renewed(r)}
  <2>1. r.code \in Codes /\ r.replies \in Nat /\ r.code < fresh
    BY <1>1, <1>3, AccessAssumption DEF OfItsOwn, Contents, Requests
  <2>2. QED BY <1>1, <1>3, <2>1, RequestsAre
<1>6. /\ \A c \in Codes : /\ told'[c] = told[c] /\ told[c] \in Nat /\ saying[c] \in Nat
                          /\ c # r.code => saying'[c] = saying[c]
      /\ saying'[r.code] = saying[r.code] + 1
  BY <1>2, <1>5, CountsAre DEF AccessTypeOK
<1>7. told[r.code] + saying[r.code] <= r.replies + Lost
  BY <1>1, <1>2 DEF PairInv, Counted
<1>8. Counted'
  <2>1. \A q \in file'.pending :
           told'[q.code] + (IF step' = "reply" THEN saying'[q.code] ELSE 0) <= q.replies + Lost'
    BY <1>2, <1>4 DEF PairInv, Counted
  <2>2. ASSUME NEW q \in copy'.pending PROVE told'[q.code] + saying'[q.code] <= q.replies + Lost'
    <3>1. CASE q = Renewed(r)
      BY <1>4, <1>5, <1>6, <1>7, <3>1
    <3>2. CASE q # Renewed(r)
      <4>1. q \in copy.pending /\ q # r
        BY <1>5, <3>2, <2>2
      <4>2. q.code # r.code /\ q.code \in Codes
        BY <1>1, <1>3, <4>1 DEF OfItsOwn, Contents, Requests
      <4>3. told[q.code] + saying[q.code] <= q.replies + Lost
        BY <1>2, <4>1 DEF PairInv, Counted
      <4>4. QED BY <1>4, <1>6, <4>2, <4>3
    <3>3. QED BY <3>1, <3>2
  <2>3. ASSUME NEW c \in Codes PROVE told'[c] + saying'[c] <= MaxReplies + Lost'
    <3>1. CASE c = r.code
      BY <1>1, <1>4, <1>5, <1>6, <1>7, <3>1
    <3>2. CASE c # r.code
      BY <1>4, <1>6, <3>2 DEF PairInv, Counted
    <3>3. QED BY <3>1, <3>2
  <2>4. QED BY <2>1, <2>2, <2>3 DEF Counted
<1>9. OfItsOwn(copy)'
  <2>1. \A q \in copy.pending : q # r => q.code # r.code
    BY <1>1, <1>3 DEF OfItsOwn
  <2>2. \A q \in copy'.pending : q.code < fresh'
    BY <1>2, <1>3, <1>5 DEF OfItsOwn
  <2>3. \A q, v \in copy'.pending : q.code = v.code => q = v
    BY <1>3, <1>5, <2>1 DEF OfItsOwn
  <2>4. QED BY <1>5, <2>2, <2>3 DEF OfItsOwn
<1>10. OfItsOwn(file)' /\ OfItsOwn(command.copy)'
  BY <1>2, <1>3 DEF OfItsOwn
<1>11. ToSayIsKept'
  <2>1. ASSUME NEW c \in Codes, saying'[c] > 0 PROVE \E q \in copy'.pending : q.code = c
    <3>1. CASE c = r.code
      BY <1>5, <3>1
    <3>2. CASE c # r.code
      <4>1. PICK q \in copy.pending : q.code = c
        BY <1>6, <2>1, <3>2 DEF PairInv, ToSayIsKept
      <4>2. QED BY <1>5, <3>2, <4>1
    <3>3. QED BY <3>1, <3>2
  <2>2. QED BY <1>2, <2>1 DEF ToSayIsKept
<1>12. ToldIsSaved'
  BY <1>2 DEF PairInv, ToldIsSaved
<1>13. \A c \in Codes : c >= fresh' => told'[c] = 0 /\ saying'[c] = 0
  <2>1. \A c \in Codes : c >= fresh => c # r.code
    BY <1>3, <1>5 DEF AccessTypeOK, Codes
  <2>2. QED BY <1>2, <1>6, <2>1 DEF PairInv
<1>14. QED BY <1>2, <1>8, <1>9, <1>10, <1>11, <1>12, <1>13 DEF PairInv

(* A new code is one that was never told.                                  *)
LEMMA StepNew ==
  ASSUME PairInv, AccessTypeOK', NEW s \in Senders, GateDm(s), NewCode(s)
  PROVE  PairInv'
<1> DEFINE new == [code |-> fresh, of |-> s, replies |-> 1]
<1>1. /\ fresh \in Codes /\ PairReply(fresh) /\ fresh' = fresh + 1
      /\ copy' = [copy EXCEPT !.pending = @ \cup {new}]
  BY DEF NewCode
<1>2. /\ UNCHANGED <<file, step, command, commands, told, saved, misses>>
      /\ step = "gate" /\ dirty' = TRUE /\ saying' = [saying EXCEPT ![fresh] = @ + 1]
  BY <1>1 DEF GateDm, PairReply, outside
<1>3. AccessTypeOK /\ (command.at = "read" => commands > 0) /\ fresh \in Nat
      /\ OfItsOwn(file) /\ OfItsOwn(copy) /\ OfItsOwn(command.copy)
  BY <1>1, AccessAssumption DEF PairInv, Codes
<1>4. Lost' = Lost /\ Lost \in Nat /\ MaxReplies \in Nat /\ MaxReplies >= 1
  BY <1>2, <1>3, LostIs, AccessAssumption DEF Lost, Writes, Again
<1>5. copy' \in Contents /\ copy'.pending = copy.pending \cup {new}
  BY <1>1, <1>3, RequestsAre
<1>6. /\ \A c \in Codes : /\ told'[c] = told[c] /\ told[c] \in Nat /\ saying[c] \in Nat
                          /\ c # fresh => saying'[c] = saying[c]
      /\ saying'[fresh] = 1 /\ told'[fresh] = 0
  <2>1. told[fresh] = 0 /\ saying[fresh] = 0
    BY <1>1, <1>3 DEF PairInv
  <2>2. QED BY <1>1, <1>2, <1>3, <2>1, CountsAre DEF AccessTypeOK
<1>7. \A q \in copy.pending : q.code # fresh /\ q.code \in Codes
  BY <1>3 DEF OfItsOwn, Contents, Requests, Codes
<1>8. Counted'
  <2>1. \A q \in file'.pending :
           told'[q.code] + (IF step' = "reply" THEN saying'[q.code] ELSE 0) <= q.replies + Lost'
    BY <1>2, <1>4 DEF PairInv, Counted
  <2>2. ASSUME NEW q \in copy'.pending PROVE told'[q.code] + saying'[q.code] <= q.replies + Lost'
    <3>1. CASE q = new
      BY <1>4, <1>6, <3>1
    <3>2. CASE q # new
      <4>1. q \in copy.pending
        BY <1>5, <3>2, <2>2
      <4>2. told[q.code] + saying[q.code] <= q.replies + Lost
        BY <1>2, <4>1 DEF PairInv, Counted
      <4>3. QED BY <1>4, <1>6, <1>7, <4>1, <4>2
    <3>3. QED BY <3>1, <3>2
  <2>3. ASSUME NEW c \in Codes PROVE told'[c] + saying'[c] <= MaxReplies + Lost'
    <3>1. CASE c = fresh
      BY <1>4, <1>6, <3>1
    <3>2. CASE c # fresh
      BY <1>4, <1>6, <3>2 DEF PairInv, Counted
    <3>3. QED BY <3>1, <3>2
  <2>4. QED BY <2>1, <2>2, <2>3 DEF Counted
<1>9. OfItsOwn(copy)'
  <2>1. \A q \in copy'.pending : q.code < fresh'
    <3>1. \A q \in copy.pending : q.code < fresh /\ q.code \in Nat
      BY <1>3, <1>7 DEF OfItsOwn, Codes
    <3>2. QED BY <1>1, <1>3, <1>5, <3>1
  <2>2. \A q, v \in copy'.pending : q.code = v.code => q = v
    BY <1>3, <1>5, <1>7 DEF OfItsOwn
  <2>3. QED BY <1>5, <2>1, <2>2 DEF OfItsOwn
<1>10. OfItsOwn(file)' /\ OfItsOwn(command.copy)'
  <2>1. ASSUME NEW f, OfItsOwn(f) PROVE \A q \in f.pending : q.code < fresh'
    BY <1>1, <1>3, <2>1 DEF OfItsOwn, Contents, Requests, Codes
  <2>2. QED BY <1>2, <1>3, <2>1 DEF OfItsOwn
<1>11. ToSayIsKept'
  <2>1. ASSUME NEW c \in Codes, saying'[c] > 0 PROVE \E q \in copy'.pending : q.code = c
    <3>1. CASE c = fresh
      <4>1. new \in copy'.pending /\ new.code = fresh
        BY <1>5
      <4>2. QED BY <3>1, <4>1
    <3>2. CASE c # fresh
      <4>1. \E q \in copy.pending : q.code = c
        BY <1>6, <2>1, <3>2 DEF PairInv, ToSayIsKept
      <4>2. QED BY <1>5, <4>1
    <3>3. QED BY <3>1, <3>2
  <2>2. QED BY <1>2, <2>1 DEF ToSayIsKept
<1>12. ToldIsSaved'
  BY <1>2 DEF PairInv, ToldIsSaved
<1>13. \A c \in Codes : c >= fresh' => told'[c] = 0 /\ saying'[c] = 0
  <2>1. \A c \in Codes : c >= fresh' => c # fresh /\ c >= fresh
    BY <1>1, <1>3 DEF Codes
  <2>2. QED BY <1>6, <2>1 DEF PairInv
<1>14. QED BY <1>2, <1>8, <1>9, <1>10, <1>11, <1>12, <1>13 DEF PairInv

LEMMA StepPairing == PairInv /\ [AccessNext]_accessVars => PairInv'
<1> SUFFICES ASSUME PairInv, [AccessNext]_accessVars PROVE PairInv'
  OBVIOUS
<1>1. CASE UNCHANGED accessVars
  <2>1. UNCHANGED <<file, loopVars, command, commands, fresh, told, saved, misses>>
    BY <1>1 DEF accessVars, outside
  <2>2. AccessTypeOK'
    BY <1>1 DEF PairInv, AccessTypeOK, accessVars, loopVars, outside
  <2>3. QED BY <2>1, <2>2, StepOutside
<1>2. CASE AccessNext
  <2>0. AccessTypeOK'
    BY <1>2, StepAccessTypes DEF PairInv
  <2>1. CASE SaveAccess
    BY <2>0, <2>1, StepSave
  <2>2. CASE SayCodes
    BY <2>0, <2>2, StepSay
  <2>3. CASE ReadForCommand
    BY <2>0, <2>3, StepRead
  <2>4. ASSUME NEW s \in Senders, Confirm(s) PROVE PairInv'
    <3>1. UNCHANGED <<file, loopVars, command, commands, fresh, told, saved, misses>>
      BY <2>4 DEF Confirm
    <3>2. QED BY <2>0, <3>1, StepOutside
  <2>5. ASSUME NEW c \in Codes, CodeExpires(c) PROVE PairInv'
    <3>1. UNCHANGED <<file, loopVars, command, commands, fresh, told, saved, misses>>
      BY <2>5 DEF CodeExpires, outside
    <3>2. QED BY <2>0, <3>1, StepOutside
  <2>6. ASSUME NEW s \in Senders, GateDm(s) PROVE PairInv'
    BY <2>0, <2>6, StepLoop, StepAgain, StepNew DEF GateDm
  <2>7. CASE LoadAccess \/ BeginBatch \/ EndBatch \/ AbandonBatch \/ StayQuiet
    BY <2>0, <2>7, StepLoop
  <2>8. ASSUME NEW s, NEW c, NEW p,
               Pair(c) \/ Allow(s) \/ Revoke(s) \/ SetPolicy(p) \/ RefuseCommand
        PROVE  PairInv'
    BY <2>0, <2>8, StepCommand
  <2>9. QED
    BY <1>2, <2>1, <2>2, <2>3, <2>4, <2>5, <2>6, <2>7, <2>8 DEF AccessNext
<1>3. QED BY <1>1, <1>2

LEMMA PairingOf == PairInv => PairingSafe
<1> SUFFICES ASSUME PairInv, NEW c \in Codes
             PROVE  told[c] <= MaxReplies + (misses + commands) * (MaxReplies - 1)
  BY DEF PairingSafe, RepliesBounded, PairInv
<1>1. /\ misses \in Nat /\ commands \in Nat /\ Writes \in Nat /\ Lost \in Nat
      /\ Again \in Nat /\ MaxReplies \in Nat /\ told[c] \in Nat /\ saying[c] \in Nat
  BY LostIs, CountsAre, AccessAssumption DEF PairInv, AccessTypeOK
<1>2. Lost <= (misses + commands) * Again /\ (misses + commands) * Again \in Nat
  <2>1. commands = Writes \/ commands = Writes + 1
    BY <1>1 DEF Writes
  <2>2. (misses + commands) * Again = Lost \/ (misses + commands) * Again = Lost + Again
    BY <2>1, LostIs DEF PairInv, Lost
  <2>3. QED BY <1>1, <2>2
<1>3. told[c] + saying[c] <= MaxReplies + Lost
  BY DEF PairInv, Counted
<1>4. told[c] <= MaxReplies + (misses + commands) * Again
  BY <1>1, <1>2, <1>3
<1>5. QED BY <1>4 DEF Again

-----------------------------------------------------------------------------
LEMMA ChannelParts ==
  ASSUME [ChannelNext]_channelVars
  PROVE  /\ [PollNext]_pollVars /\ [OutNext]_outVars /\ [RoutingNext]_routingVars
         /\ [AsksNext]_askVars /\ [AccessNext]_accessVars /\ [DndNext]_dndVars
BY DEF ChannelNext, channelVars

(* In the composition of the channel as in its parts: no update the offset *)
(* has passed is lost, none is stored or told twice (telegram.rs); a reply *)
(* is sent again for nothing but a mark that was missed, and one the chat  *)
(* has not got is found as undelivered or was taken as backlog (chat.rs).  *)
THEOREM ChannelIsSafe == ChannelSpec => []TelegramSafe
<1>1. ChannelInit => PollInv /\ OutInv
  BY InitPoll, InitOut DEF ChannelInit
<1>2. PollInv /\ OutInv /\ [ChannelNext]_channelVars => PollInv' /\ OutInv'
  BY ChannelParts, StepPoll, StepOut
<1>3. OutInv => RepliesSafe
  BY OutAssumption DEF OutInv, RepliesSafe, ReplyFound, SentOnce, Messages
<1>4. PollInv /\ OutInv => TelegramSafe
  BY <1>3 DEF PollInv, TelegramSafe
<1>5. QED BY <1>1, <1>2, <1>4, PTL DEF ChannelSpec

(* What is written in a topic is typed only into sessions that have held   *)
(* it since, however batches, registrations, switches and the sessions'    *)
(* subscriptions interleave (telegram.rs, agent_registry.rs).              *)
THEOREM TopicsAreKeptApart == ChannelSpec => []TopicsKeepApart
<1>1. ChannelInit => TopicInv
  BY InitTopics DEF ChannelInit
<1>2. TopicInv /\ [ChannelNext]_channelVars => TopicInv'
  BY ChannelParts, StepTopics
<1>3. TopicInv => TopicsKeepApart
  BY DEF TopicInv
<1>4. QED BY <1>1, <1>2, <1>3, PTL DEF ChannelSpec

(* A question with buttons is answered once, with what the operator's taps *)
(* amount to, and no row of one is without its keyboard (server.rs,        *)
(* telegram.rs, pending_asks.rs).                                          *)
THEOREM AsksAreSafe == ChannelSpec => []AsksSafe
<1>1. ChannelInit => AskInv
  BY InitAsks DEF ChannelInit
<1>2. AskInv /\ [ChannelNext]_channelVars => AskInv'
  BY ChannelParts, StepAsks
<1>3. AskInv => AsksSafe
  BY DEF AskInv
<1>4. QED BY <1>1, <1>2, <1>3, PTL DEF ChannelSpec

(* A stranger is told a code only after it was written down, and no        *)
(* oftener than the cap and what was lost of the count allow, with the     *)
(* loop and the commands each on a copy of the file (channel_state.rs).    *)
THEOREM PairingIsSafe == ChannelSpec => []PairingSafe
<1>1. ChannelInit => PairInv
  BY InitPairing DEF ChannelInit
<1>2. PairInv /\ [ChannelNext]_channelVars => PairInv'
  BY ChannelParts, StepPairing
<1>3. QED BY <1>1, <1>2, PairingOf, PTL DEF ChannelSpec

(* The types of the six parts.                                             *)
THEOREM ChannelTypes == ChannelSpec => []ChannelTypeOK
<1> DEFINE Inv == PollInv /\ OutInv /\ TopicInv /\ AskInv /\ PairInv /\ QuietInv
<1>1. ChannelInit => Inv
  BY InitPoll, InitOut, InitTopics, InitAsks, InitPairing, InitQuiet DEF ChannelInit
<1>2. Inv /\ [ChannelNext]_channelVars => Inv'
  BY ChannelParts, StepPoll, StepOut, StepTopics, StepAsks, StepPairing, StepQuiet
<1>3. Inv => ChannelTypeOK
  BY DEF PollInv, OutInv, TopicInv, AskInv, PairInv, QuietInv, ChannelTypeOK
<1>4. QED BY <1>1, <1>2, <1>3, PTL DEF ChannelSpec

(* A message accepted in a quiet time is not published to its session      *)
(* before the time ended, was switched off or the session asked for its    *)
(* backlog, whatever sends, drains and switches interleave (server.rs).    *)
THEOREM QuietHoursAreKept == ChannelSpec => QuietHours
<1>1. ChannelInit => QuietInv
  BY InitQuiet DEF ChannelInit
<1>2. QuietInv /\ [ChannelNext]_channelVars => QuietInv'
  BY ChannelParts, StepQuiet
<1>3. QuietInv /\ [ChannelNext]_channelVars
      => [\A m \in held : m \in held' => reached'[m] = reached[m]]_dndVars
  BY ChannelParts, StepHolds
<1>4. QED BY <1>1, <1>2, <1>3, PTL DEF ChannelSpec, QuietHours
=============================================================================
