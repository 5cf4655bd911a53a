----------------------------- MODULE TelegramPoll -----------------------------
(***************************************************************************)
(* The Telegram loop of the daemon (daemon/telegram.rs): it fetches        *)
(* updates from the offset in daemon_state, parks voice notes for the      *)
(* transcriber, moves the offset, stores the batch in one transaction and  *)
(* publishes it.  Transcripts come back as updates of a later batch.       *)
(*                                                                         *)
(* The daemon may die between any two statements; the tables stay.         *)
(***************************************************************************)
EXTENDS Naturals, FiniteSets

CONSTANTS MaxUpdate,   \* updates Telegram will have, numbered from 1
          Voices,      \* those that are voice notes,
          Poison,      \* ... of which these take the transcriber's process down
          Others,      \* neither text nor voice, or not let in: only the offset moves
          MaxAttempts, \* MAX_VOICE_ATTEMPTS
          MaxCuts      \* bound: crashes and failing statements

Updates == 1..MaxUpdate
Texts == Updates \ (Voices \cup Others)

ASSUME PollAssumption ==
    /\ MaxUpdate \in Nat /\ MaxAttempts \in Nat /\ MaxCuts \in Nat
    /\ Voices \in SUBSET Updates /\ Poison \in SUBSET Voices
    /\ Others \in SUBSET (Updates \ Voices)

NoCopies == [u \in Updates |-> 0]

VARIABLES
    arrived, \* updates up to this number are at Telegram
    offset,  \* telegram.last_update_id
    parked,  \* voice notes with a row in pending_voice
    tries,   \* [Updates -> Nat], its attempts, one more than allowed at most
    rows,    \* [Updates -> Nat], chat_messages stored for an update
    loop,    \* the statement the loop is at
    batch,   \* updates of the batch that are not voice notes
    notes,   \* voice notes of the batch, to be parked
    back,    \* [Updates -> Nat], transcripts of the batch
    top,     \* fetched_max_id, 0: nothing fetched
    hand,    \* [Updates -> Nat], notes on their way to the worker
    busy,    \* [Updates -> Nat], notes being transcribed
    done,    \* [Updates -> Nat], transcripts on their way back
    heard,   \* [Updates -> Nat], how often it was published or answered
    cuts     \* crashes and failures so far

tables == <<offset, parked, tries, rows>>
work == <<batch, notes, back, top>>
voice == <<hand, busy, done>>
pollVars == <<arrived, tables, loop, work, voice, heard, cuts>>

Copies == [Updates -> Nat]
Held(f) == {u \in Updates : f[u] > 0}

(* The notes somebody is at work on.                                       *)
Carried == Held(hand) \cup Held(busy) \cup Held(done) \cup Held(back)

PollTypeOK ==
    /\ arrived \in 0..MaxUpdate /\ offset \in 0..arrived
    /\ parked \in SUBSET Voices
    /\ tries \in [Updates -> 0..MaxAttempts + 1] /\ rows \in Copies
    /\ loop \in {"poll", "park", "move", "commit", "settle", "tell", "gone"}
    /\ batch \in SUBSET (Updates \ Voices) /\ notes \in SUBSET Voices
    /\ back \in Copies /\ top \in 0..arrived
    /\ hand \in Copies /\ busy \in Copies /\ done \in Copies
    /\ heard \in Copies /\ cuts \in 0..MaxCuts
    /\ Carried \cup Held(tries) \subseteq Voices

PollInit ==
    /\ arrived = 0 /\ offset = 0
    /\ parked = {} /\ tries = NoCopies /\ rows = NoCopies
    /\ loop = "poll" /\ batch = {} /\ notes = {} /\ back = NoCopies /\ top = 0
    /\ hand = NoCopies /\ busy = NoCopies /\ done = NoCopies
    /\ heard = NoCopies /\ cuts = 0

Add(f, S) == [u \in Updates |-> IF u \in S THEN f[u] + 1 ELSE f[u]]
Plus(f, g) == [u \in Updates |-> f[u] + g[u]]

-----------------------------------------------------------------------------
(* One turn of the loop.                                                   *)

Arrive ==
    /\ arrived < MaxUpdate
    /\ arrived' = arrived + 1
    /\ UNCHANGED <<tables, loop, work, voice, heard, cuts>>

\* Mutant of Fetched: the update the offset stands at is asked for again.
FetchedAgain == {u \in Updates : offset <= u /\ u <= arrived}

(* getUpdates from offset + 1: Telegram forgets what lies below.           *)
Fetched == {u \in Updates : offset < u /\ u <= arrived}

Highest(S) == CHOOSE u \in S : \A v \in S : v <= u

(* Fetch, take the finished transcripts, hand the notes to the worker.     *)
(* With nothing to do the loop sleeps and polls again.                     *)
Fetch ==
    /\ loop = "poll" /\ (Fetched # {} \/ Held(done) # {})
    /\ loop' = "park"
    /\ batch' = Fetched \ Voices /\ notes' = Fetched \cap Voices
    /\ top' = IF Fetched = {} THEN 0 ELSE Highest(Fetched)
    /\ back' = done /\ done' = NoCopies
    /\ hand' = Add(hand, notes')
    /\ UNCHANGED <<arrived, tables, busy, heard, cuts>>

\* Mutant of Park: the notes are left to the worker's queue.
ParkNothing ==
    /\ loop = "park"
    /\ loop' = "move"
    /\ UNCHANGED <<arrived, tables, work, voice, heard, cuts>>

(* enqueue_pending_voice(): INSERT OR IGNORE, before the offset moves.     *)
Park ==
    /\ loop = "park"
    /\ loop' = "move"
    /\ parked' = parked \cup notes
    /\ UNCHANGED <<arrived, offset, tries, rows, work, voice, heard, cuts>>

(* set_offset_from_fetch(): a statement of its own, unconditional.         *)
Move ==
    /\ loop = "move"
    /\ loop' = "commit"
    /\ offset' = IF top > 0 THEN top ELSE offset
    /\ UNCHANGED <<arrived, parked, tries, rows, work, voice, heard, cuts>>

(* process_batch_with_pairing(), one transaction: every text and every     *)
(* transcript becomes a row; the offset is written forward only.           *)
Commit ==
    /\ loop = "commit"
    /\ loop' = "settle"
    /\ rows' = Plus(Add(rows, batch \ Others), back)
    /\ offset' = LET S == batch \cup Held(back) \cup {offset} IN Highest(S)
    /\ UNCHANGED <<arrived, parked, tries, work, voice, heard, cuts>>

Unpark(S) ==
    /\ parked' = parked \ S
    /\ tries' = [u \in Updates |-> IF u \in S THEN 0 ELSE tries[u]]

(* delete_pending_voice(): the notes whose transcripts are stored now.     *)
Settle ==
    /\ loop = "settle"
    /\ loop' = "tell"
    /\ Unpark(Held(back))
    /\ UNCHANGED <<arrived, offset, rows, work, voice, heard, cuts>>

Forget == batch' = {} /\ notes' = {} /\ back' = NoCopies /\ top' = 0

(* After the commit: notifications on the bus, answers to bot commands.    *)
Tell ==
    /\ loop = "tell"
    /\ loop' = "poll" /\ Forget
    /\ heard' = Plus(Add(heard, batch \ Others), back)
    /\ UNCHANGED <<arrived, tables, voice, cuts>>

Working == loop \in {"park", "move", "commit", "settle"}

\* Mutant of FailBatch: the failed batch is published all the same.
FailBatchButTell ==
    /\ Working /\ cuts < MaxCuts
    /\ cuts' = cuts + 1
    /\ loop' = "tell"
    /\ UNCHANGED <<arrived, tables, work, voice, heard>>

(* A statement fails: the rest of the batch is given up, with the          *)
(* transcripts in it.  (Some of the notes may have been parked, some       *)
(* settled.)                                                               *)
FailBatch ==
    /\ Working /\ cuts < MaxCuts
    /\ cuts' = cuts + 1
    /\ loop' = "poll" /\ Forget
    /\ \/ /\ loop = "park"
          /\ \E S \in SUBSET notes : parked' = parked \cup S
          /\ UNCHANGED tries
       \/ loop = "settle" /\ \E S \in SUBSET Held(back) : Unpark(S)
       \/ loop \in {"move", "commit"} /\ UNCHANGED <<parked, tries>>
    /\ UNCHANGED <<arrived, offset, rows, voice, heard>>

(* getUpdates answers 401: the bot is marked disconnected, the loop ends.  *)
Unauthorized ==
    /\ loop = "poll"
    /\ loop' = "gone"
    /\ UNCHANGED <<arrived, tables, work, voice, heard, cuts>>

-----------------------------------------------------------------------------
(* The transcription worker.                                               *)

\* Mutant of Begin: attempts are not counted.
BeginUncounted(u) ==
    /\ hand[u] > 0
    /\ hand' = [hand EXCEPT ![u] = @ - 1]
    /\ busy' = [busy EXCEPT ![u] = @ + 1]
    /\ UNCHANGED <<arrived, tables, loop, work, done, heard, cuts>>

(* transcribe_one(): the attempt is counted on the parked row, if it is    *)
(* there yet; after too many a placeholder takes the transcript's place.   *)
Begin(u) ==
    LET attempts == IF u \notin parked THEN 0
                    ELSE IF tries[u] > MaxAttempts THEN tries[u] ELSE tries[u] + 1 IN
    /\ hand[u] > 0
    /\ hand' = [hand EXCEPT ![u] = @ - 1]
    /\ tries' = [tries EXCEPT ![u] = attempts]
    /\ IF attempts > MaxAttempts
       THEN done' = Add(done, {u}) /\ UNCHANGED busy
       ELSE busy' = Add(busy, {u}) /\ UNCHANGED done
    /\ UNCHANGED <<arrived, offset, parked, rows, loop, work, heard, cuts>>

(* transcribe_voice_note(): a transcript, or the words that it failed.     *)
Finish(u) ==
    /\ busy[u] > 0 /\ u \notin Poison
    /\ busy' = [busy EXCEPT ![u] = @ - 1]
    /\ done' = Add(done, {u})
    /\ UNCHANGED <<arrived, tables, loop, work, hand, heard, cuts>>

(* The daemon is started again: every parked note goes to the worker.      *)
Restart ==
    /\ loop' = "poll" /\ Forget
    /\ hand' = [u \in Updates |-> IF u \in parked THEN 1 ELSE 0]
    /\ busy' = NoCopies /\ done' = NoCopies
    /\ UNCHANGED <<arrived, tables, heard>>

(* A panic or an OOM inside the transcriber.                               *)
Die(u) ==
    /\ busy[u] > 0 /\ u \in Poison
    /\ Restart
    /\ cuts' = IF cuts < MaxCuts THEN cuts + 1 ELSE cuts

Crash == cuts < MaxCuts /\ cuts' = cuts + 1 /\ Restart

-----------------------------------------------------------------------------
LoopStep == Fetch \/ Park \/ Move \/ Commit \/ Settle \/ Tell
VoiceStep(u) == Begin(u) \/ Finish(u) \/ Die(u)

PollNext ==
    \/ Arrive \/ LoopStep \/ FailBatch \/ Unauthorized \/ Crash
    \/ \E u \in Updates : VoiceStep(u)

PollSpec == PollInit /\ [][PollNext]_pollVars

(* The loop goes on for the life of the daemon and the worker takes what   *)
(* it is handed.  Parking a note takes far less time than transcribing it, *)
(* so that a note cannot kill the daemon before every single Park.         *)
PollFairness ==
    /\ WF_pollVars(LoopStep) /\ SF_pollVars(Park)
    /\ \A u \in Updates : WF_pollVars(VoiceStep(u))

PollFairSpec == PollSpec /\ PollFairness

-----------------------------------------------------------------------------
(* run_long_poll, "Park first, THEN move the offset": a voice note the     *)
(* offset has passed is parked, or stored as a message.                    *)
NoteSafe == \A u \in Voices : u <= offset => u \in parked \/ rows[u] > 0

(* load_offset, get_updates: what is not a voice note is stored once at    *)
(* most, whatever is fetched again and whenever the daemon dies.           *)
TextOnce == \A u \in Updates \ Voices : rows[u] <= 1

(* BatchOutcome, "a crash between insert and publish cannot deliver        *)
(* phantom messages": nothing is published that is not in the store.       *)
NoPhantom == \A u \in Updates : heard[u] <= rows[u]

(* What the loop owes an update, whatever fails and whenever the daemon    *)
(* dies: its note is kept, it is stored once, and nothing else is said.    *)
UpdatesSafe == NoteSafe /\ TextOnce /\ NoPhantom

(* A note nobody is at work on although it is parked.                      *)
Stranded(u) == u \in parked \ (Carried \cup notes)

(* MAX_VOICE_ATTEMPTS, "without it, that one note would be picked up again *)
(* on every restart, forever": a parked note becomes a message, also one   *)
(* that kills the daemon, unless a failing batch strands it until the next *)
(* start or the bot is disconnected.                                       *)
NoteArrives ==
    \A u \in Voices :
        u \in parked ~> rows[u] > 0 \/ Stranded(u) \/ loop = "gone"

(* process_batch_with_pairing, "either every row makes it OR none of them  *)
(* do": an update the offset has passed is in the store.                   *)
BatchWhole ==
    \A u \in Texts : loop = "poll" /\ u <= offset => rows[u] = 1
=============================================================================
