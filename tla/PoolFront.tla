------------------------------ MODULE PoolFront -----------------------------
(***************************************************************************)
(* Pool dispatch from end to end: the tables of Pool, the HTTP handlers of *)
(* the daemon that stand between a gateway and the tables (pool.rs: http,  *)
(* wait_for, clear_worker, deliver), and on the worker's machine the       *)
(* injector that types job lines and /clear into the session               *)
(* (supervisor/inject.rs: run).                                            *)
(*                                                                         *)
(* A handler releases the writer between its steps, so everything else may *)
(* happen in between.  A line is on its way (posted) until the injector    *)
(* has it (queue), and known to the session (todo) once it was submitted.  *)
(***************************************************************************)
EXTENDS Pool

CONSTANTS Clears,       \* clear requests of gateways
          ClearTimeout  \* CLEAR_TIMEOUT_MS in ticks

ASSUME FrontAssumption == ClearTimeout \in Nat /\ ClearTimeout < ClearMark

VARIABLES
    poll,    \* [Reqs -> "idle" | "armed" | "leased" | "asleep"], a long poll
    woken,   \* [Reqs -> BOOLEAN], CHANGED fired since the poll registered
    posted,  \* lines a handler has yet to hand to the worker
    queue,   \* [Agents -> set of lines] waiting in the injector
    gate,    \* [Agents -> BOOLEAN], no dialog up and no operator draft
    todo,    \* [Agents -> SUBSET Reqs], jobs in the session's context
    phase,   \* [Clears -> ...], where the HTTP handler of a clear stands
    target,  \* [Clears -> Agents \cup {NoOne}]
    left,    \* [Clears -> 0..ClearTimeout], ticks until clear_timeout
    asked    \* [Agents -> SUBSET Clears], clears waiting in the injector

session == <<queue, gate, todo, asked>>
handlers == <<phase, target, left>>
polls == <<poll, woken>>
frontVars == <<polls, posted, session, handlers>>
allVars == <<vars, frontVars>>

Lines == [to : Agents, req : Reqs, kind : {"job", "cancel"}]
Line(a, r, k) == [to |-> a, req |-> r, kind |-> k]
Phases == {"idle", "marked", "waiting", "ending"}

FrontTypeOK ==
    /\ TypeOK
    /\ poll \in [Reqs -> {"idle", "armed", "leased", "asleep"}]
    /\ woken \in [Reqs -> BOOLEAN]
    /\ posted \in SUBSET Lines
    /\ queue \in [Agents -> SUBSET Lines]
    /\ gate \in [Agents -> BOOLEAN]
    /\ todo \in [Agents -> SUBSET Reqs]
    /\ phase \in [Clears -> Phases]
    /\ target \in [Clears -> Agents \cup {NoOne}]
    /\ left \in [Clears -> 0..ClearTimeout]
    /\ asked \in [Agents -> SUBSET Clears]

FrontInit ==
    /\ Init
    /\ poll = [r \in Reqs |-> "idle"] /\ woken = [r \in Reqs |-> FALSE]
    /\ posted = {}
    /\ queue = [a \in Agents |-> {}]
    /\ gate = [a \in Agents |-> TRUE]
    /\ todo = [a \in Agents |-> {}]
    /\ phase = [c \in Clears |-> "idle"]
    /\ target = [c \in Clears |-> NoOne]
    /\ left = [c \in Clears |-> 0]
    /\ asked = [a \in Agents |-> {}]

-----------------------------------------------------------------------------
(* Long polls.                                                             *)

\* Mutant of Changed: a poll registers when it goes to sleep, not before.
ChangedWakesSleepers ==
    /\ woken' = [r \in Reqs |-> woken[r] \/ poll[r] = "asleep"]
    /\ UNCHANGED poll

(* changed(): every poll that has registered is woken.                     *)
Changed ==
    /\ woken' = [r \in Reqs |-> woken[r] \/ poll[r] # "idle"]
    /\ UNCHANGED poll

(* The head of wait_for's loop: CHANGED.notified() before the look.  A poll *)
(* that sleeps gets here by a change or at its deadline.                   *)
Arm(r) ==
    /\ poll[r] \in {"idle", "asleep"}
    /\ poll' = [poll EXCEPT ![r] = "armed"]
    /\ woken' = [woken EXCEPT ![r] = FALSE]
    /\ UNCHANGED <<vars, posted, session, handlers>>

(* read_job() on a final state; its stamp is a step of its own.            *)
SeenFinal(r) ==
    /\ state[r] \in Final
    /\ IF r \in reads THEN UNCHANGED vars ELSE SeeFinal(r)

(* read_job and what the poll does with the answer: gone or final ends it, *)
(* a lease does past the deadline.                                         *)
Look(r) ==
    /\ poll[r] = "armed"
    /\ \/ state[r] = "none" /\ UNCHANGED vars /\ poll' = [poll EXCEPT ![r] = "idle"]
       \/ SeenFinal(r) /\ poll' = [poll EXCEPT ![r] = "idle"]
       \/ /\ state[r] = "leased" /\ UNCHANGED vars
          /\ \E p \in {"leased", "idle"} : poll' = [poll EXCEPT ![r] = p]
    /\ UNCHANGED <<woken, posted, session, handlers>>

(* It has seen a lease and waits, if nothing has woken it before.          *)
Sleep(r) ==
    /\ poll[r] = "leased"
    /\ poll' = [poll EXCEPT ![r] = "asleep"]
    /\ UNCHANGED <<vars, woken, posted, session, handlers>>

-----------------------------------------------------------------------------
(* Jobs.                                                                   *)

(* The dispatch handler: lease, then (deliver) store and publish the line. *)
DispatchCall(r, a, pinned, t) ==
    /\ Dispatch(PoolOf[a], r, a, pinned, t)
    /\ posted' = posted \cup {Line(a, r, "job")}
    /\ Changed
    /\ UNCHANGED <<session, handlers>>

CancelCall(r) ==
    /\ Cancel(r)
    /\ posted' = posted \cup {Line(worker[r], r, "cancel")}
    /\ Changed
    /\ UNCHANGED <<session, handlers>>

(* deliver() reaches the worker's injector; the lines of two handlers are  *)
(* not ordered.                                                            *)
Deliver(l) ==
    /\ l \in posted /\ alive[l.to]
    /\ posted' = posted \ {l}
    /\ queue' = [queue EXCEPT ![l.to] = @ \cup {l}]
    /\ UNCHANGED <<vars, polls, gate, todo, asked, handlers>>

(* The injector submits everything that waits as one block.                *)
Inject(a) ==
    /\ queue[a] # {} /\ gate[a]
    /\ LET named(k) == {r \in Reqs : Line(a, r, k) \in queue[a]}
       IN todo' = [todo EXCEPT ![a] = (@ \cup named("job")) \ named("cancel")]
    /\ queue' = [queue EXCEPT ![a] = {}]
    /\ UNCHANGED <<vars, polls, posted, gate, asked, handlers>>

(* A dialog comes up or the operator starts a line; and back.              *)
ToggleGate(a) ==
    /\ gate' = [gate EXCEPT ![a] = ~@]
    /\ UNCHANGED <<vars, polls, posted, queue, todo, asked, handlers>>

(* claudebase pool reply / fail, run by the session for a job it knows; a  *)
(* job that was given to another session answers with an error.            *)
AnswerCall(a, r, s) ==
    /\ r \in todo[a]
    /\ todo' = [todo EXCEPT ![a] = @ \ {r}]
    /\ IF Owns(a, r) THEN Answer(a, r, s) /\ Changed ELSE UNCHANGED <<vars, polls>>
    /\ UNCHANGED <<posted, queue, gate, asked, handlers>>

ReadyCall(a) ==
    /\ Ready(a) /\ Changed
    /\ UNCHANGED <<posted, session, handlers>>

-----------------------------------------------------------------------------
(* One clear: POST /pool/<pool>/workers/<id>/clear, in three steps of the  *)
(* handler (clear_worker) and one of the injector.                         *)

Marked == {c \in Clears : phase[c] = "marked"}
Waiting == {c \in Clears : phase[c] = "waiting"}
Ending == {c \in Clears : phase[c] = "ending"}

(* A clear_id is never used twice. *)
ClearCall(c, a) ==
    /\ phase[c] = "idle" /\ \A b \in Agents : c \notin asked[b]
    /\ BeginClear(a)
    /\ phase' = [phase EXCEPT ![c] = "marked"]
    /\ target' = [target EXCEPT ![c] = a]
    /\ UNCHANGED <<polls, posted, session, left>>

\* Mutant of AskSupervisor: the handler waits for as long as the mark lasts.
AskSupervisorForMark(c) ==
    /\ c \in Marked
    /\ phase' = [phase EXCEPT ![c] = "waiting"]
    /\ asked' \in {asked, [asked EXCEPT ![target[c]] = @ \cup {c}]}
    /\ left' = [left EXCEPT ![c] = ClearMark]
    /\ UNCHANGED <<vars, polls, posted, queue, gate, todo, target>>

(* The waiter is entered and the frame published.  It reaches the session, *)
(* or nobody subscribes, or it goes to a subscriber whose connection is    *)
(* gone.                                                                   *)
AskSupervisor(c) ==
    /\ c \in Marked
    /\ \/ /\ alive[target[c]]
          /\ phase' = [phase EXCEPT ![c] = "waiting"]
          /\ asked' = [asked EXCEPT ![target[c]] = @ \cup {c}]
       \/ /\ phase' \in {[phase EXCEPT ![c] = p] : p \in {"waiting", "ending"}}
          /\ UNCHANGED asked
    /\ left' = [left EXCEPT ![c] = IF phase'[c] = "waiting" THEN ClearTimeout ELSE 0]
    /\ UNCHANGED <<vars, polls, posted, queue, gate, todo, target>>

(* The injector types /clear when no message waits, which empties the      *)
(* session's context or fails, and reports it; the report finds the waiter *)
(* of that clear, or nobody waits any more, or it never arrives.           *)
RunClear(a, c) ==
    /\ c \in asked[a]
    /\ queue[a] = {} /\ gate[a]
    /\ asked' = [asked EXCEPT ![a] = @ \ {c}]
    /\ todo' \in {todo, [todo EXCEPT ![a] = {}]}
    /\ \/ /\ alive[a] /\ c \in Waiting /\ target[c] = a
          /\ phase' = [phase EXCEPT ![c] = "ending"]
          /\ left' = [left EXCEPT ![c] = 0]
       \/ UNCHANGED <<phase, left>>
    /\ UNCHANGED <<vars, polls, posted, queue, gate, target>>

\* Mutant of GiveUp: the handler waits as long as the session is connected.
GiveUpIfGone(c) ==
    /\ c \in Waiting /\ left[c] = 0 /\ ~alive[target[c]]
    /\ phase' = [phase EXCEPT ![c] = "ending"]
    /\ UNCHANGED <<vars, polls, posted, session, target, left>>

(* clear_timeout: the handler stops waiting; the injector is not told.     *)
GiveUp(c) ==
    /\ c \in Waiting /\ left[c] = 0
    /\ phase' = [phase EXCEPT ![c] = "ending"]
    /\ UNCHANGED <<vars, polls, posted, session, target, left>>

ClearReturns(c) ==
    /\ c \in Ending
    /\ EndClear(target[c]) /\ Changed
    /\ phase' = [phase EXCEPT ![c] = "idle"]
    /\ target' = [target EXCEPT ![c] = NoOne]
    /\ UNCHANGED <<posted, session, left>>

-----------------------------------------------------------------------------
(* The rest of the daemon.                                                 *)

Unannounced == UNCHANGED <<polls, posted, session, handlers>>

(* sweep() announces what it changed, retention excepted; one that broke   *)
(* off announces nothing.                                                  *)
SweepAnnounced ==
    /\ Sweep
    /\ IF \/ \E r \in Reqs : Expires(r) \/ Lost(r)
          \/ \E a \in Agents : suspect[a] /\ ~suspect'[a]
       THEN Changed
       ELSE UNCHANGED polls
    /\ UNCHANGED <<posted, session, handlers>>

(* The handlers of the old daemon are gone with their polls, and a line    *)
(* one of them had not stored yet is lost; the session lives on.           *)
RestartDaemon ==
    /\ Restart
    /\ poll' = [r \in Reqs |-> "idle"] /\ woken' = [r \in Reqs |-> FALSE]
    /\ posted' \in SUBSET posted
    /\ phase' = [c \in Clears |-> "idle"]
    /\ target' = [c \in Clears |-> NoOne]
    /\ left' = [c \in Clears |-> 0]
    /\ UNCHANGED session

(* A handler that is not waiting takes no time to speak of: the mark       *)
(* outlives clear_timeout by five seconds for its two statements.          *)
TimePasses ==
    /\ Marked \cup Ending = {} /\ \A c \in Waiting : left[c] > 0
    /\ Tick
    /\ left' = [c \in Clears |-> Elapse(left[c])]
    /\ UNCHANGED <<polls, posted, session, phase, target>>

HandlerStep ==
    \/ \E r \in Reqs : Arm(r) \/ Look(r) \/ Sleep(r) \/ CancelCall(r)
    \/ \E r \in Reqs, a \in Agents, pinned \in BOOLEAN, t \in 1..MaxLease :
          DispatchCall(r, a, pinned, t)
    \/ \E c \in Clears, a \in Agents : ClearCall(c, a)
    \/ \E l \in posted : Deliver(l)
    \/ RestartDaemon

ClearStep(c) == AskSupervisor(c) \/ GiveUp(c) \/ ClearReturns(c)

SupervisorStep ==
    \E a \in Agents :
        \/ Inject(a) \/ ToggleGate(a) \/ ReadyCall(a)
        \/ \E c \in Clears : RunClear(a, c)
        \/ \E r \in Reqs, s \in {"done", "failed"} : AnswerCall(a, r, s)

TableStep ==
    \/ SweepAnnounced \/ TimePasses
    \/ \E a \in Agents : (Connect(a) \/ Join(a) \/ Disconnect(a)) /\ Unannounced
    \/ \E r \in Reqs : Stamp(r) /\ Unannounced
    \/ \E S \in SUBSET Reqs, r \in Reqs : SweepCut(S, r) /\ Unannounced

FrontNext ==
    HandlerStep \/ (\E c \in Clears : ClearStep(c)) \/ SupervisorStep \/ TableStep

FrontSpec == FrontInit /\ [][FrontNext]_allVars

(* The runtime goes on with a handler it has started, and time passes.     *)
FairFrontSpec ==
    /\ FrontSpec
    /\ \A c \in Clears : WF_allVars(ClearStep(c))
    /\ WF_allVars(TimePasses)

-----------------------------------------------------------------------------
(* pool.rs, wait_for(): a change between the check and the wait is not     *)
(* missed.  (A sweep that breaks off tells nobody what it expired.)        *)
NoMissedWakeup ==
    \A r \in Reqs :
        poll[r] = "asleep" /\ state[r] \in Final \ {"expired"} => woken[r]

(* pool.rs, begin_clear(): while a handler waits for its clear no job is   *)
(* leased to the worker, and no second clear of it is under way: the mark  *)
(* outlives the handler, which takes it away by worker, not by clear.      *)
ClearsExclude ==
    \A c \in Clears : phase[c] # "idle" =>
        /\ Leased(target[c]) = {}
        /\ \A d \in Clears \ {c} : target[d] # target[c]

(* docs/design/pool-dispatch.md, clear is "synchronous, up to 60 s": it    *)
(* returns even when the session never lets /clear be typed.               *)
ClearReturnsInTime == \A c \in Clears : phase[c] # "idle" ~> phase[c] = "idle"

(* pool.rs, begin_clear(): no job lands on a worker "while its context is  *)
(* being thrown away": a /clear that is typed finds no leased job in it.   *)
ClearSparesJobs ==
    [][\A a \in Agents, c \in Clears :
          RunClear(a, c) => Leased(a) \cap todo[a] \subseteq todo'[a]]_allVars
=============================================================================
