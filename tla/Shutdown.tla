-------------------------------- MODULE Shutdown --------------------------------
(***************************************************************************)
(* How a `claudebase run` ends (supervisor/mod.rs, `run` and the module    *)
(* `shutdown`, on unix).  `claude` runs on a terminal of its own, inside   *)
(* the supervisor, and cannot see that the operator's is gone.  Threads of *)
(* the supervisor: one copies the child's output to the operator, one the  *)
(* operator's keys to the child, one watches for a request to end and      *)
(* climbs a ladder of signals, the main one waits for the child.           *)
(*                                                                         *)
(* All but the main thread leave when they see `done`.  It is set by the   *)
(* main thread once the child is gone, and by the copying thread when it   *)
(* can copy no more.                                                       *)
(***************************************************************************)
CONSTANT Heeded \* the signals a child may leave on, SIGKILL aside

ASSUME ShutdownAssumption == Heeded \subseteq {"hup", "term"}

VARIABLES child,     \* "runs", "leaving" (saving what it has) or "dead"
          heeds,     \* the signals this child leaves on
          says,      \* the child has written what is not copied yet
          terminal,  \* the operator's: "there" or "gone"
          requested, \* REQUESTED: the session is to end
          done,      \* `done`
          watcher,   \* "watching", its rung of the ladder, or "over"
          copier,    \* pump_out: "copying" or "over"
          keyboard,  \* the thread of the operator's keys: "reading" or "over"
          main       \* "waits", "reaped", "told", "restored" or "exited"

ended == <<child, heeds, says, terminal>>
threads == <<requested, done, watcher, copier, keyboard, main>>
shutdownVars == <<ended, threads>>

ShutdownTypeOK ==
    /\ child \in {"runs", "leaving", "dead"} /\ heeds \subseteq Heeded
    /\ terminal \in {"there", "gone"} /\ {says, requested, done} \subseteq BOOLEAN
    /\ watcher \in {"watching", "hup", "term", "over"}
    /\ copier \in {"copying", "over"} /\ keyboard \in {"reading", "over"}
    /\ main \in {"waits", "reaped", "told", "restored", "exited"}

ShutdownInit ==
    /\ child = "runs" /\ heeds \in SUBSET Heeded /\ says = FALSE
    /\ terminal = "there" /\ requested = FALSE /\ done = FALSE
    /\ watcher = "watching" /\ copier = "copying" /\ keyboard = "reading"
    /\ main = "waits"

Running == main # "exited"  \* exit ends every thread

-----------------------------------------------------------------------------
(* The child and the operator.                                             *)

\* The child writes to its terminal, on its way out too.
Write ==
    /\ child # "dead" /\ says' = TRUE
    /\ UNCHANGED <<child, heeds, terminal, threads>>

\* The operator ends the conversation.
Quit ==
    /\ child = "runs" /\ terminal = "there" /\ keyboard = "reading"
    /\ child' = "leaving" /\ UNCHANGED <<heeds, says, terminal, threads>>

Leave ==
    /\ child = "leaving" /\ child' = "dead"
    /\ UNCHANGED <<heeds, says, terminal, threads>>

TerminalGoes ==
    /\ terminal = "there" /\ terminal' = "gone"
    /\ UNCHANGED <<child, heeds, says, threads>>

\* SIGHUP, SIGTERM or SIGINT to the supervisor: the handler only stores.
OnSignal ==
    /\ Running /\ requested' = TRUE
    /\ UNCHANGED <<ended, done, watcher, copier, keyboard, main>>

-----------------------------------------------------------------------------
(* The threads.                                                            *)

\* What the child wrote reaches the operator, or the terminal takes no more;
\* a child that is gone has closed its end.
Copy ==
    /\ Running /\ copier = "copying" /\ says /\ terminal = "there"
    /\ says' = FALSE /\ UNCHANGED <<child, heeds, terminal, threads>>

CopyEnds ==
    /\ Running /\ copier = "copying"
    /\ \/ says /\ terminal = "gone"
       \/ ~says /\ child = "dead"
    /\ copier' = "over" /\ done' = TRUE
    /\ UNCHANGED <<ended, requested, watcher, keyboard, main>>

\* The thread of the keys reads the end of the terminal, or cannot write.
KeysEnd ==
    /\ Running /\ keyboard = "reading"
    /\ terminal = "gone" \/ child = "dead"
    /\ keyboard' = "over" /\ requested' = TRUE
    /\ UNCHANGED <<ended, done, watcher, copier, main>>

\* signal_child(sig).
Signalled(sig) ==
    /\ child' = CASE child = "dead" -> "dead"
                  [] sig = "kill" -> "dead"
                  [] sig \in heeds -> "leaving"
                  [] OTHER -> child
    /\ UNCHANGED <<heeds, says, terminal>>

\* One look of the watcher, and of the ladder while a grace runs.
WatcherLeaves ==
    /\ Running /\ watcher # "over" /\ done
    /\ watcher' = "over"
    /\ UNCHANGED <<ended, requested, done, copier, keyboard, main>>

FirstRung ==
    /\ Running /\ watcher = "watching" /\ ~done /\ requested
    /\ Signalled("hup") /\ watcher' = "hup"
    /\ UNCHANGED <<requested, done, copier, keyboard, main>>

\* A grace is over.  The last look at `done` was before the last sleep.
RungOf == [hup |-> "term", term |-> "kill"]

\* Mutant: SIGKILL is never sent.
NextRungOnce ==
    /\ Running /\ watcher = "hup"
    /\ Signalled("term") /\ watcher' = "over"
    /\ UNCHANGED <<requested, done, copier, keyboard, main>>

NextRung ==
    /\ Running /\ watcher \in DOMAIN RungOf
    /\ Signalled(RungOf[watcher])
    /\ watcher' = IF watcher = "hup" THEN "term" ELSE "over"
    /\ UNCHANGED <<requested, done, copier, keyboard, main>>

\* The main thread: wait, tell the others, give the terminal back, let the
\* last output through for a moment, exit.
Reap ==
    /\ main = "waits" /\ child = "dead" /\ main' = "reaped"
    /\ UNCHANGED <<ended, requested, done, watcher, copier, keyboard>>

Tell ==
    /\ main = "reaped" /\ main' = "told" /\ done' = TRUE
    /\ UNCHANGED <<ended, requested, watcher, copier, keyboard>>

Restore ==
    /\ main = "told" /\ main' = "restored"
    /\ UNCHANGED <<ended, requested, done, watcher, copier, keyboard>>

Exit ==
    /\ main = "restored" /\ main' = "exited"
    /\ UNCHANGED <<ended, requested, done, watcher, copier, keyboard>>

Ladder == WatcherLeaves \/ FirstRung \/ NextRung
Ending == Reap \/ Tell \/ Restore \/ Exit

ShutdownNext ==
    \/ Write \/ Quit \/ Leave \/ TerminalGoes \/ OnSignal
    \/ Copy \/ CopyEnds \/ KeysEnd \/ Ladder \/ Ending

(* Threads are scheduled, and a child that has taken a signal to heart     *)
(* ends.                                                                   *)
ShutdownFairness ==
    /\ WF_shutdownVars(Ladder) /\ WF_shutdownVars(Ending)
    /\ WF_shutdownVars(Leave) /\ WF_shutdownVars(KeysEnd)
    /\ WF_shutdownVars(CopyEnds)

ShutdownSpec == ShutdownInit /\ [][ShutdownNext]_shutdownVars /\ ShutdownFairness

-----------------------------------------------------------------------------
(* Properties.                                                             *)

\* A session that was asked to end while the operator's terminal takes its
\* output ends, whatever its child thinks of signals: the supervisor exits and
\* leaves no child behind (run and shutdown::escalate: "SIGKILL last and
\* bounded").  A terminal that goes meanwhile is NoHostage's case.
SessionEnds ==
    (requested /\ terminal = "there") ~> (main = "exited" \/ terminal = "gone")

\* "SIGKILL last and bounded: a wedged child must not be able to hold the
\* operator's transcript hostage indefinitely" (mod.rs:118-120): whatever
\* became of the terminal, the child of a session asked to end dies.
NoHostage == requested ~> child = "dead"
=============================================================================
