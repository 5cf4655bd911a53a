-------------------------------- MODULE Pool --------------------------------
(***************************************************************************)
(* The pool tables of the daemon (src/src/daemon/pool.rs): who is a worker *)
(* of which pool, which job is leased to whom, and the sweep that takes    *)
(* leases back.                                                            *)
(*                                                                         *)
(* A call of pool.rs that writes runs under the daemon's single writer and *)
(* is one step here; read_job, which does not, is two.                     *)
(* An absolute time in a column (expires_at, suspect_since, worker_gone_at,*)
(* clearing_until, first_read_at) is modelled by the ticks that are left   *)
(* until the code acts on it: the code only ever compares such a column    *)
(* with "now".  Which of several equally loaded free workers gets a job    *)
(* (last_assigned_at) is left open.                                        *)
(***************************************************************************)
EXTENDS Integers, FiniteSets

CONSTANTS Agents,       \* sessions that may join a pool
          Pools,
          PoolOf,       \* [Agents -> Pools], the --pool of a session
          Capacity,     \* [Agents -> 1..16], its --pool-capacity, clamped
          Reqs,         \* req_id's of the gateways
          NoOne,        \* not an agent
          MaxLease,     \* MAX_TIMEOUT_MS in ticks
          Cooldown,     \* SUSPECT_COOLDOWN_MS
          Grace,        \* LOST_GRACE_MS
          KeepRead,     \* KEEP_AFTER_READ_MS
          KeepUnread,   \* KEEP_UNREAD_MS
          ClearMark,    \* CLEAR_TIMEOUT_MS + 5_000
          MaxAttempts   \* a gateway's own cap on retries of one req_id

ASSUME PoolAssumption ==
    /\ IsFiniteSet(Agents) /\ IsFiniteSet(Reqs)
    /\ PoolOf \in [Agents -> Pools]
    /\ Capacity \in [Agents -> 1..16]
    /\ NoOne \notin Agents
    /\ MaxLease \in Nat \ {0} /\ Cooldown \in Nat \ {0} /\ Grace \in Nat \ {0}
    /\ KeepRead \in Nat \ {0} /\ KeepUnread \in Nat /\ KeepRead <= KeepUnread
    /\ ClearMark \in Nat \ {0} /\ MaxAttempts \in Nat \ {0}

VARIABLES
    alive,     \* [Agents -> BOOLEAN], agent_registry.state = 'alive'
    joined,    \* agents with a row in pool_members
    suspect,   \* pool_members.suspect
    cooldown,  \* ticks left until a suspect is trusted again
    clearing,  \* ticks left of the clearing_until mark, 0 when it has lapsed
    state,     \* pool_jobs.state; "none": no row; "lost": failed/worker_lost
    worker,    \* pool_jobs.worker
    lease,     \* ticks left of a lease
    grace,     \* ticks left for a vanished worker, or Unset
    keep,      \* ticks left until a final job is deleted, or Unset
    attempts,  \* pool_jobs.attempts
    reads      \* jobs a read_job has seen final and not stamped yet

members == <<joined, suspect, cooldown, clearing>>
jobs == <<state, worker, lease, grace, keep, attempts, reads>>
vars == <<alive, members, jobs>>

Unset == -1  \* a column that is NULL
\* Mutant of Retryable: a refusal by the worker is retried like a loss.
RetryableRefusal == {"expired", "lost", "failed"}

Final == {"done", "failed", "lost", "expired", "cancelled"}
Retryable == {"expired", "lost"}
JobStates == {"none", "leased"} \cup Final

TypeOK ==
    /\ alive \in [Agents -> BOOLEAN]
    /\ joined \in SUBSET Agents
    /\ suspect \in [Agents -> BOOLEAN]
    /\ cooldown \in [Agents -> 0..Cooldown]
    /\ clearing \in [Agents -> 0..ClearMark]
    /\ state \in [Reqs -> JobStates]
    /\ worker \in [Reqs -> Agents \cup {NoOne}]
    /\ lease \in [Reqs -> 0..MaxLease]
    /\ grace \in [Reqs -> {Unset} \cup 0..Grace]
    /\ keep \in [Reqs -> {Unset} \cup 0..KeepUnread]
    /\ attempts \in [Reqs -> 0..MaxAttempts]
    /\ reads \in SUBSET Reqs

Init ==
    /\ alive = [a \in Agents |-> FALSE]
    /\ joined = {}
    /\ suspect = [a \in Agents |-> FALSE]
    /\ cooldown = [a \in Agents |-> 0]
    /\ clearing = [a \in Agents |-> 0]
    /\ state = [r \in Reqs |-> "none"]
    /\ worker = [r \in Reqs |-> NoOne]
    /\ lease = [r \in Reqs |-> 0]
    /\ grace = [r \in Reqs |-> Unset]
    /\ keep = [r \in Reqs |-> Unset]
    /\ attempts = [r \in Reqs |-> 0]
    /\ reads = {}

-----------------------------------------------------------------------------
(* What the code reads from the two tables.                                *)

Leased(a) == {r \in Reqs : state[r] = "leased" /\ worker[r] = a}

Load(a) == Cardinality(Leased(a))

\* Mutant of Free: off by one at the capacity.
FreeOverCapacity(a) ==
    /\ a \in joined /\ alive[a] /\ ~suspect[a] /\ clearing[a] = 0
    /\ Load(a) <= Capacity[a]

\* Mutant of Free: the suspect flag is not looked at.
FreeIfSuspect(a) ==
    /\ a \in joined /\ alive[a] /\ clearing[a] = 0
    /\ Load(a) < Capacity[a]

(* Worker::state() = "free"; offline, suspect, clearing and busy are the   *)
(* ways to miss it, tested in that order.                                  *)
Free(a) ==
    /\ a \in joined
    /\ alive[a]
    /\ ~suspect[a]
    /\ clearing[a] = 0
    /\ Load(a) < Capacity[a]

LeastLoaded(a, p) ==
    \A b \in Agents : Free(b) /\ PoolOf[b] = p => Load(a) <= Load(b)

Less(a, b) == IF a < b THEN a ELSE b

\* Mutant of Elapse: a mark that was never set runs down as well.
ElapseUnguarded(left) == left - 1

Elapse(left) == IF left > 0 THEN left - 1 ELSE left

-----------------------------------------------------------------------------
(* Sessions come and go.  A membership row is never deleted.               *)

Connect(a) ==
    /\ ~alive[a]
    /\ alive' = [alive EXCEPT ![a] = TRUE]
    /\ UNCHANGED <<members, jobs>>

(* pool::join, a statement of its own after the registration committed.    *)
Join(a) ==
    /\ alive[a] /\ a \notin joined
    /\ joined' = joined \cup {a}
    /\ UNCHANGED <<alive, suspect, cooldown, clearing, jobs>>

Disconnect(a) ==
    /\ alive[a]
    /\ alive' = [alive EXCEPT ![a] = FALSE]
    /\ UNCHANGED <<members, jobs>>

(* The daemon restarts: the boot pass orphans every live row.              *)
Restart ==
    /\ alive' = [a \in Agents |-> FALSE]
    /\ reads' = {}
    /\ UNCHANGED <<members, state, worker, lease, grace, keep, attempts>>

-----------------------------------------------------------------------------
(* The gateway's calls.                                                    *)

(* A new row, or INSERT OR REPLACE over a lost one: every column the       *)
(* statement does not name is NULL again.                                  *)
Assign(r, a, timeout) ==
    /\ state' = [state EXCEPT ![r] = "leased"]
    /\ worker' = [worker EXCEPT ![r] = a]
    /\ lease' = [lease EXCEPT ![r] = timeout]
    /\ grace' = [grace EXCEPT ![r] = Unset]
    /\ keep' = [keep EXCEPT ![r] = Unset]
    /\ attempts' = [attempts EXCEPT ![r] = IF state[r] = "none" THEN 1 ELSE @ + 1]

(* dispatch() when it leases.  Its other outcomes (Existing, NoSuchPool,   *)
(* NoFreeWorker, WorkerBusy, WorkerUnavailable) change nothing.  With a    *)
(* worker_id the job goes to that worker or nowhere.                       *)
Dispatch(p, r, a, pinned, timeout) ==
    /\ state[r] \in {"none"} \cup Retryable
    /\ attempts[r] < MaxAttempts
    /\ PoolOf[a] = p
    /\ Free(a)
    /\ pinned \/ LeastLoaded(a, p)
    /\ Assign(r, a, timeout)
    /\ UNCHANGED <<alive, members, reads>>

(* read_job() sees a final state ...  (One read of a job at a time.)       *)
SeeFinal(r) ==
    /\ state[r] \in Final /\ r \notin reads
    /\ reads' = reads \cup {r}
    /\ UNCHANGED <<alive, members, state, worker, lease, grace, keep, attempts>>

(* ... and starts the short retention, in whatever state the job is by     *)
(* then; a job that was stamped before keeps its stamp.                    *)
Stamp(r) ==
    /\ r \in reads
    /\ reads' = reads \ {r}
    /\ keep' = [keep EXCEPT ![r] =
          IF state[r] = "none" THEN @ ELSE IF @ = Unset THEN KeepRead ELSE Less(@, KeepRead)]
    /\ UNCHANGED <<alive, members, state, worker, lease, grace, attempts>>

(* finished_at = now: the long retention, unless the short one runs.       *)
Retained(left) == IF left = Unset THEN KeepUnread ELSE left

(* A leased job reaches a final state.                                     *)
Finish(r, s) ==
    /\ state' = [state EXCEPT ![r] = s]
    /\ lease' = [lease EXCEPT ![r] = 0]
    /\ grace' = [grace EXCEPT ![r] = Unset]
    /\ keep' = [keep EXCEPT ![r] = Retained(@)]
    /\ UNCHANGED <<worker, attempts, reads>>

Cancel(r) ==
    /\ state[r] = "leased"
    /\ Finish(r, "cancelled")
    /\ UNCHANGED <<alive, members>>

-----------------------------------------------------------------------------
(* The worker's calls.  Each needs a session token, which only a live row  *)
(* resolves; the token is checked on another connection before the write,  *)
(* and the session may be gone when it comes.  A job that was given to     *)
(* another session refuses the caller before anything is written.          *)

Trust(a) ==
    /\ suspect' = [suspect EXCEPT ![a] = FALSE]
    /\ cooldown' = [cooldown EXCEPT ![a] = 0]
    /\ UNCHANGED <<joined, clearing>>

Owns(a, r) == state[r] # "none" /\ worker[r] = a

(* worker_reply and worker_fail: a lease in time is settled with s, a late *)
(* answer is discarded; the worker is trusted either way.                  *)
Answer(a, r, s) ==
    /\ Owns(a, r)
    /\ Trust(a)
    /\ IF state[r] = "leased" THEN Finish(r, s) ELSE UNCHANGED jobs
    /\ UNCHANGED alive

Reply(a, r) == Answer(a, r, "done")
Fail(a, r) == Answer(a, r, "failed")

Ready(a) ==
    /\ a \in joined
    /\ Trust(a)
    /\ UNCHANGED <<alive, jobs>>

-----------------------------------------------------------------------------
(* Throwing a worker's context away.                                       *)

\* Mutant of BeginClear: "free" alone is enough, whatever the worker holds.
BeginClearIfFree(a) ==
    /\ Free(a)
    /\ clearing' = [clearing EXCEPT ![a] = ClearMark]
    /\ UNCHANGED <<alive, joined, suspect, cooldown, jobs>>

\* Mutant of BeginClear: the mark lasts no longer than the handler waits.
BeginClearShort(a) ==
    /\ Free(a)
    /\ Leased(a) = {}
    /\ clearing' = [clearing EXCEPT ![a] = ClearMark - 1]
    /\ UNCHANGED <<alive, joined, suspect, cooldown, jobs>>

(* begin_clear(): only a free worker, and one that holds nothing even when *)
(* its capacity leaves room.                                               *)
BeginClear(a) ==
    /\ Free(a)
    /\ Leased(a) = {}
    /\ clearing' = [clearing EXCEPT ![a] = ClearMark]
    /\ UNCHANGED <<alive, joined, suspect, cooldown, jobs>>

EndClear(a) ==
    /\ clearing' = [clearing EXCEPT ![a] = 0]
    /\ UNCHANGED <<alive, joined, suspect, cooldown, jobs>>

-----------------------------------------------------------------------------
(* The sweep, every two seconds: expired leases, suspects whose cooldown   *)
(* has passed, vanished workers, retention; in that order, so a job that   *)
(* expires is not also lost, and one whose retention was over before it    *)
(* became final goes at once.                                              *)

\* Mutant of Expires: a worker that is connected keeps its lease.
ExpiresIfGone(r) == state[r] = "leased" /\ lease[r] = 0 /\ ~alive[worker[r]]

Expires(r) == state[r] = "leased" /\ lease[r] = 0

Orphaned(r) == state[r] = "leased" /\ ~Expires(r) /\ ~alive[worker[r]]

Lost(r) == Orphaned(r) /\ grace[r] = 0

Forgotten(r) ==
    /\ state[r] \in Final \/ Expires(r) \/ Lost(r)
    /\ keep[r] = 0

Distrusted(a) == \E r \in Reqs : Expires(r) /\ worker[r] = a

SweepJobs ==
    /\ state' = [r \in Reqs |-> IF Forgotten(r) THEN "none"
                               ELSE IF Expires(r) THEN "expired"
                               ELSE IF Lost(r) THEN "lost" ELSE state[r]]
    /\ worker' = [r \in Reqs |-> IF Forgotten(r) THEN NoOne ELSE worker[r]]
    /\ attempts' = [r \in Reqs |-> IF Forgotten(r) THEN 0 ELSE attempts[r]]
    /\ grace' = [r \in Reqs |->
          IF ~Orphaned(r) \/ Lost(r) THEN Unset
          ELSE IF grace[r] = Unset THEN Grace ELSE grace[r]]
    /\ keep' = [r \in Reqs |->
          IF Forgotten(r) THEN Unset
          ELSE IF Expires(r) \/ Lost(r) THEN Retained(keep[r]) ELSE keep[r]]
    /\ lease' = [r \in Reqs |-> IF Lost(r) THEN 0 ELSE lease[r]]
    /\ UNCHANGED reads

\* Mutant of SweepMembers: only the worker itself can lift the distrust.
SweepNeverTrusts ==
    /\ suspect' = [a \in Agents |-> Distrusted(a) \/ suspect[a]]
    /\ cooldown' = [a \in Agents |->
          IF Distrusted(a) THEN Cooldown ELSE cooldown[a]]
    /\ UNCHANGED <<joined, clearing>>

SweepMembers ==
    /\ suspect' = [a \in Agents |->
          Distrusted(a) \/ (suspect[a] /\ cooldown[a] > 0)]
    /\ cooldown' = [a \in Agents |->
          IF Distrusted(a) THEN Cooldown ELSE cooldown[a]]
    /\ UNCHANGED <<joined, clearing>>

Sweep == SweepJobs /\ SweepMembers /\ UNCHANGED alive

\* Mutant of SweepCut: all jobs are expired before any worker is distrusted.
SweepCutJobsFirst(S, r) ==
    /\ \A q \in S \cup {r} : Expires(q)
    /\ r \notin S
    /\ LET cut == S \cup {r}
           hit == {}
       IN /\ state' = [q \in Reqs |-> IF q \in cut THEN "expired" ELSE state[q]]
          /\ grace' = [q \in Reqs |-> IF q \in cut THEN Unset ELSE grace[q]]
          /\ keep' = [q \in Reqs |-> IF q \in cut THEN Retained(keep[q]) ELSE keep[q]]
          /\ suspect' = [a \in Agents |-> a \in hit \/ suspect[a]]
          /\ cooldown' = [a \in Agents |-> IF a \in hit THEN Cooldown ELSE cooldown[a]]
    /\ UNCHANGED <<alive, joined, clearing, worker, lease, attempts, reads>>

(* The statements commit one by one, so the sweep may end between the      *)
(* UPDATE that expires job r and the one that distrusts its worker (the    *)
(* store refuses the second, or the daemon dies); the jobs of S were       *)
(* treated before.                                                         *)
SweepCut(S, r) ==
    /\ \A q \in S \cup {r} : Expires(q)
    /\ r \notin S
    /\ LET cut == S \cup {r}
           hit == {worker[q] : q \in S}
       IN /\ state' = [q \in Reqs |-> IF q \in cut THEN "expired" ELSE state[q]]
          /\ grace' = [q \in Reqs |-> IF q \in cut THEN Unset ELSE grace[q]]
          /\ keep' = [q \in Reqs |-> IF q \in cut THEN Retained(keep[q]) ELSE keep[q]]
          /\ suspect' = [a \in Agents |-> a \in hit \/ suspect[a]]
          /\ cooldown' = [a \in Agents |-> IF a \in hit THEN Cooldown ELSE cooldown[a]]
    /\ UNCHANGED <<alive, joined, clearing, worker, lease, attempts, reads>>

Tick ==
    /\ lease' = [r \in Reqs |-> Elapse(lease[r])]
    /\ grace' = [r \in Reqs |-> Elapse(grace[r])]
    /\ keep' = [r \in Reqs |-> Elapse(keep[r])]
    /\ cooldown' = [a \in Agents |-> Elapse(cooldown[a])]
    /\ clearing' = [a \in Agents |-> Elapse(clearing[a])]
    /\ UNCHANGED <<alive, joined, suspect, state, worker, attempts, reads>>

-----------------------------------------------------------------------------
SessionStep ==
    \/ \E a \in Agents : Connect(a) \/ Join(a) \/ Disconnect(a)
    \/ Restart

GatewayStep ==
    \/ \E p \in Pools, r \in Reqs, a \in Agents, pinned \in BOOLEAN, t \in 1..MaxLease :
          Dispatch(p, r, a, pinned, t)
    \/ \E r \in Reqs : SeeFinal(r) \/ Stamp(r) \/ Cancel(r)
    \/ \E a \in Agents : BeginClear(a) \/ EndClear(a)

WorkerStep ==
    \/ \E a \in Agents, r \in Reqs : Reply(a, r) \/ Fail(a, r)
    \/ \E a \in Agents : Ready(a)

SweepStep ==
    \/ Sweep
    \/ \E S \in SUBSET Reqs, r \in Reqs : SweepCut(S, r)

Next == SessionStep \/ GatewayStep \/ WorkerStep \/ SweepStep \/ Tick

Spec == Init /\ [][Next]_vars

(* spawn_sweeper() runs the sweep for the life of the daemon and time      *)
(* passes; nobody else is obliged to do anything.                          *)
FairSpec == Spec /\ WF_vars(Sweep) /\ WF_vars(Tick)

-----------------------------------------------------------------------------
(* What the daemon promises.                                               *)

(* pool.rs, dispatch(): two dispatches never take the same slot, so a      *)
(* worker never holds more leases than its capacity, retries included.     *)
CapacityRespected == \A a \in Agents : Load(a) <= Capacity[a]

(* pool.rs, begin_clear() against dispatch(): while a worker is marked     *)
(* clearing it holds no lease at all, whatever was pinned to it.           *)
NoLeaseWhileClearing == \A a \in Agents : clearing[a] > 0 => Leased(a) = {}

(* A lease always names a member: what makes the row of a leased job       *)
(* lead to the worker whose slot it takes.                                 *)
LeasedByMember == \A r \in Reqs : state[r] = "leased" => worker[r] \in joined

(* The inductive invariant behind the two promises above.                  *)
PoolInv == TypeOK /\ LeasedByMember /\ CapacityRespected /\ NoLeaseWhileClearing

(* pool.rs, sweep(): a worker that let a lease run out is suspect, and a   *)
(* sweep that breaks off forgives one worker at most.                      *)
Forgiven ==
    {a \in Agents : ~suspect'[a] /\ \E r \in Leased(a) : state'[r] = "expired"}
ForgivesOneAtMost == [][Cardinality(Forgiven) <= 1]_vars

(* pool.rs, dispatch() and sweep(): a suspect worker gets nothing new, and *)
(* only the cooldown or a call of its own lifts the distrust: no           *)
(* reconnect, restart, clear or settled job does.                          *)
DistrustStep ==
    \A a \in Agents : suspect[a] =>
        /\ Leased(a)' \subseteq Leased(a)
        /\ \/ suspect'[a] \/ cooldown[a] = 0 \/ Ready(a)
           \/ \E r \in Reqs : Reply(a, r) \/ Fail(a, r)
DistrustHolds == [][DistrustStep]_vars

(* The lease as the gateway is promised it, see JobLease.                  *)
Holder == [r \in Reqs |-> IF state[r] = "leased" THEN worker[r] ELSE NoOne]

OutcomeOf ==
    [s \in JobStates |->
        IF s = "leased" THEN "pending" ELSE IF s = "done" THEN "answered"
        ELSE IF s = "failed" THEN "refused" ELSE IF s = "cancelled" THEN "withdrawn"
        ELSE IF s = "none" THEN "none" ELSE "lost"]
Outcome == [r \in Reqs |-> OutcomeOf[state[r]]]

Promise == INSTANCE JobLease WITH holder <- Holder, outcome <- Outcome

(* Every step of the pool is a step of the promise: a settled job is never *)
(* leased again before it is forgotten, and never answered twice.          *)
LeasePromise == Promise!Spec

(* pool.rs, sweep(): whatever the worker and the gateway do or do not do,  *)
(* a lease ends.                                                           *)
LeaseEnds == \A r \in Reqs : state[r] = "leased" ~> state[r] # "leased"

(* pool.rs, sweep(): a pool that stopped answering recovers by itself.     *)
SuspectRecovers == \A a \in Agents : suspect[a] ~> ~suspect[a]
=============================================================================
