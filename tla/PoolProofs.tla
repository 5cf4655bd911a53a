----------------------------- MODULE PoolProofs -----------------------------
(***************************************************************************)
(* Proofs about pool dispatch for every set of workers and requests, every *)
(* capacity and every timeout: the tables first, then the handlers and     *)
(* polls around them.                                                      *)
(*                                                                         *)
(* The argument: only Dispatch gives a worker a lease, and it looks at the *)
(* worker's load and mark in the same step; only BeginClear sets a mark,   *)
(* and it looks at the leases in the same step.  Everything else takes     *)
(* leases away and lets marks run out.                                     *)
(***************************************************************************)
EXTENDS PoolFront, FiniteSetTheorems, TLAPS

(* A worker's leases are a finite set, so its load is a number.            *)
LEMMA LoadIsNat ==
    ASSUME NEW a
    PROVE  IsFiniteSet(Leased(a)) /\ Load(a) \in Nat
  <1>1. Leased(a) \in SUBSET Reqs
    BY DEF Leased
  <1>2. IsFiniteSet(Leased(a))
    BY <1>1, FS_Subset, PoolAssumption
  <1> QED
    BY <1>2, FS_CardinalityType DEF Load

(* Init establishes the types.                                             *)
LEMMA InitTypeOK == Init => TypeOK
  BY PoolAssumption DEF Init, TypeOK, JobStates, Final, Unset

(* Every action keeps the types.                                           *)
LEMMA StepTypeOK == TypeOK /\ [Next]_vars => TypeOK'
  <1> SUFFICES ASSUME TypeOK, [Next]_vars PROVE TypeOK'
    OBVIOUS
  <1> USE PoolAssumption DEF TypeOK, JobStates, Final, Unset
  <1>1. ASSUME SessionStep PROVE TypeOK'
    BY <1>1 DEF SessionStep, Connect, Join, Disconnect, Restart, members, jobs
  <1>2. ASSUME GatewayStep PROVE TypeOK'
    <2>1. ASSUME NEW p \in Pools, NEW r \in Reqs, NEW a \in Agents,
                 NEW pinned \in BOOLEAN, NEW t \in 1..MaxLease,
                 Dispatch(p, r, a, pinned, t)
          PROVE  TypeOK'
      BY <2>1 DEF Dispatch, Assign, members, Retryable
    <2>2. ASSUME NEW r \in Reqs, SeeFinal(r) \/ Stamp(r) PROVE TypeOK'
      BY <2>2 DEF SeeFinal, Stamp, Less, members
    <2>3. ASSUME NEW r \in Reqs, Cancel(r) PROVE TypeOK'
      BY <2>3 DEF Cancel, Finish, Retained, members
    <2>4. ASSUME NEW a \in Agents, BeginClear(a) PROVE TypeOK'
      BY <2>4 DEF BeginClear, jobs
    <2>5. ASSUME NEW a \in Agents, EndClear(a) PROVE TypeOK'
      BY <2>5 DEF EndClear, jobs
    <2> QED
      BY <1>2, <2>1, <2>2, <2>3, <2>4, <2>5 DEF GatewayStep
  <1>3. ASSUME WorkerStep PROVE TypeOK'
    <2>1. ASSUME NEW a \in Agents, NEW r \in Reqs, NEW s \in {"done", "failed"},
                 Answer(a, r, s)
          PROVE  TypeOK'
      BY <2>1 DEF Answer, Trust, Finish, Retained, jobs
    <2>2. ASSUME NEW a \in Agents, Ready(a) PROVE TypeOK'
      BY <2>2 DEF Ready, Trust, jobs
    <2> QED
      BY <1>3, <2>1, <2>2 DEF WorkerStep, Reply, Fail
  <1>4. ASSUME SweepStep PROVE TypeOK'
    <2>1. ASSUME Sweep PROVE TypeOK'
      BY <2>1 DEF Sweep, SweepJobs, SweepMembers, Expires, Orphaned, Lost,
                  Forgotten, Distrusted, Retained
    <2>2. ASSUME NEW S \in SUBSET Reqs, NEW r \in Reqs, SweepCut(S, r)
          PROVE  TypeOK'
      BY <2>2 DEF SweepCut, Expires, Retained
    <2> QED
      BY <1>4, <2>1, <2>2 DEF SweepStep
  <1>5. ASSUME Tick PROVE TypeOK'
    BY <1>5 DEF Tick, Elapse
  <1>6. ASSUME UNCHANGED vars PROVE TypeOK'
    BY <1>6 DEF vars, members, jobs
  <1> QED
    BY <1>1, <1>2, <1>3, <1>4, <1>5, <1>6 DEF Next

(* The tables of pool.rs always hold values of the columns' types.         *)
THEOREM TypeCorrect == Spec => []TypeOK
  BY InitTypeOK, StepTypeOK, PTL DEF Spec

-----------------------------------------------------------------------------
(* Capacity and the clearing mark.                                         *)

(* Leases that only went away leave every load within its capacity and     *)
(* every marked worker empty, if no mark was set.                          *)
LEMMA TakingAway ==
    ASSUME TypeOK, TypeOK', CapacityRespected, NoLeaseWhileClearing,
           NEW a \in Agents, Leased(a)' \subseteq Leased(a)
    PROVE  /\ Load(a)' <= Capacity[a]
           /\ clearing[a] > 0 => Leased(a)' = {}
  <1>1. IsFiniteSet(Leased(a)) /\ Load(a) \in Nat
    BY LoadIsNat
  <1>2. Cardinality(Leased(a)') <= Cardinality(Leased(a)) /\ IsFiniteSet(Leased(a)')
    BY <1>1, FS_Subset
  <1>3. Cardinality(Leased(a)') \in Nat
    BY <1>2, FS_CardinalityType
  <1>4. Load(a)' = Cardinality(Leased(a)')
    BY DEF Load
  <1>5. Capacity[a] \in Nat /\ Load(a) <= Capacity[a]
    BY PoolAssumption DEF CapacityRespected
  <1>6. Load(a)' <= Capacity[a]
    BY <1>1, <1>2, <1>3, <1>4, <1>5 DEF Load
  <1>7. clearing[a] > 0 => Leased(a)' = {}
    BY DEF NoLeaseWhileClearing
  <1> QED
    BY <1>6, <1>7

(* What every step but Dispatch and BeginClear does to leases and marks.   *)
OnlyReclaims ==
    \A a \in Agents : /\ Leased(a)' \subseteq Leased(a)
                      /\ clearing'[a] > 0 => clearing[a] > 0

(* A step that only ends leases and takes marks away keeps the invariant.  *)
LEMMA ReclaimingKeeps ==
    ASSUME PoolInv, TypeOK', OnlyReclaims
    PROVE  CapacityRespected' /\ NoLeaseWhileClearing'
  <1>1. ASSUME NEW a \in Agents
        PROVE  /\ Load(a)' <= Capacity[a]
               /\ clearing'[a] > 0 => Leased(a)' = {}
    BY <1>1, TakingAway DEF PoolInv, OnlyReclaims
  <1> QED
    BY <1>1 DEF CapacityRespected, NoLeaseWhileClearing

(* The steps that are neither a lease nor a mark.                          *)
LEMMA OthersReclaim ==
    ASSUME TypeOK, [Next]_vars,
           ~ \E p \in Pools, r \in Reqs, a \in Agents, pinned \in BOOLEAN,
                t \in 1..MaxLease : Dispatch(p, r, a, pinned, t),
           ~ \E a \in Agents : BeginClear(a)
    PROVE  OnlyReclaims
  <1> USE PoolAssumption DEF TypeOK, OnlyReclaims, Leased
  <1>1. CASE SessionStep
    BY <1>1 DEF SessionStep, Connect, Join, Disconnect, Restart, members, jobs
  <1>2. CASE GatewayStep
    <2>1. CASE \E r \in Reqs : SeeFinal(r) \/ Stamp(r)
      BY <2>1 DEF SeeFinal, Stamp, members
    <2>2. CASE \E r \in Reqs : Cancel(r)
      BY <2>2 DEF Cancel, Finish, members
    <2>3. CASE \E a \in Agents : EndClear(a)
      BY <2>3 DEF EndClear, jobs
    <2> QED
      BY <1>2, <2>1, <2>2, <2>3 DEF GatewayStep
  <1>3. CASE WorkerStep
    BY <1>3 DEF WorkerStep, Reply, Fail, Answer, Ready, Trust, Finish, jobs
  <1>4. CASE SweepStep
    <2>1. CASE Sweep
      BY <2>1 DEF Sweep, SweepJobs, SweepMembers, Forgotten, Expires, Final
    <2>2. CASE \E S \in SUBSET Reqs, r \in Reqs : SweepCut(S, r)
      BY <2>2 DEF SweepCut
    <2> QED
      BY <1>4, <2>1, <2>2 DEF SweepStep
  <1>5. CASE Tick
    BY <1>5 DEF Tick, Elapse
  <1>6. CASE UNCHANGED vars
    BY <1>6 DEF vars, members, jobs
  <1> QED
    BY <1>1, <1>2, <1>3, <1>4, <1>5, <1>6 DEF Next

(* A dispatch takes one slot of a worker that had one left.                *)
LEMMA DispatchKeeps ==
    ASSUME PoolInv, TypeOK',
           NEW p \in Pools, NEW r \in Reqs, NEW a \in Agents,
           NEW pinned \in BOOLEAN, NEW t \in 1..MaxLease,
           Dispatch(p, r, a, pinned, t)
    PROVE  CapacityRespected' /\ NoLeaseWhileClearing'
  <1> USE DEF PoolInv
  <1>1. Leased(a)' = Leased(a) \cup {r} /\ r \notin Leased(a)
    BY DEF Dispatch, Assign, Leased, TypeOK, Retryable
  <1>2. Load(a)' <= Capacity[a]
    <2>1. IsFiniteSet(Leased(a)) /\ Load(a) \in Nat
      BY LoadIsNat
    <2>2. Cardinality(Leased(a)') = Cardinality(Leased(a)) + 1
      BY <1>1, <2>1, FS_AddElement
    <2>3. Load(a) < Capacity[a] /\ Capacity[a] \in Nat
      BY PoolAssumption DEF Dispatch, Free
    <2> QED
      BY <2>1, <2>2, <2>3 DEF Load
  <1>3. clearing[a] = 0 /\ clearing' = clearing
    BY DEF Dispatch, Free, members
  <1>4. ASSUME NEW b \in Agents, b # a PROVE Leased(b)' \subseteq Leased(b)
    BY <1>4 DEF Dispatch, Assign, Leased, TypeOK
  <1>5. ASSUME NEW b \in Agents
        PROVE  Load(b)' <= Capacity[b] /\ (clearing'[b] > 0 => Leased(b)' = {})
    BY <1>2, <1>3, <1>4, TakingAway
  <1> QED
    BY <1>5 DEF CapacityRespected, NoLeaseWhileClearing

(* A mark is set on a worker that holds nothing.                           *)
LEMMA BeginClearKeeps ==
    ASSUME PoolInv, TypeOK', NEW a \in Agents, BeginClear(a)
    PROVE  CapacityRespected' /\ NoLeaseWhileClearing'
  <1>1. \A b \in Agents : Leased(b)' = Leased(b)
    BY DEF BeginClear, Leased, jobs
  <1>2. CapacityRespected'
    BY <1>1 DEF PoolInv, CapacityRespected, Load
  <1>3. NoLeaseWhileClearing'
    BY <1>1 DEF PoolInv, NoLeaseWhileClearing, BeginClear, TypeOK
  <1> QED
    BY <1>2, <1>3

(* Members never leave, and only a member is given a lease.                *)
LEMMA StepLeasedByMember ==
    ASSUME TypeOK, LeasedByMember, [Next]_vars
    PROVE  LeasedByMember'
  <1> USE DEF LeasedByMember, TypeOK
  <1>1. CASE SessionStep
    BY <1>1 DEF SessionStep, Connect, Join, Disconnect, Restart, members, jobs
  <1>2. CASE GatewayStep
    BY <1>2 DEF GatewayStep, Dispatch, Free, Assign, SeeFinal, Stamp, Cancel, Finish,
                BeginClear, EndClear, members, jobs
  <1>3. CASE WorkerStep
    BY <1>3 DEF WorkerStep, Reply, Fail, Answer, Ready, Trust, Finish, jobs
  <1>4. CASE SweepStep
    BY <1>4 DEF SweepStep, Sweep, SweepJobs, SweepMembers, SweepCut, Forgotten, Final
  <1>5. CASE Tick
    BY <1>5 DEF Tick
  <1>6. CASE UNCHANGED vars
    BY <1>6 DEF vars, members, jobs
  <1> QED
    BY <1>1, <1>2, <1>3, <1>4, <1>5, <1>6 DEF Next

(* Without members, leases and marks the invariant holds.                  *)
LEMMA InitPoolInv == Init => PoolInv
  <1> SUFFICES ASSUME Init PROVE PoolInv
    OBVIOUS
  <1>1. TypeOK
    BY InitTypeOK
  <1>2. \A a \in Agents : Leased(a) = {}
    BY DEF Init, Leased
  <1>3. CapacityRespected
    BY <1>2, FS_EmptySet, PoolAssumption DEF CapacityRespected, Load
  <1>4. LeasedByMember /\ NoLeaseWhileClearing
    BY <1>2 DEF LeasedByMember, NoLeaseWhileClearing, Init
  <1> QED
    BY <1>1, <1>3, <1>4 DEF PoolInv

(* The invariant is inductive: the two steps that take a slot or set a     *)
(* mark have lemmas of their own.                                          *)
LEMMA StepPoolInv == PoolInv /\ [Next]_vars => PoolInv'
  <1> SUFFICES ASSUME PoolInv, [Next]_vars PROVE PoolInv'
    OBVIOUS
  <1>1. TypeOK'
    BY StepTypeOK DEF PoolInv
  <1>2. LeasedByMember'
    BY StepLeasedByMember DEF PoolInv
  <1>3. CapacityRespected' /\ NoLeaseWhileClearing'
    BY <1>1, DispatchKeeps, BeginClearKeeps, OthersReclaim, ReclaimingKeeps DEF PoolInv
  <1> QED
    BY <1>1, <1>2, <1>3 DEF PoolInv

(* A worker never holds more leases than its capacity, and none at all     *)
(* while its context is marked as being thrown away.                       *)
THEOREM PoolSafe == Spec => [](CapacityRespected /\ NoLeaseWhileClearing)
  <1>1. PoolInv => CapacityRespected /\ NoLeaseWhileClearing
    BY DEF PoolInv
  <1> QED
    BY InitPoolInv, StepPoolInv, <1>1, PTL DEF Spec

-----------------------------------------------------------------------------
(* The pool implements the lease it promises.                              *)

(* The requests a worker holds in the promise are those it is leased.      *)
LEMMA HeldIsLeased ==
    ASSUME TypeOK, NEW a \in Agents
    PROVE  Promise!Held(a) = Leased(a)
  BY PoolAssumption DEF Promise!Held, Holder, Leased, TypeOK

(* The instance of the promise counts as this module does.                 *)
LEMMA SameCardinality == \A S : Promise!Cardinality(S) = Cardinality(S)
  BY DEF Promise!Cardinality, Cardinality, Promise!IsFiniteSet, IsFiniteSet

(* The initial tables are an initial state of the promise.                 *)
LEMMA InitPromise == Init => Promise!Init
  BY PoolAssumption DEF Init, Promise!Init, Holder, Outcome, OutcomeOf, JobStates, Final

(* A dispatch is a lease of the promise.                                   *)
LEMMA DispatchLeases ==
    ASSUME PoolInv, NEW p \in Pools, NEW r \in Reqs, NEW a \in Agents,
           NEW pinned \in BOOLEAN, NEW t \in 1..MaxLease,
           Dispatch(p, r, a, pinned, t)
    PROVE  Promise!Lease(r, a)
  <1> USE DEF PoolInv
  <1>1. Promise!Cardinality(Promise!Held(a)) < Capacity[a]
    BY HeldIsLeased, SameCardinality DEF Dispatch, Free, Load
  <1>2. Outcome[r] \in {"none", "lost"}
    BY DEF Dispatch, Retryable, Outcome, OutcomeOf, JobStates, Final
  <1>3. Holder' = [Holder EXCEPT ![r] = a]
    BY DEF Dispatch, Assign, Holder, TypeOK
  <1>4. Outcome' = [Outcome EXCEPT ![r] = "pending"]
    BY DEF Dispatch, Assign, Outcome, OutcomeOf, JobStates, Final, TypeOK
  <1> QED
    BY <1>1, <1>2, <1>3, <1>4 DEF Promise!Lease

(* A leased job that reaches a settled state is settled in the promise.    *)
LEMMA FinishSettles ==
    ASSUME TypeOK, NEW r \in Reqs, state[r] = "leased",
           NEW s \in {"done", "failed", "cancelled"}, Finish(r, s)
    PROVE  \E o \in Promise!Settled : Promise!Settle(r, o)
  <1>1. Holder' = [Holder EXCEPT ![r] = NoOne]
    BY DEF Finish, Holder, TypeOK
  <1>2. Outcome[r] = "pending"
    BY DEF Outcome, OutcomeOf, JobStates, Final
  <1>3. Outcome' = [Outcome EXCEPT ![r] = OutcomeOf[s]]
    BY DEF Finish, Outcome, OutcomeOf, JobStates, Final, TypeOK
  <1>4. OutcomeOf[s] \in Promise!Settled
    BY DEF OutcomeOf, JobStates, Final, Promise!Settled
  <1> QED
    BY <1>1, <1>2, <1>3, <1>4 DEF Promise!Settle

(* A sweep, whole or broken off, gives up on some and forgets others.      *)
LEMMA SweepReclaims ==
    ASSUME PoolInv, SweepStep
    PROVE  \E L, F \in SUBSET Reqs : Promise!Reclaim(L, F)
  <1>0. TypeOK
    BY DEF PoolInv
  <1>1. CASE Sweep
    <2> DEFINE L == {r \in Reqs : Expires(r) \/ Lost(r)}
               F == {r \in Reqs : Forgotten(r)}
    <2>1. \A r \in L : state[r] = "leased"
      BY DEF Expires, Lost, Orphaned
    <2>2. \A r \in F : r \in L \/ state[r] \in Final
      BY DEF Forgotten
    <2>3. \A r \in L : Outcome[r] = "pending"
      BY <2>1 DEF Outcome, OutcomeOf, JobStates
    <2>4. \A r \in F : r \in L \/ Outcome[r] \in Promise!Settled \cup {"lost"}
      BY <2>2 DEF Promise!Settled, Outcome, OutcomeOf, JobStates, Final
    <2>5. \A r \in Reqs : /\ r \in F => state'[r] = "none"
                          /\ r \in L /\ r \notin F => state'[r] \in Retryable
                          /\ r \notin L /\ r \notin F => state'[r] = state[r]
      BY <1>1 DEF Sweep, SweepJobs, Retryable
    <2>6. \A r \in Reqs : r \notin F => worker'[r] = worker[r]
      BY <1>1 DEF Sweep, SweepJobs
    <2>7. Holder' = [r \in Reqs |-> IF r \in L THEN NoOne ELSE Holder[r]]
      BY <2>2, <2>5, <2>6 DEF Retryable, Holder, Final
    <2>8. Outcome' = [r \in Reqs |-> IF r \in F THEN "none"
                                     ELSE IF r \in L THEN "lost" ELSE Outcome[r]]
      BY <2>5 DEF Retryable, Outcome, OutcomeOf, JobStates, Final
    <2>9. Promise!Reclaim(L, F)
      BY <2>3, <2>4, <2>7, <2>8 DEF Promise!Reclaim
    <2>10. L \in SUBSET Reqs /\ F \in SUBSET Reqs
      OBVIOUS
    <2> HIDE DEF L, F
    <2> QED
      BY <2>9, <2>10
  <1>2. ASSUME NEW S \in SUBSET Reqs, NEW r \in Reqs, SweepCut(S, r)
        PROVE  Promise!Reclaim(S \cup {r}, {})
    <2>1. \A q \in S \cup {r} : Outcome[q] = "pending"
      BY <1>2 DEF SweepCut, Expires, Outcome, OutcomeOf, JobStates
    <2>2. Holder' = [q \in Reqs |-> IF q \in S \cup {r} THEN NoOne ELSE Holder[q]]
      BY <1>2 DEF SweepCut, Holder
    <2>3. Outcome' = [q \in Reqs |-> IF q \in S \cup {r} THEN "lost" ELSE Outcome[q]]
      BY <1>0, <1>2 DEF SweepCut, Outcome, OutcomeOf, JobStates, Final, TypeOK
    <2> QED
      BY <2>1, <2>2, <2>3 DEF Promise!Reclaim
  <1>3. ASSUME NEW S \in SUBSET Reqs, NEW r \in Reqs, SweepCut(S, r)
        PROVE  \E L, F \in SUBSET Reqs : Promise!Reclaim(L, F)
    <2>1. S \cup {r} \in SUBSET Reqs /\ {} \in SUBSET Reqs
      OBVIOUS
    <2> QED
      BY <2>1, <1>2, <1>3
  <1> QED
    BY <1>1, <1>3 DEF SweepStep

(* Steps that leave the jobs' states and workers alone are stutters.       *)
LEMMA Stutters ==
    ASSUME state' = state, worker' = worker
    PROVE  UNCHANGED <<Holder, Outcome>>
  BY DEF Holder, Outcome

(* A step of the tables is a step of the promise or a stutter.             *)
LEMMA StepPromise ==
    ASSUME PoolInv, [Next]_vars
    PROVE  [Promise!Next]_<<Holder, Outcome>>
  <1> USE DEF Promise!Next
  <1>1. CASE SessionStep
    BY <1>1, Stutters DEF SessionStep, Connect, Join, Disconnect, Restart, members, jobs
  <1>2. CASE GatewayStep
    <2>1. ASSUME NEW p \in Pools, NEW r \in Reqs, NEW a \in Agents,
                 NEW pinned \in BOOLEAN, NEW t \in 1..MaxLease,
                 Dispatch(p, r, a, pinned, t)
          PROVE  Promise!Next
      BY <2>1, DispatchLeases
    <2>2. ASSUME NEW r \in Reqs, Cancel(r) PROVE Promise!Next
      BY <2>2, FinishSettles DEF Cancel, PoolInv
    <2>3. CASE \E r \in Reqs : SeeFinal(r) \/ Stamp(r)
      BY <2>3, Stutters DEF SeeFinal, Stamp
    <2>4. CASE \E a \in Agents : BeginClear(a) \/ EndClear(a)
      BY <2>4, Stutters DEF BeginClear, EndClear, jobs
    <2> QED
      BY <1>2, <2>1, <2>2, <2>3, <2>4 DEF GatewayStep
  <1>3. CASE WorkerStep
    <2>1. ASSUME NEW a \in Agents, NEW r \in Reqs, NEW s \in {"done", "failed"},
                 Answer(a, r, s)
          PROVE  [Promise!Next]_<<Holder, Outcome>>
      <3>1. CASE state[r] = "leased"
        BY <2>1, <3>1, FinishSettles DEF Answer, PoolInv
      <3>2. CASE state[r] # "leased"
        BY <2>1, <3>2, Stutters DEF Answer, jobs
      <3> QED
        BY <3>1, <3>2
    <2>2. CASE \E a \in Agents : Ready(a)
      BY <2>2, Stutters DEF Ready, jobs
    <2> QED
      BY <1>3, <2>1, <2>2 DEF WorkerStep, Reply, Fail
  <1>4. CASE SweepStep
    BY <1>4, SweepReclaims
  <1>5. CASE Tick
    BY <1>5, Stutters DEF Tick
  <1>6. CASE UNCHANGED vars
    BY <1>6, Stutters DEF vars, jobs
  <1> QED
    BY <1>1, <1>2, <1>3, <1>4, <1>5, <1>6 DEF Next

(* Every behaviour of the pool is a behaviour of the lease a gateway is    *)
(* promised: one holder at a time, capacity, and no second answer to a     *)
(* settled request before the daemon has forgotten it.                     *)
THEOREM PoolKeepsPromise == Spec => LeasePromise
  <1> USE DEF LeasePromise, Promise!Spec
  <1> QED
    BY InitPromise, InitPoolInv, StepPoolInv, StepPromise, PTL DEF Spec

-----------------------------------------------------------------------------
(* Distrust.                                                               *)

(* Only a sweep expires leases.  A whole one distrusts every worker it     *)
(* takes a lease from, a broken one all but the worker of its last job.    *)
LEMMA StepForgives ==
    ASSUME PoolInv, [Next]_vars
    PROVE  \E x : Forgiven \subseteq {x}
  <1> USE DEF PoolInv, TypeOK, Forgiven, Leased
  <1>1. CASE Sweep
    <2>1. \A a \in Agents : (\E r \in Leased(a) : state'[r] = "expired") => suspect'[a]
      BY <1>1 DEF Sweep, SweepJobs, SweepMembers, Distrusted, Expires, Final
    <2> QED
      BY <2>1
  <1>2. ASSUME NEW S \in SUBSET Reqs, NEW r \in Reqs, SweepCut(S, r)
        PROVE  Forgiven \subseteq {worker[r]}
    BY <1>2 DEF SweepCut
  <1>3. CASE SessionStep
    BY <1>3 DEF SessionStep, Connect, Join, Disconnect, Restart, members, jobs
  <1>4. CASE GatewayStep
    BY <1>4 DEF GatewayStep, Dispatch, Assign, SeeFinal, Stamp, Cancel, Finish,
                BeginClear, EndClear, members, jobs
  <1>5. CASE WorkerStep
    BY <1>5 DEF WorkerStep, Reply, Fail, Answer, Ready, Trust, Finish, jobs
  <1>6. CASE Tick
    BY <1>6 DEF Tick
  <1>7. CASE UNCHANGED vars
    BY <1>7 DEF vars, members, jobs
  <1> QED
    BY <1>1, <1>2, <1>3, <1>4, <1>5, <1>6, <1>7, ZenonT(40) DEF Next, SweepStep

(* A sweep that breaks off forgives one worker at most.                    *)
THEOREM PoolForgives == Spec => ForgivesOneAtMost
  <1>1. ASSUME PoolInv, [Next]_vars PROVE Cardinality(Forgiven) <= 1
    <2>1. PICK x : Forgiven \subseteq {x}
      BY <1>1, StepForgives
    <2>2. IsFiniteSet({x}) /\ Cardinality({x}) = 1
      BY FS_Singleton
    <2>3. Cardinality(Forgiven) <= Cardinality({x})
      BY <2>1, <2>2, FS_Subset
    <2> QED
      BY <2>2, <2>3
  <1>2. PoolInv /\ [Next]_vars => [Cardinality(Forgiven) <= 1]_vars
    BY <1>1
  <1> QED
    BY <1>2, InitPoolInv, StepPoolInv, PTL DEF Spec, ForgivesOneAtMost

(* A step gives a suspect nothing, and trusts it only for a reason.        *)
LEMMA StepDistrust ==
    ASSUME PoolInv, [Next]_vars
    PROVE  DistrustStep
  <1> USE DEF PoolInv, TypeOK, DistrustStep
  <1>1. CASE \E p \in Pools, r \in Reqs, a \in Agents, pinned \in BOOLEAN,
                t \in 1..MaxLease : Dispatch(p, r, a, pinned, t)
    BY <1>1 DEF Dispatch, Free, Assign, members, Leased
  <1>2. CASE \E a \in Agents : BeginClear(a)
    BY <1>2 DEF BeginClear, Leased, jobs
  <1>3. CASE OnlyReclaims
    <2> DEFINE Calls(a) == Ready(a) \/ \E r \in Reqs : Reply(a, r) \/ Fail(a, r)
    <2>1. \A a \in Agents : suspect[a] => suspect'[a] \/ cooldown[a] = 0 \/ Calls(a)
      <3>1. CASE SessionStep
        BY <3>1 DEF SessionStep, Connect, Join, Disconnect, Restart, members
      <3>2. CASE GatewayStep
        BY <3>2 DEF GatewayStep, Dispatch, SeeFinal, Stamp, Cancel, BeginClear, EndClear, members
      <3>3. CASE WorkerStep
        <4>1. ASSUME NEW b \in Agents, NEW r \in Reqs, Reply(b, r) \/ Fail(b, r),
                     NEW a \in Agents, suspect[a], ~suspect'[a]
              PROVE  Calls(a)
          BY <4>1 DEF Reply, Fail, Answer, Trust
        <4>2. ASSUME NEW b \in Agents, Ready(b), NEW a \in Agents, suspect[a], ~suspect'[a]
              PROVE  Calls(a)
          <5>1. a = b
            BY <4>2 DEF Ready, Trust
          <5> QED
            BY <4>2, <5>1
        <4> QED
          BY <3>3, <4>1, <4>2 DEF WorkerStep
      <3>4. CASE SweepStep
        BY <3>4 DEF SweepStep, Sweep, SweepMembers, SweepCut
      <3>5. CASE Tick
        BY <3>5 DEF Tick
      <3>6. CASE UNCHANGED vars
        BY <3>6 DEF vars, members
      <3> QED
        BY <3>1, <3>2, <3>3, <3>4, <3>5, <3>6 DEF Next
    <2> QED
      BY <1>3, <2>1 DEF OnlyReclaims
  <1> QED
    BY <1>1, <1>2, <1>3, OthersReclaim

(* A suspect worker gets nothing new, and only the cooldown or a call of   *)
(* its own makes it trusted again.                                         *)
THEOREM PoolDistrusts == Spec => DistrustHolds
  <1>1. PoolInv /\ [Next]_vars => [DistrustStep]_vars
    BY StepDistrust
  <1> QED
    BY <1>1, InitPoolInv, StepPoolInv, PTL DEF Spec, DistrustHolds

-----------------------------------------------------------------------------
(***************************************************************************)
(* Pool dispatch from end to end.                                          *)
(*                                                                         *)
(* Every step of the front is a step of the pool tables or leaves them     *)
(* alone, so what holds of the tables holds here.  That a clear excludes   *)
(* jobs and other clears then needs one more fact: the mark of a clear     *)
(* under way always has more time left than the handler that waits for it. *)
(***************************************************************************)

(* Every step of the front is a step of the tables.                        *)
LEMMA FrontStep == TypeOK /\ [FrontNext]_allVars => [Next]_vars
  <1> SUFFICES ASSUME TypeOK, [FrontNext]_allVars PROVE [Next]_vars
    OBVIOUS
  <1> USE DEF Next
  <1>1. CASE HandlerStep
    <2>1. ASSUME NEW r \in Reqs, NEW a \in Agents, NEW pinned \in BOOLEAN,
                 NEW t \in 1..MaxLease, DispatchCall(r, a, pinned, t)
          PROVE  Next
      <3>1. PoolOf[a] \in Pools /\ Dispatch(PoolOf[a], r, a, pinned, t)
        BY <2>1, PoolAssumption DEF DispatchCall
      <3> QED
        BY <3>1 DEF GatewayStep
    <2>2. CASE \E r \in Reqs : Arm(r) \/ Look(r) \/ Sleep(r) \/ CancelCall(r)
      BY <2>2 DEF Arm, Look, Sleep, SeenFinal, CancelCall, GatewayStep
    <2>3. CASE \E c \in Clears, a \in Agents : ClearCall(c, a)
      BY <2>3 DEF ClearCall, GatewayStep
    <2>4. CASE \E l \in posted : Deliver(l)
      BY <2>4 DEF Deliver
    <2>5. CASE RestartDaemon
      BY <2>5 DEF RestartDaemon, SessionStep
    <2> QED
      BY <1>1, <2>1, <2>2, <2>3, <2>4, <2>5 DEF HandlerStep
  <1>2. ASSUME NEW c \in Clears, ClearStep(c) PROVE [Next]_vars
    <2>1. CASE AskSupervisor(c) \/ GiveUp(c)
      BY <2>1 DEF AskSupervisor, GiveUp
    <2>2. ASSUME NEW a, EndClear(a) PROVE a \in Agents => Next
      BY <2>2 DEF GatewayStep
    <2>3. CASE ClearReturns(c)
      <3>1. target[c] \in Agents => Next
        BY <2>3, <2>2 DEF ClearReturns
      <3>2. target[c] \notin Agents => UNCHANGED vars
        BY <2>3 DEF ClearReturns, EndClear, vars, members, TypeOK
      <3> QED
        BY <3>1, <3>2
    <2> QED
      BY <1>2, <2>1, <2>3 DEF ClearStep
  <1>3. CASE SupervisorStep
    <2>1. ASSUME NEW a \in Agents, NEW r \in Reqs, NEW s \in {"done", "failed"},
                 AnswerCall(a, r, s)
          PROVE  [Next]_vars
      BY <2>1 DEF AnswerCall, WorkerStep, Reply, Fail
    <2>2. ASSUME NEW a \in Agents, Inject(a) \/ ToggleGate(a) \/ ReadyCall(a)
          PROVE  [Next]_vars
      BY <2>2 DEF Inject, ToggleGate, ReadyCall, WorkerStep
    <2>3. ASSUME NEW a \in Agents, NEW c \in Clears, RunClear(a, c)
          PROVE  [Next]_vars
      BY <2>3 DEF RunClear
    <2> QED
      BY <1>3, <2>1, <2>2, <2>3 DEF SupervisorStep
  <1>4. CASE TableStep
    BY <1>4 DEF TableStep, SweepAnnounced, TimePasses, SessionStep, GatewayStep,
                SweepStep
  <1>5. CASE UNCHANGED allVars
    BY <1>5 DEF allVars
  <1> QED
    BY <1>1, <1>2, <1>3, <1>4, <1>5 DEF FrontNext

(* Handlers, injectors and sessions use the tables as pool.rs lets them:   *)
(* the composition implements the tables' specification.                   *)
THEOREM FrontUsesPool == FrontSpec => Spec
  <1>1. FrontInit => Init
    BY DEF FrontInit
  <1> QED
    BY <1>1, InitTypeOK, StepTypeOK, FrontStep, PTL DEF FrontSpec, Spec

(* The tables' invariant holds in the composition.                         *)
THEOREM FrontSafe == FrontSpec => []PoolInv
  BY FrontUsesPool, InitPoolInv, StepPoolInv, PTL DEF Spec

-----------------------------------------------------------------------------
(* Clears.                                                                 *)

ClearTypeOK ==
    /\ phase \in [Clears -> Phases]
    /\ target \in [Clears -> Agents \cup {NoOne}]
    /\ left \in [Clears -> Nat]

(* While a clear is under way its worker's mark has longer to run than its *)
(* handler waits; no two of them have the same worker.                     *)
MarkOutlives ==
    \A c \in Clears : phase[c] # "idle" =>
        /\ target[c] \in Agents
        /\ left[c] < clearing[target[c]]
        /\ left[c] <= ClearTimeout
        /\ \A d \in Clears \ {c} : target[d] # target[c]

IdleHasNothing == \A c \in Clears : phase[c] = "idle" => target[c] = NoOne

NotWaiting == \A c \in Clears : phase[c] # "waiting" => left[c] = 0

FullMark == \A c \in Clears : phase[c] = "marked" => clearing[target[c]] = ClearMark

ClearInv == ClearTypeOK /\ MarkOutlives /\ IdleHasNothing /\ NotWaiting /\ FullMark

(* A step that leaves the handlers and the marks alone keeps ClearInv.     *)
LEMMA ClearInvStutters ==
    ASSUME ClearInv, UNCHANGED <<handlers, clearing>> PROVE ClearInv'
  BY DEF ClearInv, ClearTypeOK, MarkOutlives, IdleHasNothing, NotWaiting, FullMark, handlers

(* A new clear starts on a worker no other clear is under way on, since    *)
(* that one's mark would not have lapsed.                                  *)
LEMMA ClearCallKeeps ==
    ASSUME PoolInv, ClearInv, NEW c \in Clears, NEW a \in Agents, ClearCall(c, a)
    PROVE  ClearInv'
  <1> USE PoolAssumption, FrontAssumption
  <1>1. phase[c] = "idle" /\ clearing[a] = 0 /\ left' = left
    BY DEF ClearCall, BeginClear, Free
  <1>2. \A d \in Clears : phase[d] # "idle" => target[d] # a
    BY <1>1 DEF ClearInv, MarkOutlives, ClearTypeOK
  <1>3. clearing' = [clearing EXCEPT ![a] = ClearMark] /\ clearing \in [Agents -> Nat]
    BY DEF ClearCall, BeginClear, PoolInv, TypeOK
  <1>4. phase' = [phase EXCEPT ![c] = "marked"] /\ target' = [target EXCEPT ![c] = a]
    BY DEF ClearCall
  <1>5. ClearTypeOK' /\ IdleHasNothing' /\ NotWaiting'
    BY <1>1, <1>4 DEF ClearInv, ClearTypeOK, IdleHasNothing, NotWaiting, Phases
  <1>6. left[c] = 0
    BY <1>1 DEF ClearInv, NotWaiting
  <1>7. MarkOutlives'
    BY <1>1, <1>2, <1>3, <1>4, <1>6 DEF ClearInv, ClearTypeOK, MarkOutlives, IdleHasNothing
  <1>8. FullMark'
    BY <1>1, <1>2, <1>3, <1>4 DEF ClearInv, ClearTypeOK, MarkOutlives, FullMark
  <1> QED
    BY <1>5, <1>7, <1>8 DEF ClearInv

(* A handler that returns takes away the mark of its own worker only.      *)
LEMMA ClearReturnsKeeps ==
    ASSUME PoolInv, ClearInv, NEW c \in Clears, ClearReturns(c)
    PROVE  ClearInv'
  <1> USE PoolAssumption, FrontAssumption DEF ClearInv
  <1>1. phase[c] = "ending" /\ left' = left
    BY DEF ClearReturns, Ending
  <1>2. clearing' = [clearing EXCEPT ![target[c]] = 0] /\ clearing \in [Agents -> Nat]
    BY DEF ClearReturns, EndClear, PoolInv, TypeOK
  <1>3. phase' = [phase EXCEPT ![c] = "idle"] /\ target' = [target EXCEPT ![c] = NoOne]
    BY DEF ClearReturns
  <1>4. ClearTypeOK' /\ IdleHasNothing' /\ NotWaiting'
    BY <1>1, <1>3 DEF ClearTypeOK, IdleHasNothing, NotWaiting, Phases
  <1>5. \A d \in Clears \ {c} : phase[d] # "idle" =>
           target[d] \in Agents /\ clearing'[target[d]] = clearing[target[d]]
    BY <1>1, <1>2 DEF MarkOutlives, ClearTypeOK
  <1>6. MarkOutlives'
    BY <1>1, <1>3, <1>5 DEF ClearTypeOK, MarkOutlives
  <1>7. FullMark'
    BY <1>3, <1>5 DEF ClearTypeOK, FullMark
  <1> QED
    BY <1>4, <1>6, <1>7

(* At the start no handler stands anywhere.                                *)
LEMMA InitClearInv == FrontInit => ClearInv
  BY DEF FrontInit, ClearInv, ClearTypeOK, MarkOutlives, IdleHasNothing,
         NotWaiting, FullMark, Phases

(* ClearInv is inductive, given the invariant of the tables.               *)
LEMMA StepClearInv ==
    ASSUME PoolInv, ClearInv, [FrontNext]_allVars PROVE ClearInv'
  <1> USE PoolAssumption, FrontAssumption
  <1>1. CASE HandlerStep
    <2>1. ASSUME NEW r \in Reqs, NEW a \in Agents, NEW pinned \in BOOLEAN,
                 NEW t \in 1..MaxLease, DispatchCall(r, a, pinned, t)
          PROVE  ClearInv'
      BY <2>1, ClearInvStutters DEF DispatchCall, Dispatch, members
    <2>2. CASE \E r \in Reqs : Arm(r) \/ Look(r) \/ Sleep(r) \/ CancelCall(r)
      BY <2>2, ClearInvStutters DEF Arm, Look, Sleep, SeenFinal, SeeFinal, CancelCall,
                                   Cancel, members, vars
    <2>3. CASE \E c \in Clears, a \in Agents : ClearCall(c, a)
      BY <2>3, ClearCallKeeps
    <2>4. CASE \E l \in posted : Deliver(l)
      BY <2>4, ClearInvStutters DEF Deliver, vars, members
    <2>5. CASE RestartDaemon
      BY <2>5 DEF RestartDaemon, ClearInv, ClearTypeOK, MarkOutlives, IdleHasNothing,
                  NotWaiting, FullMark, Phases
    <2> QED
      BY <1>1, <2>1, <2>2, <2>3, <2>4, <2>5 DEF HandlerStep
  <1>2. ASSUME NEW c \in Clears, ClearStep(c) PROVE ClearInv'
    <2> USE DEF ClearInv, ClearTypeOK, MarkOutlives, IdleHasNothing, NotWaiting,
                FullMark, Phases
    <2>1. CASE AskSupervisor(c)
      BY <2>1 DEF AskSupervisor, Marked, vars, members
    <2>2. CASE GiveUp(c)
      BY <2>2 DEF GiveUp, Waiting, vars, members
    <2>3. CASE ClearReturns(c)
      BY <2>3, ClearReturnsKeeps DEF ClearInv
    <2> QED
      BY <1>2, <2>1, <2>2, <2>3 DEF ClearStep
  <1>3. CASE SupervisorStep
    <2>1. ASSUME NEW a \in Agents, NEW r \in Reqs, NEW s \in {"done", "failed"},
                 AnswerCall(a, r, s)
          PROVE  ClearInv'
      BY <2>1, ClearInvStutters DEF AnswerCall, Answer, Trust, vars, members
    <2>2. ASSUME NEW a \in Agents, Inject(a) \/ ToggleGate(a) \/ ReadyCall(a)
          PROVE  ClearInv'
      BY <2>2, ClearInvStutters
         DEF Inject, ToggleGate, ReadyCall, Ready, Trust, vars, members
    <2>3. ASSUME NEW a \in Agents, NEW c \in Clears, RunClear(a, c)
          PROVE  ClearInv'
      <3>1. UNCHANGED <<target, clearing>>
        BY <2>3 DEF RunClear, vars, members
      <3>2. CASE UNCHANGED <<phase, left>>
        BY <3>1, <3>2, ClearInvStutters DEF handlers
      <3>3. CASE /\ phase[c] = "waiting"
                 /\ phase' = [phase EXCEPT ![c] = "ending"]
                 /\ left' = [left EXCEPT ![c] = 0]
        <4>1. ClearTypeOK' /\ IdleHasNothing' /\ NotWaiting' /\ FullMark'
          BY <3>1, <3>3 DEF ClearInv, ClearTypeOK, IdleHasNothing, NotWaiting,
                            FullMark, Phases
        <4>2. left[c] \in Nat /\ left[c] < clearing[target[c]] => 0 < clearing[target[c]]
          BY <3>3 DEF ClearInv, MarkOutlives, PoolInv, TypeOK
        <4>3. MarkOutlives'
          BY <3>1, <3>3, <4>2 DEF ClearInv, ClearTypeOK, MarkOutlives
        <4> QED
          BY <4>1, <4>3 DEF ClearInv
      <3> QED
        BY <2>3, <3>2, <3>3 DEF RunClear, Waiting
    <2> QED
      BY <1>3, <2>1, <2>2, <2>3 DEF SupervisorStep
  <1>4. CASE TableStep
    <2>1. CASE SweepAnnounced
      BY <2>1, ClearInvStutters DEF SweepAnnounced, Sweep, SweepMembers
    <2>2. CASE TimePasses
      <3>1. \A c \in Clears : phase[c] \in {"idle", "waiting"} /\ (phase[c] = "waiting" => left[c] > 0)
        BY <2>2 DEF TimePasses, Marked, Ending, Waiting, ClearInv, ClearTypeOK, Phases
      <3>2. left' = [c \in Clears |-> Elapse(left[c])] /\ phase' = phase /\ target' = target
        BY <2>2 DEF TimePasses
      <3>3. clearing \in [Agents -> Nat] /\ clearing' = [a \in Agents |-> Elapse(clearing[a])]
        BY <2>2 DEF TimePasses, Tick, PoolInv, TypeOK
      <3> QED
        BY <3>1, <3>2, <3>3 DEF Elapse, ClearInv, ClearTypeOK, MarkOutlives,
           IdleHasNothing, NotWaiting, FullMark
    <2>3. CASE \E a \in Agents : (Connect(a) \/ Join(a) \/ Disconnect(a)) /\ Unannounced
      BY <2>3, ClearInvStutters DEF Connect, Join, Disconnect, Unannounced, members
    <2>4. CASE \E S \in SUBSET Reqs, r \in Reqs : SweepCut(S, r) /\ Unannounced
      BY <2>4, ClearInvStutters DEF SweepCut, Unannounced
    <2>5. CASE \E r \in Reqs : Stamp(r) /\ Unannounced
      BY <2>5, ClearInvStutters DEF Stamp, Unannounced, members
    <2> QED
      BY <1>4, <2>1, <2>2, <2>3, <2>4, <2>5 DEF TableStep
  <1>5. CASE UNCHANGED allVars
    BY <1>5, ClearInvStutters DEF allVars, frontVars, vars, members
  <1> QED
    BY <1>1, <1>2, <1>3, <1>4, <1>5 DEF FrontNext

(* While a handler waits for its clear no job is leased to its worker and  *)
(* no other clear of that worker is under way, whatever the timeouts.      *)
THEOREM ClearsAreExclusive == FrontSpec => []ClearsExclude
  <1>1. PoolInv /\ ClearInv => ClearsExclude
    BY FrontAssumption DEF PoolInv, ClearInv, ClearTypeOK, MarkOutlives,
       NoLeaseWhileClearing, TypeOK, ClearsExclude
  <1>2. PoolInv /\ ClearInv /\ [FrontNext]_allVars => ClearInv'
    BY StepClearInv
  <1> QED
    BY FrontSafe, InitClearInv, <1>1, <1>2, PTL DEF FrontSpec

-----------------------------------------------------------------------------
(* Long polls.  What a poll relies on from its look on: from the moment it *)
(* has seen a lease, not only from when it sleeps, a job that ended has    *)
(* woken it.                                                               *)
PollTypeOK ==
    /\ poll \in [Reqs -> {"idle", "armed", "leased", "asleep"}]
    /\ woken \in [Reqs -> BOOLEAN]

Ended(r) == state[r] \in Final \ {"expired"}

WokenOnceSeen == \A r \in Reqs : poll[r] \in {"leased", "asleep"} /\ Ended(r) => woken[r]

WakeInv == PollTypeOK /\ WokenOnceSeen

(* What ends no job, and what is announced, wakes or spares every poll.    *)
LEMMA WakeQuiet ==
    ASSUME WakeInv, UNCHANGED polls, \A r \in Reqs : Ended(r)' => Ended(r)
    PROVE  WakeInv'
  BY DEF WakeInv, PollTypeOK, WokenOnceSeen, polls

LEMMA WakeChanged ==
    ASSUME WakeInv, Changed PROVE WakeInv'
  BY DEF WakeInv, PollTypeOK, WokenOnceSeen, Changed

LEMMA WakeSame ==
    ASSUME WakeInv, UNCHANGED polls, UNCHANGED state PROVE WakeInv'
  BY WakeQuiet DEF Ended

LEMMA InitWake == FrontInit => WakeInv
  BY DEF FrontInit, WakeInv, PollTypeOK, WokenOnceSeen

LEMMA StepPoll ==
    ASSUME TypeOK, WakeInv, NEW r \in Reqs, Arm(r) \/ Look(r) \/ Sleep(r)
    PROVE  WakeInv'
  <1>1. state' = state
    BY DEF Arm, Look, Sleep, SeenFinal, SeeFinal, vars, jobs
  <1>2. CASE Arm(r)
    BY <1>1, <1>2 DEF Arm, WakeInv, PollTypeOK, WokenOnceSeen, Ended
  <1>3. CASE Look(r)
    <2>1. woken' = woken
      BY <1>3 DEF Look
    <2>2. PICK p \in {"leased", "idle"} :
             poll' = [poll EXCEPT ![r] = p] /\ (p = "leased" => state[r] = "leased")
      BY <1>3 DEF Look
    <2> QED
      BY <1>1, <2>1, <2>2 DEF WakeInv, PollTypeOK, WokenOnceSeen, Ended, Final
  <1>4. CASE Sleep(r)
    BY <1>1, <1>4 DEF Sleep, WakeInv, PollTypeOK, WokenOnceSeen, Ended
  <1> QED
    BY <1>2, <1>3, <1>4

(* A sweep that broke off only lets leases expire; a whole one announces   *)
(* every job it ends, or ends none.                                        *)
LEMMA StepSweeps ==
    ASSUME TypeOK, WakeInv,
           \/ SweepAnnounced
           \/ \E S \in SUBSET Reqs, r \in Reqs : SweepCut(S, r) /\ Unannounced
    PROVE  WakeInv'
  <1>1. CASE SweepAnnounced
    <2>1. CASE Changed
      BY <2>1, WakeChanged
    <2>2. CASE UNCHANGED polls /\ ~\E r \in Reqs : Expires(r) \/ Lost(r)
      <3>1. \A r \in Reqs : state'[r] \in {"none", state[r]}
        BY <1>1, <2>2 DEF SweepAnnounced, Sweep, SweepJobs
      <3>2. \A r \in Reqs : Ended(r)' => Ended(r)
        BY <3>1 DEF Ended, Final
      <3> QED
        BY <2>2, <3>2, WakeQuiet
    <2> QED
      BY <1>1, <2>1, <2>2 DEF SweepAnnounced
  <1>2. ASSUME NEW S \in SUBSET Reqs, NEW r \in Reqs, SweepCut(S, r), Unannounced
        PROVE  WakeInv'
    <2>1. \A q \in Reqs : state'[q] \in {"expired", state[q]}
      BY <1>2 DEF SweepCut
    <2>2. \A q \in Reqs : Ended(q)' => Ended(q)
      BY <2>1 DEF Ended
    <2> QED
      BY <1>2, <2>2, WakeQuiet DEF Unannounced
  <1> QED
    BY <1>1, <1>2

LEMMA StepWake ==
    ASSUME TypeOK, WakeInv, [FrontNext]_allVars PROVE WakeInv'
  <1>1. CASE HandlerStep
    <2>1. CASE \E r \in Reqs : Arm(r) \/ Look(r) \/ Sleep(r)
      BY <2>1, StepPoll
    <2>2. CASE \/ \E r \in Reqs : CancelCall(r)
               \/ \E r \in Reqs, a \in Agents, pinned \in BOOLEAN, t \in 1..MaxLease :
                     DispatchCall(r, a, pinned, t)
      BY <2>2, WakeChanged DEF CancelCall, DispatchCall
    <2>3. CASE \/ \E c \in Clears, a \in Agents : ClearCall(c, a)
               \/ \E l \in posted : Deliver(l)
      BY <2>3, WakeSame DEF ClearCall, BeginClear, Deliver, vars, jobs
    <2>4. CASE RestartDaemon
      BY <2>4 DEF RestartDaemon, WakeInv, PollTypeOK, WokenOnceSeen
    <2> QED
      BY <1>1, <2>1, <2>2, <2>3, <2>4 DEF HandlerStep
  <1>2. ASSUME NEW c \in Clears, ClearStep(c) PROVE WakeInv'
    <2>1. CASE AskSupervisor(c) \/ GiveUp(c)
      BY <2>1, WakeSame DEF AskSupervisor, GiveUp, vars, jobs
    <2>2. CASE ClearReturns(c)
      BY <2>2, WakeChanged DEF ClearReturns
    <2> QED
      BY <1>2, <2>1, <2>2 DEF ClearStep
  <1>3. CASE SupervisorStep
    <2>1. ASSUME NEW a \in Agents, NEW r \in Reqs, NEW s \in {"done", "failed"},
                 AnswerCall(a, r, s)
          PROVE  WakeInv'
      <3>1. CASE Changed
        BY <3>1, WakeChanged
      <3>2. CASE UNCHANGED <<vars, polls>>
        BY <3>2, WakeSame DEF vars, jobs
      <3> QED
        BY <2>1, <3>1, <3>2 DEF AnswerCall
    <2>2. ASSUME NEW a \in Agents, ReadyCall(a) PROVE WakeInv'
      BY <2>2, WakeChanged DEF ReadyCall
    <2>3. ASSUME NEW a \in Agents,
                 Inject(a) \/ ToggleGate(a) \/ \E c \in Clears : RunClear(a, c)
          PROVE  WakeInv'
      BY <2>3, WakeSame DEF Inject, ToggleGate, RunClear, vars, jobs
    <2> QED
      BY <1>3, <2>1, <2>2, <2>3 DEF SupervisorStep
  <1>4. CASE TableStep
    <2>1. CASE TimePasses
      BY <2>1, WakeSame DEF TimePasses, Tick
    <2>2. CASE \/ \E a \in Agents : (Connect(a) \/ Join(a) \/ Disconnect(a)) /\ Unannounced
               \/ \E r \in Reqs : Stamp(r) /\ Unannounced
      BY <2>2, WakeSame DEF Connect, Join, Disconnect, Stamp, Unannounced, jobs
    <2> QED
      BY <1>4, <2>1, <2>2, StepSweeps DEF TableStep
  <1>5. CASE UNCHANGED allVars
    BY <1>5, WakeSame DEF allVars, frontVars, vars, jobs
  <1> QED
    BY <1>1, <1>2, <1>3, <1>4, <1>5 DEF FrontNext

(* A change between a long poll's look at the table and its sleep is not   *)
(* missed, however many handlers, sweeps and restarts come between         *)
(* (pool.rs: wait_for, changed).                                           *)
THEOREM NoWakeupIsMissed == FrontSpec => []NoMissedWakeup
  <1>1. WakeInv => NoMissedWakeup
    BY DEF WakeInv, WokenOnceSeen, Ended, NoMissedWakeup
  <1>2. PoolInv /\ WakeInv /\ [FrontNext]_allVars => WakeInv'
    BY StepWake DEF PoolInv
  <1> QED
    BY FrontSafe, InitWake, <1>1, <1>2, PTL DEF FrontSpec

-----------------------------------------------------------------------------
(* What the worker's machine holds.                                        *)
SessionTypeOK ==
    /\ posted \in SUBSET Lines
    /\ queue \in [Agents -> SUBSET Lines]
    /\ gate \in [Agents -> BOOLEAN]
    /\ todo \in [Agents -> SUBSET Reqs]
    /\ asked \in [Agents -> SUBSET Clears]

LEMMA InitSession == FrontInit => SessionTypeOK
  BY DEF FrontInit, SessionTypeOK

LEMMA SessionRests ==
    ASSUME SessionTypeOK, UNCHANGED session, posted' \subseteq posted
    PROVE  SessionTypeOK'
  BY DEF SessionTypeOK, session

LEMMA StepSession ==
    ASSUME PoolInv, ClearInv, SessionTypeOK, [FrontNext]_allVars PROVE SessionTypeOK'
  <1>1. CASE HandlerStep
    <2>1. ASSUME NEW r \in Reqs, NEW a \in Agents, NEW pinned \in BOOLEAN,
                 NEW t \in 1..MaxLease, DispatchCall(r, a, pinned, t)
          PROVE  SessionTypeOK'
      BY <2>1 DEF DispatchCall, SessionTypeOK, session, Line, Lines
    <2>2. ASSUME NEW r \in Reqs, CancelCall(r) PROVE SessionTypeOK'
      <3>1. worker[r] \in Agents
        BY <2>2, PoolAssumption DEF CancelCall, Cancel, PoolInv, LeasedByMember, TypeOK
      <3> QED
        BY <2>2, <3>1 DEF CancelCall, SessionTypeOK, session, Line, Lines
    <2>3. CASE \/ \E r \in Reqs : Arm(r) \/ Look(r) \/ Sleep(r)
               \/ \E c \in Clears, a \in Agents : ClearCall(c, a)
      BY <2>3, SessionRests DEF Arm, Look, Sleep, ClearCall
    <2>4. ASSUME NEW l \in posted, Deliver(l) PROVE SessionTypeOK'
      <3>1. l \in Lines /\ l.to \in Agents
        BY DEF SessionTypeOK, Lines
      <3> QED
        BY <2>4, <3>1 DEF Deliver, SessionTypeOK
    <2>5. CASE RestartDaemon
      BY <2>5, SessionRests DEF RestartDaemon
    <2> QED
      BY <1>1, <2>1, <2>2, <2>3, <2>4, <2>5 DEF HandlerStep
  <1>2. ASSUME NEW c \in Clears, ClearStep(c) PROVE SessionTypeOK'
    <2>1. CASE AskSupervisor(c)
      <3>1. asked' \in [Agents -> SUBSET Clears]
        BY <2>1 DEF AskSupervisor, SessionTypeOK
      <3> QED
        BY <2>1, <3>1 DEF AskSupervisor, SessionTypeOK
    <2>2. CASE GiveUp(c) \/ ClearReturns(c)
      BY <2>2, SessionRests DEF GiveUp, ClearReturns
    <2> QED
      BY <1>2, <2>1, <2>2 DEF ClearStep
  <1>3. CASE SupervisorStep
    <2>1. ASSUME NEW a \in Agents, Inject(a) PROVE SessionTypeOK'
      <3>1. \A k : {r \in Reqs : Line(a, r, k) \in queue[a]} \subseteq Reqs
        OBVIOUS
      <3>2. todo' \in [Agents -> SUBSET Reqs]
        BY <2>1, <3>1 DEF Inject, SessionTypeOK
      <3> QED
        BY <2>1, <3>2 DEF Inject, SessionTypeOK
    <2>2. ASSUME NEW a \in Agents, ToggleGate(a) PROVE SessionTypeOK'
      BY <2>2 DEF ToggleGate, SessionTypeOK
    <2>3. ASSUME NEW a \in Agents, ReadyCall(a) PROVE SessionTypeOK'
      BY <2>3, SessionRests DEF ReadyCall
    <2>4. ASSUME NEW a \in Agents, NEW c \in Clears, RunClear(a, c) PROVE SessionTypeOK'
      BY <2>4 DEF RunClear, SessionTypeOK
    <2>5. ASSUME NEW a \in Agents, NEW r \in Reqs, NEW s \in {"done", "failed"},
                 AnswerCall(a, r, s)
          PROVE  SessionTypeOK'
      BY <2>5 DEF AnswerCall, SessionTypeOK
    <2> QED
      BY <1>3, <2>1, <2>2, <2>3, <2>4, <2>5 DEF SupervisorStep
  <1>4. CASE TableStep
    BY <1>4, SessionRests DEF TableStep, SweepAnnounced, TimePasses, Unannounced
  <1>5. CASE UNCHANGED allVars
    BY <1>5, SessionRests DEF allVars, frontVars
  <1> QED
    BY <1>1, <1>2, <1>3, <1>4, <1>5 DEF FrontNext

(* The tables, the polls, the lines, the sessions and the clears keep      *)
(* their types; a clear's wait never exceeds clear_timeout (pool.rs).      *)
THEOREM FrontTypes == FrontSpec => []FrontTypeOK
  <1>1. PoolInv /\ ClearInv /\ WakeInv /\ SessionTypeOK => FrontTypeOK
    <2> SUFFICES ASSUME PoolInv, ClearInv, WakeInv, SessionTypeOK PROVE FrontTypeOK
      OBVIOUS
    <2>1. \A c \in Clears : left[c] \in 0..ClearTimeout
      BY FrontAssumption DEF ClearInv, ClearTypeOK, MarkOutlives, NotWaiting
    <2>2. left \in [Clears -> 0..ClearTimeout]
      BY <2>1 DEF ClearInv, ClearTypeOK
    <2> QED
      BY <2>2 DEF PoolInv, ClearInv, ClearTypeOK, WakeInv, PollTypeOK, SessionTypeOK,
                  FrontTypeOK
  <1>2. PoolInv /\ ClearInv /\ [FrontNext]_allVars => ClearInv'
    BY StepClearInv
  <1>3. PoolInv /\ WakeInv /\ [FrontNext]_allVars => WakeInv'
    BY StepWake DEF PoolInv
  <1>4. PoolInv /\ ClearInv /\ SessionTypeOK /\ [FrontNext]_allVars => SessionTypeOK'
    BY StepSession
  <1> QED
    BY FrontSafe, InitClearInv, InitWake, InitSession, <1>1, <1>2, <1>3, <1>4, PTL
       DEF FrontSpec
=============================================================================
