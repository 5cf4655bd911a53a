------------------------------ MODULE JobLease ------------------------------
(***************************************************************************)
(* What pool dispatch promises a gateway, without saying how.              *)
(*                                                                         *)
(* A request is pending with exactly one worker, or it is not pending.  A  *)
(* worker never holds more requests than its capacity.  A request that was *)
(* answered, refused by its worker or withdrawn stays so until the daemon  *)
(* forgets it; only a lost one may be leased again.                        *)
(***************************************************************************)
EXTENDS Naturals, FiniteSets

CONSTANTS Agents,    \* worker sessions
          Reqs,      \* request ids
          Capacity,  \* [Agents -> Nat], how many requests a worker may hold
          NoOne      \* the holder of a request that is not pending

VARIABLES holder,    \* who works on a request
          outcome    \* what became of it

Settled == {"answered", "refused", "withdrawn"}
Outcomes == {"none", "pending", "lost"} \cup Settled

Held(a) == {r \in Reqs : holder[r] = a}

Init == /\ holder = [r \in Reqs |-> NoOne]
        /\ outcome = [r \in Reqs |-> "none"]

Lease(r, a) ==
    /\ outcome[r] \in {"none", "lost"}
    /\ Cardinality(Held(a)) < Capacity[a]
    /\ holder' = [holder EXCEPT ![r] = a]
    /\ outcome' = [outcome EXCEPT ![r] = "pending"]

Settle(r, o) ==
    /\ outcome[r] = "pending"
    /\ holder' = [holder EXCEPT ![r] = NoOne]
    /\ outcome' = [outcome EXCEPT ![r] = o]

(* The daemon gives up on the requests of L, and forgets those of F.       *)
Reclaim(L, F) ==
    /\ \A r \in L : outcome[r] = "pending"
    /\ \A r \in F : r \in L \/ outcome[r] \in Settled \cup {"lost"}
    /\ holder' = [r \in Reqs |-> IF r \in L THEN NoOne ELSE holder[r]]
    /\ outcome' = [r \in Reqs |-> IF r \in F THEN "none"
                                 ELSE IF r \in L THEN "lost" ELSE outcome[r]]

Next ==
    \/ \E r \in Reqs, a \in Agents : Lease(r, a)
    \/ \E r \in Reqs, o \in Settled : Settle(r, o)
    \/ \E L, F \in SUBSET Reqs : Reclaim(L, F)

Spec == Init /\ [][Next]_<<holder, outcome>>
=============================================================================
