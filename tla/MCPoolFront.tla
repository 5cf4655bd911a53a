----------------------------- MODULE MCPoolFront ----------------------------
(* One pool, its workers taking one job each.                              *)
EXTENDS PoolFront

CONSTANTS a1, p1

MCPoolOf == [a \in Agents |-> p1]
MCCapacity == [a \in Agents |-> 1]
=============================================================================
