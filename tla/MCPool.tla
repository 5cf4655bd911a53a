------------------------------- MODULE MCPool -------------------------------
(* Two workers of one pool, one with room for two jobs, and two requests.  *)
EXTENDS Pool

CONSTANTS a1, a2, p1

MCPoolOf == [a \in Agents |-> p1]
MCCapacity == [a \in Agents |-> IF a = a1 THEN 1 ELSE 2]
=============================================================================
