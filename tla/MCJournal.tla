----------------------------- MODULE MCJournal ------------------------------
(* A todo, an implementation and its evidence, as the rules ask for them.  *)
EXTENDS Journal

CONSTANTS t, u, v

MCFlagsOf == [b \in Bodies |-> IF b = t THEN {"todo"}
                               ELSE IF b = u THEN {"unverified"} ELSE {"verified"}]
MCRevised == [b \in Bodies |-> IF b = t THEN {}
                               ELSE IF b = u THEN {"unverified"} ELSE {"deprecated"}]
=============================================================================
