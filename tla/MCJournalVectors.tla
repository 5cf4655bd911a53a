-------------------------- MODULE MCJournalVectors --------------------------
(* Plain notes, without flags or links.                                    *)
EXTENDS JournalVectors

MCPlain == [b \in Bodies |-> {}]
=============================================================================
