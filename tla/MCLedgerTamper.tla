-------------------------- MODULE MCLedgerTamper ---------------------------
(* Two appenders, and two entries of which one has a second spelling.      *)
EXTENDS LedgerTamper

CONSTANTS e1, e2, e1Upper

MCEntries == {e1, e2, e1Upper}
MCCanon == [e \in MCEntries |-> IF e = e1Upper THEN e1 ELSE e]
=============================================================================
