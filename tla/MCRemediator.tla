---------------------------- MODULE MCRemediator ---------------------------
(* Three incidents: i2 shares its signer with i1 and its agent with i3, so *)
(* that each ceiling is reached where the others are not.  c1 calls twice; *)
(* c2, whose ledger writes may fail, once.                                 *)
EXTENDS Remediator

CONSTANTS c1, c2, i1, i2, i3, s1, s2, a1, a2

MCIncidents == {i1, i2, i3}
MCSignerOf == [i \in MCIncidents |-> IF i = i3 THEN s2 ELSE s1]
MCAgentOf == [i \in MCIncidents |-> IF i = i1 THEN a1 ELSE a2]
MCCalls == {c1, c2}
MCAsked == [c \in MCCalls |-> IF c = c1 THEN <<MCIncidents, {i2}>> ELSE <<{i2}>>]
=============================================================================
