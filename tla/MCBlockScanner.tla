--------------------------- MODULE MCBlockScanner ---------------------------
(* Two addresses: each transaction is sent by one of them to the other. *)
EXTENDS BlockScanner

CONSTANTS t1, t2, s1, s2, k1, k2

Sent == [t \in Txs |-> IF t = t1 THEN s1 ELSE s2]
Received == [t \in Txs |-> IF t = t1 THEN s2 ELSE s1]
=============================================================================
