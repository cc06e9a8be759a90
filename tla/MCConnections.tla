--------------------------- MODULE MCConnections ---------------------------
(* Two callers of one organisation, and a callback that may come again. *)
EXTENDS Connections, TLC

CONSTANTS org, c1, c2, f1, f2

=============================================================================
