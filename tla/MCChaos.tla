------------------------------ MODULE MCChaos ------------------------------
(* Every scenario, and a signer without one, on two transactions. *)
EXTENDS Chaos

=============================================================================
