---------------------------- MODULE MCIncidents ----------------------------
(* A nonce gap ends by a transaction, a retry storm by time, a spent cap by *)
(* neither, adverse inclusion by its remediation.  The recorder alone, with *)
(* two signers and no faults or one signer and faults; and one signer whose *)
(* incidents are remediated, acknowledged, signed for and explained, or      *)
(* remediated by two ticks of the loop.                                     *)
EXTENDS IncidentWriters, TLC

CONSTANTS gap, storm, cap, adverse, t1, t2

Calm == [targets |-> {t1, t2}, kind |-> gap :> "transaction", faults |-> FALSE,
         until |-> 3, ids |-> 3, changes |-> 3, requests |-> 0, ops |-> {}]
Faulty == [targets |-> {t1}, kind |-> storm :> "elapsed" @@ cap :> "standing", faults |-> TRUE,
           until |-> 2, ids |-> 3, changes |-> 3, requests |-> 0, ops |-> {}]
Written == [targets |-> {t1}, kind |-> gap :> "transaction" @@ adverse :> "adverse",
            faults |-> TRUE, until |-> 0, ids |-> 2, changes |-> 1, requests |-> 2, ops |-> Ops \ {"pass"}]
Passed == [Written EXCEPT !.ops = {"pass"}]
MCModes == {Calm, Faulty, Written, Passed}
=============================================================================
