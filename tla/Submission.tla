----------------------------- MODULE Submission -----------------------------
(***************************************************************************)
(* What a remediation executor promises the remediator, whichever path it  *)
(* takes (interface RemediationExecutor, packages/remediator): an attempt  *)
(* asks for one piece of work, causes at most one transaction, at the      *)
(* target it asked for and from the agent's own key when the work needs    *)
(* its nonce, and is answered once.  "succeeded" is only ever said of work *)
(* whose target was reached on chain.  A refusal, and an answer lost with  *)
(* the process, promise nothing: the transaction may still be sent.        *)
(***************************************************************************)
EXTENDS Naturals

CONSTANTS Attempts, Works, TargetOf, Nonced, None

VARIABLES
    asked,    \* attempt -> the work it was asked for
    carried,  \* attempt -> the work its transaction carries
    sender,   \* attempt -> who signs that transaction
    fate,     \* attempt -> what became of that transaction
    answer    \* attempt -> what the remediator was told

vars == <<asked, carried, sender, fate, answer>>

Init ==
    /\ asked = [a \in Attempts |-> None]
    /\ carried = [a \in Attempts |-> None]
    /\ sender = [a \in Attempts |-> "nobody"]
    /\ fate = [a \in Attempts |-> "none"]
    /\ answer = [a \in Attempts |-> "none"]

Ask(a, w) ==
    /\ asked[a] = None
    /\ asked' = [asked EXCEPT ![a] = w]
    /\ \E v \in {"none", "refused"} : answer' = [answer EXCEPT ![a] = v]
    /\ UNCHANGED <<carried, sender, fate>>

Send(a, w) ==
    /\ asked[a] # None /\ fate[a] = "none"
    /\ TargetOf[w] = TargetOf[asked[a]]
    /\ carried' = [carried EXCEPT ![a] = w]
    /\ \E s \in {"agent", "relayer"} :
          /\ w \in Nonced => s = "agent"
          /\ sender' = [sender EXCEPT ![a] = s]
    /\ fate' = [fate EXCEPT ![a] = "sent"]
    /\ UNCHANGED <<asked, answer>>

\* The signer is sent from as it is told of it, or broken off.
SendAndRefuse(a, w) ==
    /\ asked[a] # None /\ fate[a] = "none" /\ answer[a] = "none"
    /\ TargetOf[w] = TargetOf[asked[a]]
    /\ carried' = [carried EXCEPT ![a] = w]
    /\ sender' = [sender EXCEPT ![a] = "agent"]
    /\ fate' = [fate EXCEPT ![a] = "sent"]
    /\ answer' = [answer EXCEPT ![a] = "refused"]
    /\ UNCHANGED asked

Mine(a) ==
    /\ fate[a] = "sent"
    /\ \E f \in {"landed", "reverted"} : fate' = [fate EXCEPT ![a] = f]
    /\ UNCHANGED <<asked, carried, sender, answer>>

Reached(w) == \E e \in Attempts :
    fate[e] = "landed" /\ TargetOf[carried[e]] = TargetOf[w]

Answer(a, v) ==
    /\ asked[a] # None /\ answer[a] = "none"
    /\ v = "succeeded" => Reached(asked[a])
    /\ answer' = [answer EXCEPT ![a] = v]
    /\ UNCHANGED <<asked, carried, sender, fate>>

\* A process that stops answers nobody.
Crash ==
    /\ answer' = [a \in Attempts |->
                    IF asked[a] # None /\ answer[a] = "none" THEN "lost" ELSE answer[a]]
    /\ UNCHANGED <<asked, carried, sender, fate>>

Next ==
    \/ \E a \in Attempts, w \in Works : Ask(a, w) \/ Send(a, w) \/ SendAndRefuse(a, w)
    \/ \E a \in Attempts : Mine(a)
    \/ \E a \in Attempts, v \in {"refused", "failed", "succeeded"} : Answer(a, v)
    \/ Crash

Spec == Init /\ [][Next]_vars
=============================================================================
