----------------------------- MODULE Ownership -----------------------------
(***************************************************************************)
(* What the registry promises about who owns an agent: "First registration *)
(* wins" (packages/api identity.ts), and an organisation known by two ids  *)
(* is made one.  Registry implements this with several awaits per claim.   *)
(***************************************************************************)
CONSTANTS Agents, Orgs, NoOrg,
    DerivedId, RealId  \* one operator, before and after KeeperHub names it

VARIABLE owner

Init == owner = [a \in Agents |-> NoOrg]

Claim(a, o) ==
    /\ owner[a] = NoOrg
    /\ owner' = [owner EXCEPT ![a] = o]

Unite == owner' = [a \in Agents |-> IF owner[a] = DerivedId THEN RealId ELSE owner[a]]

Next == Unite \/ \E a \in Agents, o \in Orgs : Claim(a, o)

Spec == Init /\ [][Next]_owner
=============================================================================
