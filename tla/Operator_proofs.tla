-------------------------- MODULE Operator_proofs --------------------------
(***************************************************************************)
(* What an operator is promised, for any constants.  Of the registry: it   *)
(* implements Ownership, what only the owner of an agent may do to it,     *)
(* only its owner does, no more addresses are watched than the ceiling and *)
(* the handlers that raced past it, and no signature is worth two          *)
(* sessions.  Of what Blackbox keeps and says in the operator's            *)
(* organisation: a confirmed trigger fires, workflows are named rather     *)
(* than counted, and each moment of an incident is said once and its end   *)
(* wherever it began.                                                      *)
(***************************************************************************)
EXTENDS Registry, Alerts, FiniteSetTheorems, SequenceTheorems, WellFoundedInduction, TLAPS

\* The rows and the locals that a claim, a breaker and a run log depend on.
Locals == [pc : Waits, org : Orgs \union {NoOrg, Local}, agent : Agents,
           signer : Signers, todo : SUBSET Agents, nonce : Nat]

Shape ==
    /\ owner \in [Agents -> Orgs \union {NoOrg}]
    /\ watched \in [Signers -> Agents]
    /\ breaker \in [Agents -> Orgs \union {NoOrg, Local}]
    /\ sessions \subseteq Orgs
    /\ issued \in Nat
    /\ req \in [Requests -> Locals]

\* A handler that goes on to mint or to claim acts for an organisation.
Signing == {"remapping owners", "remapping sessions", "minting", "proving", "matching",
            "claiming", "inserting"}

\* The organisation of a handler is, or was, the owner of its agent.
OwnedBy(r) ==
    /\ owner[req[r].agent] # NoOrg
    /\ Renamed(req[r].org) = Renamed(owner[req[r].agent])

\* Between a check and what it allows, the answer stays true.
LocalInv(r) ==
    /\ req[r].pc # "registering" => req[r].org \in Orgs \union {NoOrg}
    /\ req[r].pc \in Signing => req[r].org \in Orgs
    /\ req[r].pc \in {"proving", "matching"} => req[r].org \in Wallets
    /\ req[r].pc \in {"resolving", "reading runs"} => OwnedBy(r)
    /\ req[r].pc = "registering" => /\ owner[req[r].agent] # NoOrg
                                    /\ req[r].org # Local => OwnedBy(r)
    /\ req[r].pc = "asking again" => OwnedBy(r)

RInv == Shape /\ (\A r \in Requests : LocalInv(r)) /\ BreakerIsItsOwners

-----------------------------------------------------------------------------
(* The two ids of one operator *)

LEMMA Constants ==
    /\ NoOrg \notin Orgs /\ DerivedId # RealId
    /\ DerivedId \in Orgs /\ RealId \in Orgs /\ Wallets \subseteq Orgs
BY RegistryAssumption

LEMMA RenamedTwice ==
    /\ \A o : Renamed(Renamed(o)) = Renamed(o)
    /\ \A o : Renamed(o) = NoOrg <=> o = NoOrg
    /\ \A o \in Orgs : Renamed(o) \in Orgs
BY Constants DEF Renamed

\* Whatever a session was moved to, it is the same operator's.
LEMMA SessionIsTheSame ==
    ASSUME sessions \subseteq Orgs, NEW r \in Requests
    PROVE  /\ SessionNow(r) \in Orgs \union {NoOrg}
           /\ SessionNow(r) # NoOrg => Renamed(SessionNow(r)) = Renamed(req[r].org)
BY RenamedTwice DEF SessionNow

LEMMA IdleIsShaped ==
    /\ NoReq \in Locals /\ NoReq.pc = "idle" /\ NoReq.org = NoOrg
<1>1. NoAgent \in Agents /\ NoSigner \in Signers
  BY RegistryAssumption DEF NoAgent, NoSigner
<1> QED
  BY <1>1 DEF NoReq, Locals, Waits

LEMMA InitRInv == ASSUME Init PROVE RInv
<1>1. NoAgent \in Agents
  BY RegistryAssumption DEF NoAgent
<1>2. Shape
  BY <1>1, IdleIsShaped DEF Init, Shape
<1>3. \A r \in Requests : req[r].pc = "idle" /\ req[r].org = NoOrg
  BY IdleIsShaped DEF Init
<1>4. \A r \in Requests : LocalInv(r)
  BY <1>3 DEF LocalInv, Signing
<1> QED
  BY <1>2, <1>4 DEF RInv, BreakerIsItsOwners, Init

-----------------------------------------------------------------------------
(* What no step undoes: whose agent it is *)

OwnersKept ==
    \A a \in Agents : owner[a] # NoOrg =>
        owner'[a] # NoOrg /\ Renamed(owner'[a]) = Renamed(owner[a])

Others(r) == \A q \in Requests \ {r} : req'[q] = req[q]

\* A step of one handler leaves what the others have checked true.
LEMMA OneHandlerMoves ==
    ASSUME RInv, Shape', OwnersKept, NEW r \in Requests, Others(r), LocalInv(r)',
           BreakerIsItsOwners'
    PROVE  RInv'
<1>1. ASSUME NEW q \in Requests, q # r
      PROVE  LocalInv(q)'
  <2>1. LocalInv(q) /\ req'[q] = req[q] /\ req[q].agent \in Agents
    BY <1>1 DEF RInv, Shape, Locals, Others
  <2>2. OwnedBy(q) => OwnedBy(q)'
    BY <2>1 DEF OwnedBy, OwnersKept
  <2> QED
    BY <2>1, <2>2 DEF LocalInv, OwnersKept
<1> QED
  BY <1>1 DEF RInv

\* Nothing but claims and the uniting of the two ids writes an owner.
LEMMA SameOwners ==
    ASSUME RInv, UNCHANGED <<owner, breaker>>
    PROVE  OwnersKept /\ BreakerIsItsOwners'
BY DEF OwnersKept, RInv, BreakerIsItsOwners

LEMMA BreakersKeepTheirOwners ==
    ASSUME RInv, Shape', OwnersKept, UNCHANGED breaker
    PROVE  BreakerIsItsOwners'
BY DEF OwnersKept, RInv, BreakerIsItsOwners

LEMMA UniteKeepsOwners ==
    ASSUME RInv, owner' = [a \in Agents |-> Renamed(owner[a])]
    PROVE  OwnersKept /\ owner' \in [Agents -> Orgs \union {NoOrg}]
BY RenamedTwice DEF OwnersKept, RInv, Shape

LEMMA ClaimKeepsOwners ==
    ASSUME RInv, NEW a \in Agents, NEW o \in Orgs, owner' = Inserted(a, o)
    PROVE  OwnersKept /\ owner' \in [Agents -> Orgs \union {NoOrg}]
BY DEF OwnersKept, RInv, Shape, Inserted

\* How a handler ends a step.
LEMMA Ends ==
    ASSUME RInv, NEW r \in Requests, Done(r)
    PROVE  /\ Others(r) /\ req' \in [Requests -> Locals]
           /\ req'[r].pc = "idle" /\ req'[r].org = NoOrg
BY IdleIsShaped DEF RInv, Shape, Done, Others

LEMMA Goes ==
    ASSUME RInv, NEW r \in Requests, NEW pc \in Waits, Goto(r, pc)
    PROVE  /\ Others(r) /\ req' \in [Requests -> Locals]
           /\ req'[r].pc = pc /\ req'[r].org = req[r].org /\ req'[r].agent = req[r].agent
BY DEF RInv, Shape, Goto, Others, Locals

\* A handler that only read, and goes on or ends.
LEMMA Reads ==
    ASSUME RInv, NEW r \in Requests, UNCHANGED <<owner, breaker>>, Shape', Others(r),
           LocalInv(r)'
    PROVE  RInv'
BY SameOwners, OneHandlerMoves

LEMMA EndsWell ==
    ASSUME RInv, NEW r \in Requests, Done(r), OwnersKept, BreakerIsItsOwners',
           owner' \in [Agents -> Orgs \union {NoOrg}],
           watched' \in [Signers -> Agents],
           breaker' \in [Agents -> Orgs \union {NoOrg, Local}],
           sessions' \subseteq Orgs, issued' \in Nat
    PROVE  RInv'
<1>1. Others(r) /\ req' \in [Requests -> Locals] /\ req'[r].pc = "idle" /\ req'[r].org = NoOrg
  BY Ends
<1>2. LocalInv(r)'
  BY <1>1 DEF LocalInv, Signing
<1>3. Shape'
  BY <1>1 DEF Shape
<1> QED
  BY <1>1, <1>2, <1>3, OneHandlerMoves

\* The same for a handler that goes on to another step.
LEMMA GoesWell ==
    ASSUME RInv, NEW r \in Requests, NEW pc \in Waits, Goto(r, pc), OwnersKept,
           BreakerIsItsOwners',
           owner' \in [Agents -> Orgs \union {NoOrg}],
           watched' \in [Signers -> Agents],
           breaker' \in [Agents -> Orgs \union {NoOrg, Local}],
           sessions' \subseteq Orgs, issued' \in Nat,
           req[r].org \in Orgs \union {NoOrg},
           pc \in Signing => req[r].org \in Orgs,
           pc \in {"proving", "matching"} => req[r].org \in Wallets,
           pc \in {"resolving", "asking again"} => OwnedBy(r),
           pc \notin {"registering", "reading runs"}
    PROVE  RInv'
<1>1. /\ Others(r) /\ req' \in [Requests -> Locals]
      /\ req'[r].pc = pc /\ req'[r].org = req[r].org /\ req'[r].agent = req[r].agent
  BY Goes
<1>2. req[r].agent \in Agents
  BY DEF RInv, Shape, Locals
<1>3. OwnedBy(r) => OwnedBy(r)'
  BY <1>1, <1>2 DEF OwnedBy, OwnersKept
<1>4. LocalInv(r)'
  BY <1>1, <1>3 DEF LocalInv
<1>5. Shape'
  BY <1>1 DEF Shape
<1> QED
  BY <1>1, <1>4, <1>5, OneHandlerMoves

\* A check that is read, and lets the handler go on or ends it.
LEMMA Checks ==
    ASSUME RInv, NEW r \in Requests, NEW test \in BOOLEAN, NEW pc \in Waits,
           GotoIf(test, r, pc), UNCHANGED <<owner, watched, breaker, sessions, issued>>,
           req[r].pc # "registering",
           test /\ pc \in Signing => req[r].org \in Orgs,
           pc \notin {"proving", "matching"},
           test /\ pc \in {"resolving", "asking again"} => OwnedBy(r),
           pc \notin {"registering", "reading runs"}
    PROVE  RInv'
<1>1. OwnersKept /\ BreakerIsItsOwners'
  BY SameOwners
<1>2. req[r].org \in Orgs \union {NoOrg}
  BY DEF RInv, LocalInv
<1>3. CASE test
  BY <1>1, <1>2, <1>3, GoesWell DEF GotoIf, RInv, Shape
<1>4. CASE ~test
  BY <1>1, <1>4, EndsWell DEF GotoIf, RInv, Shape
<1> QED
  BY <1>3, <1>4

\* The next of the agents an address answers for, or none.
LEMMA ClaimsOn ==
    ASSUME RInv, NEW r \in Requests, NEW a, NextClaim(r, a), req[r].org \in Orgs
    PROVE  Others(r) /\ req' \in [Requests -> Locals] /\ LocalInv(r)'
<1>1. req[r] \in Locals /\ req \in [Requests -> Locals]
  BY DEF RInv, Shape
<1> DEFINE rest == [req[r] EXCEPT !.pc = "claiming", !.todo = req[r].todo \ {a}]
<1>2. /\ rest \in Locals /\ rest.pc = "claiming" /\ rest.org = req[r].org
      /\ req' = [req EXCEPT ![r] = IF req[r].todo = {a} THEN NoReq ELSE rest]
  BY <1>1 DEF NextClaim, Locals, Waits
<1> HIDE DEF rest
<1>3. Others(r) /\ req' \in [Requests -> Locals]
  BY <1>2, <1>1, IdleIsShaped DEF Others
<1>4. \/ req'[r].pc = "idle" /\ req'[r].org = NoOrg
      \/ req'[r].pc = "claiming" /\ req'[r].org = req[r].org
  BY <1>2, <1>1, IdleIsShaped
<1> QED
  BY <1>3, <1>4 DEF LocalInv, Signing

-----------------------------------------------------------------------------
(* The steps of a handler *)

LEMMA ProceedKeepsRInv ==
    ASSUME RInv, NEW r \in Requests, Proceed(r)
    PROVE  RInv'
<1> USE DEF rows, wallets
<1>0. /\ Shape /\ LocalInv(r) /\ req[r] \in Locals /\ req[r].agent \in Agents
      /\ req[r].signer \in Signers /\ req[r].todo \in SUBSET Agents
  BY DEF RInv, Shape, Locals
<1>1. CASE OpenIncident(r)
  <2> DEFINE test == req[r].agent \in readableAgents(req[r].org)
  <2>1. test \in BOOLEAN /\ GotoIf(test, r, "opened")
    BY <1>1 DEF OpenIncident
  <2> HIDE DEF test
  <2> QED
    BY <1>0, <1>1, <2>1, Checks DEF OpenIncident, At, Waits, Signing
<1>2. CASE OpenRunLog(r)
  <2>1. MayRemediate(SessionNow(r), req[r].agent) => OwnedBy(r)
    BY <1>0, SessionIsTheSame DEF MayRemediate, Owns, OwnedBy, Shape
  <2> QED
    BY <1>0, <1>2, <2>1, Checks DEF OpenRunLog, At, Waits, Signing, MayRemediate, Owns
<1>3. CASE AskAgain(r)
  <2>1. req[r].pc = "asking again" /\ OwnedBy(r)
    BY <1>0, <1>3 DEF AskAgain, At, LocalInv
  <2>2. CASE SessionNow(r) = NoOrg
    <3>1. Done(r)
      BY <1>0, <1>3, <2>2 DEF AskAgain, Done, RInv, Shape
    <3> QED
      BY <1>3, <3>1, SameOwners, EndsWell DEF AskAgain, RInv, Shape
  <2>3. CASE SessionNow(r) # NoOrg
    <3>1. /\ Others(r) /\ req' \in [Requests -> Locals] /\ req'[r].pc = "reading runs"
          /\ req'[r].org = SessionNow(r) /\ req'[r].agent = req[r].agent
      BY <1>0, <1>3, <2>3, SessionIsTheSame DEF AskAgain, Others, Shape, Locals, Waits
    <3>2. LocalInv(r)'
      BY <1>0, <1>3, <2>1, <2>3, <3>1, SessionIsTheSame
         DEF LocalInv, OwnedBy, Signing, Shape, AskAgain
    <3> QED
      BY <1>0, <1>3, <3>1, <3>2, Reads DEF AskAgain, Shape
  <2> QED
    BY <2>2, <2>3
<1>4. CASE ReadRuns(r)
  BY <1>0, <1>4, SameOwners, EndsWell DEF ReadRuns, Shape
<1>5. CASE RemapOwners(r)
  <2>1. OwnersKept /\ owner' \in [Agents -> Orgs \union {NoOrg}]
    BY <1>5, UniteKeepsOwners DEF RemapOwners
  <2>2. BreakerIsItsOwners'
    BY <1>0, <1>5, <2>1 DEF RemapOwners, RInv, BreakerIsItsOwners, OwnersKept
  <2> QED
    BY <1>0, <1>5, <2>1, <2>2, GoesWell DEF RemapOwners, At, LocalInv, Signing, Waits, Shape
<1>6. CASE RemapSessions(r)
  <2>1. sessions' \subseteq Orgs
    BY <1>0, <1>6, RenamedTwice DEF RemapSessions, Shape
  <2>2. OwnersKept /\ BreakerIsItsOwners'
    BY <1>6, SameOwners DEF RemapSessions
  <2> QED
    BY <1>0, <1>6, <2>1, <2>2, GoesWell DEF RemapSessions, At, LocalInv, Signing, Waits, Shape
<1>7. CASE Mint(r)
  <2>1. sessions' \subseteq Orgs
    BY <1>0, <1>7 DEF Mint, At, LocalInv, Signing, Shape
  <2> QED
    BY <1>0, <1>7, <2>1, SameOwners, EndsWell DEF Mint, Shape
<1>8. CASE Prove(r)
  <2>1. /\ req[r].org \in Orgs /\ req[r].org \in Wallets
        /\ OwnersKept /\ BreakerIsItsOwners'
    BY <1>0, <1>8, SameOwners DEF Prove, At, LocalInv, Signing
  <2>2. CASE Goto(r, "matching") /\ sessions' = sessions \union {req[r].org}
    BY <1>0, <1>8, <2>1, <2>2, GoesWell DEF Prove, Waits, Shape
  <2>3. CASE Done(r) /\ sessions' = sessions
    BY <1>0, <1>8, <2>1, <2>3, EndsWell DEF Prove, Shape
  <2> QED
    BY <1>8, <2>2, <2>3 DEF Prove
<1>9. CASE Match(r)
  <2>1. /\ req[r].org \in Wallets /\ AgentOf[AddressOf[req[r].org]] \in Agents
        /\ \A s \in Signers : watched[s] \in Agents
        /\ AddressOf[req[r].org] \in Signers
    BY <1>0, <1>9, RegistryAssumption DEF Match, At, LocalInv, Shape
  <2>2. PICK mine \in SUBSET Agents :
            req' = [req EXCEPT ![r].pc = "claiming", ![r].todo = mine]
    BY <1>9, <2>1 DEF Match
  <2>3. /\ Others(r) /\ req' \in [Requests -> Locals]
        /\ req'[r].pc = "claiming" /\ req'[r].org = req[r].org
    BY <1>0, <2>2 DEF Others, Shape, Locals, Waits
  <2>4. LocalInv(r)'
    BY <2>1, <2>3, Constants DEF LocalInv, Signing
  <2> QED
    BY <1>0, <1>9, <2>3, <2>4, Reads DEF Match, Shape
<1>10. CASE Watch(r)
  BY <1>0, <1>10, Checks DEF Watch, At, MayAct, Owns, Waits, Signing
<1>11. CASE ReadRows(r)
  <2> DEFINE room == Cardinality(active) < MaxWatched
  <2>1. room \in BOOLEAN
    OBVIOUS
  <2>2. CASE GotoIf(req[r].org # Anonymous, r, "claiming")
    BY <1>0, <1>11, <2>2, Checks DEF ReadRows, At, Waits, Signing, Anonymous, LocalInv
  <2>3. CASE GotoIf(room, r, "filing")
    <3> HIDE DEF room
    <3> QED
      BY <1>0, <1>11, <2>1, <2>3, Checks DEF ReadRows, At, Waits, Signing
  <2> QED
    BY <1>11, <2>2, <2>3 DEF ReadRows, HasRoom
<1>12. CASE FileRow(r)
  <2>1. watched' \in [Signers -> Agents]
    BY <1>0, <1>12 DEF FileRow, Shape
  <2>2. req[r].org \in Orgs \union {NoOrg} /\ OwnersKept /\ BreakerIsItsOwners'
    BY <1>0, <1>12, SameOwners DEF FileRow, At, LocalInv
  <2>3. CASE req[r].org # Anonymous
    BY <1>0, <1>12, <2>1, <2>2, <2>3, GoesWell DEF FileRow, GotoIf, Waits, Anonymous, Shape
  <2>4. CASE req[r].org = Anonymous
    BY <1>0, <1>12, <2>1, <2>2, <2>4, EndsWell DEF FileRow, GotoIf, Shape
  <2> QED
    BY <2>3, <2>4
<1>13. CASE ReadOwner(r)
  <2>1. req[r].org \in Orgs
    BY <1>0, <1>13 DEF ReadOwner, At, LocalInv, Signing
  <2>2. PICK a \in req[r].todo :
            IF owner[a] = NoOrg
              THEN req' = [req EXCEPT ![r].pc = "inserting", ![r].agent = a]
              ELSE NextClaim(r, a)
    BY <1>13 DEF ReadOwner
  <2>3. CASE req' = [req EXCEPT ![r].pc = "inserting", ![r].agent = a]
    <3>1. /\ Others(r) /\ req' \in [Requests -> Locals]
          /\ req'[r].pc = "inserting" /\ req'[r].org = req[r].org
      BY <1>0, <2>3 DEF Others, Shape, Locals, Waits
    <3>2. LocalInv(r)'
      BY <2>1, <3>1 DEF LocalInv
    <3> QED
      BY <1>0, <1>13, <3>1, <3>2, Reads DEF ReadOwner, Shape
  <2>4. CASE NextClaim(r, a)
    <3>1. Others(r) /\ req' \in [Requests -> Locals] /\ LocalInv(r)'
      BY <1>0, <2>1, <2>4, ClaimsOn
    <3> QED
      BY <1>0, <1>13, <3>1, Reads DEF ReadOwner, Shape
  <2> QED
    BY <2>2, <2>3, <2>4
<1>14. CASE InsertOwner(r)
  <2>1. req[r].org \in Orgs
    BY <1>0, <1>14 DEF InsertOwner, At, LocalInv, Signing
  <2>2. OwnersKept /\ owner' \in [Agents -> Orgs \union {NoOrg}]
    BY <1>0, <1>14, <2>1, ClaimKeepsOwners DEF InsertOwner
  <2>3. Others(r) /\ req' \in [Requests -> Locals] /\ LocalInv(r)'
    BY <1>0, <1>14, <2>1, ClaimsOn DEF InsertOwner
  <2>4. BreakerIsItsOwners'
    BY <1>0, <1>14, <2>2 DEF InsertOwner, RInv, BreakerIsItsOwners, OwnersKept
  <2>5. Shape'
    BY <1>0, <1>14, <2>2, <2>3 DEF InsertOwner, Shape
  <2> QED
    BY <2>2, <2>3, <2>4, <2>5, OneHandlerMoves
<1>15. CASE Breaker(r)
  <2>1. MayRemediate(req[r].org, req[r].agent) => OwnedBy(r)
    BY DEF MayRemediate, Owns, OwnedBy
  <2> QED
    BY <1>0, <1>15, <2>1, Checks DEF Breaker, At, Waits, Signing, MayRemediate, Owns
<1>16. CASE Resolve(r)
  <2>1. req[r].pc = "resolving" /\ OwnedBy(r)
    BY <1>0, <1>16 DEF Resolve, At, LocalInv
  <2>2. PICK o \in Orgs \union {Local} :
            /\ req' = [req EXCEPT ![r].pc = "registering", ![r].org = o]
            /\ o # Local => Renamed(o) = Renamed(req[r].org)
    BY <1>0, <1>16, SessionIsTheSame DEF Resolve, Shape
  <2>3. /\ Others(r) /\ req' \in [Requests -> Locals]
        /\ req'[r].pc = "registering" /\ req'[r].org = o /\ req'[r].agent = req[r].agent
    BY <1>0, <2>2 DEF Others, Shape, Locals, Waits
  <2>4. LocalInv(r)'
    BY <1>0, <1>16, <2>1, <2>2, <2>3 DEF LocalInv, OwnedBy, Signing, Resolve
  <2> QED
    BY <1>0, <1>16, <2>3, <2>4, Reads DEF Resolve, Shape
<1>17. CASE RegisterBreaker(r)
  <2>1. req[r].pc = "registering" /\ owner[req[r].agent] # NoOrg
        /\ (req[r].org # Local => OwnedBy(r)) /\ req[r].org \in Orgs \union {NoOrg, Local}
    BY <1>0, <1>17 DEF RegisterBreaker, At, LocalInv, Locals
  <2>2. OwnersKept /\ BreakerIsItsOwners'
    BY <1>0, <1>17, <2>1 DEF RegisterBreaker, OwnersKept, BreakerIsItsOwners, RInv, Shape, OwnedBy
  <2>3. breaker' \in [Agents -> Orgs \union {NoOrg, Local}]
    BY <1>0, <1>17, <2>1 DEF RegisterBreaker, Shape
  <2> QED
    BY <1>0, <1>17, <2>2, <2>3, EndsWell DEF RegisterBreaker, Shape
<1>18. CASE RemoveBreaker(r)
  BY <1>0, <1>18, Checks DEF RemoveBreaker, At, Waits, Signing, MayRemediate, Owns
<1>19. CASE DeleteBreaker(r)
  <2>1. OwnersKept /\ BreakerIsItsOwners'
    BY <1>0, <1>19 DEF DeleteBreaker, OwnersKept, BreakerIsItsOwners, RInv, Shape
  <2>2. breaker' \in [Agents -> Orgs \union {NoOrg, Local}]
    BY <1>0, <1>19 DEF DeleteBreaker, Shape
  <2> QED
    BY <1>0, <1>19, <2>1, <2>2, EndsWell DEF DeleteBreaker, Shape
<1>20. CASE Unwatch(r)
  <2> DEFINE allowed == \/ Owns(req[r].org, watched[req[r].signer])
                        \/ /\ owner[watched[req[r].signer]] = NoOrg
                           /\ req[r].org # Anonymous
             test == req[r].signer \in active => allowed
  <2>1. test \in BOOLEAN /\ GotoIf(test, r, "unwatching")
    BY <1>20 DEF Unwatch, Owns
  <2> HIDE DEF test
  <2> QED
    BY <1>0, <1>20, <2>1, Checks DEF Unwatch, At, Waits, Signing
<1>21. CASE Deactivate(r)
  BY <1>0, <1>21, SameOwners, EndsWell DEF Deactivate, Shape
<1> QED
  BY <1>1, <1>2, <1>3, <1>4, <1>5, <1>6, <1>7, <1>8, <1>9, <1>10, <1>11, <1>12, <1>13,
     <1>14, <1>15, <1>16, <1>17, <1>18, <1>19, <1>20, <1>21 DEF Proceed

-----------------------------------------------------------------------------
(* The requests that come in, and the steps of no handler *)

LEMMA ReceivesWell ==
    ASSUME RInv, NEW r \in Requests, NEW l \in Locals, req' = [req EXCEPT ![r] = l],
           l.org \in Orgs \union {NoOrg}, l.pc \in Signing => l.org \in Orgs,
           l.pc \in {"proving", "matching"} => l.org \in Wallets,
           l.pc \notin {"resolving", "registering", "asking again", "reading runs"},
           UNCHANGED <<rows, sessions, issued>>
    PROVE  RInv'
<1>1. Others(r) /\ req' \in [Requests -> Locals] /\ req'[r] = l
  BY DEF RInv, Shape, Others
<1>2. LocalInv(r)'
  BY <1>1 DEF LocalInv
<1>3. UNCHANGED <<owner, watched, breaker>>
  BY DEF rows
<1>4. Shape'
  BY <1>1, <1>3 DEF RInv, Shape
<1> QED
  BY <1>1, <1>2, <1>3, <1>4, Reads

\* What a step leaves to the others: a handler deletes no challenge, and only a sign-in
\* and a claim write an owner.
LEMMA HandlersFrame ==
    ASSUME NEW r \in Requests, Proceed(r)
    PROVE  challenges' = challenges /\ (owner' = owner \/ RemapOwners(r) \/ InsertOwner(r))
<1>1. CASE OpenIncident(r) \/ OpenRunLog(r) \/ AskAgain(r) \/ ReadRuns(r)
  BY <1>1 DEF OpenIncident, OpenRunLog, AskAgain, ReadRuns, rows, wallets
<1>2. CASE RemapOwners(r) \/ InsertOwner(r)
  <2>1. challenges' = challenges
    BY <1>2 DEF RemapOwners, InsertOwner, wallets
  <2> QED
    BY <1>2, <2>1
<1>3. CASE RemapSessions(r) \/ Mint(r) \/ Prove(r) \/ Match(r)
  BY <1>3 DEF RemapSessions, Mint, Prove, Match, rows, wallets
<1>4. CASE Watch(r) \/ ReadRows(r) \/ FileRow(r) \/ ReadOwner(r)
  BY <1>4 DEF Watch, ReadRows, FileRow, ReadOwner, rows, wallets
<1>5. CASE Breaker(r) \/ Resolve(r) \/ RegisterBreaker(r)
  BY <1>5 DEF Breaker, Resolve, RegisterBreaker, rows, wallets
<1>6. CASE RemoveBreaker(r) \/ DeleteBreaker(r) \/ Unwatch(r) \/ Deactivate(r)
  BY <1>6 DEF RemoveBreaker, DeleteBreaker, Unwatch, Deactivate, rows, wallets
<1> QED
  BY <1>1, <1>2, <1>3, <1>4, <1>5, <1>6 DEF Proceed

LEMMA StepsFrame ==
    ASSUME [Next]_vars
    PROVE  /\ \/ challenges' = challenges
              \/ \E o \in Orgs : Issue(o)
              \/ \E r \in Requests : \E n \in 1..issued : Present(r, n)
           /\ owner' = owner \/ \E r \in Requests : RemapOwners(r) \/ InsertOwner(r)
<1>1. ASSUME NEW o \in Orgs
      PROVE  (Issue(o) => owner' = owner) /\ (SignOut(o) => UNCHANGED <<owner, challenges>>)
  BY DEF Issue, SignOut, rows, wallets
<1>2. ASSUME NEW r \in Requests, NEW n \in 1..issued
      PROVE  Present(r, n) => owner' = owner
  BY DEF Present, rows
<1>3. ASSUME NEW r \in Requests, NEW o \in Orgs
      PROVE  KeySignIn(r, o) \/ OAuthSignIn(r, o) => UNCHANGED <<owner, challenges>>
  BY DEF KeySignIn, OAuthSignIn, rows, wallets
<1>4. ASSUME NEW r, NEW route, NEW o, NEW a, NEW s
      PROVE  Ask(r, route, o, a, s) => UNCHANGED <<owner, challenges>>
  BY DEF Ask, rows, wallets
<1>5. CASE \E r \in Requests : Proceed(r)
  BY <1>5, HandlersFrame
<1>6. CASE \E o \in Orgs : SignOut(o) \/ Issue(o)
  BY <1>1, <1>6
<1>7. CASE \E r \in Requests : \E n \in 1..issued : Present(r, n)
  BY <1>2, <1>7
<1>8. CASE UNCHANGED <<owner, challenges>>
  BY <1>8
<1>9. UNCHANGED vars => UNCHANGED <<owner, challenges>>
  BY DEF vars
<1> QED
  BY <1>3, <1>4, <1>5, <1>6, <1>7, <1>8, <1>9 DEF Next

\* A challenge is for a wallet.
Addressed == \A n \in DOMAIN challenges : challenges[n] \in Wallets

LEMMA NextKeepsAddressed ==
    ASSUME Addressed, [Next]_vars
    PROVE  Addressed'
<1>1. ASSUME NEW w \in Orgs, Issue(w)
      PROVE  Addressed'
  <2>1. PICK stale \in 0..issued :
            challenges' = [n \in WithRoom({k \in DOMAIN challenges : k > stale}) \union {issued + 1} |->
                             IF n \in WithRoom({k \in DOMAIN challenges : k > stale})
                               THEN challenges[n] ELSE w]
    BY <1>1 DEF Issue
  <2>2. w \in Wallets
    BY <1>1 DEF Issue
  <2> QED
    BY <2>1, <2>2 DEF Addressed, WithRoom
<1>2. ASSUME NEW r \in Requests, NEW n \in 1..issued, Present(r, n)
      PROVE  Addressed'
  BY <1>2 DEF Present, Taken, Addressed
<1>3. CASE UNCHANGED challenges
  BY <1>3 DEF Addressed
<1> QED
  BY <1>1, <1>2, <1>3, StepsFrame

LEMMA NextKeepsRInv ==
    ASSUME Addressed, RInv, [Next]_vars
    PROVE  RInv'
<1> USE DEF rows, wallets
<1>0. Shape
  BY DEF RInv
<1>1. ASSUME NEW o \in Orgs, SignOut(o) \/ Issue(o)
      PROVE  RInv'
  <2>1. /\ UNCHANGED <<owner, watched, breaker, req>>
        /\ sessions' \subseteq Orgs /\ issued' \in Nat
    BY <1>0, <1>1 DEF SignOut, Issue, Shape
  <2>2. OwnersKept /\ BreakerIsItsOwners' /\ Shape'
    BY <1>0, <2>1, SameOwners DEF Shape
  <2>3. \A r \in Requests : LocalInv(r)'
    BY <2>1 DEF RInv, LocalInv, OwnedBy
  <2> QED
    BY <2>2, <2>3 DEF RInv
<1>2. ASSUME NEW r \in Requests, NEW n \in 1..issued, Present(r, n)
      PROVE  RInv'
  <2>1. PICK w \in Wallets :
            req' = [req EXCEPT ![r].pc = "proving", ![r].nonce = n, ![r].org = w]
    BY <1>2 DEF Present, Addressed
  <2> DEFINE l == [req[r] EXCEPT !.pc = "proving", !.nonce = n, !.org = w]
  <2>2. n \in Nat /\ w \in Orgs
    BY <1>0, Constants DEF Shape
  <2>3. l \in Locals /\ l.pc = "proving" /\ l.org = w /\ req' = [req EXCEPT ![r] = l]
    BY <1>0, <2>1, <2>2 DEF Shape, Locals, Waits
  <2> HIDE DEF l
  <2> QED
    BY <1>2, <2>2, <2>3, ReceivesWell DEF Present
<1>3. ASSUME NEW r \in Requests, NEW o \in Orgs, KeySignIn(r, o) \/ OAuthSignIn(r, o)
      PROVE  RInv'
  <2>1. PICK pc \in {"remapping owners", "minting"} :
            req' = [req EXCEPT ![r].pc = pc, ![r].org = o]
    BY <1>3 DEF KeySignIn, OAuthSignIn
  <2> DEFINE l == [req[r] EXCEPT !.pc = pc, !.org = o]
  <2>2. l \in Locals /\ l.pc = pc /\ l.org = o /\ req' = [req EXCEPT ![r] = l]
    BY <1>0, <2>1 DEF Shape, Locals, Waits
  <2> HIDE DEF l
  <2> QED
    BY <1>3, <2>2, ReceivesWell DEF KeySignIn, OAuthSignIn
<1>4. ASSUME NEW r \in Requests, NEW route \in Routes, NEW o \in Orgs \union {Anonymous},
             NEW a \in Agents, NEW s \in Signers, Ask(r, route, o, a, s)
      PROVE  RInv'
  <2> DEFINE l == [NoReq EXCEPT !.pc = route, !.org = o, !.agent = a, !.signer = s,
                                !.todo = {a}]
  <2>1. l \in Locals /\ l.pc = route /\ l.org = o /\ req' = [req EXCEPT ![r] = l]
    BY <1>4, IdleIsShaped DEF Ask, Locals, Waits, Anonymous
  <2>2. l.pc \notin Signing \union {"resolving", "registering", "asking again", "reading runs"}
    BY <2>1 DEF Routes, Signing
  <2> HIDE DEF l
  <2> QED
    BY <1>4, <2>1, <2>2, ReceivesWell DEF Ask, Anonymous, Signing
<1>5. CASE UNCHANGED vars
  BY <1>5 DEF vars, RInv, Shape, LocalInv, OwnedBy, BreakerIsItsOwners
<1> QED
  BY <1>1, <1>2, <1>3, <1>4, <1>5, ProceedKeepsRInv DEF Next

-----------------------------------------------------------------------------
(* The theorems *)

LEMMA SpecKeepsRInv == Spec => []RInv
<1>1. Init => Addressed /\ RInv
  BY InitRInv DEF Init, Addressed
<1>2. Addressed /\ RInv /\ [Next]_vars => Addressed' /\ RInv'
  BY NextKeepsRInv, NextKeepsAddressed
<1> QED
  BY <1>1, <1>2, PTL DEF Spec

\* Decide what Blackbox may pause for an agent, and read its runs: whatever handlers
\* overlap and whichever id an operator goes by meanwhile, only the agent's owner does
\* (identity.ts mayRemediate, app.ts's breaker and run-log routes).
THEOREM OnlyOwnersAct == Spec => []OnlyTheOwnerActs
<1>1. RInv => OnlyTheOwnerActs
  BY DEF RInv, LocalInv, OwnedBy, OnlyTheOwnerActs, RunsAreTheOwners
<1> QED
  BY <1>1, SpecKeepsRInv, PTL

\* A step of the registry is a claim of an agent nobody owned, the uniting of the two
\* ids, or nothing to an owner.
LEMMA StepsAreOwnershipSteps ==
    ASSUME RInv, [Next]_vars
    PROVE  [Promise!Next]_owner
<1>1. ASSUME NEW r \in Requests, RemapOwners(r)
      PROVE  Promise!Next
  BY <1>1 DEF RemapOwners, Renamed, Promise!Next, Promise!Unite
<1>2. ASSUME NEW r \in Requests, InsertOwner(r)
      PROVE  [Promise!Next]_owner
  <2>1. req[r].org \in Orgs /\ req[r].agent \in Agents
        /\ owner \in [Agents -> Orgs \union {NoOrg}]
    BY <1>2 DEF RInv, Shape, Locals, LocalInv, InsertOwner, At, Signing
  <2>2. CASE owner[req[r].agent] = NoOrg
    <3>1. Promise!Claim(req[r].agent, req[r].org)
      BY <1>2, <2>1, <2>2 DEF InsertOwner, Inserted, Promise!Claim
    <3> QED
      BY <2>1, <3>1 DEF Promise!Next
  <2>3. CASE owner[req[r].agent] # NoOrg
    BY <1>2, <2>1, <2>3 DEF InsertOwner, Inserted
  <2> QED
    BY <2>2, <2>3
<1> QED
  BY <1>1, <1>2, StepsFrame

\* First registration wins (identity.ts), whatever claims overlap: the registry, with
\* an await between reading an owner and writing one, implements Ownership, where an
\* agent is claimed at once and never passes from one owner to another.
THEOREM RegistryImplementsOwnership == Spec => ImplementsOwnership
<1>1. Init => Promise!Init
  BY DEF Init, Promise!Init
<1>2. RInv /\ [Next]_vars => [Promise!Next]_owner
  BY StepsAreOwnershipSteps
<1> QED
  BY <1>1, <1>2, SpecKeepsRInv, PTL DEF Spec, ImplementsOwnership, Promise!Spec
-----------------------------------------------------------------------------
(* What a handler does to the nonces and to the watched addresses *)

\* Nobody comes to prove a nonce, and the outstanding ones stay.
NoncesStay ==
    /\ UNCHANGED wallets
    /\ \A q \in Requests :
         /\ req'[q].nonce \in {req[q].nonce, 0}
         /\ req'[q].pc = "proving" => req[q].pc = "proving" /\ req'[q].nonce = req[q].nonce

\* Nobody comes to file an address, and none is added.
AddressesStay ==
    /\ active' \subseteq active
    /\ \A q \in Requests : req'[q].pc = "filing" => req[q].pc = "filing"

LEMMA EndingStays ==
    ASSUME Shape, NEW r \in Requests, Done(r)
    PROVE  \A q \in Requests :
             /\ req'[q].nonce \in {req[q].nonce, 0}
             /\ req'[q].pc \in {req[q].pc, "idle"}
             /\ req'[q].pc = "proving" => req'[q] = req[q]
BY DEF Shape, Done, NoReq

LEMMA GoingStays ==
    ASSUME Shape, NEW r \in Requests, NEW pc, Goto(r, pc)
    PROVE  \A q \in Requests :
             /\ req'[q].nonce = req[q].nonce
             /\ req'[q].pc \in {req[q].pc, pc}
BY DEF Shape, Goto, Locals

LEMMA EitherStays ==
    ASSUME Shape, NEW r \in Requests, NEW pc, NEW test \in BOOLEAN, GotoIf(test, r, pc),
           pc # "proving"
    PROVE  \A q \in Requests :
             /\ req'[q].nonce \in {req[q].nonce, 0}
             /\ req'[q].pc \in {req[q].pc, "idle", pc}
             /\ req'[q].pc = "proving" => req'[q] = req[q]
<1>1. CASE test
  BY <1>1 DEF GotoIf, Shape, Goto, Locals
<1>2. CASE ~test
  BY <1>2, EndingStays DEF GotoIf
<1> QED
  BY <1>1, <1>2

\* The ends of the steps that neither come to prove a nonce nor to file an address.
Plain == Waits \ {"proving", "filing"}

LEMMA Ended ==
    ASSUME Shape, NEW r \in Requests, Done(r)
    PROVE  /\ UNCHANGED <<challenges, issued, proofs>> => NoncesStay
           /\ active' \subseteq active => AddressesStay
BY EndingStays DEF NoncesStay, AddressesStay, wallets

LEMMA Went ==
    ASSUME Shape, NEW r \in Requests, NEW pc \in Plain, Goto(r, pc)
    PROVE  /\ UNCHANGED <<challenges, issued, proofs>> => NoncesStay
           /\ active' \subseteq active => AddressesStay
BY GoingStays DEF NoncesStay, AddressesStay, wallets, Plain

LEMMA EndedOrWent ==
    ASSUME Shape, NEW r \in Requests, NEW pc \in Plain, NEW test \in BOOLEAN,
           GotoIf(test, r, pc)
    PROVE  /\ UNCHANGED <<challenges, issued, proofs>> => NoncesStay
           /\ active' \subseteq active => AddressesStay
<1>1. CASE test
  BY <1>1, Went DEF GotoIf
<1>2. CASE ~test
  BY <1>2, Ended DEF GotoIf
<1> QED
  BY <1>1, <1>2

LEMMA Rewritten ==
    ASSUME Shape, NEW r \in Requests, NEW pc \in Plain,
           \A q \in Requests : /\ req'[q].nonce \in {req[q].nonce, 0}
                               /\ req'[q].pc \in {req[q].pc, "idle", pc}
                               /\ req'[q].pc = "proving" => req'[q].nonce = req[q].nonce
    PROVE  /\ UNCHANGED <<challenges, issued, proofs>> => NoncesStay
           /\ active' \subseteq active => AddressesStay
BY DEF NoncesStay, AddressesStay, wallets, Plain

LEMMA Claimed ==
    ASSUME Shape, NEW r \in Requests, NEW a, NextClaim(r, a)
    PROVE  /\ UNCHANGED <<challenges, issued, proofs>> => NoncesStay
           /\ active' \subseteq active => AddressesStay
<1>1. CASE req[r].todo = {a}
  <2>1. Done(r)
    BY <1>1 DEF NextClaim, Done
  <2> QED
    BY <2>1, Ended
<1>2. CASE req[r].todo # {a}
  <2>1. \A q \in Requests : /\ req'[q].nonce = req[q].nonce
                            /\ req'[q].pc \in {req[q].pc, "claiming"}
    BY <1>2 DEF NextClaim, Shape, Locals
  <2>2. "claiming" \in Plain
    BY DEF Plain, Waits
  <2> QED
    BY <2>1, <2>2, Rewritten
<1> QED
  BY <1>1, <1>2

\* Only a verified signature and the two steps of a registration do otherwise.
LEMMA ProceedStays ==
    ASSUME Shape, NEW r \in Requests, Proceed(r)
    PROVE  /\ asked' = asked
           /\ NoncesStay \/ Prove(r)
           /\ AddressesStay \/ ReadRows(r) \/ FileRow(r)
<1> USE DEF rows, wallets
<1>1. CASE OpenIncident(r)
  <2> DEFINE test == req[r].agent \in readableAgents(req[r].org)
  <2>1. test \in BOOLEAN /\ GotoIf(test, r, "opened") /\ "opened" \in Plain
    BY <1>1 DEF OpenIncident, Plain, Waits, MayRemediate, MayAct, Owns
  <2> HIDE DEF test
  <2> QED
    BY <1>1, <2>1, EndedOrWent DEF OpenIncident
<1>2. CASE OpenRunLog(r)
  <2> DEFINE test == MayRemediate(SessionNow(r), req[r].agent)
  <2>1. test \in BOOLEAN /\ GotoIf(test, r, "asking again") /\ "asking again" \in Plain
    BY <1>2 DEF OpenRunLog, Plain, Waits, MayRemediate, MayAct, Owns
  <2> HIDE DEF test
  <2> QED
    BY <1>2, <2>1, EndedOrWent DEF OpenRunLog
<1>3. CASE AskAgain(r)
  <2>1. CASE SessionNow(r) = NoOrg
    <3>1. Done(r)
      BY <1>3, <2>1 DEF AskAgain, Done
    <3> QED
      BY <1>3, <3>1, Ended DEF AskAgain
  <2>2. CASE SessionNow(r) # NoOrg
    <3> DEFINE o == SessionNow(r)
    <3>1. req' = [req EXCEPT ![r] = [req[r] EXCEPT !.pc = "reading runs", !.org = o]]
      BY <1>3, <2>2 DEF AskAgain
    <3> HIDE DEF o
    <3>2. \A q \in Requests : /\ req'[q].nonce = req[q].nonce
                              /\ req'[q].pc \in {req[q].pc, "reading runs"}
      BY <3>1 DEF Shape, Locals
    <3>3. "reading runs" \in Plain
      BY DEF Plain, Waits
    <3> QED
      BY <1>3, <3>2, <3>3, Rewritten DEF AskAgain
  <2> QED
    BY <2>1, <2>2
<1>4. CASE ReadRuns(r)
  BY <1>4, Ended DEF ReadRuns
<1>5. CASE RemapOwners(r)
  BY <1>5, Went DEF RemapOwners, Plain, Waits
<1>6. CASE RemapSessions(r)
  BY <1>6, Went DEF RemapSessions, Plain, Waits
<1>7. CASE Mint(r)
  BY <1>7, Ended DEF Mint
<1>8. CASE Prove(r)
  <2>1. "matching" \in Plain
    BY DEF Plain, Waits
  <2> QED
    BY <1>8, <2>1, Went, Ended DEF Prove
<1>9. CASE Match(r)
  <2>1. PICK mine : req' = [req EXCEPT ![r].pc = "claiming", ![r].todo = mine]
    BY <1>9 DEF Match
  <2>2. \A q \in Requests : /\ req'[q].nonce = req[q].nonce
                            /\ req'[q].pc \in {req[q].pc, "claiming"}
    BY <2>1 DEF Shape, Locals
  <2>3. "claiming" \in Plain
    BY DEF Plain, Waits
  <2> QED
    BY <1>9, <2>2, <2>3, Rewritten DEF Match
<1>10. CASE Watch(r)
  <2> DEFINE test == MayAct(req[r].org, req[r].agent)
  <2>1. test \in BOOLEAN /\ GotoIf(test, r, "reading rows") /\ "reading rows" \in Plain
    BY <1>10 DEF Watch, Plain, Waits, MayRemediate, MayAct, Owns
  <2> HIDE DEF test
  <2> QED
    BY <1>10, <2>1, EndedOrWent DEF Watch
<1>11. CASE ReadRows(r)
  <2> DEFINE named == req[r].org # Anonymous
             room == HasRoom
  <2>0. named \in BOOLEAN /\ room \in BOOLEAN
    BY DEF HasRoom
  <2>1. /\ GotoIf(named, r, "claiming") \/ GotoIf(room, r, "filing")
        /\ UNCHANGED <<challenges, issued, proofs, asked>>
    BY <1>11 DEF ReadRows
  <2> HIDE DEF named, room
  <2>2. PICK pc \in {"claiming", "filing"}, test \in BOOLEAN : GotoIf(test, r, pc)
    BY <2>0, <2>1
  <2> QED
    BY <1>11, <2>1, <2>2, EitherStays DEF NoncesStay
<1>12. CASE FileRow(r)
  <2> DEFINE test == req[r].org # Anonymous
  <2>1. test \in BOOLEAN /\ GotoIf(test, r, "claiming") /\ "claiming" \in Plain
    BY <1>12 DEF FileRow, Plain, Waits
  <2> HIDE DEF test
  <2> QED
    BY <1>12, <2>1, EndedOrWent DEF FileRow
<1>13. CASE ReadOwner(r)
  <2>1. PICK a \in req[r].todo :
            \/ req' = [req EXCEPT ![r].pc = "inserting", ![r].agent = a]
            \/ NextClaim(r, a)
    BY <1>13 DEF ReadOwner
  <2>2. CASE req' = [req EXCEPT ![r].pc = "inserting", ![r].agent = a]
    <3>1. \A q \in Requests : /\ req'[q].nonce = req[q].nonce
                              /\ req'[q].pc \in {req[q].pc, "inserting"}
      BY <2>2 DEF Shape, Locals
    <3>2. "inserting" \in Plain
      BY DEF Plain, Waits
    <3> QED
      BY <1>13, <3>1, <3>2, Rewritten DEF ReadOwner
  <2>3. CASE NextClaim(r, a)
    BY <1>13, <2>3, Claimed DEF ReadOwner
  <2> QED
    BY <2>1, <2>2, <2>3
<1>14. CASE InsertOwner(r)
  BY <1>14, Claimed DEF InsertOwner
<1>15. CASE Breaker(r)
  <2> DEFINE test == MayRemediate(req[r].org, req[r].agent)
  <2>1. test \in BOOLEAN /\ GotoIf(test, r, "resolving") /\ "resolving" \in Plain
    BY <1>15 DEF Breaker, Plain, Waits, MayRemediate, MayAct, Owns
  <2> HIDE DEF test
  <2> QED
    BY <1>15, <2>1, EndedOrWent DEF Breaker
<1>16. CASE Resolve(r)
  <2>1. PICK o : req' = [req EXCEPT ![r].pc = "registering", ![r].org = o]
    BY <1>16 DEF Resolve
  <2>2. \A q \in Requests : /\ req'[q].nonce = req[q].nonce
                            /\ req'[q].pc \in {req[q].pc, "registering"}
    BY <2>1 DEF Shape, Locals
  <2>3. "registering" \in Plain
    BY DEF Plain, Waits
  <2> QED
    BY <1>16, <2>2, <2>3, Rewritten DEF Resolve
<1>17. CASE RegisterBreaker(r)
  BY <1>17, Ended DEF RegisterBreaker
<1>18. CASE RemoveBreaker(r)
  <2> DEFINE test == MayRemediate(req[r].org, req[r].agent)
  <2>1. test \in BOOLEAN /\ GotoIf(test, r, "deleting") /\ "deleting" \in Plain
    BY <1>18 DEF RemoveBreaker, Plain, Waits, MayRemediate, MayAct, Owns
  <2> HIDE DEF test
  <2> QED
    BY <1>18, <2>1, EndedOrWent DEF RemoveBreaker
<1>19. CASE DeleteBreaker(r)
  BY <1>19, Ended DEF DeleteBreaker
<1>20. CASE Unwatch(r)
  <2> DEFINE allowed == \/ Owns(req[r].org, watched[req[r].signer])
                        \/ /\ owner[watched[req[r].signer]] = NoOrg
                           /\ req[r].org # Anonymous
             test == req[r].signer \in active => allowed
  <2>1. test \in BOOLEAN /\ GotoIf(test, r, "unwatching") /\ "unwatching" \in Plain
    BY <1>20 DEF Unwatch, Owns, Plain, Waits
  <2> HIDE DEF test
  <2> QED
    BY <1>20, <2>1, EndedOrWent DEF Unwatch
<1>21. CASE Deactivate(r)
  BY <1>21, Ended DEF Deactivate
<1> QED
  BY <1>1, <1>2, <1>3, <1>4, <1>5, <1>6, <1>7, <1>8, <1>9, <1>10, <1>11, <1>12, <1>13,
     <1>14, <1>15, <1>16, <1>17, <1>18, <1>19, <1>20, <1>21 DEF Proceed

\* The kinds of step there are, for the nonces and for the addresses.
LEMMA Kinds ==
    ASSUME Shape, [Next]_vars
    PROVE  /\ \/ NoncesStay
              \/ \E o \in Orgs : Issue(o)
              \/ \E r \in Requests, n \in 1..issued : Present(r, n)
              \/ \E r \in Requests : Prove(r)
           /\ \/ AddressesStay
              \/ \E r \in Requests : ReadRows(r) \/ FileRow(r)
           /\ asked' \in {asked} \union {asked + 1}
           /\ asked' # asked => asked < MaxAsked
<1> USE DEF rows, wallets
<1>1. ASSUME NEW o \in Orgs, SignOut(o)
      PROVE  NoncesStay /\ AddressesStay /\ asked' = asked
  BY <1>1 DEF SignOut, NoncesStay, AddressesStay
<1>2. ASSUME NEW o \in Orgs, Issue(o)
      PROVE  AddressesStay /\ asked' = asked
  BY <1>2 DEF Issue, AddressesStay
<1>3. ASSUME NEW r \in Requests, NEW n \in 1..issued, Present(r, n)
      PROVE  AddressesStay /\ asked < MaxAsked /\ asked' = asked + 1
  <2>1. req' = [req EXCEPT ![r].pc = "proving", ![r].nonce = n, ![r].org = challenges[n]]
    BY <1>3 DEF Present
  <2>2. \A q \in Requests : req'[q].pc \in {req[q].pc, "proving"}
    BY <2>1 DEF Shape, Locals
  <2> QED
    BY <1>3, <2>2 DEF Present, Receive, AddressesStay
<1>4. ASSUME NEW r \in Requests, NEW o \in Orgs, KeySignIn(r, o) \/ OAuthSignIn(r, o)
      PROVE  NoncesStay /\ AddressesStay /\ asked < MaxAsked /\ asked' = asked + 1
  <2>1. PICK pc \in {"remapping owners", "minting"} :
            req' = [req EXCEPT ![r].pc = pc, ![r].org = o]
    BY <1>4 DEF KeySignIn, OAuthSignIn
  <2>2. \A q \in Requests : /\ req'[q].nonce = req[q].nonce
                            /\ req'[q].pc \in {req[q].pc, pc}
    BY <2>1 DEF Shape, Locals
  <2> QED
    BY <1>4, <2>2 DEF KeySignIn, OAuthSignIn, Receive, NoncesStay, AddressesStay
<1>5. ASSUME NEW r \in Requests, NEW route \in Routes, NEW o \in Orgs \union {Anonymous},
             NEW a \in Agents, NEW s \in Signers, Ask(r, route, o, a, s)
      PROVE  NoncesStay /\ AddressesStay /\ asked < MaxAsked /\ asked' = asked + 1
  <2>1. req' = [req EXCEPT ![r] = [NoReq EXCEPT !.pc = route, !.org = o, !.agent = a,
                                                !.signer = s, !.todo = {a}]]
    BY <1>5 DEF Ask
  <2>2. route # "proving" /\ route # "filing"
    BY DEF Routes
  <2>3. \A q \in Requests : /\ req'[q].nonce \in {req[q].nonce, 0}
                            /\ req'[q].pc \in {req[q].pc, route}
                            /\ req'[q].pc # route => req'[q] = req[q]
    BY <2>1 DEF Shape, NoReq
  <2> QED
    BY <1>5, <2>2, <2>3 DEF Ask, Receive, NoncesStay, AddressesStay
<1>6. CASE UNCHANGED vars
  BY <1>6 DEF vars, NoncesStay, AddressesStay
<1> QED
  BY <1>1, <1>2, <1>3, <1>4, <1>5, <1>6, ProceedStays DEF Next

-----------------------------------------------------------------------------
(* The ceiling on watched addresses *)

Filing == {q \in Requests : req[q].pc = "filing"}

\* Whoever is let in found room for a row, however many are about to file theirs.
Ceiling ==
    /\ active \subseteq Signers /\ IsFiniteSet(active)
    /\ Cardinality(active) + Cardinality(Filing) <= MaxWatched + Cardinality(Requests) - 1

LEMMA Handlers ==
    /\ Cardinality(Requests) \in Nat /\ Cardinality(Requests) >= 1
    /\ \A F \in SUBSET Requests :
         /\ IsFiniteSet(F) /\ Cardinality(F) \in Nat
         /\ Cardinality(F) <= Cardinality(Requests)
<1>1. IsFiniteSet(Requests) /\ Requests # {}
  BY RegistryAssumption
<1>2. \A F \in SUBSET Requests :
         IsFiniteSet(F) /\ Cardinality(F) \in Nat /\ Cardinality(F) <= Cardinality(Requests)
  BY <1>1, FS_Subset, FS_CardinalityType
<1>3. Cardinality(Requests) \in Nat /\ Cardinality(Requests) # 0
  BY <1>1, FS_CardinalityType, FS_EmptySet
<1> QED
  BY <1>2, <1>3

LEMMA InitCeiling == ASSUME Init PROVE Ceiling
<1>1. Filing = {} /\ active = {}
  BY IdleIsShaped DEF Init, Filing
<1> QED
  BY <1>1, Handlers, FS_EmptySet, RegistryAssumption DEF Ceiling

LEMMA Sums ==
    ASSUME NEW n \in Nat, NEW f \in Nat, NEW most \in Nat, NEW all \in Nat,
           NEW m \in Nat, NEW g \in Nat, g <= all, n + f <= most + all - 1
    PROVE  /\ m <= n /\ g <= f => m + g <= most + all - 1
           /\ m < most => m + g <= most + all - 1
           /\ m <= n + 1 /\ g <= f - 1 => m + g <= most + all - 1
OBVIOUS

LEMMA NextKeepsCeiling ==
    ASSUME Shape, Ceiling, [Next]_vars
    PROVE  Ceiling'
<1> DEFINE n == Cardinality(active)
           f == Cardinality(Filing)
           all == Cardinality(Requests)
<1>0. Filing \in SUBSET Requests /\ Filing' \in SUBSET Requests
  BY DEF Filing
<1>1. /\ n \in Nat /\ f \in Nat /\ f' \in Nat /\ f' <= all /\ all \in Nat
      /\ IsFiniteSet(Filing) /\ IsFiniteSet(Filing')
      /\ MaxWatched \in Nat /\ n + f <= MaxWatched + all - 1
      /\ active \subseteq Signers /\ IsFiniteSet(active)
  BY <1>0, Handlers, FS_CardinalityType, RegistryAssumption DEF Ceiling
<1>2. CASE AddressesStay
  <2>1. active' \in SUBSET active /\ Filing' \in SUBSET Filing
    BY <1>2 DEF AddressesStay, Filing
  <2>2. IsFiniteSet(active') /\ n' <= n /\ n' \in Nat /\ f' <= f
    BY <1>1, <2>1, FS_Subset, FS_CardinalityType
  <2>3. n' + f' <= MaxWatched + all - 1
    BY <1>1, <2>2, Sums
  <2> QED
    BY <2>1, <2>2, <2>3, <1>1 DEF Ceiling
<1>3. ASSUME NEW r \in Requests, ReadRows(r)
      PROVE  Ceiling'
  <2>1. active' = active
    BY <1>3 DEF ReadRows, rows
  <2>2. CASE HasRoom
    <3>1. n < MaxWatched /\ n' = n
      BY <2>1, <2>2 DEF HasRoom
    <3>2. n' + f' <= MaxWatched + all - 1
      BY <1>1, <3>1, Sums
    <3> QED
      BY <1>1, <2>1, <3>2 DEF Ceiling
  <2>3. CASE ~HasRoom
    <3>1. PICK test \in BOOLEAN : GotoIf(test, r, "claiming") \/ Done(r)
      BY <1>3, <2>3 DEF ReadRows, GotoIf
    <3>2. AddressesStay
      BY <2>1, <3>1, EitherStays, EndingStays DEF AddressesStay
    <3> QED
      BY <3>2, <1>2
  <2> QED
    BY <2>2, <2>3
<1>4. ASSUME NEW r \in Requests, FileRow(r)
      PROVE  Ceiling'
  <2>1. r \in Filing /\ active' = active \union {req[r].signer} /\ req[r].signer \in Signers
    BY <1>4 DEF FileRow, At, Filing, Shape, Locals
  <2>2. GotoIf(req[r].org # Anonymous, r, "claiming")
    BY <1>4 DEF FileRow
  <2>3. r \notin Filing' /\ Filing' \subseteq Filing \ {r}
    <3>1. req'[r].pc \in {"idle", "claiming"}
      BY <2>2, IdleIsShaped DEF GotoIf, Goto, Done, Shape, Locals
    <3>2. \A q \in Requests : req'[q].pc \in {req[q].pc, "idle", "claiming"}
      BY <2>2, EitherStays
    <3> QED
      BY <3>1, <3>2 DEF Filing
  <2>4. /\ IsFiniteSet(active') /\ n' \in Nat /\ n' <= n + 1
    <3> DEFINE signer == req[r].signer
    <3>1. IsFiniteSet(active \union {signer})
      BY <1>1, FS_AddElement
    <3>2. Cardinality(active \union {signer}) = IF signer \in active THEN n ELSE n + 1
      BY <1>1, FS_AddElement
    <3>3. Cardinality(active \union {signer}) \in Nat
      BY <3>1, FS_CardinalityType
    <3> QED
      BY <1>1, <2>1, <3>1, <3>2, <3>3
  <2>5. f' <= f - 1
    <3>1. IsFiniteSet(Filing \ {r}) /\ Cardinality(Filing \ {r}) = f - 1
      BY <1>1, <2>1, FS_RemoveElement
    <3>2. Filing' \in SUBSET (Filing \ {r})
      BY <2>3
    <3> QED
      BY <3>1, <3>2, FS_Subset
  <2>6. n' + f' <= MaxWatched + all - 1
    BY <1>1, <2>4, <2>5, Sums
  <2> QED
    BY <1>1, <2>1, <2>4, <2>6 DEF Ceiling
<1> QED
  BY <1>2, <1>3, <1>4, Kinds

-----------------------------------------------------------------------------
(* The challenges and what became of them *)

\* A nonce is outstanding, being verified by one handler, spent, or gone.
Nonces ==
    /\ issued <= MaxNonces /\ asked \in 0..MaxAsked
    /\ DOMAIN challenges \subseteq 1..issued /\ challenges \in [DOMAIN challenges -> Wallets]
    /\ Cardinality(DOMAIN challenges) <= MaxOutstanding
    /\ proofs \in Seq(1..issued)
    /\ \A q \in Requests : req[q].nonce <= issued

Spending ==
    /\ \A q \in Requests : req[q].pc = "proving" =>
         /\ req[q].nonce \in (1..issued) \ DOMAIN challenges
         /\ \A i \in DOMAIN proofs : proofs[i] # req[q].nonce
    /\ \A q, r \in Requests : req[q].pc = "proving" /\ req[r].pc = "proving" /\ q # r =>
         req[q].nonce # req[r].nonce
    /\ \A i \in DOMAIN proofs : proofs[i] \notin DOMAIN challenges
    /\ ProofIsSpentOnce

LEMMA OldestIsThere ==
    ASSUME NEW S \in SUBSET Nat, S # {}
    PROVE  Oldest(S) \in S
<1>1. PICK n \in S : \A k \in S : <<k, n>> \notin OpToRel(<, Nat)
  BY WFMin, NatLessThanWellFounded, Zenon
<1>2. \A k \in S : ~(k < n)
  BY <1>1, Zenon DEF OpToRel
<1>3. \A k \in S : n <= k
  BY <1>2
<1> QED
  BY <1>3 DEF Oldest

\* The oldest is put out of a full table: there is room for one more.
LEMMA RoomIsMade ==
    ASSUME NEW S \in SUBSET Nat, IsFiniteSet(S), Cardinality(S) <= MaxOutstanding
    PROVE  /\ WithRoom(S) \subseteq S /\ IsFiniteSet(WithRoom(S))
           /\ Cardinality(WithRoom(S)) \in Nat /\ Cardinality(WithRoom(S)) < MaxOutstanding
<1>1. Cardinality(S) \in Nat /\ MaxOutstanding \in Nat /\ MaxOutstanding > 0
  BY FS_CardinalityType, RegistryAssumption
<1>2. CASE Cardinality(S) >= MaxOutstanding
  <2>1. S # {}
    BY <1>1, <1>2, FS_EmptySet
  <2>2. Oldest(S) \in S
    BY <2>1, OldestIsThere
  <2>3. IsFiniteSet(S \ {Oldest(S)}) /\ Cardinality(S \ {Oldest(S)}) = Cardinality(S) - 1
    BY <2>2, FS_RemoveElement
  <2> QED
    BY <1>1, <1>2, <2>3 DEF WithRoom
<1>3. CASE Cardinality(S) < MaxOutstanding
  BY <1>1, <1>3 DEF WithRoom
<1> QED
  BY <1>1, <1>2, <1>3

LEMMA InitNonces == ASSUME Init PROVE Nonces /\ Spending
<1>1. /\ DOMAIN challenges = {} /\ issued = 0 /\ proofs = <<>> /\ asked = 0
      /\ challenges \in [DOMAIN challenges -> Wallets]
      /\ \A q \in Requests : req[q].nonce = 0 /\ req[q].pc = "idle"
  BY DEF Init, NoReq
<1>2. Cardinality(DOMAIN challenges) = 0
  BY <1>1, FS_EmptySet
<1>3. Nonces
  BY <1>1, <1>2, RegistryAssumption DEF Nonces
<1>4. Spending
  BY <1>1 DEF Spending, ProofIsSpentOnce
<1> QED
  BY <1>3, <1>4

\* A nonce issued later is nobody's yet.
LEMMA IssueKeepsNonces ==
    ASSUME Shape, Nonces, Spending, NEW o, Issue(o)
    PROVE  Nonces' /\ Spending'
<1>0. /\ issued \in Nat /\ issued' = issued + 1 /\ issued < MaxNonces /\ MaxNonces \in Nat
      /\ o \in Wallets /\ UNCHANGED <<proofs, asked, req>>
  BY RegistryAssumption DEF Issue, Shape
<1>1. PICK stale \in 0..issued :
          challenges' = [n \in WithRoom({k \in DOMAIN challenges : k > stale}) \union {issued + 1} |->
                           IF n \in WithRoom({k \in DOMAIN challenges : k > stale})
                             THEN challenges[n] ELSE o]
  BY DEF Issue
<1> DEFINE fresh == {k \in DOMAIN challenges : k > stale}
           kept == WithRoom(fresh)
<1>2. fresh \in SUBSET DOMAIN challenges /\ fresh \in SUBSET Nat
  BY DEF Nonces
<1>3. IsFiniteSet(fresh) /\ Cardinality(fresh) <= MaxOutstanding
  <2>1. IsFiniteSet(DOMAIN challenges)
    <3>1. IsFiniteSet(1..issued)
      BY <1>0, FS_Interval
    <3>2. DOMAIN challenges \in SUBSET (1..issued)
      BY DEF Nonces
    <3> QED
      BY <3>1, <3>2, FS_Subset
  <2>2. /\ IsFiniteSet(fresh) /\ Cardinality(fresh) <= Cardinality(DOMAIN challenges)
        /\ Cardinality(fresh) \in Nat /\ Cardinality(DOMAIN challenges) \in Nat
        /\ Cardinality(DOMAIN challenges) <= MaxOutstanding /\ MaxOutstanding \in Nat
    BY <1>2, <2>1, FS_Subset, FS_CardinalityType, RegistryAssumption DEF Nonces
  <2> HIDE DEF fresh
  <2> QED
    BY <2>2
<1> HIDE DEF fresh
<1>4. /\ kept \subseteq fresh /\ IsFiniteSet(kept)
      /\ Cardinality(kept) \in Nat /\ Cardinality(kept) < MaxOutstanding
  BY <1>2, <1>3, RoomIsMade
<1>5. challenges' = [n \in kept \union {issued + 1} |-> IF n \in kept THEN challenges[n] ELSE o]
  BY <1>1 DEF fresh
<1>6. kept \subseteq DOMAIN challenges /\ DOMAIN challenges' = kept \union {issued + 1}
  BY <1>2, <1>4, <1>5
<1>7. Cardinality(DOMAIN challenges') <= MaxOutstanding
  <2>1. Cardinality(kept \union {issued + 1}) <= Cardinality(kept) + 1
    BY <1>4, FS_AddElement
  <2>2. Cardinality(kept \union {issued + 1}) \in Nat
    BY <1>4, FS_AddElement, FS_CardinalityType
  <2> QED
    BY <1>4, <1>6, <2>1, <2>2, RegistryAssumption
<1> HIDE DEF kept
<1>8. proofs \in Seq(1..issued) /\ proofs' \in Seq(1..issued')
  <2>1. proofs \in Seq(1..issued) /\ 1..issued \subseteq 1..issued'
    BY <1>0 DEF Nonces
  <2> QED
    BY <1>0, <2>1
<1>9. Nonces'
  <2>1. DOMAIN challenges' \subseteq 1..issued'
    BY <1>0, <1>6 DEF Nonces
  <2>2. challenges' \in [DOMAIN challenges' -> Wallets]
    BY <1>0, <1>5, <1>6 DEF Nonces
  <2>3. \A q \in Requests : req'[q].nonce <= issued'
    BY <1>0 DEF Nonces, Shape, Locals
  <2> QED
    BY <1>0, <1>7, <1>8, <2>1, <2>2, <2>3 DEF Nonces
<1>10. Spending'
  <2>1. \A i \in DOMAIN proofs : proofs[i] \in 1..issued
    <3> DEFINE all == 1..issued
    <3>1. proofs \in Seq(all)
      BY <1>8
    <3> HIDE DEF all
    <3>2. \A i \in DOMAIN proofs : proofs[i] \in all
      BY <3>1
    <3> QED
      BY <3>2 DEF all
  <2> QED
    BY <1>0, <1>6, <2>1 DEF Spending, ProofIsSpentOnce
<1> QED
  BY <1>9, <1>10

\* Whoever presents a nonce takes it: the next finds nothing.
LEMMA PresentKeepsNonces ==
    ASSUME Shape, Nonces, Spending, NEW r \in Requests, NEW n \in 1..issued, Present(r, n)
    PROVE  Nonces' /\ Spending'
<1>1. /\ UNCHANGED <<issued, proofs>> /\ issued \in Nat /\ asked < MaxAsked /\ asked' = asked + 1
      /\ n \in DOMAIN challenges
      /\ challenges' = [k \in DOMAIN challenges \ {n} |-> challenges[k]]
      /\ req' = [req EXCEPT ![r].pc = "proving", ![r].nonce = n, ![r].org = challenges[n]]
  BY DEF Present, Receive, Taken, Shape
<1>2. DOMAIN challenges' = DOMAIN challenges \ {n}
  BY <1>1
<1>3. /\ req'[r].pc = "proving" /\ req'[r].nonce = n
      /\ \A q \in Requests : q # r => req'[q] = req[q]
  BY <1>1 DEF Shape, Locals
<1>4. Cardinality(DOMAIN challenges') <= MaxOutstanding
  <2>1. IsFiniteSet(1..issued)
    BY <1>1, FS_Interval
  <2>2. IsFiniteSet(DOMAIN challenges)
    BY <2>1, FS_Subset DEF Nonces
  <2>3. /\ Cardinality(DOMAIN challenges') <= Cardinality(DOMAIN challenges)
        /\ Cardinality(DOMAIN challenges') \in Nat /\ Cardinality(DOMAIN challenges) \in Nat
    BY <1>2, <2>2, FS_Subset, FS_CardinalityType
  <2> QED
    BY <2>3, RegistryAssumption DEF Nonces
<1>5. Nonces'
  <2>1. ASSUME NEW q \in Requests
        PROVE  req'[q].nonce <= issued'
    <3>1. CASE q = r
      BY <1>1, <1>3, <3>1
    <3>2. CASE q # r
      <4>1. req'[q] = req[q]
        BY <1>3, <3>2
      <4> QED
        BY <1>1, <4>1 DEF Nonces
    <3> QED
      BY <3>1, <3>2
  <2>2. asked' \in 0..MaxAsked
    BY <1>1, RegistryAssumption DEF Nonces
  <2>3. DOMAIN challenges' \subseteq 1..issued' /\ challenges' \in [DOMAIN challenges' -> Wallets]
    BY <1>1, <1>2 DEF Nonces
  <2> QED
    BY <1>1, <1>4, <2>1, <2>2, <2>3 DEF Nonces
<1>6. Spending'
  <2>1. ASSUME NEW q \in Requests, req'[q].pc = "proving"
        PROVE  /\ req'[q].nonce \in (1..issued') \ DOMAIN challenges'
               /\ \A i \in DOMAIN proofs' : proofs'[i] # req'[q].nonce
    <3>1. CASE q = r
      <4>1. n \in (1..issued) \ DOMAIN challenges'
        BY <1>2
      <4>2. \A i \in DOMAIN proofs : proofs[i] # n
        BY <1>1 DEF Spending
      <4> QED
        BY <1>1, <1>3, <3>1, <4>1, <4>2
    <3>2. CASE q # r
      <4>1. req'[q] = req[q] /\ req[q].pc = "proving"
        BY <1>3, <2>1, <3>2
      <4>2. /\ req[q].nonce \in (1..issued) \ DOMAIN challenges
            /\ \A i \in DOMAIN proofs : proofs[i] # req[q].nonce
        BY <4>1 DEF Spending
      <4> QED
        BY <1>1, <1>2, <4>1, <4>2
    <3> QED
      BY <3>1, <3>2
  <2>2. ASSUME NEW p \in Requests, NEW q \in Requests, p # q,
               req'[p].pc = "proving", req'[q].pc = "proving"
        PROVE  req'[p].nonce # req'[q].nonce
    <3>1. \A x \in Requests \ {r} : req'[x].pc = "proving" => req[x].nonce # n
      BY <1>1, <1>3 DEF Spending
    <3>2. CASE p = r
      BY <1>3, <2>2, <3>1, <3>2
    <3>3. CASE q = r
      BY <1>3, <2>2, <3>1, <3>3
    <3>4. CASE p # r /\ q # r
      <4>1. req'[p] = req[p] /\ req'[q] = req[q]
        BY <1>3, <3>4
      <4> QED
        BY <2>2, <4>1 DEF Spending
    <3> QED
      BY <3>2, <3>3, <3>4
  <2> QED
    BY <1>1, <1>2, <2>1, <2>2 DEF Spending, ProofIsSpentOnce
<1> QED
  BY <1>5, <1>6

LEMMA ProveKeepsNonces ==
    ASSUME Shape, Nonces, Spending, NEW r \in Requests, Prove(r)
    PROVE  Nonces' /\ Spending'
<1>1. UNCHANGED <<challenges, issued, asked>> /\ issued \in Nat /\ req[r].pc = "proving"
  BY DEF Prove, At, Shape
<1>2. CASE Goto(r, "matching") /\ proofs' = Append(proofs, req[r].nonce)
  <2> DEFINE n == req[r].nonce
             all == 1..issued
  <2>1. n \in all /\ n \notin DOMAIN challenges /\ \A i \in DOMAIN proofs : proofs[i] # n
    BY <1>1 DEF Spending
  <2>2. /\ req'[r].pc = "matching" /\ req'[r].nonce = n
        /\ \A q \in Requests : q # r => req'[q] = req[q]
    BY <1>2 DEF Goto, Shape, Locals
  <2>3. proofs \in Seq(all) /\ proofs' = Append(proofs, n)
    BY <1>2 DEF Nonces
  <2> HIDE DEF n, all
  <2>4. /\ proofs' \in Seq(all) /\ DOMAIN proofs' = 1..(Len(proofs) + 1)
        /\ DOMAIN proofs = 1..Len(proofs) /\ Len(proofs) \in Nat
        /\ proofs'[Len(proofs) + 1] = n
        /\ \A i \in DOMAIN proofs : proofs'[i] = proofs[i]
    BY <2>1, <2>3
  <2>5. \A i \in DOMAIN proofs' : i \in DOMAIN proofs \/ (i = Len(proofs) + 1 /\ proofs'[i] = n)
    BY <2>4
  <2>6. Nonces'
    <3>1. \A q \in Requests : req'[q].nonce <= issued
      BY <2>2 DEF Nonces, n
    <3> QED
      BY <1>1, <2>4, <3>1 DEF Nonces, all
  <2>7. ASSUME NEW q \in Requests, req'[q].pc = "proving"
        PROVE  /\ req'[q].nonce \in (1..issued') \ DOMAIN challenges'
               /\ \A i \in DOMAIN proofs' : proofs'[i] # req'[q].nonce
    <3>1. q # r /\ req'[q] = req[q]
      BY <2>2, <2>7
    <3>2. req[q].nonce # n
      BY <1>1, <2>7, <3>1 DEF Spending, n
    <3> QED
      BY <1>1, <2>4, <2>5, <2>7, <3>1, <3>2 DEF Spending
  <2>8. ASSUME NEW p \in Requests, NEW q \in Requests, p # q,
               req'[p].pc = "proving", req'[q].pc = "proving"
        PROVE  req'[p].nonce # req'[q].nonce
    BY <2>2, <2>8 DEF Spending
  <2>9. \A i \in DOMAIN proofs' : proofs'[i] \notin DOMAIN challenges
    BY <2>1, <2>4, <2>5 DEF Spending
  <2>10. \A i, j \in DOMAIN proofs' : proofs'[i] = proofs'[j] => i = j
    BY <2>1, <2>4, <2>5 DEF Spending, ProofIsSpentOnce
  <2>11. Spending'
    BY <1>1, <2>7, <2>8, <2>9, <2>10 DEF Spending, ProofIsSpentOnce
  <2> QED
    BY <2>6, <2>11
<1>3. CASE Done(r) /\ proofs' = proofs
  <2>1. \A q \in Requests : /\ req'[q].nonce \in {req[q].nonce, 0}
                            /\ req'[q].pc = "proving" => req'[q] = req[q]
    BY <1>3, EndingStays
  <2>2. Nonces'
    BY <1>1, <1>3, <2>1 DEF Nonces
  <2>3. Spending'
    BY <1>1, <1>3, <2>1 DEF Spending, ProofIsSpentOnce
  <2> QED
    BY <2>2, <2>3
<1> QED
  BY <1>2, <1>3 DEF Prove

LEMMA NextKeepsNonces ==
    ASSUME Shape, Nonces, Spending, [Next]_vars
    PROVE  Nonces' /\ Spending'
<1>1. CASE NoncesStay
  <2>1. /\ UNCHANGED <<challenges, issued, proofs>> /\ issued \in Nat
        /\ \A q \in Requests :
             /\ req'[q].nonce \in {req[q].nonce, 0}
             /\ req'[q].pc = "proving" => req[q].pc = "proving" /\ req'[q].nonce = req[q].nonce
    BY <1>1 DEF NoncesStay, wallets, Shape
  <2>2. asked' \in 0..MaxAsked
    BY Kinds, RegistryAssumption DEF Nonces
  <2>3. Nonces'
    BY <2>1, <2>2 DEF Nonces
  <2>4. Spending'
    BY <2>1 DEF Spending, ProofIsSpentOnce
  <2> QED
    BY <2>3, <2>4
<1> QED
  BY <1>1, IssueKeepsNonces, PresentKeepsNonces, ProveKeepsNonces, Kinds

\* The rows and the challenges keep their shape and their bounds, and no proof of a
\* wallet is spent twice (registerWatch, WalletAuth): handlers that found room
\* together overfill the table by no more than their number, a full table of
\* challenges makes room by losing its oldest, and a nonce presented by two handlers
\* is worth one session.
THEOREM RegistryIsKept == Spec => []RegistryHolds
<1> DEFINE Inv == Shape /\ Ceiling /\ Nonces /\ Spending
<1>1. Init => Inv
  BY InitRInv, InitCeiling, InitNonces DEF RInv
<1>2. Inv /\ RInv' /\ [Next]_vars => Inv'
  BY NextKeepsCeiling, NextKeepsNonces DEF RInv
<1>3. Inv => RegistryHolds
  <2> SUFFICES ASSUME Inv
               PROVE  RegistryHolds
    OBVIOUS
  <2>1. req \in [Requests -> [pc : Waits, org : Orgs \union {NoOrg, Local}, agent : Agents,
                              signer : Signers, todo : SUBSET Agents, nonce : 0..issued]]
    BY DEF Shape, Locals, Nonces
  <2>2. TypeOK
    BY <2>1, RegistryAssumption DEF TypeOK, Shape, Nonces, Ceiling
  <2>3. RegistryIsBounded
    <3>1. Filing \in SUBSET Requests
      BY DEF Filing
    <3>2. Cardinality(Filing) \in Nat /\ Cardinality(active) \in Nat /\ Cardinality(Requests) \in Nat
      BY <3>1, Handlers, FS_CardinalityType DEF Ceiling
    <3> QED
      BY <3>2, RegistryAssumption DEF RegistryIsBounded, Ceiling
  <2> QED
    BY <2>2, <2>3 DEF RegistryHolds, Spending
<1> QED
  BY <1>1, <1>2, <1>3, SpecKeepsRInv, PTL DEF Spec

-----------------------------------------------------------------------------

(***************************************************************************)
(* What Blackbox keeps and says in an operator's organisation.             *)
(***************************************************************************)
Workflow == [name : Names, alive : BOOLEAN, armed : BOOLEAN, secret : Callers, needed : BOOLEAN]

\* What is listed is a workflow of ours, and a disarmed one once it is deleted.
ListedInv ==
    /\ mode \in Modes
    /\ listing \in Seq(Workflow) /\ Len(listing) <= MaxListed
    /\ \A k \in Ids : listing[k].armed => listing[k].alive

\* Each kind of caller goes its own way, and holds a listed workflow where it
\* needs one.
CallersInv ==
    /\ at \in [Callers -> {"idle", "read", "claim", "find", "patch", "create", "sync", "run", "done"}]
    /\ answer \in [Callers -> {"none", "installed", "ran", "cooling", "refused", "failed", "lost"}]
    /\ using \in [Callers -> Ids \union {NoWorkflow}]
    /\ cached \in [Names -> Ids \union {NoWorkflow}]
    /\ left \in [Callers -> 0..RunsPerPress]
    /\ \A i \in Installs : at[i] \notin {"read", "claim", "run"}
    /\ \A p \in Presses : at[p] \notin {"patch", "sync"}
    /\ \A e \in Mailers : at[e] \notin {"read", "claim", "patch", "sync"}
    /\ \A c \in Callers : at[c] \in {"patch", "sync", "run"} => using[c] \in Ids
    /\ \A c \in Callers \ Installs : Midway(c) => left[c] >= 1

\* An install under way has a secret; one confirmed is over, and its workflow
\* is armed with a secret that was minted, or deleted.
InstallsInv ==
    /\ minted \subseteq Installs /\ spurned \subseteq minted
    /\ \A i \in Installs : Midway(i) => i \in minted
    /\ \A i \in Installs : answer[i] = "installed" =>
          /\ at[i] = "done" /\ using[i] \in Ids
          /\ listing[using[i]].alive => listing[using[i]].armed /\ listing[using[i]].secret \in minted

\* The listing keeps every name it ever had, so a call that found none of its
\* name began when there was none.
NamesInv ==
    /\ began \in [Callers -> SUBSET Names]
    /\ \A k \in Ids : listing[k].needed
    /\ \A c \in Callers : \A n \in began[c] : \E k \in Ids : listing[k].name = n
    /\ \A c \in Callers : at[c] = "create" => c \in spurned \/ NameOf(c) \notin began[c]

\* A press that holds the slot, or held it and ran something.
HasClaimed(p) == pressed[p] # Never /\ (Ran(p) \/ at[p] \in {"find", "create", "run"})
Apart(p, q) == pressed[p] + Cooldown <= pressed[q] \/ pressed[q] + Cooldown <= pressed[p]

\* While presses do not overlap, the cursor is the latest claim, and the press
\* under way is later.
PressesInv ==
    /\ lastRun \in 0..Never /\ now \in 0..MaxTime
    /\ pressed \in [Callers -> 0..Never]
    /\ lastRun # Never => lastRun <= now
    /\ \A p \in Presses : pressed[p] # Never => pressed[p] <= now
    /\ \A p \in Presses : Midway(p) => pressed[p] # Never
AlonePressesInv == mode.sequential =>
    /\ \A p, q \in Presses : Midway(p) /\ Midway(q) => p = q
    /\ \A p \in Presses : HasClaimed(p) => lastRun # Never /\ pressed[p] <= lastRun
    /\ \A p \in Presses : at[p] = "claim" => ~Cooling(p)
    /\ \A p \in Presses : Midway(p) => (lastRun # Never => lastRun <= pressed[p])
    /\ \A p, q \in Presses : p # q /\ HasClaimed(p) /\ HasClaimed(q) => Apart(p, q)

WorkflowsInv == ListedInv /\ CallersInv /\ InstallsInv /\ NamesInv /\ PressesInv /\ AlonePressesInv

Moments == {"opened", "escalated", "remediation_failed", "resolved"}
Objects == [status : {"none", "open", "resolved"}, severity : Severities, failed : BOOLEAN]
Sayings == [kind : Moments, severity : Severities, of : Incidents]
Tellings == [kind : Moments, severity : Severities, of : SUBSET {Channels[k] : k \in DOMAIN Channels}]

AlertsTypes ==
    /\ incident \in [Incidents -> Objects] /\ row \in [Incidents -> Objects]
    /\ queue \in [Evaluations -> Seq(Incidents)]
    /\ stored \in [Evaluations -> BOOLEAN]
    /\ saying \in [Evaluations -> Sayings \union {Nothing}]
    /\ targets \in [Evaluations -> SUBSET (DOMAIN Channels)]
    /\ memory \in [Incidents -> Sayings \union {Nothing}]
    /\ told \in [Incidents -> Seq(Tellings)]

\* What was said of an incident never exceeds what it is.
SaidInv ==
    /\ \A i \in Incidents : row[i].status = "resolved" => incident[i].status = "resolved"
    /\ \A i \in Incidents : memory[i] # Nothing => memory[i].of = i
    /\ \A e \in Evaluations : targets[e] # {} => saying[e] # Nothing
    /\ \A e \in Evaluations : stored[e] => queue[e] # <<>>
    /\ \A i \in Incidents : \A j \in DOMAIN told[i] :
          /\ Rank(told[i][j].severity) <= Rank(incident[i].severity)
          /\ told[i][j].kind = "resolved" => incident[i].status = "resolved"

\* Alone, an evaluation considers what it has just saved, and remembers the last
\* thing told before it says another.
Agrees(i) == row[i].severity = incident[i].severity /\ row[i].status = incident[i].status
ConsidersSaved == \A e \in Evaluations : stored[e] => Agrees(Head(queue[e]))
LastTold(i, m) ==
    /\ told[i] # <<>>
    /\ told[i][Len(told[i])].kind = m.kind /\ told[i][Len(told[i])].severity = m.severity
BeingSaid(i) == \E e \in Evaluations : targets[e] # {} /\ saying[e].of = i
FailuresWorsen == \A i \in Incidents : \A j, k \in DOMAIN told[i] :
    (j < k /\ told[i][j].kind = "remediation_failed" /\ told[i][k].kind # "resolved") =>
        Rank(told[i][j].severity) < Rank(told[i][k].severity)
AloneSaysInv == mode.sequential =>
    /\ \A d, e \in Evaluations : Busy(d) /\ Busy(e) => d = e
    /\ \A e \in Evaluations : targets[e] # {} => LastTold(saying[e].of, saying[e])
    /\ \A i \in Incidents : ~BeingSaid(i) => IF memory[i] = Nothing THEN told[i] = <<>>
                                             ELSE LastTold(i, memory[i])
    /\ SaidOnce /\ FailuresWorsen
AloneStoredInv == mode.sequential => ConsidersSaved /\ SaidIsStored

AlertsInv == AlertsTypes /\ SaidInv /\ EndIsToldWhereItBegan /\ AloneSaysInv /\ AloneStoredInv

(***************************************************************************)
(* The listing grows by a workflow at a time; what is listed may be armed  *)
(* or deleted but keeps its name.                                          *)
(***************************************************************************)
LEMMA NamesOfCallers == \A c \in Callers : NameOf(c) \in Names
BY DEF Names

LEMMA Roles ==
    /\ Cooldown \in Nat /\ RunsPerPress \in Nat /\ RunsPerPress >= 1 /\ Cooldown >= 1
    /\ MaxTime \in Nat /\ MaxListed \in Nat /\ Never \in Nat /\ Never > MaxTime
    /\ \A c : ~(c \in Installs /\ c \in Presses) /\ ~(c \in Installs /\ c \in Mailers)
              /\ ~(c \in Presses /\ c \in Mailers)
    /\ \A c \in Callers : c \in Installs \/ c \in Presses \/ c \in Mailers
    /\ Installs \subseteq Callers /\ Presses \subseteq Callers /\ Mailers \subseteq Callers
    /\ \A m \in Modes : m.sequential \in BOOLEAN
BY WorkflowsAssumption DEF Callers, Never

Grown ==
    /\ Ids \subseteq Ids'
    /\ \A k \in Ids : listing'[k].name = listing[k].name /\ listing'[k].needed = listing[k].needed

LEMMA OneIsReplaced ==
    ASSUME listing \in Seq(Workflow), NEW u \in Ids, NEW w \in Workflow, listing' = [listing EXCEPT ![u] = w]
    PROVE  /\ listing' \in Seq(Workflow) /\ Len(listing') = Len(listing)
           /\ \A k \in Ids : k # u => listing'[k] = listing[k]
           /\ listing'[u] = w
<1>1. u \in 1..Len(listing)
  BY DEF Ids
<1>2. /\ listing' \in Seq(Workflow) /\ Len(listing') = Len(listing)
      /\ \A k \in 1..Len(listing) : listing'[k] = IF k = u THEN w ELSE listing[k]
  BY <1>1, ExceptSeq
<1> QED  BY <1>1, <1>2 DEF Ids

LEMMA MadeIsListed ==
    ASSUME ListedInv, NEW c \in Callers, Len(listing) < MaxListed, listing' = Made(c), mode' = mode,
           began[c] \subseteq Names
    PROVE  /\ ListedInv' /\ Grown
           /\ Len(listing') = Len(listing) + 1 /\ Ids' = Ids \union {Len(listing) + 1}
           /\ \A k \in Ids : listing'[k] = listing[k]
           /\ listing'[Len(listing) + 1].name = NameOf(c)
           /\ listing'[Len(listing) + 1].needed = (c \in spurned \/ NameOf(c) \notin began[c])
<1> PICK w : w = [name |-> NameOf(c), alive |-> TRUE, armed |-> FALSE, secret |-> c,
                  needed |-> c \in spurned \/ NameOf(c) \notin began[c]]
  OBVIOUS
<1>1. w \in Workflow
  <2>1. (c \in spurned \/ NameOf(c) \notin began[c]) \in BOOLEAN
    OBVIOUS
  <2> QED  BY <2>1, NamesOfCallers DEF Workflow
<1>2. listing' = Append(listing, w)
  BY DEF Made
<1>3. listing \in Seq(Workflow)
  BY DEF ListedInv
<1>4. /\ listing' \in Seq(Workflow) /\ Len(listing') = Len(listing) + 1
      /\ \A k \in 1..Len(listing) : listing'[k] = listing[k]
      /\ listing'[Len(listing) + 1] = w
  BY <1>1, <1>2, <1>3
<1>5. Len(listing) \in Nat /\ MaxListed \in Nat
  BY <1>3, Roles
<1>6. Ids' = 1..(Len(listing) + 1) /\ Ids = 1..Len(listing)
  BY <1>4 DEF Ids
<1>7. Ids' = Ids \union {Len(listing) + 1}
  BY <1>5, <1>6
<1>8. w.name = NameOf(c) /\ w.armed = FALSE /\ w.needed = (c \in spurned \/ NameOf(c) \notin began[c])
  OBVIOUS
<1>9. ListedInv'
  BY <1>4, <1>5, <1>6, <1>7, <1>8 DEF ListedInv
<1> QED  BY <1>4, <1>5, <1>6, <1>7, <1>8, <1>9 DEF Grown

LEMMA ArmedIsListed ==
    ASSUME ListedInv, NEW u \in Ids, NEW i \in Callers, listing[u].alive,
           listing' = Armed(u, i), mode' = mode
    PROVE  /\ ListedInv' /\ Grown /\ Ids' = Ids
           /\ \A k \in Ids : k # u => listing'[k] = listing[k]
           /\ listing'[u].armed /\ listing'[u].secret = i /\ listing'[u].alive = listing[u].alive
<1>1. listing \in Seq(Workflow) /\ listing[u] \in Workflow
  BY DEF ListedInv, Ids
<1> PICK w : w = [listing[u] EXCEPT !.armed = TRUE, !.secret = i]
  OBVIOUS
<1>2. /\ w.name = listing[u].name /\ w.alive = listing[u].alive /\ w.needed = listing[u].needed
      /\ w.armed = TRUE /\ w.secret = i
  BY <1>1 DEF Workflow
<1>3. w \in Workflow
  BY <1>1 DEF Workflow
<1>4. listing' = [listing EXCEPT ![u] = w]
  BY <1>1 DEF Armed, Workflow
<1>5. /\ listing' \in Seq(Workflow) /\ Len(listing') = Len(listing)
      /\ \A k \in Ids : k # u => listing'[k] = listing[k]
      /\ listing'[u] = w
  BY <1>1, <1>3, <1>4, OneIsReplaced
<1>6. Ids' = Ids
  BY <1>5 DEF Ids
<1>7. ListedInv'
  BY <1>2, <1>5, <1>6 DEF ListedInv
<1> QED  BY <1>2, <1>5, <1>6, <1>7 DEF Grown

LEMMA DeletedIsListed ==
    ASSUME ListedInv, NEW u \in Ids, mode' = mode,
           listing' = [listing EXCEPT ![u].alive = FALSE, ![u].armed = FALSE]
    PROVE  /\ ListedInv' /\ Grown /\ Ids' = Ids
           /\ \A k \in Ids : k # u => listing'[k] = listing[k]
           /\ ~listing'[u].alive
<1>1. listing \in Seq(Workflow) /\ listing[u] \in Workflow
  BY DEF ListedInv, Ids
<1> PICK w : w = [listing[u] EXCEPT !.alive = FALSE, !.armed = FALSE]
  OBVIOUS
<1>2. /\ w.name = listing[u].name /\ w.alive = FALSE /\ w.needed = listing[u].needed
      /\ w.armed = FALSE
  BY <1>1 DEF Workflow
<1>3. w \in Workflow
  BY <1>1 DEF Workflow
<1>4. listing' = [listing EXCEPT ![u] = w]
  BY <1>1 DEF Workflow
<1>5. /\ listing' \in Seq(Workflow) /\ Len(listing') = Len(listing)
      /\ \A k \in Ids : k # u => listing'[k] = listing[k]
      /\ listing'[u] = w
  BY <1>1, <1>3, <1>4, OneIsReplaced
<1>6. Ids' = Ids
  BY <1>5 DEF Ids
<1>7. ListedInv'
  BY <1>2, <1>5, <1>6 DEF ListedInv
<1> QED  BY <1>2, <1>5, <1>6, <1>7 DEF Grown

LEMMA SameListed ==
    ASSUME ListedInv, listing' = listing, mode' = mode
    PROVE  ListedInv' /\ Grown /\ Ids' = Ids
BY DEF ListedInv, Grown, Ids

(***************************************************************************)
(* What a caller does keeps the invariant: one lemma for each step, and in *)
(* it one step for each part.                                              *)
(***************************************************************************)
LEMMA InstallKeeps ==
    ASSUME WorkflowsInv, NEW c \in Installs, Install(c)
    PROVE  WorkflowsInv'
<1> USE DEF WorkflowsInv
<1>1. /\ ListedInv' /\ Grown /\ Ids' = Ids /\ listing' = listing /\ mode' = mode
      /\ mode \in Modes
  BY SameListed DEF Install, ListedInv
<1>2. CallersInv'
  BY <1>1, Roles, NamesOfCallers DEF Install, Turn, Begins, Advance, Answer, process, Mints, Installable, CallersInv, Midway, LiveNames
<1>3. InstallsInv'
  BY <1>1, Roles DEF Install, Turn, Begins, Advance, Answer, process, Mints, Installable, InstallsInv, CallersInv, Grown, Midway, LiveNames
<1>4. NamesInv'
  BY <1>1, Roles, NamesOfCallers DEF Install, Turn, Begins, Advance, Answer, process, Mints, Installable, NamesInv, Named, CallersInv, Grown, LiveNames
<1>5. PressesInv'
  BY <1>1, Roles DEF Install, Turn, Begins, Advance, Answer, process, Mints, Installable, PressesInv, CallersInv, Midway, LiveNames
<1>6. AlonePressesInv'
  BY <1>1, <1>5, Roles DEF Install, Turn, Begins, Advance, Answer, process, Mints, Installable, AlonePressesInv, PressesInv, CallersInv, Midway, HasClaimed, Ran, Apart, Cooling, LiveNames
<1> QED  BY <1>1, <1>2, <1>3, <1>4, <1>5, <1>6

LEMMA UpgradeKeeps ==
    ASSUME WorkflowsInv, NEW c \in Callers, Upgrade(c)
    PROVE  WorkflowsInv'
<1> USE DEF WorkflowsInv
<1>1. /\ ListedInv' /\ Grown /\ Ids' = Ids /\ listing' = listing /\ mode' = mode
      /\ mode \in Modes
  BY SameListed DEF Upgrade, Keep, ListedInv
<1>2. CallersInv'
  BY <1>1, Roles, NamesOfCallers DEF Upgrade, Keep, Answer, CallersInv, Midway
<1>3. InstallsInv'
  BY <1>1, Roles DEF Upgrade, Keep, Answer, InstallsInv, CallersInv, Grown, Midway
<1>4. NamesInv'
  BY <1>1, Roles, NamesOfCallers DEF Upgrade, Keep, Answer, NamesInv, Named, CallersInv, Grown
<1>5. PressesInv'
  BY <1>1, Roles DEF Upgrade, Keep, Answer, PressesInv, CallersInv, Midway
<1>6. AlonePressesInv'
  BY <1>1, <1>5, Roles DEF Upgrade, Keep, Answer, AlonePressesInv, PressesInv, CallersInv, Midway, HasClaimed, Ran, Apart, Cooling
<1> QED  BY <1>1, <1>2, <1>3, <1>4, <1>5, <1>6

LEMMA FindKeeps ==
    ASSUME WorkflowsInv, NEW c \in Callers, Find(c)
    PROVE  WorkflowsInv'
<1> USE DEF WorkflowsInv
<1>1. /\ ListedInv' /\ Grown /\ Ids' = Ids /\ listing' = listing /\ mode' = mode
      /\ mode \in Modes
  BY SameListed DEF Find, Keep, ListedInv
<1>2. CallersInv'
  BY <1>1, Roles, NamesOfCallers DEF Find, Keep, Advance, Uses, CallersInv, Midway, Named
<1>3. InstallsInv'
  BY <1>1, Roles DEF Find, Keep, Advance, Uses, InstallsInv, CallersInv, Grown, Midway, Named
<1>4. NamesInv'
  BY <1>1, Roles, NamesOfCallers DEF Find, Keep, Advance, Uses, NamesInv, Named, CallersInv, Grown, Named
<1>5. PressesInv'
  BY <1>1, Roles DEF Find, Keep, Advance, Uses, PressesInv, CallersInv, Midway, Named
<1>6. AlonePressesInv'
  BY <1>1, <1>5, Roles DEF Find, Keep, Advance, Uses, AlonePressesInv, PressesInv, CallersInv, Midway, HasClaimed, Ran, Apart, Cooling, Named
<1> QED  BY <1>1, <1>2, <1>3, <1>4, <1>5, <1>6

LEMMA PatchKeeps ==
    ASSUME WorkflowsInv, NEW c \in Installs, Patch(c)
    PROVE  WorkflowsInv'
<1> USE DEF WorkflowsInv
<1>0. c \in Callers /\ using[c] \in Ids
  BY Roles DEF Patch, CallersInv
<1>1. /\ ListedInv' /\ Grown /\ Ids' = Ids /\ mode' = mode /\ mode \in Modes
      /\ \A k \in Ids : k # using[c] => listing'[k] = listing[k]
      /\ \/ listing' = listing
         \/ listing'[using[c]].armed /\ listing'[using[c]].secret = c
      /\ listing' = Armed(using[c], c) /\ listing[using[c]].alive =>
            listing'[using[c]].armed /\ listing'[using[c]].secret = c
  BY <1>0, SameListed, ArmedIsListed DEF Patch, Keep, ListedInv
<1>2. CallersInv'
  BY <1>1, Roles, NamesOfCallers DEF Patch, Keep, Advance, Answer, CallersInv, Midway
<1>3. InstallsInv'
  <2>1. minted' = minted /\ minted \subseteq Installs /\ spurned' \subseteq minted /\ c \in minted
    BY DEF Patch, Keep, InstallsInv, Midway
  <2>2. \A i \in Installs : Midway(i)' => i \in minted
    BY <2>1, Roles DEF Patch, Advance, Answer, InstallsInv, CallersInv, Midway
  <2>3. ASSUME NEW i \in Installs, answer'[i] = "installed"
        PROVE  /\ at'[i] = "done" /\ using'[i] \in Ids
               /\ listing'[using'[i]].alive => listing'[using'[i]].armed /\ listing'[using'[i]].secret \in minted
    <3>1. using' = using
      BY DEF Patch
    <3>2. CASE i = c
      <4>1. answer[c] # "installed"
        BY DEF Patch, InstallsInv
      <4>2. /\ at'[c] = "done" /\ listing[using[c]].alive
            /\ listing' = Armed(using[c], c)
        BY <2>3, <3>2, <4>1, <1>0 DEF Patch, Advance, Answer, CallersInv
      <4> QED  BY <1>0, <1>1, <2>1, <3>1, <3>2, <4>2
    <3>3. CASE i # c
      <4>1. at'[i] = at[i] /\ answer[i] = "installed"
        BY <2>3, <3>3, Roles DEF Patch, Advance, Answer, CallersInv
      <4> QED  BY <1>1, <2>1, <3>1, <4>1 DEF InstallsInv
    <3> QED  BY <3>2, <3>3
  <2> QED  BY <1>1, <2>1, <2>2, <2>3 DEF InstallsInv
<1>4. NamesInv'
  BY <1>1, Roles, NamesOfCallers DEF Patch, Keep, Advance, Answer, NamesInv, Named, CallersInv, Grown
<1>5. PressesInv'
  BY <1>1, Roles DEF Patch, Keep, Advance, Answer, PressesInv, CallersInv, Midway
<1>6. AlonePressesInv'
  BY <1>1, <1>5, Roles DEF Patch, Keep, Advance, Answer, AlonePressesInv, PressesInv, CallersInv, Midway, HasClaimed, Ran, Apart, Cooling
<1> QED  BY <1>1, <1>2, <1>3, <1>4, <1>5, <1>6

LEMMA CreateKeeps ==
    ASSUME WorkflowsInv, NEW c \in Callers, Create(c)
    PROVE  WorkflowsInv'
<1> USE DEF WorkflowsInv
<1>0. Len(listing) \in Nat /\ mode' = mode /\ mode \in Modes
  BY DEF Create, Keep, ListedInv
<1>1. /\ ListedInv' /\ Grown
      /\ \A k \in Ids : listing'[k] = listing[k]
      /\ listing' # Made(c) => listing' = listing /\ Ids' = Ids
      /\ listing' = Made(c) =>
            /\ Ids' = Ids \union {Len(listing) + 1} /\ Len(listing') = Len(listing) + 1
            /\ listing'[Len(listing) + 1].name = NameOf(c)
            /\ listing'[Len(listing) + 1].needed = (c \in spurned \/ NameOf(c) \notin began[c])
  <2>1. CASE listing' # Made(c)
    <3>1. listing' = listing
      BY <2>1 DEF Create
    <3> QED  BY <1>0, <2>1, <3>1, SameListed DEF ListedInv
  <2>2. CASE listing' = Made(c)
    <3>1. Len(listing) < MaxListed /\ began[c] \subseteq Names
      BY DEF Create, NamesInv
    <3> QED  BY <1>0, <2>2, <3>1, MadeIsListed
  <2> QED  BY <2>1, <2>2 DEF Create
<1>2. CallersInv'
  <2>1. /\ left' = left /\ Midway(c) /\ Len(listing) + 1 \in Nat
        /\ \A d \in Callers : d # c => at'[d] = at[d] /\ using'[d] = using[d] /\ answer'[d] = answer[d]
    BY <1>0 DEF Create, Advance, Answer, Uses, CallersInv, Midway
  <2>2. CASE Answer(c, "failed") /\ UNCHANGED <<using, cached>>
    <3>1. /\ at' = [at EXCEPT ![c] = "done"] /\ answer' = [answer EXCEPT ![c] = "failed"]
          /\ Ids \subseteq Ids'
      BY <1>1, <2>2 DEF Answer, Grown
    <3> QED  BY <2>1, <2>2, <3>1, Roles DEF CallersInv, Midway
  <2>3. CASE ~(Answer(c, "failed") /\ UNCHANGED <<using, cached>>)
    <3>1. /\ listing' = Made(c) /\ using' = [using EXCEPT ![c] = Len(listing) + 1]
          /\ at' = [at EXCEPT ![c] = IF c \in Installs THEN "sync" ELSE "run"] /\ answer' = answer
          /\ cached' = IF c \in Installs THEN cached
                       ELSE [cached EXCEPT ![NameOf(c)] = Len(listing) + 1]
      BY <2>3 DEF Create, Uses, Advance
    <3>2. Len(listing') = Len(listing) + 1 /\ Len(listing) + 1 \in Ids' /\ Ids \subseteq Ids'
      BY <1>0, <1>1, <3>1 DEF Grown, Ids, ListedInv
    <3>3. using' \in [Callers -> Ids' \union {NoWorkflow}] /\ cached' \in [Names -> Ids' \union {NoWorkflow}]
      BY <3>1, <3>2, NamesOfCallers DEF CallersInv
    <3>4. /\ at' \in [Callers -> {"idle", "read", "claim", "find", "patch", "create", "sync", "run", "done"}]
          /\ using'[c] \in Ids' /\ at'[c] = IF c \in Installs THEN "sync" ELSE "run"
      BY <3>1, <3>2 DEF CallersInv
    <3> QED  BY <2>1, <3>1, <3>2, <3>3, <3>4, Roles DEF CallersInv, Midway
  <2> QED  BY <2>2, <2>3
<1>3. InstallsInv'
  <2>1. UNCHANGED <<minted, spurned>> /\ Midway(c)
        /\ \A i \in Callers : i # c => at'[i] = at[i] /\ answer'[i] = answer[i] /\ using'[i] = using[i]
    BY DEF Create, Keep, Advance, Answer, Uses, CallersInv, Midway
  <2>2. answer[c] = "installed" => c \notin Installs
    BY <2>1 DEF InstallsInv, Midway
  <2>3. answer'[c] \in {answer[c], "failed"}
    BY DEF Create, Advance, Answer, CallersInv
  <2>4. ASSUME NEW i \in Installs, answer'[i] = "installed"
        PROVE  answer[i] = "installed" /\ at'[i] = at[i] /\ using'[i] = using[i]
    BY <2>1, <2>2, <2>3, <2>4, Roles
  <2>5. \A i \in Installs : Midway(i)' => i \in minted
    BY <2>1, Roles DEF InstallsInv, Midway
  <2> QED  BY <1>1, <2>1, <2>4, <2>5 DEF InstallsInv, Grown
<1>4. NamesInv'
  <2>1. UNCHANGED <<began, spurned>> /\ (c \in spurned \/ NameOf(c) \notin began[c])
        /\ at'[c] # "create" /\ \A d \in Callers : d # c => at'[d] = at[d]
    BY DEF Create, Keep, Advance, Answer, CallersInv, NamesInv
  <2>2. \A k \in Ids' : listing'[k].needed
    <3>1. listing' = Made(c) => listing'[Len(listing) + 1].needed
      BY <1>1, <2>1
    <3> QED  BY <1>1, <3>1 DEF NamesInv
  <2>3. \A d \in Callers : \A n \in began[d] : \E k \in Ids' : listing'[k].name = n
    BY <1>1 DEF NamesInv, Grown
  <2> QED  BY <2>1, <2>2, <2>3 DEF NamesInv
<1>5. PressesInv'
  BY <1>1, Roles DEF Create, Keep, Advance, Answer, Uses, PressesInv, CallersInv, Midway
<1>6. AlonePressesInv'
  <2>1. UNCHANGED <<pressed, left, lastRun>> /\ at[c] = "create" /\ at'[c] \in {"sync", "run", "done"}
        /\ \A d \in Callers : d # c => at'[d] = at[d]
    BY DEF Create, Keep, Advance, Answer, CallersInv
  <2>2. \A p \in Presses : (Midway(p)' => Midway(p)) /\ (HasClaimed(p)' => HasClaimed(p))
                           /\ (at'[p] = "claim" => at[p] = "claim")
    BY <2>1, Roles DEF Midway, HasClaimed, Ran
  <2>3. mode' = mode
    BY <1>0
  <2> QED  BY <2>1, <2>2, <2>3 DEF AlonePressesInv, Apart, Cooling
<1> QED  BY <1>1, <1>2, <1>3, <1>4, <1>5, <1>6

LEMMA SyncKeeps ==
    ASSUME WorkflowsInv, NEW c \in Installs, Sync(c)
    PROVE  WorkflowsInv'
<1> USE DEF WorkflowsInv
<1>0. c \in Callers /\ using[c] \in Ids
  BY Roles DEF Sync, CallersInv
<1>1. /\ ListedInv' /\ Grown /\ Ids' = Ids /\ mode' = mode /\ mode \in Modes
      /\ \A k \in Ids : k # using[c] => listing'[k] = listing[k]
      /\ \/ listing' = listing
         \/ listing'[using[c]].armed /\ listing'[using[c]].secret = c
      /\ listing' = Armed(using[c], c) /\ listing[using[c]].alive =>
            listing'[using[c]].armed /\ listing'[using[c]].secret = c
  BY <1>0, SameListed, ArmedIsListed DEF Sync, Keep, ListedInv
<1>2. CallersInv'
  BY <1>1, Roles, NamesOfCallers DEF Sync, Keep, Advance, Answer, CallersInv, Midway
<1>3. InstallsInv'
  <2>1. minted' = minted /\ minted \subseteq Installs /\ spurned' \subseteq minted /\ c \in minted
    BY DEF Sync, Keep, InstallsInv, Midway
  <2>2. \A i \in Installs : Midway(i)' => i \in minted
    BY <2>1, Roles DEF Sync, Advance, Answer, InstallsInv, CallersInv, Midway
  <2>3. ASSUME NEW i \in Installs, answer'[i] = "installed"
        PROVE  /\ at'[i] = "done" /\ using'[i] \in Ids
               /\ listing'[using'[i]].alive => listing'[using'[i]].armed /\ listing'[using'[i]].secret \in minted
    <3>1. using' = using
      BY DEF Sync
    <3>2. CASE i = c
      <4>1. answer[c] # "installed"
        BY DEF Sync, InstallsInv
      <4>2. /\ at'[c] = "done" /\ listing[using[c]].alive
            /\ listing' = Armed(using[c], c)
        BY <2>3, <3>2, <4>1, <1>0 DEF Sync, Advance, Answer, CallersInv
      <4> QED  BY <1>0, <1>1, <2>1, <3>1, <3>2, <4>2
    <3>3. CASE i # c
      <4>1. at'[i] = at[i] /\ answer[i] = "installed"
        BY <2>3, <3>3, Roles DEF Sync, Advance, Answer, CallersInv
      <4> QED  BY <1>1, <2>1, <3>1, <4>1 DEF InstallsInv
    <3> QED  BY <3>2, <3>3
  <2> QED  BY <1>1, <2>1, <2>2, <2>3 DEF InstallsInv
<1>4. NamesInv'
  BY <1>1, Roles, NamesOfCallers DEF Sync, Keep, Advance, Answer, NamesInv, Named, CallersInv, Grown
<1>5. PressesInv'
  BY <1>1, Roles DEF Sync, Keep, Advance, Answer, PressesInv, CallersInv, Midway
<1>6. AlonePressesInv'
  BY <1>1, <1>5, Roles DEF Sync, Keep, Advance, Answer, AlonePressesInv, PressesInv, CallersInv, Midway, HasClaimed, Ran, Apart, Cooling
<1> QED  BY <1>1, <1>2, <1>3, <1>4, <1>5, <1>6

LEMMA PressKeeps ==
    ASSUME WorkflowsInv, NEW c \in Presses, Press(c)
    PROVE  WorkflowsInv'
<1> USE DEF WorkflowsInv
<1>1. /\ ListedInv' /\ Grown /\ Ids' = Ids /\ listing' = listing /\ mode' = mode
      /\ mode \in Modes
  BY SameListed DEF Press, ListedInv
<1>2. CallersInv'
  BY <1>1, Roles, NamesOfCallers DEF Press, Turn, Begins, Advance, process, CallersInv, Midway, LiveNames
<1>3. InstallsInv'
  BY <1>1, Roles DEF Press, Turn, Begins, Advance, process, InstallsInv, CallersInv, Grown, Midway, LiveNames
<1>4. NamesInv'
  BY <1>1, Roles, NamesOfCallers DEF Press, Turn, Begins, Advance, process, NamesInv, Named, CallersInv, Grown, LiveNames
<1>5. PressesInv'
  BY <1>1, Roles DEF Press, Turn, Begins, Advance, process, PressesInv, CallersInv, Midway, LiveNames
<1>6. AlonePressesInv'
  BY <1>1, <1>5, Roles DEF Press, Turn, Begins, Advance, process, AlonePressesInv, PressesInv, CallersInv, Midway, HasClaimed, Ran, Apart, Cooling, LiveNames
<1> QED  BY <1>1, <1>2, <1>3, <1>4, <1>5, <1>6

LEMMA ReadKeeps ==
    ASSUME WorkflowsInv, NEW c \in Presses, Read(c)
    PROVE  WorkflowsInv'
<1> USE DEF WorkflowsInv
<1>1. /\ ListedInv' /\ Grown /\ Ids' = Ids /\ listing' = listing /\ mode' = mode
      /\ mode \in Modes
  BY SameListed DEF Read, Keep, ListedInv
<1>2. CallersInv'
  BY <1>1, Roles, NamesOfCallers DEF Read, Keep, Advance, Answer, CallersInv, Midway
<1>3. InstallsInv'
  BY <1>1, Roles DEF Read, Keep, Advance, Answer, InstallsInv, CallersInv, Grown, Midway
<1>4. NamesInv'
  BY <1>1, Roles, NamesOfCallers DEF Read, Keep, Advance, Answer, NamesInv, Named, CallersInv, Grown
<1>5. PressesInv'
  BY <1>1, Roles DEF Read, Keep, Advance, Answer, PressesInv, CallersInv, Midway
<1>6. AlonePressesInv'
  BY <1>1, <1>5, Roles DEF Read, Keep, Advance, Answer, AlonePressesInv, PressesInv, CallersInv, Midway, HasClaimed, Ran, Apart, Cooling
<1> QED  BY <1>1, <1>2, <1>3, <1>4, <1>5, <1>6

LEMMA ClaimKeeps ==
    ASSUME WorkflowsInv, NEW c \in Presses, Claim(c)
    PROVE  WorkflowsInv'
<1> USE DEF WorkflowsInv
<1>1. /\ ListedInv' /\ Grown /\ Ids' = Ids /\ listing' = listing /\ mode' = mode
      /\ mode \in Modes
  BY SameListed DEF Claim, ListedInv
<1>2. CallersInv'
  BY <1>1, Roles, NamesOfCallers DEF Claim, Advance, process, CallersInv, Midway, Ensured, Ensure, Uses
<1>3. InstallsInv'
  BY <1>1, Roles DEF Claim, Advance, process, InstallsInv, CallersInv, Grown, Midway, Ensured, Ensure, Uses
<1>4. NamesInv'
  BY <1>1, Roles, NamesOfCallers DEF Claim, Advance, process, NamesInv, Named, CallersInv, Grown, Ensured, Ensure, Uses
<1>5. PressesInv'
  BY <1>1, Roles DEF Claim, Advance, process, PressesInv, CallersInv, Midway, Ensured, Ensure, Uses
<1>6. AlonePressesInv'
  BY <1>1, <1>5, Roles DEF Claim, Advance, process, AlonePressesInv, PressesInv, CallersInv, Midway, HasClaimed, Ran, Apart, Cooling, Ensured, Ensure, Uses
<1> QED  BY <1>1, <1>2, <1>3, <1>4, <1>5, <1>6

LEMMA RunKeeps ==
    ASSUME WorkflowsInv, NEW c \in Callers, Run(c)
    PROVE  WorkflowsInv'
<1> USE DEF WorkflowsInv
<1>1. /\ ListedInv' /\ Grown /\ Ids' = Ids /\ listing' = listing /\ mode' = mode
      /\ mode \in Modes
  BY SameListed DEF Run, Keep, ListedInv
<1>2. CallersInv'
  BY <1>1, Roles, NamesOfCallers DEF Run, Keep, Advance, Answer, CallersInv, Midway
<1>3. InstallsInv'
  BY <1>1, Roles DEF Run, Keep, Advance, Answer, InstallsInv, CallersInv, Grown, Midway
<1>4. NamesInv'
  BY <1>1, Roles, NamesOfCallers DEF Run, Keep, Advance, Answer, NamesInv, Named, CallersInv, Grown
<1>5. PressesInv'
  BY <1>1, Roles DEF Run, Keep, Advance, Answer, PressesInv, CallersInv, Midway
<1>6. AlonePressesInv'
  BY <1>1, <1>5, Roles DEF Run, Keep, Advance, Answer, AlonePressesInv, PressesInv, CallersInv, Midway, HasClaimed, Ran, Apart, Cooling
<1> QED  BY <1>1, <1>2, <1>3, <1>4, <1>5, <1>6

LEMMA ListFailsKeeps ==
    ASSUME WorkflowsInv, NEW c \in Callers, ListFails(c)
    PROVE  WorkflowsInv'
<1> USE DEF WorkflowsInv
<1>1. /\ ListedInv' /\ Grown /\ Ids' = Ids /\ listing' = listing /\ mode' = mode
      /\ mode \in Modes
  BY SameListed DEF ListFails, Keep, ListedInv
<1>2. CallersInv'
  BY <1>1, Roles, NamesOfCallers DEF ListFails, Keep, Answer, CallersInv, Midway
<1>3. InstallsInv'
  BY <1>1, Roles DEF ListFails, Keep, Answer, InstallsInv, CallersInv, Grown, Midway
<1>4. NamesInv'
  BY <1>1, Roles, NamesOfCallers DEF ListFails, Keep, Answer, NamesInv, Named, CallersInv, Grown
<1>5. PressesInv'
  BY <1>1, Roles DEF ListFails, Keep, Answer, PressesInv, CallersInv, Midway
<1>6. AlonePressesInv'
  BY <1>1, <1>5, Roles DEF ListFails, Keep, Answer, AlonePressesInv, PressesInv, CallersInv, Midway, HasClaimed, Ran, Apart, Cooling
<1> QED  BY <1>1, <1>2, <1>3, <1>4, <1>5, <1>6

LEMMA MailKeeps ==
    ASSUME WorkflowsInv, NEW c \in Mailers, Mail(c)
    PROVE  WorkflowsInv'
<1> USE DEF WorkflowsInv
<1>1. /\ ListedInv' /\ Grown /\ Ids' = Ids /\ listing' = listing /\ mode' = mode
      /\ mode \in Modes
  BY SameListed DEF Mail, ListedInv
<1>2. CallersInv'
  BY <1>1, Roles, NamesOfCallers DEF Mail, Begins, Advance, process, CallersInv, Midway, LiveNames, Ensured, Ensure, Uses, Evaluations
<1>3. InstallsInv'
  BY <1>1, Roles DEF Mail, Begins, Advance, process, InstallsInv, CallersInv, Grown, Midway, LiveNames, Ensured, Ensure, Uses, Evaluations
<1>4. NamesInv'
  BY <1>1, Roles, NamesOfCallers DEF Mail, Begins, Advance, process, NamesInv, Named, CallersInv, Grown, LiveNames, Ensured, Ensure, Uses, Evaluations
<1>5. PressesInv'
  BY <1>1, Roles DEF Mail, Begins, Advance, process, PressesInv, CallersInv, Midway, LiveNames, Ensured, Ensure, Uses, Evaluations
<1>6. AlonePressesInv'
  BY <1>1, <1>5, Roles DEF Mail, Begins, Advance, process, AlonePressesInv, PressesInv, CallersInv, Midway, HasClaimed, Ran, Apart, Cooling, LiveNames, Ensured, Ensure, Uses, Evaluations
<1> QED  BY <1>1, <1>2, <1>3, <1>4, <1>5, <1>6

LEMMA MailedKeeps ==
    ASSUME WorkflowsInv, NEW c \in Mailers, Mailed(c)
    PROVE  WorkflowsInv'
<1> USE DEF WorkflowsInv
<1>1. /\ ListedInv' /\ Grown /\ Ids' = Ids /\ listing' = listing /\ mode' = mode
      /\ mode \in Modes
  BY SameListed DEF Mailed, ListedInv
<1>2. CallersInv'
  BY <1>1, Roles, NamesOfCallers DEF Mailed, process, CallersInv, Midway, Evaluations
<1>3. InstallsInv'
  BY <1>1, Roles DEF Mailed, process, InstallsInv, CallersInv, Grown, Midway, Evaluations
<1>4. NamesInv'
  BY <1>1, Roles, NamesOfCallers DEF Mailed, process, NamesInv, Named, CallersInv, Grown, Evaluations
<1>5. PressesInv'
  BY <1>1, Roles DEF Mailed, process, PressesInv, CallersInv, Midway, Evaluations
<1>6. AlonePressesInv'
  BY <1>1, <1>5, Roles DEF Mailed, process, AlonePressesInv, PressesInv, CallersInv, Midway, HasClaimed, Ran, Apart, Cooling, Evaluations
<1> QED  BY <1>1, <1>2, <1>3, <1>4, <1>5, <1>6

\* What the organisation, the clock and the process do.

LEMMA DeleteKeeps ==
    ASSUME WorkflowsInv, NEW k \in Ids, Delete(k)
    PROVE  WorkflowsInv'
<1> USE DEF WorkflowsInv
<1>1. /\ ListedInv' /\ Grown /\ Ids' = Ids /\ mode' = mode /\ mode \in Modes
      /\ \A j \in Ids : j # k => listing'[j] = listing[j]
      /\ ~listing'[k].alive
  BY DeletedIsListed DEF Delete, ListedInv
<1>2. CallersInv'
  BY <1>1 DEF Delete, calls, process, CallersInv, Midway
<1>3. InstallsInv'
  <2>1. UNCHANGED <<minted, spurned, at, answer, using>>
    BY DEF Delete, calls
  <2>2. ASSUME NEW i \in Installs, answer[i] = "installed"
        PROVE  /\ at[i] = "done" /\ using[i] \in Ids
               /\ listing'[using[i]].alive => listing'[using[i]].armed /\ listing'[using[i]].secret \in minted
    BY <1>1, <2>2 DEF InstallsInv
  <2> QED  BY <1>1, <2>1, <2>2 DEF InstallsInv, Midway
<1>4. NamesInv'
  <2>1. UNCHANGED <<began, spurned, at>>
    BY DEF Delete, calls
  <2> QED  BY <1>1, <2>1 DEF NamesInv, Grown
<1>5. PressesInv' /\ AlonePressesInv'
  BY <1>1 DEF Delete, calls, process, PressesInv, AlonePressesInv, Midway, HasClaimed, Ran, Apart, Cooling
<1> QED  BY <1>1, <1>2, <1>3, <1>4, <1>5

LEMMA PassKeeps ==
    ASSUME WorkflowsInv, Pass
    PROVE  WorkflowsInv'
<1> USE DEF WorkflowsInv
<1>1. /\ ListedInv' /\ Grown /\ Ids' = Ids /\ listing' = listing /\ mode' = mode
  BY SameListed DEF Pass
<1>2. CallersInv'
  BY <1>1 DEF Pass, calls, process, CallersInv, Midway
<1>3. InstallsInv' /\ NamesInv'
  BY <1>1 DEF Pass, calls, process, InstallsInv, NamesInv, Midway
<1>4. PressesInv'
  BY <1>1, Roles DEF Pass, calls, process, PressesInv, Midway
<1>5. AlonePressesInv'
  BY <1>1 DEF Pass, calls, process, AlonePressesInv, Midway, HasClaimed, Ran, Apart, Cooling
<1> QED  BY <1>1, <1>2, <1>3, <1>4, <1>5

LEMMA ForgetsKeeps ==
    ASSUME WorkflowsInv, Forgets
    PROVE  WorkflowsInv'
<1> USE DEF WorkflowsInv
<1>1. /\ ListedInv' /\ Grown /\ Ids' = Ids /\ listing' = listing /\ mode' = mode
  BY SameListed DEF Forgets
<1>2. CallersInv'
  BY <1>1, Roles DEF Forgets, CallersInv, Midway
<1>3. InstallsInv'
  BY <1>1, Roles DEF Forgets, InstallsInv, CallersInv, Midway
<1>4. NamesInv'
  BY <1>1, Roles DEF Forgets, NamesInv, CallersInv, Midway
<1>5. PressesInv'
  BY <1>1, Roles DEF Forgets, PressesInv, CallersInv, Midway
<1>6. AlonePressesInv'
  BY <1>1, Roles DEF Forgets, AlonePressesInv, CallersInv, Midway, HasClaimed, Ran, Apart, Cooling
<1> QED  BY <1>1, <1>2, <1>3, <1>4, <1>5, <1>6

LEMMA QuietKeeps ==
    ASSUME WorkflowsInv, UNCHANGED wvars
    PROVE  WorkflowsInv'
<1> USE DEF WorkflowsInv, wvars, calls, process
<1>1. /\ ListedInv' /\ Ids' = Ids
  BY SameListed
<1>2. CallersInv' /\ InstallsInv' /\ NamesInv'
  BY <1>1 DEF CallersInv, InstallsInv, NamesInv, Midway
<1>3. PressesInv' /\ AlonePressesInv'
  BY <1>1 DEF PressesInv, AlonePressesInv, Midway, HasClaimed, Ran, Apart, Cooling
<1> QED  BY <1>1, <1>2, <1>3

\* Nothing is listed, running or claimed at first.
LEMMA WorkflowsStart == WorkflowsInit => WorkflowsInv
<1> SUFFICES ASSUME WorkflowsInit PROVE WorkflowsInv
  OBVIOUS
<1> USE DEF WorkflowsInit
<1>1. Ids = {} /\ ListedInv
  BY Roles DEF Ids, ListedInv
<1>2. CallersInv
  BY Roles DEF CallersInv, Midway
<1>3. InstallsInv /\ NamesInv
  BY <1>1, Roles DEF InstallsInv, NamesInv, Midway
<1>4. PressesInv /\ AlonePressesInv
  BY Roles DEF PressesInv, AlonePressesInv, Midway, HasClaimed, Ran
<1> QED  BY <1>1, <1>2, <1>3, <1>4 DEF WorkflowsInv

(***************************************************************************)
(* What is said of incidents.                                              *)
(***************************************************************************)
LEMMA Ranks ==
    /\ \A s : Rank(s) \in {1, 2}
    /\ \A s, t \in Severities : Worse(s, t) \in Severities /\ Rank(s) <= Rank(Worse(s, t))
    /\ \A s, t \in Severities : Rank(s) = Rank(t) => s = t
    /\ "warning" \in Severities
BY DEF Severities, Rank, Worse

LEMMA ToldIsTelling ==
    ASSUME AlertsTypes, NEW i \in Incidents
    PROVE  /\ Len(told[i]) \in Nat /\ DOMAIN told[i] = 1..Len(told[i]) /\ told[i] \in Seq(Tellings)
           /\ \A j \in DOMAIN told[i] : told[i][j] \in Tellings
BY DEF AlertsTypes

LEMMA SayingIsSomething == Nothing \notin Sayings /\ \A m \in Sayings : m # Nothing
BY DEF Nothing, Sayings, Moments

\* Any set of incidents can be listed.
LEMMA ListedIncidents ==
    ASSUME NEW S, S \subseteq Incidents
    PROVE  Listed(S) \in Seq(Incidents)
<1>1. IsFiniteSet(S)
  BY AlertsAssumption, FS_Subset
<1> DEFINE n == Cardinality(S)
<1>2. n \in Nat /\ ExistsBijection(1..n, S)
  BY <1>1, FS_CardinalityType
<1>3. PICK b : b \in Bijection(1..n, S)
  BY <1>2 DEF ExistsBijection
<1>4. b \in [1..n -> S] /\ \A x \in S : \E k \in DOMAIN b : b[k] = x
  BY <1>3 DEF Bijection, Injection, Surjection
<1>5. Listed(S) \in [1..n -> S]
  BY <1>4 DEF Listed
<1> QED  BY <1>2, <1>5

\* What the alerter decides is one of the moments, said at the incident's severity.
LEMMA KindsOfNews ==
    ASSUME AlertsTypes, NEW i \in Incidents
    PROVE  /\ kindFor(i) \in Moments \union {"none"}
           /\ kindFor(i) # "none" => Alert(i, kindFor(i)) \in Sayings
           /\ kindFor(i) = "resolved" => incident[i].status = "resolved"
<1>1. incident[i].severity \in Severities
  BY DEF AlertsTypes, Objects
<1>2. kindFor(i) \in Moments \union {"none"} /\ (kindFor(i) = "resolved" => incident[i].status = "resolved")
  BY DEF kindFor, Moments
<1> QED  BY <1>1, <1>2 DEF Alert, Sayings

\* Nothing of what is said is disturbed when none of it changes.
LEMMA QuietSays ==
    ASSUME AlertsInv, mode' = mode,
           UNCHANGED <<incident, row, queue, stored, saying, targets, memory, told>>
    PROVE  AlertsInv'
<1> USE DEF AlertsInv
<1>1. AlertsTypes' /\ SaidInv'
  BY DEF AlertsTypes, SaidInv
<1>2. EndIsToldWhereItBegan'
  BY DEF EndIsToldWhereItBegan, Reports
<1>3. AloneSaysInv'
  BY DEF AloneSaysInv, Busy, BeingSaid, LastTold, SaidOnce, FailuresWorsen
<1>4. AloneStoredInv'
  BY DEF AloneStoredInv, ConsidersSaved, SaidIsStored, Agrees
<1> QED  BY <1>1, <1>2, <1>3, <1>4

LEMMA IngestSays ==
    ASSUME AlertsInv, NEW e \in Evaluations, NEW found \in Findings, Ingest(e, found)
    PROVE  AlertsInv'
<1> USE DEF AlertsInv
<1>0. mode' = mode /\ UNCHANGED <<row, stored, saying, targets, memory, told>>
  BY DEF Ingest, wvars
<1>1. \A i \in Incidents :
         /\ incident'[i] \in Objects
         /\ Rank(incident[i].severity) <= Rank(incident'[i].severity)
         /\ incident[i].status = "resolved" => incident'[i].status = "resolved"
  <2> SUFFICES ASSUME NEW i \in Incidents
               PROVE  /\ incident'[i] \in Objects
                      /\ Rank(incident[i].severity) <= Rank(incident'[i].severity)
                      /\ incident[i].status = "resolved" => incident'[i].status = "resolved"
    OBVIOUS
  <2>1. incident[i] \in Objects /\ incident'[i] = Ingested(i, found[i])
        /\ (incident[i].status = "resolved" => found[i] = "nothing")
    BY DEF Ingest, AlertsTypes
  <2>2. CASE found[i] \in Severities
    <3> PICK s : s = Worse(incident[i].severity, found[i])
      OBVIOUS
    <3>1. s \in Severities /\ Rank(incident[i].severity) <= Rank(s)
      BY <2>1, <2>2, Ranks DEF Objects
    <3>2. incident'[i] = [incident[i] EXCEPT !.status = "open", !.severity = s]
      BY <2>1, <2>2 DEF Ingested, Severities
    <3> QED  BY <2>1, <2>2, <3>1, <3>2 DEF Objects, Severities
  <2>3. CASE found[i] = "over"
    <3>1. incident'[i] = [incident[i] EXCEPT !.status = "resolved"]
      BY <2>1, <2>3 DEF Ingested, Severities
    <3> QED  BY <2>1, <2>3, <3>1, Ranks DEF Objects
  <2>4. CASE found[i] \notin Severities /\ found[i] # "over"
    BY <2>1, <2>4, Ranks DEF Ingested, Objects
  <2> QED  BY <2>2, <2>3, <2>4
<1>2. queue' \in [Evaluations -> Seq(Incidents)]
  <2> DEFINE new == {i \in Incidents : found[i] \in Severities /\ incident[i].status = "none"}
             open == {i \in Incidents : found[i] \in Severities /\ incident[i].status = "open"}
             over == {i \in Incidents : found[i] = "over"}
  <2>1. Listed(new) \in Seq(Incidents) /\ Listed(open) \in Seq(Incidents) /\ Listed(over) \in Seq(Incidents)
    BY ListedIncidents
  <2>2. Listed(new) \o Listed(open) \o Listed(over) \in Seq(Incidents)
    <3> HIDE DEF new, open, over
    <3> QED  BY <2>1
  <2> QED  BY <2>2 DEF Ingest, AlertsTypes
<1>3. AlertsTypes'
  <2>1. incident' \in [Incidents -> Objects]
    BY <1>1 DEF Ingest
  <2> QED  BY <1>0, <1>2, <2>1 DEF AlertsTypes
<1>4. SaidInv'
  <2>1. ASSUME NEW i \in Incidents, NEW j \in DOMAIN told[i]
        PROVE  Rank(told[i][j].severity) <= Rank(incident'[i].severity)
    <3>1. told[i][j].severity \in Severities /\ incident[i].severity \in Severities /\ incident'[i].severity \in Severities
      <4>1. told[i][j] \in Tellings
        BY ToldIsTelling
      <4> QED  BY <1>1, <4>1 DEF AlertsTypes, Objects, Tellings
    <3> QED  BY <1>1, <3>1, Ranks DEF SaidInv
  <2>2. \A d \in Evaluations : stored[d] => queue'[d] # <<>>
    <3>1. queue[e] = <<>> /\ \A d \in Evaluations : d # e => queue'[d] = queue[d]
      BY DEF Ingest, May, Busy, AlertsTypes
    <3> QED  BY <3>1 DEF SaidInv
  <2> QED  BY <1>0, <1>1, <2>1, <2>2 DEF SaidInv
<1>5. EndIsToldWhereItBegan'
  BY <1>0 DEF EndIsToldWhereItBegan, Reports
<1>6. AloneSaysInv'
  <2>1. mode.sequential => \A d, f \in Evaluations : Busy(d)' /\ Busy(f)' => d = f
    BY <1>0 DEF Ingest, May, Busy, AlertsTypes
  <2> QED  BY <1>0, <2>1 DEF AloneSaysInv, BeingSaid, LastTold, SaidOnce, FailuresWorsen
<1>7. AloneStoredInv'
  <2>1. mode.sequential => \A d \in Evaluations : targets[d] = {} /\ ~stored[d]
    BY DEF Ingest, May, Busy, SaidInv
  <2> QED  BY <1>0, <2>1 DEF AloneStoredInv, ConsidersSaved, SaidIsStored
<1> QED  BY <1>3, <1>4, <1>5, <1>6, <1>7

LEMMA RemediatedSays ==
    ASSUME AlertsInv, NEW i \in Incidents, Remediated(i)
    PROVE  AlertsInv'
<1> USE DEF AlertsInv
<1>0. mode' = mode /\ UNCHANGED <<queue, stored, saying, targets, memory, told>>
  BY DEF Remediated, wvars
<1> PICK o : o = [incident[i] EXCEPT !.failed = ~@]
  OBVIOUS
<1> PICK r : r = [row[i] EXCEPT !.failed = o.failed]
  OBVIOUS
<1>1. o \in Objects /\ o.status = incident[i].status /\ o.severity = incident[i].severity
  <2>1. incident[i] \in Objects /\ (~incident[i].failed) \in BOOLEAN
    BY DEF AlertsTypes
  <2> QED  BY <2>1 DEF Objects
<1>2. r \in Objects /\ r.status = row[i].status /\ r.severity = row[i].severity
  BY <1>1 DEF AlertsTypes, Objects
<1>3. incident' = [incident EXCEPT ![i] = o]
  BY DEF Remediated, AlertsTypes
<1>4. row' = [row EXCEPT ![i] = r]
  BY <1>3 DEF Remediated, AlertsTypes
<1>5. AlertsTypes'
  BY <1>0, <1>1, <1>2, <1>3, <1>4 DEF AlertsTypes
<1>6. \A j \in Incidents : incident'[j].status = incident[j].status /\ incident'[j].severity = incident[j].severity
                           /\ row'[j].status = row[j].status /\ row'[j].severity = row[j].severity
  BY <1>1, <1>2, <1>3, <1>4 DEF AlertsTypes
<1>7. SaidInv'
  BY <1>0, <1>6 DEF SaidInv
<1>8. EndIsToldWhereItBegan'
  BY <1>0 DEF EndIsToldWhereItBegan, Reports
<1>9. AloneSaysInv'
  BY <1>0 DEF AloneSaysInv, Busy, BeingSaid, LastTold, SaidOnce, FailuresWorsen
<1>10. AloneStoredInv'
  <2>1. \A e \in Evaluations : stored[e] => Head(queue[e]) \in Incidents
    BY DEF AlertsTypes, SaidInv
  <2>2. \A e \in Evaluations : targets[e] # {} => saying[e].of \in Incidents
    BY DEF AlertsTypes, SaidInv, Sayings
  <2> QED  BY <1>0, <1>6, <2>1, <2>2 DEF AloneStoredInv, ConsidersSaved, SaidIsStored, Agrees
<1> QED  BY <1>5, <1>7, <1>8, <1>9, <1>10

LEMMA SaveFailsSays ==
    ASSUME AlertsInv, NEW e \in Evaluations, SaveFails(e)
    PROVE  AlertsInv'
<1> USE DEF AlertsInv
<1>0. mode' = mode /\ UNCHANGED <<incident, row, stored, saying, targets, memory, told>>
      /\ queue' = [queue EXCEPT ![e] = <<>>] /\ ~stored[e]
  BY DEF SaveFails, Unsaved, wvars
<1>1. AlertsTypes' /\ SaidInv'
  BY <1>0 DEF AlertsTypes, SaidInv
<1>2. EndIsToldWhereItBegan'
  BY <1>0 DEF EndIsToldWhereItBegan, Reports
<1>3. \A d \in Evaluations : Busy(d)' => Busy(d)
  BY <1>0 DEF Busy, AlertsTypes
<1>4. AloneSaysInv'
  BY <1>0, <1>3 DEF AloneSaysInv, BeingSaid, LastTold, SaidOnce, FailuresWorsen
<1>5. AloneStoredInv'
  <2>1. \A d \in Evaluations : stored[d] => queue'[d] = queue[d]
    BY <1>0 DEF AlertsTypes
  <2> QED  BY <1>0, <2>1 DEF AloneStoredInv, ConsidersSaved, SaidIsStored, Agrees
<1> QED  BY <1>1, <1>2, <1>4, <1>5

LEMMA SaveSays ==
    ASSUME AlertsInv, NEW e \in Evaluations, Save(e)
    PROVE  AlertsInv'
<1> USE DEF AlertsInv
<1> PICK i : i = Head(queue[e])
  OBVIOUS
<1>0. /\ mode' = mode /\ UNCHANGED <<incident, queue, saying, targets, memory, told>>
      /\ queue[e] # <<>> /\ targets[e] = {} /\ i \in Incidents
      /\ row' = [row EXCEPT ![i] = incident[i]] /\ stored' = [stored EXCEPT ![e] = TRUE]
  BY DEF Save, Unsaved, wvars, AlertsTypes
<1>1. AlertsTypes' /\ SaidInv'
  BY <1>0 DEF AlertsTypes, SaidInv
<1>2. EndIsToldWhereItBegan'
  BY <1>0 DEF EndIsToldWhereItBegan, Reports
<1>3. AloneSaysInv'
  BY <1>0 DEF AloneSaysInv, Busy, BeingSaid, LastTold, SaidOnce, FailuresWorsen
<1>4. AloneStoredInv'
  <2> SUFFICES ASSUME mode.sequential PROVE ConsidersSaved' /\ SaidIsStored'
    BY <1>0 DEF AloneStoredInv
  <2>1. \A d \in Evaluations : d # e => queue[d] = <<>> /\ targets[d] = {} /\ ~stored[d]
    BY <1>0 DEF AloneSaysInv, Busy, SaidInv
  <2>2. row'[i] = incident[i] /\ \A d \in Evaluations : stored'[d] => d = e
    BY <1>0, <2>1 DEF AlertsTypes
  <2> QED  BY <1>0, <2>1, <2>2 DEF ConsidersSaved, SaidIsStored, Agrees
<1> QED  BY <1>1, <1>2, <1>3, <1>4

LEMMA RestartSays ==
    ASSUME AlertsInv, Restart
    PROVE  AlertsInv'
<1> USE DEF AlertsInv, Restart
<1>1. AlertsTypes' /\ SaidInv'
  BY DEF AlertsTypes, SaidInv
<1>2. EndIsToldWhereItBegan'
  BY DEF EndIsToldWhereItBegan
<1>3. AloneSaysInv'
  BY DEF AloneSaysInv, Busy, BeingSaid, LastTold, SaidOnce, FailuresWorsen, Forgets
<1>4. AloneStoredInv'
  BY DEF AloneStoredInv, ConsidersSaved, SaidIsStored
<1> QED  BY <1>1, <1>2, <1>3, <1>4

LEMMA AlertsStart == AlertsInit => AlertsInv
<1> SUFFICES ASSUME AlertsInit PROVE AlertsInv
  OBVIOUS
<1> USE DEF AlertsInit
<1>1. AlertsTypes /\ SaidInv
  BY Ranks DEF AlertsTypes, SaidInv, NewIncident, Objects
<1>2. EndIsToldWhereItBegan
  BY DEF EndIsToldWhereItBegan
<1>3. AloneSaysInv
  BY DEF AloneSaysInv, Busy, BeingSaid, LastTold, SaidOnce, FailuresWorsen
<1>4. AloneStoredInv
  BY DEF AloneStoredInv, ConsidersSaved, SaidIsStored
<1> QED  BY <1>1, <1>2, <1>3, <1>4 DEF AlertsInv

(***************************************************************************)
(* An alert is told when it is decided, and remembered when the last of    *)
(* its channels has answered.                                              *)
(***************************************************************************)
LEMMA ReachedSays ==
    ASSUME AlertsInv, NEW e \in Evaluations, targets[e] # {}, NEW taken \in BOOLEAN,
           Reached(e, taken), mode' = mode
    PROVE  AlertsInv'
<1> USE DEF AlertsInv
<1>0. /\ UNCHANGED <<incident, row, queue, stored, told>>
      /\ targets' = [targets EXCEPT ![e] = targets[e] \ {Foremost(e)}]
  BY DEF Reached, Remaining
<1>1. saying[e] \in Sayings /\ saying[e].of \in Incidents
  BY DEF SaidInv, AlertsTypes, Sayings
<1>2. CASE targets'[e] # {}
  <2>1. UNCHANGED <<saying, memory>>
    BY <1>2 DEF Reached
  <2>2. \A d \in Evaluations : targets'[d] # {} <=> targets[d] # {}
    BY <1>0, <1>2 DEF AlertsTypes
  <2>3. AlertsTypes' /\ SaidInv'
    BY <1>0, <2>1, <2>2 DEF AlertsTypes, SaidInv
  <2>4. EndIsToldWhereItBegan'
    BY <1>0 DEF EndIsToldWhereItBegan, Reports
  <2>5. AloneSaysInv'
    BY <1>0, <2>1, <2>2 DEF AloneSaysInv, Busy, BeingSaid, LastTold, SaidOnce, FailuresWorsen
  <2>6. AloneStoredInv'
    BY <1>0, <2>1, <2>2 DEF AloneStoredInv, ConsidersSaved, SaidIsStored, Agrees
  <2> QED  BY <2>3, <2>4, <2>5, <2>6
<1>3. CASE targets'[e] = {}
  <2> PICK i \in Incidents : i = saying[e].of
    BY <1>1
  <2>1. memory' = [memory EXCEPT ![i] = saying[e]] /\ saying' = [saying EXCEPT ![e] = Nothing]
    BY <1>3 DEF Reached, Remember
  <2>2. \A d \in Evaluations : targets'[d] # {} => d # e /\ targets[d] # {} /\ saying'[d] = saying[d]
    BY <1>0, <1>3, <2>1 DEF AlertsTypes
  <2>3. AlertsTypes' /\ SaidInv'
    BY <1>0, <1>1, <2>1, <2>2 DEF AlertsTypes, SaidInv
  <2>4. EndIsToldWhereItBegan'
    BY <1>0 DEF EndIsToldWhereItBegan, Reports
  <2>5. ASSUME mode.sequential
        PROVE  \A j \in Incidents : ~BeingSaid(j)' => IF memory'[j] = Nothing THEN told[j] = <<>>
                                                     ELSE LastTold(j, memory'[j])
    <3> SUFFICES ASSUME NEW j \in Incidents
                 PROVE  ~BeingSaid(j)' => IF memory'[j] = Nothing THEN told[j] = <<>>
                                          ELSE LastTold(j, memory'[j])
      OBVIOUS
    <3>1. CASE j = i
      <4>1. memory'[j] = saying[e] /\ memory'[j] # Nothing
        BY <1>1, <2>1, <3>1, SayingIsSomething DEF AlertsTypes
      <4>2. LastTold(i, saying[e])
        BY <2>5 DEF AloneSaysInv
      <4> QED  BY <1>0, <3>1, <4>1, <4>2 DEF LastTold
    <3>2. CASE j # i
      <4>1. memory'[j] = memory[j]
        BY <2>1, <3>2 DEF AlertsTypes
      <4>2. \A d \in Evaluations : targets[d] # {} => d = e
        BY <2>5 DEF AloneSaysInv, Busy
      <4>3. ~BeingSaid(j)
        BY <3>2, <4>2 DEF BeingSaid
      <4> QED  BY <1>0, <2>5, <4>1, <4>3 DEF LastTold, AloneSaysInv
    <3> QED  BY <3>1, <3>2
  <2>6. AloneSaysInv'
    <3>1. \A d \in Evaluations : Busy(d)' => Busy(d)
      BY <1>0, <2>2 DEF Busy
    <3> QED  BY <1>0, <2>2, <2>5, <3>1 DEF AloneSaysInv, LastTold, SaidOnce, FailuresWorsen
  <2>7. AloneStoredInv'
    BY <1>0, <2>2 DEF AloneStoredInv, ConsidersSaved, SaidIsStored, Agrees
  <2> QED  BY <2>3, <2>4, <2>6, <2>7
<1> QED  BY <1>2, <1>3

\* An incident that is no news is passed over.
LEMMA PassedOverSays ==
    ASSUME AlertsInv, NEW e \in Evaluations, NEW i \in Incidents,
           queue[e] # <<>>, queue' = [queue EXCEPT ![e] = Tail(@)], stored' = [stored EXCEPT ![e] = FALSE],
           mode' = mode, UNCHANGED <<incident, row, saying, targets, memory, told>>
    PROVE  AlertsInv'
<1> USE DEF AlertsInv
<1>1. queue[e] \in Seq(Incidents) /\ Tail(queue[e]) \in Seq(Incidents)
  BY DEF AlertsTypes
<1>2. AlertsTypes' /\ SaidInv'
  BY <1>1 DEF AlertsTypes, SaidInv
<1>3. EndIsToldWhereItBegan'
  BY DEF EndIsToldWhereItBegan, Reports
<1>4. \A d \in Evaluations : Busy(d)' => Busy(d)
  BY DEF Busy, AlertsTypes
<1>5. AloneSaysInv'
  BY <1>4 DEF AloneSaysInv, BeingSaid, LastTold, SaidOnce, FailuresWorsen
<1>6. AloneStoredInv'
  <2>1. \A d \in Evaluations : stored'[d] => stored[d] /\ queue'[d] = queue[d]
    BY DEF AlertsTypes
  <2> QED  BY <2>1 DEF AloneStoredInv, ConsidersSaved, SaidIsStored, Agrees
<1> QED  BY <1>2, <1>3, <1>5, <1>6

\* What is decided of an incident that was spoken of is news: worse than what
\* was said, or its end.
LEMMA NewsIsNew ==
    ASSUME AlertsInv, mode.sequential, NEW i \in Incidents, ~BeingSaid(i), kindFor(i) # "none",
           NEW j \in DOMAIN told[i]
    PROVE  /\ Rank(told[i][j].severity) <= Rank(incident[i].severity)
           /\ told[i][j].kind = kindFor(i) => told[i][j].severity # incident[i].severity
           /\ told[i][j].kind # "resolved"
           /\ (told[i][j].kind = "remediation_failed" /\ kindFor(i) # "resolved") =>
                 Rank(told[i][j].severity) < Rank(incident[i].severity)
<1> USE DEF AlertsInv
<1> PICK n : n = Len(told[i])
  OBVIOUS
<1> PICK m : m = memory[i]
  OBVIOUS
<1>1. n \in Nat /\ DOMAIN told[i] = 1..n /\ j \in 1..n /\ n \in DOMAIN told[i]
  BY ToldIsTelling
<1>2. m # Nothing /\ told[i][n].kind = m.kind /\ told[i][n].severity = m.severity
  <2>1. told[i] # <<>>
    BY <1>1
  <2> QED  BY <2>1 DEF AloneSaysInv, LastTold
<1>3. /\ j = n \/ j < n
      /\ j < n => /\ Rank(told[i][j].severity) <= Rank(told[i][n].severity)
                  /\ told[i][j].kind # "resolved"
                  /\ told[i][j].kind = "remediation_failed" /\ m.kind # "resolved" =>
                        Rank(told[i][j].severity) < Rank(told[i][n].severity)
  BY <1>1, <1>2 DEF AloneSaysInv, SaidOnce, FailuresWorsen
<1>4. /\ Rank(told[i][j].severity) <= Rank(incident[i].severity)
      /\ Rank(told[i][n].severity) <= Rank(incident[i].severity)
      /\ told[i][n].kind = "resolved" => incident[i].status = "resolved"
  BY <1>1 DEF SaidInv
<1>5. m.kind # "resolved"
  BY <1>2, <1>4 DEF kindFor
<1>6. told[i][j].kind # "resolved"
  BY <1>2, <1>3, <1>5
<1>7. Rank(told[i][j].severity) \in Nat /\ Rank(told[i][n].severity) \in Nat /\ Rank(incident[i].severity) \in Nat
  BY Ranks
<1>8. CASE incident[i].status = "resolved"
  <2>1. kindFor(i) = "resolved"
    BY <1>2, <1>5, <1>8 DEF kindFor
  <2> QED  BY <1>4, <1>6, <2>1
<1>9. CASE incident[i].status # "resolved" /\ incident[i].failed /\ m.kind # "remediation_failed"
  <2>1. kindFor(i) = "remediation_failed"
    BY <1>2, <1>9 DEF kindFor
  <2>2. told[i][j].kind = "remediation_failed" => Rank(told[i][j].severity) < Rank(incident[i].severity)
    BY <1>2, <1>3, <1>4, <1>5, <1>7, <1>9
  <2> QED  BY <1>4, <1>6, <1>7, <2>1, <2>2
<1>10. CASE incident[i].status # "resolved" /\ ~(incident[i].failed /\ m.kind # "remediation_failed")
  <2>1. Rank(incident[i].severity) > Rank(m.severity)
    BY <1>2, <1>10 DEF kindFor
  <2>2. Rank(told[i][j].severity) < Rank(incident[i].severity)
    BY <1>2, <1>3, <1>7, <2>1
  <2> QED  BY <1>6, <1>7, <2>2
<1> QED  BY <1>8, <1>9, <1>10

\* What a telling adds to what was told of its incident.
ToldMore(i, t) ==
    /\ t \in Tellings /\ t.kind = kindFor(i) /\ t.severity = incident[i].severity
    /\ told' = [told EXCEPT ![i] = Append(@, t)]

LEMMA ToldMoreReads ==
    ASSUME AlertsTypes, NEW i \in Incidents, NEW t, ToldMore(i, t)
    PROVE  /\ told' \in [Incidents -> Seq(Tellings)]
           /\ DOMAIN told'[i] = DOMAIN told[i] \union {Len(told[i]) + 1} /\ Len(told'[i]) = Len(told[i]) + 1
           /\ \A j \in DOMAIN told[i] : told'[i][j] = told[i][j] /\ j < Len(told[i]) + 1
           /\ told'[i][Len(told[i]) + 1] = t /\ told'[i] # <<>>
           /\ \A h \in Incidents : h # i => told'[h] = told[h]
<1> PICK s : s = Append(told[i], t)
  OBVIOUS
<1>1. told[i] \in Seq(Tellings) /\ t \in Tellings /\ told' = [told EXCEPT ![i] = s]
  BY DEF AlertsTypes, ToldMore
<1>2. /\ s \in Seq(Tellings) /\ s # <<>> /\ Len(s) = Len(told[i]) + 1
      /\ \A j \in 1..Len(told[i]) : s[j] = told[i][j]
      /\ s[Len(told[i]) + 1] = t
  BY <1>1, AppendProperties
<1>3. Len(told[i]) \in Nat /\ DOMAIN told[i] = 1..Len(told[i]) /\ DOMAIN s = 1..(Len(told[i]) + 1)
  BY <1>1, <1>2
<1>4. told'[i] = s /\ \A h \in Incidents : h # i => told'[h] = told[h]
  BY <1>1 DEF AlertsTypes
<1>5. told' \in [Incidents -> Seq(Tellings)]
  BY <1>1, <1>2 DEF AlertsTypes
<1> QED  BY <1>2, <1>3, <1>4, <1>5

\* An alert that was decided is told to every channel a route takes it to.
LEMMA ToldSays ==
    ASSUME AlertsInv, NEW e \in Evaluations, Consider(e), kindFor(Head(queue[e])) # "none"
    PROVE  AlertsInv'
<1> USE DEF AlertsInv
<1> PICK i : i = Head(queue[e])
  OBVIOUS
<1> PICK alert : alert = Alert(i, kindFor(i))
  OBVIOUS
<1> PICK wanted : wanted = Wanted(alert)
  OBVIOUS
<1> PICK t : t = [alert EXCEPT !.of = {Channels[k] : k \in wanted}]
  OBVIOUS
<1>1. /\ queue[e] \in Seq(Incidents) /\ queue[e] # <<>> /\ targets[e] = {}
      /\ i \in Incidents /\ Tail(queue[e]) \in Seq(Incidents) /\ kindFor(i) # "none" /\ stored[e]
  BY DEF Consider, MayConsider, AlertsTypes
<1>2. /\ alert \in Sayings /\ alert.kind = kindFor(i) /\ alert.severity = incident[i].severity /\ alert.of = i
      /\ alert # Nothing
  BY <1>1, KindsOfNews, SayingIsSomething DEF Alert
<1>3. wanted \in SUBSET (DOMAIN Channels)
  BY DEF Wanted
<1>4. t \in Tellings /\ t.kind = kindFor(i) /\ t.severity = incident[i].severity
      /\ t.of = {Channels[k] : k \in wanted}
  BY <1>2, <1>3 DEF Sayings, Tellings
<1>5. /\ mode' = mode /\ UNCHANGED <<incident, row>>
      /\ stored' = [stored EXCEPT ![e] = FALSE] /\ queue' = [queue EXCEPT ![e] = Tail(queue[e])]
      /\ targets' = [targets EXCEPT ![e] = wanted]
      /\ saying' = [saying EXCEPT ![e] = IF wanted = {} THEN Nothing ELSE alert]
      /\ told' = [told EXCEPT ![i] = Append(@, t)]
      /\ memory' = IF wanted = {} THEN [memory EXCEPT ![i] = alert] ELSE memory
  BY <1>1, <1>2 DEF Consider, Said, Remember, wvars
<1>6. ToldMore(i, t)
  BY <1>4, <1>5 DEF ToldMore
<1> PICK n : n = Len(told[i]) + 1
  OBVIOUS
<1>7. /\ told' \in [Incidents -> Seq(Tellings)]
      /\ DOMAIN told'[i] = DOMAIN told[i] \union {n} /\ Len(told'[i]) = n
      /\ \A j \in DOMAIN told[i] : told'[i][j] = told[i][j] /\ j < n
      /\ told'[i][n] = t /\ told'[i] # <<>>
      /\ \A h \in Incidents : h # i => told'[h] = told[h]
  BY <1>1, <1>6, ToldMoreReads
<1>8. AlertsTypes'
  BY <1>1, <1>2, <1>3, <1>5, <1>7 DEF AlertsTypes
<1>9. SaidInv'
  <2>1. \A d \in Evaluations : stored'[d] => queue'[d] # <<>>
    BY <1>1, <1>5 DEF SaidInv, AlertsTypes
  <2>2. \A h \in Incidents : memory'[h] # Nothing => memory'[h].of = h
    BY <1>1, <1>2, <1>5 DEF SaidInv, AlertsTypes
  <2>3. \A d \in Evaluations : targets'[d] # {} => saying'[d] # Nothing
    BY <1>2, <1>5 DEF SaidInv, AlertsTypes
  <2>4. ASSUME NEW h \in Incidents, NEW j \in DOMAIN told'[h]
        PROVE  /\ Rank(told'[h][j].severity) <= Rank(incident[h].severity)
               /\ told'[h][j].kind = "resolved" => incident[h].status = "resolved"
    <3>1. CASE h = i /\ j = n
      <4>1. kindFor(i) = "resolved" => incident[i].status = "resolved"
        BY <1>1, KindsOfNews
      <4>2. Rank(incident[i].severity) \in Nat
        BY Ranks
      <4>3. told'[h][j] = t /\ t.severity = incident[h].severity /\ t.kind = kindFor(h)
        BY <1>4, <1>7, <3>1
      <4>4. Rank(told'[h][j].severity) = Rank(incident[h].severity)
        BY <4>3
      <4> QED  BY <3>1, <4>1, <4>2, <4>3, <4>4
    <3>2. CASE ~(h = i /\ j = n)
      <4>1. j \in DOMAIN told[h] /\ told'[h][j] = told[h][j]
        BY <1>7, <3>2
      <4> QED  BY <4>1 DEF SaidInv
    <3> QED  BY <3>1, <3>2
  <2> QED  BY <1>5, <2>1, <2>2, <2>3, <2>4 DEF SaidInv
<1>10. EndIsToldWhereItBegan'
  <2> SUFFICES ASSUME NEW h \in Incidents, NEW j \in DOMAIN told'[h], NEW k \in DOMAIN told'[h],
                      j < k, told'[h][k].kind = "resolved",
                      NEW c \in told'[h][j].of, Reports(c, told'[h][j].severity)
               PROVE  c \in told'[h][k].of
    BY <1>5 DEF EndIsToldWhereItBegan, Reports
  <2>1. CASE ~(h = i /\ k = n)
    <3>1. /\ k \in DOMAIN told[h] /\ told'[h][k] = told[h][k]
          /\ j \in DOMAIN told[h] /\ told'[h][j] = told[h][j]
      <4>1. k \in DOMAIN told[h] /\ told'[h][k] = told[h][k]
        BY <1>7, <2>1
      <4>2. j # n \/ h # i
        <5>1. h = i => k < n /\ k \in Nat /\ n \in Nat
          BY <1>1, <1>7, <4>1, ToldIsTelling
        <5> QED  BY <5>1
      <4> QED  BY <1>7, <4>1, <4>2
    <3> QED  BY <3>1 DEF EndIsToldWhereItBegan
  <2>2. CASE h = i /\ k = n
    <3>1. j \in DOMAIN told[i] /\ told'[i][j] = told[i][j] /\ told'[h][k] = t
      <4>1. n \in Nat
        BY <1>1, ToldIsTelling
      <4> QED  BY <1>7, <2>2, <4>1
    <3>2. Rank(told[i][j].severity) <= Rank(incident[i].severity) /\ told[i][j] \in Tellings
      BY <1>1, <3>1, ToldIsTelling DEF SaidInv
    <3>3. PICK p \in DOMAIN Channels : c = Channels[p]
      BY <2>2, <3>1, <3>2 DEF Tellings
    <3>4. PICK route \in mode.routes :
             route.channel = c /\ Rank(told[i][j].severity) >= Rank(route.min) /\ "resolved" \in route.kinds
      BY <2>2, <3>1 DEF Reports
    <3>5. Rank(alert.severity) >= Rank(route.min) /\ alert.kind = "resolved"
      <4>1. Rank(told[i][j].severity) \in Nat /\ Rank(incident[i].severity) \in Nat /\ Rank(route.min) \in Nat
        BY Ranks
      <4> QED  BY <1>2, <1>4, <2>2, <3>1, <3>2, <3>4, <4>1
    <3>6. selects(route, alert)
      BY <3>4, <3>5 DEF selects
    <3>7. p \in wanted
      BY <3>3, <3>4, <3>6 DEF Wanted
    <3> QED  BY <1>4, <3>1, <3>3, <3>7
  <2> QED  BY <2>1, <2>2
<1>11. AloneSaysInv'
  <2> SUFFICES ASSUME mode.sequential PROVE AloneSaysInv'
    BY <1>5 DEF AloneSaysInv
  <2>1. \A d \in Evaluations : d # e => targets[d] = {} /\ queue[d] = <<>>
    BY <1>1 DEF AloneSaysInv, Busy
  <2>2. \A h \in Incidents : ~BeingSaid(h)
    BY <1>1, <2>1 DEF BeingSaid
  <2>3. \A d, f \in Evaluations : Busy(d)' /\ Busy(f)' => d = f
    BY <1>5, <2>1 DEF Busy, AlertsTypes
  <2>4. told'[i] # <<>> /\ told'[i][Len(told'[i])].kind = alert.kind
        /\ told'[i][Len(told'[i])].severity = alert.severity
    BY <1>2, <1>4, <1>7
  <2>5. \A d \in Evaluations : targets'[d] # {} => d = e /\ saying'[d] = alert
    BY <1>5, <2>1 DEF AlertsTypes
  <2>6. \A d \in Evaluations : targets'[d] # {} => LastTold(saying[d].of, saying[d])'
    BY <1>2, <2>4, <2>5 DEF LastTold
  <2>7. ASSUME NEW h \in Incidents, ~BeingSaid(h)'
        PROVE  IF memory'[h] = Nothing THEN told'[h] = <<>> ELSE LastTold(h, memory[h])'
    <3>1. CASE h = i
      <4>1. wanted = {}
        <5>1. wanted # {} => targets'[e] # {} /\ saying'[e].of = i
          BY <1>2, <1>5 DEF AlertsTypes
        <5> QED  BY <2>7, <3>1, <5>1 DEF BeingSaid
      <4>2. memory'[i] = alert
        BY <1>1, <1>5, <4>1 DEF AlertsTypes
      <4> QED  BY <1>2, <2>4, <3>1, <4>2 DEF LastTold
    <3>2. CASE h # i
      <4>1. memory'[h] = memory[h] /\ told'[h] = told[h]
        BY <1>5, <1>7, <3>2 DEF AlertsTypes
      <4>2. IF memory[h] = Nothing THEN told[h] = <<>> ELSE LastTold(h, memory[h])
        BY <2>2 DEF AloneSaysInv
      <4> QED  BY <4>1, <4>2 DEF LastTold
    <3> QED  BY <3>1, <3>2
  <2>8. \A j \in DOMAIN told[i] :
           /\ Rank(told[i][j].severity) <= Rank(t.severity)
           /\ told[i][j].kind = t.kind => told[i][j].severity # t.severity
           /\ told[i][j].kind # "resolved"
           /\ (told[i][j].kind = "remediation_failed" /\ t.kind # "resolved") =>
                 Rank(told[i][j].severity) < Rank(t.severity)
    BY <1>1, <1>4, <2>2, NewsIsNew
  <2>9. ASSUME NEW h \in Incidents, NEW j \in DOMAIN told'[h], NEW k \in DOMAIN told'[h], j < k
        PROVE  /\ Rank(told'[h][j].severity) <= Rank(told'[h][k].severity)
               /\ told'[h][j].kind = told'[h][k].kind => told'[h][j].severity # told'[h][k].severity
               /\ told'[h][j].kind # "resolved"
               /\ (told'[h][j].kind = "remediation_failed" /\ told'[h][k].kind # "resolved") =>
                     Rank(told'[h][j].severity) < Rank(told'[h][k].severity)
    <3>1. CASE ~(h = i /\ k = n)
      <4>1. k \in DOMAIN told[h] /\ told'[h][k] = told[h][k]
        BY <1>7, <3>1
      <4>2. j # n \/ h # i
        <5>1. h = i => k < n /\ k \in Nat /\ n \in Nat
          BY <1>1, <1>7, <4>1, ToldIsTelling
        <5> QED  BY <2>9, <5>1
      <4>3. j \in DOMAIN told[h] /\ told'[h][j] = told[h][j]
        BY <1>7, <4>1, <4>2
      <4> QED  BY <2>9, <4>1, <4>3 DEF AloneSaysInv, SaidOnce, FailuresWorsen
    <3>2. CASE h = i /\ k = n
      <4>1. j \in DOMAIN told[i] /\ told'[i][j] = told[i][j] /\ told'[h][k] = t
        <5>1. n \in Nat
          BY <1>1, ToldIsTelling
        <5> QED  BY <1>7, <2>9, <3>2, <5>1
      <4> QED  BY <2>8, <3>2, <4>1
    <3> QED  BY <3>1, <3>2
  <2>10. SaidOnce' /\ FailuresWorsen'
    BY <2>9 DEF SaidOnce, FailuresWorsen
  <2> QED  BY <2>3, <2>6, <2>7, <2>10 DEF AloneSaysInv
<1>12. AloneStoredInv'
  <2> SUFFICES ASSUME mode.sequential PROVE ConsidersSaved' /\ SaidIsStored'
    BY <1>5 DEF AloneStoredInv
  <2>1. \A d \in Evaluations : stored'[d] => stored[d] /\ queue'[d] = queue[d]
    BY <1>5 DEF AlertsTypes
  <2>2. \A d \in Evaluations : d # e => targets[d] = {}
    BY <1>1 DEF AloneSaysInv, Busy
  <2>3. \A d \in Evaluations : targets'[d] # {} => saying'[d] = alert
    BY <1>5, <2>2 DEF AlertsTypes
  <2>4. Agrees(i)
    BY <1>1 DEF AloneStoredInv, ConsidersSaved
  <2>5. alert.kind = "resolved" => incident[i].status = "resolved"
    BY <1>1, <1>2, KindsOfNews
  <2>6. SaidIsStored'
    BY <1>2, <1>5, <2>3, <2>4, <2>5 DEF SaidIsStored, Agrees
  <2> QED  BY <1>5, <2>1, <2>6 DEF AloneStoredInv, ConsidersSaved, Agrees
<1> QED  BY <1>8, <1>9, <1>10, <1>11, <1>12

LEMMA ConsiderSays ==
    ASSUME AlertsInv, NEW e \in Evaluations, Consider(e)
    PROVE  AlertsInv'
<1>1. CASE kindFor(Head(queue[e])) = "none"
  <2> PICK i : i = Head(queue[e])
    OBVIOUS
  <2>1. i \in Incidents /\ queue[e] # <<>>
    BY DEF Consider, MayConsider, AlertsInv, AlertsTypes
  <2>2. /\ queue' = [queue EXCEPT ![e] = Tail(@)] /\ stored' = [stored EXCEPT ![e] = FALSE]
        /\ mode' = mode /\ UNCHANGED <<incident, row, saying, targets, memory, told>>
    BY <1>1 DEF Consider, wvars
  <2> QED  BY <2>1, <2>2, PassedOverSays
<1> QED  BY <1>1, ToldSays

(***************************************************************************)
(* Every step of the system keeps both invariants.                         *)
(***************************************************************************)
LEMMA AlertsStep ==
    ASSUME WorkflowsInv, AlertsInv, [AlertsNext]_alertsVars
    PROVE  WorkflowsInv' /\ AlertsInv'
<1>1. ASSUME UNCHANGED avars, mode' = mode PROVE AlertsInv'
  BY <1>1, QuietSays DEF avars
<1>2. CASE UNCHANGED alertsVars
  <2>1. UNCHANGED wvars /\ UNCHANGED avars /\ mode' = mode
    BY <1>2 DEF alertsVars, wvars
  <2> QED  BY <1>1, <2>1, QuietKeeps
<1>3. CASE Operates /\ UNCHANGED avars
  <2>1. CASE \E i \in Installs : Install(i)
    BY <1>1, <1>3, <2>1, InstallKeeps DEF Install
  <2>2. CASE \E p \in Presses : Press(p) \/ Read(p) \/ Claim(p)
    <3>1. mode' = mode
      BY <2>2 DEF Press, Read, Claim, Keep
    <3> QED  BY <1>1, <1>3, <2>2, <3>1, PressKeeps, ReadKeeps, ClaimKeeps
  <2>3. CASE \E k \in Ids : Delete(k)
    BY <1>1, <1>3, <2>3, DeleteKeeps DEF Delete
  <2>4. CASE Pass
    BY <1>1, <1>3, <2>4, PassKeeps DEF Pass
  <2> QED  BY <1>3, <2>1, <2>2, <2>3, <2>4 DEF Operates
<1>4. CASE (\E c \in Callers : Works(c) \/ Throws(c)) /\ UNCHANGED avars
  <2> PICK c \in Callers : Works(c) \/ Throws(c)
    BY <1>4
  <2>1. CASE Find(c)
    BY <1>1, <1>4, <2>1, FindKeeps DEF Find, Keep
  <2>2. CASE Patch(c)
    <3>1. c \in Installs
      BY <2>2, Roles DEF Patch, WorkflowsInv, CallersInv
    <3> QED  BY <1>1, <1>4, <2>2, <3>1, PatchKeeps DEF Patch, Keep
  <2>3. CASE Create(c)
    BY <1>1, <1>4, <2>3, CreateKeeps DEF Create, Keep
  <2>4. CASE Sync(c)
    <3>1. c \in Installs
      BY <2>4, Roles DEF Sync, WorkflowsInv, CallersInv
    <3> QED  BY <1>1, <1>4, <2>4, <3>1, SyncKeeps DEF Sync, Keep
  <2>5. CASE Run(c)
    BY <1>1, <1>4, <2>5, RunKeeps DEF Run, Keep
  <2>6. CASE Upgrade(c)
    BY <1>1, <1>4, <2>6, UpgradeKeeps DEF Upgrade, Keep
  <2>7. CASE ListFails(c)
    BY <1>1, <1>4, <2>7, ListFailsKeeps DEF ListFails, Keep
  <2> QED  BY <2>1, <2>2, <2>3, <2>4, <2>5, <2>6, <2>7 DEF Works, Throws
<1>5. CASE \E e \in Evaluations : Proceeds(e) \/ SaveFails(e) \/ \E found \in Findings : Ingest(e, found)
  <2> PICK e \in Evaluations : Proceeds(e) \/ SaveFails(e) \/ \E found \in Findings : Ingest(e, found)
    BY <1>5
  <2>1. CASE Consider(e)
    BY <2>1, ConsiderSays, QuietKeeps DEF Consider
  <2>2. CASE Deliver(e)
    <3>1. UNCHANGED wvars /\ mode' = mode
      BY <2>2 DEF Deliver, wvars
    <3> PICK taken \in BOOLEAN : Reached(e, taken)
      BY <2>2 DEF Deliver
    <3> QED  BY <2>2, <3>1, ReachedSays, QuietKeeps DEF Deliver
  <2>3. CASE Mail(e)
    BY <1>1, <2>3, MailKeeps DEF Mail, Evaluations
  <2>4. CASE Mailed(e)
    <3> PICK taken \in BOOLEAN : taken = (answer[e] = "ran")
      OBVIOUS
    <3>1. targets[e] # {} /\ Reached(e, taken) /\ mode' = mode
      BY <2>4 DEF Mailed
    <3> QED  BY <2>4, <3>1, ReachedSays, MailedKeeps DEF Evaluations
  <2>5. CASE SaveFails(e)
    BY <2>5, SaveFailsSays, QuietKeeps DEF SaveFails
  <2>6. CASE \E found \in Findings : Ingest(e, found)
    BY <2>6, IngestSays, QuietKeeps DEF Ingest
  <2>7. CASE Save(e)
    BY <2>7, SaveSays, QuietKeeps DEF Save
  <2> QED  BY <2>1, <2>2, <2>3, <2>4, <2>5, <2>6, <2>7 DEF Proceeds, Answers
<1>6. CASE \E i \in Incidents : Remediated(i)
  BY <1>6, RemediatedSays, QuietKeeps DEF Remediated
<1>7. CASE Turns
  <2>1. UNCHANGED wvars /\ mode' = mode
    BY <1>7 DEF Turns, wvars
  <2> QED  BY <1>7, <2>1, QuietKeeps, QuietSays DEF Turns
<1>8. CASE Restart
  BY <1>8, RestartSays, ForgetsKeeps DEF Restart
<1> QED  BY <1>2, <1>3, <1>4, <1>5, <1>6, <1>7, <1>8 DEF AlertsNext

LEMMA AlertsAlways == AlertsSpec => [](WorkflowsInv /\ AlertsInv)
<1>1. AlertsInit => WorkflowsInv /\ AlertsInv
  BY WorkflowsStart, AlertsStart DEF AlertsInit
<1>2. WorkflowsInv /\ AlertsInv /\ [AlertsNext]_alertsVars => (WorkflowsInv /\ AlertsInv)'
  BY AlertsStep
<1> QED  BY <1>1, <1>2, PTL DEF AlertsSpec

\* What is kept in the organisation: its shape, the triggers that fire, the
\* names that are not counted and the presses that are a cooldown apart.
LEMMA WorkflowsPromise == WorkflowsInv =>
    /\ WorkflowsTypeOK /\ InstalledFires /\ NamedNotCounted /\ AlonePressesAreSpaced
<1> SUFFICES ASSUME WorkflowsInv
             PROVE  /\ WorkflowsTypeOK /\ InstalledFires /\ NamedNotCounted /\ AlonePressesAreSpaced
  OBVIOUS
<1> USE DEF WorkflowsInv
<1>1. Ids \subseteq 1..MaxListed
  <2>1. Len(listing) \in Nat /\ Len(listing) <= MaxListed
    BY DEF ListedInv
  <2> QED  BY <2>1, Roles DEF Ids
<1>2. Ids \union {NoWorkflow} \subseteq 0..MaxListed
  BY <1>1, Roles DEF NoWorkflow
<1>3. \A k \in Ids : listing[k].name \in Names /\ listing[k].secret \in Callers
  <2>1. \A k \in Ids : listing[k] \in Workflow
    BY DEF ListedInv, Ids
  <2> QED  BY <2>1 DEF Workflow
<1>4. using \in [Callers -> 0..MaxListed] /\ cached \in [Names -> 0..MaxListed]
  BY <1>2 DEF CallersInv
<1>5. WorkflowsTypeOK
  BY <1>3, <1>4 DEF WorkflowsTypeOK, ListedInv, CallersInv, InstallsInv, PressesInv
<1>6. InstalledFires
  BY DEF InstalledFires, InstallsInv
<1>7. NamedNotCounted
  BY DEF NamedNotCounted, NamesInv
<1>8. AlonePressesAreSpaced
  BY DEF AlonePressesAreSpaced, PressesAreSpaced, AlonePressesInv, HasClaimed, Apart
<1> QED  BY <1>5, <1>6, <1>7, <1>8

\* A confirmed trigger fires until it is deleted; a workflow is made only where
\* none of its name was; demo presses that do not overlap run at most once a
\* cooldown; while evaluations do not overlap each moment of an incident is said
\* once, and only as it is stored; its end is said wherever it was reported.  All
\* with any number of callers and incidents, any routes, failures and restarts.
THEOREM OutboundKept == AlertsSpec => []OutboundHolds
<1>1. WorkflowsInv /\ AlertsInv => OutboundHolds
  <2> SUFFICES ASSUME WorkflowsInv, AlertsInv PROVE OutboundHolds
    OBVIOUS
  <2>1. AlertsTypeOK
    BY SayingIsSomething DEF AlertsInv, AlertsTypes, SaidInv, AlertsTypeOK, Objects, Sayings
  <2>2. AloneSaidOnce /\ AloneSaidIsStored /\ EndIsToldWhereItBegan
    BY DEF AlertsInv, AloneSaysInv, AloneStoredInv, AloneSaidOnce, AloneSaidIsStored
  <2> QED  BY <2>1, <2>2, WorkflowsPromise DEF OutboundHolds
<1> QED  BY <1>1, AlertsAlways, PTL
=============================================================================
