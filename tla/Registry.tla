------------------------------ MODULE Registry ------------------------------
(***************************************************************************)
(* Who a caller is and what they may act on: packages/api identity.ts,     *)
(* wallet-auth.ts and the routes of app.ts that register addresses,        *)
(* breakers and claims, over the rows of packages/store.  A handler is one *)
(* step per await, and any number of them overlap.                         *)
(*                                                                         *)
(* One operator is known by two ids until a sign-in with its organisation  *)
(* key moves what it owns from the derived one to KeeperHub's own.         *)
(***************************************************************************)
EXTENDS Naturals, Sequences, FiniteSets

CONSTANTS
    Agents, Signers, Orgs, NoOrg, DerivedId, RealId,
    Wallets,         \* organisations that are an address which signs for itself
    AddressOf,       \* wallet -> its address
    AgentOf,         \* address -> the agent id an address goes by
    Requests,        \* handlers that may run at the same time
    Public,          \* publicAgentIds
    MaxWatched,      \* MAX_WATCHED
    MaxOutstanding,  \* maxOutstanding
    MaxNonces, MaxAsked  \* bounds: challenges ever issued, requests ever received

ASSUME RegistryAssumption ==
    /\ Agents # {} /\ Signers # {} /\ Requests # {} /\ IsFiniteSet(Requests)
    /\ NoOrg \notin Orgs /\ DerivedId # RealId
    /\ {DerivedId, RealId} \subseteq Orgs \ Wallets /\ Wallets \subseteq Orgs
    /\ Public \subseteq Agents
    /\ AddressOf \in [Wallets -> Signers] /\ AgentOf \in [Signers -> Agents]
    /\ MaxWatched \in Nat /\ MaxOutstanding \in Nat \ {0} /\ MaxNonces \in Nat /\ MaxAsked \in Nat

VARIABLES
    owner,       \* agent_owners
    watched,     \* watched_signers: the agent an address is filed under
    active,      \* addresses whose row is active
    breaker,     \* agent_breakers: the organisation that registered it
    sessions,    \* organisations with a session that has not been revoked
    challenges,  \* WalletAuth.challenges: an outstanding nonce -> the wallet it is for
    issued,      \* nonces issued so far, numbered in the order a Map keeps them in
    proofs,      \* history: nonces a session was minted for, with repetitions
    asked,       \* requests received so far
    req          \* request -> the locals of its handler

vars == <<owner, watched, active, breaker, sessions, challenges, issued, proofs, asked, req>>
wallets == <<challenges, issued, proofs>>
rows == <<owner, watched, active, breaker>>

Local == "local"   \* the organisation of a breaker nobody was signed in for

NoAgent == CHOOSE a \in Agents : TRUE
NoSigner == CHOOSE s \in Signers : TRUE
NoReq == [pc |-> "idle", org |-> NoOrg, agent |-> NoAgent, signer |-> NoSigner,
          todo |-> {}, nonce |-> 0]

Init ==
    /\ owner = [a \in Agents |-> NoOrg]
    /\ watched = [s \in Signers |-> NoAgent] /\ active = {}
    /\ breaker = [a \in Agents |-> NoOrg]
    /\ sessions = {}
    /\ challenges = [n \in {} |-> NoOrg] /\ issued = 0 /\ proofs = <<>> /\ asked = 0
    /\ req = [r \in Requests |-> NoReq]

Anonymous == NoOrg

At(r, pc) == req[r].pc = pc
Goto(r, pc) == req' = [req EXCEPT ![r].pc = pc]
Done(r) == req' = [req EXCEPT ![r] = NoReq]
GotoIf(test, r, pc) == IF test THEN Goto(r, pc) ELSE Done(r)

Receive(r) == At(r, "idle") /\ asked < MaxAsked /\ asked' = asked + 1

Routes == {"watching", "breaking", "removing", "leaving", "opening"}

\* callerOf: what a session is worth is read once, when the request comes in.
\* Without one only reading is open, planning chaos, and switching off nothing.
Ask(r, route, o, a, s) ==
    /\ Receive(r)
    /\ o \in sessions \/ (o = Anonymous /\ route \in {"watching", "leaving", "opening"})
    /\ route \in {"breaking", "removing", "opening"} => s = NoSigner
    /\ route = "leaving" => a = NoAgent
    /\ req' = [req EXCEPT ![r] = [NoReq EXCEPT !.pc = route, !.org = o, !.agent = a,
                                              !.signer = s, !.todo = {a}]]
    /\ UNCHANGED <<rows, sessions, wallets>>

(***************************************************************************)
(* Sign-in and sign-out.                                                   *)
(***************************************************************************)
\* A key whose organisation KeeperHub names moves everything first; one it does
\* not name, or cannot be asked about, is the derived organisation.
KeySignIn(r, o) ==
    /\ Receive(r)
    /\ o \in {DerivedId, RealId}
    /\ req' = [req EXCEPT ![r].pc = IF o = RealId THEN "remapping owners" ELSE "minting",
                          ![r].org = o]
    /\ UNCHANGED <<rows, sessions, wallets>>

\* OAuth names the organisation itself.
OAuthSignIn(r, o) ==
    /\ Receive(r)
    /\ o \in Orgs \ ({DerivedId} \union Wallets)
    /\ req' = [req EXCEPT ![r].pc = "minting", ![r].org = o]
    /\ UNCHANGED <<rows, sessions, wallets>>

Renamed(o) == IF o = DerivedId THEN RealId ELSE o

RemapOwners(r) ==
    /\ At(r, "remapping owners")
    /\ owner' = [a \in Agents |-> Renamed(owner[a])]
    /\ Goto(r, "remapping sessions")
    /\ UNCHANGED <<watched, active, breaker, sessions, wallets, asked>>

\* What follows in remapOrganisation moves connections and workflows, which are
\* only ever filed under the real id.
RemapSessions(r) ==
    /\ At(r, "remapping sessions")
    /\ sessions' = {Renamed(o) : o \in sessions}
    /\ Goto(r, "minting")
    /\ UNCHANGED <<rows, wallets, asked>>

Mint(r) ==
    /\ At(r, "minting")
    /\ sessions' = sessions \union {req[r].org}
    /\ Done(r)
    /\ UNCHANGED <<rows, wallets, asked>>

SignOut(o) ==
    /\ o \in sessions
    /\ sessions' = sessions \ {o}
    /\ UNCHANGED <<rows, wallets, req, asked>>

(***************************************************************************)
(* Ownership proved by a signature.                                        *)
(***************************************************************************)
\* A full table only grows.
WithoutMakingRoom(kept) == kept

Oldest(kept) == CHOOSE n \in kept : \A k \in kept : n <= k

\* "Oldest out rather than refusing".
WithRoom(kept) == IF Cardinality(kept) >= MaxOutstanding THEN kept \ {Oldest(kept)} ELSE kept

\* Challenges past their time, the oldest, are swept first.
Issue(w) ==
    /\ w \in Wallets
    /\ issued < MaxNonces
    /\ issued' = issued + 1
    /\ \E stale \in 0..issued :
         LET kept == WithRoom({n \in DOMAIN challenges : n > stale}) IN
         challenges' = [n \in kept \union {issued + 1} |->
                          IF n \in kept THEN challenges[n] ELSE w]
    /\ UNCHANGED <<rows, sessions, proofs, asked, req>>

\* The nonce is looked up, and left for the sweep.
TakenLeavingIt(n) == challenges

\* "The nonce is consumed whatever the outcome".
Taken(n) == [k \in DOMAIN challenges \ {n} |-> challenges[k]]

Present(r, n) ==
    /\ Receive(r)
    /\ n \in DOMAIN challenges
    /\ req' = [req EXCEPT ![r].pc = "proving", ![r].nonce = n, ![r].org = challenges[n]]
    /\ challenges' = Taken(n)
    /\ UNCHANGED <<rows, sessions, issued, proofs>>

\* verifyMessage is awaited; a challenge past its time, or a signature that is
\* not the address's, ends here.
Prove(r) ==
    /\ At(r, "proving")
    /\ \/ /\ sessions' = sessions \union {req[r].org}
          /\ proofs' = Append(proofs, req[r].nonce)
          /\ Goto(r, "matching")
       \/ Done(r) /\ UNCHANGED <<sessions, proofs>>
    /\ UNCHANGED <<rows, challenges, issued, asked>>

\* The agents an address answers for: the id it goes by, and the one its row is
\* filed under.
Match(r) ==
    /\ At(r, "matching")
    /\ LET s == AddressOf[req[r].org]
           mine == {AgentOf[s]} \union (IF s \in active THEN {watched[s]} ELSE {}) IN
       req' = [req EXCEPT ![r].pc = "claiming", ![r].todo = mine]
    /\ UNCHANGED <<rows, sessions, wallets, asked>>

(***************************************************************************)
(* registerWatch, for POST /api/watched and for chaos planned or observed  *)
(* for a signer nobody signed in for.                                      *)
(***************************************************************************)
Owns(o, a) == owner[a] = o /\ o # NoOrg

MayAct(o, a) == owner[a] = NoOrg \/ Owns(o, a)

Watch(r) ==
    /\ At(r, "watching")
    /\ GotoIf(MayAct(req[r].org, req[r].agent), r, "reading rows")
    /\ UNCHANGED <<rows, sessions, wallets, asked>>

\* One more row than the ceiling is let in.
HasRoomForOneMore == Cardinality(active) <= MaxWatched

HasRoom == Cardinality(active) < MaxWatched

ReadRows(r) ==
    /\ At(r, "reading rows")
    /\ IF req[r].signer \in active
         THEN GotoIf(req[r].org # Anonymous, r, "claiming")
         ELSE GotoIf(HasRoom, r, "filing")
    /\ UNCHANGED <<rows, sessions, wallets, asked>>

\* watchSigner: the upsert files the row under the caller's agent.
FileRow(r) ==
    /\ At(r, "filing")
    /\ watched' = [watched EXCEPT ![req[r].signer] = req[r].agent]
    /\ active' = active \union {req[r].signer}
    /\ GotoIf(req[r].org # Anonymous, r, "claiming")
    /\ UNCHANGED <<owner, breaker, sessions, wallets, asked>>

(***************************************************************************)
(* claimAgentForOrg: read the owner, then insert if there was none.        *)
(***************************************************************************)
NextClaim(r, a) ==
    req' = [req EXCEPT ![r] = IF req[r].todo = {a} THEN NoReq
                              ELSE [req[r] EXCEPT !.pc = "claiming",
                                                  !.todo = req[r].todo \ {a}]]

ReadOwner(r) ==
    /\ At(r, "claiming")
    /\ \E a \in req[r].todo :
         IF owner[a] = NoOrg
           THEN req' = [req EXCEPT ![r].pc = "inserting", ![r].agent = a]
           ELSE NextClaim(r, a)
    /\ UNCHANGED <<rows, sessions, wallets, asked>>

\* The later insert replaces the row of the earlier one.
InsertedReplacing(a, o) == [owner EXCEPT ![a] = o]

\* onConflictDoNothing.
Inserted(a, o) == [owner EXCEPT ![a] = IF @ = NoOrg THEN o ELSE @]

InsertOwner(r) ==
    /\ At(r, "inserting")
    /\ owner' = Inserted(req[r].agent, req[r].org)
    /\ NextClaim(r, req[r].agent)
    /\ UNCHANGED <<watched, active, breaker, sessions, wallets, asked>>

(***************************************************************************)
(* The breaker Blackbox may pause for an agent.                            *)
(***************************************************************************)
\* The question is whether the caller may take the agent.
MayRemediateUnowned(o, a) == o # NoOrg /\ MayAct(o, a)

\* Unowned means nobody.
MayRemediate(o, a) == Owns(o, a)

Breaker(r) ==
    /\ At(r, "breaking")
    /\ GotoIf(MayRemediate(req[r].org, req[r].agent), r, "resolving")
    /\ UNCHANGED <<rows, sessions, wallets, asked>>

\* What the request's session is worth now, if anything: it may have been moved
\* to the real id, or ended.
SessionNow(r) ==
    IF req[r].org \in sessions THEN req[r].org
    ELSE IF Renamed(req[r].org) \in sessions THEN Renamed(req[r].org) ELSE NoOrg

\* The caller is resolved a second time, after the check.
Resolve(r) ==
    /\ At(r, "resolving")
    /\ req' = [req EXCEPT ![r].pc = "registering",
                          ![r].org = IF SessionNow(r) = NoOrg THEN Local ELSE SessionNow(r)]
    /\ UNCHANGED <<rows, sessions, wallets, asked>>

RegisterBreaker(r) ==
    /\ At(r, "registering")
    /\ breaker' = [breaker EXCEPT ![req[r].agent] = req[r].org]
    /\ Done(r)
    /\ UNCHANGED <<owner, watched, active, sessions, wallets, asked>>

RemoveBreaker(r) ==
    /\ At(r, "removing")
    /\ GotoIf(MayRemediate(req[r].org, req[r].agent), r, "deleting")
    /\ UNCHANGED <<rows, sessions, wallets, asked>>

DeleteBreaker(r) ==
    /\ At(r, "deleting")
    /\ breaker' = [breaker EXCEPT ![req[r].agent] = NoOrg]
    /\ Done(r)
    /\ UNCHANGED <<owner, watched, active, sessions, wallets, asked>>

(***************************************************************************)
(* DELETE /api/watched: whoever owns the agent the row named when it was   *)
(* read, or anyone signed in when nobody did; an address that was not      *)
(* watched is nobody's to protect.                                         *)
(***************************************************************************)
Unwatch(r) ==
    /\ At(r, "leaving")
    /\ LET a == watched[req[r].signer]
           allowed == Owns(req[r].org, a) \/ (owner[a] = NoOrg /\ req[r].org # Anonymous) IN
       GotoIf(req[r].signer \in active => allowed, r, "unwatching")
    /\ UNCHANGED <<rows, sessions, wallets, asked>>

Deactivate(r) ==
    /\ At(r, "unwatching")
    /\ active' = active \ {req[r].signer}
    /\ Done(r)
    /\ UNCHANGED <<owner, watched, breaker, sessions, wallets, asked>>

(***************************************************************************)
(* GET /api/incidents/:id/run-log, for an incident of the agent: seeing it *)
(* is not enough to read, through its owner's connection, the runs behind  *)
(* it.                                                                     *)
(***************************************************************************)
readableAgents(o) == Public \union {a \in Agents : Owns(o, a)}

OpenIncident(r) ==
    /\ At(r, "opening")
    /\ GotoIf(req[r].agent \in readableAgents(req[r].org), r, "opened")
    /\ UNCHANGED <<rows, sessions, wallets, asked>>

\* Whoever sees the incident reads its runs.
OpenRunLogAsSeen(r) ==
    /\ At(r, "opened")
    /\ Goto(r, "asking again")
    /\ UNCHANGED <<rows, sessions, wallets, asked>>

OpenRunLog(r) ==
    /\ At(r, "opened")
    /\ GotoIf(MayRemediate(SessionNow(r), req[r].agent), r, "asking again")
    /\ UNCHANGED <<rows, sessions, wallets, asked>>

\* Nobody without a session has a connection to read through.
AskAgain(r) ==
    /\ At(r, "asking again")
    /\ req' = [req EXCEPT ![r] =
                 IF SessionNow(r) = NoOrg THEN NoReq
                 ELSE [req[r] EXCEPT !.pc = "reading runs", !.org = SessionNow(r)]]
    /\ UNCHANGED <<rows, sessions, wallets, asked>>

\* accessTokenFor, and every run it can read with it.
ReadRuns(r) ==
    /\ At(r, "reading runs")
    /\ Done(r)
    /\ UNCHANGED <<rows, sessions, wallets, asked>>

Proceed(r) ==
    \/ OpenIncident(r) \/ OpenRunLog(r) \/ AskAgain(r) \/ ReadRuns(r)
    \/ RemapOwners(r) \/ RemapSessions(r) \/ Mint(r)
    \/ Prove(r) \/ Match(r)
    \/ Watch(r) \/ ReadRows(r) \/ FileRow(r) \/ ReadOwner(r) \/ InsertOwner(r)
    \/ Breaker(r) \/ Resolve(r) \/ RegisterBreaker(r) \/ RemoveBreaker(r) \/ DeleteBreaker(r)
    \/ Unwatch(r) \/ Deactivate(r)

Next ==
    \/ \E o \in Orgs : SignOut(o) \/ Issue(o)
    \/ \E r \in Requests :
         \/ Proceed(r)
         \/ \E n \in 1..issued : Present(r, n)
         \/ \E o \in Orgs : KeySignIn(r, o) \/ OAuthSignIn(r, o)
         \/ \E route \in Routes, o \in Orgs \union {Anonymous}, a \in Agents, s \in Signers :
              Ask(r, route, o, a, s)

Spec == Init /\ [][Next]_vars

(***************************************************************************)
(* Properties.                                                             *)
(***************************************************************************)
Waits == Routes \union
    {"idle", "remapping owners", "remapping sessions", "minting", "proving", "matching",
     "reading rows", "filing", "claiming", "inserting", "resolving", "registering",
     "deleting", "unwatching", "opened", "asking again", "reading runs"}

TypeOK ==
    /\ owner \in [Agents -> Orgs \union {NoOrg}]
    /\ watched \in [Signers -> Agents] /\ active \subseteq Signers
    /\ breaker \in [Agents -> Orgs \union {NoOrg, Local}]
    /\ sessions \subseteq Orgs
    /\ issued \in 0..MaxNonces /\ asked \in 0..MaxAsked
    /\ DOMAIN challenges \subseteq 1..issued /\ challenges \in [DOMAIN challenges -> Wallets]
    /\ Cardinality(DOMAIN challenges) <= MaxOutstanding
    /\ proofs \in Seq(1..issued)
    /\ req \in [Requests -> [pc : Waits, org : Orgs \union {NoOrg, Local}, agent : Agents,
                             signer : Signers, todo : SUBSET Agents, nonce : 0..issued]]

\* "First registration wins" (identity.ts), whatever claims overlap: an agent
\* never passes from one owner to another, except that the two ids of one operator
\* become one.  Ownership says so, and the registry implements it.
Promise == INSTANCE Ownership
ImplementsOwnership == Promise!Spec

\* MAX_WATCHED holds but for the handlers that were let in together: each read the
\* rows before another had filed its own.
RegistryIsBounded == Cardinality(active) <= MaxWatched + Cardinality(Requests) - 1

\* Nobody decides what Blackbox may pause for an agent without owning it
\* (mayRemediate: "unowned means nobody"): a breaker names the owner, the id that
\* owner had before, or nobody when the session ended between the two questions.
BreakerIsItsOwners ==
    \A a \in Agents :
        breaker[a] # NoOrg =>
            /\ owner[a] # NoOrg
            /\ breaker[a] # Local => Renamed(breaker[a]) = Renamed(owner[a])

\* The runs behind an incident are read with the connection of whoever owns its
\* agent, whatever became of the session since that was asked (app.ts: "being able
\* to see an incident is a lower bar").
RunsAreTheOwners ==
    \A r \in Requests :
        req[r].pc = "reading runs" =>
            owner[req[r].agent] # NoOrg /\ Renamed(req[r].org) = Renamed(owner[req[r].agent])

\* What only its owner may do to an agent, only its owner does: decide what Blackbox
\* may pause for it, and read its runs.
OnlyTheOwnerActs == BreakerIsItsOwners /\ RunsAreTheOwners

\* "A signature cannot be tried twice and a captured one cannot be replayed"
\* (wallet-auth.ts): no nonce is worth two sessions, presented twice or not.
ProofIsSpentOnce == \A i, j \in DOMAIN proofs : proofs[i] = proofs[j] => i = j

\* Well formed, bounded, and no proof of a wallet spent twice, whatever handlers
\* were let in together (registerWatch, WalletAuth).
RegistryHolds == TypeOK /\ RegistryIsBounded /\ ProofIsSpentOnce

\* app.ts on `owned`: "whether this agent is now theirs".  Two claims that both
\* read no owner are both answered yes once they have inserted.
ToldIsTrue ==
    [][\A r \in Requests :
         req[r].pc = "inserting" /\ req'[r] # req[r] =>
            Renamed(owner'[req[r].agent]) = Renamed(req[r].org)]_vars

\* "Its owner, always.  And any signed-in caller when the agent has no owner":
\* an address whose agent somebody owns is not switched off by anybody else.
UnwatchedByItsOwner ==
    [][\A r \in Requests :
         req[r].pc = "unwatching" /\ req'[r].pc = "idle" /\ req[r].signer \in active =>
            LET a == watched[req[r].signer] IN
            owner[a] = NoOrg \/ Renamed(owner[a]) = Renamed(req[r].org)]_vars

\* remapOrganisation: "Move everything an organisation owns".
EverythingMoves ==
    [][\A r \in Requests :
         req[r].pc = "remapping sessions" /\ req'[r].pc = "minting" =>
            \A a \in Agents : owner[a] # DerivedId /\ breaker[a] # DerivedId]_vars
=============================================================================
