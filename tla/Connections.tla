---------------------------- MODULE Connections ----------------------------
(***************************************************************************)
(* A connected KeeperHub account (packages/api connections.ts, oauth.ts    *)
(* and the routes of app.ts that use them, rows in packages/store): the    *)
(* consent that yields a grant, the rotating refresh token it leaves, the  *)
(* refresh every caller of one organisation shares, our own lifetime for   *)
(* the connection, and disconnecting.  One step per await; HTTP handlers   *)
(* and the sweep run between any two of them.                              *)
(*                                                                         *)
(* A refresh token is a grant and a generation: the provider rotates, and  *)
(* only the newest generation of a grant is alive there.                   *)
(***************************************************************************)
EXTENDS Naturals, FiniteSets

CONSTANTS
    Orgs,
    Callers,    \* concurrent callers of accessTokenFor: routes, the sweep
    Flows,      \* callbacks of the browser, the same link possibly twice
    Lifetime,   \* lifetimeDays in clock ticks, what lifetimeDays clamps to
    RequestTtl, \* REQUEST_TTL_MS
    AccessTtl,  \* what an access token's exp claim grants, less EXPIRY_SKEW_MS
    Faults,     \* writes of rows may fail, answers of the provider may be lost
    Restarts,   \* the process may be restarted at any moment
    MaxTime, MaxGrants, MaxGeneration, MaxStates  \* bounds

ASSUME BoundAssumption ==
    /\ Lifetime \in Nat /\ RequestTtl \in Nat /\ AccessTtl \in Nat
    /\ MaxTime \in Nat /\ MaxGrants \in Nat /\ MaxGeneration \in Nat \ {0}
    /\ MaxStates \in Nat
    /\ Faults \in BOOLEAN /\ Restarts \in BOOLEAN

VARIABLES
    now,
    alive,     \* provider: grant -> its living generation, 0 if none
    grants,    \* provider: grants issued
    lost,      \* history: grants whose rotation never reached a row
    requests,  \* oauth_auth_requests, state -> when it expires
    states,    \* sign-ins begun
    flow,      \* callback -> its handler's locals
    row,       \* keeperhub_connections
    cache,     \* Connections.cache
    inFlight,  \* Connections.inFlight: who refreshes for an organisation
    call,      \* caller -> the locals of its accessTokenFor and refresh
    leaving    \* organisations whose disconnect waits for its write

provider == <<alive, grants, lost>>
signin == <<requests, states, flow>>
memory == <<cache, inFlight, call, leaving>>
vars == <<now, provider, signin, row, memory>>

Grants == 1..MaxGrants
NoToken == <<0, 0>>
Token == (0..MaxGrants) \X (0..MaxGeneration)
GrantOf(t) == t[1]
Nobody == "nobody"
ASSUME PartiesAssumption == Orgs # {} /\ Nobody \notin Callers
NoOrg == CHOOSE o \in Orgs : TRUE

NoRow == [status |-> "none", token |-> NoToken, expiresAt |-> 0, failed |-> FALSE]
NoAccess == [token |-> NoToken, expiresAt |-> 0]
NoCall == [pc |-> "idle", org |-> NoOrg, sent |-> NoToken, got |-> NoToken]
NoFlow == [pc |-> "idle", org |-> NoOrg, connect |-> FALSE, grant |-> 0]

Init ==
    /\ now = 0
    /\ alive = [g \in Grants |-> 0] /\ grants = 0 /\ lost = {}
    /\ requests = [s \in {} |-> 0] /\ states = 0
    /\ flow = [f \in Flows |-> NoFlow]
    /\ row = [o \in Orgs |-> NoRow]
    /\ cache = [o \in Orgs |-> NoAccess]
    /\ inFlight = [o \in Orgs |-> Nobody]
    /\ call = [c \in Callers |-> NoCall]
    /\ leaving = {}

Tick ==
    /\ now < MaxTime
    /\ now' = now + 1
    /\ UNCHANGED <<provider, signin, row, memory>>

(***************************************************************************)
(* Signing in and connecting (oauth.start, oauth.complete, the callback).  *)
(***************************************************************************)
\* Whether to connect or only to sign in is part of the request remembered on
\* this server, and not of the link.
Start(connect) ==
    /\ states < MaxStates
    /\ states' = states + 1
    /\ requests' = [s \in DOMAIN requests \union {<<states + 1, connect>>} |->
                      IF s \in DOMAIN requests THEN requests[s] ELSE now + RequestTtl]
    /\ UNCHANGED <<now, provider, flow, row, memory>>

\* takeAuthRequest reads the row and leaves it to housekeeping.
TakenLeavingRow(s) == requests

\* takeAuthRequest deletes the row it returns; an expired one is gone too.
Taken(s) == [q \in DOMAIN requests \ {s} |-> requests[q]]

Callback(f, s, o) ==
    /\ flow[f].pc = "idle"
    /\ s \in DOMAIN requests
    /\ requests' = Taken(s)
    /\ flow' = IF requests[s] < now THEN flow
               ELSE [flow EXCEPT ![f] = [NoFlow EXCEPT !.pc = "exchanging", !.org = o,
                                                       !.connect = s[2]]]
    /\ UNCHANGED <<now, provider, states, row, memory>>

\* The code is worth one grant; a declined or failed exchange has used the
\* request up all the same.
Exchange(f) ==
    /\ flow[f].pc = "exchanging"
    /\ \/ /\ grants < MaxGrants
          /\ grants' = grants + 1
          /\ alive' = [alive EXCEPT ![grants + 1] = 1]
          /\ flow' = [flow EXCEPT ![f].pc = IF flow[f].connect THEN "connecting" ELSE "minting",
                                  ![f].grant = grants + 1]
       \/ /\ flow' = [flow EXCEPT ![f] = NoFlow]
          /\ UNCHANGED <<alive, grants>>
    /\ UNCHANGED <<now, lost, requests, states, row, memory>>

\* saveKeeperhubConnection: the upsert restarts both clocks.
Stored(t) == [status |-> "active", token |-> t, expiresAt |-> now + Lifetime, failed |-> FALSE]

\* The session is minted without waiting for the row.
ConnectEarly(f) ==
    /\ flow[f].pc = "connecting"
    /\ LET o == flow[f].org IN
       /\ \/ row' = [row EXCEPT ![o] = Stored(<<flow[f].grant, 1>>)]
          \/ Faults /\ UNCHANGED row
       /\ cache' = [cache EXCEPT ![o] = NoAccess]
    /\ flow' = [flow EXCEPT ![f].pc = "minting"]
    /\ UNCHANGED <<now, provider, requests, states, inFlight, call, leaving>>

\* A write that fails ends the callback without a session.
Connect(f) ==
    /\ flow[f].pc = "connecting"
    /\ \/ /\ row' = [row EXCEPT ![flow[f].org] = Stored(<<flow[f].grant, 1>>)]
          /\ cache' = [cache EXCEPT ![flow[f].org] = NoAccess]
          /\ flow' = [flow EXCEPT ![f].pc = "minting"]
       \/ /\ Faults
          /\ flow' = [flow EXCEPT ![f] = NoFlow]
          /\ UNCHANGED <<row, cache>>
    /\ UNCHANGED <<now, provider, requests, states, inFlight, call, leaving>>

\* signInWithOrg; what a session is worth is in Registry.
Mint(f) ==
    /\ flow[f].pc = "minting"
    /\ flow' = [flow EXCEPT ![f] = NoFlow]
    /\ UNCHANGED <<now, provider, requests, states, row, memory>>

(***************************************************************************)
(* accessTokenFor and refresh.                                             *)
(***************************************************************************)
Cached(o) == cache[o] # NoAccess /\ cache[o].expiresAt > now

Goto(c, pc) == call' = [call EXCEPT ![c].pc = pc]

\* Each caller refreshes for itself.
CallAlone(c, o) ==
    /\ call[c].pc = "idle"
    /\ ~Cached(o)
    /\ call' = [call EXCEPT ![c] = [NoCall EXCEPT !.pc = "reading", !.org = o]]
    /\ inFlight' = [inFlight EXCEPT ![o] = c]
    /\ UNCHANGED <<now, provider, signin, row, cache, leaving>>

\* A cached token is answered at once; a refresh in flight is shared.
Call(c, o) ==
    /\ call[c].pc = "idle"
    /\ ~Cached(o)
    /\ IF inFlight[o] # Nobody
         THEN /\ call' = [call EXCEPT ![c] = [NoCall EXCEPT !.pc = "waiting", !.org = o]]
              /\ UNCHANGED inFlight
         ELSE /\ call' = [call EXCEPT ![c] = [NoCall EXCEPT !.pc = "reading", !.org = o]]
              /\ inFlight' = [inFlight EXCEPT ![o] = c]
    /\ UNCHANGED <<now, provider, signin, row, cache, leaving>>

\* Only a refresh that worked is forgotten.
SettleAfterSuccess(c, ok) ==
    LET o == call[c].org
        done == {d \in Callers : d = c \/ (call[d].pc = "waiting" /\ call[d].org = o)} IN
    /\ call' = [d \in Callers |-> IF d \in done THEN NoCall ELSE call[d]]
    /\ inFlight' = IF ok THEN [inFlight EXCEPT ![o] = Nobody] ELSE inFlight

\* The promise settles, for everyone who shares it, and is forgotten (finally).
Settle(c, ok) ==
    LET o == call[c].org
        done == {d \in Callers : d = c \/ (call[d].pc = "waiting" /\ call[d].org = o)} IN
    /\ call' = [d \in Callers |-> IF d \in done THEN NoCall ELSE call[d]]
    /\ inFlight' = [inFlight EXCEPT ![o] = Nobody]

\* Not connected, or already known to be dead: answered without asking anyone.
ReadRefuses(c) ==
    /\ call[c].pc = "reading"
    /\ row[call[c].org].status # "active"
    /\ Settle(c, FALSE)
    /\ UNCHANGED <<now, provider, signin, row, cache, leaving>>

LifetimeReached(o) == row[o].expiresAt <= now

\* A lifetime that is over ends it.
ReadEnds(c) ==
    /\ call[c].pc = "reading"
    /\ row[call[c].org].status = "active"
    /\ LifetimeReached(call[c].org)
    /\ cache' = [cache EXCEPT ![call[c].org] = NoAccess]
    /\ call' = [call EXCEPT ![c].pc = "killing", ![c].sent = row[call[c].org].token]
    /\ UNCHANGED <<now, provider, signin, row, inFlight, leaving>>

\* The stored token goes out; it is the one this caller read.
ReadSends(c) ==
    /\ call[c].pc = "reading"
    /\ row[call[c].org].status = "active"
    /\ ~LifetimeReached(call[c].org)
    /\ call' = [call EXCEPT ![c].pc = "exchanging", ![c].sent = row[call[c].org].token]
    /\ UNCHANGED <<now, provider, signin, row, cache, inFlight, leaving>>

IsAlive(t) == t # NoToken /\ alive[GrantOf(t)] = t[2]

\* The provider rotates: the token sent is dead from here on.
Rotate(c) ==
    /\ call[c].pc = "exchanging"
    /\ IsAlive(call[c].sent)
    /\ call[c].sent[2] < MaxGeneration
    /\ LET g == GrantOf(call[c].sent)
           next == <<g, call[c].sent[2] + 1>> IN
       /\ alive' = [alive EXCEPT ![g] = next[2]]
       /\ \/ /\ call' = [call EXCEPT ![c].pc = "saving", ![c].got = next]
             /\ UNCHANGED <<lost, inFlight>>
          \/ /\ Faults                        \* the answer never arrives
             /\ lost' = lost \union {g}
             /\ Settle(c, FALSE)
    /\ UNCHANGED <<now, grants, signin, row, cache, leaving>>

\* A provider that answers without a new refresh token leaves the one sent alive.
Renew(c) ==
    /\ call[c].pc = "exchanging"
    /\ IsAlive(call[c].sent)
    /\ call' = [call EXCEPT ![c].pc = "saving", ![c].got = call[c].sent]
    /\ UNCHANGED <<now, provider, signin, row, cache, inFlight, leaving>>

\* invalid_grant; the cached access token goes before the row is written.
Refuse(c) ==
    /\ call[c].pc = "exchanging"
    /\ ~IsAlive(call[c].sent)
    /\ cache' = [cache EXCEPT ![call[c].org] = NoAccess]
    /\ Goto(c, "killing")
    /\ UNCHANGED <<now, provider, signin, row, inFlight, leaving>>

\* The provider answers with any other error, or cannot be reached.
Unavailable(c) ==
    /\ call[c].pc = "exchanging"
    /\ \/ Goto(c, "counting") /\ UNCHANGED inFlight
       \/ Settle(c, FALSE)
    /\ UNCHANGED <<now, provider, signin, row, cache, leaving>>

\* recordConnectionFailure.
CountFailure(c) ==
    /\ call[c].pc = "counting"
    /\ row' = [row EXCEPT ![call[c].org].failed = @ \/ row[call[c].org].status # "none"]
    /\ Settle(c, FALSE)
    /\ UNCHANGED <<now, provider, signin, cache, leaving>>

AccessOf(c) == [token |-> call[c].got, expiresAt |-> now + AccessTtl]

\* The access token is cached as soon as it is there, the row comes after.
SaveLate(c) ==
    /\ call[c].pc = "saving"
    /\ LET o == call[c].org IN
       IF cache[o] # AccessOf(c)
         THEN /\ cache' = [cache EXCEPT ![o] = AccessOf(c)]
              /\ UNCHANGED <<lost, row, inFlight, call>>
         ELSE /\ row' = [row EXCEPT ![o].token = call[c].got]
              /\ Settle(c, TRUE)
              /\ UNCHANGED <<lost, cache>>
    /\ UNCHANGED <<now, alive, grants, signin, leaving>>

\* The token that was sent is written back in place of the one that came.
SaveSent(c) ==
    /\ call[c].pc = "saving"
    /\ row' = [row EXCEPT ![call[c].org].token = call[c].sent]
    /\ cache' = [cache EXCEPT ![call[c].org] = AccessOf(c)]
    /\ Settle(c, TRUE)
    /\ UNCHANGED <<now, provider, signin, leaving>>

\* recordConnectionRefresh writes whatever row the organisation has by now, and
\* only then is the access token used.
Save(c) ==
    /\ call[c].pc = "saving"
    /\ LET o == call[c].org IN
       \/ /\ row' = [row EXCEPT ![o] =
                       IF @.status = "none" THEN @
                       ELSE [@ EXCEPT !.token = call[c].got, !.failed = FALSE]]
          /\ cache' = [cache EXCEPT ![o] = AccessOf(c)]
          /\ Settle(c, TRUE)
          /\ UNCHANGED lost
       \/ /\ Faults
          /\ lost' = lost \union {GrantOf(call[c].got)}
          /\ Settle(c, FALSE)
          /\ UNCHANGED <<row, cache>>
    /\ UNCHANGED <<now, alive, grants, signin, leaving>>

\* markConnectionNeedsReauth, whatever the row says by then.
Kill(c) ==
    /\ call[c].pc = "killing"
    /\ \/ row' = [row EXCEPT ![call[c].org].status = IF @ = "none" THEN @ ELSE "needs_reauth"]
       \/ Faults /\ UNCHANGED row
    /\ Settle(c, FALSE)
    /\ UNCHANGED <<now, provider, signin, cache, leaving>>

Proceed(c) ==
    \/ ReadRefuses(c) \/ ReadEnds(c) \/ ReadSends(c)
    \/ Rotate(c) \/ Renew(c) \/ Refuse(c) \/ Unavailable(c)
    \/ CountFailure(c) \/ Save(c) \/ Kill(c)

(***************************************************************************)
(* Ending a connection.                                                    *)
(***************************************************************************)
\* What has been disconnected or refused is looked for, not what is active.
DueMisread == {o \in Orgs : row[o].status = "needs_reauth" /\ row[o].expiresAt < now}

\* expireDueConnections, in one statement, at every pass of the sweep.
Due == {o \in Orgs : row[o].status = "active" /\ row[o].expiresAt < now}

ExpireDue ==
    /\ Due # {}
    /\ row' = [o \in Orgs |-> IF o \in Due THEN [row[o] EXCEPT !.status = "needs_reauth"]
                              ELSE row[o]]
    /\ cache' = [o \in Orgs |-> IF o \in Due THEN NoAccess ELSE cache[o]]
    /\ UNCHANGED <<now, provider, signin, inFlight, call, leaving>>

\* disconnect forgets the cached access token, and then waits for the row.
BeginDisconnect(o) ==
    /\ row[o].status \in {"active", "needs_reauth"}
    /\ o \notin leaving
    /\ cache' = [cache EXCEPT ![o] = NoAccess]
    /\ leaving' = leaving \union {o}
    /\ UNCHANGED <<now, provider, signin, row, inFlight, call>>

EndDisconnect(o) ==
    /\ o \in leaving
    /\ leaving' = leaving \ {o}
    /\ row' = [row EXCEPT ![o].token = NoToken, ![o].status = "disconnected"]
    /\ UNCHANGED <<now, provider, signin, cache, inFlight, call>>

\* Two fates of a grant that are not ours: revoked there, or idle too long.
Revoke(g) ==
    /\ alive[g] # 0
    /\ alive' = [alive EXCEPT ![g] = 0]
    /\ UNCHANGED <<now, grants, lost, signin, row, memory>>

\* Access tokens live in memory and never on disk; what a refresh in progress
\* was about to save is gone.
Restart ==
    /\ Restarts
    /\ lost' = lost \union {GrantOf(call[c].got) : c \in {d \in Callers : call[d].pc = "saving"}}
    /\ flow' = [f \in Flows |-> NoFlow]
    /\ cache' = [o \in Orgs |-> NoAccess]
    /\ inFlight' = [o \in Orgs |-> Nobody]
    /\ call' = [c \in Callers |-> NoCall]
    /\ leaving' = {}
    /\ UNCHANGED <<now, alive, grants, requests, states, row>>

Next ==
    \/ Tick
    \/ \E connect \in BOOLEAN : Start(connect)
    \/ \E f \in Flows : \/ \E s \in DOMAIN requests, o \in Orgs : Callback(f, s, o)
                        \/ Exchange(f) \/ Connect(f) \/ Mint(f)
    \/ \E c \in Callers : Proceed(c) \/ \E o \in Orgs : Call(c, o)
    \/ ExpireDue
    \/ \E o \in Orgs : BeginDisconnect(o) \/ EndDisconnect(o)
    \/ \E g \in Grants : Revoke(g)
    \/ Restart

Spec == Init /\ [][Next]_vars

\* Awaited calls settle, and the sweep, which expires what is due, keeps ticking.
FairSpec ==
    /\ Spec
    /\ \A c \in Callers : WF_vars(Proceed(c))
    /\ WF_vars(ExpireDue)

(***************************************************************************)
(* Properties.                                                             *)
(***************************************************************************)
Refreshing == {"reading", "exchanging", "saving", "counting", "killing"}

TypeOK ==
    /\ now \in Nat
    /\ alive \in [Grants -> 0..MaxGeneration] /\ grants \in 0..MaxGrants /\ lost \subseteq Grants
    /\ DOMAIN requests \subseteq (1..states) \X BOOLEAN /\ states \in 0..MaxStates
    /\ flow \in [Flows -> [pc : {"idle", "exchanging", "connecting", "minting"}, org : Orgs,
                           connect : BOOLEAN, grant : 0..MaxGrants]]
    /\ row \in [Orgs -> [status : {"none", "active", "needs_reauth", "disconnected"},
                         token : Token, expiresAt : Nat, failed : BOOLEAN]]
    /\ cache \in [Orgs -> [token : Token, expiresAt : Nat]]
    /\ inFlight \in [Orgs -> Callers \union {Nobody}]
    /\ call \in [Callers -> [pc : {"idle", "waiting"} \union Refreshing, org : Orgs,
                             sent : Token, got : Token]]
    /\ leaving \subseteq Orgs
    /\ \A c \in Callers : call[c].pc \in Refreshing <=> inFlight[call[c].org] = c /\ call[c].pc # "idle"

\* The rotation rule the order of operations in connections.ts is for ("a crash
\* in between leaves a connection whose only credential is one KeeperHub has
\* already deleted"): whatever overlaps with a refresh, an active connection
\* nobody is refreshing holds the living token of its grant, unless the answer or
\* its write was lost or the provider ended the grant.
CredentialSurvives ==
    \A o \in Orgs :
        LET t == row[o].token IN
        row[o].status = "active" /\ inFlight[o] = Nobody =>
            IsAlive(t) \/ alive[GrantOf(t)] = 0 \/ GrantOf(t) \in lost

\* "Write the new token, then use the access token it came with": an access
\* token in use never comes from a generation the row has not got.
UsedIsPersisted ==
    \A o \in Orgs :
        GrantOf(cache[o].token) = GrantOf(row[o].token) => cache[o].token[2] <= row[o].token[2]

\* An active connection is declared dead only for a reason: its lifetime is over,
\* its credential no longer works, or it was made anew while the refresh that
\* condemns it was under way.  Callers that overlap never condemn it by each
\* spending the rotating token (accessTokenFor).
DiesForCause ==
    [][\A o \in Orgs :
         row[o].status = "active" /\ row'[o].status = "needs_reauth" =>
            \/ row[o].expiresAt <= now
            \/ ~IsAlive(row[o].token)
            \/ \E c \in Callers : /\ call[c].pc = "killing" /\ call[c].org = o
                                  /\ GrantOf(row[o].token) # GrantOf(call[c].sent)]_vars

\* A session that was to come with a connection exists only once that connection
\* has been stored (the callback: "Store the credential before the session exists").
SessionNeedsStore ==
    \A f \in Flows :
        flow[f].pc = "minting" /\ flow[f].connect => row[flow[f].org].status # "none"

\* One consent is worth one grant: a callback that comes twice finds nothing
\* (takeAuthRequest: "single-use by construction").
ConsentIsSpentOnce == grants + Cardinality(DOMAIN requests) <= states

\* Well formed, and nothing is used before it is stored or spent twice: neither an
\* access token, nor a session, nor a consent (connections.ts, the callback).
CredentialsAreStored ==
    TypeOK /\ UsedIsPersisted /\ SessionNeedsStore /\ ConsentIsSpentOnce

\* Whoever asked for a token is answered, whatever the refresh they share does.
CallersReturn == \A c \in Callers : call[c].pc = "waiting" ~> call[c].pc # "waiting"

\* "Our own clock" (connections.ts): a connection past its lifetime is ended, used
\* or not, unless it is authorised again.
LifetimeEndsIt ==
    \A o \in Orgs :
        (row[o].status = "active" /\ row[o].expiresAt < now) ~>
            (row[o].status # "active" \/ row[o].expiresAt >= now)

\* What disconnect says of itself ("Forget the credential", "forget the credential
\* and stop"): a disconnected row holds no credential.
ForgottenStaysForgotten ==
    \A o \in Orgs : row[o].status = "disconnected" => row[o].token = NoToken

\* saveKeeperhubConnection ("Reconnecting overwrites the credential"): what a
\* refresh of an earlier grant brings back never replaces a later one.
LatestGrantIsKept ==
    [][\A o \in Orgs : GrantOf(row'[o].token) >= GrantOf(row[o].token)
                       \/ row'[o].token = NoToken]_vars
=============================================================================
