--------------------------- MODULE Console_proofs ----------------------------
(***************************************************************************)
(* What a signed-in owner relies on.  Of the connections to KeeperHub: a   *)
(* refresh token that rotates is never spent twice, and a connection is    *)
(* declared dead only when it is.  Of the console: what is listed, signed, *)
(* picked and explained is what is stored, mined, watched and told.        *)
(***************************************************************************)
EXTENDS Connections, Diagnosis, FiniteSetTheorems, SequenceTheorems, TLAPS

Active(o) == row[o].status = "active"

Shape ==
    /\ now \in Nat /\ grants \in 0..MaxGrants
    /\ alive \in [Grants -> Nat] /\ lost \subseteq Grants
    /\ flow \in [Flows -> [pc : {"idle", "exchanging", "connecting", "minting"}, org : Orgs,
                           connect : BOOLEAN, grant : Nat]]
    /\ row \in [Orgs -> [status : {"none", "active", "needs_reauth", "disconnected"},
                         token : Nat \X Nat, expiresAt : Nat, failed : BOOLEAN]]
    /\ inFlight \in [Orgs -> Callers \union {Nobody}]
    /\ call \in [Callers -> [pc : {"idle", "waiting"} \union Refreshing, org : Orgs,
                             sent : Nat \X Nat, got : Nat \X Nat]]

\* A token of a grant that was issued.
Issued(t) == t[1] \in 1..grants /\ t[2] >= 1

\* What a caller may rely on at each step of a refresh: it is the only one for its
\* organisation, what it sent is what the row still says unless the row is of another
\* grant, what it got lives, and what it condemns deserves it.
CallInv(c) ==
    LET o == call[c].org IN
    /\ call[c].pc \in Refreshing => inFlight[o] = c
    /\ call[c].pc \in {"idle", "waiting", "reading"} => call[c].sent = NoToken
    /\ call[c].pc \notin {"idle", "waiting", "reading"} => Issued(call[c].sent)
    /\ call[c].pc \in {"exchanging", "killing"} =>
          (Active(o) /\ GrantOf(row[o].token) = GrantOf(call[c].sent) => row[o].token = call[c].sent)
    /\ call[c].pc = "saving" =>
          /\ Issued(call[c].got) /\ GrantOf(call[c].got) = GrantOf(call[c].sent)
          /\ alive[GrantOf(call[c].got)] \in {0, call[c].got[2]}
    /\ call[c].pc = "killing" =>
          (Active(o) => \/ row[o].expiresAt <= now
                        \/ ~IsAlive(row[o].token)
                        \/ GrantOf(row[o].token) # GrantOf(call[c].sent))

\* The row holds the living token of its grant, or whoever refreshes is about to
\* write it, or it is lost or ended.
RowInv(o) ==
    /\ row[o].token = NoToken \/ Issued(row[o].token)
    /\ inFlight[o] # Nobody => /\ call[inFlight[o]].org = o
                               /\ call[inFlight[o]].pc \in Refreshing
    /\ Active(o) =>
          LET t == row[o].token IN
          /\ Issued(t)
          /\ \/ alive[GrantOf(t)] = 0 \/ GrantOf(t) \in lost \/ alive[GrantOf(t)] = t[2]
             \/ /\ inFlight[o] # Nobody /\ call[inFlight[o]].pc = "saving"
                /\ GrantOf(call[inFlight[o]].got) = GrantOf(t)

\* The grants an organisation's row and refreshes are about.
Held(o, g) ==
    \/ GrantOf(row[o].token) = g
    \/ \E c \in Callers : call[c].org = o /\ GrantOf(call[c].sent) = g

\* A grant is of one organisation, and of none before it is connected.
FlowInv(f) ==
    flow[f].pc = "connecting" =>
        /\ flow[f].grant \in 1..grants
        /\ alive[flow[f].grant] \in {0, 1}
        /\ \A o \in Orgs : ~Held(o, flow[f].grant)

GrantsInv ==
    /\ \A o, p \in Orgs, g \in 1..grants : Held(o, g) /\ Held(p, g) => o = p
    /\ \A e, f \in Flows :
          flow[e].pc = "connecting" /\ flow[f].pc = "connecting" /\ flow[e].grant = flow[f].grant
              => e = f

CInv ==
    /\ Shape
    /\ \A c \in Callers : CallInv(c)
    /\ \A o \in Orgs : RowInv(o)
    /\ \A f \in Flows : FlowInv(f)
    /\ GrantsInv

LEMMA Constants ==
    /\ MaxGrants \in Nat /\ MaxGeneration \in Nat /\ Lifetime \in Nat
    /\ Orgs # {} /\ Nobody \notin Callers /\ NoOrg \in Orgs
BY BoundAssumption, PartiesAssumption DEF NoOrg

LEMMA NoCallIsACall ==
    /\ NoCall.pc = "idle" /\ NoCall.sent = NoToken /\ NoCall.org \in Orgs
    /\ NoCall \in [pc : {"idle", "waiting"} \union Refreshing, org : Orgs,
                   sent : Nat \X Nat, got : Nat \X Nat]
BY Constants DEF NoCall, NoToken

LEMMA IssuedAreGrants ==
    ASSUME CInv
    PROVE  \A g \in 1..grants : g \in Grants /\ g # 0
BY Constants DEF CInv, Shape, Grants

LEMMA InitCInv == Init => CInv
<1>1. Init => Shape
  BY Constants, NoCallIsACall DEF Init, Shape, NoRow, NoToken, NoFlow
<1>2. ASSUME Init, NEW c \in Callers
      PROVE  CallInv(c)
  BY <1>2, NoCallIsACall DEF Init, CallInv, Refreshing
<1>3. ASSUME Init, NEW o \in Orgs
      PROVE  RowInv(o)
  BY <1>3 DEF Init, RowInv, Active, NoRow
<1>4. Init => (\A f \in Flows : FlowInv(f)) /\ GrantsInv
  BY DEF Init, FlowInv, GrantsInv, NoFlow
<1> QED
  BY <1>1, <1>2, <1>3, <1>4 DEF CInv

-----------------------------------------------------------------------------
(* What a step of one caller leaves alone *)

\* The other callers, but for those that shared the refresh and are answered, the other
\* organisations, and the grants of nobody the caller acts for.
Apart(c, o) ==
    /\ \A d \in Callers \ {c} :
          call'[d] = call[d] \/ (call[d].pc = "waiting" /\ call'[d] = NoCall)
    /\ \A p \in Orgs \ {o} : row'[p] = row[p] /\ inFlight'[p] = inFlight[p]
    /\ \A g \in Grants : g # GrantOf(call[c].sent) => alive'[g] = alive[g]
    /\ lost \subseteq lost'
    /\ UNCHANGED <<now, grants, flow>>

\* Nothing is held that the organisation did not hold.
HoldsNoMore(c, o) ==
    /\ GrantOf(row'[o].token) \in {0, GrantOf(row[o].token), GrantOf(call[c].sent)}
    /\ \/ GrantOf(call'[c].sent) = 0
       \/ /\ call'[c].org = o
          /\ GrantOf(call'[c].sent) \in {GrantOf(row[o].token), GrantOf(call[c].sent)}

LEMMA HeldNoMore ==
    ASSUME CInv, NEW c \in Callers, NEW o \in Orgs, Apart(c, o), HoldsNoMore(c, o),
           call[c].pc \in Refreshing => call[c].org = o
    PROVE  \A p \in Orgs, g \in 1..grants : Held(p, g)' => Held(p, g)
<1>0. call[c].org = o \/ call[c].sent = NoToken
  <2>1. call[c].pc \in {"idle", "waiting"} \union Refreshing
    BY DEF CInv, Shape
  <2> QED
    BY <2>1 DEF CInv, CallInv
<1>1. ASSUME NEW p \in Orgs, NEW g \in 1..grants, GrantOf(row'[p].token) = g
      PROVE  Held(p, g)
  <2>1. CASE p # o
    BY <1>1, <2>1 DEF Apart, Held
  <2>2. CASE p = o /\ GrantOf(row[o].token) = g
    BY <2>2 DEF Held
  <2>3. CASE p = o /\ GrantOf(call[c].sent) = g
    BY <1>0, <2>3, IssuedAreGrants DEF Held, NoToken, GrantOf
  <2> QED
    BY <1>1, <2>1, <2>2, <2>3, IssuedAreGrants DEF HoldsNoMore
<1>2. ASSUME NEW p \in Orgs, NEW g \in 1..grants, NEW d \in Callers,
             call'[d].org = p, GrantOf(call'[d].sent) = g
      PROVE  Held(p, g)
  <2>1. CASE d = c
    BY <1>0, <1>2, <2>1, Constants DEF HoldsNoMore, Held, CInv, Shape, NoToken, GrantOf
  <2>2. CASE d # c
    <3>1. call'[d] = call[d]
      BY <1>2, <2>2, NoCallIsACall, Constants DEF Apart, CInv, Shape, NoToken, GrantOf
    <3> QED
      BY <1>2, <3>1 DEF Held
  <2> QED
    BY <2>1, <2>2
<1> QED
  BY <1>1, <1>2 DEF Held

LEMMA OneCallerMoves ==
    ASSUME CInv, Shape', NEW c \in Callers, NEW o \in Orgs, Apart(c, o), HoldsNoMore(c, o),
           call[c].pc \in Refreshing => call[c].org = o,
           inFlight[o] \in {c, Nobody},
           CallInv(c)', RowInv(o)'
    PROVE  CInv'
<1> USE Constants
<1>0. call[c].org = o \/ call[c].sent = NoToken
  <2>1. call[c].pc \in {"idle", "waiting"} \union Refreshing
    BY DEF CInv, Shape
  <2> QED
    BY <2>1 DEF CInv, CallInv
<1>1. \A p \in Orgs, g \in 1..grants : Held(p, g)' => Held(p, g)
  BY HeldNoMore
<1>2. ASSUME NEW d \in Callers, d # c
      PROVE  CallInv(d)'
  <2>1. CASE call'[d] = NoCall
    BY <2>1, NoCallIsACall DEF CallInv, Refreshing
  <2>2. CASE call'[d] = call[d]
    <3>1. CASE call[d].pc \in {"idle", "waiting"}
      BY <2>2, <3>1 DEF CInv, CallInv, Refreshing
    <3>2. CASE call[d].pc \in Refreshing
      <4>1. /\ call[d].org \in Orgs /\ inFlight[call[d].org] = d /\ call[d].org # o
            /\ row'[call[d].org] = row[call[d].org] /\ inFlight'[call[d].org] = d
        BY <1>2, <3>2 DEF CInv, CallInv, Shape, Apart
      <4>2. CASE call[d].pc = "reading"
        BY <2>2, <4>1, <4>2 DEF CInv, CallInv, Refreshing
      <4>3. CASE call[d].pc # "reading"
        <5>1. Issued(call[d].sent) /\ GrantOf(call[d].sent) \in 1..grants
          BY <3>2, <4>3 DEF CInv, CallInv, Refreshing, Issued, GrantOf
        <5>2. GrantOf(call[d].sent) # GrantOf(call[c].sent)
          <6>1. Held(call[d].org, GrantOf(call[d].sent))
            BY DEF Held
          <6>2. call[c].sent # NoToken => Held(o, GrantOf(call[c].sent))
            BY <1>0 DEF Held
          <6>3. GrantOf(NoToken) = 0
            BY DEF NoToken, GrantOf
          <6> QED
            BY <4>1, <5>1, <6>1, <6>2, <6>3 DEF CInv, GrantsInv, Shape
        <5>3. alive'[GrantOf(call[d].sent)] = alive[GrantOf(call[d].sent)]
          BY <5>1, <5>2, IssuedAreGrants DEF Apart
        <5>4. call[d].pc = "killing" /\ GrantOf(row[call[d].org].token) = GrantOf(call[d].sent) =>
                 (IsAlive(row[call[d].org].token)' <=> IsAlive(row[call[d].org].token))
          BY <2>2, <4>1, <5>3 DEF IsAlive, GrantOf
        <5> QED
          BY <2>2, <3>2, <4>1, <4>3, <5>3, <5>4 DEF CInv, CallInv, Refreshing, Issued, Apart, Active
      <4> QED
        BY <4>2, <4>3
    <3> QED
      BY <3>1, <3>2 DEF CInv, Shape
  <2> QED
    BY <1>2, <2>1, <2>2 DEF Apart
<1>3. ASSUME NEW p \in Orgs, p # o
      PROVE  RowInv(p)'
  <2>1. row'[p] = row[p] /\ inFlight'[p] = inFlight[p] /\ RowInv(p)
    BY <1>3 DEF Apart, CInv
  <2>2. inFlight[p] # Nobody =>
          /\ inFlight[p] \in Callers /\ inFlight[p] # c
          /\ call'[inFlight[p]] = call[inFlight[p]]
    <3>1. SUFFICES ASSUME inFlight[p] # Nobody
                   PROVE  /\ inFlight[p] \in Callers /\ inFlight[p] # c
                          /\ call'[inFlight[p]] = call[inFlight[p]]
      OBVIOUS
    <3>2. inFlight[p] \in Callers /\ call[inFlight[p]].org = p
          /\ call[inFlight[p]].pc \in Refreshing
      BY <2>1, <3>1 DEF RowInv, CInv, Shape
    <3>3. inFlight[p] # c
      BY <1>3, <3>2 DEF CInv, CallInv
    <3> QED
      BY <3>2, <3>3 DEF Apart, Refreshing
  <2>3. Active(p) /\ GrantOf(row[p].token) # GrantOf(call[c].sent) =>
          alive'[GrantOf(row[p].token)] = alive[GrantOf(row[p].token)]
    <3>1. SUFFICES ASSUME Active(p), GrantOf(row[p].token) # GrantOf(call[c].sent)
                   PROVE  alive'[GrantOf(row[p].token)] = alive[GrantOf(row[p].token)]
      OBVIOUS
    <3>2. GrantOf(row[p].token) \in 1..grants
      BY <2>1, <3>1 DEF RowInv, Issued, GrantOf
    <3> QED
      BY <3>1, <3>2, IssuedAreGrants DEF Apart
  <2>4. Active(p) => GrantOf(row[p].token) # GrantOf(call[c].sent)
    <3>1. SUFFICES ASSUME Active(p)
                   PROVE  GrantOf(row[p].token) # GrantOf(call[c].sent)
      OBVIOUS
    <3>2. GrantOf(row[p].token) \in 1..grants /\ Held(p, GrantOf(row[p].token))
      BY <2>1, <3>1 DEF RowInv, Issued, GrantOf, Held
    <3>3. call[c].sent = NoToken \/ Held(o, GrantOf(call[c].sent))
      BY <1>0 DEF Held
    <3> QED
      BY <1>3, <3>2, <3>3 DEF CInv, GrantsInv, NoToken, GrantOf
  <2> QED
    BY <2>1, <2>2, <2>3, <2>4 DEF RowInv, Active, Apart, Issued
<1>4. ASSUME NEW f \in Flows
      PROVE  FlowInv(f)'
  <2>1. FlowInv(f) /\ flow'[f] = flow[f] /\ grants' = grants
    BY DEF CInv, Apart
  <2>2. flow[f].pc = "connecting" => alive'[flow[f].grant] = alive[flow[f].grant]
    <3>1. SUFFICES ASSUME flow[f].pc = "connecting"
                   PROVE  alive'[flow[f].grant] = alive[flow[f].grant]
      OBVIOUS
    <3>2. flow[f].grant \in 1..grants /\ ~Held(o, flow[f].grant)
      BY <2>1, <3>1 DEF FlowInv
    <3>3. call[c].sent = NoToken \/ Held(o, GrantOf(call[c].sent))
      BY <1>0 DEF Held
    <3> QED
      <4>1. flow[f].grant # GrantOf(call[c].sent)
        BY <3>2, <3>3, IssuedAreGrants DEF NoToken, GrantOf
      <4> QED
        BY <3>2, <4>1, IssuedAreGrants DEF Apart
  <2> QED
    BY <1>1, <2>1, <2>2 DEF FlowInv
<1>5. GrantsInv'
  BY <1>1 DEF CInv, GrantsInv, Apart
<1> QED
  BY <1>2, <1>3, <1>4, <1>5 DEF CInv

RowType == [status : {"none", "active", "needs_reauth", "disconnected"},
            token : Nat \X Nat, expiresAt : Nat, failed : BOOLEAN]

\* The row is written only for the organisation the caller refreshes for.
WritesRowOf(o) ==
    /\ row' \in [Orgs -> RowType]
    /\ \A p \in Orgs \ {o} : row'[p] = row[p]

\* What a refresh leaves when nobody is refreshing any more.
Settled(o) ==
    /\ row[o].token = NoToken \/ Issued(row[o].token)
    /\ Active(o) => LET t == row[o].token IN
                    /\ Issued(t)
                    /\ alive[GrantOf(t)] = 0 \/ GrantOf(t) \in lost \/ alive[GrantOf(t)] = t[2]

LEMMA SettleMoves ==
    ASSUME CInv, NEW c \in Callers, NEW o \in Orgs, o = call[c].org, call[c].pc \in Refreshing,
           NEW ok \in BOOLEAN, Settle(c, ok), WritesRowOf(o),
           alive' \in [Grants -> Nat], lost' \subseteq Grants, lost \subseteq lost',
           \A g \in Grants : g # GrantOf(call[c].sent) => alive'[g] = alive[g],
           UNCHANGED <<now, grants, flow>>,
           GrantOf(row'[o].token) \in {0, GrantOf(row[o].token), GrantOf(call[c].sent)},
           Settled(o)'
    PROVE  CInv'
<1>1. /\ call'[c] = NoCall /\ inFlight' = [inFlight EXCEPT ![o] = Nobody]
      /\ \A d \in Callers : call'[d] = call[d] \/ call'[d] = NoCall
      /\ \A d \in Callers \ {c} : call'[d] = call[d] \/ (call[d].pc = "waiting" /\ call'[d] = NoCall)
      /\ call' = [d \in Callers |-> call'[d]]
  BY DEF Settle
<1>2. Shape'
  BY <1>1, NoCallIsACall DEF CInv, Shape, WritesRowOf, RowType
<1>3. Apart(c, o)
  BY <1>1 DEF Apart, WritesRowOf, CInv, Shape
<1>4. HoldsNoMore(c, o)
  BY <1>1, NoCallIsACall DEF HoldsNoMore, NoToken, GrantOf
<1>5. CallInv(c)'
  BY <1>1, NoCallIsACall DEF CallInv, Refreshing
<1>6. inFlight'[o] = Nobody
  BY <1>1 DEF CInv, Shape
<1>7. RowInv(o)'
  BY <1>6 DEF RowInv, Settled, Active
<1>8. inFlight[o] \in {c, Nobody}
  BY DEF CInv, CallInv
<1> QED
  BY <1>2, <1>3, <1>4, <1>5, <1>7, <1>8, OneCallerMoves

\* A row nobody but the caller could be about to write, and it is not.
LEMMA NotSavingIsSettled ==
    ASSUME CInv, NEW c \in Callers, NEW o \in Orgs, o = call[c].org, call[c].pc \in Refreshing,
           call[c].pc # "saving"
    PROVE  Settled(o)
<1>1. inFlight[o] = c /\ RowInv(o)
  BY DEF CInv, CallInv
<1> QED
  BY <1>1 DEF RowInv, Settled, Active

\* A refresh that goes on without a write.
LEMMA GoesMoves ==
    ASSUME CInv, NEW c \in Callers, NEW o \in Orgs, o = call[c].org, call[c].pc \in Refreshing,
           call[c].pc # "saving", UNCHANGED <<now, grants, flow, alive, lost, row, inFlight>>,
           NEW l, call' = [call EXCEPT ![c] = l],
           l \in [pc : Refreshing, org : Orgs, sent : Nat \X Nat, got : Nat \X Nat],
           l.org = o, GrantOf(l.sent) \in {GrantOf(row[o].token), GrantOf(call[c].sent)},
           CallInv(c)'
    PROVE  CInv'
<1>1. call'[c] = l /\ \A d \in Callers \ {c} : call'[d] = call[d]
  BY DEF CInv, Shape
<1>2. Shape'
  BY DEF CInv, Shape
<1>3. Apart(c, o) /\ HoldsNoMore(c, o)
  BY <1>1 DEF Apart, HoldsNoMore, CInv, Shape
<1>4. inFlight[o] = c
  BY DEF CInv, CallInv
<1>5. RowInv(o)'
  <2>1. Settled(o)' /\ call'[c].pc \in Refreshing /\ call'[c].org = o
    BY <1>1, NotSavingIsSettled DEF Settled, Active, Issued
  <2> QED
    BY <1>4, <2>1 DEF RowInv, Settled, Active
<1> QED
  BY <1>2, <1>3, <1>4, <1>5, OneCallerMoves

-----------------------------------------------------------------------------
(* Each step of a refresh *)

LEMMA CallMoves ==
    ASSUME CInv, NEW c \in Callers, NEW o \in Orgs, Call(c, o)
    PROVE  CInv'
<1>1. CASE inFlight[o] # Nobody
  <2>1. /\ call'[c].pc = "waiting" /\ call'[c].sent = NoToken
        /\ \A d \in Callers \ {c} : call'[d] = call[d]
        /\ UNCHANGED <<now, alive, grants, lost, flow, row, inFlight>>
    <3> DEFINE l == [NoCall EXCEPT !.pc = "waiting", !.org = o]
    <3>1. call' = [call EXCEPT ![c] = l]
      BY <1>1 DEF Call
    <3>2. l.pc = "waiting" /\ l.sent = NoToken
      BY DEF NoCall
    <3>3. DOMAIN call = Callers
      BY DEF CInv, Shape
    <3>4. UNCHANGED <<now, alive, grants, lost, flow, row, inFlight>>
      BY <1>1 DEF Call, provider, signin
    <3> HIDE DEF l
    <3> QED
      BY <3>1, <3>2, <3>3, <3>4
  <2>2. Shape'
    <3>1. [NoCall EXCEPT !.pc = "waiting", !.org = o]
             \in [pc : {"idle", "waiting"} \union Refreshing, org : Orgs,
                  sent : Nat \X Nat, got : Nat \X Nat]
      BY NoCallIsACall
    <3>2. call' = [call EXCEPT ![c] = [NoCall EXCEPT !.pc = "waiting", !.org = o]]
      BY <1>1 DEF Call
    <3> QED
      BY <2>1, <3>1, <3>2 DEF CInv, Shape
  <2>3. ASSUME NEW d \in Callers
        PROVE  CallInv(d)'
    BY <2>1 DEF CInv, CallInv, Refreshing, Active, IsAlive, Issued
  <2>4. ASSUME NEW p \in Orgs
        PROVE  RowInv(p)'
    <3>1. inFlight[p] # c
      BY <1>1, Constants DEF Call, CInv, RowInv, Refreshing
    <3>2. inFlight[p] # Nobody => inFlight[p] \in Callers \ {c}
      BY <3>1 DEF CInv, Shape
    <3> QED
      BY <2>1, <3>2 DEF CInv, RowInv, Active, Issued
  <2>5. \A p \in Orgs, g \in 1..grants : Held(p, g)' => Held(p, g)
    BY <2>1 DEF Held, NoToken, GrantOf
  <2> QED
    BY <2>1, <2>2, <2>3, <2>4, <2>5 DEF CInv, FlowInv, GrantsInv
<1>2. CASE inFlight[o] = Nobody
  <2>0. /\ call' = [call EXCEPT ![c] = [NoCall EXCEPT !.pc = "reading", !.org = o]]
        /\ inFlight' = [inFlight EXCEPT ![o] = c]
        /\ call[c].pc = "idle" /\ UNCHANGED <<now, alive, grants, lost, flow, row>>
    BY <1>2 DEF Call, provider, signin
  <2>1. /\ call'[c].pc = "reading" /\ call'[c].sent = NoToken /\ call'[c].org = o
        /\ call[c].pc = "idle"
        /\ \A d \in Callers \ {c} : call'[d] = call[d]
        /\ inFlight' = [inFlight EXCEPT ![o] = c]
        /\ UNCHANGED <<now, alive, grants, lost, flow, row>>
    BY <2>0 DEF CInv, Shape, NoCall
  <2>2. Shape'
    <3>1. [NoCall EXCEPT !.pc = "reading", !.org = o]
             \in [pc : {"idle", "waiting"} \union Refreshing, org : Orgs,
                  sent : Nat \X Nat, got : Nat \X Nat]
      BY NoCallIsACall DEF Refreshing
    <3>2. call' = [call EXCEPT ![c] = [NoCall EXCEPT !.pc = "reading", !.org = o]]
      BY <1>2 DEF Call
    <3> QED
      BY <2>1, <3>1, <3>2 DEF CInv, Shape
  <2>3. Apart(c, o)
    BY <2>1 DEF Apart, CInv, Shape
  <2>4. HoldsNoMore(c, o)
    BY <2>1 DEF HoldsNoMore, NoToken, GrantOf
  <2>5. inFlight'[o] = c
    BY <2>1 DEF CInv, Shape
  <2>6. CallInv(c)'
    BY <2>1, <2>5 DEF CallInv, Refreshing
  <2>7. RowInv(o)'
    BY <1>2, <2>1, <2>5, Constants DEF CInv, RowInv, Refreshing, Active, Issued
  <2> QED
    BY <1>2, <2>1, <2>2, <2>3, <2>4, <2>6, <2>7, OneCallerMoves DEF Refreshing
<1> QED
  BY <1>1, <1>2

LEMMA ReadingMoves ==
    ASSUME CInv, NEW c \in Callers, NEW o \in Orgs, o = call[c].org,
           ReadRefuses(c) \/ ReadEnds(c) \/ ReadSends(c)
    PROVE  CInv'
<1>0. /\ call[c].pc = "reading" /\ call[c].pc \in Refreshing
      /\ call[c] \in [pc : {"idle", "waiting"} \union Refreshing, org : Orgs,
                      sent : Nat \X Nat, got : Nat \X Nat]
      /\ UNCHANGED <<now, alive, grants, lost, flow, row>>
      /\ row[o].token \in Nat \X Nat
  BY DEF CInv, Shape, ReadRefuses, ReadEnds, ReadSends, provider, signin, Refreshing
<1>1. CASE ReadRefuses(c)
  <2>1. Settled(o)'
    BY <1>0, NotSavingIsSettled DEF Settled, Active, Issued
  <2>2. WritesRowOf(o)
    BY <1>0 DEF WritesRowOf, RowType, CInv, Shape
  <2>3. Settle(c, FALSE) /\ FALSE \in BOOLEAN
    BY <1>1 DEF ReadRefuses
  <2>4. /\ alive' \in [Grants -> Nat] /\ lost' \subseteq Grants /\ lost \subseteq lost'
        /\ \A g \in Grants : g # GrantOf(call[c].sent) => alive'[g] = alive[g]
        /\ GrantOf(row'[o].token) \in {0, GrantOf(row[o].token), GrantOf(call[c].sent)}
    BY <1>0 DEF CInv, Shape
  <2> QED
    BY <1>0, <2>1, <2>2, <2>3, <2>4, SettleMoves
<1>2. CASE ReadEnds(c) \/ ReadSends(c)
  <2>1. PICK pc \in {"killing", "exchanging"} :
           /\ call' = [call EXCEPT ![c] = [call[c] EXCEPT !.pc = pc, !.sent = row[o].token]]
           /\ pc = "killing" => row[o].expiresAt <= now
    BY <1>0, <1>2 DEF ReadEnds, ReadSends, LifetimeReached
  <2>2. row[o].status = "active" /\ inFlight' = inFlight /\ inFlight[o] = c
    BY <1>0, <1>2 DEF ReadEnds, ReadSends, CInv, CallInv
  <2> DEFINE l == [call[c] EXCEPT !.pc = pc, !.sent = row[o].token]
  <2>3. /\ l \in [pc : Refreshing, org : Orgs, sent : Nat \X Nat, got : Nat \X Nat]
        /\ l.org = o /\ l.pc = pc /\ l.sent = row[o].token
    BY <1>0 DEF Refreshing
  <2>4. Issued(row[o].token)
    BY <1>0, <2>2 DEF CInv, RowInv, Active
  <2>5. call'[c] = l
    BY <2>1 DEF CInv, Shape
  <2> HIDE DEF l
  <2>6. CallInv(c)'
    BY <1>0, <2>1, <2>2, <2>3, <2>4, <2>5 DEF CallInv, Active, Issued, Refreshing
  <2>7. call' = [call EXCEPT ![c] = l]
    BY <2>1 DEF l
  <2> QED
    BY <1>0, <2>2, <2>3, <2>6, <2>7, GoesMoves
<1> QED
  BY <1>1, <1>2

LEMMA CondemnedMoves ==
    ASSUME CInv, NEW c \in Callers, NEW o \in Orgs, o = call[c].org, Refuse(c) \/ Renew(c)
    PROVE  CInv'
<1>0. /\ call[c].pc = "exchanging" /\ call[c].pc \in Refreshing
      /\ call[c] \in [pc : {"idle", "waiting"} \union Refreshing, org : Orgs,
                      sent : Nat \X Nat, got : Nat \X Nat]
      /\ UNCHANGED <<now, alive, grants, lost, flow, row, inFlight>>
      /\ CallInv(c)
  BY DEF CInv, Shape, Refuse, Renew, provider, signin, Refreshing
<1>1. CASE Refuse(c)
  <2> DEFINE l == [call[c] EXCEPT !.pc = "killing"]
  <2>1. call' = [call EXCEPT ![c] = l] /\ call'[c] = l
    BY <1>1 DEF Refuse, Goto, CInv, Shape
  <2>2. /\ l \in [pc : Refreshing, org : Orgs, sent : Nat \X Nat, got : Nat \X Nat]
        /\ l.org = o /\ l.pc = "killing" /\ l.sent = call[c].sent
    BY <1>0 DEF Refreshing
  <2>3. ~IsAlive(call[c].sent)
    BY <1>1 DEF Refuse
  <2> HIDE DEF l
  <2>4. CallInv(c)'
    BY <1>0, <2>1, <2>2, <2>3 DEF CallInv, Active, Issued, Refreshing, IsAlive
  <2> QED
    BY <1>0, <2>1, <2>2, <2>4, GoesMoves
<1>2. CASE Renew(c)
  <2> DEFINE l == [call[c] EXCEPT !.pc = "saving", !.got = call[c].sent]
  <2>1. call' = [call EXCEPT ![c] = l] /\ call'[c] = l
    BY <1>2 DEF Renew, CInv, Shape
  <2>2. /\ l \in [pc : Refreshing, org : Orgs, sent : Nat \X Nat, got : Nat \X Nat]
        /\ l.org = o /\ l.pc = "saving" /\ l.sent = call[c].sent /\ l.got = call[c].sent
    BY <1>0 DEF Refreshing
  <2>3. alive[GrantOf(call[c].sent)] = call[c].sent[2]
    BY <1>2 DEF Renew, IsAlive
  <2> HIDE DEF l
  <2>4. CallInv(c)'
    BY <1>0, <2>1, <2>2, <2>3 DEF CallInv, Active, Issued, Refreshing
  <2> QED
    BY <1>0, <2>1, <2>2, <2>4, GoesMoves
<1> QED
  BY <1>1, <1>2

LEMMA RotateMoves ==
    ASSUME CInv, NEW c \in Callers, NEW o \in Orgs, o = call[c].org, Rotate(c)
    PROVE  CInv'
<1> DEFINE g == GrantOf(call[c].sent)
           fresh == <<g, call[c].sent[2] + 1>>
<1>0. /\ call[c].pc = "exchanging" /\ call[c].pc \in Refreshing
      /\ call[c] \in [pc : {"idle", "waiting"} \union Refreshing, org : Orgs,
                      sent : Nat \X Nat, got : Nat \X Nat]
      /\ UNCHANGED <<now, grants, flow, row>>
      /\ alive' = [alive EXCEPT ![g] = fresh[2]]
      /\ CallInv(c) /\ RowInv(o) /\ inFlight[o] = c
  BY DEF CInv, Shape, CallInv, Rotate, signin, Refreshing
<1>1. Issued(call[c].sent) /\ g \in 1..grants /\ g \in Grants
  BY <1>0, IssuedAreGrants DEF CallInv, Issued, Refreshing, GrantOf
<1>2. fresh \in Nat \X Nat /\ fresh[2] \in Nat /\ fresh[2] >= 1 /\ fresh[1] = g
  BY <1>0, <1>1 DEF GrantOf
<1>3. /\ alive' \in [Grants -> Nat] /\ alive'[g] = fresh[2]
      /\ \A h \in Grants : h # g => alive'[h] = alive[h]
  BY <1>0, <1>1, <1>2 DEF CInv, Shape
<1>4. row[o].token = NoToken \/ Issued(row[o].token)
  BY <1>0 DEF RowInv
<1>5. Active(o) =>
          /\ Issued(row[o].token) /\ GrantOf(row[o].token) \in Grants
          /\ GrantOf(row[o].token) # g =>
                LET t == row[o].token IN
                alive[GrantOf(t)] = 0 \/ GrantOf(t) \in lost \/ alive[GrantOf(t)] = t[2]
  BY <1>0, IssuedAreGrants DEF RowInv, Issued, GrantOf
<1>6. row[o] \in [status : {"none", "active", "needs_reauth", "disconnected"},
                  token : Nat \X Nat, expiresAt : Nat, failed : BOOLEAN]
  BY DEF CInv, Shape
<1>7. CASE /\ call' = [call EXCEPT ![c].pc = "saving", ![c].got = fresh]
           /\ UNCHANGED <<lost, inFlight>>
  <2> DEFINE l == [call[c] EXCEPT !.pc = "saving", !.got = fresh]
  <2>1. /\ l \in [pc : {"idle", "waiting"} \union Refreshing, org : Orgs,
                  sent : Nat \X Nat, got : Nat \X Nat]
        /\ l.org = o /\ l.pc = "saving" /\ l.sent = call[c].sent /\ l.got = fresh
    BY <1>0, <1>2 DEF Refreshing
  <2>2. call' = [call EXCEPT ![c] = l]
    BY <1>7
  <2> HIDE DEF l
  <2>3. call'[c] = l /\ \A d \in Callers \ {c} : call'[d] = call[d]
    BY <2>2 DEF CInv, Shape
  <2>4. Shape'
    <3>1. call' \in [Callers -> [pc : {"idle", "waiting"} \union Refreshing, org : Orgs,
                                 sent : Nat \X Nat, got : Nat \X Nat]]
      BY <2>1, <2>2 DEF CInv, Shape
    <3>2. UNCHANGED <<now, grants, flow, row, lost, inFlight>> /\ alive' \in [Grants -> Nat]
      BY <1>0, <1>3, <1>7
    <3> QED
      BY <3>1, <3>2 DEF CInv, Shape
  <2>5. Apart(c, o) /\ HoldsNoMore(c, o)
    BY <1>0, <1>3, <1>7, <2>1, <2>3 DEF Apart, HoldsNoMore, CInv, Shape
  <2>6. CallInv(c)'
    BY <1>0, <1>1, <1>2, <1>3, <1>7, <2>1, <2>3 DEF CallInv, Issued, Refreshing, GrantOf
  <2>7. GrantOf(l.got) = g
    BY <1>2, <2>1 DEF GrantOf
  <2>8. RowInv(o)'
    <3>1. inFlight'[o] = c /\ c # Nobody /\ call'[c].org = o /\ call'[c].pc = "saving"
          /\ call'[c].pc \in Refreshing /\ GrantOf(call'[c].got) = g
      BY <1>0, <1>7, <2>1, <2>3, <2>7, Constants DEF Refreshing
    <3>2. CASE GrantOf(row[o].token) = g
      BY <1>0, <1>4, <1>5, <3>1, <3>2 DEF RowInv, Active, Issued
    <3>3. CASE GrantOf(row[o].token) # g
      BY <1>0, <1>3, <1>4, <1>5, <1>7, <3>1, <3>3 DEF RowInv, Active, Issued
    <3> QED
      BY <3>2, <3>3
  <2> QED
    BY <1>0, <2>4, <2>5, <2>6, <2>8, OneCallerMoves
<1>8. CASE lost' = lost \union {g} /\ Settle(c, FALSE)
  <2>1. lost' \subseteq Grants /\ lost \subseteq lost' /\ g \in lost'
    BY <1>1, <1>8 DEF CInv, Shape
  <2>2. Settled(o)'
    <3>1. CASE GrantOf(row[o].token) = g
      BY <1>0, <1>4, <1>5, <2>1, <3>1 DEF Settled, Active, Issued
    <3>2. CASE GrantOf(row[o].token) # g
      BY <1>0, <1>3, <1>4, <1>5, <2>1, <3>2 DEF Settled, Active, Issued
    <3> QED
      BY <3>1, <3>2
  <2>3. WritesRowOf(o)
    BY <1>0 DEF WritesRowOf, RowType, CInv, Shape
  <2>4. GrantOf(row'[o].token) \in {0, GrantOf(row[o].token), g}
    BY <1>0
  <2> QED
    BY <1>0, <1>3, <1>8, <2>1, <2>2, <2>3, <2>4, SettleMoves
<1> QED
  BY <1>7, <1>8 DEF Rotate

LEMMA CountingMoves ==
    ASSUME CInv, NEW c \in Callers, NEW o \in Orgs, o = call[c].org,
           Unavailable(c) \/ CountFailure(c) \/ Kill(c)
    PROVE  CInv'
<1>0. /\ call[c].pc \in {"exchanging", "counting", "killing"} /\ call[c].pc \in Refreshing
      /\ call[c] \in [pc : {"idle", "waiting"} \union Refreshing, org : Orgs,
                      sent : Nat \X Nat, got : Nat \X Nat]
      /\ UNCHANGED <<now, alive, grants, lost, flow>>
      /\ CallInv(c) /\ inFlight[o] = c
  BY DEF CInv, Shape, CallInv, Unavailable, CountFailure, Kill, provider, signin, Refreshing
<1>1. /\ alive' \in [Grants -> Nat] /\ lost' \subseteq Grants /\ lost \subseteq lost'
      /\ \A g \in Grants : g # GrantOf(call[c].sent) => alive'[g] = alive[g]
  BY <1>0 DEF CInv, Shape
<1>2. Settled(o)
  BY <1>0, NotSavingIsSettled
<1>3. ASSUME Settle(c, FALSE), NEW s, row' = [row EXCEPT ![o] = s], s \in RowType,
             s.token = row[o].token, s.status = "active" => Active(o)
      PROVE  CInv'
  <2>1. row'[o] = s
    BY <1>3 DEF CInv, Shape
  <2>2. WritesRowOf(o)
    BY <1>3 DEF WritesRowOf, RowType, CInv, Shape
  <2>3. Settled(o)'
    BY <1>0, <1>2, <1>3, <2>1 DEF Settled, Active, Issued
  <2>4. GrantOf(row'[o].token) \in {0, GrantOf(row[o].token), GrantOf(call[c].sent)}
    BY <1>3, <2>1
  <2> QED
    BY <1>0, <1>1, <1>3, <2>2, <2>3, <2>4, SettleMoves
<1>4. row[o] \in RowType /\ row = [row EXCEPT ![o] = row[o]]
  BY DEF CInv, Shape, RowType
<1>5. CASE Unavailable(c) /\ Settle(c, FALSE)
  BY <1>3, <1>4, <1>5 DEF Unavailable, Active
<1>6. CASE Unavailable(c) /\ Goto(c, "counting") /\ UNCHANGED inFlight
  <2> DEFINE l == [call[c] EXCEPT !.pc = "counting"]
  <2>1. call' = [call EXCEPT ![c] = l] /\ call'[c] = l
    BY <1>6 DEF Goto, CInv, Shape
  <2>2. /\ l \in [pc : Refreshing, org : Orgs, sent : Nat \X Nat, got : Nat \X Nat]
        /\ l.org = o /\ l.pc = "counting" /\ l.sent = call[c].sent
    BY <1>0 DEF Refreshing
  <2>3. call[c].pc = "exchanging" /\ UNCHANGED row
    BY <1>6 DEF Unavailable
  <2> HIDE DEF l
  <2>4. CallInv(c)'
    BY <1>0, <1>6, <2>1, <2>2, <2>3 DEF CallInv, Issued, Refreshing
  <2> QED
    BY <1>0, <1>6, <2>1, <2>2, <2>3, <2>4, GoesMoves
<1>7. CASE CountFailure(c)
  <2> DEFINE s == [row[o] EXCEPT !.failed = row[o].failed \/ row[o].status # "none"]
  <2>1. s \in RowType /\ s.token = row[o].token /\ s.status = row[o].status
    BY <1>4, Zenon DEF RowType
  <2>2. row' = [row EXCEPT ![o] = s] /\ Settle(c, FALSE)
    BY <1>7 DEF CountFailure
  <2> HIDE DEF s
  <2> QED
    BY <1>3, <2>1, <2>2 DEF Active
<1>8. CASE Kill(c)
  <2>1. CASE UNCHANGED row
    BY <1>3, <1>4, <1>8, <2>1 DEF Kill, Active
  <2>2. CASE row' = [row EXCEPT ![o].status = IF row[o].status = "none" THEN row[o].status
                                              ELSE "needs_reauth"]
    <3> DEFINE s == [row[o] EXCEPT !.status = IF row[o].status = "none" THEN row[o].status
                                              ELSE "needs_reauth"]
    <3>1. s \in RowType /\ s.token = row[o].token /\ s.status # "active"
      BY <1>4 DEF RowType
    <3>2. row' = [row EXCEPT ![o] = s] /\ Settle(c, FALSE)
      BY <1>8, <2>2 DEF Kill
    <3> HIDE DEF s
    <3> QED
      BY <1>3, <3>1, <3>2
  <2> QED
    BY <1>8, <2>1, <2>2 DEF Kill
<1> QED
  BY <1>5, <1>6, <1>7, <1>8 DEF Unavailable

LEMMA SaveMoves ==
    ASSUME CInv, NEW c \in Callers, NEW o \in Orgs, o = call[c].org, Save(c)
    PROVE  CInv'
<1> DEFINE t == call[c].got
           g == GrantOf(t)
<1>0. /\ call[c].pc = "saving" /\ call[c].pc \in Refreshing
      /\ call[c] \in [pc : {"idle", "waiting"} \union Refreshing, org : Orgs,
                      sent : Nat \X Nat, got : Nat \X Nat]
      /\ UNCHANGED <<now, alive, grants, flow>>
      /\ CallInv(c) /\ RowInv(o) /\ inFlight[o] = c
  BY DEF CInv, Shape, CallInv, Save, signin, Refreshing
<1>1. /\ Issued(t) /\ g = GrantOf(call[c].sent) /\ alive[g] \in {0, t[2]}
      /\ g \in Grants
  BY <1>0, IssuedAreGrants DEF CallInv, Issued, GrantOf
<1>2. /\ alive' \in [Grants -> Nat]
      /\ \A h \in Grants : h # GrantOf(call[c].sent) => alive'[h] = alive[h]
  BY <1>0 DEF CInv, Shape
<1>3. row[o] \in RowType
  BY DEF CInv, Shape, RowType
<1>4. CASE /\ UNCHANGED lost /\ Settle(c, TRUE)
           /\ row' = [row EXCEPT ![o] = IF row[o].status = "none" THEN row[o]
                                        ELSE [row[o] EXCEPT !.token = t, !.failed = FALSE]]
  <2> DEFINE s == IF row[o].status = "none" THEN row[o]
                  ELSE [row[o] EXCEPT !.token = t, !.failed = FALSE]
  <2>1. /\ s \in RowType /\ s.token \in {row[o].token, t}
        /\ s.status = "active" => s.token = t
        /\ s.status = row[o].status
    BY <1>0, <1>3 DEF RowType
  <2>2. row' = [row EXCEPT ![o] = s] /\ lost' \subseteq Grants /\ lost \subseteq lost'
    BY <1>4 DEF CInv, Shape
  <2> HIDE DEF s
  <2>3. row'[o] = s /\ WritesRowOf(o)
    BY <2>1, <2>2 DEF WritesRowOf, RowType, CInv, Shape
  <2>4. Settled(o)'
    BY <1>0, <1>1, <2>1, <2>3 DEF Settled, RowInv, Active, Issued
  <2>5. GrantOf(row'[o].token) \in {0, GrantOf(row[o].token), GrantOf(call[c].sent)}
    BY <1>1, <2>1, <2>3
  <2> QED
    BY <1>0, <1>2, <1>4, <2>2, <2>3, <2>4, <2>5, SettleMoves
<1>5. CASE lost' = lost \union {g} /\ Settle(c, FALSE) /\ UNCHANGED row
  <2>1. lost' \subseteq Grants /\ lost \subseteq lost' /\ g \in lost'
    BY <1>1, <1>5 DEF CInv, Shape
  <2>2. WritesRowOf(o)
    BY <1>5 DEF WritesRowOf, RowType, CInv, Shape
  <2>3. Settled(o)'
    BY <1>0, <1>1, <1>5, <2>1 DEF Settled, RowInv, Active, Issued
  <2>4. GrantOf(row'[o].token) \in {0, GrantOf(row[o].token), GrantOf(call[c].sent)}
    BY <1>5
  <2> QED
    BY <1>0, <1>2, <1>5, <2>1, <2>2, <2>3, <2>4, SettleMoves
<1> QED
  BY <1>4, <1>5 DEF Save

-----------------------------------------------------------------------------
(* The steps of everyone else *)

\* What callers and rows have is unaffected when time passes, a cached access token
\* goes or a grant dies.
LEMMA GrantsOnlyDie ==
    ASSUME CInv, now' \in Nat, now' >= now,
           alive' \in [Grants -> Nat], \A g \in Grants : alive'[g] \in {0, alive[g]},
           UNCHANGED <<grants, lost, flow, row, inFlight, call>>
    PROVE  CInv'
<1>1. Shape'
  BY DEF CInv, Shape
<1>2. ASSUME NEW c \in Callers
      PROVE  CallInv(c)'
  <2>1. CASE call[c].pc = "saving"
    <3>1. GrantOf(call[c].got) \in Grants
      BY <2>1, IssuedAreGrants DEF CInv, CallInv, Issued, GrantOf
    <3> QED
      BY <2>1, <3>1 DEF CInv, CallInv, Issued, Refreshing
  <2>2. CASE call[c].pc = "killing"
    <3> DEFINE o == call[c].org
               t == row[o].token
    <3>1. inFlight[o] = c /\ RowInv(o) /\ row[o].expiresAt \in Nat /\ now \in Nat
      BY <2>2 DEF CInv, CallInv, Refreshing, Shape
    <3>2. Active(o) => Issued(t) /\ GrantOf(t) \in Grants /\ t # NoToken
      BY <3>1, IssuedAreGrants DEF RowInv, Issued, GrantOf, NoToken
    <3>3. Active(o) /\ IsAlive(t)' => IsAlive(t)
      BY <3>2, Constants DEF IsAlive, Issued, CInv, Shape
    <3>4. row[o].expiresAt <= now => row[o].expiresAt <= now'
      BY <3>1
    <3> QED
      BY <2>2, <3>3, <3>4 DEF CInv, CallInv, Active, Issued, Refreshing
  <2> QED
    BY <2>1, <2>2 DEF CInv, CallInv, Active, Issued, Refreshing
<1>3. ASSUME NEW o \in Orgs
      PROVE  RowInv(o)'
  <2>1. Active(o) => GrantOf(row[o].token) \in Grants
    BY IssuedAreGrants DEF CInv, RowInv, Issued, GrantOf
  <2> QED
    BY <2>1 DEF CInv, RowInv, Active, Issued
<1>4. ASSUME NEW f \in Flows
      PROVE  FlowInv(f)'
  BY IssuedAreGrants DEF CInv, FlowInv, Held
<1>5. GrantsInv'
  BY DEF CInv, GrantsInv, Held
<1> QED
  BY <1>1, <1>2, <1>3, <1>4, <1>5 DEF CInv

LEMMA HeldIsIssued ==
    ASSUME CInv, NEW o \in Orgs, NEW g, Held(o, g)
    PROVE  g = 0 \/ g \in 1..grants
<1>1. GrantOf(row[o].token) = 0 \/ GrantOf(row[o].token) \in 1..grants
  BY DEF CInv, RowInv, Issued, NoToken, GrantOf
<1>2. ASSUME NEW c \in Callers
      PROVE  GrantOf(call[c].sent) = 0 \/ GrantOf(call[c].sent) \in 1..grants
  BY DEF CInv, CallInv, Issued, NoToken, GrantOf
<1> QED
  BY <1>1, <1>2 DEF Held


\* What a browser's handler does before it is given a grant and after it stored one.
LEMMA FlowMoves ==
    ASSUME CInv, NEW f \in Flows, NEW l,
           l \in [pc : {"idle", "exchanging", "minting"}, org : Orgs, connect : BOOLEAN, grant : Nat],
           flow' = [flow EXCEPT ![f] = l],
           UNCHANGED <<now, alive, grants, lost, row, inFlight, call>>
    PROVE  CInv'
<1>1. flow'[f] = l /\ \A e \in Flows \ {f} : flow'[e] = flow[e]
  BY DEF CInv, Shape
<1>2. Shape'
  BY DEF CInv, Shape
<1>3. \A c \in Callers : CallInv(c)'
  BY DEF CInv, CallInv, Active, Issued, IsAlive
<1>4. \A o \in Orgs : RowInv(o)'
  BY DEF CInv, RowInv, Active, Issued
<1>5. ASSUME NEW e \in Flows
      PROVE  FlowInv(e)'
  BY <1>1 DEF CInv, FlowInv, Held
<1>6. GrantsInv'
  BY <1>1 DEF CInv, GrantsInv, Held
<1> QED
  BY <1>2, <1>3, <1>4, <1>5, <1>6 DEF CInv

\* A grant that is new is nobody's.
LEMMA ExchangeMoves ==
    ASSUME CInv, NEW f \in Flows, Exchange(f)
    PROVE  CInv'
<1>0. /\ flow[f] \in [pc : {"idle", "exchanging", "connecting", "minting"}, org : Orgs,
                      connect : BOOLEAN, grant : Nat]
      /\ grants \in 0..MaxGrants /\ grants \in Nat
      /\ UNCHANGED <<now, lost, row, inFlight, call>>
  BY Constants DEF CInv, Shape, Exchange, memory
<1>1. CASE flow' = [flow EXCEPT ![f] = NoFlow] /\ UNCHANGED <<alive, grants>>
  <2>1. NoFlow \in [pc : {"idle", "exchanging", "minting"}, org : Orgs, connect : BOOLEAN, grant : Nat]
    BY Constants DEF NoFlow
  <2> HIDE DEF NoFlow
  <2> QED
    BY <1>0, <1>1, <2>1, FlowMoves
<1>2. CASE /\ grants < MaxGrants
           /\ grants' = grants + 1
           /\ alive' = [alive EXCEPT ![grants + 1] = 1]
           /\ flow' = [flow EXCEPT ![f].pc = IF flow[f].connect THEN "connecting" ELSE "minting",
                                   ![f].grant = grants + 1]
  <2> DEFINE l == [flow[f] EXCEPT !.pc = IF flow[f].connect THEN "connecting" ELSE "minting",
                                  !.grant = grants + 1]
  <2>1. flow' = [flow EXCEPT ![f] = l]
    BY <1>2
  <2>2. /\ l \in [pc : {"idle", "exchanging", "connecting", "minting"}, org : Orgs,
                  connect : BOOLEAN, grant : Nat]
        /\ l.grant = grants + 1
    <3> DEFINE fresh == IF flow[f].connect THEN "connecting" ELSE "minting"
    <3>1. fresh \in {"idle", "exchanging", "connecting", "minting"} /\ grants + 1 \in Nat
      BY <1>0
    <3> HIDE DEF fresh
    <3>2. [flow[f] EXCEPT !.pc = fresh, !.grant = grants + 1]
             \in [pc : {"idle", "exchanging", "connecting", "minting"}, org : Orgs,
                  connect : BOOLEAN, grant : Nat]
      BY <1>0, <3>1
    <3>3. [flow[f] EXCEPT !.pc = fresh, !.grant = grants + 1].grant = grants + 1
      BY <1>0
    <3> QED
      BY <3>2, <3>3 DEF fresh
  <2> HIDE DEF l
  <2>3. flow'[f] = l /\ \A e \in Flows \ {f} : flow'[e] = flow[e]
    BY <2>1 DEF CInv, Shape
  <2>4. grants + 1 \in Grants /\ grants' \in 0..MaxGrants /\ 1..grants \subseteq 1..grants'
    BY <1>0, <1>2, Constants DEF Grants
  <2>5. /\ alive' \in [Grants -> Nat] /\ alive'[grants + 1] = 1
        /\ \A g \in 1..grants : alive'[g] = alive[g]
    BY <1>0, <1>2, <2>4, IssuedAreGrants DEF CInv, Shape
  <2>6. Shape'
    BY <1>0, <2>1, <2>2, <2>4, <2>5 DEF CInv, Shape
  <2>7. ASSUME NEW c \in Callers
        PROVE  CallInv(c)'
    <3> DEFINE o == call[c].org
               t == row[o].token
    <3>1. o \in Orgs
      BY DEF CInv, Shape
    <3>2. Active(o) => Issued(t) /\ alive'[GrantOf(t)] = alive[GrantOf(t)]
      BY <2>5, <3>1 DEF CInv, RowInv, Issued, GrantOf
    <3>3. Active(o) => (IsAlive(t)' <=> IsAlive(t))
      BY <1>0, <3>2 DEF IsAlive
    <3>4. Issued(call[c].sent) => Issued(call[c].sent)'
      BY <1>0, <1>2, <2>4 DEF Issued
    <3>5. Issued(call[c].got) => Issued(call[c].got)' /\ alive'[GrantOf(call[c].got)] = alive[GrantOf(call[c].got)]
      BY <1>0, <1>2, <2>4, <2>5 DEF Issued, GrantOf
    <3>6. CallInv(c)
      BY DEF CInv
    <3> QED
      BY <1>0, <3>3, <3>4, <3>5, <3>6 DEF CallInv, Active
  <2>8. ASSUME NEW o \in Orgs
        PROVE  RowInv(o)'
    <3>1. Issued(row[o].token) => Issued(row[o].token)' /\ alive'[GrantOf(row[o].token)] = alive[GrantOf(row[o].token)]
      BY <1>0, <1>2, <2>4, <2>5 DEF Issued, GrantOf
    <3> QED
      BY <1>0, <3>1 DEF CInv, RowInv, Active
  <2>9. \A o \in Orgs : ~Held(o, grants + 1)
    BY <1>0, HeldIsIssued
  <2>10. \A o \in Orgs, g \in Nat : Held(o, g)' <=> Held(o, g)
    BY <1>0 DEF Held
  <2>11. ASSUME NEW e \in Flows
         PROVE  FlowInv(e)'
    <3>1. CASE e = f
      <4>1. flow'[e].grant = grants + 1 /\ grants + 1 \in 1..grants' /\ grants + 1 \in Nat
        BY <1>0, <1>2, <2>2, <2>3, <3>1
      <4>2. alive'[flow'[e].grant] = 1
        BY <2>5, <4>1
      <4>3. \A o \in Orgs : ~Held(o, flow[e].grant)'
        BY <2>9, <2>10, <4>1 DEF Held
      <4> QED
        BY <4>1, <4>2, <4>3 DEF FlowInv
    <3>2. CASE e # f
      BY <1>0, <2>3, <2>4, <2>5, <2>10, <3>2 DEF CInv, FlowInv
    <3> QED
      BY <3>1, <3>2
  <2>12. GrantsInv'
    <3>1. \A o, p \in Orgs, g \in 1..grants' : Held(o, g) /\ Held(p, g) => o = p
      BY <1>0, <1>2, <2>9 DEF CInv, GrantsInv
    <3>2. \A e \in Flows \ {f} : flow[e].pc = "connecting" => flow[e].grant # grants + 1
      BY <1>0 DEF CInv, FlowInv
    <3>3. 1..grants' \subseteq Nat
      BY <2>4
    <3> QED
      BY <2>2, <2>3, <2>10, <3>1, <3>2, <3>3 DEF CInv, GrantsInv
  <2> QED
    BY <2>6, <2>7, <2>8, <2>11, <2>12 DEF CInv
<1> QED
  BY <1>0, <1>1, <1>2 DEF Exchange

\* A grant that is stored becomes its organisation's alone.
LEMMA ConnectMoves ==
    ASSUME CInv, NEW f \in Flows, Connect(f)
    PROVE  CInv'
<1> DEFINE o == flow[f].org
           g == flow[f].grant
<1>0. /\ flow[f] \in [pc : {"idle", "exchanging", "connecting", "minting"}, org : Orgs,
                      connect : BOOLEAN, grant : Nat]
      /\ flow[f].pc = "connecting" /\ FlowInv(f)
      /\ UNCHANGED <<now, alive, grants, lost, inFlight, call>>
  BY DEF CInv, Shape, Connect, provider
<1>1. CASE flow' = [flow EXCEPT ![f] = NoFlow] /\ UNCHANGED row
  <2>1. NoFlow \in [pc : {"idle", "exchanging", "minting"}, org : Orgs, connect : BOOLEAN, grant : Nat]
    BY Constants DEF NoFlow
  <2> HIDE DEF NoFlow
  <2> QED
    BY <1>0, <1>1, <2>1, FlowMoves
<1>2. CASE /\ row' = [row EXCEPT ![o] = Stored(<<g, 1>>)]
           /\ flow' = [flow EXCEPT ![f].pc = "minting"]
  <2> DEFINE l == [flow[f] EXCEPT !.pc = "minting"]
  <2>1. l \in [pc : {"idle", "exchanging", "connecting", "minting"}, org : Orgs,
               connect : BOOLEAN, grant : Nat] /\ l.pc = "minting"
    BY <1>0
  <2>2. flow' = [flow EXCEPT ![f] = l]
    BY <1>2
  <2> HIDE DEF l
  <2>3. flow'[f].pc = "minting" /\ \A e \in Flows \ {f} : flow'[e] = flow[e]
    BY <2>1, <2>2 DEF CInv, Shape
  <2>4. /\ g \in 1..grants /\ alive[g] \in {0, 1} /\ \A p \in Orgs : ~Held(p, g)
        /\ o \in Orgs /\ g # 0
    BY <1>0 DEF FlowInv
  <2>5. Stored(<<g, 1>>) \in RowType /\ Stored(<<g, 1>>).token = <<g, 1>>
    BY <1>0, Constants DEF Stored, RowType, CInv, Shape
  <2>6. row'[o].token = <<g, 1>> /\ \A p \in Orgs \ {o} : row'[p] = row[p]
    BY <1>2, <2>4, <2>5 DEF CInv, Shape
  <2>7. Shape'
    <3>1. row' \in [Orgs -> RowType]
      BY <1>2, <2>4, <2>5 DEF CInv, Shape, RowType
    <3>2. flow' \in [Flows -> [pc : {"idle", "exchanging", "connecting", "minting"}, org : Orgs,
                               connect : BOOLEAN, grant : Nat]]
      BY <2>1, <2>2 DEF CInv, Shape
    <3> QED
      BY <1>0, <3>1, <3>2 DEF CInv, Shape, RowType
  <2>8. ASSUME NEW c \in Callers
        PROVE  CallInv(c)'
    <3>1. call[c].org \in Orgs /\ CallInv(c)
      BY DEF CInv, Shape
    <3>2. CASE call[c].org = o
      <4>1. GrantOf(call[c].sent) # g
        BY <2>4, <3>2 DEF Held
      <4>2. GrantOf(row'[o].token) = g
        BY <2>6 DEF GrantOf
      <4> QED
        BY <1>0, <3>1, <3>2, <4>1, <4>2 DEF CallInv, Active, Issued
    <3>3. CASE call[c].org # o
      BY <1>0, <2>6, <3>1, <3>3 DEF CallInv, Active, Issued, IsAlive
    <3> QED
      BY <3>2, <3>3
  <2>9. ASSUME NEW p \in Orgs
        PROVE  RowInv(p)'
    <3>1. RowInv(p)
      BY DEF CInv
    <3>2. CASE p = o
      <4>1. row'[p].token = <<g, 1>> /\ g \in 1..grants' /\ alive'[g] \in {0, 1}
        BY <1>0, <2>4, <2>6, <3>2
      <4>2. Issued(row[p].token)' /\ (alive'[g] = 0 \/ alive'[g] = row'[p].token[2])
        BY <4>1 DEF Issued
      <4>3. GrantOf(row'[p].token) = g
        BY <4>1 DEF GrantOf
      <4>4. inFlight'[p] # Nobody => call'[inFlight'[p]].org = p /\ call'[inFlight'[p]].pc \in Refreshing
        BY <1>0, <3>1 DEF RowInv
      <4> QED
        BY <4>2, <4>3, <4>4 DEF RowInv
    <3>3. CASE p # o
      BY <1>0, <2>6, <3>1, <3>3 DEF RowInv, Active, Issued
    <3> QED
      BY <3>2, <3>3
  <2>10. ASSUME NEW p \in Orgs, NEW h, Held(p, h)'
         PROVE  Held(p, h) \/ (p = o /\ h = g)
    BY <1>0, <2>6, <2>10 DEF Held, GrantOf
  <2>11. ASSUME NEW e \in Flows
         PROVE  FlowInv(e)'
    <3>1. flow'[e].pc = "connecting" => e # f /\ flow'[e] = flow[e] /\ flow[e].grant # g
      BY <1>0, <2>3 DEF CInv, GrantsInv
    <3>2. FlowInv(e)
      BY DEF CInv
    <3> QED
      BY <1>0, <2>10, <3>1, <3>2 DEF FlowInv
  <2>12. GrantsInv'
    <3>1. GrantsInv
      BY DEF CInv
    <3>2. \A p, q \in Orgs, h \in 1..grants : Held(p, h)' /\ Held(q, h)' => p = q
      BY <2>4, <2>10, <3>1 DEF GrantsInv
    <3>3. \A e \in Flows : flow'[e].pc = "connecting" => flow'[e] = flow[e]
      BY <2>3
    <3> HIDE DEF o, g
    <3> QED
      BY <1>0, <3>1, <3>2, <3>3 DEF GrantsInv
  <2> QED
    BY <2>7, <2>8, <2>9, <2>11, <2>12 DEF CInv
<1> QED
  BY <1>1, <1>2 DEF Connect

\* Ending a connection writes no token but the empty one.
LEMMA EndingMoves ==
    ASSUME CInv, NEW row2, row' = row2, row2 \in [Orgs -> RowType],
           \A o \in Orgs : /\ row2[o].token \in {NoToken, row[o].token}
                           /\ row2[o].status = "active" => row2[o] = row[o],
           UNCHANGED <<now, alive, grants, lost, flow, inFlight, call>>
    PROVE  CInv'
<1>1. Shape'
  BY DEF CInv, Shape, RowType
<1>2. ASSUME NEW c \in Callers
      PROVE  CallInv(c)'
  <2>1. call[c].org \in Orgs /\ CallInv(c)
    BY DEF CInv, Shape
  <2> QED
    BY <2>1 DEF CallInv, Active, Issued, IsAlive
<1>3. ASSUME NEW o \in Orgs
      PROVE  RowInv(o)'
  BY DEF CInv, RowInv, Active, Issued
<1>4. ASSUME NEW o \in Orgs, NEW g \in 1..grants, Held(o, g)'
      PROVE  Held(o, g)
  BY <1>4, IssuedAreGrants DEF Held, NoToken, GrantOf
<1>5. \A f \in Flows : FlowInv(f)'
  BY <1>4 DEF CInv, FlowInv
<1>6. GrantsInv'
  BY <1>4 DEF CInv, GrantsInv
<1> QED
  BY <1>1, <1>2, <1>3, <1>5, <1>6 DEF CInv

\* A restart forgets every refresh, and what was about to be saved is lost.
LEMMA RestartMoves ==
    ASSUME CInv, Restart
    PROVE  CInv'
<1> USE Constants
<1>0. /\ lost' = lost \union {GrantOf(call[c].got) : c \in {d \in Callers : call[d].pc = "saving"}}
      /\ flow' = [f \in Flows |-> NoFlow]
      /\ inFlight' = [o \in Orgs |-> Nobody]
      /\ call' = [c \in Callers |-> NoCall]
      /\ UNCHANGED <<now, alive, grants, row>>
  BY DEF Restart
<1>1. /\ \A c \in Callers : call'[c] = NoCall
      /\ \A o \in Orgs : inFlight'[o] = Nobody
      /\ \A f \in Flows : flow'[f].pc = "idle"
  BY <1>0 DEF NoFlow
<1>2. lost' \subseteq Grants /\ lost \subseteq lost'
  <2>1. \A d \in Callers : call[d].pc = "saving" => GrantOf(call[d].got) \in Grants
    BY IssuedAreGrants DEF CInv, CallInv, Issued, GrantOf
  <2> QED
    BY <1>0, <2>1 DEF CInv, Shape
<1>3. Shape'
  <2>1. flow' \in [Flows -> [pc : {"idle", "exchanging", "connecting", "minting"}, org : Orgs,
                             connect : BOOLEAN, grant : Nat]]
    BY <1>0 DEF NoFlow
  <2> QED
    BY <1>0, <1>2, <2>1, NoCallIsACall DEF CInv, Shape
<1>4. \A c \in Callers : CallInv(c)'
  BY <1>1, NoCallIsACall DEF CallInv, Refreshing
<1>5. ASSUME NEW o \in Orgs
      PROVE  RowInv(o)'
  <2>1. RowInv(o)
    BY DEF CInv
  <2>2. inFlight[o] # Nobody /\ call[inFlight[o]].pc = "saving"
           => GrantOf(call[inFlight[o]].got) \in lost'
    BY <1>0 DEF CInv, Shape
  <2> QED
    BY <1>0, <1>1, <1>2, <2>1, <2>2 DEF RowInv, Active, Issued
<1>6. \A f \in Flows : FlowInv(f)'
  BY <1>1 DEF FlowInv
<1>7. ASSUME NEW o \in Orgs, NEW g \in 1..grants, Held(o, g)'
      PROVE  Held(o, g)
  BY <1>0, <1>1, <1>7, NoCallIsACall DEF Held, NoToken, GrantOf
<1>8. GrantsInv'
  BY <1>0, <1>1, <1>7 DEF CInv, GrantsInv
<1> QED
  BY <1>3, <1>4, <1>5, <1>6, <1>8 DEF CInv

-----------------------------------------------------------------------------
(* Which steps change what *)

LEMMA SignInFrame ==
    ASSUME NEW f \in Flows
    PROVE  /\ \A s \in DOMAIN requests, o \in Orgs :
                 Callback(f, s, o) => UNCHANGED <<alive, row, cache, call, leaving>>
           /\ Exchange(f) => UNCHANGED <<row, cache, call, leaving>>
           /\ Connect(f) => UNCHANGED <<alive, call, leaving>>
           /\ Mint(f) => UNCHANGED <<alive, row, cache, call, leaving>>
BY DEF Callback, Exchange, Connect, Mint, provider, memory

LEMMA RefreshFrame ==
    ASSUME NEW c \in Callers, Proceed(c)
    PROVE  /\ UNCHANGED <<requests, states, grants, flow, leaving>>
           /\ alive' = alive \/ Rotate(c)
           /\ row' = row \/ CountFailure(c) \/ Save(c) \/ Kill(c)
           /\ cache' = cache \/ ReadEnds(c) \/ Refuse(c) \/ Save(c)
<1>1. CASE ReadRefuses(c) \/ ReadSends(c)
  BY <1>1 DEF ReadRefuses, ReadSends, provider, signin
<1>5. CASE ReadEnds(c)
  <2>1. UNCHANGED <<requests, states, grants, flow, leaving, alive, row>>
    BY <1>5 DEF ReadEnds, provider, signin
  <2> QED
    BY <1>5, <2>1
<1>2. CASE Rotate(c) \/ Renew(c)
  <2>1. UNCHANGED <<requests, states, grants, flow, leaving, row, cache>>
    BY <1>2 DEF Rotate, Renew, provider, signin
  <2>2. Renew(c) => alive' = alive
    BY DEF Renew, provider
  <2> QED
    BY <1>2, <2>1, <2>2
<1>3. CASE Refuse(c) \/ Unavailable(c)
  <2>1. UNCHANGED <<requests, states, grants, flow, leaving, alive, row>>
    BY <1>3 DEF Refuse, Unavailable, provider, signin
  <2>2. Unavailable(c) => cache' = cache
    BY DEF Unavailable
  <2> QED
    BY <1>3, <2>1, <2>2
<1>4. CASE CountFailure(c) \/ Save(c) \/ Kill(c)
  <2>1. UNCHANGED <<requests, states, grants, flow, leaving, alive>>
    BY <1>4 DEF CountFailure, Save, Kill, provider, signin
  <2>2. CountFailure(c) \/ Kill(c) => cache' = cache
    BY DEF CountFailure, Kill
  <2> QED
    BY <1>4, <2>1, <2>2
<1> QED
  BY <1>1, <1>2, <1>3, <1>4, <1>5 DEF Proceed

LEMMA OtherFrame ==
    /\ Tick \/ UNCHANGED vars
         => UNCHANGED <<requests, states, grants, flow, alive, row, cache, call, leaving>>
    /\ \A connect \in BOOLEAN : Start(connect) => UNCHANGED <<flow, alive, row, cache, call, leaving>>
    /\ \A c \in Callers, o \in Orgs :
           Call(c, o) => UNCHANGED <<requests, states, grants, flow, alive, row, cache, leaving>>
    /\ ExpireDue => UNCHANGED <<requests, states, grants, flow, alive, call, leaving>>
    /\ \A o \in Orgs :
           /\ BeginDisconnect(o) => UNCHANGED <<requests, states, grants, flow, alive, row, call>>
           /\ EndDisconnect(o) => UNCHANGED <<requests, states, grants, flow, alive, cache, call>>
    /\ \A g \in Grants : Revoke(g) => UNCHANGED <<requests, states, grants, flow, row, cache, call, leaving>>
    /\ Restart => UNCHANGED <<alive, row>>
<1>1. Tick => UNCHANGED <<requests, states, grants, flow, alive, row, cache, call, leaving>>
  BY DEF Tick, provider, signin, memory
<1>2. UNCHANGED vars => UNCHANGED <<requests, states, grants, flow, alive, row, cache, call, leaving>>
  BY DEF vars, provider, signin, memory
<1>3. \A connect \in BOOLEAN : Start(connect) => UNCHANGED <<flow, alive, row, cache, call, leaving>>
  BY DEF Start, provider, memory
<1>4. \A c \in Callers, o \in Orgs :
          Call(c, o) => UNCHANGED <<requests, states, grants, flow, alive, row, cache, leaving>>
  BY DEF Call, provider, signin
<1>5. /\ ExpireDue => UNCHANGED <<requests, states, grants, flow, alive, call, leaving>>
      /\ Restart => UNCHANGED <<alive, row>>
  BY DEF ExpireDue, Restart, provider, signin
<1>6. \A o \in Orgs :
          /\ BeginDisconnect(o) => UNCHANGED <<requests, states, grants, flow, alive, row, call>>
          /\ EndDisconnect(o) => UNCHANGED <<requests, states, grants, flow, alive, cache, call>>
  BY DEF BeginDisconnect, EndDisconnect, provider, signin
<1>7. \A g \in Grants : Revoke(g) => UNCHANGED <<requests, states, grants, flow, row, cache, call, leaving>>
  BY DEF Revoke, signin, memory
<1> QED
  BY <1>1, <1>2, <1>3, <1>4, <1>5, <1>6, <1>7

LEMMA WhoWrites ==
    ASSUME [Next]_vars
    PROVE  /\ \/ alive' = alive
              \/ \E f \in Flows : Exchange(f)
              \/ \E c \in Callers : Rotate(c)
              \/ \E g \in Grants : Revoke(g)
           /\ \/ flow' = flow
              \/ \E f \in Flows : \/ \E s \in DOMAIN requests, o \in Orgs : Callback(f, s, o)
                                  \/ Exchange(f) \/ Connect(f) \/ Mint(f)
              \/ Restart
           /\ \/ row' = row
              \/ \E f \in Flows : Connect(f)
              \/ \E c \in Callers : CountFailure(c) \/ Save(c) \/ Kill(c)
              \/ ExpireDue
              \/ \E o \in Orgs : EndDisconnect(o)
<1>1. CASE Tick \/ UNCHANGED vars \/ \E connect \in BOOLEAN : Start(connect)
  BY <1>1, OtherFrame
<1>2. CASE \E f \in Flows : \/ \E s \in DOMAIN requests, o \in Orgs : Callback(f, s, o)
                            \/ Exchange(f) \/ Connect(f) \/ Mint(f)
  BY <1>2, SignInFrame
<1>3. CASE \E c \in Callers : Proceed(c)
  BY <1>3, RefreshFrame
<1>4. CASE \E c \in Callers : \E o \in Orgs : Call(c, o)
  BY <1>4, OtherFrame
<1>5. CASE ExpireDue \/ \E o \in Orgs : BeginDisconnect(o) \/ EndDisconnect(o)
  BY <1>5, OtherFrame
<1>6. CASE Restart \/ \E g \in Grants : Revoke(g)
  BY <1>6, OtherFrame
<1> QED
  BY <1>1, <1>2, <1>3, <1>4, <1>5, <1>6 DEF Next

LEMMA WhoForgets ==
    ASSUME [Next]_vars
    PROVE  /\ \/ cache' = cache
              \/ \E f \in Flows : Connect(f)
              \/ \E c \in Callers : ReadEnds(c) \/ Refuse(c) \/ Save(c)
              \/ ExpireDue \/ Restart
              \/ \E o \in Orgs : BeginDisconnect(o)
           /\ \/ call' = call
              \/ \E c \in Callers : Proceed(c) \/ \E o \in Orgs : Call(c, o)
              \/ Restart
           /\ \/ leaving' = leaving
              \/ \E o \in Orgs : BeginDisconnect(o) \/ EndDisconnect(o)
              \/ Restart
<1>1. CASE Tick \/ UNCHANGED vars \/ \E connect \in BOOLEAN : Start(connect)
  BY <1>1, OtherFrame
<1>2. CASE \E f \in Flows : \/ \E s \in DOMAIN requests, o \in Orgs : Callback(f, s, o)
                            \/ Exchange(f) \/ Connect(f) \/ Mint(f)
  BY <1>2, SignInFrame
<1>3. CASE \E c \in Callers : Proceed(c)
  BY <1>3, RefreshFrame
<1>4. CASE \E c \in Callers : \E o \in Orgs : Call(c, o)
  BY <1>4, OtherFrame
<1>5. CASE ExpireDue \/ \E o \in Orgs : BeginDisconnect(o) \/ EndDisconnect(o)
  BY <1>5, OtherFrame
<1>6. CASE Restart \/ \E g \in Grants : Revoke(g)
  BY <1>6, OtherFrame
<1> QED
  BY <1>1, <1>2, <1>3, <1>4, <1>5, <1>6 DEF Next

LEMMA WhoSpends ==
    ASSUME [Next]_vars
    PROVE  \/ UNCHANGED <<requests, states, grants, flow>>
           \/ \E connect \in BOOLEAN : Start(connect)
           \/ \E f \in Flows : \/ \E s \in DOMAIN requests, o \in Orgs : Callback(f, s, o)
                               \/ Exchange(f) \/ Connect(f) \/ Mint(f)
           \/ Restart
<1>1. CASE Tick \/ UNCHANGED vars \/ \E connect \in BOOLEAN : Start(connect)
  BY <1>1, OtherFrame
<1>2. CASE \E f \in Flows : \/ \E s \in DOMAIN requests, o \in Orgs : Callback(f, s, o)
                            \/ Exchange(f) \/ Connect(f) \/ Mint(f)
  BY <1>2, SignInFrame
<1>3. CASE \E c \in Callers : Proceed(c)
  BY <1>3, RefreshFrame
<1>4. CASE \E c \in Callers : \E o \in Orgs : Call(c, o)
  BY <1>4, OtherFrame
<1>5. CASE ExpireDue \/ \E o \in Orgs : BeginDisconnect(o) \/ EndDisconnect(o)
  BY <1>5, OtherFrame
<1>6. CASE Restart \/ \E g \in Grants : Revoke(g)
  BY <1>6, OtherFrame
<1> QED
  BY <1>1, <1>2, <1>3, <1>4, <1>5, <1>6 DEF Next

-----------------------------------------------------------------------------
\* The requests remembered are sign-ins begun, whether they connect or not.
RequestsInv == states \in 0..MaxStates /\ DOMAIN requests \subseteq (1..states) \X BOOLEAN

LEMMA RequestsMove ==
    ASSUME RequestsInv, [Next]_vars
    PROVE  RequestsInv'
<1>1. CASE UNCHANGED <<requests, states>>
  BY <1>1 DEF RequestsInv
<1>2. ASSUME NEW connect \in BOOLEAN, Start(connect)
      PROVE  RequestsInv'
  <2>1. DOMAIN requests' = DOMAIN requests \union {<<states + 1, connect>>}
    BY <1>2 DEF Start
  <2>2. states' = states + 1 /\ states' \in 0..MaxStates /\ 1..states \subseteq 1..states'
    BY <1>2, BoundAssumption DEF Start, RequestsInv
  <2> QED
    BY <2>1, <2>2 DEF RequestsInv
<1>3. ASSUME NEW f \in Flows, NEW s \in DOMAIN requests, NEW o \in Orgs, Callback(f, s, o)
      PROVE  RequestsInv'
  <2>1. DOMAIN requests' = DOMAIN requests \ {s} /\ states' = states
    BY <1>3 DEF Callback, Taken
  <2> QED
    BY <2>1 DEF RequestsInv
<1> QED
  <2>1. \/ UNCHANGED <<requests, states>>
        \/ \E connect \in BOOLEAN : Start(connect)
        \/ \E f \in Flows, s \in DOMAIN requests, o \in Orgs : Callback(f, s, o)
    <3>1. /\ \A f \in Flows : Exchange(f) \/ Connect(f) \/ Mint(f) => UNCHANGED <<requests, states>>
          /\ Restart => UNCHANGED <<requests, states>>
      BY DEF Exchange, Connect, Mint, Restart
    <3> QED
      BY <3>1, WhoSpends
  <2> QED
    BY <1>1, <1>2, <1>3, <2>1

LEMMA CInvMoves ==
    ASSUME CInv, RequestsInv, [Next]_vars
    PROVE  CInv'
<1> USE Constants
<1>0. now \in Nat /\ now <= now /\ alive \in [Grants -> Nat]
  BY DEF CInv, Shape
<1>1. CASE Tick
  BY <1>0, <1>1, GrantsOnlyDie DEF Tick, provider, signin, memory
<1>2. ASSUME NEW connect \in BOOLEAN, Start(connect)
      PROVE  CInv'
  BY <1>0, <1>2, GrantsOnlyDie DEF Start, provider, memory
<1>3. ASSUME NEW f \in Flows, NEW s \in DOMAIN requests, NEW o \in Orgs, Callback(f, s, o)
      PROVE  CInv'
  <2> DEFINE l == [NoFlow EXCEPT !.pc = "exchanging", !.org = o, !.connect = s[2]]
  <2>1. UNCHANGED <<now, alive, grants, lost, row, inFlight, call>>
    BY <1>3 DEF Callback, provider, memory
  <2>2. CASE flow' = flow
    BY <1>0, <2>1, <2>2, GrantsOnlyDie
  <2>3. CASE flow' = [flow EXCEPT ![f] = l]
    <3>1. s[2] \in BOOLEAN
      BY DEF RequestsInv
    <3>2. l \in [pc : {"idle", "exchanging", "minting"}, org : Orgs, connect : BOOLEAN, grant : Nat]
      BY <3>1, Zenon DEF NoFlow
    <3> HIDE DEF l
    <3> QED
      BY <2>1, <2>3, <3>2, FlowMoves
  <2> QED
    BY <1>3, <2>2, <2>3 DEF Callback
<1>4. ASSUME NEW f \in Flows, Mint(f)
      PROVE  CInv'
  <2>1. NoFlow \in [pc : {"idle", "exchanging", "minting"}, org : Orgs, connect : BOOLEAN, grant : Nat]
    BY DEF NoFlow
  <2>2. UNCHANGED <<now, alive, grants, lost, row, inFlight, call>> /\ flow' = [flow EXCEPT ![f] = NoFlow]
    BY <1>4 DEF Mint, provider, memory
  <2> HIDE DEF NoFlow
  <2> QED
    BY <2>1, <2>2, FlowMoves
<1>5. ASSUME NEW c \in Callers, Proceed(c)
      PROVE  CInv'
  <2> DEFINE o == call[c].org
  <2>1. o \in Orgs
    BY DEF CInv, Shape
  <2> HIDE DEF o
  <2>2. PICK p \in Orgs : p = call[c].org
    BY <2>1 DEF o
  <2> QED
    BY <1>5, <2>2, ReadingMoves, RotateMoves, CondemnedMoves, CountingMoves, SaveMoves DEF Proceed
<1>6. CASE ExpireDue
  <2>1. UNCHANGED <<now, alive, grants, lost, flow, inFlight, call>>
    BY <1>6 DEF ExpireDue, provider, signin
  <2>2. ASSUME NEW o \in Orgs
        PROVE  /\ row'[o] \in RowType /\ row'[o].token = row[o].token
               /\ row'[o].status = "active" => row'[o] = row[o]
    <3>1. row[o] \in RowType
      BY DEF CInv, Shape, RowType
    <3>2. row'[o] = row[o] \/ row'[o] = [row[o] EXCEPT !.status = "needs_reauth"]
      BY <1>6 DEF ExpireDue
    <3> QED
      BY <3>1, <3>2 DEF RowType
  <2>3. row' \in [Orgs -> RowType]
    <3>1. row' = [o \in Orgs |-> row'[o]]
      BY <1>6 DEF ExpireDue
    <3> QED
      BY <2>2, <3>1
  <2> QED
    BY <2>1, <2>2, <2>3, EndingMoves
<1>7. ASSUME NEW o \in Orgs, BeginDisconnect(o)
      PROVE  CInv'
  BY <1>0, <1>7, GrantsOnlyDie DEF BeginDisconnect, provider, signin
<1>8. ASSUME NEW o \in Orgs, EndDisconnect(o)
      PROVE  CInv'
  <2> DEFINE s == [row[o] EXCEPT !.token = NoToken, !.status = "disconnected"]
  <2>1. UNCHANGED <<now, alive, grants, lost, flow, inFlight, call>> /\ row' = [row EXCEPT ![o] = s]
    BY <1>8 DEF EndDisconnect, provider, signin
  <2>2. row \in [Orgs -> RowType]
    BY DEF CInv, Shape, RowType
  <2>3. s \in RowType /\ s.token = NoToken /\ s.status = "disconnected"
    BY <2>2 DEF RowType, NoToken
  <2> HIDE DEF s
  <2>4. /\ row' \in [Orgs -> RowType]
        /\ \A p \in Orgs : /\ row'[p].token \in {NoToken, row[p].token}
                           /\ row'[p].status = "active" => row'[p] = row[p]
    BY <2>1, <2>2, <2>3
  <2> QED
    BY <2>1, <2>4, EndingMoves
<1>9. ASSUME NEW g \in Grants, Revoke(g)
      PROVE  CInv'
  BY <1>0, <1>9, GrantsOnlyDie DEF Revoke, signin, memory
<1>10. CASE UNCHANGED vars
  BY <1>0, <1>10, GrantsOnlyDie DEF vars, provider, signin, memory
<1> QED
  BY <1>1, <1>2, <1>3, <1>4, <1>5, <1>6, <1>7, <1>8, <1>9, <1>10,
     ExchangeMoves, ConnectMoves, CallMoves, RestartMoves DEF Next

LEMMA CInvHolds == Spec => [](CInv /\ RequestsInv)
<1>1. Init => RequestsInv
  BY Constants, BoundAssumption DEF Init, RequestsInv
<1>2. Init => CInv /\ RequestsInv
  BY <1>1, InitCInv
<1>3. CInv /\ RequestsInv /\ [Next]_vars => (CInv /\ RequestsInv)'
  BY RequestsMove, CInvMoves
<1> QED
  BY <1>2, <1>3, PTL DEF Spec

\* "Write the new token, then use the access token it came with" (connections.ts): while
\* nobody refreshes it, the credential an active connection stores is the living one,
\* unless the grant died or its rotation was lost on the way.
THEOREM StoredCredentialSurvives == Spec => []CredentialSurvives
<1>1. CInv => CredentialSurvives
  BY DEF CInv, RowInv, Active, CredentialSurvives, IsAlive, Issued, NoToken
<1> QED
  BY <1>1, CInvHolds, PTL

\* accessTokenFor: callers that overlap never condemn a connection by each spending its
\* rotating token; what is marked for another sign-in deserves it.
THEOREM ConnectionsDieForCause == Spec => DiesForCause
<1> DEFINE Cause(o) == \/ row[o].expiresAt <= now
                       \/ ~IsAlive(row[o].token)
                       \/ \E c \in Callers : /\ call[c].pc = "killing" /\ call[c].org = o
                                             /\ GrantOf(row[o].token) # GrantOf(call[c].sent)
<1>1. ASSUME CInv, [Next]_vars, NEW o \in Orgs,
             row[o].status = "active", row'[o].status = "needs_reauth"
      PROVE  Cause(o)
  <2>1. ASSUME NEW c \in Callers, Kill(c)
        PROVE  Cause(o)
    <3>1. call[c].org = o
      BY <1>1, <2>1 DEF Kill, CInv, Shape
    <3>2. CallInv(c) /\ call[c].pc = "killing"
      BY <1>1, <2>1 DEF Kill, CInv
    <3> QED
      BY <1>1, <3>1, <3>2 DEF CallInv, Active
  <2>2. CASE ExpireDue
    <3>1. row'[o] = IF o \in Due THEN [row[o] EXCEPT !.status = "needs_reauth"] ELSE row[o]
      BY <2>2 DEF ExpireDue
    <3>2. o \in Due
      BY <1>1, <3>1
    <3>3. row[o].expiresAt < now /\ row[o].expiresAt \in Nat /\ now \in Nat
      BY <1>1, <3>2 DEF Due, CInv, Shape
    <3> QED
      BY <3>3
  <2>3. ASSUME NEW f \in Flows, Connect(f)
        PROVE  row'[o].status # "needs_reauth"
    <3>1. row' = row \/ \E s : row' = [row EXCEPT ![flow[f].org] = s] /\ s.status = "active"
      BY <2>3 DEF Connect, Stored
    <3> QED
      BY <1>1, <3>1 DEF CInv, Shape
  <2>4. ASSUME NEW c \in Callers, Save(c) \/ CountFailure(c)
        PROVE  row'[o].status = row[o].status
    <3>1. row[call[c].org] \in RowType
      BY <1>1 DEF CInv, Shape, RowType
    <3>2. row' = row \/ \E s : /\ row' = [row EXCEPT ![call[c].org] = s]
                               /\ s.status = row[call[c].org].status
      <4>1. CASE CountFailure(c)
        <5> PICK r : r = row[call[c].org]
          OBVIOUS
        <5>1. r \in RowType
          BY <3>1
        <5> PICK s : s = [r EXCEPT !.failed = r.failed \/ r.status # "none"]
          OBVIOUS
        <5>2. s.status = r.status
          BY <5>1 DEF RowType
        <5>3. row' = [row EXCEPT ![call[c].org] = s]
          BY <4>1 DEF CountFailure
        <5> QED
          BY <5>2, <5>3
      <4>2. CASE Save(c)
        <5> PICK r : r = row[call[c].org]
          OBVIOUS
        <5>1. r \in RowType
          BY <3>1
        <5> PICK s : s = IF r.status = "none" THEN r ELSE [r EXCEPT !.token = call[c].got, !.failed = FALSE]
          OBVIOUS
        <5>2. s.status = r.status
          BY <5>1 DEF RowType
        <5>3. row' = row \/ row' = [row EXCEPT ![call[c].org] = s]
          BY <4>2 DEF Save
        <5> QED
          BY <5>2, <5>3
      <4> QED
        BY <2>4, <4>1, <4>2
    <3> QED
      BY <1>1, <3>2 DEF CInv, Shape
  <2>5. ASSUME NEW p \in Orgs, EndDisconnect(p)
        PROVE  row'[o].status # "needs_reauth"
    BY <1>1, <2>5 DEF EndDisconnect, CInv, Shape
  <2>6. \/ UNCHANGED row \/ ExpireDue
        \/ \E f \in Flows : Connect(f)
        \/ \E c \in Callers : Kill(c) \/ Save(c) \/ CountFailure(c)
        \/ \E p \in Orgs : EndDisconnect(p)
    BY <1>1, WhoWrites
  <2> QED
    BY <1>1, <2>1, <2>2, <2>3, <2>4, <2>5, <2>6
<1>2. CInv /\ [Next]_vars =>
         [\A o \in Orgs :
            row[o].status = "active" /\ row'[o].status = "needs_reauth" => Cause(o)]_vars
  BY <1>1
<1> QED
  BY <1>2, CInvHolds, PTL DEF Spec, DiesForCause

-----------------------------------------------------------------------------
(* The bounds of tokens *)

FlowSet == [pc : {"idle", "exchanging", "connecting", "minting"}, org : Orgs,
            connect : BOOLEAN, grant : 0..MaxGrants]
RowSet == [status : {"none", "active", "needs_reauth", "disconnected"},
           token : Token, expiresAt : Nat, failed : BOOLEAN]
AccessSet == [token : Token, expiresAt : Nat]
CallSet == [pc : {"idle", "waiting"} \union Refreshing, org : Orgs, sent : Token, got : Token]

Typed ==
    /\ alive \in [Grants -> 0..MaxGeneration]
    /\ flow \in [Flows -> FlowSet]
    /\ row \in [Orgs -> RowSet]
    /\ cache \in [Orgs -> AccessSet]
    /\ call \in [Callers -> CallSet]
    /\ leaving \subseteq Orgs

LEMMA EmptyOnes ==
    /\ NoToken \in Token /\ NoFlow \in FlowSet /\ NoRow \in RowSet /\ NoAccess \in AccessSet
    /\ NoCall \in CallSet
    /\ NoToken = <<0, 0>> /\ NoFlow.pc = "idle" /\ NoRow.status = "none" /\ NoRow.token = NoToken
    /\ NoAccess.token = NoToken /\ NoCall.pc = "idle"
<1>1. NoToken \in Token /\ NoToken = <<0, 0>>
  BY BoundAssumption DEF NoToken, Token
<1>2. NoOrg \in Orgs /\ 0 \in 0..MaxGrants
  BY Constants
<1> HIDE DEF NoToken, Token
<1> QED
  BY <1>1, <1>2 DEF NoFlow, FlowSet, NoRow, RowSet, NoAccess, AccessSet, NoCall, CallSet

LEMMA InitTyped == ASSUME Init PROVE Typed
BY EmptyOnes, BoundAssumption DEF Init, Typed

LEMMA FirstToken ==
    ASSUME NEW g \in 0..MaxGrants
    PROVE  <<g, 1>> \in Token /\ <<g, 1>>[1] = g /\ <<g, 1>>[2] = 1
BY BoundAssumption DEF Token

LEMMA NextToken ==
    ASSUME NEW t \in Token, t[2] < MaxGeneration
    PROVE  <<GrantOf(t), t[2] + 1>> \in Token /\ t[2] + 1 \in 0..MaxGeneration
BY BoundAssumption DEF Token, GrantOf

LEMMA AliveTyped ==
    ASSUME Typed, Shape, [Next]_vars
    PROVE  alive' \in [Grants -> 0..MaxGeneration]
<1>1. ASSUME NEW f \in Flows, Exchange(f)
      PROVE  alive' \in [Grants -> 0..MaxGeneration]
  BY <1>1, BoundAssumption DEF Exchange, Typed
<1>2. ASSUME NEW c \in Callers, Rotate(c)
      PROVE  alive' \in [Grants -> 0..MaxGeneration]
  <2> DEFINE n == call[c].sent[2] + 1
             g == GrantOf(call[c].sent)
  <2>1. n \in 0..MaxGeneration
    BY <1>2, NextToken DEF Rotate, Typed, CallSet
  <2>2. alive' = [alive EXCEPT ![g] = n]
    BY <1>2 DEF Rotate
  <2> HIDE DEF n, g
  <2> QED
    BY <2>1, <2>2 DEF Typed
<1>3. ASSUME NEW g \in Grants, Revoke(g)
      PROVE  alive' \in [Grants -> 0..MaxGeneration]
  BY <1>3, BoundAssumption DEF Revoke, Typed
<1> QED
  BY <1>1, <1>2, <1>3, WhoWrites DEF Typed

LEMMA FlowTyped ==
    ASSUME Typed, Shape, RequestsInv, [Next]_vars
    PROVE  flow' \in [Flows -> FlowSet]
<1> USE EmptyOnes
<1>1. ASSUME NEW f \in Flows, NEW s \in DOMAIN requests, NEW o \in Orgs, Callback(f, s, o)
      PROVE  flow' \in [Flows -> FlowSet]
  <2> DEFINE l == [NoFlow EXCEPT !.pc = "exchanging", !.org = o, !.connect = s[2]]
  <2>1. s[2] \in BOOLEAN
    BY DEF RequestsInv
  <2>2. l \in FlowSet
    BY <2>1 DEF FlowSet
  <2>3. flow' = flow \/ flow' = [flow EXCEPT ![f] = l]
    BY <1>1 DEF Callback
  <2> HIDE DEF l
  <2> QED
    BY <2>2, <2>3 DEF Typed
<1>2. ASSUME NEW f \in Flows, Exchange(f)
      PROVE  flow' \in [Flows -> FlowSet]
  <2>1. CASE flow' = [flow EXCEPT ![f] = NoFlow]
    BY <2>1 DEF Typed
  <2>2. CASE /\ grants < MaxGrants
             /\ flow' = [flow EXCEPT ![f].pc = IF flow[f].connect THEN "connecting" ELSE "minting",
                                     ![f].grant = grants + 1]
    <3>1. grants + 1 \in 0..MaxGrants
      BY <2>2, BoundAssumption DEF Shape
    <3>2. PICK pc \in {"connecting", "minting"} :
              flow' = [flow EXCEPT ![f] = [flow[f] EXCEPT !.pc = pc, !.grant = grants + 1]]
      BY <2>2
    <3>3. [flow[f] EXCEPT !.pc = pc, !.grant = grants + 1] \in FlowSet
      BY <3>1 DEF FlowSet, Typed
    <3> QED
      BY <3>2, <3>3 DEF Typed
  <2> QED
    BY <1>2, <2>1, <2>2 DEF Exchange
<1>3. ASSUME NEW f \in Flows, Connect(f) \/ Mint(f)
      PROVE  flow' \in [Flows -> FlowSet]
  <2>1. [flow[f] EXCEPT !.pc = "minting"] \in FlowSet
    BY DEF FlowSet, Typed
  <2>2. \/ flow' = [flow EXCEPT ![f] = NoFlow]
        \/ flow' = [flow EXCEPT ![f] = [flow[f] EXCEPT !.pc = "minting"]]
    BY <1>3 DEF Connect, Mint
  <2> QED
    BY <2>1, <2>2 DEF Typed
<1>4. ASSUME Restart
      PROVE  flow' \in [Flows -> FlowSet]
  BY <1>4 DEF Restart
<1> QED
  BY <1>1, <1>2, <1>3, <1>4, WhoWrites DEF Typed

LEMMA RowTyped ==
    ASSUME Typed, Shape, [Next]_vars
    PROVE  row' \in [Orgs -> RowSet]
<1> USE EmptyOnes
<1>1. ASSUME NEW f \in Flows, Connect(f)
      PROVE  row' \in [Orgs -> RowSet]
  <2> DEFINE t == <<flow[f].grant, 1>>
  <2>1. t \in Token
    BY FirstToken DEF Typed, FlowSet
  <2>2. row' = row \/ row' = [row EXCEPT ![flow[f].org] = Stored(t)]
    BY <1>1 DEF Connect
  <2> HIDE DEF t
  <2>3. Stored(t) \in RowSet
    BY <2>1, BoundAssumption DEF Stored, RowSet, Shape
  <2> QED
    BY <2>2, <2>3 DEF Typed
<1>2. ASSUME NEW c \in Callers, CountFailure(c) \/ Save(c) \/ Kill(c)
      PROVE  row' \in [Orgs -> RowSet]
  <2> DEFINE o == call[c].org
             r == row[o]
  <2>1. o \in Orgs /\ r \in RowSet /\ call[c].got \in Token
    BY DEF Typed, CallSet
  <2>2. CASE CountFailure(c)
    <3> DEFINE failed == r.failed \/ r.status # "none"
    <3>1. row' = [row EXCEPT ![o] = [r EXCEPT !.failed = failed]] /\ failed \in BOOLEAN
      BY <2>2 DEF CountFailure
    <3> HIDE DEF failed
    <3>2. [r EXCEPT !.failed = failed] \in RowSet
      BY <2>1, <3>1 DEF RowSet
    <3> HIDE DEF r, o
    <3> QED
      BY <3>1, <3>2 DEF Typed
  <2>3. CASE Save(c)
    <3>1. [r EXCEPT !.token = call[c].got, !.failed = FALSE] \in RowSet
      BY <2>1 DEF RowSet
    <3>2. \/ row' = row
          \/ row' = [row EXCEPT ![o] = r]
          \/ row' = [row EXCEPT ![o] = [r EXCEPT !.token = call[c].got, !.failed = FALSE]]
      BY <2>3 DEF Save
    <3> HIDE DEF r, o
    <3> QED
      BY <2>1, <3>1, <3>2 DEF Typed
  <2>4. CASE Kill(c)
    <3> DEFINE status == IF r.status = "none" THEN r.status ELSE "needs_reauth"
    <3>1. row' = row \/ row' = [row EXCEPT ![o] = [r EXCEPT !.status = status]]
      BY <2>4 DEF Kill
    <3>2. [r EXCEPT !.status = status] \in RowSet
      BY <2>1 DEF RowSet
    <3> HIDE DEF r, o, status
    <3> QED
      BY <3>1, <3>2 DEF Typed
  <2> QED
    BY <1>2, <2>2, <2>3, <2>4
<1>3. ASSUME ExpireDue
      PROVE  row' \in [Orgs -> RowSet]
  <2>1. \A o \in Orgs : [row[o] EXCEPT !.status = "needs_reauth"] \in RowSet
    BY DEF Typed, RowSet
  <2> QED
    BY <1>3, <2>1 DEF ExpireDue, Typed
<1>4. ASSUME NEW o \in Orgs, EndDisconnect(o)
      PROVE  row' \in [Orgs -> RowSet]
  <2>1. row' = [row EXCEPT ![o] = [row[o] EXCEPT !.token = NoToken, !.status = "disconnected"]]
    BY <1>4 DEF EndDisconnect
  <2>2. [row[o] EXCEPT !.token = NoToken, !.status = "disconnected"] \in RowSet
    BY DEF Typed, RowSet
  <2> QED
    BY <2>1, <2>2 DEF Typed
<1> QED
  BY <1>1, <1>2, <1>3, <1>4, WhoWrites DEF Typed

LEMMA CacheTyped ==
    ASSUME Typed, Shape, [Next]_vars
    PROVE  cache' \in [Orgs -> AccessSet] /\ leaving' \subseteq Orgs
<1> USE EmptyOnes
<1>1. ASSUME NEW c \in Callers, Save(c)
      PROVE  cache' \in [Orgs -> AccessSet]
  <2>1. AccessOf(c) \in AccessSet
    BY BoundAssumption DEF AccessOf, AccessSet, Typed, CallSet, Shape
  <2> QED
    BY <1>1, <2>1 DEF Save, Typed
<1>2. ASSUME NEW o, cache' = [cache EXCEPT ![o] = NoAccess]
      PROVE  cache' \in [Orgs -> AccessSet]
  BY <1>2 DEF Typed
<1>3. cache' \in [Orgs -> AccessSet]
  <2>1. ASSUME NEW f \in Flows, Connect(f)
        PROVE  cache' \in [Orgs -> AccessSet]
    BY <1>2, <2>1 DEF Connect, Typed
  <2>2. ASSUME NEW c \in Callers, ReadEnds(c) \/ Refuse(c)
        PROVE  cache' \in [Orgs -> AccessSet]
    BY <1>2, <2>2 DEF ReadEnds, Refuse
  <2>3. ASSUME ExpireDue \/ Restart
        PROVE  cache' \in [Orgs -> AccessSet]
    BY <2>3 DEF ExpireDue, Restart, Typed
  <2>4. ASSUME NEW o \in Orgs, BeginDisconnect(o)
        PROVE  cache' \in [Orgs -> AccessSet]
    BY <1>2, <2>4 DEF BeginDisconnect
  <2> QED
    BY <1>1, <2>1, <2>2, <2>3, <2>4, WhoForgets DEF Typed
<1>4. leaving' \subseteq Orgs
  BY WhoForgets DEF BeginDisconnect, EndDisconnect, Restart, Typed
<1> QED
  BY <1>3, <1>4

LEMMA CallTyped ==
    ASSUME Typed, [Next]_vars
    PROVE  call' \in [Callers -> CallSet]
<1> USE EmptyOnes
<1>1. ASSUME NEW c \in Callers, NEW ok \in BOOLEAN, Settle(c, ok)
      PROVE  call' \in [Callers -> CallSet]
  BY <1>1 DEF Settle, Typed
<1>2. ASSUME NEW c \in Callers, NEW pc \in Refreshing, Goto(c, pc)
      PROVE  call' \in [Callers -> CallSet]
  <2>1. [call[c] EXCEPT !.pc = pc] \in CallSet
    BY DEF CallSet, Typed
  <2> QED
    BY <1>2, <2>1 DEF Goto, Typed
<1>3. ASSUME NEW c \in Callers, NEW pc \in Refreshing, NEW t \in Token,
             \/ call' = [call EXCEPT ![c].pc = pc, ![c].sent = t]
             \/ call' = [call EXCEPT ![c].pc = pc, ![c].got = t]
      PROVE  call' \in [Callers -> CallSet]
  <2>1. /\ [call[c] EXCEPT !.pc = pc, !.sent = t] \in CallSet
        /\ [call[c] EXCEPT !.pc = pc, !.got = t] \in CallSet
    BY DEF CallSet, Typed
  <2>2. \/ call' = [call EXCEPT ![c] = [call[c] EXCEPT !.pc = pc, !.sent = t]]
        \/ call' = [call EXCEPT ![c] = [call[c] EXCEPT !.pc = pc, !.got = t]]
    BY <1>3
  <2> QED
    BY <2>1, <2>2 DEF Typed
<1>4. ASSUME NEW c \in Callers, NEW o \in Orgs, Call(c, o)
      PROVE  call' \in [Callers -> CallSet]
  <2>1. \A pc \in {"waiting", "reading"} : [NoCall EXCEPT !.pc = pc, !.org = o] \in CallSet
    BY DEF CallSet, Refreshing
  <2>2. \/ call' = [call EXCEPT ![c] = [NoCall EXCEPT !.pc = "waiting", !.org = o]]
        \/ call' = [call EXCEPT ![c] = [NoCall EXCEPT !.pc = "reading", !.org = o]]
    BY <1>4 DEF Call
  <2> QED
    BY <2>1, <2>2 DEF Typed
<1>5. ASSUME NEW c \in Callers, Proceed(c)
      PROVE  call' \in [Callers -> CallSet]
  <2>0. /\ {"reading", "exchanging", "saving", "counting", "killing"} \subseteq Refreshing
        /\ FALSE \in BOOLEAN /\ TRUE \in BOOLEAN
        /\ row[call[c].org].token \in Token /\ call[c].sent \in Token
    BY DEF Refreshing, Typed, CallSet, RowSet
  <2>1. CASE ReadRefuses(c) \/ CountFailure(c) \/ Save(c) \/ Kill(c)
    BY <1>1, <2>0, <2>1 DEF ReadRefuses, CountFailure, Save, Kill
  <2>2. CASE ReadEnds(c) \/ ReadSends(c)
    BY <1>3, <2>0, <2>2 DEF ReadEnds, ReadSends
  <2>3. CASE Rotate(c)
    <3> DEFINE fresh == <<GrantOf(call[c].sent), call[c].sent[2] + 1>>
    <3>1. fresh \in Token
      BY <2>0, <2>3, NextToken DEF Rotate
    <3>2. call' = [call EXCEPT ![c].pc = "saving", ![c].got = fresh] \/ Settle(c, FALSE)
      BY <2>3 DEF Rotate
    <3> HIDE DEF fresh
    <3> QED
      BY <1>1, <1>3, <2>0, <3>1, <3>2
  <2>4. CASE Renew(c)
    BY <1>3, <2>0, <2>4 DEF Renew
  <2>5. CASE Refuse(c)
    BY <1>2, <2>0, <2>5 DEF Refuse
  <2>6. CASE Unavailable(c)
    BY <1>1, <1>2, <2>0, <2>6 DEF Unavailable
  <2> QED
    BY <1>5, <2>1, <2>2, <2>3, <2>4, <2>5, <2>6 DEF Proceed
<1>6. ASSUME Restart
      PROVE  call' \in [Callers -> CallSet]
  BY <1>6 DEF Restart
<1> QED
  BY <1>4, <1>5, <1>6, WhoForgets DEF Typed

LEMMA NextTyped ==
    ASSUME Typed, Shape, RequestsInv, [Next]_vars
    PROVE  Typed'
BY AliveTyped, FlowTyped, RowTyped, CacheTyped, CallTyped DEF Typed

-----------------------------------------------------------------------------
(* What every grant has cost *)

Exchanging == {f \in Flows : flow[f].pc = "exchanging"}

\* A sign-in begun is a request, a callback that took it, or a grant, and never two.
SpendInv ==
    /\ IsFiniteSet(DOMAIN requests) /\ IsFiniteSet(Exchanging)
    /\ grants + Cardinality(Exchanging) + Cardinality(DOMAIN requests) <= states

-----------------------------------------------------------------------------
(* One consent, one grant *)

LEMMA InitSpend == Init => SpendInv
<1> SUFFICES ASSUME Init PROVE SpendInv
  OBVIOUS
<1>1. DOMAIN requests = {} /\ Exchanging = {}
  BY EmptyOnes DEF Init, Exchanging
<1>2. IsFiniteSet({}) /\ Cardinality({}) = 0
  BY FS_EmptySet
<1>3. states = 0 /\ grants = 0
  BY DEF Init
<1> QED
  BY <1>1, <1>2, <1>3 DEF SpendInv

LEMMA Sizes ==
    ASSUME RequestsInv, SpendInv, Shape
    PROVE  /\ grants \in Nat /\ states \in Nat
           /\ Cardinality(Exchanging) \in Nat /\ Cardinality(DOMAIN requests) \in Nat
BY FS_CardinalityType, BoundAssumption DEF RequestsInv, SpendInv, Shape

LEMMA NextSpend ==
    ASSUME Typed, Shape, RequestsInv, SpendInv, [Next]_vars
    PROVE  SpendInv'
<1> USE Sizes
<1>0. /\ IsFiniteSet(DOMAIN requests) /\ IsFiniteSet(Exchanging)
      /\ grants + Cardinality(Exchanging) + Cardinality(DOMAIN requests) <= states
      /\ states \in 0..MaxStates /\ DOMAIN requests \subseteq (1..states) \X BOOLEAN
  BY DEF SpendInv, RequestsInv
<1>1. ASSUME NEW connect \in BOOLEAN, Start(connect)
      PROVE  SpendInv'
  <2> DEFINE s == <<states + 1, connect>>
  <2>1. /\ DOMAIN requests' = DOMAIN requests \union {s} /\ states' = states + 1
        /\ grants' = grants /\ Exchanging' = Exchanging
    BY <1>1, BoundAssumption DEF Start, provider, Exchanging
  <2>2. s \notin DOMAIN requests
    BY <1>0
  <2> HIDE DEF s
  <2>4. /\ IsFiniteSet(DOMAIN requests \union {s})
        /\ Cardinality(DOMAIN requests \union {s}) = Cardinality(DOMAIN requests) + 1
    BY <1>0, <2>2, FS_AddElement
  <2>6. grants + Cardinality(Exchanging) + (Cardinality(DOMAIN requests) + 1) <= states + 1
    BY <1>0
  <2> QED
    BY <1>0, <2>1, <2>4, <2>6 DEF SpendInv
<1>2. ASSUME NEW f \in Flows, NEW s \in DOMAIN requests, NEW o \in Orgs, Callback(f, s, o)
      PROVE  SpendInv'
  <2> DEFINE n == Cardinality(DOMAIN requests)
             e == Cardinality(Exchanging)
  <2>1. DOMAIN requests' = DOMAIN requests \ {s} /\ states' = states /\ grants' = grants
    BY <1>2 DEF Callback, Taken, provider
  <2>2. /\ IsFiniteSet(DOMAIN requests \ {s})
        /\ Cardinality(DOMAIN requests \ {s}) = n - 1
    BY <1>0, FS_RemoveElement
  <2>3. n >= 1
    <3>1. n # 0
      BY <1>0, FS_EmptySet
    <3> QED
      BY <3>1
  <2>4. CASE flow' = flow
    <3>1. Exchanging' = Exchanging
      BY <2>4 DEF Exchanging
    <3>2. grants + e + (n - 1) <= states
      BY <1>0
    <3> QED
      BY <1>0, <2>1, <2>2, <3>1, <3>2 DEF SpendInv
  <2>5. CASE flow' # flow
    <3> DEFINE l == [NoFlow EXCEPT !.pc = "exchanging", !.org = o, !.connect = s[2]]
    <3>1. flow' = [flow EXCEPT ![f] = l] /\ flow[f].pc = "idle"
      BY <1>2, <2>5 DEF Callback
    <3>2. l.pc = "exchanging"
      BY DEF NoFlow
    <3> HIDE DEF l
    <3>3. Exchanging' = Exchanging \union {f} /\ f \notin Exchanging
      BY <3>1, <3>2 DEF Exchanging, Typed
    <3>4. IsFiniteSet(Exchanging \union {f}) /\ Cardinality(Exchanging \union {f}) = e + 1
      BY <1>0, <3>3, FS_AddElement
    <3>5. grants + (e + 1) + (n - 1) <= states
      BY <1>0
    <3> QED
      BY <1>0, <2>1, <2>2, <3>3, <3>4, <3>5 DEF SpendInv
  <2> QED
    BY <2>4, <2>5
<1>3. ASSUME NEW f \in Flows, Exchange(f)
      PROVE  SpendInv'
  <2> DEFINE n == Cardinality(DOMAIN requests)
             e == Cardinality(Exchanging)
  <2>1. requests' = requests /\ states' = states /\ grants' \in {grants, grants + 1}
    BY <1>3 DEF Exchange
  <2>2. /\ flow[f].pc = "exchanging" /\ DOMAIN flow' = DOMAIN flow
        /\ \A h \in Flows \ {f} : flow'[h] = flow[h]
    BY <1>3 DEF Exchange, Typed
  <2>3. flow'[f].pc # "exchanging"
    <3>1. CASE flow' = [flow EXCEPT ![f] = NoFlow]
      BY <3>1, EmptyOnes DEF Typed
    <3>2. CASE flow' = [flow EXCEPT
                          ![f].pc = IF flow[f].connect THEN "connecting" ELSE "minting",
                          ![f].grant = grants + 1]
      <4>1. PICK pc \in {"connecting", "minting"} :
                flow' = [flow EXCEPT ![f] = [flow[f] EXCEPT !.pc = pc, !.grant = grants + 1]]
        BY <3>2
      <4> QED
        BY <4>1 DEF Typed, FlowSet
    <3> QED
      BY <1>3, <3>1, <3>2 DEF Exchange
  <2>4. f \in Exchanging /\ Exchanging' = Exchanging \ {f}
    BY <2>2, <2>3 DEF Exchanging
  <2>5. IsFiniteSet(Exchanging \ {f}) /\ Cardinality(Exchanging \ {f}) = e - 1
    BY <1>0, <2>4, FS_RemoveElement
  <2>6. grants' + (e - 1) + n <= states
    BY <1>0, <2>1
  <2> QED
    BY <1>0, <2>1, <2>4, <2>5, <2>6 DEF SpendInv
<1>4. ASSUME NEW f \in Flows, Connect(f) \/ Mint(f)
      PROVE  SpendInv'
  <2>1. UNCHANGED <<requests, states, grants>>
    BY <1>4 DEF Connect, Mint, provider
  <2>2. /\ flow[f].pc # "exchanging"
        /\ \/ flow' = [flow EXCEPT ![f] = NoFlow]
           \/ flow' = [flow EXCEPT ![f] = [flow[f] EXCEPT !.pc = "minting"]]
    BY <1>4 DEF Connect, Mint
  <2>3. Exchanging' = Exchanging
    BY <2>2, EmptyOnes DEF Exchanging, Typed, FlowSet
  <2> QED
    BY <1>0, <2>1, <2>3 DEF SpendInv
<1>5. ASSUME Restart
      PROVE  SpendInv'
  <2>1. UNCHANGED <<requests, states, grants>> /\ Exchanging' = {}
    BY <1>5, EmptyOnes DEF Restart, Exchanging
  <2>2. IsFiniteSet({}) /\ Cardinality({}) = 0
    BY FS_EmptySet
  <2>3. grants + 0 + Cardinality(DOMAIN requests) <= states
    BY <1>0
  <2> QED
    BY <1>0, <2>1, <2>2, <2>3 DEF SpendInv
<1>6. ASSUME UNCHANGED <<requests, states, grants, flow>>
      PROVE  SpendInv'
  BY <1>6 DEF SpendInv, Exchanging
<1> QED
  BY <1>1, <1>2, <1>3, <1>4, <1>5, <1>6, WhoSpends

-----------------------------------------------------------------------------
(* Nothing is used before it is stored *)

\* An organisation without a row has no credential, and an access token in use is of
\* the grant and at most of the generation that the row holds, or of another grant.
UsedInv(o) ==
    /\ cache[o].token = NoToken \/ GrantOf(cache[o].token) # 0
    /\ row[o].status = "none" => row[o].token = NoToken
    /\ GrantOf(cache[o].token) = GrantOf(row[o].token) => cache[o].token[2] <= row[o].token[2]

SessionInv(f) ==
    flow[f].pc = "minting" /\ flow[f].connect => row[flow[f].org].status # "none"

\* What every step but storing a grant, saving a rotation and disconnecting keeps.
Keeps(o) ==
    /\ cache'[o] = cache[o] \/ cache'[o] = NoAccess
    /\ row'[o].token = row[o].token
    /\ row'[o].status = "none" <=> row[o].status = "none"

LEMMA KeepsUsed ==
    ASSUME NEW o \in Orgs, Typed, UsedInv(o), Keeps(o)
    PROVE  UsedInv(o)'
<1>1. row[o].token[2] \in Nat /\ row[o].token \in Token
  BY BoundAssumption DEF Typed, RowSet, Token
<1>2. CASE cache'[o] = cache[o]
  BY <1>2 DEF UsedInv, Keeps
<1>3. CASE cache'[o] = NoAccess
  <2>1. cache'[o].token = NoToken /\ NoToken[2] = 0
    BY <1>3, EmptyOnes
  <2>2. UsedInv(o)!2'
    BY DEF UsedInv, Keeps
  <2> QED
    BY <1>1, <2>1, <2>2 DEF UsedInv, Keeps
<1> QED
  BY <1>2, <1>3 DEF Keeps

LEMMA StepKeeps ==
    ASSUME Typed, [Next]_vars,
           \A f \in Flows : ~Connect(f), \A c \in Callers : ~Save(c),
           \A o \in Orgs : ~EndDisconnect(o)
    PROVE  \A o \in Orgs : Keeps(o)
<1> SUFFICES ASSUME NEW o \in Orgs PROVE Keeps(o)
  OBVIOUS
<1>1. cache'[o] = cache[o] \/ cache'[o] = NoAccess
  BY WhoForgets DEF ReadEnds, Refuse, ExpireDue, Restart, BeginDisconnect, Typed
<1>2. ASSUME NEW c \in Callers, CountFailure(c)
      PROVE  row'[o].token = row[o].token /\ row'[o].status = row[o].status
  <2> DEFINE failed == row[call[c].org].failed \/ row[call[c].org].status # "none"
  <2>1. row' = [row EXCEPT ![call[c].org] = [row[call[c].org] EXCEPT !.failed = failed]]
    BY <1>2 DEF CountFailure
  <2> HIDE DEF failed
  <2> QED
    BY <2>1 DEF Typed, RowSet
<1>3. ASSUME NEW c \in Callers, Kill(c)
      PROVE  row'[o].token = row[o].token /\ (row'[o].status = "none" <=> row[o].status = "none")
  <2> DEFINE r == row[call[c].org]
             status == IF r.status = "none" THEN r.status ELSE "needs_reauth"
  <2>1. row' = row \/ row' = [row EXCEPT ![call[c].org] = [r EXCEPT !.status = status]]
    BY <1>3 DEF Kill
  <2>2. status = "none" <=> r.status = "none"
    OBVIOUS
  <2> HIDE DEF status
  <2> QED
    BY <2>1, <2>2 DEF Typed, RowSet
<1>4. ASSUME ExpireDue
      PROVE  row'[o].token = row[o].token /\ (row'[o].status = "none" <=> row[o].status = "none")
  <2>1. /\ row'[o] = row[o] \/ row'[o] = [row[o] EXCEPT !.status = "needs_reauth"]
        /\ row'[o] # row[o] => row[o].status = "active"
    BY <1>4 DEF ExpireDue, Due
  <2> QED
    BY <2>1 DEF Typed, RowSet
<1> QED
  BY <1>1, <1>2, <1>3, <1>4, WhoWrites DEF Keeps

LEMMA NextUsed ==
    ASSUME CInv, Typed, \A o \in Orgs : UsedInv(o), [Next]_vars, NEW o \in Orgs
    PROVE  UsedInv(o)'
<1>0. /\ row \in [Orgs -> RowSet] /\ cache \in [Orgs -> AccessSet]
      /\ NoAccess.token = NoToken /\ NoToken[1] = 0 /\ NoToken[2] = 0
  BY EmptyOnes DEF Typed
<1>1. ASSUME NEW f \in Flows, Connect(f)
      PROVE  UsedInv(o)'
  <2> DEFINE t == <<flow[f].grant, 1>>
  <2>1. \/ row' = row /\ cache' = cache
        \/ /\ row' = [row EXCEPT ![flow[f].org] = Stored(t)]
           /\ cache' = [cache EXCEPT ![flow[f].org] = NoAccess]
    BY <1>1 DEF Connect
  <2>2. CASE (row' = row /\ cache' = cache) \/ o # flow[f].org
    BY <1>0, <2>1, <2>2, KeepsUsed DEF Keeps
  <2>3. CASE ~(row' = row /\ cache' = cache) /\ o = flow[f].org
    <3>1. row'[o] = Stored(t) /\ cache'[o] = NoAccess
      BY <1>0, <2>1, <2>3
    <3>2. row'[o].token = t /\ row'[o].status = "active" /\ t[2] = 1
      BY <3>1 DEF Stored
    <3>3. cache'[o].token = NoToken /\ NoToken[2] <= t[2]
      BY <1>0, <3>1, <3>2
    <3> HIDE DEF t
    <3> QED
      BY <3>2, <3>3 DEF UsedInv
  <2> QED
    BY <2>2, <2>3
<1>2. ASSUME NEW c \in Callers, Save(c)
      PROVE  UsedInv(o)'
  <2> DEFINE p == call[c].org
             t == call[c].got
  <2>1. t \in Token /\ p \in Orgs /\ GrantOf(t) # 0 /\ t[2] \in Nat
    <3>1. Issued(t) /\ grants \in Nat
      BY <1>2 DEF Save, CInv, CallInv, Shape
    <3>2. t \in Token /\ p \in Orgs
      BY DEF Typed, CallSet
    <3> HIDE DEF t
    <3> QED
      BY <3>1, <3>2, BoundAssumption DEF Issued, GrantOf, Token
  <2>2. CASE o # p \/ (row' = row /\ cache' = cache)
    <3>1. Keeps(o)
      BY <1>0, <1>2, <2>2 DEF Save, Keeps
    <3> QED
      BY <3>1, KeepsUsed
  <2>3. CASE o = p /\ ~(row' = row /\ cache' = cache)
    <3>1. cache'[o].token = t
      <4>1. cache' = [cache EXCEPT ![p] = AccessOf(c)]
        BY <1>2, <2>3 DEF Save
      <4>2. AccessOf(c).token = t
        BY DEF AccessOf
      <4> QED
        BY <1>0, <2>3, <4>1, <4>2
    <3>2. CASE row[o].status = "none"
      <4>1. row'[o] = row[o]
        BY <1>0, <1>2, <2>3, <3>2 DEF Save
      <4>2. row[o].token = NoToken /\ GrantOf(NoToken) = 0
        BY <1>0, <3>2 DEF UsedInv, GrantOf
      <4> HIDE DEF t, p
      <4> QED
        BY <2>1, <3>1, <4>1, <4>2 DEF UsedInv
    <3>3. CASE row[o].status # "none"
      <4>1. row'[o] = [row[o] EXCEPT !.token = t, !.failed = FALSE]
        BY <1>0, <1>2, <2>3, <3>3 DEF Save
      <4> HIDE DEF t, p
      <4>2. row'[o].token = t /\ row'[o].status # "none"
        BY <1>0, <3>3, <4>1 DEF RowSet
      <4> QED
        BY <2>1, <3>1, <4>2 DEF UsedInv
    <3> QED
      BY <3>2, <3>3
  <2> QED
    BY <2>2, <2>3
<1>3. ASSUME NEW p \in Orgs, EndDisconnect(p)
      PROVE  UsedInv(o)'
  <2>1. cache' = cache
        /\ row' = [row EXCEPT ![p] = [row[p] EXCEPT !.token = NoToken, !.status = "disconnected"]]
    BY <1>3 DEF EndDisconnect
  <2>2. CASE o # p
    BY <1>0, <2>1, <2>2, KeepsUsed DEF Keeps
  <2>3. CASE o = p
    <3>1. row'[o].token = NoToken /\ row'[o].status = "disconnected"
      BY <1>0, <2>1, <2>3 DEF RowSet
    <3>2. cache'[o].token = cache[o].token /\ GrantOf(NoToken) = 0
      BY <1>0, <2>1 DEF GrantOf
    <3>3. cache[o].token = NoToken \/ GrantOf(cache[o].token) # 0
      BY DEF UsedInv
    <3> QED
      BY <1>0, <3>1, <3>2, <3>3 DEF UsedInv
  <2> QED
    BY <2>2, <2>3
<1> QED
  BY <1>1, <1>2, <1>3, StepKeeps, KeepsUsed

LEMMA NextSession ==
    ASSUME Typed, \A f \in Flows : SessionInv(f), [Next]_vars, NEW f \in Flows
    PROVE  SessionInv(f)'
<1>1. \A o \in Orgs : row[o].status # "none" => row'[o].status # "none"
  <2> SUFFICES ASSUME NEW o \in Orgs, row[o].status # "none"
               PROVE  row'[o].status # "none"
    OBVIOUS
  <2>1. ASSUME NEW g \in Flows, Connect(g)
        PROVE  row'[o].status # "none"
    BY <2>1 DEF Connect, Stored, Typed
  <2>2. ASSUME NEW c \in Callers, Save(c)
        PROVE  row'[o].status # "none"
    <3>1. row'[o] \in {row[o], [row[o] EXCEPT !.token = call[c].got, !.failed = FALSE]}
      BY <2>2 DEF Save, Typed
    <3> QED
      BY <3>1 DEF Typed, RowSet
  <2>3. ASSUME NEW p \in Orgs, EndDisconnect(p)
        PROVE  row'[o].status # "none"
    <3>1. row' = [row EXCEPT ![p] = [row[p] EXCEPT !.token = NoToken, !.status = "disconnected"]]
      BY <2>3 DEF EndDisconnect
    <3> QED
      BY <3>1 DEF Typed, RowSet
  <2> QED
    BY <2>1, <2>2, <2>3, StepKeeps DEF Keeps
<1>2. flow[f].org \in Orgs
  BY DEF Typed, FlowSet
<1>3. CASE flow'[f] = flow[f]
  BY <1>1, <1>2, <1>3 DEF SessionInv
<1>4. CASE flow'[f].pc # "minting" \/ ~flow'[f].connect
  BY <1>4 DEF SessionInv
<1>5. ASSUME NEW g \in Flows, NEW s \in DOMAIN requests, NEW o \in Orgs, Callback(g, s, o)
      PROVE  SessionInv(f)'
  <2> DEFINE l == [NoFlow EXCEPT !.pc = "exchanging", !.org = o, !.connect = s[2]]
  <2>1. flow' = flow \/ flow' = [flow EXCEPT ![g] = l]
    BY <1>5 DEF Callback
  <2>2. l.pc = "exchanging"
    BY DEF NoFlow
  <2> HIDE DEF l
  <2> QED
    BY <1>3, <1>4, <2>1, <2>2 DEF Typed
<1>6. ASSUME NEW g \in Flows, Exchange(g)
      PROVE  SessionInv(f)'
  <2>1. CASE f # g \/ flow' = [flow EXCEPT ![g] = NoFlow]
    BY <1>3, <1>4, <1>6, <2>1, EmptyOnes DEF Exchange, Typed
  <2>2. CASE f = g /\ flow' # [flow EXCEPT ![g] = NoFlow]
    <3>1. flow' = [flow EXCEPT ![f].pc = IF flow[f].connect THEN "connecting" ELSE "minting",
                               ![f].grant = grants + 1]
      BY <1>6, <2>2 DEF Exchange
    <3>2. PICK pc : /\ flow' = [flow EXCEPT ![f] = [flow[f] EXCEPT !.pc = pc, !.grant = grants + 1]]
                    /\ flow[f].connect => pc = "connecting"
      BY <3>1
    <3>3. flow'[f].connect = flow[f].connect /\ flow'[f].pc = pc
      BY <3>2 DEF Typed, FlowSet
    <3> QED
      BY <1>4, <3>2, <3>3
  <2> QED
    BY <2>1, <2>2
<1>7. ASSUME NEW g \in Flows, Connect(g)
      PROVE  SessionInv(f)'
  <2>1. CASE f # g \/ flow' = [flow EXCEPT ![g] = NoFlow]
    BY <1>3, <1>4, <1>7, <2>1, EmptyOnes DEF Connect, Typed
  <2>2. CASE f = g /\ flow' # [flow EXCEPT ![g] = NoFlow]
    <3>1. /\ flow' = [flow EXCEPT ![f] = [flow[f] EXCEPT !.pc = "minting"]]
          /\ row' = [row EXCEPT ![flow[f].org] = Stored(<<flow[f].grant, 1>>)]
      BY <1>7, <2>2 DEF Connect
    <3>2. flow'[f].org = flow[f].org
      BY <3>1 DEF Typed, FlowSet
    <3>3. row'[flow[f].org].status = "active"
      BY <1>2, <3>1 DEF Stored, Typed
    <3> QED
      BY <3>2, <3>3 DEF SessionInv
  <2> QED
    BY <2>1, <2>2
<1>8. ASSUME NEW g \in Flows, Mint(g)
      PROVE  SessionInv(f)'
  BY <1>3, <1>4, <1>8, EmptyOnes DEF Mint, Typed
<1>9. ASSUME Restart
      PROVE  SessionInv(f)'
  BY <1>4, <1>9, EmptyOnes DEF Restart
<1> QED
  BY <1>3, <1>5, <1>6, <1>7, <1>8, <1>9, WhoWrites

-----------------------------------------------------------------------------
(* Together *)

Kept ==
    /\ Typed /\ SpendInv
    /\ \A o \in Orgs : UsedInv(o)
    /\ \A f \in Flows : SessionInv(f)

LEMMA InitKept == Init => Kept
<1> SUFFICES ASSUME Init PROVE Kept
  OBVIOUS
<1>1. \A o \in Orgs : UsedInv(o)
  BY EmptyOnes DEF Init, UsedInv, GrantOf
<1>2. \A f \in Flows : SessionInv(f)
  BY EmptyOnes DEF Init, SessionInv
<1> QED
  BY <1>1, <1>2, InitTyped, InitSpend DEF Kept

LEMMA NextKept == CInv /\ RequestsInv /\ Kept /\ [Next]_vars => Kept'
<1> SUFFICES ASSUME CInv, RequestsInv, Kept, [Next]_vars PROVE Kept'
  OBVIOUS
<1>1. Shape
  BY DEF CInv
<1>2. Typed' /\ SpendInv'
  BY <1>1, NextTyped, NextSpend DEF Kept
<1>3. ASSUME NEW o \in Orgs PROVE UsedInv(o)'
  BY NextUsed DEF Kept
<1>4. ASSUME NEW f \in Flows PROVE SessionInv(f)'
  BY NextSession DEF Kept
<1> QED
  BY <1>2, <1>3, <1>4 DEF Kept

LEMMA KeptIsStored == CInv /\ RequestsInv /\ Kept => CredentialsAreStored
<1> SUFFICES ASSUME CInv, RequestsInv, Kept PROVE CredentialsAreStored
  OBVIOUS
<1>1. ASSUME NEW c \in Callers
      PROVE  call[c].pc \in Refreshing <=> inFlight[call[c].org] = c /\ call[c].pc # "idle"
  <2>1. call[c].org \in Orgs /\ c # Nobody /\ "idle" \notin Refreshing
    BY Constants DEF Kept, Typed, CallSet, Refreshing
  <2>2. CallInv(c) /\ RowInv(call[c].org)
    BY <2>1 DEF CInv
  <2> QED
    BY <2>1, <2>2 DEF CallInv, RowInv
<1>2. TypeOK
  BY <1>1 DEF TypeOK, CInv, Shape, Kept, Typed, FlowSet, RowSet, AccessSet, CallSet, RequestsInv
<1>3. UsedIsPersisted
  BY DEF UsedIsPersisted, Kept, UsedInv
<1>4. SessionNeedsStore
  BY DEF SessionNeedsStore, Kept, SessionInv
<1>5. ConsentIsSpentOnce
  <2>1. Shape /\ SpendInv
    BY DEF CInv, Kept
  <2>2. grants + Cardinality(Exchanging) + Cardinality(DOMAIN requests) <= states
    BY <2>1 DEF SpendInv
  <2> QED
    BY <2>1, <2>2, Sizes DEF ConsentIsSpentOnce
<1> QED
  BY <1>2, <1>3, <1>4, <1>5 DEF CredentialsAreStored

\* Whatever fails, restarts or comes twice, the state is well formed, no access token
\* is used that the row does not account for, no session comes before the connection it
\* was to come with, and one consent is worth one grant (connections.ts, the callback).
THEOREM CredentialsAreKept == Spec => []CredentialsAreStored
<1>1. Spec => [](CInv /\ RequestsInv)
  BY CInvHolds
<1>2. Spec /\ [](CInv /\ RequestsInv) => []Kept
  BY InitKept, NextKept, PTL DEF Spec
<1>3. [](CInv /\ RequestsInv) /\ []Kept => []CredentialsAreStored
  BY KeptIsStored, PTL
<1> QED
  BY <1>1, <1>2, <1>3, PTL

(***************************************************************************)
(* The console's feed: what is stored, what is listed, what is posted.     *)
(***************************************************************************)
Rows == [status : Statuses \union {"none"}, explained : BOOLEAN]

AckLocals == [at : {"idle", "read", "saved", "done"}, read : Rows, of : Incidents]
TickLocals == [at : {"idle", "work", "publish", "explain", "asking", "saved", "counted"},
               before : SUBSET Incidents, after : [Incidents -> Rows] \union {<<>>},
               left : SUBSET Incidents, of : Incidents, count : Nat]
HasListed(r) == r.at \notin {"idle", "work"} => r.after \in [Incidents -> Rows]

\* A tick, an acknowledgement or an explanation writes a row it has read.
StoredInv ==
    /\ stored \in [Incidents -> Rows]
    /\ ack \in [Acks -> AckLocals]
    /\ tick \in [Ticks -> TickLocals]
    /\ \A t \in Ticks : HasListed(tick[t])

StreamInv ==
    /\ client \in [state : {"waiting", "opening", "connected"}, c : Nat, opened : BOOLEAN]
    /\ handler \in [Connections -> {"none", "resolving", "subscribed", "closed", "gone", "left"}]

\* The newest request asks for what the filter says, and brings what matches it.
ListInv ==
    /\ list \in [status : {"idle", "loading", "ready", "error"}, filter : Filters, ticket : 0..MaxRequests]
    /\ asks \in [Requests -> [at : {"none", "sent", "read"}, filter : Filters, rows : [Incidents -> Rows]]]
    /\ shown = [i \in Incidents |-> shown[i]]
    /\ \A k \in Requests : asks[k].at = "read" =>
          \A i \in Incidents : asks[k].rows[i] # Absent => Matches(asks[k].rows[i], asks[k].filter)
    /\ \A k \in Requests : k = list.ticket /\ asks[k] # NoAsk => asks[k].filter = list.filter
    /\ ShownAnswersTheFilter

HookInv ==
    /\ hook \in [inFlight : Nat, dropped : Nat, ended : Nat, posts : SUBSET Nat, offered : Nat]
    /\ IsFiniteSet(hook.posts) /\ \A k \in hook.posts : k <= hook.offered
    /\ PostsAreCounted

FeedInv == mode \in Modes /\ StoredInv /\ StreamInv /\ ListInv /\ HookInv

(***************************************************************************)
(* What a reader signs and picks.                                          *)
(***************************************************************************)
Final == {"success", "reverted"}
Fixes == [status : {"open", "resolved"}, outcome : {"none", "succeeded", "failed"}]

TxRecords == [from : {"nobody", "signer", "other"}, nonce : Nat,
              fate : {"unsent", "pending", "success", "reverted", "displaced"}]
LedgerRows == [hash : Hashes, ok : BOOLEAN]
PanelLocals ==
    [at : {"blank", "ready", "switching", "asking", "loading", "checking", "waiting", "saving"},
     account : {"none", "signer", "other"}, chain : BOOLEAN, hash : Hashes \union {NoHash},
     row : Fixes, result : {"none", "included", "not included"}]
SceneLocals == [at : {"idle", "planning", "signing", "reporting"}, plan : Seq(Nat),
                signed : Seq(Hashes), produced : Seq(Hashes), error : {"none", "not asked"}]
PickerLocals == [at : {"idle", "listing", "adding", "claiming", "removing", "saved"},
                 listed : BOOLEAN, offered : SUBSET Workflows, picked : SUBSET Workflows,
                 adding : SUBSET Workflows, removing : SUBSET Workflows, saved : BOOLEAN]

\* What is displaced was displaced by another of the same sender and nonce.
TxInv ==
    /\ tx \in [Hashes -> TxRecords] /\ next \in Nat
    /\ \A h \in Hashes : tx[h].fate = "displaced" =>
          \E g \in Hashes : tx[g].from = tx[h].from /\ tx[g].nonce = tx[h].nonce /\ tx[g].fate \in Final

\* A panel waits only for what agrees with its plan, and saves a success or a
\* resolution only where one is in the ledger.
Won == \E k \in DOMAIN ledger : ledger[k].ok
Credible(h) == Agrees(h) /\ TookItsNonce(h)
LedgerInv ==
    /\ ledger \in Seq(LedgerRows)
    /\ \A k \in DOMAIN ledger : ledger[k].ok => Credible(ledger[k].hash)
    /\ fixed \in Fixes /\ (fixed.status = "resolved" => Won)
Justified(r) ==
    /\ r.at \in {"switching", "asking"} => r.account = "signer"
    /\ r.at \in {"loading", "checking", "waiting", "saving"} => r.hash \in Hashes
    /\ r.at = "waiting" => Agrees(r.hash)
    /\ r.row.status = "resolved" => Won
    /\ r.at = "saving" /\ r.row.outcome = "succeeded" => Won
PanelInv == panel \in [Panels -> PanelLocals] /\ \A p \in Panels : Justified(panel[p])

\* What a scene produced follows its plan as far as it goes.
Follows(hashes, plan) == \A k \in DOMAIN hashes :
    k \in DOMAIN plan /\ tx[hashes[k]].from = "signer" /\ (~mode.renonces => tx[hashes[k]].nonce = plan[k])
InStep(r) ==
    /\ Follows(r.signed, r.plan)
    /\ r.at = "signing" => Follows(r.produced, r.plan)
    /\ r.at = "planning" => r.signed = <<>>
SceneInv == scene \in [Scenes -> SceneLocals] /\ \A s \in Scenes : InStep(scene[s])

\* Whoever was the last to change what is watched shows it once saved.
Settles(r) == r.saved => r.at = "idle" /\ r.picked = r.offered
PickerInv ==
    /\ watching \subseteq Workflows /\ claim \in [Workflows -> {"none", "ours", "theirs"}]
    /\ picker \in [Pickers -> PickerLocals]
    /\ \A t \in Pickers : Settles(picker[t])
    /\ \A t \in Pickers : picker[t].saved /\ lastCall = t => picker[t].offered = watching

SigningInv == TxInv /\ LedgerInv /\ PanelInv /\ SceneInv /\ PickerInv

(***************************************************************************)
(* What a question is answered.                                            *)
(***************************************************************************)
States == {"none", "absent", "pending", "clean", "reverted"}
Classes == {"none", "drift", "underpriced", "starved"}
Answers == [state : States, replay : {"passed", "failed", "unknown"}, class : Classes,
            source : {"none", "model", "template"}]
Entries == [of : Transactions, answer : Answers]

AskerLocals == [at : {"idle", "reading", "judging", "asking", "answer", "answered"},
                of : Transactions \union {NobodysTx}, answer : Answers, attempt : 0..Attempts - 1]

\* What was read is said truly, whatever is made of it: a replay passes where the
\* chain drifted, and there alone.
Read(answer, x) ==
    /\ answer.state \in {"pending", "clean", "reverted"}
    /\ Rank[answer.state] <= Rank[Status(x)]
    /\ answer.state \in {"clean", "reverted"} => answer.state = Status(x)
    /\ answer.replay = "passed" => answer.state = "reverted" /\ visible[x] = "drifted"
    /\ answer.source = "none"

\* An answer on its way says what was read, and then what a rule found in it.
Honest(r) ==
    /\ r.at # "idle" => r.of \in Transactions
    /\ r.at = "reading" => r.answer = Unanswered
    /\ r.at = "judging" => Read(r.answer, r.of) /\ r.answer.class = "none"
    /\ r.at = "asking" => /\ Read(r.answer, r.of) /\ r.answer.class # "none"
                          /\ (r.answer.class = "drift") = (r.answer.replay = "passed")
    /\ r.at \in {"answer", "answered"} => Told(r.answer, r.of)
AskersInv ==
    /\ visible \in [Transactions -> {"absent", "pending", "clean", "drifted", "doomed"}]
    /\ asker \in [Askers -> AskerLocals]
    /\ \A q \in Askers : Honest(asker[q])

\* What is remembered was told, of one transaction once.
IsTrue(e) == Told(e.answer, e.of)
OnceEach(kept) == \A j, k \in DOMAIN kept : kept[j].of = kept[k].of => j = k
CacheInv ==
    /\ answers \in Seq(Entries) /\ Len(answers) <= CacheLimit /\ OnceEach(answers)
    /\ \A k \in DOMAIN answers : IsTrue(answers[k])

\* Each attempt of each request is billed at most once.
Billed(r) == CASE r.at \in {"idle", "reading", "judging"} -> {}
               [] r.at = "asking" -> 1..r.attempt
               [] OTHER -> 1..Attempts
Bills == {b \in Askers \X (1..Attempts) : b[2] \in Billed(asker[b[1]])}
CallsInv == calls \in Nat /\ calls <= Cardinality(Bills)

DiagnosisInv == AskersInv /\ CacheInv /\ CallsInv

(***************************************************************************)
(* The webhook: what is offered at once is a finite number of events, of   *)
(* which as many are posted as there is room for.                          *)
(***************************************************************************)
LEMMA FeedConstants ==
    /\ IsFiniteSet(Incidents) /\ Page \in Incidents /\ MaxRequests \in Nat /\ Ceiling \in Nat
    /\ \A m \in Modes : m.filters \subseteq Filters
    /\ Absent \in Rows
BY FeedAssumption DEF Filters, Statuses, Absent, Rows

LEMMA FewAreStored ==
    ASSUME NEW table \in [Incidents -> Rows]
    PROVE  /\ StoredIn(table) \subseteq Incidents
           /\ Cardinality(StoredIn(table)) \in Nat /\ OpenCount(table) \in Nat
<1>1. StoredIn(table) \subseteq Incidents
  BY DEF StoredIn
<1>2. {i \in Incidents : ~IsSettled(table[i])} \subseteq Incidents
  OBVIOUS
<1>3. \A S \in SUBSET Incidents : Cardinality(S) \in Nat
  BY FeedConstants, FS_Subset, FS_CardinalityType
<1> QED  BY <1>1, <1>2, <1>3 DEF OpenCount

LEMMA DisjointUnion ==
    ASSUME NEW S, NEW T, IsFiniteSet(S), IsFiniteSet(T), S \cap T = {}
    PROVE  IsFiniteSet(S \union T) /\ Cardinality(S \union T) = Cardinality(S) + Cardinality(T)
<1>1. /\ IsFiniteSet(S \union T)
      /\ Cardinality(S \union T) = Cardinality(S) + Cardinality(T) - Cardinality(S \cap T)
  BY FS_Union
<1>2. Cardinality(S) \in Nat /\ Cardinality(T) \in Nat /\ Cardinality(S \cap T) = 0
  BY FS_CardinalityType, FS_EmptySet
<1> QED  BY <1>1, <1>2

LEMMA OfferedIsCounted ==
    ASSUME NEW n \in Nat, NEW events, DOMAIN events = 1..n
    PROVE  Offered(events) \in Nat
<1>1. IsFiniteSet(1..n)
  BY FS_Interval
<1>2. {k \in DOMAIN events : events[k].type \in mode.types} \in SUBSET (1..n)
  OBVIOUS
<1> QED  BY <1>1, <1>2, FS_Subset, FS_CardinalityType DEF Offered

LEMMA PublishKeepsHook ==
    ASSUME HookInv, NEW n \in Nat, NEW events, DOMAIN events = 1..n, Publish(events)
    PROVE  HookInv'
<1>m. PICK m : m = Offered(events)
  OBVIOUS
<1>p. PICK p : p = Posted(m)
  OBVIOUS
<1>1. m \in Nat
  BY <1>m, OfferedIsCounted
<1>2. hook \in [inFlight : Nat, dropped : Nat, ended : Nat, posts : SUBSET Nat, offered : Nat]
  BY DEF HookInv
<1>t. /\ hook.inFlight \in Nat /\ hook.dropped \in Nat /\ hook.ended \in Nat /\ hook.offered \in Nat
      /\ hook.posts \in SUBSET Nat
  BY <1>2
<1>3. p \in Nat /\ p <= m /\ hook.inFlight + p <= Ceiling
  BY <1>1, <1>t, <1>p, FeedConstants DEF HookInv, PostsAreCounted, Posted
<1>a. PICK a, b : a = hook.offered + 1 /\ b = hook.offered + p
  OBVIOUS
<1>b. PICK added : added = a .. b
  OBVIOUS
<1>0. a \in Nat /\ b \in Nat /\ added \in SUBSET Nat /\ \A k \in added : a <= k /\ k <= b
  BY <1>3, <1>t, <1>a, <1>b
<1>4. IsFiniteSet(added) /\ Cardinality(added) = p
  <2>1. a \in Int /\ b \in Int
    BY <1>0
  <2>2. IsFiniteSet(added) /\ Cardinality(added) = IF a > b THEN 0 ELSE b - a + 1
    BY <2>1, <1>b, FS_Interval
  <2> QED  BY <2>2, <1>3, <1>t, <1>a
<1>5. hook.posts \cap added = {}
  BY <1>0, <1>t, <1>3, <1>a DEF HookInv
<1>6. /\ IsFiniteSet(hook.posts \union added)
      /\ Cardinality(hook.posts \union added) = Cardinality(hook.posts) + p
  <2>1. IsFiniteSet(hook.posts)
    BY DEF HookInv
  <2>2. /\ IsFiniteSet(hook.posts \union added)
        /\ Cardinality(hook.posts \union added) = Cardinality(hook.posts) + Cardinality(added)
    BY <2>1, <1>4, <1>5, DisjointUnion
  <2> QED  BY <2>2, <1>4
<1>7. hook' = [hook EXCEPT !.inFlight = @ + p, !.dropped = @ + (m - p), !.offered = @ + m,
                           !.posts = @ \union added]
  BY <1>m, <1>p, <1>a, <1>b DEF Publish
<1>8. /\ hook'.inFlight = hook.inFlight + p /\ hook'.dropped = hook.dropped + (m - p)
      /\ hook'.offered = hook.offered + m /\ hook'.posts = hook.posts \union added
      /\ hook'.ended = hook.ended
  BY <1>2, <1>7
<1>9. hook' \in [inFlight : Nat, dropped : Nat, ended : Nat, posts : SUBSET Nat, offered : Nat]
  <2>1. /\ hook.inFlight + p \in Nat /\ hook.dropped + (m - p) \in Nat /\ hook.offered + m \in Nat
        /\ hook.posts \union added \in SUBSET Nat
    <3>1. m - p \in Nat
      BY <1>1, <1>3
    <3>2. hook.posts \union added \in SUBSET Nat
      BY <1>0, <1>t
    <3>3. hook.dropped + (m - p) \in Nat
      BY <3>1, <1>t
    <3>4. hook.inFlight + p \in Nat /\ hook.offered + m \in Nat
      BY <1>1, <1>t, <1>3
    <3> QED  BY <3>2, <3>3, <3>4
  <2>2. hook' = [inFlight |-> hook.inFlight + p, dropped |-> hook.dropped + (m - p), ended |-> hook.ended,
                 posts |-> hook.posts \union added, offered |-> hook.offered + m]
    BY <1>2, <1>7
  <2> QED  BY <2>1, <2>2, <1>t
<1>10. \A k \in hook'.posts : k <= hook'.offered
  <2>1. \A k \in hook.posts : k \in Nat /\ k <= hook.offered
    BY DEF HookInv
  <2>2. \A k \in hook.posts : k <= hook.offered + m
    BY <2>1, <1>1, <1>t
  <2>3. ASSUME NEW k \in added PROVE k <= hook.offered + m
    <3>1. k \in Nat /\ k <= hook.offered + p
      BY <1>0, <1>a
    <3>2. hook.offered \in Nat /\ p \in Nat /\ m \in Nat /\ p <= m
      BY <1>1, <1>3, <1>t
    <3> QED  BY <3>1, <3>2
  <2> QED  BY <2>2, <2>3, <1>8
<1>11. PostsAreCounted'
  <2>1. hook'.inFlight = Cardinality(hook'.posts) /\ hook'.inFlight <= Ceiling
    BY <1>3, <1>6, <1>8 DEF HookInv, PostsAreCounted
  <2>2. hook'.offered = hook'.dropped + hook'.ended + hook'.inFlight
    BY <1>1, <1>t, <1>3, <1>8 DEF HookInv, PostsAreCounted
  <2> QED  BY <2>1, <2>2 DEF PostsAreCounted
<1> QED  BY <1>6, <1>8, <1>9, <1>10, <1>11 DEF HookInv

LEMMA OnePublished ==
    ASSUME HookInv, NEW e, Publish(<<e>>)
    PROVE  HookInv'
<1>1. DOMAIN <<e>> = 1..1
  OBVIOUS
<1> QED  BY <1>1, PublishKeepsHook

LEMMA PostEndsKeepsHook ==
    ASSUME HookInv, NEW k \in hook.posts, PostEnds(k)
    PROVE  HookInv'
<1>1. hook \in [inFlight : Nat, dropped : Nat, ended : Nat, posts : SUBSET Nat, offered : Nat]
  BY DEF HookInv
<1>2. /\ IsFiniteSet(hook.posts \ {k})
      /\ Cardinality(hook.posts \ {k}) = hook.inFlight - 1 /\ Cardinality(hook.posts \ {k}) \in Nat
  BY FS_RemoveElement, FS_CardinalityType DEF HookInv, PostsAreCounted
<1>3. hook' = [hook EXCEPT !.inFlight = @ - 1, !.ended = @ + 1, !.posts = @ \ {k}]
  BY DEF PostEnds
<1>4. /\ hook'.inFlight = hook.inFlight - 1 /\ hook'.ended = hook.ended + 1
      /\ hook'.posts = hook.posts \ {k} /\ hook'.dropped = hook.dropped /\ hook'.offered = hook.offered
  BY <1>1, <1>3
<1>5. hook' \in [inFlight : Nat, dropped : Nat, ended : Nat, posts : SUBSET Nat, offered : Nat]
  <2>1. hook.inFlight - 1 \in Nat /\ hook.ended + 1 \in Nat /\ hook.posts \ {k} \in SUBSET Nat
    BY <1>1, <1>2
  <2> QED  BY <2>1, <1>1, <1>3
<1>6. PostsAreCounted'
  BY <1>1, <1>2, <1>4, FeedConstants DEF HookInv, PostsAreCounted
<1> QED  BY <1>2, <1>4, <1>5, <1>6 DEF HookInv

(***************************************************************************)
(* The rows: each writer writes a row it has read.                         *)
(***************************************************************************)
LEMMA RowIsChanged ==
    ASSUME NEW r \in Rows, NEW s \in Statuses
    PROVE  [r EXCEPT !.status = s] \in Rows /\ [r EXCEPT !.explained = TRUE] \in Rows
BY DEF Rows

LEMMA RowChangesKeep ==
    ASSUME StoredInv, NEW i \in Incidents, NEW s \in Statuses, RowChanges(i, s)
    PROVE  StoredInv'
<1>1. stored[i] \in Rows /\ stored' = [stored EXCEPT ![i] = [stored[i] EXCEPT !.status = s]]
  BY DEF StoredInv, RowChanges
<1>2. stored' \in [Incidents -> Rows]
  BY <1>1, RowIsChanged DEF StoredInv
<1> QED  BY <1>2 DEF StoredInv, RowChanges

LEMMA AckKeeps ==
    ASSUME StoredInv, NEW a \in Acks, AckNext(a) \/ \E i \in Incidents : AckReads(a, i)
    PROVE  StoredInv'
<1>1. CASE \E i \in Incidents : AckReads(a, i)
  <2> PICK i \in Incidents : AckReads(a, i)
    BY <1>1
  <2> PICK new : new = [at |-> "read", read |-> stored[i], of |-> i]
    OBVIOUS
  <2>1. new \in AckLocals
    BY DEF AckLocals, StoredInv
  <2>2. ack' = [ack EXCEPT ![a] = new] /\ stored' = stored /\ tick' = tick
    BY DEF AckReads
  <2>3. ack' \in [Acks -> AckLocals]
    BY <2>1, <2>2 DEF StoredInv
  <2> QED  BY <2>2, <2>3 DEF StoredInv
<1>2. CASE AckSaves(a)
  <2> PICK saved : saved = [ack[a].read EXCEPT !.status = "acknowledged"]
    OBVIOUS
  <2>1. ack[a] \in AckLocals
    BY DEF StoredInv
  <2>2. saved \in Rows
    BY <2>1, RowIsChanged DEF AckLocals, Statuses
  <2>3. stored' = [stored EXCEPT ![ack[a].of] = saved] /\ tick' = tick
        /\ ack' = [ack EXCEPT ![a].at = "saved", ![a].read = saved]
    BY <1>2 DEF AckSaves
  <2>4. [[ack[a] EXCEPT !.at = "saved"] EXCEPT !.read = saved] \in AckLocals
    BY <2>1, <2>2 DEF AckLocals
  <2>5. ack' \in [Acks -> AckLocals]
    BY <2>3, <2>4 DEF StoredInv
  <2>6. stored' \in [Incidents -> Rows]
    BY <2>2, <2>3 DEF StoredInv
  <2> QED  BY <2>3, <2>5, <2>6 DEF StoredInv
<1>3. CASE AckPublishes(a)
  <2>1. [ack[a] EXCEPT !.at = "done"] \in AckLocals
    BY DEF StoredInv, AckLocals
  <2>2. ack' = [ack EXCEPT ![a] = [ack[a] EXCEPT !.at = "done"]] /\ stored' = stored /\ tick' = tick
    BY <1>3 DEF AckPublishes, StoredInv
  <2>3. ack' \in [Acks -> AckLocals]
    BY <2>1, <2>2 DEF StoredInv
  <2> QED  BY <2>2, <2>3 DEF StoredInv
<1> QED  BY <1>1, <1>2, <1>3 DEF AckNext

LEMMA TickMoves ==
    ASSUME StoredInv, NEW t \in Ticks, NEW new \in TickLocals, HasListed(new),
           tick' = [tick EXCEPT ![t] = new], ack' = ack, stored' \in [Incidents -> Rows]
    PROVE  StoredInv'
<1>1. tick' \in [Ticks -> TickLocals]
  BY DEF StoredInv
<1>2. \A u \in Ticks : tick'[u] = IF u = t THEN new ELSE tick[u]
  BY DEF StoredInv
<1>3. \A u \in Ticks : HasListed(tick[u])
  BY DEF StoredInv
<1>4. \A u \in Ticks : HasListed(tick'[u])
  BY <1>2, <1>3
<1> QED  BY <1>1, <1>4 DEF StoredInv

\* A tick past its listing holds the rows it listed, wherever it goes from there.
LEMMA TickGoesOn ==
    ASSUME NEW r \in TickLocals, HasListed(r), r.at \notin {"idle", "work"},
           NEW s \in {"explain", "asking", "saved", "counted"}, NEW new, new = [r EXCEPT !.at = s]
    PROVE  new \in TickLocals /\ HasListed(new)
BY DEF TickLocals, HasListed

LEMMA IdleIsATick == Idle \in TickLocals /\ HasListed(Idle)
BY FeedConstants DEF Idle, TickLocals, HasListed

LEMMA TickKeeps ==
    ASSUME StoredInv, HookInv, NEW t \in Ticks, TickNext(t) \/ TickFails(t)
    PROVE  StoredInv' /\ HookInv'
<1>1. tick[t] \in TickLocals /\ HasListed(tick[t]) /\ stored \in [Incidents -> Rows]
  BY DEF StoredInv
<1>2. tick[t].left \in SUBSET Incidents /\ tick[t].of \in Incidents /\ tick[t].count \in Nat
  BY <1>1 DEF TickLocals
<1>3. ASSUME NEW new \in TickLocals, HasListed(new), tick' = [tick EXCEPT ![t] = new],
             UNCHANGED <<stored, ack, hook>>
      PROVE  StoredInv' /\ HookInv'
  <2>1. StoredInv'
    BY <1>1, <1>3, TickMoves
  <2> QED  BY <1>3, <2>1 DEF HookInv, PostsAreCounted
<1>4. CASE TickStarts(t)
  <2> PICK new : new = [Goes(t, "work") EXCEPT !.before = StoredIn(stored)]
    OBVIOUS
  <2>1. new \in TickLocals /\ HasListed(new)
    BY <1>1, FewAreStored DEF Goes, TickLocals, HasListed
  <2> QED  BY <1>3, <1>4, <2>1 DEF TickStarts, TickStep, RestOfFeed
<1>5. CASE TickLists(t)
  <2> PICK new : new = [Goes(t, "publish") EXCEPT !.after = stored]
    OBVIOUS
  <2>1. new \in TickLocals /\ HasListed(new)
    BY <1>1 DEF Goes, TickLocals, HasListed
  <2> QED  BY <1>3, <1>5, <2>1 DEF TickLists, TickStep, RestOfFeed
<1>6. CASE TickPublishes(t)
  <2>a. PICK after : after = tick[t].after
    OBVIOUS
  <2>l. PICK left : left = {i \in StoredIn(after) : ~after[i].explained} \ diagnosed
    OBVIOUS
  <2>m. PICK mid : mid = Goes(t, "explain")
    OBVIOUS
  <2>n. PICK new : new = [mid EXCEPT !.left = left]
    OBVIOUS
  <2>1. /\ tick[t].at = "publish" /\ tick' = [tick EXCEPT ![t] = new]
        /\ stored' = stored /\ ack' = ack
    BY <1>6, <2>a, <2>l, <2>m, <2>n DEF TickPublishes, TickStep, RestOfFeed
  <2>2. after \in [Incidents -> Rows]
    BY <1>1, <2>1, <2>a DEF HasListed
  <2>3. left \in SUBSET Incidents /\ Cardinality(StoredIn(after)) \in Nat
    <3>1. StoredIn(after) \in SUBSET Incidents /\ Cardinality(StoredIn(after)) \in Nat
      BY <2>2, FewAreStored
    <3> QED  BY <2>l, <3>1
  <2>4. new \in TickLocals /\ HasListed(new)
    <3>1. mid \in TickLocals /\ HasListed(mid)
      BY <1>1, <2>1, <2>m, TickGoesOn DEF Goes
    <3> QED  BY <2>3, <2>n, <3>1 DEF TickLocals, HasListed
  <2>5. StoredInv'
    BY <1>1, <2>1, <2>4, TickMoves
  <2>6. PICK events : DOMAIN events = 1..Cardinality(StoredIn(after)) /\ Publish(events)
    BY <1>6, <2>a DEF TickPublishes
  <2>7. HookInv'
    BY <2>3, <2>6, PublishKeepsHook
  <2> QED  BY <2>5, <2>7
<1>7. CASE \E i \in Incidents : ExplainBegins(t, i)
  <2> PICK i \in Incidents : ExplainBegins(t, i)
    BY <1>7
  <2>l. PICK left : left = tick[t].left \ {i}
    OBVIOUS
  <2>m. PICK mid : mid = Goes(t, "asking")
    OBVIOUS
  <2>n. PICK new : new = [mid EXCEPT !.left = left, !.of = i]
    OBVIOUS
  <2>1. tick[t].at = "explain"
    BY DEF ExplainBegins, TickStep
  <2>2. new \in TickLocals /\ HasListed(new)
    <3>1. mid \in TickLocals /\ HasListed(mid)
      BY <1>1, <2>1, <2>m, TickGoesOn DEF Goes
    <3>2. left \in SUBSET Incidents
      BY <1>2, <2>l
    <3> QED  BY <2>n, <3>1, <3>2 DEF TickLocals, HasListed
  <2>3. new = [Goes(t, "asking") EXCEPT !.left = @ \ {i}, !.of = i]
    BY <1>1, <2>l, <2>m, <2>n DEF Goes, TickLocals
  <2>4. tick' = [tick EXCEPT ![t] = new] /\ UNCHANGED <<stored, ack, hook>>
    BY <2>3 DEF ExplainBegins, TickStep, RestOfFeed
  <2> QED  BY <1>3, <2>2, <2>4
<1>8. CASE ExplainSaves(t)
  <2>n. PICK new : new = Goes(t, "saved")
    OBVIOUS
  <2>1. /\ tick[t].at = "asking" /\ tick' = [tick EXCEPT ![t] = new]
        /\ stored' = [stored EXCEPT ![tick[t].of] = Explained(t)] /\ ack' = ack /\ hook' = hook
    BY <1>8, <2>n DEF ExplainSaves, TickStep, RestOfFeed
  <2>2. new \in TickLocals /\ HasListed(new)
    BY <1>1, <2>1, <2>n, TickGoesOn DEF Goes
  <2>3. tick[t].after[tick[t].of] \in Rows
    BY <1>1, <1>2, <2>1 DEF HasListed
  <2>4. Explained(t) \in Rows
    BY <2>3 DEF Explained, Rows
  <2>5. stored' \in [Incidents -> Rows]
    BY <1>1, <2>1, <2>4
  <2>6. StoredInv'
    BY <2>1, <2>2, <2>5, TickMoves
  <2> QED  BY <2>1, <2>6 DEF HookInv, PostsAreCounted
<1>9. CASE ExplainFails(t)
  <2>1. tick[t].at = "asking" /\ tick' = [tick EXCEPT ![t] = Goes(t, "explain")] /\ UNCHANGED <<stored, ack, hook>>
    BY <1>9 DEF ExplainFails, TickStep, RestOfFeed
  <2>2. Goes(t, "explain") \in TickLocals /\ HasListed(Goes(t, "explain"))
    BY <1>1, <2>1, TickGoesOn DEF Goes
  <2> QED  BY <1>3, <2>1, <2>2
<1>10. CASE ExplainPublishes(t)
  <2>1. /\ tick[t].at = "saved" /\ tick' = [tick EXCEPT ![t] = Goes(t, "explain")]
        /\ stored' = stored /\ ack' = ack
    BY <1>10 DEF ExplainPublishes, TickStep, RestOfFeed
  <2>2. Goes(t, "explain") \in TickLocals /\ HasListed(Goes(t, "explain"))
    BY <1>1, <2>1, TickGoesOn DEF Goes
  <2>3. StoredInv'
    BY <1>1, <2>1, <2>2, TickMoves
  <2>4. HookInv'
    BY <1>10, OnePublished DEF ExplainPublishes
  <2> QED  BY <2>3, <2>4
<1>11. CASE TickCounts(t)
  <2>c. PICK n : n = OpenCount(stored)
    OBVIOUS
  <2>m. PICK mid : mid = Goes(t, "counted")
    OBVIOUS
  <2>n. PICK new : new = [mid EXCEPT !.count = n]
    OBVIOUS
  <2>1. tick[t].at = "explain" /\ tick' = [tick EXCEPT ![t] = new] /\ UNCHANGED <<stored, ack, hook>>
    BY <1>11, <2>c, <2>m, <2>n DEF TickCounts, TickStep, RestOfFeed
  <2>2. n \in Nat
    BY <1>1, <2>c, FewAreStored
  <2>3. new \in TickLocals /\ HasListed(new)
    <3>1. mid \in TickLocals /\ HasListed(mid)
      BY <1>1, <2>1, <2>m, TickGoesOn DEF Goes
    <3> QED  BY <2>2, <2>n, <3>1 DEF TickLocals, HasListed
  <2> QED  BY <1>3, <2>1, <2>3
<1>12. CASE TickEnds(t)
  <2>1. tick' = [tick EXCEPT ![t] = Idle] /\ stored' = stored /\ ack' = ack
    BY <1>12 DEF TickEnds, TickStep, RestOfFeed
  <2>2. StoredInv'
    BY <1>1, <2>1, IdleIsATick, TickMoves
  <2>3. HookInv'
    BY <1>12, OnePublished DEF TickEnds
  <2> QED  BY <2>2, <2>3
<1>13. CASE TickFails(t)
  <2>1. tick' = [tick EXCEPT ![t] = Idle] /\ UNCHANGED <<stored, ack, hook>>
    BY <1>13 DEF TickFails
  <2> QED  BY <1>3, <2>1, IdleIsATick
<1> QED  BY <1>4, <1>5, <1>6, <1>7, <1>8, <1>9, <1>10, <1>11, <1>12, <1>13 DEF TickNext

(***************************************************************************)
(* The list: whatever was asked before, the newest request decides what is *)
(* shown, and an event only what matches the filter it meets.              *)
(***************************************************************************)
ListLocals == [status : {"idle", "loading", "ready", "error"}, filter : Filters, ticket : 0..MaxRequests]
AskLocals == [at : {"none", "sent", "read"}, filter : Filters, rows : [Incidents -> Rows]]
Answering(r) == r.at = "read" => \A i \in Incidents : r.rows[i] # Absent => Matches(r.rows[i], r.filter)

LEMMA ListingIsOfRows ==
    ASSUME StoredInv, NEW f \in Filters
    PROVE  /\ Listing(f) \in [Incidents -> Rows]
           /\ \A i \in Incidents : Listing(f)[i] # Absent => Matches(Listing(f)[i], f)
<1>1. \A i \in Incidents : Listing(f)[i] = IF Matches(stored[i], f) /\ Readable(i) THEN stored[i] ELSE Absent
  BY DEF Listing
<1>2. \A i \in Incidents : Listing(f)[i] \in Rows
  BY <1>1, FeedConstants DEF StoredInv
<1>3. Listing(f) \in [Incidents -> Rows]
  BY FeedConstants DEF Listing, StoredInv
<1>4. \A i \in Incidents : Listing(f)[i] # Absent => Matches(Listing(f)[i], f)
  BY <1>1
<1> QED  BY <1>3, <1>4

LEMMA LoadsKeep ==
    ASSUME ListInv, NEW f \in Filters, Loads(f), shown' = shown
    PROVE  ListInv'
<1> PICK ask : ask = [NoAsk EXCEPT !.at = "sent", !.filter = f]
  OBVIOUS
<1> PICK n : n = list.ticket + 1
  OBVIOUS
<1>1. Nothing \in [Incidents -> Rows]
  BY FeedConstants DEF Nothing
<1>2. ask \in AskLocals /\ ask # NoAsk /\ ask.at = "sent" /\ ask.filter = f
  BY <1>1 DEF NoAsk, AskLocals
<1>3. list \in ListLocals /\ asks \in [Requests -> AskLocals]
  BY DEF ListInv, ListLocals, AskLocals
<1>4. list.ticket \in 0..MaxRequests /\ list.ticket < MaxRequests
  BY <1>3 DEF Loads, ListLocals
<1>5. n \in Requests /\ n \in 0..MaxRequests /\ n # list.ticket
  BY <1>4, FeedConstants DEF Requests
<1> PICK s : s = IF list.status = "ready" THEN "ready" ELSE "loading"
  OBVIOUS
<1>6. list' = [status |-> s, filter |-> f, ticket |-> n] /\ list' \in ListLocals
  BY <1>3, <1>5 DEF Loads, ListLocals
<1>7. asks' = [asks EXCEPT ![n] = ask]
  BY DEF Loads
<1>8. asks' \in [Requests -> AskLocals] /\ \A k \in Requests : asks'[k] = IF k = n THEN ask ELSE asks[k]
  BY <1>2, <1>3, <1>5, <1>7
<1>9. \A k \in Requests : Answering(asks[k])
  BY DEF ListInv, Answering
<1>10. Answering(ask)
  BY <1>2 DEF Answering
<1>11. \A k \in Requests : Answering(asks'[k])
  BY <1>8, <1>9, <1>10
<1>12. \A k \in Requests : k = list'.ticket /\ asks'[k] # NoAsk => asks'[k].filter = list'.filter
  BY <1>2, <1>6, <1>8
<1>13. asks'[n] # NoAsk /\ n = list'.ticket
  BY <1>2, <1>5, <1>6, <1>8
<1>14. ShownAnswersTheFilter'
  BY <1>5, <1>13 DEF ShownAnswersTheFilter, Requests
<1>15. shown' = [i \in Incidents |-> shown'[i]]
  BY DEF ListInv
<1> QED  BY <1>6, <1>8, <1>11, <1>12, <1>14, <1>15 DEF ListInv, ListLocals, AskLocals, Answering, Requests

\* An answer read, brought or lost changes that request and what it is for.
LEMMA ListKeeps ==
    ASSUME StoredInv, ListInv, NEW k \in Requests, ListNext(k) \/ ListFails(k)
    PROVE  ListInv'
<1>1. list \in ListLocals /\ asks \in [Requests -> AskLocals] /\ NoAsk \in AskLocals /\ Answering(NoAsk)
  <2>1. NoAsk \in AskLocals /\ Answering(NoAsk)
    BY FeedConstants DEF NoAsk, AskLocals, Answering, Nothing, Filters
  <2> QED  BY <2>1 DEF ListInv, ListLocals, AskLocals
<1>2. \A j \in Requests : Answering(asks[j])
  BY DEF ListInv, Answering
<1>3. ASSUME NEW ask \in AskLocals, Answering(ask), asks' = [asks EXCEPT ![k] = ask],
             list' \in ListLocals, list'.ticket = list.ticket, list'.filter = list.filter,
             ask # NoAsk => ask.filter = asks[k].filter /\ asks[k] # NoAsk,
             ShownAnswersTheFilter', shown' = [i \in Incidents |-> shown'[i]]
      PROVE  ListInv'
  <2>1. asks' \in [Requests -> AskLocals] /\ \A j \in Requests : asks'[j] = IF j = k THEN ask ELSE asks[j]
    BY <1>1, <1>3
  <2>2. \A j \in Requests : Answering(asks'[j])
    BY <2>1, <1>2, <1>3
  <2>3. \A j \in Requests : j = list.ticket /\ asks[j] # NoAsk => asks[j].filter = list.filter
    BY DEF ListInv
  <2>4. \A j \in Requests : j = list'.ticket /\ asks'[j] # NoAsk => asks'[j].filter = list'.filter
    BY <2>1, <2>3, <1>3
  <2> QED  BY <2>1, <2>2, <2>4, <1>3 DEF ListInv, ListLocals, AskLocals, Answering, Requests
<1>4. shown = [i \in Incidents |-> shown[i]]
  BY DEF ListInv
<1>5. CASE ListIsRead(k)
  <2> PICK rows : rows = Listing(asks[k].filter)
    OBVIOUS
  <2> PICK ask : ask = [[asks[k] EXCEPT !.at = "read"] EXCEPT !.rows = rows]
    OBVIOUS
  <2>1. asks[k] \in AskLocals /\ asks[k].at = "sent"
    BY <1>1, <1>5 DEF ListIsRead
  <2>2. asks[k].filter \in Filters /\ asks[k] # NoAsk
    BY <2>1 DEF AskLocals, NoAsk
  <2>3. rows \in [Incidents -> Rows]
    BY <2>2, ListingIsOfRows
  <2>4. ask \in AskLocals /\ ask.at = "read" /\ ask.filter = asks[k].filter /\ ask.rows = rows
    BY <2>1, <2>3 DEF AskLocals
  <2>5. \A i \in Incidents : rows[i] # Absent => Matches(rows[i], ask.filter)
    BY <2>2, <2>4, ListingIsOfRows
  <2>6. ask \in AskLocals /\ Answering(ask)
    BY <2>5, <2>4 DEF Answering
  <2>7. asks' = [asks EXCEPT ![k] = ask] /\ list' = list /\ shown' = shown
    BY <1>1, <1>5 DEF ListIsRead
  <2>8. ask # NoAsk
    BY <2>4 DEF NoAsk
  <2>9. asks'[k] = ask /\ \A j \in Requests : j # k => asks'[j] = asks[j]
    BY <1>1, <2>6, <2>7
  <2>10. ShownAnswersTheFilter
    BY DEF ListInv
  <2>11. ShownAnswersTheFilter'
    BY <2>2, <2>4, <2>7, <2>8, <2>9, <2>10 DEF ShownAnswersTheFilter, Requests
  <2> QED  BY <1>1, <1>3, <1>4, <2>2, <2>6, <2>4, <2>7, <2>10, <2>11
<1>6. CASE ListArrives(k)
  <2>1. asks[k].at = "read" /\ asks' = [asks EXCEPT ![k] = NoAsk] /\ asks[k] \in AskLocals
    BY <1>1, <1>6 DEF ListArrives
  <2>2. asks[k] # NoAsk
    BY <2>1 DEF NoAsk
  <2>3. \A j \in Requests : j # k => asks'[j] = asks[j]
    BY <1>1, <2>1
  <2>4. CASE k = list.ticket
    <3>1. shown' = asks[k].rows /\ list' = [list EXCEPT !.status = "ready"]
      BY <1>6, <2>4 DEF ListArrives
    <3>2. asks[k].filter = list.filter
      BY <2>2, <2>4 DEF ListInv
    <3>3. list' \in ListLocals /\ list'.ticket = list.ticket /\ list'.filter = list.filter
      BY <1>1, <3>1 DEF ListLocals
    <3>4. \A i \in Incidents : shown'[i] # Absent => Matches(shown'[i], list'.filter)
      BY <1>2, <2>1, <3>1, <3>2, <3>3 DEF Answering
    <3>5. ShownAnswersTheFilter'
      BY <3>4 DEF ShownAnswersTheFilter
    <3>6. shown' = [i \in Incidents |-> shown'[i]]
      <4> PICK rows : rows = asks[k].rows
        OBVIOUS
      <4>1. rows \in [Incidents -> Rows]
        BY <2>1 DEF AskLocals
      <4>2. rows = [i \in Incidents |-> rows[i]]
        BY <4>1
      <4> QED  BY <4>2, <3>1
    <3> QED  BY <1>1, <1>3, <2>1, <3>3, <3>5, <3>6
  <2>5. CASE k # list.ticket
    <3>1. list' = list /\ shown' = shown
      BY <1>6, <2>5 DEF ListArrives
    <3>2. ShownAnswersTheFilter
      BY DEF ListInv
    <3>3. ShownAnswersTheFilter'
      BY <2>3, <2>5, <3>1, <3>2 DEF ShownAnswersTheFilter, Requests
    <3> QED  BY <1>1, <1>3, <1>4, <2>1, <3>1, <3>3
  <2> QED  BY <2>4, <2>5
<1>7. CASE ListFails(k)
  <2>1. asks' = [asks EXCEPT ![k] = NoAsk] /\ shown' = shown
        /\ list' = IF k = list.ticket THEN [list EXCEPT !.status = "error"] ELSE list
    BY <1>7 DEF ListFails
  <2>2. list' \in ListLocals /\ list'.ticket = list.ticket /\ list'.filter = list.filter
        /\ (k = list.ticket => list'.status = "error") /\ (k # list.ticket => list' = list)
    BY <1>1, <2>1 DEF ListLocals
  <2>3. \A j \in Requests : j # k => asks'[j] = asks[j]
    BY <1>1, <2>1
  <2>4. ShownAnswersTheFilter
    BY DEF ListInv
  <2>5. ShownAnswersTheFilter'
    BY <2>1, <2>2, <2>3, <2>4 DEF ShownAnswersTheFilter, Requests
  <2> QED  BY <1>1, <1>3, <1>4, <2>1, <2>2, <2>5
<1> QED  BY <1>5, <1>6, <1>7 DEF ListNext

LEMMA EventKeeps ==
    ASSUME ListInv, EventArrives
    PROVE  ListInv'
<1> PICK e : e = Head(wire[Now])
  OBVIOUS
<1>1. list' = list /\ asks' = asks /\ (shown' = shown \/ shown' = Upsert(e))
  BY DEF EventArrives
<1>2. shown = [i \in Incidents |-> shown[i]]
  BY DEF ListInv
<1>3. Upsert(e) = [i \in Incidents |-> IF i = e.of THEN IF Matches(e.r, list.filter) THEN e.r ELSE Absent ELSE shown[i]]
  BY <1>2 DEF Upsert
<1>4. shown' = [i \in Incidents |-> shown'[i]]
  BY <1>1, <1>2, <1>3
<1>5. \A i \in Incidents : shown'[i] = shown[i] \/ (shown'[i] # Absent => Matches(shown'[i], list.filter))
  BY <1>1, <1>3
<1>6. ShownAnswersTheFilter
  BY DEF ListInv
<1>7. ShownAnswersTheFilter'
  BY <1>1, <1>5, <1>6 DEF ShownAnswersTheFilter, Requests
<1> QED  BY <1>1, <1>4, <1>7 DEF ListInv, Requests

(***************************************************************************)
(* The stream, and the feed as a whole.                                    *)
(***************************************************************************)
LEMMA StreamKeeps ==
    ASSUME StreamInv, StreamNext \/ StreamDrops
    PROVE  StreamInv'
<1>1. client \in [state : {"waiting", "opening", "connected"}, c : Nat, opened : BOOLEAN]
  BY DEF StreamInv
<1>2. CASE StreamConnects
  <2>1. /\ client' = [client EXCEPT !.state = "opening", !.c = @ + 1]
        /\ handler' = [handler EXCEPT ![Now + 1] = "resolving"]
    BY <1>2 DEF StreamConnects
  <2>2. client' \in [state : {"waiting", "opening", "connected"}, c : Nat, opened : BOOLEAN]
    <3>1. client.c + 1 \in Nat
      BY <1>1
    <3>2. client' = [state |-> "opening", c |-> client.c + 1, opened |-> client.opened]
      BY <1>1, <2>1
    <3> QED  BY <1>1, <3>1, <3>2
  <2>3. handler' \in [Connections -> {"none", "resolving", "subscribed", "closed", "gone", "left"}]
    BY <2>1 DEF StreamInv
  <2> QED  BY <2>2, <2>3 DEF StreamInv
<1>3. CASE StreamOpens
  <2>1. client' = [client EXCEPT !.state = "connected", !.opened = TRUE] /\ handler' = handler
    BY <1>3 DEF StreamOpens
  <2>2. client' \in [state : {"waiting", "opening", "connected"}, c : Nat, opened : BOOLEAN]
    BY <1>1, <2>1
  <2> QED  BY <2>1, <2>2 DEF StreamInv
<1>4. CASE EventArrives
  BY <1>4 DEF EventArrives, StreamInv
<1>5. CASE \E c \in Connections : Subscribes(c)
  <2> PICK c \in Connections : Subscribes(c)
    BY <1>5
  <2>1. handler' = [handler EXCEPT ![c] = IF @ = "gone" THEN "left" ELSE "subscribed"] /\ client' = client
    BY DEF Subscribes
  <2> QED  BY <2>1 DEF StreamInv
<1>6. CASE StreamDrops
  <2>1. /\ client' = [client EXCEPT !.state = "waiting"]
        /\ handler' = [handler EXCEPT ![Now] = IF @ = "subscribed" THEN "closed" ELSE "gone"]
    BY <1>6 DEF StreamDrops
  <2>2. client' \in [state : {"waiting", "opening", "connected"}, c : Nat, opened : BOOLEAN]
    BY <1>1, <2>1
  <2>3. handler' \in [Connections -> {"none", "resolving", "subscribed", "closed", "gone", "left"}]
    BY <2>1 DEF StreamInv
  <2> QED  BY <2>2, <2>3 DEF StreamInv
<1> QED  BY <1>2, <1>3, <1>4, <1>5, <1>6 DEF StreamNext

\* What a part of the feed does not touch stays as it was.
LEMMA StoredFrame == StoredInv /\ UNCHANGED <<stored, ack, tick>> => StoredInv'
BY DEF StoredInv
LEMMA StreamFrame == StreamInv /\ UNCHANGED <<client, handler>> => StreamInv'
BY DEF StreamInv
LEMMA ListFrame == ListInv /\ UNCHANGED <<list, asks, shown>> => ListInv'
BY DEF ListInv, ShownAnswersTheFilter, Requests
LEMMA HookFrame == HookInv /\ hook' = hook => HookInv'
BY DEF HookInv, PostsAreCounted

LEMMA FeedKept ==
    ASSUME FeedInv, FeedNext
    PROVE  FeedInv'
<1>1. mode' = mode /\ mode \in Modes /\ StoredInv /\ StreamInv /\ ListInv /\ HookInv
  BY DEF FeedInv, FeedNext
<1> USE DEF FeedInv
<1>2. CASE \E t \in Ticks : TickNext(t) \/ TickFails(t)
  <2> PICK t \in Ticks : TickNext(t) \/ TickFails(t)
    BY <1>2
  <2>1. UNCHANGED <<client, handler, list, asks, shown>>
    BY DEF TickNext, TickStarts, TickLists, TickPublishes, ExplainBegins, ExplainSaves, ExplainFails,
           ExplainPublishes, TickCounts, TickEnds, TickFails, RestOfFeed
  <2> QED  BY <1>1, <2>1, TickKeeps, StreamFrame, ListFrame
<1>3. CASE \E i \in Incidents, s \in Statuses : RowChanges(i, s)
  <2> PICK i \in Incidents, s \in Statuses : RowChanges(i, s)
    BY <1>3
  <2>1. UNCHANGED <<client, handler, list, asks, shown, hook>>
    BY DEF RowChanges
  <2> QED  BY <1>1, <2>1, RowChangesKeep, StreamFrame, ListFrame, HookFrame
<1>4. CASE \E a \in Acks : AckNext(a) \/ \E i \in Incidents : AckReads(a, i)
  <2> PICK a \in Acks : AckNext(a) \/ \E i \in Incidents : AckReads(a, i)
    BY <1>4
  <2>1. UNCHANGED <<client, handler, list, asks, shown>>
    BY DEF AckNext, AckSaves, AckPublishes, AckReads
  <2>2. HookInv'
    <3>1. CASE AckPublishes(a)
      BY <1>1, <3>1, OnePublished DEF AckPublishes
    <3>2. CASE ~AckPublishes(a)
      BY <1>1, <3>2, HookFrame DEF AckNext, AckSaves, AckReads
    <3> QED  BY <3>1, <3>2
  <2> QED  BY <1>1, <2>1, <2>2, AckKeeps, StreamFrame, ListFrame
<1>5. CASE StreamNext \/ StreamDrops
  <2>1. UNCHANGED <<stored, ack, tick, hook>>
    BY <1>5 DEF StreamNext, StreamConnects, StreamOpens, EventArrives, Subscribes, StreamDrops
  <2>2. ListInv'
    <3>1. CASE EventArrives
      BY <1>1, <3>1, EventKeeps
    <3>2. CASE StreamOpens /\ client.opened
      <4>1. list.filter \in Filters
        BY <1>1 DEF ListInv
      <4>2. Loads(list.filter) /\ shown' = shown
        BY <3>2 DEF StreamOpens
      <4> QED  BY <1>1, <4>1, <4>2, LoadsKeep
    <3>3. CASE ~EventArrives /\ ~(StreamOpens /\ client.opened)
      <4>1. UNCHANGED <<list, asks, shown>>
        BY <1>5, <3>3 DEF StreamNext, StreamConnects, StreamOpens, Subscribes, StreamDrops
      <4> QED  BY <1>1, <4>1, ListFrame
    <3> QED  BY <3>1, <3>2, <3>3
  <2> QED  BY <1>1, <1>5, <2>1, <2>2, StoredFrame, HookFrame, StreamKeeps
<1>6. CASE \E k \in Requests : ListNext(k) \/ ListFails(k)
  <2> PICK k \in Requests : ListNext(k) \/ ListFails(k)
    BY <1>6
  <2>1. UNCHANGED <<stored, ack, tick, hook, client, handler>>
    BY DEF ListNext, ListIsRead, ListArrives, ListFails
  <2> QED  BY <1>1, <2>1, ListKeeps, StoredFrame, HookFrame, StreamFrame
<1>7. CASE Refresh \/ \E f \in mode.filters : SetFilters(f)
  <2>1. \E f \in Filters : Loads(f)
    <3>1. list.filter \in Filters /\ mode.filters \subseteq Filters
      BY <1>1, FeedConstants DEF ListInv
    <3> QED  BY <1>7, <3>1 DEF Refresh, SetFilters
  <2>2. UNCHANGED <<stored, ack, tick, hook, client, handler, shown>>
    BY <1>7 DEF Refresh, SetFilters
  <2> QED  BY <1>1, <2>1, <2>2, LoadsKeep, StoredFrame, HookFrame, StreamFrame
<1>8. CASE FiguresAreRead \/ FiguresArrive \/ PageOpens \/ \E s \in Slots : PageNext(s) \/ PageFails(s)
  <2>1. UNCHANGED <<stored, ack, tick, hook, client, handler, list, asks, shown>>
    BY <1>8 DEF FiguresAreRead, FiguresArrive, PageOpens, PageNext, PageIsRead, PageArrives, PageFails
  <2> QED  BY <1>1, <2>1, StoredFrame, HookFrame, StreamFrame, ListFrame
<1>9. CASE \E k \in hook.posts : PostEnds(k)
  <2> PICK k \in hook.posts : PostEnds(k)
    BY <1>9
  <2>1. UNCHANGED <<stored, ack, tick, client, handler, list, asks, shown>>
    BY DEF PostEnds
  <2> QED  BY <1>1, <2>1, PostEndsKeepsHook, StoredFrame, StreamFrame, ListFrame
<1> QED  BY <1>2, <1>3, <1>4, <1>5, <1>6, <1>7, <1>8, <1>9 DEF FeedNext

LEMMA FeedStarts == mode \in Modes /\ FeedInit => FeedInv
<1> SUFFICES ASSUME mode \in Modes, FeedInit PROVE FeedInv
  OBVIOUS
<1>1. Nothing \in [Incidents -> Rows] /\ Nothing = [i \in Incidents |-> Nothing[i]]
      /\ \A i \in Incidents : Nothing[i] = Absent
  BY FeedConstants DEF Nothing
<1>2. NoAsk \in AskLocals /\ NoAsk.at = "none"
  BY <1>1 DEF NoAsk, AskLocals, Filters
<1>3. StoredInv
  <2>1. [at |-> "idle", read |-> Absent, of |-> Page] \in AckLocals
    BY FeedConstants DEF AckLocals
  <2> QED  BY <1>1, <2>1, IdleIsATick DEF FeedInit, StoredInv
<1>4. StreamInv
  BY DEF FeedInit, StreamInv
<1>5. HookInv
  BY FeedConstants, FS_EmptySet DEF FeedInit, HookInv, PostsAreCounted
<1>6. ListInv
  <2>1. list \in ListLocals /\ list.status = "idle"
    BY FeedConstants DEF FeedInit, ListLocals, Filters
  <2>2. asks \in [Requests -> AskLocals] /\ \A k \in Requests : asks[k] = NoAsk
    BY <1>2 DEF FeedInit
  <2>3. shown = [i \in Incidents |-> shown[i]]
    BY <1>1 DEF FeedInit
  <2> QED  BY <1>2, <2>1, <2>2, <2>3 DEF ListInv, ListLocals, AskLocals, ShownAnswersTheFilter
<1> QED  BY <1>3, <1>4, <1>5, <1>6 DEF FeedInv

(***************************************************************************)
(* The chain: what was sent stays as it was sent, and a fate is final.     *)
(***************************************************************************)
Steady == \A h \in Hashes :
    /\ tx[h] # NoTx => tx'[h].from = tx[h].from /\ tx'[h].nonce = tx[h].nonce /\ tx'[h] # NoTx
    /\ tx[h].fate \in Final => tx'[h].fate = tx[h].fate

LEMMA TxTypes ==
    ASSUME TxInv, NEW h \in Hashes
    PROVE  /\ tx[h] \in TxRecords
           /\ tx[h] = [from |-> tx[h].from, nonce |-> tx[h].nonce, fate |-> tx[h].fate]
           /\ tx[h].fate # "unsent" => tx[h] # NoTx
           /\ tx[h].from # "nobody" => tx[h] # NoTx
<1>1. tx[h] \in TxRecords
  BY DEF TxInv
<1>2. tx[h] = [from |-> tx[h].from, nonce |-> tx[h].nonce, fate |-> tx[h].fate]
  BY <1>1 DEF TxRecords
<1> QED  BY <1>1, <1>2 DEF NoTx

LEMMA SentIsSteady ==
    ASSUME TxInv, NEW h \in Hashes, NEW a \in {"signer", "other"}, NEW n \in Nat, Sent(h, a, n), next' = next
    PROVE  /\ TxInv' /\ Steady
           /\ tx'[h].from = a /\ tx'[h].nonce = n /\ tx'[h].fate = "pending"
           /\ \A g \in Hashes : g # h => tx'[g] = tx[g]
<1> PICK new : new = [from |-> a, nonce |-> n, fate |-> "pending"]
  OBVIOUS
<1>1. tx[h] = NoTx /\ tx' = [tx EXCEPT ![h] = new] /\ new \in TxRecords
  BY DEF Sent, TxRecords
<1>2. tx' \in [Hashes -> TxRecords] /\ \A g \in Hashes : tx'[g] = IF g = h THEN new ELSE tx[g]
  BY <1>1 DEF TxInv
<1>3. tx[h].fate = "unsent"
  BY <1>1 DEF NoTx
<1>4. Steady
  BY <1>1, <1>2, <1>3 DEF Steady, Final
<1>5. ASSUME NEW g \in Hashes, tx'[g].fate = "displaced"
      PROVE  \E f \in Hashes : tx'[f].from = tx'[g].from /\ tx'[f].nonce = tx'[g].nonce /\ tx'[f].fate \in Final
  <2>1. g # h /\ tx'[g] = tx[g]
    BY <1>2, <1>5
  <2>2. PICK f \in Hashes : tx[f].from = tx[g].from /\ tx[f].nonce = tx[g].nonce /\ tx[f].fate \in Final
    BY <2>1, <1>5 DEF TxInv
  <2>3. f # h
    BY <1>3, <2>2 DEF Final
  <2> QED  BY <1>2, <2>1, <2>2, <2>3
<1>6. TxInv'
  BY <1>2, <1>5 DEF TxInv
<1> QED  BY <1>2, <1>4, <1>6

LEMMA MinedIsSteady ==
    ASSUME TxInv, NEW h \in Hashes, NEW fate \in Final, Mines(h, fate)
    PROVE  TxInv' /\ Steady
<1> PICK mined : mined = [tx[h] EXCEPT !.fate = fate]
  OBVIOUS
<1>1. /\ tx[h].fate = "pending" /\ tx[h].from = "signer" /\ tx[h].nonce = next /\ next' = next + 1
      /\ tx' = [g \in Hashes |-> IF g = h THEN mined
                                 ELSE IF Of(g, next) /\ Pending(g) THEN [tx[g] EXCEPT !.fate = "displaced"] ELSE tx[g]]
  BY DEF Mines, Pending, Of
<1>2. /\ mined \in TxRecords /\ mined.fate = fate /\ mined.from = "signer" /\ mined.nonce = next
  BY <1>1, TxTypes DEF TxRecords, Final
<1>3. \A g \in Hashes : tx'[g] = IF g = h THEN mined
                                 ELSE IF Of(g, next) /\ Pending(g) THEN [tx[g] EXCEPT !.fate = "displaced"] ELSE tx[g]
  BY <1>1
<1>4. ASSUME NEW g \in Hashes
      PROVE  /\ tx'[g] \in TxRecords /\ tx'[g].from = tx[g].from /\ tx'[g].nonce = tx[g].nonce
             /\ tx[g].fate # "pending" => tx'[g] = tx[g]
             /\ tx'[g].fate = "displaced" => tx[g].fate = "displaced" \/ (tx[g].from = "signer" /\ tx[g].nonce = next)
             /\ tx[g].fate = "pending" => tx'[g].fate # "unsent"
  <2> PICK gone : gone = [tx[g] EXCEPT !.fate = "displaced"]
    OBVIOUS
  <2>1. tx[g] \in TxRecords
    BY TxTypes
  <2>2. /\ gone \in TxRecords /\ gone.from = tx[g].from /\ gone.nonce = tx[g].nonce /\ gone.fate = "displaced"
    BY <2>1 DEF TxRecords
  <2>3. CASE g = h
    BY <1>1, <1>2, <1>3, <2>3 DEF Final
  <2>4. CASE g # h /\ Of(g, next) /\ Pending(g)
    <3>1. tx'[g] = gone
      BY <1>3, <2>4
    <3> QED  BY <3>1, <2>2, <2>4 DEF Of, Pending
  <2>5. CASE g # h /\ ~(Of(g, next) /\ Pending(g))
    <3>1. tx'[g] = tx[g]
      BY <1>3, <2>5
    <3> QED  BY <3>1, <2>1
  <2> QED  BY <2>3, <2>4, <2>5
<1>5. Steady
  <2> SUFFICES ASSUME NEW g \in Hashes
               PROVE  /\ tx[g] # NoTx => /\ tx'[g].from = tx[g].from /\ tx'[g].nonce = tx[g].nonce
                                         /\ tx'[g] # NoTx
                      /\ tx[g].fate \in Final => tx'[g].fate = tx[g].fate
    BY DEF Steady
  <2>1. tx[g] # NoTx => tx'[g] # NoTx
    <3>1. CASE tx[g].fate = "pending"
      BY <3>1, <1>4 DEF NoTx
    <3>2. CASE tx[g].fate # "pending"
      BY <3>2, <1>4
    <3> QED  BY <3>1, <3>2
  <2>2. tx[g].fate \in Final => tx'[g].fate = tx[g].fate
    BY <1>4 DEF Final
  <2> QED  BY <2>1, <2>2, <1>4
<1>6. ASSUME NEW g \in Hashes, tx'[g].fate = "displaced"
      PROVE  \E f \in Hashes : tx'[f].from = tx'[g].from /\ tx'[f].nonce = tx'[g].nonce /\ tx'[f].fate \in Final
  <2>1. CASE tx[g].fate = "displaced"
    <3>1. PICK f \in Hashes : tx[f].from = tx[g].from /\ tx[f].nonce = tx[g].nonce /\ tx[f].fate \in Final
      BY <2>1 DEF TxInv
    <3>2. tx'[f] = tx[f]
      BY <1>4, <3>1 DEF Final
    <3> QED  BY <1>4, <3>1, <3>2
  <2>2. CASE tx[g].from = "signer" /\ tx[g].nonce = next
    <3>1. tx'[h] = mined
      BY <1>3
    <3>2. tx'[h].from = "signer" /\ tx'[h].nonce = next /\ tx'[h].fate \in Final
      BY <3>1, <1>2
    <3>3. tx'[g].from = "signer" /\ tx'[g].nonce = next
      BY <1>4, <2>2
    <3> QED  BY <3>2, <3>3
  <2> QED  BY <1>4, <1>6, <2>1, <2>2
<1>7. tx' \in [Hashes -> TxRecords]
  BY <1>1, <1>4
<1>8. next' \in Nat
  BY <1>1 DEF TxInv
<1> QED  BY <1>5, <1>6, <1>7, <1>8 DEF TxInv

LEMMA NothingMined == TxInv /\ UNCHANGED <<tx, next>> => TxInv' /\ Steady
BY DEF TxInv, Steady

\* What was agreed, credited or followed remains so.
LEMMA CreditIsSteady ==
    ASSUME TxInv, Steady, mode' = mode
    PROVE  /\ \A h \in Hashes : Agrees(h) => Agrees(h)'
           /\ \A h \in Hashes : Credible(h) => Credible(h)'
<1>1. \A h \in Hashes : tx[h].from = "signer" => /\ tx'[h].from = "signer" /\ tx'[h].nonce = tx[h].nonce
  BY TxTypes DEF Steady
<1>2. \A h \in Hashes : Agrees(h) => Agrees(h)'
  BY <1>1 DEF Agrees
<1>3. ASSUME NEW h \in Hashes, Credible(h) PROVE Credible(h)'
  <2>1. tx[h].from = "signer" /\ tx'[h].nonce = tx[h].nonce
    BY <1>1, <1>3 DEF Credible, Agrees
  <2>2. PICK g \in Hashes : tx[g].from = "signer" /\ tx[g].nonce = tx[h].nonce /\ tx[g].fate = "success"
    BY <1>3 DEF Credible, TookItsNonce
  <2>3. tx'[g].from = "signer" /\ tx'[g].nonce = tx[g].nonce /\ tx'[g].fate = "success"
    BY <1>1, <2>2 DEF Steady, Final
  <2>4. TookItsNonce(h)'
    BY <2>1, <2>2, <2>3 DEF TookItsNonce
  <2> QED  BY <1>2, <1>3, <2>4 DEF Credible
<1> QED  BY <1>2, <1>3

LEMMA FollowsOn ==
    ASSUME TxInv, Steady, mode' = mode, NEW plan, NEW hashes \in Seq(Hashes), Follows(hashes, plan)
    PROVE  Follows(hashes, plan)'
<1>1. \A h \in Hashes : tx[h].from = "signer" => tx'[h].from = "signer" /\ tx'[h].nonce = tx[h].nonce
  BY TxTypes DEF Steady
<1>2. \A k \in DOMAIN hashes : hashes[k] \in Hashes
  OBVIOUS
<1> QED  BY <1>1, <1>2 DEF Follows

(***************************************************************************)
(* The panels: what is ledgered as a success took its nonce.               *)
(***************************************************************************)
LEMMA FollowedIsHis ==
    ASSUME TxInv, NEW h \in Hashes, Agrees(h), tx[Followed(h)].fate = "success"
    PROVE  Credible(h)
<1>1. tx[h].from = "signer"
  BY DEF Agrees
<1>2. \E g \in Hashes : tx[g].from = "signer" /\ tx[g].nonce = tx[h].nonce /\ tx[g].fate = "success"
  <2>1. CASE tx[h].fate = "displaced"
    <3> PICK g : g = Followed(h)
      OBVIOUS
    <3>1. \E f \in Hashes : tx[f].from = tx[h].from /\ tx[f].nonce = tx[h].nonce /\ tx[f].fate \in {"success", "reverted"}
      BY <2>1 DEF TxInv, Final
    <3>2. g \in Hashes /\ tx[g].from = tx[h].from /\ tx[g].nonce = tx[h].nonce
      BY <2>1, <3>1 DEF Followed
    <3> QED  BY <1>1, <3>2
  <2>2. CASE tx[h].fate # "displaced"
    BY <1>1, <2>2 DEF Followed
  <2> QED  BY <2>1, <2>2
<1> QED  BY <1>2 DEF Credible, TookItsNonce

LEMMA LedgerFrame ==
    ASSUME LedgerInv, TxInv, Steady, mode' = mode, UNCHANGED <<ledger, fixed>>
    PROVE  LedgerInv' /\ (Won => Won')
<1>1. \A k \in DOMAIN ledger : ledger[k].hash \in Hashes
  <2>1. \A k \in DOMAIN ledger : ledger[k] \in LedgerRows
    BY DEF LedgerInv
  <2> QED  BY <2>1 DEF LedgerRows
<1>2. ASSUME NEW k \in DOMAIN ledger, ledger[k].ok PROVE Credible(ledger[k].hash)'
  <2> PICK h : h = ledger[k].hash
    OBVIOUS
  <2>1. h \in Hashes /\ Credible(h)
    BY <1>1, <1>2 DEF LedgerInv
  <2>2. Credible(h)'
    BY <2>1, CreditIsSteady
  <2> QED  BY <2>2 DEF Credible, Agrees, TookItsNonce
<1>3. Won => Won'
  BY DEF Won
<1> QED  BY <1>2, <1>3 DEF LedgerInv

LEMMA LedgerGrows ==
    ASSUME LedgerInv, NEW h \in Hashes, NEW ok \in BOOLEAN, ok => Credible(h),
           ledger' = Append(ledger, [hash |-> h, ok |-> ok]), UNCHANGED <<fixed, tx, mode>>
    PROVE  LedgerInv' /\ (Won => Won') /\ (ok => Won')
<1> PICK entry : entry = [hash |-> h, ok |-> ok]
  OBVIOUS
<1>1. ledger \in Seq(LedgerRows) /\ entry \in LedgerRows
      /\ entry.hash = h /\ entry.ok = ok /\ ledger' = Append(ledger, entry)
  BY DEF LedgerInv, LedgerRows
<1>2. /\ ledger' \in Seq(LedgerRows) /\ Len(ledger) \in Nat
      /\ Len(ledger') = Len(ledger) + 1 /\ ledger'[Len(ledger) + 1] = entry
      /\ \A k \in 1..Len(ledger) : ledger'[k] = ledger[k]
  BY <1>1
<1>3. DOMAIN ledger = 1..Len(ledger) /\ DOMAIN ledger' = 1..Len(ledger')
  BY <1>1, <1>2
<1>4. DOMAIN ledger' = DOMAIN ledger \union {Len(ledger) + 1}
  BY <1>2, <1>3
<1>5. (Won => Won') /\ (ok => Won')
  BY <1>1, <1>2, <1>3, <1>4 DEF Won
<1>6. ASSUME NEW k \in DOMAIN ledger', ledger'[k].ok PROVE Credible(ledger'[k].hash)
  <2>1. CASE k \in DOMAIN ledger
    BY <1>2, <1>3, <1>6, <2>1 DEF LedgerInv
  <2>2. CASE k = Len(ledger) + 1
    BY <1>1, <1>2, <1>6, <2>2
  <2> QED  BY <1>4, <2>1, <2>2
<1>7. ASSUME NEW k \in DOMAIN ledger', ledger'[k].ok PROVE Credible(ledger[k].hash)'
  BY <1>6, <1>7 DEF Credible, Agrees, TookItsNonce
<1>8. fixed' \in Fixes /\ (fixed'.status = "resolved" => Won')
  BY <1>5 DEF LedgerInv
<1> QED  BY <1>2, <1>5, <1>7, <1>8 DEF LedgerInv

LEMMA JustifiedOn ==
    ASSUME TxInv, Steady, mode' = mode, Won => Won', NEW r, Justified(r)
    PROVE  Justified(r)'
<1>1. r.at = "waiting" => r.hash \in Hashes /\ Agrees(r.hash)
  BY DEF Justified
<1> PICK h : h = r.hash
  OBVIOUS
<1>2. h \in Hashes /\ Agrees(h) => Agrees(h)'
  BY CreditIsSteady
<1>3. r.at = "waiting" => Agrees(r.hash)'
  BY <1>1, <1>2
<1> QED  BY <1>3 DEF Justified

LEMMA PanelMoves ==
    ASSUME TxInv, PanelInv, Steady, mode' = mode, Won => Won', NEW p \in Panels, NEW new \in PanelLocals,
           panel' = [panel EXCEPT ![p] = new], Justified(new)'
    PROVE  PanelInv'
<1>1. panel' \in [Panels -> PanelLocals] /\ \A q \in Panels : panel'[q] = IF q = p THEN new ELSE panel[q]
  BY DEF PanelInv
<1>2. ASSUME NEW q \in Panels PROVE Justified(panel[q])'
  <2> PICK r : r = panel[q]
    OBVIOUS
  <2>1. Justified(r)
    BY DEF PanelInv
  <2>2. Justified(r)'
    BY <2>1, JustifiedOn
  <2>3. CASE q = p
    BY <1>1, <2>3 DEF Justified, Agrees
  <2>4. CASE q # p
    BY <1>1, <2>2, <2>4 DEF Justified, Agrees
  <2> QED  BY <2>3, <2>4
<1> QED  BY <1>1, <1>2 DEF PanelInv

LEMMA PanelFrame ==
    ASSUME TxInv, PanelInv, Steady, mode' = mode, Won => Won', panel' = panel
    PROVE  PanelInv'
<1>1. ASSUME NEW q \in Panels PROVE Justified(panel[q])'
  <2> PICK r : r = panel[q]
    OBVIOUS
  <2>1. Justified(r)
    BY DEF PanelInv
  <2>2. Justified(r)'
    BY <2>1, JustifiedOn
  <2> QED  BY <2>2
<1> QED  BY <1>1 DEF PanelInv

\* What an answer of the ledger makes of a panel's copy of the row.
LEMMA RowIsFixed ==
    ASSUME NEW r \in Fixes, NEW o \in {"succeeded", "failed"}
    PROVE  /\ [r EXCEPT !.outcome = o] \in Fixes /\ [r EXCEPT !.outcome = o].status = r.status
           /\ [r EXCEPT !.outcome = o].outcome = o /\ [r EXCEPT !.status = "resolved"] \in Fixes
BY DEF Fixes

\* The panel once the fate of what it followed is in the ledger.
Deciding(p, ok) ==
    [AtStep(p, "saving") EXCEPT !.row.outcome = IF ok THEN "succeeded" ELSE "failed"]

LEMMA Decided ==
    ASSUME TxInv, LedgerInv, PanelInv, NEW p \in Panels, panel[p].at = "waiting", NEW ok \in BOOLEAN,
           ok => Credible(panel[p].hash), Ledgered(p, ok), mode' = mode, next' = next,
           panel' = [panel EXCEPT ![p] = Deciding(p, ok)]
    PROVE  TxInv' /\ LedgerInv' /\ PanelInv' /\ Steady
<1> PICK r : r = panel[p]
  OBVIOUS
<1>o. PICK o \in {"succeeded", "failed"} : o = IF ok THEN "succeeded" ELSE "failed"
  OBVIOUS
<1>s. PICK saving : saving = [r EXCEPT !.at = "saving"]
  OBVIOUS
<1>c. PICK copy : copy = [saving.row EXCEPT !.outcome = o]
  OBVIOUS
<1>n. PICK new : new = [saving EXCEPT !.row = copy]
  OBVIOUS
<1>1. r \in PanelLocals /\ Justified(r) /\ r.at = "waiting"
  BY DEF PanelInv
<1>2. r.hash \in Hashes
  BY <1>1 DEF Justified
<1>3. saving \in PanelLocals /\ saving.at = "saving" /\ saving.row = r.row /\ saving.hash = r.hash
      /\ r.row \in Fixes
  BY <1>1, <1>s DEF PanelLocals
<1>4. copy \in Fixes /\ copy.status = r.row.status /\ copy.outcome = o
  BY <1>3, <1>c DEF Fixes
<1>5. new \in PanelLocals /\ new.at = "saving" /\ new.row = copy /\ new.hash = r.hash
  BY <1>3, <1>4, <1>n DEF PanelLocals
<1>6. panel' = [panel EXCEPT ![p] = new]
  BY <1>o, <1>s, <1>c, <1>n DEF AtStep, Deciding
<1>7. /\ TxInv' /\ Steady /\ LedgerInv' /\ (Won => Won') /\ (ok => Won')
  <2>1. UNCHANGED <<tx, fixed, next, mode>> /\ ledger' = Append(ledger, [hash |-> r.hash, ok |-> ok])
    BY DEF Ledgered
  <2>2. ok => Credible(r.hash)
    OBVIOUS
  <2> QED  BY <1>2, <2>1, <2>2, LedgerGrows, NothingMined
<1>8. Justified(new)'
  <2>1. r.row.status = "resolved" => Won
    BY <1>1 DEF Justified
  <2>2. o = "succeeded" => Won'
    BY <1>7, <1>o
  <2> QED  BY <1>2, <1>4, <1>5, <1>7, <2>1, <2>2 DEF Justified
<1>9. PanelInv'
  BY <1>5, <1>6, <1>7, <1>8, PanelMoves
<1> QED  BY <1>7, <1>9

\* No step of a panel touches another page, nor the chain's next nonce.
LEMMA PanelLeaves ==
    ASSUME NEW p \in Panels, PanelNext(p)
    PROVE  UNCHANGED <<next, scene, known, watching, claim, picker, lastCall>>
<1>1. ASSUME NEW from, NEW new, PanelStep(p, from, new)
      PROVE  UNCHANGED <<next, scene, known, watching, claim, picker, lastCall>>
  BY <1>1 DEF PanelStep
<1>2. CASE PlanArrives(p) \/ SignIsPressed(p) \/ ChainIsSwitched(p)
  BY <1>1, <1>2 DEF PlanArrives, SignIsPressed, ChainIsSwitched
<1>3. CASE WalletRefuses(p) \/ AcceptFails(p)
  BY <1>1, <1>3 DEF WalletRefuses, AcceptFails
<1>4. CASE \E a \in {"signer", "other"}, right \in BOOLEAN : WalletConnects(p, a, right)
  BY <1>1, <1>4 DEF WalletConnects
<1>5. CASE \E h \in Hashes : HashIsPasted(p, h) \/ \E n \in Nonces : WalletSends(p, h, n)
  BY <1>1, <1>5 DEF HashIsPasted, WalletSends
<1>6. CASE RowIsLoaded(p) \/ TxIsChecked(p)
  BY <1>1, <1>6 DEF RowIsLoaded, TxIsChecked
<1>7. CASE ReceiptComes(p) \/ ReceiptTimesOut(p)
  BY <1>1, <1>7 DEF ReceiptComes, ReceiptTimesOut
<1>8. CASE \E heard \in BOOLEAN : OutcomeIsSaved(p, heard)
  BY <1>1, <1>8 DEF OutcomeIsSaved
<1> QED  BY <1>2, <1>3, <1>4, <1>5, <1>6, <1>7, <1>8 DEF PanelNext

LEMMA PanelKeeps ==
    ASSUME TxInv, LedgerInv, PanelInv, mode' = mode, NEW p \in Panels, PanelNext(p)
    PROVE  TxInv' /\ LedgerInv' /\ PanelInv' /\ Steady
<1> PICK r : r = panel[p]
  OBVIOUS
<1>1. r \in PanelLocals /\ Justified(r)
  BY DEF PanelInv
<1>2. next' = next
  BY PanelLeaves
<1>3. ASSUME NEW new \in PanelLocals, Justified(new), panel' = [panel EXCEPT ![p] = new],
             UNCHANGED <<ledger, fixed, tx>>
      PROVE  TxInv' /\ LedgerInv' /\ PanelInv' /\ Steady
  <2>1. TxInv' /\ Steady
    BY <1>2, <1>3, NothingMined
  <2>2. LedgerInv' /\ (Won => Won')
    BY <1>3, <2>1, LedgerFrame
  <2>3. Justified(new)'
    BY <1>3, <2>1, <2>2, JustifiedOn
  <2> QED  BY <1>3, <2>1, <2>2, <2>3, PanelMoves
<1>4. CASE PlanArrives(p) \/ WalletRefuses(p) \/ AcceptFails(p)
  <2> PICK new : new = [r EXCEPT !.at = "ready"]
    OBVIOUS
  <2>1. panel' = [panel EXCEPT ![p] = new] /\ UNCHANGED <<ledger, fixed, tx>>
    BY <1>4 DEF PlanArrives, WalletRefuses, AcceptFails, PanelStep, AtStep, NothingStored
  <2>2. new \in PanelLocals /\ Justified(new)
    BY <1>1 DEF PanelLocals, Justified
  <2> QED  BY <1>3, <2>1, <2>2
<1>5. CASE \E a \in {"signer", "other"}, right \in BOOLEAN : WalletConnects(p, a, right)
  <2> PICK a \in {"signer", "other"}, right \in BOOLEAN : WalletConnects(p, a, right)
    BY <1>5
  <2> PICK new : new = [r EXCEPT !.account = a, !.chain = right]
    OBVIOUS
  <2>1. panel' = [panel EXCEPT ![p] = new] /\ UNCHANGED <<ledger, fixed, tx>> /\ r.at = "ready"
    BY DEF WalletConnects, PanelStep, NothingStored
  <2>2. new \in PanelLocals /\ new.at = "ready" /\ new.row = r.row
    BY <1>1, <2>1 DEF PanelLocals
  <2>3. Justified(new)
    BY <1>1, <2>2 DEF Justified
  <2> QED  BY <1>3, <2>1, <2>2, <2>3
<1>6. CASE SignIsPressed(p)
  <2> PICK s : s = IF r.chain THEN "asking" ELSE "switching"
    OBVIOUS
  <2> PICK new : new = [r EXCEPT !.at = s]
    OBVIOUS
  <2>1. panel' = [panel EXCEPT ![p] = new] /\ UNCHANGED <<ledger, fixed, tx>> /\ r.account = "signer"
    BY <1>6 DEF SignIsPressed, PanelStep, AtStep, NothingStored
  <2>2. new \in PanelLocals /\ new.at \in {"asking", "switching"} /\ new.row = r.row /\ new.account = "signer"
    BY <1>1, <2>1 DEF PanelLocals
  <2>3. Justified(new)
    BY <1>1, <2>2 DEF Justified
  <2> QED  BY <1>3, <2>1, <2>2, <2>3
<1>7. CASE ChainIsSwitched(p)
  <2> PICK new : new = [[r EXCEPT !.at = "asking"] EXCEPT !.chain = TRUE]
    OBVIOUS
  <2>1. panel' = [panel EXCEPT ![p] = new] /\ UNCHANGED <<ledger, fixed, tx>> /\ r.at = "switching"
    BY <1>7 DEF ChainIsSwitched, PanelStep, AtStep, NothingStored
  <2>2. new \in PanelLocals /\ new.at = "asking" /\ new.row = r.row /\ new.account = r.account
    BY <1>1 DEF PanelLocals
  <2>3. Justified(new)
    BY <1>1, <2>1, <2>2 DEF Justified
  <2> QED  BY <1>3, <2>1, <2>2, <2>3
<1>8. CASE \E h \in Hashes : HashIsPasted(p, h)
  <2> PICK h \in Hashes : HashIsPasted(p, h)
    BY <1>8
  <2> PICK new : new = [[r EXCEPT !.at = "loading"] EXCEPT !.hash = h]
    OBVIOUS
  <2>1. panel' = [panel EXCEPT ![p] = new] /\ UNCHANGED <<ledger, fixed, tx>>
    BY DEF HashIsPasted, PanelStep, AtStep, NothingStored
  <2>2. new \in PanelLocals /\ new.at = "loading" /\ new.row = r.row /\ new.hash = h
    BY <1>1 DEF PanelLocals
  <2>3. Justified(new)
    BY <1>1, <2>2 DEF Justified
  <2> QED  BY <1>3, <2>1, <2>2, <2>3
<1>9. CASE \E h \in Hashes : \E n \in Nonces : WalletSends(p, h, n)
  <2> PICK h \in Hashes, n \in Nonces : WalletSends(p, h, n)
    BY <1>9
  <2> PICK new : new = [[r EXCEPT !.at = "loading"] EXCEPT !.hash = h]
    OBVIOUS
  <2>1. /\ panel' = [panel EXCEPT ![p] = new] /\ UNCHANGED <<ledger, fixed>> /\ r.at = "asking"
        /\ Sent(h, r.account, n)
    BY DEF WalletSends, PanelStep, AtStep, NothingStored
  <2>2. new \in PanelLocals /\ new.at = "loading" /\ new.row = r.row /\ new.hash = h
    BY <1>1 DEF PanelLocals
  <2>3. Justified(new)
    BY <1>1, <2>2 DEF Justified
  <2>4. TxInv' /\ Steady
    <3>1. Sent(h, "signer", n) /\ n \in Nat
      BY <1>1, <2>1 DEF Justified, Nonces
    <3> QED  BY <1>2, <3>1, SentIsSteady
  <2>5. LedgerInv' /\ (Won => Won')
    BY <2>1, <2>4, LedgerFrame
  <2>6. Justified(new)'
    BY <2>3, <2>4, <2>5, JustifiedOn
  <2> QED  BY <2>1, <2>2, <2>4, <2>5, <2>6, PanelMoves
<1>10. CASE RowIsLoaded(p)
  <2> PICK new : new = [[r EXCEPT !.at = "checking"] EXCEPT !.row = fixed]
    OBVIOUS
  <2>1. panel' = [panel EXCEPT ![p] = new] /\ UNCHANGED <<ledger, fixed, tx>> /\ r.at = "loading"
    BY <1>10 DEF RowIsLoaded, PanelStep, AtStep, NothingStored
  <2>2. fixed \in Fixes /\ (fixed.status = "resolved" => Won)
    BY DEF LedgerInv
  <2>3. new \in PanelLocals /\ new.at = "checking" /\ new.row = fixed /\ new.hash = r.hash
    BY <1>1, <2>2 DEF PanelLocals
  <2>4. Justified(new)
    BY <1>1, <2>1, <2>2, <2>3 DEF Justified
  <2> QED  BY <1>3, <2>1, <2>3, <2>4
<1>11. CASE TxIsChecked(p)
  <2>s. PICK s \in {"waiting", "ready"} : s = IF Agrees(r.hash) THEN "waiting" ELSE "ready"
    OBVIOUS
  <2>n. PICK new : new = [r EXCEPT !.at = s]
    OBVIOUS
  <2>1. panel' = [panel EXCEPT ![p] = new] /\ UNCHANGED <<ledger, fixed, tx>> /\ r.at = "checking"
    BY <1>11, <2>s, <2>n DEF TxIsChecked, PanelStep, AtStep, NothingStored
  <2>2. new \in PanelLocals /\ new.at = s /\ new.row = r.row /\ new.hash = r.hash
    BY <1>1, <2>n DEF PanelLocals
  <2>3. Justified(new)
    <3>1. r.hash \in Hashes /\ (r.row.status = "resolved" => Won)
      BY <1>1, <2>1 DEF Justified
    <3>2. new.at = "waiting" => Agrees(new.hash)
      BY <2>s, <2>2
    <3> QED  BY <2>2, <3>1, <3>2 DEF Justified
  <2> QED  BY <1>3, <2>1, <2>2, <2>3
<1>12. CASE ReceiptComes(p)
  <2> PICK ok : ok = (tx[Followed(r.hash)].fate = "success")
    OBVIOUS
  <2>1. /\ r.at = "waiting" /\ Ledgered(p, ok)
        /\ panel' = [panel EXCEPT ![p] = [AtStep(p, "saving") EXCEPT
                                            !.row.outcome = IF ok THEN "succeeded" ELSE "failed"]]
    BY <1>12 DEF ReceiptComes, PanelStep
  <2>2. r.hash \in Hashes /\ Agrees(r.hash)
    BY <1>1, <2>1 DEF Justified
  <2>3. ok \in BOOLEAN /\ (ok => Credible(r.hash))
    BY <2>2, FollowedIsHis
  <2> QED  BY <1>2, <2>1, <2>3, Decided DEF Deciding
<1>13. CASE ReceiptTimesOut(p)
  <2>1. /\ r.at = "waiting" /\ Ledgered(p, FALSE)
        /\ panel' = [panel EXCEPT ![p] = [AtStep(p, "saving") EXCEPT !.row.outcome = "failed"]]
    BY <1>13 DEF ReceiptTimesOut, PanelStep
  <2>2. panel' = [panel EXCEPT ![p] = [AtStep(p, "saving") EXCEPT
                                         !.row.outcome = IF FALSE THEN "succeeded" ELSE "failed"]]
    BY <2>1
  <2> QED  BY <1>2, <2>1, <2>2, Decided DEF Deciding
<1>14. CASE \E heard \in BOOLEAN : OutcomeIsSaved(p, heard)
  <2>h. PICK heard \in BOOLEAN : OutcomeIsSaved(p, heard)
    BY <1>14
  <2>r. PICK result \in {"none", "included", "not included"} :
             result = IF ~heard THEN r.result ELSE IF r.row.outcome = "succeeded" THEN "included" ELSE "not included"
    BY <1>1 DEF PanelLocals
  <2>m. PICK mid : mid = [r EXCEPT !.at = "ready"]
    OBVIOUS
  <2>n. PICK new : new = [mid EXCEPT !.result = result]
    OBVIOUS
  <2>1. /\ panel' = [panel EXCEPT ![p] = new] /\ UNCHANGED <<ledger, tx>> /\ r.at = "saving"
        /\ fixed' = IF r.row.outcome = "succeeded" THEN [r.row EXCEPT !.status = "resolved"] ELSE r.row
    BY <2>h, <2>r, <2>m, <2>n DEF OutcomeIsSaved, PanelStep, AtStep
  <2>2. new \in PanelLocals /\ new.at = "ready" /\ new.row = r.row /\ r.row \in Fixes
    <3>1. mid \in PanelLocals /\ mid.at = "ready" /\ mid.row = r.row /\ r.row \in Fixes
      BY <1>1, <2>m DEF PanelLocals
    <3> QED  BY <2>n, <3>1 DEF PanelLocals
  <2>3. Justified(new)
    BY <1>1, <2>2 DEF Justified
  <2>4. /\ fixed' \in Fixes
        /\ fixed'.status = "resolved" => r.row.outcome = "succeeded" \/ r.row.status = "resolved"
    BY <2>1, <2>2, RowIsFixed
  <2>5. fixed'.status = "resolved" => Won
    BY <1>1, <2>1, <2>4 DEF Justified
  <2>6. TxInv' /\ Steady
    BY <1>2, <2>1, NothingMined
  <2>7. Won => Won'
    BY <2>1 DEF Won
  <2>8. LedgerInv'
    <3>1. ASSUME NEW k \in DOMAIN ledger, ledger[k].ok PROVE Credible(ledger[k].hash)'
      BY <2>1, <3>1 DEF LedgerInv, Credible, Agrees, TookItsNonce
    <3> QED  BY <2>1, <2>4, <2>5, <2>7, <3>1 DEF LedgerInv
  <2>9. Justified(new)'
    BY <2>3, <2>6, <2>7, JustifiedOn
  <2> QED  BY <2>1, <2>2, <2>6, <2>7, <2>8, <2>9, PanelMoves
<1> QED  BY <1>4, <1>5, <1>6, <1>7, <1>8, <1>9, <1>10, <1>11, <1>12, <1>13, <1>14 DEF PanelNext

(***************************************************************************)
(* The scenes: each hash sent is the next step of the plan on the page.    *)
(***************************************************************************)
LEMMA InStepOn ==
    ASSUME TxInv, Steady, mode' = mode, NEW r \in SceneLocals, InStep(r)
    PROVE  InStep(r)'
<1>1. r.signed \in Seq(Hashes) /\ r.produced \in Seq(Hashes)
  BY DEF SceneLocals
<1> PICK plan, signed, produced : plan = r.plan /\ signed = r.signed /\ produced = r.produced
  OBVIOUS
<1>2. Follows(signed, plan) => Follows(signed, plan)'
  BY <1>1, FollowsOn
<1>3. Follows(produced, plan) => Follows(produced, plan)'
  BY <1>1, FollowsOn
<1> QED  BY <1>2, <1>3 DEF InStep

LEMMA SceneMoves ==
    ASSUME TxInv, SceneInv, Steady, mode' = mode, NEW s \in Scenes, NEW new \in SceneLocals, InStep(new)',
           scene' = [scene EXCEPT ![s] = new]
    PROVE  SceneInv'
<1>1. scene' \in [Scenes -> SceneLocals] /\ \A u \in Scenes : scene'[u] = IF u = s THEN new ELSE scene[u]
  BY DEF SceneInv
<1>2. ASSUME NEW u \in Scenes PROVE InStep(scene[u])'
  <2> PICK r : r = scene[u]
    OBVIOUS
  <2>1. r \in SceneLocals /\ InStep(r)
    BY DEF SceneInv
  <2>2. InStep(r)'
    BY <2>1, InStepOn
  <2>3. CASE u = s
    BY <1>1, <2>3 DEF InStep, Follows
  <2>4. CASE u # s
    BY <1>1, <2>2, <2>4 DEF InStep, Follows
  <2> QED  BY <2>3, <2>4
<1> QED  BY <1>1, <1>2 DEF SceneInv

LEMMA SceneFrame ==
    ASSUME TxInv, SceneInv, Steady, mode' = mode, scene' = scene
    PROVE  SceneInv'
<1>1. ASSUME NEW u \in Scenes PROVE InStep(scene[u])'
  <2> PICK r : r = scene[u]
    OBVIOUS
  <2>1. r \in SceneLocals /\ InStep(r)
    BY DEF SceneInv
  <2>2. InStep(r)'
    BY <2>1, InStepOn
  <2> QED  BY <2>2 DEF InStep, Follows
<1> QED  BY <1>1 DEF SceneInv

LEMMA NextIsWithin ==
    ASSUME NEW l \in Nat, NEW m \in Nat, l - m > 0
    PROVE  m + 1 \in Nat /\ m + 1 \in 1..l
OBVIOUS

LEMMA PendingIsANumber == TxInv => PendingNonce \in Nat
<1> SUFFICES ASSUME TxInv PROVE PendingNonce \in Nat
  OBVIOUS
<1> PICK S : S = {n \in Nonces : n >= next /\ \A k \in next..n : \E h \in Hashes : Pending(h) /\ Of(h, k)}
  OBVIOUS
<1>1. S \in SUBSET (1..3)
  BY DEF Nonces
<1>2. IsFiniteSet(1..3)
  <2>1. 1 \in Int /\ 3 \in Int
    OBVIOUS
  <2>2. \A i, j \in Int : IsFiniteSet(i..j)
    BY FS_Interval
  <2> QED  BY <2>1, <2>2
<1>3. IsFiniteSet(S)
  BY <1>1, <1>2, FS_Subset
<1>4. Cardinality(S) \in Nat
  BY <1>3, FS_CardinalityType
<1> QED  BY <1>4 DEF PendingNonce, TxInv

\* Nor does a step of a scene.
LEMMA SceneLeaves ==
    ASSUME NEW s \in Scenes, SceneNext(s)
    PROVE  UNCHANGED <<next, ledger, fixed, panel, watching, claim, picker, lastCall>>
<1>1. ASSUME NEW from, NEW new, SceneStep(s, from, new)
      PROVE  UNCHANGED <<next, ledger, fixed, panel, watching, claim, picker, lastCall>>
  BY <1>1 DEF SceneStep
<1>2. CASE ScenePlans(s) \/ PlanIsDeclined(s) \/ PlanFails(s) \/ \E plan \in Plans : PlanIsWritten(s, plan)
  BY <1>1, <1>2 DEF ScenePlans, PlanIsDeclined, PlanFails, PlanIsWritten
<1>3. CASE SceneSigns(s) \/ SceneThrows(s) \/ SceneIsRefused(s) \/ SceneReports(s)
  BY <1>1, <1>3 DEF SceneSigns, SceneThrows, SceneIsRefused, SceneReports
<1>4. CASE \E h \in Hashes, n \in Nonces : SceneSends(s, h, n)
  <2> PICK h \in Hashes, n \in Nonces : SceneSends(s, h, n)
    BY <1>4
  <2>1. \E new : SceneStep(s, "signing", new)
    BY DEF SceneSends
  <2> QED  BY <1>1, <2>1
<1>5. CASE \E found \in SUBSET Hashes : IsObserved(s, found)
  BY <1>1, <1>5 DEF IsObserved
<1> QED  BY <1>2, <1>3, <1>4, <1>5 DEF SceneNext

LEMMA SceneKeeps ==
    ASSUME TxInv, SceneInv, mode' = mode, NEW s \in Scenes, SceneNext(s)
    PROVE  TxInv' /\ SceneInv' /\ Steady
<1> PICK r : r = scene[s]
  OBVIOUS
<1>1. r \in SceneLocals /\ InStep(r)
  BY DEF SceneInv
<1>2. next' = next
  BY SceneLeaves
<1>3. ASSUME NEW new \in SceneLocals, InStep(new), scene' = [scene EXCEPT ![s] = new], tx' = tx
      PROVE  TxInv' /\ SceneInv' /\ Steady
  <2>1. TxInv' /\ Steady
    BY <1>2, <1>3, NothingMined
  <2>2. InStep(new)'
    BY <1>3, <2>1, InStepOn
  <2> QED  BY <1>3, <2>1, <2>2, SceneMoves
\* A page in which only its await, its error, its plan and one list of hashes change.
<1>a. ASSUME NEW a \in {"idle", "planning", "signing", "reporting"}, NEW error \in {"none", "not asked"},
             NEW mid, mid = [r EXCEPT !.at = a, !.error = error]
      PROVE  /\ mid \in SceneLocals /\ mid.at = a /\ mid.plan = r.plan
             /\ mid.signed = r.signed /\ mid.produced = r.produced
  BY <1>1, <1>a DEF SceneLocals
<1>4. CASE ScenePlans(s)
  <2>5. PICK none \in Seq(Hashes) : none = <<>>
    <3>1. <<>> \in Seq(Hashes)
      OBVIOUS
    <3> QED  BY <3>1, Zenon
  <2>m. PICK mid : mid = InScene(s, "planning")
    OBVIOUS
  <2>k. mid = [r EXCEPT !.at = "planning", !.error = "none"]
    BY <2>m DEF InScene
  <2>n. PICK new : new = [mid EXCEPT !.signed = none]
    OBVIOUS
  <2>0. mid \in SceneLocals /\ mid.at = "planning"
    BY <1>a, <2>k
  <2>1. scene' = [scene EXCEPT ![s] = new] /\ tx' = tx
    <3>1. scene' = [scene EXCEPT ![s] = [InScene(s, "planning") EXCEPT !.signed = <<>>]] /\ tx' = tx
      BY <1>4 DEF ScenePlans, SceneStep, NothingSent
    <3>2. [InScene(s, "planning") EXCEPT !.signed = <<>>] = new
      BY <2>5, <2>m, <2>n, Zenon
    <3> QED  BY <3>1, <3>2
  <2>2. new \in SceneLocals /\ new.at = "planning" /\ new.signed = <<>>
    BY <2>0, <2>5, <2>n DEF SceneLocals
  <2>3. InStep(new)
    BY <2>2 DEF InStep, Follows
  <2> QED  BY <1>3, <2>1, <2>2, <2>3
<1>5. CASE PlanIsDeclined(s) \/ \E plan \in Plans : PlanIsWritten(s, plan)
  <2>m. PICK mid : mid = InScene(s, "idle")
    OBVIOUS
  <2>k. mid = [r EXCEPT !.at = "idle", !.error = "none"]
    BY <2>m DEF InScene
  <2>p. PICK plan \in Seq(Nat) :
             scene' = [scene EXCEPT ![s] = [mid EXCEPT !.plan = plan]] /\ tx' = tx /\ r.at = "planning"
    <3>1. CASE PlanIsDeclined(s)
      <4>1. PICK plan : plan = <<>>
        OBVIOUS
      <4>2. plan \in Seq(Nat)
        BY <4>1
      <4>3. /\ scene' = [scene EXCEPT ![s] = [InScene(s, "idle") EXCEPT !.plan = <<>>]]
            /\ tx' = tx /\ r.at = "planning"
        BY <3>1 DEF PlanIsDeclined, SceneStep, NothingSent
      <4>4. [InScene(s, "idle") EXCEPT !.plan = <<>>] = [mid EXCEPT !.plan = plan]
        BY <2>m, <4>1, Zenon
      <4> QED  BY <4>2, <4>3, <4>4
    <3>2. CASE \E plan \in Plans : PlanIsWritten(s, plan)
      <4>1. PICK plan \in Plans : PlanIsWritten(s, plan)
        BY <3>2
      <4>2. plan \in Seq(Nat)
        <5>1. plan = <<NoNonce>> \/ plan = <<PendingNonce + 1>>
          BY <4>1 DEF Plans
        <5>2. NoNonce \in Nat /\ PendingNonce + 1 \in Nat
          BY PendingIsANumber DEF NoNonce
        <5>3. PICK n \in Nat : plan = <<n>>
          BY <5>1, <5>2
        <5> QED  BY <5>3
      <4>3. scene' = [scene EXCEPT ![s] = [mid EXCEPT !.plan = plan]] /\ tx' = tx /\ r.at = "planning"
        BY <2>m, <4>1 DEF PlanIsWritten, SceneStep, NothingSent
      <4> QED  BY <4>2, <4>3
    <3> QED  BY <1>5, <3>1, <3>2
  <2>n. PICK new : new = [mid EXCEPT !.plan = plan]
    OBVIOUS
  <2>0. mid \in SceneLocals /\ mid.at = "idle" /\ mid.signed = r.signed
    BY <1>a, <2>k
  <2>3. new \in SceneLocals /\ new.at = "idle" /\ new.signed = r.signed
    BY <2>0, <2>p, <2>n DEF SceneLocals
  <2>4. r.signed = <<>>
    BY <1>1, <2>p DEF InStep
  <2>5. InStep(new)
    BY <2>3, <2>4 DEF InStep, Follows
  <2> QED  BY <1>3, <2>p, <2>n, <2>3, <2>5
<1>6. CASE \/ PlanFails(s) \/ SceneThrows(s) \/ SceneIsRefused(s) \/ SceneReports(s)
           \/ \E found \in SUBSET Hashes : IsObserved(s, found)
  <2> PICK a \in {"idle", "reporting"}, error \in {"none", "not asked"} :
           scene' = [scene EXCEPT ![s] = [r EXCEPT !.at = a, !.error = error]] /\ tx' = tx
    BY <1>6 DEF PlanFails, SceneThrows, SceneIsRefused, SceneReports, IsObserved, SceneStep, InScene, NothingSent
  <2>n. PICK new : new = [r EXCEPT !.at = a, !.error = error]
    OBVIOUS
  <2>1. new \in SceneLocals /\ new.at = a /\ new.signed = r.signed /\ new.plan = r.plan
    BY <1>1, <2>n DEF SceneLocals
  <2>2. InStep(new)
    BY <1>1, <2>1 DEF InStep
  <2> QED  BY <1>3, <2>n, <2>1, <2>2
<1>7. CASE SceneSigns(s)
  <2>e. PICK none \in Seq(Hashes) : none = <<>>
    <3>1. <<>> \in Seq(Hashes)
      OBVIOUS
    <3> QED  BY <3>1, Zenon
  <2>m. PICK mid : mid = InScene(s, "signing")
    OBVIOUS
  <2>k. mid = [r EXCEPT !.at = "signing", !.error = "none"]
    BY <2>m DEF InScene
  <2>n. PICK new : new = [mid EXCEPT !.produced = none]
    OBVIOUS
  <2>0. mid \in SceneLocals /\ mid.at = "signing" /\ mid.signed = r.signed /\ mid.plan = r.plan
    BY <1>a, <2>k
  <2>1. scene' = [scene EXCEPT ![s] = new] /\ tx' = tx
    <3>1. scene' = [scene EXCEPT ![s] = [InScene(s, "signing") EXCEPT !.produced = <<>>]] /\ tx' = tx
      BY <1>7 DEF SceneSigns, SceneStep, NothingSent
    <3>2. [InScene(s, "signing") EXCEPT !.produced = <<>>] = new
      BY <2>e, <2>m, <2>n, Zenon
    <3> QED  BY <3>1, <3>2
  <2>2. new \in SceneLocals /\ new.at = "signing" /\ new.signed = r.signed /\ new.plan = r.plan /\ new.produced = <<>>
    BY <2>0, <2>e, <2>n DEF SceneLocals
  <2>3. InStep(new)
    BY <1>1, <2>2 DEF InStep, Follows
  <2> QED  BY <1>3, <2>1, <2>2, <2>3
<1>8. CASE \E h \in Hashes, m \in Nonces : SceneSends(s, h, m)
  <2> PICK h \in Hashes, m \in Nonces : SceneSends(s, h, m)
    BY <1>8
  <2>a. PICK plan, before : plan = r.plan /\ before = r.produced
    OBVIOUS
  <2>b. PICK n, produced : n = Len(before) + 1 /\ produced = Append(before, h)
    OBVIOUS
  <2>m. PICK mid : mid = [r EXCEPT !.produced = produced]
    OBVIOUS
  <2>n. PICK new : new = [mid EXCEPT !.signed = produced]
    OBVIOUS
  <2>1. /\ scene' = [scene EXCEPT ![s] = new] /\ r.at = "signing" /\ Sent(h, "signer", m)
        /\ Len(plan) - Len(before) > 0 /\ (~mode.renonces => m = plan[n]) /\ m \in Nat
    <3>1. /\ scene' = [scene EXCEPT ![s] = [scene[s] EXCEPT !.produced = Append(scene[s].produced, h),
                                                             !.signed = Append(scene[s].produced, h)]]
          /\ r.at = "signing" /\ Sent(h, "signer", m) /\ Left(s) > 0
          /\ ~mode.renonces => m = NextNonce(s)
      BY DEF SceneSends, SceneStep
    <3>2. [scene[s] EXCEPT !.produced = Append(scene[s].produced, h),
                           !.signed = Append(scene[s].produced, h)] = new
      <4>1. Append(scene[s].produced, h) = produced
        BY <2>a, <2>b
      <4> QED  BY <2>m, <2>n, <4>1
    <3>3. Left(s) = Len(plan) - Len(before) /\ NextNonce(s) = plan[n]
      BY <2>a, <2>b DEF Left, NextNonce
    <3>4. m \in Nat
      BY DEF Nonces
    <3> QED  BY <3>1, <3>2, <3>3, <3>4
  <2>2. plan \in Seq(Nat) /\ before \in Seq(Hashes)
    BY <1>1, <2>a DEF SceneLocals
  <2>3. /\ n \in Nat /\ n \in 1..Len(plan) /\ plan[n] \in Nat /\ DOMAIN plan = 1..Len(plan)
    <3>1. Len(plan) \in Nat /\ Len(before) \in Nat /\ DOMAIN plan = 1..Len(plan)
      BY <2>2
    <3>2. n \in Nat /\ n \in 1..Len(plan)
      <4>1. PICK l \in Nat, b \in Nat : l = Len(plan) /\ b = Len(before)
        BY <3>1
      <4>2. l - b > 0
        BY <2>1, <4>1
      <4>3. b + 1 \in Nat /\ b + 1 \in 1..l
        BY <4>2, NextIsWithin
      <4> QED  BY <2>b, <4>1, <4>3
    <3>3. plan[n] \in Nat
      BY <2>2, <3>2
    <3> QED  BY <3>1, <3>2, <3>3
  <2>4. /\ produced \in Seq(Hashes) /\ DOMAIN produced = DOMAIN before \union {n}
        /\ produced[n] = h /\ \A k \in DOMAIN before : produced[k] = before[k]
    <3>1. DOMAIN before = 1..Len(before) /\ Len(before) \in Nat
      BY <2>2
    <3>2. produced \in Seq(Hashes) /\ Len(produced) = n /\ DOMAIN produced = 1..n
      BY <2>2, <2>b, <3>1
    <3>3. 1..n = (1..Len(before)) \union {n}
      BY <2>b, <3>1
    <3>4. produced[n] = h /\ \A k \in 1..Len(before) : produced[k] = before[k]
      BY <2>2, <2>b, <3>1
    <3> QED  BY <3>1, <3>2, <3>3, <3>4
  <2>5. /\ TxInv' /\ Steady /\ tx'[h].from = "signer" /\ tx'[h].nonce = m
    BY <1>2, <2>1, SentIsSteady
  <2>6. Follows(before, plan)
    BY <1>1, <2>1, <2>a DEF InStep
  <2>7. Follows(before, plan)'
    BY <2>2, <2>5, <2>6, FollowsOn
  <2>8. Follows(produced, plan)'
    BY <2>1, <2>3, <2>4, <2>5, <2>7 DEF Follows
  <2>9. new \in SceneLocals /\ new.at = "signing" /\ new.signed = produced /\ new.produced = produced /\ new.plan = plan
    <3>1. mid \in SceneLocals /\ mid.at = "signing" /\ mid.plan = plan /\ mid.produced = produced
      BY <1>1, <2>1, <2>4, <2>a, <2>m DEF SceneLocals
    <3> QED  BY <2>4, <2>n, <3>1 DEF SceneLocals
  <2>10. InStep(new)'
    BY <2>8, <2>9 DEF InStep
  <2> QED  BY <2>1, <2>5, <2>9, <2>10, SceneMoves
<1> QED  BY <1>4, <1>5, <1>6, <1>7, <1>8 DEF SceneNext

(***************************************************************************)
(* The pickers: a page is settled only where it shows what is watched.     *)
(***************************************************************************)
Called == /\ watching' \in SUBSET Workflows
          /\ claim' \in [Workflows -> {"none", "ours", "theirs"}]

LEMMA PickerMoves ==
    ASSUME PickerInv, Called, NEW t \in Pickers, NEW new \in PickerLocals,
           picker' = [picker EXCEPT ![t] = new], Settles(new),
           new.saved /\ lastCall' = t => new.offered = watching',
           (watching' = watching /\ lastCall' = lastCall) \/ lastCall' = t
    PROVE  PickerInv'
<1>1. picker' \in [Pickers -> PickerLocals] /\ \A u \in Pickers : picker'[u] = IF u = t THEN new ELSE picker[u]
  BY DEF PickerInv
<1>2. ASSUME NEW u \in Pickers PROVE Settles(picker[u])' /\ (picker'[u].saved /\ lastCall' = u => picker'[u].offered = watching')
  <2>1. CASE u = t
    BY <1>1, <2>1 DEF Settles
  <2>2. CASE u # t
    <3>1. picker'[u] = picker[u] /\ Settles(picker[u])
      BY <1>1, <2>2 DEF PickerInv
    <3>2. lastCall' = u => watching' = watching /\ lastCall = u
      BY <2>2
    <3>3. picker[u].saved /\ lastCall = u => picker[u].offered = watching
      BY DEF PickerInv
    <3> QED  BY <3>1, <3>2, <3>3 DEF Settles
  <2> QED  BY <2>1, <2>2
<1> QED  BY <1>1, <1>2 DEF PickerInv, Called

LEMMA PickerKeeps ==
    ASSUME PickerInv, NEW t \in Pickers, PickerNext(t)
    PROVE  PickerInv' /\ UNCHANGED <<tx, next, ledger, fixed, panel, scene, known>>
<1> PICK r : r = picker[t]
  OBVIOUS
<1>1. r \in PickerLocals /\ Settles(r) /\ (r.saved /\ lastCall = t => r.offered = watching)
  BY DEF PickerInv
<1>2. /\ r.at \in {"idle", "listing", "adding", "claiming", "removing", "saved"} /\ r.listed \in BOOLEAN
      /\ r.offered \in SUBSET Workflows /\ r.picked \in SUBSET Workflows /\ r.adding \in SUBSET Workflows
      /\ r.removing \in SUBSET Workflows /\ r.saved \in BOOLEAN /\ watching \in SUBSET Workflows
  BY <1>1 DEF PickerLocals, PickerInv
<1>3. UNCHANGED <<tx, next, ledger, fixed, panel, scene, known>>
  BY DEF PickerNext, ListIsAskedFor, WorkflowsAreListed, Toggles, SaveIsPressed, WorkflowsAreWatched,
         WorkflowIsClaimed, AddIsAnswered, WorkflowIsUnwatched, SaveIsDone, PickerFails, PickerStep
<1> SUFFICES PickerInv'
  BY <1>3
<1>4. NothingCalled => Called
  BY DEF NothingCalled, Called, PickerInv
<1>5. ASSUME NEW new \in PickerLocals, picker' = [picker EXCEPT ![t] = new], Called, ~new.saved,
             NothingCalled \/ lastCall' = t
      PROVE  PickerInv'
  <2>1. Settles(new)
    BY <1>5 DEF Settles
  <2> QED  BY <1>5, <2>1, PickerMoves DEF NothingCalled
<1>6. CASE ListIsAskedFor(t)
  <2> PICK new : new = [[r EXCEPT !.at = "listing"] EXCEPT !.saved = FALSE]
    OBVIOUS
  <2>1. picker' = [picker EXCEPT ![t] = new] /\ NothingCalled
    BY <1>6 DEF ListIsAskedFor, PickerStep, At
  <2>2. new \in PickerLocals /\ ~new.saved
    BY <1>1 DEF PickerLocals
  <2> QED  BY <1>4, <1>5, <2>1, <2>2
<1>7. CASE WorkflowsAreListed(t)
  <2> PICK w, ended : w = watching /\ ended = (r.at = "saved")
    OBVIOUS
  <2> PICK new : new = [[r EXCEPT !.at = "idle"] EXCEPT !.listed = TRUE, !.offered = w, !.picked = w, !.saved = ended]
    OBVIOUS
  <2>1. picker' = [picker EXCEPT ![t] = new] /\ NothingCalled
    BY <1>7 DEF WorkflowsAreListed, PickerStep, Relisted, At
  <2>2. w \in SUBSET Workflows /\ ended \in BOOLEAN
    BY <1>2
  <2>3. new \in PickerLocals /\ new.at = "idle" /\ new.offered = w /\ new.picked = w
    BY <1>1, <2>2 DEF PickerLocals
  <2>4. Settles(new)
    BY <2>3 DEF Settles
  <2>5. watching' = w /\ watching' = watching /\ lastCall' = lastCall
    BY <2>1 DEF NothingCalled
  <2> QED  BY <1>4, <2>1, <2>3, <2>4, <2>5, PickerMoves
<1>8. CASE \E w \in Workflows : Toggles(t, w)
  <2> PICK w \in Workflows : Toggles(t, w)
    BY <1>8
  <2> PICK picked : picked = IF w \in r.picked THEN r.picked \ {w} ELSE r.picked \union {w}
    OBVIOUS
  <2> PICK new : new = [r EXCEPT !.saved = FALSE, !.picked = picked]
    OBVIOUS
  <2>1. picker' = [picker EXCEPT ![t] = new] /\ NothingCalled
    BY <1>1 DEF Toggles, PickerStep, PickerLocals
  <2>2. picked \in SUBSET Workflows
    BY <1>2
  <2>3. new \in PickerLocals /\ ~new.saved
    BY <1>1, <2>2 DEF PickerLocals
  <2> QED  BY <1>4, <1>5, <2>1, <2>3
<1>9. CASE SaveIsPressed(t)
  <2>a. PICK added, removed : added = r.picked \ r.offered /\ removed = r.offered \ r.picked
    OBVIOUS
  <2>b. PICK at \in {"removing", "adding"} : at = IF added = {} THEN "removing" ELSE "adding"
    OBVIOUS
  <2>m. PICK mid : mid = [r EXCEPT !.at = at]
    OBVIOUS
  <2>k. PICK most : most = [mid EXCEPT !.adding = added]
    OBVIOUS
  <2>n. PICK new : new = [most EXCEPT !.removing = removed]
    OBVIOUS
  <2>1. picker' = [picker EXCEPT ![t] = new] /\ NothingCalled /\ added \union removed # {}
    BY <1>9, <2>a, <2>b, <2>m, <2>k, <2>n DEF SaveIsPressed, PickerStep, At
  <2>2. added \in SUBSET Workflows /\ removed \in SUBSET Workflows
    BY <1>2, <2>a
  <2>3. mid \in PickerLocals /\ mid.saved = r.saved
    BY <1>1, <2>m DEF PickerLocals
  <2>7. most \in PickerLocals /\ most.saved = r.saved
    BY <2>2, <2>3, <2>k DEF PickerLocals
  <2>4. new \in PickerLocals /\ new.saved = r.saved
    BY <2>2, <2>7, <2>n DEF PickerLocals
  <2>5. r.picked # r.offered
    BY <2>1, <2>a
  <2>6. ~new.saved
    BY <1>1, <2>4, <2>5 DEF Settles
  <2> QED  BY <1>4, <1>5, <2>1, <2>4, <2>6
<1>10. CASE WorkflowsAreWatched(t)
  <2> PICK new : new = [r EXCEPT !.at = "claiming"]
    OBVIOUS
  <2>1. picker' = [picker EXCEPT ![t] = new] /\ r.at = "adding" /\ lastCall' = t
        /\ watching' = watching \union r.adding /\ claim' = claim
    BY <1>10 DEF WorkflowsAreWatched, PickerStep, At
  <2>2. new \in PickerLocals /\ new.saved = r.saved
    BY <1>1 DEF PickerLocals
  <2>3. ~new.saved
    BY <1>1, <2>1, <2>2 DEF Settles
  <2>4. Called
    BY <1>2, <2>1 DEF Called, PickerInv
  <2> QED  BY <1>5, <2>1, <2>2, <2>3, <2>4
<1>11. CASE \E w \in Workflows : WorkflowIsClaimed(t, w)
  <2> PICK w \in Workflows : WorkflowIsClaimed(t, w)
    BY <1>11
  <2> PICK adding : adding = r.adding \ {w}
    OBVIOUS
  <2> PICK new : new = [r EXCEPT !.adding = adding]
    OBVIOUS
  <2>1. picker' = [picker EXCEPT ![t] = new] /\ r.at = "claiming" /\ UNCHANGED <<watching, lastCall>>
        /\ claim' = [claim EXCEPT ![w] = Claimed(w)]
    BY <1>1 DEF WorkflowIsClaimed, PickerStep, PickerLocals
  <2>2. adding \in SUBSET Workflows
    BY <1>2
  <2>3. new \in PickerLocals /\ new.saved = r.saved
    BY <1>1, <2>2 DEF PickerLocals
  <2>4. ~new.saved
    BY <1>1, <2>1, <2>3 DEF Settles
  <2>5. Claimed(w) \in {"none", "ours", "theirs"}
    BY DEF Claimed, PickerInv
  <2>6. Called
    BY <1>2, <2>1, <2>5 DEF Called, PickerInv
  <2>7. Settles(new)
    BY <2>4 DEF Settles
  <2> QED  BY <2>1, <2>3, <2>4, <2>6, <2>7, PickerMoves
<1>12. CASE AddIsAnswered(t) \/ SaveIsDone(t) \/ PickerFails(t)
  <2> PICK a \in {"removing", "saved", "idle"} : picker' = [picker EXCEPT ![t] = [r EXCEPT !.at = a]] /\ r.at # "idle"
    BY <1>12 DEF AddIsAnswered, SaveIsDone, PickerFails, PickerStep, At
  <2> PICK new : new = [r EXCEPT !.at = a]
    OBVIOUS
  <2>1. picker' = [picker EXCEPT ![t] = new] /\ NothingCalled
    BY <1>12 DEF AddIsAnswered, SaveIsDone, PickerFails, PickerStep
  <2>2. new \in PickerLocals /\ new.saved = r.saved
    BY <1>1 DEF PickerLocals
  <2>3. ~new.saved
    BY <1>1, <2>2 DEF Settles
  <2> QED  BY <1>4, <1>5, <2>1, <2>2, <2>3
<1>13. CASE \E w \in Workflows : WorkflowIsUnwatched(t, w)
  <2> PICK w \in Workflows : WorkflowIsUnwatched(t, w)
    BY <1>13
  <2> PICK removing : removing = r.removing \ {w}
    OBVIOUS
  <2> PICK new : new = [r EXCEPT !.removing = removing]
    OBVIOUS
  <2>1. picker' = [picker EXCEPT ![t] = new] /\ r.at = "removing" /\ lastCall' = t
        /\ watching' = watching \ {w} /\ claim' = claim
    BY <1>1 DEF WorkflowIsUnwatched, PickerStep, PickerLocals
  <2>2. removing \in SUBSET Workflows
    BY <1>2
  <2>3. new \in PickerLocals /\ new.saved = r.saved
    BY <1>1, <2>2 DEF PickerLocals
  <2>4. ~new.saved
    BY <1>1, <2>1, <2>3 DEF Settles
  <2>5. Called
    BY <1>2, <2>1 DEF Called, PickerInv
  <2> QED  BY <1>5, <2>1, <2>3, <2>4, <2>5
<1> QED  BY <1>6, <1>7, <1>8, <1>9, <1>10, <1>11, <1>12, <1>13 DEF PickerNext

LEMMA PickerFrame == PickerInv /\ UNCHANGED <<watching, claim, picker, lastCall>> => PickerInv'
BY DEF PickerInv, Settles

LEMMA AnotherClaims ==
    ASSUME PickerInv, NEW w \in Workflows, ClaimedByAnother(w)
    PROVE  PickerInv'
<1>1. claim' \in [Workflows -> {"none", "ours", "theirs"}] /\ UNCHANGED <<watching, picker, lastCall>>
  BY DEF ClaimedByAnother, PickerInv
<1> QED  BY <1>1 DEF PickerInv, Settles

LEMMA SigningFrame == SigningInv /\ UNCHANGED <<mode, svars>> => SigningInv'
<1> SUFFICES ASSUME SigningInv, UNCHANGED <<mode, svars>> PROVE SigningInv'
  OBVIOUS
<1>1. TxInv' /\ Steady
  BY NothingMined DEF SigningInv, svars
<1>2. LedgerInv' /\ (Won => Won')
  BY <1>1, LedgerFrame DEF SigningInv, svars
<1>3. PanelInv' /\ SceneInv'
  BY <1>1, <1>2, PanelFrame, SceneFrame DEF SigningInv, svars
<1>4. PickerInv'
  BY PickerFrame DEF SigningInv, svars
<1> QED  BY <1>1, <1>2, <1>3, <1>4 DEF SigningInv

LEMMA SigningKept == SigningInv /\ mode' = mode /\ SigningNext => SigningInv'
<1> SUFFICES ASSUME SigningInv, mode' = mode, SigningNext PROVE SigningInv'
  OBVIOUS
<1>1. TxInv /\ LedgerInv /\ PanelInv /\ SceneInv /\ PickerInv
  BY DEF SigningInv
<1>2. CASE \E p \in Panels : PanelNext(p)
  <2> PICK p \in Panels : PanelNext(p)
    BY <1>2
  <2>1. TxInv' /\ LedgerInv' /\ PanelInv' /\ Steady
    BY <1>1, PanelKeeps
  <2>2. UNCHANGED <<scene, watching, claim, picker, lastCall>>
    BY PanelLeaves
  <2> QED  BY <1>1, <2>1, <2>2, SceneFrame, PickerFrame DEF SigningInv
<1>3. ASSUME TxInv', Steady, UNCHANGED <<ledger, fixed, panel>>
      PROVE  LedgerInv' /\ PanelInv'
  <2>1. LedgerInv' /\ (Won => Won')
    BY <1>1, <1>3, LedgerFrame
  <2> QED  BY <1>1, <1>3, <2>1, PanelFrame
<1>4. CASE \E s \in Scenes : SceneNext(s)
  <2> PICK s \in Scenes : SceneNext(s)
    BY <1>4
  <2>1. TxInv' /\ SceneInv' /\ Steady
    BY <1>1, SceneKeeps
  <2>2. UNCHANGED <<ledger, fixed, panel, watching, claim, picker, lastCall>>
    BY SceneLeaves
  <2> QED  BY <1>1, <1>3, <2>1, <2>2, PickerFrame DEF SigningInv
<1>5. ASSUME TxInv', Steady, UNCHANGED <<ledger, fixed, panel, scene>>, PickerInv' PROVE SigningInv'
  BY <1>1, <1>3, <1>5, SceneFrame DEF SigningInv
<1>6. CASE \E t \in Pickers : PickerNext(t)
  <2> PICK t \in Pickers : PickerNext(t)
    BY <1>6
  <2>1. PickerInv' /\ UNCHANGED <<tx, next, ledger, fixed, panel, scene>>
    BY <1>1, PickerKeeps
  <2>2. TxInv' /\ Steady
    BY <1>1, <2>1, NothingMined
  <2> QED  BY <1>5, <2>1, <2>2
<1>7. CASE \E h \in Hashes, fate \in {"success", "reverted"} : Mines(h, fate)
  <2> PICK h \in Hashes, fate \in Final : Mines(h, fate)
    BY <1>7 DEF Final
  <2>1. TxInv' /\ Steady
    BY <1>1, MinedIsSteady
  <2>2. UNCHANGED <<ledger, fixed, panel, scene, watching, claim, picker, lastCall>>
    BY DEF Mines
  <2> QED  BY <1>1, <1>5, <2>1, <2>2, PickerFrame
<1>8. CASE \E h \in Hashes, a \in {"signer", "other"}, n \in Nonces : SentElsewhere(h, a, n)
  <2> PICK h \in Hashes, a \in {"signer", "other"}, n \in Nonces : SentElsewhere(h, a, n)
    BY <1>8
  <2>1. n \in Nat /\ Sent(h, a, n) /\ next' = next
    BY DEF SentElsewhere, Nonces
  <2>2. TxInv' /\ Steady
    BY <1>1, <2>1, SentIsSteady
  <2>3. UNCHANGED <<ledger, fixed, panel, scene, watching, claim, picker, lastCall>>
    BY DEF SentElsewhere
  <2> QED  BY <1>1, <1>5, <2>2, <2>3, PickerFrame
<1>9. CASE \E w \in Workflows : ClaimedByAnother(w)
  <2> PICK w \in Workflows : ClaimedByAnother(w)
    BY <1>9
  <2>1. PickerInv'
    BY <1>1, AnotherClaims
  <2>2. UNCHANGED <<tx, next, ledger, fixed, panel, scene>>
    BY DEF ClaimedByAnother
  <2>3. TxInv' /\ Steady
    BY <1>1, <2>2, NothingMined
  <2> QED  BY <1>5, <2>1, <2>2, <2>3
<1> QED  BY <1>2, <1>4, <1>6, <1>7, <1>8, <1>9 DEF SigningNext

LEMMA SigningStarts == SigningInit => SigningInv
<1> SUFFICES ASSUME SigningInit PROVE SigningInv
  OBVIOUS
<1>1. TxInv
  <2>1. NoTx \in TxRecords /\ NoTx.fate = "unsent"
    BY DEF NoTx, TxRecords
  <2>2. tx \in [Hashes -> TxRecords] /\ next \in Nat /\ \A h \in Hashes : tx[h].fate = "unsent"
    BY <2>1 DEF SigningInit, Planned
  <2> QED  BY <2>2 DEF TxInv
<1>2. Unfixed \in Fixes /\ Unfixed.status = "open" /\ Unfixed.outcome = "none"
  BY DEF Unfixed, Fixes
<1>3. LedgerInv
  <2>1. ledger = <<>> /\ fixed = Unfixed
    BY DEF SigningInit
  <2>2. ledger \in Seq(LedgerRows) /\ DOMAIN ledger = {}
    BY <2>1
  <2> QED  BY <1>2, <2>1, <2>2 DEF LedgerInv
<1>4. PanelInv
  <2> PICK copy, r : copy = Unfixed /\ r = [at |-> "blank", account |-> "none", chain |-> FALSE,
                                         hash |-> NoHash, row |-> copy, result |-> "none"]
    OBVIOUS
  <2>1. r \in PanelLocals /\ r.at = "blank" /\ r.row.status = "open"
    BY <1>2 DEF PanelLocals
  <2>2. Justified(r)
    BY <2>1 DEF Justified
  <2>3. panel = [p \in Panels |-> r]
    BY DEF SigningInit
  <2> QED  BY <2>1, <2>2, <2>3 DEF PanelInv
<1>5. SceneInv
  <2> PICK r : r = [at |-> "idle", plan |-> <<>>, signed |-> <<>>, produced |-> <<>>, error |-> "none"]
    OBVIOUS
  <2>1. r \in SceneLocals /\ r.at = "idle" /\ r.signed = <<>>
    BY DEF SceneLocals
  <2>2. InStep(r)
    BY <2>1 DEF InStep, Follows
  <2>3. scene = [s \in Scenes |-> r]
    BY DEF SigningInit
  <2> QED  BY <2>1, <2>2, <2>3 DEF SceneInv
<1>6. PickerInv
  <2> PICK r : r = [at |-> "idle", listed |-> FALSE, offered |-> {}, picked |-> {},
                    adding |-> {}, removing |-> {}, saved |-> FALSE]
    OBVIOUS
  <2>1. r \in PickerLocals /\ ~r.saved
    BY DEF PickerLocals
  <2>2. picker = [t \in Pickers |-> r] /\ watching = {} /\ claim = [w \in Workflows |-> "none"]
    BY DEF SigningInit
  <2> QED  BY <2>1, <2>2 DEF PickerInv, Settles
<1> QED  BY <1>1, <1>3, <1>4, <1>5, <1>6 DEF SigningInv

(***************************************************************************)
(* The questions: what was told stays true as the chain goes on.           *)
(***************************************************************************)
LEMMA DiagnosisConstants ==
    IsFiniteSet(Askers) /\ CacheLimit \in Nat \ {0} /\ Attempts \in Nat \ {0}
BY DiagnosisAssumption

LEMMA Ranks ==
    /\ Rank["none"] = 0 /\ Rank["absent"] = 1 /\ Rank["pending"] = 2 /\ Rank["clean"] = 3
    /\ Rank["reverted"] = 3
    /\ Later["absent"] = {"pending"} /\ Later["pending"] = {"clean", "drifted", "doomed"}
    /\ Later["clean"] = {} /\ Later["drifted"] = {} /\ Later["doomed"] = {}
    /\ DOMAIN Later = {"absent", "pending", "clean", "drifted", "doomed"}
BY DEF Rank, Later

LEMMA StatusOf ==
    ASSUME AskersInv, NEW x \in Transactions
    PROVE  /\ visible[x] = "absent" => Status(x) = "absent"
           /\ visible[x] = "pending" => Status(x) = "pending"
           /\ visible[x] = "clean" => Status(x) = "clean"
           /\ visible[x] \in {"drifted", "doomed"} => Status(x) = "reverted"
           /\ visible[x] \in {"absent", "pending", "clean", "drifted", "doomed"}
BY DEF AskersInv, Status

\* What was said of a transaction outlives its steps.
LEMMA SaidOn ==
    ASSUME AskersInv, NEW x \in Transactions, NEW s \in DOMAIN Later, Progresses(x, s),
           NEW state \in States, NEW y \in Transactions,
           Rank[state] <= Rank[Status(y)], state \in {"clean", "reverted"} => state = Status(y)
    PROVE  /\ Rank[state] <= Rank[Status(y)'] /\ (state \in {"clean", "reverted"} => state = Status(y)')
           /\ visible[y] = "drifted" => visible'[y] = "drifted"
<1>s. PICK before, after, old, new :
          before = visible[y] /\ after = visible'[y] /\ old = Status(y) /\ new = Status(y)'
  OBVIOUS
<1>1. state \in {"none", "absent", "pending", "clean", "reverted"}
  BY DEF States
<1>2. before \in {"absent", "pending", "clean", "drifted", "doomed"}
  BY <1>s DEF AskersInv
<1>3. after = before \/ after \in Later[before]
  BY <1>s DEF Progresses, AskersInv
<1>4. old = (IF before \in {"drifted", "doomed"} THEN "reverted" ELSE before)
      /\ new = (IF after \in {"drifted", "doomed"} THEN "reverted" ELSE after)
  BY <1>s DEF Status
<1>5. /\ Rank[state] <= Rank[new] /\ (state \in {"clean", "reverted"} => state = new)
      /\ before = "drifted" => after = "drifted"
  <2>1. CASE after = before
    BY <1>s, <1>4, <2>1
  <2>2. CASE before = "absent" /\ after = "pending"
    BY <1>s, <1>1, <1>4, <2>2, Ranks
  <2>3. CASE before = "pending" /\ after \in {"clean", "drifted", "doomed"}
    BY <1>s, <1>1, <1>4, <2>3, Ranks
  <2> QED  BY <1>2, <1>3, <2>1, <2>2, <2>3, Ranks
<1> QED  BY <1>s, <1>5

LEMMA ToldOn ==
    ASSUME AskersInv, NEW x \in Transactions, NEW s \in DOMAIN Later, Progresses(x, s),
           NEW a \in Answers, NEW y \in Transactions, Told(a, y)
    PROVE  Told(a, y)'
<1>1. a.state \in States
  BY DEF Answers
<1>2. Rank[a.state] <= Rank[Status(y)] /\ (a.state \in {"clean", "reverted"} => a.state = Status(y))
  BY DEF Told
<1>3. /\ Rank[a.state] <= Rank[Status(y)'] /\ (a.state \in {"clean", "reverted"} => a.state = Status(y)')
      /\ visible[y] = "drifted" => visible'[y] = "drifted"
  BY <1>1, <1>2, SaidOn
<1> QED  BY <1>3 DEF Told

LEMMA ReadOn ==
    ASSUME AskersInv, NEW x \in Transactions, NEW s \in DOMAIN Later, Progresses(x, s),
           NEW a \in Answers, NEW y \in Transactions, Read(a, y)
    PROVE  Read(a, y)'
<1>1. a.state \in States
  BY DEF Answers
<1>2. Rank[a.state] <= Rank[Status(y)] /\ (a.state \in {"clean", "reverted"} => a.state = Status(y))
  BY DEF Read
<1>3. /\ Rank[a.state] <= Rank[Status(y)'] /\ (a.state \in {"clean", "reverted"} => a.state = Status(y)')
      /\ visible[y] = "drifted" => visible'[y] = "drifted"
  BY <1>1, <1>2, SaidOn
<1> QED  BY <1>3 DEF Read

LEMMA AskersGoOn ==
    ASSUME AskersInv, CacheInv, NEW x \in Transactions, NEW s \in DOMAIN Later, Progresses(x, s)
    PROVE  AskersInv' /\ CacheInv'
<1>1. visible' \in [Transactions -> {"absent", "pending", "clean", "drifted", "doomed"}]
      /\ UNCHANGED <<asker, answers, calls>>
  BY Ranks DEF Progresses, AskersInv
<1>2. ASSUME NEW q \in Askers PROVE Honest(asker[q])'
  <2> PICK r : r = asker[q]
    OBVIOUS
  <2>1. r \in AskerLocals /\ Honest(r)
    BY DEF AskersInv
  <2>2. r.at # "idle" => r.of \in Transactions
    BY <2>1 DEF Honest
  <2>3. r.answer \in Answers
    BY <2>1 DEF AskerLocals
  <2>4. r.at \in {"answer", "answered"} => Told(r.answer, r.of)'
    BY <2>1, <2>2, <2>3, ToldOn DEF Honest
  <2>5. r.at \in {"judging", "asking"} => Read(r.answer, r.of)'
    BY <2>1, <2>2, <2>3, ReadOn DEF Honest
  <2>6. r = asker'[q]
    BY <1>1
  <2>7. Honest(r)'
    BY <2>1, <2>4, <2>5 DEF Honest
  <2> QED  BY <2>6, <2>7 DEF Honest, Told, Read, Status
<1>3. ASSUME NEW k \in DOMAIN answers PROVE IsTrue(answers[k])'
  <2> PICK e : e = answers[k]
    OBVIOUS
  <2>1. e \in Entries /\ IsTrue(e)
    BY DEF CacheInv
  <2>2. e.answer \in Answers /\ e.of \in Transactions
    BY <2>1 DEF Entries
  <2>3. Told(e.answer, e.of)'
    BY <2>1, <2>2, ToldOn DEF IsTrue
  <2>4. e = answers'[k]
    BY <1>1
  <2> QED  BY <2>3, <2>4 DEF IsTrue, Told, Status
<1> QED  BY <1>1, <1>2, <1>3 DEF AskersInv, CacheInv, OnceEach

\* A request's step, while the chain rests.
LEMMA AskerMoves ==
    ASSUME AskersInv, NEW q \in Askers, NEW new \in AskerLocals, Honest(new),
           asker' = [asker EXCEPT ![q] = new], visible' = visible
    PROVE  AskersInv'
<1>1. asker' \in [Askers -> AskerLocals] /\ \A u \in Askers : asker'[u] = IF u = q THEN new ELSE asker[u]
  BY DEF AskersInv
<1>2. ASSUME NEW u \in Askers PROVE Honest(asker[u])'
  <2>1. CASE u = q
    BY <1>1, <2>1 DEF Honest, Told, Read, Status
  <2>2. CASE u # q
    <3>1. Honest(asker[u]) /\ asker'[u] = asker[u]
      BY <1>1, <2>2 DEF AskersInv
    <3> QED  BY <3>1 DEF Honest, Told, Read, Status
  <2> QED  BY <2>1, <2>2
<1> QED  BY <1>1, <1>2 DEF AskersInv

LEMMA CacheFrame == CacheInv /\ UNCHANGED <<visible, answers>> => CacheInv'
BY DEF CacheInv, IsTrue, OnceEach, Told, Status

(***************************************************************************)
(* The memory: bounded, and no transaction in it twice.                    *)
(***************************************************************************)
LEMMA PutKeeps ==
    ASSUME NEW kept \in Seq(Entries), OnceEach(kept), \A k \in DOMAIN kept : IsTrue(kept[k]),
           NEW e \in Entries, IsTrue(e)
    PROVE  /\ Put(kept, e) \in Seq(Entries) /\ Len(Put(kept, e)) <= Len(kept) + 1
           /\ OnceEach(Put(kept, e)) /\ \A k \in DOMAIN Put(kept, e) : IsTrue(Put(kept, e)[k])
<1>1. DOMAIN kept = 1..Len(kept) /\ Len(kept) \in Nat
  OBVIOUS
<1>2. CASE \E k \in DOMAIN kept : kept[k].of = e.of
  <2> PICK put : put = [k \in DOMAIN kept |-> IF kept[k].of = e.of THEN e ELSE kept[k]]
    OBVIOUS
  <2>1. Put(kept, e) = put
    BY <1>2 DEF Put
  <2>2. put \in [1..Len(kept) -> Entries]
    BY <1>1
  <2>3. put \in Seq(Entries) /\ Len(put) = Len(kept) /\ DOMAIN put = DOMAIN kept
    BY <1>1, <2>2
  <2>4. \A k \in DOMAIN put : put[k].of = kept[k].of /\ IsTrue(put[k])
    OBVIOUS
  <2>5. OnceEach(put)
    BY <2>3, <2>4 DEF OnceEach
  <2> QED  BY <1>1, <2>1, <2>3, <2>4, <2>5
<1>3. CASE ~ \E k \in DOMAIN kept : kept[k].of = e.of
  <2> PICK n, put : n = Len(kept) + 1 /\ put = Append(kept, e)
    OBVIOUS
  <2>1. Put(kept, e) = put
    BY <1>3 DEF Put
  <2>2. put \in Seq(Entries) /\ Len(put) = n /\ DOMAIN put = 1..n /\ n \in Nat
    BY <1>1
  <2>3. 1..n = (1..Len(kept)) \union {n}
    BY <1>1
  <2>4. put[n] = e /\ \A k \in 1..Len(kept) : put[k] = kept[k]
    BY <1>1
  <2>5. \A k \in DOMAIN put : IsTrue(put[k])
    BY <1>1, <2>2, <2>3, <2>4
  <2>6. OnceEach(put)
    BY <1>1, <1>3, <2>2, <2>3, <2>4 DEF OnceEach
  <2> QED  BY <1>1, <2>1, <2>2, <2>5, <2>6
<1> QED  BY <1>2, <1>3

LEMMA TailIsKept ==
    ASSUME NEW kept \in Seq(Entries), OnceEach(kept), \A k \in DOMAIN kept : IsTrue(kept[k]), Len(kept) > 0
    PROVE  /\ Tail(kept) \in Seq(Entries) /\ Len(Tail(kept)) = Len(kept) - 1
           /\ OnceEach(Tail(kept)) /\ \A k \in DOMAIN Tail(kept) : IsTrue(Tail(kept)[k])
<1> PICK rest : rest = Tail(kept)
  OBVIOUS
<1>1. DOMAIN kept = 1..Len(kept) /\ Len(kept) \in Nat
  OBVIOUS
<1>2. rest \in Seq(Entries) /\ Len(rest) = Len(kept) - 1
  BY <1>1
<1>3. DOMAIN rest = 1..(Len(kept) - 1)
  BY <1>2
<1>4. \A k \in DOMAIN rest : rest[k] = kept[k + 1] /\ k + 1 \in DOMAIN kept /\ k \in Int
  BY <1>1, <1>3
<1>5. OnceEach(rest)
  <2> SUFFICES ASSUME NEW j \in DOMAIN rest, NEW k \in DOMAIN rest, rest[j].of = rest[k].of PROVE j = k
    BY DEF OnceEach
  <2>1. j + 1 = k + 1
    BY <1>4 DEF OnceEach
  <2> QED  BY <1>4, <2>1
<1>6. \A k \in DOMAIN rest : IsTrue(rest[k])
  BY <1>4
<1> QED  BY <1>2, <1>5, <1>6

LEMMA PutBoundedKeeps ==
    ASSUME NEW kept \in Seq(Entries), OnceEach(kept), \A k \in DOMAIN kept : IsTrue(kept[k]),
           Len(kept) <= CacheLimit, NEW e \in Entries, IsTrue(e)
    PROVE  /\ PutBounded(kept, e) \in Seq(Entries) /\ Len(PutBounded(kept, e)) <= CacheLimit
           /\ OnceEach(PutBounded(kept, e)) /\ \A k \in DOMAIN PutBounded(kept, e) : IsTrue(PutBounded(kept, e)[k])
<1>1. Len(kept) \in Nat /\ CacheLimit \in Nat \ {0}
  BY DiagnosisConstants
<1>2. CASE Len(kept) >= CacheLimit
  <2> PICK rest : rest = Tail(kept)
    OBVIOUS
  <2>1. rest \in Seq(Entries) /\ Len(rest) = Len(kept) - 1 /\ OnceEach(rest) /\ \A k \in DOMAIN rest : IsTrue(rest[k])
    BY <1>1, <1>2, TailIsKept
  <2> PICK put : put = Put(rest, e)
    OBVIOUS
  <2>2. put \in Seq(Entries) /\ Len(put) <= Len(rest) + 1 /\ OnceEach(put) /\ \A k \in DOMAIN put : IsTrue(put[k])
    BY <2>1, PutKeeps
  <2>3. PutBounded(kept, e) = put
    BY <1>2 DEF PutBounded
  <2>4. Len(put) <= CacheLimit
    <3> PICK l, m, n : l = Len(put) /\ m = Len(rest) /\ n = Len(kept)
      OBVIOUS
    <3>1. l \in Nat /\ m \in Nat /\ n \in Nat /\ l <= m + 1 /\ m = n - 1 /\ n <= CacheLimit
      BY <1>1, <2>1, <2>2
    <3> QED  BY <1>1, <3>1
  <2> QED  BY <2>2, <2>3, <2>4
<1>3. CASE ~(Len(kept) >= CacheLimit)
  <2> PICK put : put = Put(kept, e)
    OBVIOUS
  <2>1. put \in Seq(Entries) /\ Len(put) <= Len(kept) + 1 /\ OnceEach(put) /\ \A k \in DOMAIN put : IsTrue(put[k])
    BY PutKeeps
  <2>2. PutBounded(kept, e) = put
    BY <1>3 DEF PutBounded
  <2>3. Len(put) <= CacheLimit
    <3> PICK l, n : l = Len(put) /\ n = Len(kept)
      OBVIOUS
    <3>1. l \in Nat /\ n \in Nat /\ l <= n + 1 /\ n < CacheLimit
      BY <1>1, <1>3, <2>1
    <3> QED  BY <1>1, <3>1
  <2> QED  BY <2>1, <2>2, <2>3
<1> QED  BY <1>2, <1>3

(***************************************************************************)
(* The bill: every attempt of every request once.                          *)
(***************************************************************************)
LEMMA FewBills ==
    ASSUME NEW S \in SUBSET (Askers \X (1..Attempts))
    PROVE  IsFiniteSet(S) /\ Cardinality(S) \in Nat
<1>1. 1 \in Int /\ Attempts \in Int
  BY DiagnosisConstants
<1>2. IsFiniteSet(1..Attempts)
  BY <1>1, FS_Interval
<1>3. IsFiniteSet(Askers \X (1..Attempts))
  BY <1>2, DiagnosisConstants, FS_Product
<1>4. IsFiniteSet(S)
  BY <1>3, FS_Subset
<1> QED  BY <1>4, FS_CardinalityType

LEMMA BillsAreFinite == IsFiniteSet(Bills) /\ Cardinality(Bills) \in Nat
<1>1. Bills \in SUBSET (Askers \X (1..Attempts))
  BY DEF Bills
<1> QED  BY <1>1, FewBills

LEMMA BillsOf ==
    ASSUME AskersInv, NEW q \in Askers, NEW new \in AskerLocals, Billed(asker[q]) \subseteq Billed(new),
           asker' = [asker EXCEPT ![q] = new]
    PROVE  /\ Bills \subseteq Bills'
           /\ \A n \in 1..Attempts : n \in Billed(new) => <<q, n>> \in Bills'
<1>1. \A u \in Askers : asker'[u] = IF u = q THEN new ELSE asker[u]
  BY DEF AskersInv
<1>2. \A u \in Askers : Billed(asker[u]) \subseteq Billed(asker'[u])
  BY <1>1
<1>3. Bills' = {b \in Askers \X (1..Attempts) : b[2] \in Billed(asker'[b[1]])}
  BY DEF Bills, Billed
<1>4. Bills \subseteq Bills'
  BY <1>2, <1>3 DEF Bills
<1>5. \A n \in 1..Attempts : n \in Billed(new) => <<q, n>> \in Bills'
  BY <1>1, <1>3
<1> QED  BY <1>4, <1>5

LEMMA CallsKeep ==
    ASSUME AskersInv, CallsInv, NEW q \in Askers, NEW new \in AskerLocals, Billed(asker[q]) \subseteq Billed(new),
           asker' = [asker EXCEPT ![q] = new], calls' = calls
    PROVE  CallsInv'
<1> PICK B, C : B = Bills /\ C = Bills'
  OBVIOUS
<1>1. B \subseteq C
  BY BillsOf
<1>2. IsFiniteSet(C) /\ Cardinality(C) \in Nat
  <2>1. C \in SUBSET (Askers \X (1..Attempts))
    BY DEF Bills
  <2> QED  BY <2>1, FewBills
<1>3. Cardinality(B) <= Cardinality(C) /\ Cardinality(B) \in Nat
  BY <1>1, <1>2, FS_Subset, BillsAreFinite
<1>4. calls \in Nat /\ calls <= Cardinality(B)
  BY DEF CallsInv
<1> QED  BY <1>2, <1>3, <1>4 DEF CallsInv

LEMMA CallsGrow ==
    ASSUME AskersInv, CallsInv, NEW q \in Askers, NEW new \in AskerLocals, Billed(asker[q]) \subseteq Billed(new),
           asker' = [asker EXCEPT ![q] = new], calls' = calls + 1,
           NEW n \in 1..Attempts, n \in Billed(new), n \notin Billed(asker[q])
    PROVE  CallsInv'
<1> PICK B, C, b, D : B = Bills /\ C = Bills' /\ b = <<q, n>> /\ D = B \union {b}
  OBVIOUS
<1>1. B \subseteq C /\ b \in C
  BY BillsOf
<1>2. IsFiniteSet(C) /\ Cardinality(C) \in Nat
  <2>1. C \in SUBSET (Askers \X (1..Attempts))
    BY DEF Bills
  <2> QED  BY <2>1, FewBills
<1>3. b \notin B
  BY DEF Bills
<1>4. IsFiniteSet(B) /\ Cardinality(B) \in Nat
  BY BillsAreFinite
<1>5. Cardinality(D) = Cardinality(B) + 1
  BY <1>3, <1>4, FS_AddElement
<1>6. D \in SUBSET C
  BY <1>1
<1>7. Cardinality(D) <= Cardinality(C)
  BY <1>2, <1>6, FS_Subset
<1>8. calls \in Nat /\ calls <= Cardinality(B)
  BY DEF CallsInv
<1>9. calls + 1 \in Nat /\ calls + 1 <= Cardinality(C)
  BY <1>2, <1>4, <1>5, <1>7, <1>8
<1> QED  BY <1>9 DEF CallsInv

LEMMA CallsFrame == CallsInv /\ UNCHANGED <<asker, calls>> => CallsInv'
BY DEF CallsInv, Bills, Billed

LEMMA AskerKeeps ==
    ASSUME AskersInv, CacheInv, CallsInv, NEW q \in Askers,
           AskerNext(q) \/ \E x \in Transactions : Asks(q, x)
    PROVE  AskersInv' /\ CacheInv' /\ CallsInv'
<1> PICK r : r = asker[q]
  OBVIOUS
<1> PICK answer, of : answer = r.answer /\ of = r.of
  OBVIOUS
<1>1. r \in AskerLocals /\ Honest(r)
  BY DEF AskersInv
<1>2. /\ answer \in Answers /\ of \in Transactions \union {NobodysTx} /\ r.attempt \in 0..Attempts - 1
      /\ Attempts \in Nat \ {0}
  BY <1>1, DiagnosisConstants DEF AskerLocals
<1>3. /\ Unanswered \in Answers /\ Unanswered.state = "none" /\ Unanswered.source = "none"
      /\ Unanswered.class = "none" /\ Unanswered.replay = "unknown"
  BY DEF Unanswered, Answers, States, Classes
<1>4. \A x \in Transactions : Told(Unanswered, x)
  <2>1. \A x \in Transactions : Rank["none"] <= Rank[Status(x)]
    BY StatusOf, Ranks
  <2> QED  BY <1>3, <2>1 DEF Told
<1>5. visible' = visible
  BY DEF AskerNext, Asks, TxIsRead, IsJudged, ReadFails, ModelAnswers, IsAnswered
<1>6. ASSUME NEW new \in AskerLocals, Honest(new), asker' = [asker EXCEPT ![q] = new],
             r.at \in {"idle", "reading", "judging", "answer"}, UNCHANGED calls, r.at = "answer" => new.at = "answered"
      PROVE  AskersInv' /\ CallsInv'
  <2>1. Billed(r) \subseteq Billed(new)
    BY <1>6 DEF Billed
  <2>2. CallsInv'
    BY <1>6, <2>1, CallsKeep
  <2> QED  BY <1>5, <1>6, <2>2, AskerMoves
<1>7. CASE \E x \in Transactions : Asks(q, x)
  <2> PICK x \in Transactions : Asks(q, x)
    BY <1>7
  <2>1. r.at = "idle" /\ UNCHANGED <<visible, answers, calls>>
    BY DEF Asks, Step
  <2>2. CacheInv'
    BY <2>1, CacheFrame
  <2>3. NoAsker \in AskerLocals /\ NoAsker.answer = Unanswered /\ NoAsker.at = "idle"
    BY <1>2, <1>3 DEF NoAsker, AskerLocals
  <2>4. CASE Remembered(x) = {}
    <3> PICK new : new = [NoAsker EXCEPT !.at = "reading", !.of = x]
      OBVIOUS
    <3>1. asker' = [asker EXCEPT ![q] = new]
      BY <2>4 DEF Asks, Step
    <3>2. new \in AskerLocals /\ new.at = "reading" /\ new.of = x /\ new.answer = Unanswered
      BY <2>3 DEF AskerLocals
    <3>3. Honest(new)
      BY <3>2 DEF Honest
    <3> QED  BY <1>6, <2>1, <2>2, <3>1, <3>2, <3>3
  <2>5. CASE Remembered(x) # {}
    <3> PICK k : k = CHOOSE j \in Remembered(x) : TRUE
      OBVIOUS
    <3>1. k \in Remembered(x)
      BY <2>5
    <3> PICK e : e = answers[k]
      OBVIOUS
    <3> PICK found : found = e.answer
      OBVIOUS
    <3>2. e \in Entries /\ IsTrue(e) /\ e.of = x
      BY <3>1 DEF Remembered, CacheInv
    <3>3. found \in Answers /\ Told(found, x)
      BY <3>2 DEF Entries, IsTrue
    <3> PICK new : new = [NoAsker EXCEPT !.at = "answered", !.of = x, !.answer = found]
      OBVIOUS
    <3>4. asker' = [asker EXCEPT ![q] = new]
      BY <2>5 DEF Asks, Step
    <3>5. new \in AskerLocals /\ new.at = "answered" /\ new.of = x /\ new.answer = found
      BY <2>3, <3>3 DEF AskerLocals
    <3>6. Honest(new)
      BY <3>3, <3>5 DEF Honest
    <3> QED  BY <1>6, <2>1, <2>2, <3>4, <3>5, <3>6
  <2> QED  BY <2>4, <2>5
<1>8. CASE \E replay \in {"passed", "failed", "unknown"} : TxIsRead(q, replay)
  <2>p. PICK replay \in {"passed", "failed", "unknown"} : TxIsRead(q, replay)
    BY <1>8
  <2>a. PICK at \in {"answer", "judging"} : at = IF visible[of] = "absent" THEN "answer" ELSE "judging"
    OBVIOUS
  <2>r. PICK read : read = [answer EXCEPT !.state = Status(of), !.replay = replay]
    OBVIOUS
  <2>n. PICK new : new = [r EXCEPT !.at = at, !.answer = read]
    OBVIOUS
  <2>1. /\ r.at = "reading" /\ replay \in Replays(of) /\ UNCHANGED <<visible, answers, calls>>
        /\ asker' = [asker EXCEPT ![q] = [r EXCEPT !.at = at, !.answer.state = Status(of), !.answer.replay = replay]]
    BY <2>p, <2>a DEF TxIsRead, Step
  <2>2. of \in Transactions /\ answer = Unanswered
    BY <1>1, <2>1 DEF Honest
  <2>3. Status(of) \in {"absent", "pending", "clean", "reverted"}
        /\ (Status(of) = "absent") = (visible[of] = "absent")
        /\ (visible[of] = "drifted" => Status(of) = "reverted")
    BY <2>2, StatusOf
  <2>4. replay = "passed" => visible[of] = "drifted"
    BY <2>1 DEF Replays
  <2>5. read \in Answers /\ read.state = Status(of) /\ read.replay = replay /\ read.source = "none" /\ read.class = "none"
    <3>1. PICK told : told = Status(of)
      OBVIOUS
    <3>2. told \in States
      BY <2>3, <3>1 DEF States
    <3>3. read = [answer EXCEPT !.state = told, !.replay = replay]
      BY <2>r, <3>1
    <3>4. answer \in Answers /\ answer.source = "none" /\ answer.class = "none"
      BY <1>3, <2>2
    <3>5. /\ read \in Answers /\ read.state = told /\ read.replay = replay
          /\ read.source = answer.source /\ read.class = answer.class
      BY <3>2, <3>3, <3>4 DEF Answers
    <3> QED  BY <3>1, <3>4, <3>5
  <2>6. asker' = [asker EXCEPT ![q] = new]
    <3>1. PICK told : told = Status(of)
      OBVIOUS
    <3>2. read = [answer EXCEPT !.state = told, !.replay = replay]
      BY <2>r, <3>1
    <3>3. [r EXCEPT !.at = at, !.answer.state = told, !.answer.replay = replay] = new
      <4>1. DOMAIN r = {"at", "of", "answer", "attempt"} /\ r.answer = answer
        BY <1>1 DEF AskerLocals
      <4> QED  BY <2>n, <3>2, <4>1
    <3> QED  BY <2>1, <3>1, <3>3
  <2>7. new \in AskerLocals /\ new.at = at /\ new.of = of /\ new.answer = read
    BY <1>1, <2>5, <2>n DEF AskerLocals
  <2>8. /\ Rank[read.state] <= Rank[Status(of)]
        /\ read.state \in {"clean", "reverted"} => read.state = Status(of)
    BY <2>3, <2>5, Ranks
  <2>9. CASE at = "answer"
    <3>1. visible[of] = "absent" /\ replay # "passed"
      BY <2>4, <2>9, <2>a
    <3>2. Told(read, of)
      BY <2>5, <2>8, <3>1 DEF Told
    <3>3. Honest(new)
      BY <2>2, <2>7, <2>9, <3>2 DEF Honest
    <3> QED  BY <1>6, <2>1, <2>6, <2>7, <3>3, CacheFrame
  <2>10. CASE at = "judging"
    <3>1. Read(read, of)
      BY <2>3, <2>4, <2>5, <2>8, <2>10, <2>a DEF Read
    <3>2. Honest(new)
      BY <2>2, <2>5, <2>7, <2>10, <3>1 DEF Honest
    <3> QED  BY <1>6, <2>1, <2>6, <2>7, <3>2, CacheFrame
  <2> QED  BY <2>9, <2>10
<1>12. CASE \E dear, low \in BOOLEAN : IsJudged(q, dear, low)
  <2>p. PICK dear \in BOOLEAN, low \in BOOLEAN : IsJudged(q, dear, low)
    BY <1>12
  <2>c. PICK class : class = Finding(answer, dear, low)
    OBVIOUS
  <2>a. PICK at \in {"answer", "asking"} : at = IF class = "none" THEN "answer" ELSE "asking"
    OBVIOUS
  <2>j. PICK judged : judged = [answer EXCEPT !.class = class]
    OBVIOUS
  <2>n. PICK new : new = [r EXCEPT !.at = at, !.answer = judged]
    OBVIOUS
  <2>1. /\ r.at = "judging" /\ UNCHANGED <<visible, answers, calls>>
        /\ asker' = [asker EXCEPT ![q] = [r EXCEPT !.at = at, !.answer.class = class]]
    BY <2>p, <2>c, <2>a DEF IsJudged, Step
  <2>2. of \in Transactions /\ Read(answer, of) /\ answer.class = "none"
    BY <1>1, <2>1 DEF Honest
  <2>3. class \in Classes /\ (class = "drift") = (answer.replay = "passed")
    <3>1. CASE answer.replay = "passed"
      <4>1. SimulationPassed(answer) /\ answer.state = "reverted"
        BY <2>2, <3>1 DEF SimulationPassed, Read
      <4>2. class = "drift"
        BY <2>c, <4>1 DEF Finding
      <4> QED  BY <3>1, <4>2 DEF Classes
    <3>2. CASE answer.replay # "passed"
      <4>1. ~SimulationPassed(answer)
        BY <3>2 DEF SimulationPassed
      <4>2. class \in {"none", "underpriced", "starved"}
        BY <2>c, <4>1 DEF Finding
      <4> QED  BY <3>2, <4>2 DEF Classes
    <3> QED  BY <3>1, <3>2
  <2>4. judged \in Answers /\ judged.class = class /\ judged.state = answer.state /\ judged.replay = answer.replay
        /\ judged.source = "none"
    BY <1>2, <2>2, <2>3, <2>j DEF Answers, Read
  <2>5. asker' = [asker EXCEPT ![q] = new]
    <3>1. [r EXCEPT !.at = at, !.answer.class = class] = new
      BY <1>1, <2>j, <2>n DEF AskerLocals
    <3> QED  BY <2>1, <3>1
  <2>6. new \in AskerLocals /\ new.at = at /\ new.of = of /\ new.answer = judged
    BY <1>1, <2>4, <2>n DEF AskerLocals
  <2>7. Read(judged, of)
    BY <2>2, <2>4 DEF Read
  <2>8. CASE at = "answer"
    <3>1. class = "none"
      BY <2>8, <2>a
    <3>2. Told(judged, of)
      BY <2>3, <2>4, <2>7, <3>1 DEF Told, Read
    <3>3. Honest(new)
      BY <2>2, <2>6, <2>8, <3>2 DEF Honest
    <3> QED  BY <1>6, <2>1, <2>5, <2>6, <3>3, CacheFrame
  <2>9. CASE at = "asking"
    <3>1. class # "none"
      BY <2>9, <2>a
    <3>2. Honest(new)
      BY <2>2, <2>3, <2>4, <2>6, <2>7, <2>9, <3>1 DEF Honest
    <3> QED  BY <1>6, <2>1, <2>5, <2>6, <3>2, CacheFrame
  <2> QED  BY <2>8, <2>9
<1>9. CASE ReadFails(q)
  <2> PICK new : new = [r EXCEPT !.at = "answered", !.answer = Unanswered]
    OBVIOUS
  <2>1. r.at \in {"reading", "judging"} /\ asker' = [asker EXCEPT ![q] = new] /\ UNCHANGED <<visible, answers, calls>>
    BY <1>9 DEF ReadFails, Step
  <2>2. of \in Transactions
    BY <1>1, <2>1 DEF Honest
  <2>3. new \in AskerLocals /\ new.at = "answered" /\ new.of = of /\ new.answer = Unanswered
    BY <1>1, <1>3 DEF AskerLocals
  <2>4. Told(Unanswered, of)
    BY <1>4, <2>2
  <2>5. Honest(new)
    BY <2>2, <2>3, <2>4 DEF Honest
  <2> QED  BY <1>6, <2>1, <2>3, <2>5, CacheFrame
<1>10. CASE IsAnswered(q)
  <2> PICK new, e : new = [r EXCEPT !.at = "answered"] /\ e = [of |-> of, answer |-> answer]
    OBVIOUS
  <2>1. r.at = "answer" /\ asker' = [asker EXCEPT ![q] = new] /\ calls' = calls /\ answers' = PutBounded(answers, e)
    BY <1>10 DEF IsAnswered, Step, Entry
  <2>2. of \in Transactions /\ Told(answer, of)
    BY <1>1, <2>1 DEF Honest
  <2>3. new \in AskerLocals /\ new.at = "answered" /\ new.of = of /\ new.answer = answer
    BY <1>1 DEF AskerLocals
  <2>4. Honest(new)
    BY <2>2, <2>3 DEF Honest
  <2>5. e \in Entries /\ IsTrue(e)
    BY <1>2, <2>2 DEF Entries, IsTrue
  <2> PICK put : put = PutBounded(answers, e)
    OBVIOUS
  <2>6. put \in Seq(Entries) /\ Len(put) <= CacheLimit /\ OnceEach(put) /\ \A k \in DOMAIN put : IsTrue(put[k])
    BY <2>5, PutBoundedKeeps DEF CacheInv
  <2>7. \A k \in DOMAIN put : IsTrue(put[k])'
    BY <1>5, <2>6 DEF IsTrue, Told, Status
  <2>8. answers' = put
    BY <2>1
  <2>9. OnceEach(answers')
    BY <2>6, <2>8
  <2>10. \A k \in DOMAIN answers' : IsTrue(answers[k])'
    BY <2>7, <2>8 DEF IsTrue, Told, Status
  <2>11. CacheInv'
    BY <2>6, <2>8, <2>9, <2>10 DEF CacheInv, OnceEach
  <2> QED  BY <1>6, <2>1, <2>3, <2>4, <2>11
<1>11. CASE \E response \in Responses : ModelAnswers(q, response)
  <2> PICK response \in Responses : ModelAnswers(q, response)
    BY <1>11
  <2>1. r.at = "asking" /\ calls' = calls + 1 /\ UNCHANGED <<visible, answers>>
    BY DEF ModelAnswers, Step
  <2>2. CacheInv'
    BY <2>1, CacheFrame
  <2>3. /\ of \in Transactions /\ Read(answer, of) /\ answer.class # "none"
        /\ (answer.class = "drift") = (answer.replay = "passed")
    BY <1>1, <2>1 DEF Honest
  <2> PICK n : n = r.attempt + 1
    OBVIOUS
  <2>4. n \in 1..Attempts /\ n \notin 1..r.attempt /\ n \in Nat /\ 1..r.attempt \subseteq 1..Attempts
        /\ 1..r.attempt \subseteq 1..n /\ n \in 1..n
    BY <1>2
  <2>5. Billed(r) = 1..r.attempt
    BY <2>1 DEF Billed
  <2>6. CASE \E source \in {"model", "template"} :
                asker' = [asker EXCEPT ![q] = [r EXCEPT !.at = "answer", !.answer.source = source]]
    <3> PICK source \in {"model", "template"} :
               asker' = [asker EXCEPT ![q] = [r EXCEPT !.at = "answer", !.answer.source = source]]
      BY <2>6
    <3> PICK said : said = [answer EXCEPT !.source = source]
      OBVIOUS
    <3> PICK new : new = [r EXCEPT !.at = "answer", !.answer = said]
      OBVIOUS
    <3>1. asker' = [asker EXCEPT ![q] = new]
      BY <1>1 DEF AskerLocals
    <3>2. /\ said \in Answers /\ said.state = answer.state /\ said.source = source
          /\ said.class = answer.class /\ said.replay = answer.replay
      BY <1>2 DEF Answers
    <3>3. new \in AskerLocals /\ new.at = "answer" /\ new.of = of /\ new.answer = said
      BY <1>1, <3>2 DEF AskerLocals
    <3>7. Told(said, of)
      BY <2>3, <3>2 DEF Told, Read
    <3>4. Honest(new)
      BY <2>3, <3>3, <3>7 DEF Honest
    <3>5. Billed(new) = 1..Attempts
      BY <3>3 DEF Billed
    <3>6. CallsInv'
      BY <2>1, <2>4, <2>5, <3>1, <3>3, <3>5, CallsGrow
    <3> QED  BY <1>5, <2>2, <3>1, <3>3, <3>4, <3>6, AskerMoves
  <2>7. CASE asker' = [asker EXCEPT ![q] = [r EXCEPT !.attempt = @ + 1]] /\ n # Attempts
    <3> PICK new : new = [r EXCEPT !.attempt = n]
      OBVIOUS
    <3>1. asker' = [asker EXCEPT ![q] = new]
      BY <1>1, <2>7 DEF AskerLocals
    <3>2. n \in 0..Attempts - 1
      BY <1>2, <2>7
    <3>3. new \in AskerLocals /\ new.at = "asking" /\ new.of = of /\ new.answer = answer /\ new.attempt = n
      BY <1>1, <2>1, <3>2 DEF AskerLocals
    <3>4. Honest(new)
      BY <2>3, <3>3 DEF Honest
    <3>5. Billed(new) = 1..n
      BY <3>3 DEF Billed
    <3>6. CallsInv'
      BY <2>1, <2>4, <2>5, <3>1, <3>3, <3>5, CallsGrow
    <3> QED  BY <1>5, <2>2, <3>1, <3>3, <3>4, <3>6, AskerMoves
  <2> QED  BY <2>6, <2>7 DEF ModelAnswers, Step
<1> QED  BY <1>7, <1>8, <1>9, <1>10, <1>11, <1>12 DEF AskerNext

LEMMA DiagnosisKept == DiagnosisInv /\ DiagnosisNext => DiagnosisInv'
<1> SUFFICES ASSUME DiagnosisInv, DiagnosisNext PROVE DiagnosisInv'
  OBVIOUS
<1>1. AskersInv /\ CacheInv /\ CallsInv
  BY DEF DiagnosisInv
<1>2. CASE \E q \in Askers : AskerNext(q) \/ \E x \in Transactions : Asks(q, x)
  BY <1>1, <1>2, AskerKeeps DEF DiagnosisInv
<1>3. CASE \E x \in Transactions, s \in DOMAIN Later : Progresses(x, s)
  <2> PICK x \in Transactions, s \in DOMAIN Later : Progresses(x, s)
    BY <1>3
  <2>1. AskersInv' /\ CacheInv'
    BY <1>1, AskersGoOn
  <2>2. CallsInv'
    BY <1>1, CallsFrame DEF Progresses
  <2> QED  BY <2>1, <2>2 DEF DiagnosisInv
<1> QED  BY <1>2, <1>3 DEF DiagnosisNext

LEMMA DiagnosisFrame == DiagnosisInv /\ UNCHANGED dvars => DiagnosisInv'
BY CacheFrame, CallsFrame DEF DiagnosisInv, AskersInv, Honest, Told, Read, Status, dvars

(***************************************************************************)
(* The console.                                                            *)
(***************************************************************************)
LEMMA FeedFrame == FeedInv /\ UNCHANGED <<mode, fvars>> => FeedInv'
BY StoredFrame, StreamFrame, ListFrame, HookFrame DEF FeedInv, fvars

LEMMA ConsoleStarts == ConsoleInit => FeedInv /\ SigningInv /\ DiagnosisInv
<1> SUFFICES ASSUME ConsoleInit PROVE FeedInv /\ SigningInv /\ DiagnosisInv
  OBVIOUS
<1>1. FeedInv /\ SigningInv
  BY FeedStarts, SigningStarts DEF ConsoleInit
<1>2. AskersInv
  <2>1. NoAsker \in AskerLocals /\ NoAsker.at = "idle"
    BY DiagnosisConstants DEF NoAsker, AskerLocals, Answers, States, Classes, Unanswered
  <2> QED  BY <2>1 DEF ConsoleInit, AskersInv, Honest
<1>3. CacheInv
  <2>1. answers = <<>> /\ CacheLimit \in Nat
    BY DiagnosisConstants DEF ConsoleInit
  <2>2. answers \in Seq(Entries) /\ Len(answers) = 0 /\ DOMAIN answers = {}
    BY <2>1
  <2> QED  BY <2>1, <2>2 DEF CacheInv, OnceEach
<1>4. CallsInv
  BY BillsAreFinite DEF ConsoleInit, CallsInv
<1> QED  BY <1>1, <1>2, <1>3, <1>4 DEF DiagnosisInv

LEMMA ConsoleSteps == FeedInv /\ SigningInv /\ DiagnosisInv /\ [ConsoleNext]_consoleVars
                      => FeedInv' /\ SigningInv' /\ DiagnosisInv'
<1> SUFFICES ASSUME FeedInv, SigningInv, DiagnosisInv, [ConsoleNext]_consoleVars
             PROVE  FeedInv' /\ SigningInv' /\ DiagnosisInv'
  OBVIOUS
<1>1. CASE FeedNext /\ UNCHANGED <<svars, dvars>>
  <2>1. mode' = mode
    BY <1>1 DEF FeedNext
  <2> QED  BY <1>1, <2>1, FeedKept, SigningFrame, DiagnosisFrame
<1>2. CASE SigningNext /\ UNCHANGED <<mode, fvars, dvars>>
  BY <1>2, FeedFrame, SigningKept, DiagnosisFrame
<1>3. CASE DiagnosisNext /\ UNCHANGED <<mode, fvars, svars>>
  BY <1>3, FeedFrame, SigningFrame, DiagnosisKept
<1>4. CASE UNCHANGED consoleVars
  BY <1>4, FeedFrame, SigningFrame, DiagnosisFrame DEF consoleVars
<1> QED  BY <1>1, <1>2, <1>3, <1>4 DEF ConsoleNext

LEMMA BillsAreBounded ==
    ASSUME AskersInv, CallsInv
    PROVE  calls <= Attempts * Cardinality({q \in Askers : asker[q].at # "idle"})
<1> PICK N, B, M : N = {q \in Askers : asker[q].at # "idle"} /\ B = Bills /\ M = 1..Attempts
  OBVIOUS
<1>1. N \in SUBSET Askers
  OBVIOUS
<1>2. IsFiniteSet(N)
  BY <1>1, DiagnosisConstants, FS_Subset
<1>3. 1 \in Int /\ Attempts \in Int /\ Attempts >= 1
  BY DiagnosisConstants
<1>4. IsFiniteSet(M) /\ Cardinality(M) = Attempts
  <2>1. Cardinality(1..Attempts) = IF 1 > Attempts THEN 0 ELSE Attempts - 1 + 1
    BY <1>3, FS_Interval
  <2>2. IsFiniteSet(1..Attempts)
    BY <1>3, FS_Interval
  <2> QED  BY <1>3, <2>1, <2>2
<1>5. IsFiniteSet(N \X M) /\ Cardinality(N \X M) = Cardinality(N) * Cardinality(M)
  BY <1>2, <1>4, FS_Product
<1>6. B \in SUBSET (N \X M)
  BY DEF Bills, Billed
<1>7. Cardinality(B) <= Cardinality(N \X M)
  BY <1>5, <1>6, FS_Subset
<1>8. Cardinality(N) \in Nat /\ Cardinality(B) \in Nat
  BY <1>2, BillsAreFinite, FS_CardinalityType
<1>9. Cardinality(N) * Attempts = Attempts * Cardinality(N) /\ Attempts * Cardinality(N) \in Nat
  BY <1>3, <1>8
<1> QED  BY <1>4, <1>5, <1>7, <1>8, <1>9 DEF CallsInv

LEMMA ConsoleIsRight == FeedInv /\ SigningInv /\ DiagnosisInv => ConsoleHolds
<1> SUFFICES ASSUME FeedInv, SigningInv, DiagnosisInv PROVE ConsoleHolds
  OBVIOUS
<1>1. TxInv /\ LedgerInv /\ PanelInv /\ SceneInv /\ PickerInv /\ AskersInv /\ CacheInv /\ CallsInv
      /\ StoredInv /\ StreamInv /\ ListInv /\ HookInv
  BY DEF FeedInv, SigningInv, DiagnosisInv
<1>2. FeedTypeOK
  BY <1>1 DEF FeedTypeOK, StoredInv, Rows, StreamInv, ListInv, HookInv
<1>3. SigningTypeOK
  <2>1. \A h \in Hashes : tx[h] \in TxRecords
    BY <1>1 DEF TxInv
  <2>2. \A p \in Panels : panel[p] \in PanelLocals
    BY <1>1 DEF PanelInv
  <2>3. fixed \in Fixes /\ claim \in [Workflows -> {"none", "ours", "theirs"}]
    BY <1>1 DEF LedgerInv, PickerInv
  <2> QED  BY <2>1, <2>2, <2>3 DEF SigningTypeOK, TxRecords, PanelLocals, Fixes
<1>4. DiagnosisTypeOK
  <2>1. \A q \in Askers : asker[q] \in AskerLocals
    BY <1>1 DEF AskersInv
  <2>2. \A x \in Transactions : visible[x] \in DOMAIN Later
    BY <1>1 DEF AskersInv, Later
  <2> QED  BY <2>1, <2>2 DEF DiagnosisTypeOK, AskerLocals
<1>5. ShownAnswersTheFilter /\ PostsAreCounted
  BY <1>1 DEF ListInv, HookInv
<1>6. SuccessesAreOnChain /\ ResolvedIsLedgered
  BY <1>1 DEF SuccessesAreOnChain, ResolvedIsLedgered, LedgerInv, Won, Credible, Agrees
<1>7. SignedFollowsThePlan
  BY <1>1 DEF SignedFollowsThePlan, SceneInv, InStep, Follows
<1>8. SavedIsWatched
  BY <1>1 DEF SavedIsWatched, PickerInv, Settles
<1>9. AnswersAreExplained
  BY <1>1 DEF AnswersAreExplained, AskersInv, Honest, CacheInv, IsTrue
<1>10. MemoryIsBounded
  BY <1>1, BillsAreBounded DEF MemoryIsBounded, CacheInv, OnceEach
<1> QED  BY <1>2, <1>3, <1>4, <1>5, <1>6, <1>7, <1>8, <1>9, <1>10 DEF ConsoleHolds

\* Whatever the stream, the ticks, the wallets, other pages and the model do:
\* the list shown answers its filter and every event posted is counted (Feed);
\* a success in the ledger and a resolution come with a transaction that took
\* the signer's nonce, a scene's hashes follow its plan and a saved picker shows
\* what is watched (Signing); an answer says nothing the chain does not, what a
\* rule finds is told with an explanation and state drift of no other revert than
\* one the block before let through, and what is remembered and billed is bounded
\* (Diagnosis).
THEOREM ConsoleKept == ConsoleSpec => []ConsoleHolds
<1>1. ConsoleInit => FeedInv /\ SigningInv /\ DiagnosisInv
  BY ConsoleStarts
<1>2. FeedInv /\ SigningInv /\ DiagnosisInv /\ [ConsoleNext]_consoleVars
      => FeedInv' /\ SigningInv' /\ DiagnosisInv'
  BY ConsoleSteps
<1>3. FeedInv /\ SigningInv /\ DiagnosisInv => ConsoleHolds
  BY ConsoleIsRight
<1> QED  BY <1>1, <1>2, <1>3, PTL DEF ConsoleSpec

=============================================================================
