-------------------------- MODULE Detection_proofs --------------------------
(***************************************************************************)
(* What a plan promises whatever the incident, the market and the          *)
(* configuration are; and that what an evaluation drafts is certain where  *)
(* it says so and worth carrying out, however the signer, the chain, the   *)
(* scenarios and the ticks take turns.                                     *)
(* The polls of a tick come before its question to the chain.  So whatever *)
(* a stored event says has settled lies below the nonce the chain answers  *)
(* (TickOK), what was submitted from there on is still pending, and a gap  *)
(* below it holds something up.                                            *)
(***************************************************************************)
EXTENDS Chaos, WellFoundedInduction, SequenceTheorems, TLAPS

SignerClasses == {"GAS_UNDERPRICED", "STUCK_TRANSACTION", "NONCE_GAP", "ADVERSE_INCLUSION"}
IncidentClasses == SignerClasses \union
    {"RETRY_STORM", "SIM_PASS_EXEC_REVERT", "WORKFLOW_MISCONFIGURED", "SIGNER_GAS_STARVED",
     "EXECUTION_STALLED", "SPEND_CAP_EXHAUSTED"}

\* 115% of a bid, rounded down, is still 12.5% above it, from 40 wei on.
LEMMA FloorOutbids ==
    ASSUME NEW bid \in Nat, bid >= 40
    PROVE  8 * ((bid * 115) \div 100) >= 9 * bid
<1> DEFINE floor == (bid * 115) \div 100
<1>1. floor \in Int /\ 100 * floor > bid * 115 - 100
  BY Z3
<1>2. 100 * floor >= bid * 115 - 99
  BY <1>1, Z3
<1>3. 800 * floor >= 920 * bid - 792
  BY <1>2, Z3
<1>4. 920 * bid - 792 >= 900 * bid
  BY Z3
<1>5. 800 * floor >= 900 * bid
  BY <1>1, <1>3, <1>4, Z3
<1> HIDE DEF floor
<1>6. 8 * floor >= 9 * bid
  BY <1>1, <1>5, Z3
<1> QED
  BY <1>6 DEF floor

\* The fee of a replacement is at least that floor, whatever the market asks.
LEMMA FeeIsAtLeastTheFloor ==
    ASSUME NEW bid \in Nat, NEW market \in [baseFee : Nat, tip : Nat]
    PROVE  /\ ReplacementFee(bid, market) \in Int
           /\ ReplacementFee(bid, market) >= (bid * 115) \div 100
<1> DEFINE floor == (bid * 115) \div 100
           ask == Bumped(2 * market.baseFee + market.tip)
<1>1. floor \in Int
  BY Z3
<1>2. ask \in Int
  <2>1. 2 * market.baseFee + market.tip \in Nat
    OBVIOUS
  <2>2. (2 * market.baseFee + market.tip) * BumpPercent \in Int
    BY <2>1, PlaybooksAssumption
  <2> QED
    BY <2>2 DEF Bumped
<1>3. ReplacementFee(bid, market) = IF ask > floor THEN ask ELSE floor
  BY DEF ReplacementFee
<1> HIDE DEF floor, ask
<1>4. ReplacementFee(bid, market) \in Int /\ ReplacementFee(bid, market) >= floor
  BY <1>1, <1>2, <1>3
<1> QED
  BY <1>4 DEF floor

\* A replacement displaces what it replaces: 12.5% above a bid of 40 wei or more
\* whatever the market has done since, at the nonce that bid holds (P1).
THEOREM ReplacementsDisplace ==
    ASSUME NEW facts, facts.nonce \in Nat, facts.fee \in Nat, facts.fee >= 40,
           NEW market \in [baseFee : Nat, tip : Nat]
    PROVE  /\ P1(facts, market).nonce = facts.nonce
           /\ 8 * P1(facts, market).fee >= 9 * facts.fee
<1> DEFINE fee == ReplacementFee(facts.fee, market)
           floor == (facts.fee * 115) \div 100
<1>1. P1(facts, market) = Submit(facts.nonce, "itself", 0, fee, Bumped(market.tip))
  BY DEF P1
<1>2. fee \in Int /\ fee >= floor
  BY FeeIsAtLeastTheFloor
<1>3. 8 * floor >= 9 * facts.fee
  BY FloorOutbids
<1>4. floor \in Int
  BY Z3
<1>5. P1(facts, market).nonce = facts.nonce /\ P1(facts, market).fee = fee
  BY <1>1 DEF Submit
<1> HIDE DEF fee, floor
<1>6. 8 * fee >= 9 * facts.fee
  BY <1>2, <1>3, <1>4
<1> QED
  BY <1>5, <1>6

\* KeeperHub orders the transactions of the agents it executes for.  What the
\* remediator lets through for one (servability) never names a nonce, whatever
\* executors there are (playbooks.ts: "such an agent has no nonce queue of its own").
THEOREM ManagedNoncesAreLeftAlone ==
    ASSUME NEW class \in IncidentClasses, NEW available, NEW facts, NEW market,
           NEW breaker, NEW fundingWallet,
           servability(playbookFor(class), "keeperhub", available),
           plan(class, facts, market, breaker, fundingWallet).kind = "submit"
    PROVE  plan(class, facts, market, breaker, fundingWallet).nonce = -1
<1>1. playbookFor(class) \in {"P1", "P2", "P3", "P4", "P5", "P6", "P7"}
  BY DEF IncidentClasses, SignerClasses, playbookFor
<1>2. playbookFor(class) \notin {"P1", "P2", "P3", "P5"}
  BY DEF servability, serves
<1>3. CASE playbookFor(class) = "P4"
  <2>1. plan(class, facts, market, breaker, fundingWallet) = P4(breaker, market)
    BY <1>3 DEF plan
  <2>2. breaker # Nobody
    BY <2>1 DEF P4, Skip
  <2> QED
    BY <2>1, <2>2 DEF P4, Submit
<1>4. CASE playbookFor(class) \in {"P6", "P7"}
  BY <1>4 DEF plan, P6, P7, Skip
<1> QED
  BY <1>1, <1>2, <1>3, <1>4

\* A plan pays nobody: it sends to the signer itself or calls the breaker that was
\* registered for the agent, and only a top-up, where there is a wallet to fund it,
\* carries value (P1 to P7).
THEOREM PlansPayNobody ==
    ASSUME NEW class \in IncidentClasses, NEW facts, NEW market, NEW breaker, NEW fundingWallet,
           plan(class, facts, market, breaker, fundingWallet).kind = "submit"
    PROVE  /\ \/ plan(class, facts, market, breaker, fundingWallet).to = "itself"
              \/ /\ breaker # Nobody
                 /\ plan(class, facts, market, breaker, fundingWallet).to = breaker
           /\ \/ plan(class, facts, market, breaker, fundingWallet).value = 0
              \/ playbookFor(class) = "P5" /\ fundingWallet # Nobody
<1> DEFINE made == plan(class, facts, market, breaker, fundingWallet)
<1>1. playbookFor(class) \in {"P1", "P2", "P3", "P4", "P5", "P6", "P7"}
  BY DEF IncidentClasses, SignerClasses, playbookFor
<1>2. CASE playbookFor(class) = "P1"
  <2>1. made = P1(facts, market)
    BY <1>2 DEF plan
  <2> QED
    BY <2>1 DEF P1, Submit, Skip
<1>3. CASE playbookFor(class) = "P2"
  <2>1. made = P2(facts, market)
    BY <1>3 DEF plan
  <2> QED
    BY <2>1 DEF P2, Submit, Skip
<1>4. CASE playbookFor(class) = "P4"
  <2>1. made = P4(breaker, market)
    BY <1>4 DEF plan
  <2> QED
    BY <2>1 DEF P4, Submit, Skip
<1>5. CASE playbookFor(class) = "P5"
  <2>1. made = P5(facts, fundingWallet, market)
    BY <1>5 DEF plan
  <2> QED
    BY <1>5, <2>1 DEF P5, Submit, Skip
<1>6. CASE playbookFor(class) \in {"P3", "P6", "P7"}
  BY <1>6 DEF plan, P3, P6, P7, Skip
<1> QED
  BY <1>1, <1>2, <1>3, <1>4, <1>5, <1>6

-----------------------------------------------------------------------------
(***************************************************************************)
(* The rules.                                                              *)
(***************************************************************************)
LEMMA MinIsThere ==
    ASSUME NEW S \in SUBSET Nat, S # {}
    PROVE  Min(S) \in S /\ \A x \in S : Min(S) <= x
<1>1. PICK n \in S : \A k \in S : <<k, n>> \notin OpToRel(<, Nat)
  BY WFMin, NatLessThanWellFounded, Zenon
<1>2. \A k \in S : ~(k < n)
  BY <1>1, Zenon DEF OpToRel
<1>3. \A k \in S : n <= k
  BY <1>2
<1> QED
  BY <1>3 DEF Min

LEMMA MaxIsThere ==
    ASSUME NEW n \in Nat, NEW S \in SUBSET (0..n), S # {}
    PROVE  Max(S) \in S /\ \A x \in S : Max(S) >= x
<1> DEFINE T == {n - x : x \in S}
<1>0. \A x \in S : n - x \in Nat
  OBVIOUS
<1>1. T \in SUBSET Nat /\ T # {}
  BY <1>0
<1>2. Min(T) \in T /\ \A t \in T : Min(T) <= t
  BY <1>1, MinIsThere
<1>3. PICK x \in S : Min(T) = n - x
  BY <1>2
<1>4. \A y \in S : n - y \in T
  OBVIOUS
<1>5. \A y \in S : x >= y
  BY <1>2, <1>3, <1>4
<1> QED
  BY <1>5 DEF Max

\* What orders the events of a window.
Orderly(events) == \A e \in events : e.at \in Int /\ e.seq \in Int

LEMMA FirstIsOne ==
    ASSUME NEW events, Orderly(events), NEW e \in First(events), NEW f \in First(events)
    PROVE  e = f
<1>1. e \in events /\ f \in events
  BY DEF First
<1>2. CASE e # f
  <2>1. Precedes(e, f) /\ Precedes(f, e)
    BY <1>1, <1>2 DEF First
  <2> QED
    BY <1>1, <2>1 DEF Precedes, Orderly
<1> QED
  BY <1>2

LEMMA FactsWithoutFee ==
    ASSUME NEW y, NEW z
    PROVE  /\ NoFacts.fee = Unknown /\ [NoFacts EXCEPT !.action = y].fee = Unknown
           /\ [NoFacts EXCEPT !.cost = y, !.threshold = z].fee = Unknown
BY DEF NoFacts

StuckDraft(e, latest) ==
    Draft("R1", "STUCK_TRANSACTION", "warning", IF Corroborated(latest, e.nonce) THEN 95 ELSE 60,
          {e.id}, [NoFacts EXCEPT !.nonce = e.nonce, !.fee = e.fee])

LEMMA R1Drafts ==
    ASSUME NEW window, NEW ctx
    PROVE  /\ \A d \in R1(window, ctx) : \E e \in window :
                e.status = "pending" /\ d = StuckDraft(e, ctx.latest)
           /\ Orderly(window) => \A d, e \in R1(window, ctx) : d = e
<1> DEFINE stuck == {e \in window : /\ e.status = "pending"
                                    /\ ctx.now - e.at > StuckThreshold
                                    /\ ~nonceResolved(window, e.nonce)}
<1>1. R1(window, ctx) = {StuckDraft(e, ctx.latest) : e \in First(stuck)}
  BY DEF R1, StuckDraft
<1>2. First(stuck) \subseteq stuck
  BY DEF First
<1>3. Orderly(window) => \A e, f \in First(stuck) : e = f
  <2>1. SUFFICES ASSUME Orderly(window) PROVE \A e, f \in First(stuck) : e = f
    OBVIOUS
  <2>2. Orderly(stuck)
    BY <2>1 DEF Orderly
  <2> HIDE DEF stuck
  <2> QED
    BY <2>2, FirstIsOne
<1>4. \A e \in First(stuck) : e \in window /\ e.status = "pending"
  BY <1>2
<1> HIDE DEF stuck
<1> QED
  BY <1>1, <1>3, <1>4

UnderpricedDraft(e) ==
    Draft("R3", "GAS_UNDERPRICED", "warning", 90, {e.id},
          [NoFacts EXCEPT !.nonce = e.nonce, !.fee = e.fee])

LEMMA R3Drafts ==
    ASSUME NEW window, NEW ctx
    PROVE  /\ \A d \in R3(window, ctx) : \E e \in window : d = UnderpricedDraft(e)
           /\ Orderly(window) => \A d, e \in R3(window, ctx) : d = e
<1> DEFINE low == {e \in window : /\ e.status \in {"pending", "dropped"}
                                  /\ e.fee # Unknown /\ e.fee < ctx.baseFee}
<1>1. R3(window, ctx) \subseteq {UnderpricedDraft(e) : e \in First(low)}
  BY DEF R3, UnderpricedDraft
<1>2. First(low) \subseteq window
  BY DEF First
<1>3. Orderly(window) => \A e, f \in First(low) : e = f
  <2>1. SUFFICES ASSUME Orderly(window) PROVE \A e, f \in First(low) : e = f
    OBVIOUS
  <2>2. Orderly(low)
    BY <2>1 DEF Orderly
  <2> HIDE DEF low
  <2> QED
    BY <2>2, FirstIsOne
<1> HIDE DEF low
<1> QED
  BY <1>1, <1>2, <1>3

\* Every draft bears its rule and that rule's class, and only those of R1 and R3
\* are of a class that is replaced and only those of R2 of one that is filled.
Replacing == {"GAS_UNDERPRICED", "STUCK_TRANSACTION"}

LEMMA DraftsAreTheirRules ==
    ASSUME NEW window, NEW ctx, NEW d \in Fired(window, ctx)
    PROVE  /\ d.rule = "R1" => d \in R1(window, ctx) /\ d.class = "STUCK_TRANSACTION"
           /\ d.rule = "R2" => d \in R2(window, ctx) /\ d.class = "NONCE_GAP"
           /\ d.rule = "R3" => d \in R3(window, ctx) /\ d.class = "GAS_UNDERPRICED"
           /\ d.rule \notin {"R1", "R2", "R3"} =>
                d.facts.fee = Unknown /\ d.class \in IncidentClasses \ (Replacing \union {"NONCE_GAP"})
<1>1. \/ d \in R1(window, ctx) \/ d \in R2(window, ctx) \/ d \in R3(window, ctx) \/ d \in R4(window, ctx)
      \/ d \in R5(window, ctx) \/ d \in R6(window, ctx) \/ d \in R7(window, ctx) \/ d \in R8(window, ctx)
      \/ d \in R9(window, ctx) \/ d \in R10(window, ctx)
  BY DEF Fired
<1>2. ASSUME d \in R1(window, ctx) PROVE d.rule = "R1" /\ d.class = "STUCK_TRANSACTION"
  <2>1. PICK e \in window : d = StuckDraft(e, ctx.latest)
    BY <1>2, R1Drafts
  <2>2. PICK s, n, x, f : d = Draft("R1", "STUCK_TRANSACTION", s, n, x, f)
    BY <2>1, Zenon DEF StuckDraft
  <2> QED
    BY <2>2 DEF Draft
<1>3. ASSUME d \in R2(window, ctx) PROVE d.rule = "R2" /\ d.class = "NONCE_GAP"
  <2>1. PICK s, n, x, f : d = Draft("R2", "NONCE_GAP", s, n, x, f)
    BY <1>3, Zenon DEF R2
  <2> QED
    BY <2>1 DEF Draft
<1>4. ASSUME d \in R3(window, ctx) PROVE d.rule = "R3" /\ d.class = "GAS_UNDERPRICED"
  <2>1. PICK e \in window : d = UnderpricedDraft(e)
    BY <1>4, R3Drafts
  <2>2. PICK s, n, x, f : d = Draft("R3", "GAS_UNDERPRICED", s, n, x, f)
    BY <2>1, Zenon DEF UnderpricedDraft
  <2> QED
    BY <2>2 DEF Draft
<1> DEFINE Other(r, c) == d.rule = r /\ d.class = c /\ d.facts.fee = Unknown
<1>5. ASSUME d \in R4(window, ctx) PROVE Other("R4", "SIM_PASS_EXEC_REVERT")
  <2>1. PICK s, n, x : d = Draft("R4", "SIM_PASS_EXEC_REVERT", s, n, x, NoFacts)
    BY <1>5, Zenon DEF R4
  <2>2. PICK f : d = Draft("R4", "SIM_PASS_EXEC_REVERT", s, n, x, f) /\ f.fee = Unknown
    BY <2>1, FactsWithoutFee, Zenon
  <2> QED
    BY <2>2 DEF Draft
<1>6. ASSUME d \in R5(window, ctx) PROVE Other("R5", "RETRY_STORM")
  <2>1. PICK s, n, x, y : d = Draft("R5", "RETRY_STORM", s, n, x, [NoFacts EXCEPT !.action = y])
    BY <1>6, Zenon DEF R5
  <2>2. PICK f : d = Draft("R5", "RETRY_STORM", s, n, x, f) /\ f.fee = Unknown
    BY <2>1, FactsWithoutFee, Zenon
  <2> QED
    BY <2>2 DEF Draft
<1>7. ASSUME d \in R6(window, ctx) PROVE Other("R6", "SIGNER_GAS_STARVED")
  <2>1. PICK s, n, x, y, z : d = Draft("R6", "SIGNER_GAS_STARVED", s, n, x, [NoFacts EXCEPT !.cost = y, !.threshold = z])
    BY <1>7, Zenon DEF R6
  <2>2. PICK f : d = Draft("R6", "SIGNER_GAS_STARVED", s, n, x, f) /\ f.fee = Unknown
    BY <2>1, FactsWithoutFee, Zenon
  <2> QED
    BY <2>2 DEF Draft
<1>8. ASSUME d \in R7(window, ctx) PROVE Other("R7", "ADVERSE_INCLUSION")
  <2>1. PICK s, n, x : d = Draft("R7", "ADVERSE_INCLUSION", s, n, x, NoFacts)
    BY <1>8, Zenon DEF R7
  <2>2. PICK f : d = Draft("R7", "ADVERSE_INCLUSION", s, n, x, f) /\ f.fee = Unknown
    BY <2>1, FactsWithoutFee, Zenon
  <2> QED
    BY <2>2 DEF Draft
<1>9. ASSUME d \in R8(window, ctx) PROVE Other("R8", "SPEND_CAP_EXHAUSTED")
  <2>1. PICK s, n, x : d = Draft("R8", "SPEND_CAP_EXHAUSTED", s, n, x, NoFacts)
    BY <1>9, Zenon DEF R8
  <2>2. PICK f : d = Draft("R8", "SPEND_CAP_EXHAUSTED", s, n, x, f) /\ f.fee = Unknown
    BY <2>1, FactsWithoutFee, Zenon
  <2> QED
    BY <2>2 DEF Draft
<1>10. ASSUME d \in R9(window, ctx) PROVE Other("R9", "EXECUTION_STALLED")
  <2>1. PICK s, n, x : d = Draft("R9", "EXECUTION_STALLED", s, n, x, NoFacts)
    BY <1>10, Zenon DEF R9
  <2>2. PICK f : d = Draft("R9", "EXECUTION_STALLED", s, n, x, f) /\ f.fee = Unknown
    BY <2>1, FactsWithoutFee, Zenon
  <2> QED
    BY <2>2 DEF Draft
<1>11. ASSUME d \in R10(window, ctx) PROVE Other("R10", "WORKFLOW_MISCONFIGURED")
  <2>1. PICK s, n, x, y : d = Draft("R10", "WORKFLOW_MISCONFIGURED", s, n, x, [NoFacts EXCEPT !.action = y])
    BY <1>11, Zenon DEF R10
  <2>2. PICK f : d = Draft("R10", "WORKFLOW_MISCONFIGURED", s, n, x, f) /\ f.fee = Unknown
    BY <2>1, FactsWithoutFee, Zenon
  <2> QED
    BY <2>2 DEF Draft
<1> QED
  BY <1>1, <1>2, <1>3, <1>4, <1>5, <1>6, <1>7, <1>8, <1>9, <1>10, <1>11 DEF IncidentClasses, SignerClasses, Replacing

\* Of an evaluation: R3 silences R1, and what fired is all there is.
LEMMA WhatIsLeft ==
    ASSUME NEW window, NEW ctx, NEW d \in evaluateRules(window, ctx)
    PROVE  /\ d \in Fired(window, ctx)
           /\ d.rule = "R1" => \A e \in evaluateRules(window, ctx) : e.rule # "R3"
<1>1. evaluateRules(window, ctx) = Unsuppressed(Fired(window, ctx))
  BY DEF evaluateRules
<1>2. \A e \in Unsuppressed(Fired(window, ctx)) : e \in Fired(window, ctx)
  BY DEF Unsuppressed
<1>3. \A s \in SUPPRESSES : s.general = d.rule => \A e \in Fired(window, ctx) : e.rule # s.specific
  BY <1>1 DEF Unsuppressed
<1> DEFINE s == [specific |-> "R3", general |-> "R1"]
<1>4. s \in SUPPRESSES /\ s.specific = "R3" /\ s.general = "R1"
  BY DEF SUPPRESSES
<1> HIDE DEF s
<1> QED
  BY <1>1, <1>2, <1>3, <1>4

GapDraft(window, latest) ==
    Draft("R2", "NONCE_GAP", "critical", 90, IdsOf(Unresolved(window, latest)),
          [NoFacts EXCEPT !.missing = MissingNonces(window, latest)])

LEMMA R2Drafts ==
    ASSUME NEW window, NEW ctx, NEW d \in R2(window, ctx)
    PROVE  /\ ctx.latest # Unknown /\ MissingNonces(window, ctx.latest) # {}
           /\ d = GapDraft(window, ctx.latest)
BY Zenon DEF R2, GapDraft

\* What is missing lies below a nonce submitted at, and none of it was submitted.
LEMMA MissingLiesBelow ==
    ASSUME NEW n \in Nat, NEW latest \in Nat, NEW window, \A e \in window : e.nonce \in 0..n,
           MissingNonces(window, latest) # {}
    PROVE  /\ Min(MissingNonces(window, latest)) \in Nat
           /\ Min(MissingNonces(window, latest)) >= latest
           /\ \A e \in window : e.nonce # Min(MissingNonces(window, latest))
           /\ \E e \in window : e.nonce >= latest /\ e.nonce > Max(MissingNonces(window, latest))
<1> DEFINE missing == MissingNonces(window, latest)
           submitted == Submitted(window, latest)
<1>1. Unresolved(window, latest) # {} /\ missing = (latest..Max(submitted)) \ submitted
  BY DEF MissingNonces
<1>2. submitted \in SUBSET (0..n) /\ \A k \in submitted : k >= latest
  BY DEF Submitted, Unknown
<1>3. \A e \in window : e.nonce >= latest => e.nonce \in submitted
  BY DEF Submitted, Unknown
<1>4. submitted # {}
  BY <1>1, <1>3 DEF Unresolved
<1>5. Max(submitted) \in submitted
  BY <1>2, <1>4, MaxIsThere
<1>6. PICK e \in window : e.nonce = Max(submitted)
  BY <1>5 DEF Submitted
<1>7. Max(submitted) \in 0..n /\ Max(submitted) >= latest
  BY <1>2, <1>5
<1> HIDE DEF submitted
<1>8. \A k \in missing : k \in latest..Max(submitted) /\ k \notin submitted
  BY <1>1
<1>9. missing \in SUBSET (0..n) /\ missing \in SUBSET Nat /\ missing # {}
  BY <1>7, <1>8
<1> HIDE DEF missing
<1>10. Min(missing) \in missing /\ Max(missing) \in missing
  BY <1>9, MinIsThere, MaxIsThere
<1>11. Min(missing) \in Nat /\ Min(missing) >= latest /\ Min(missing) \notin submitted
  BY <1>7, <1>8, <1>10
<1>12. Max(missing) < Max(submitted)
  BY <1>5, <1>7, <1>8, <1>10
<1>13. \A f \in window : f.nonce # Min(missing)
  BY <1>3, <1>11
<1> QED
  BY <1>6, <1>7, <1>11, <1>12, <1>13 DEF missing

-----------------------------------------------------------------------------
(***************************************************************************)
(* The invariant.                                                          *)
(***************************************************************************)
TxRecord == [nonce : 0..MaxNonce, fee : Nat, action : Actions, fate : Fates, replay : Replays]
RowRecord == [status : {"none", "pending", "included", "reverted"}, sim : Replays]
TickRecord ==
    [pc : {"idle", "polling", "gathered"}, left : SUBSET Txs, touched : BOOLEAN, at : 0..MaxTime,
     latest : Nat \union {Unknown}, baseFee : Nat \union {Unknown}, balance : Nat \union {Unknown}]

Settled(i) == rows[i].status \in {"included", "reverted"}

\* Every bid was one a node takes at some base fee; what landed was executed.
ChainOK ==
    /\ next \in 0..(MaxNonce + 1) /\ now \in 0..MaxTime /\ baseFee \in BaseFees
    /\ txs \in Seq(TxRecord) /\ Len(txs) <= MaxSent
    /\ \A i \in Sent : \E b \in BaseFees : txs[i].fee >= b
    /\ \A i \in Sent : txs[i].fate = "landed" => txs[i].nonce < next

\* A row is of a transaction that is watched; what it says has settled has landed.
StoreOK ==
    /\ watchedAt \in [Txs -> 0..MaxTime \union {Unknown}]
    /\ rows \in [Txs -> RowRecord]
    /\ \A i \in Txs : rows[i] # NoRow => i \in Sent /\ watchedAt[i] # Unknown
    /\ \A i \in Sent : Settled(i) => txs[i].fate = "landed"
    /\ gapPolls \in 0..GapConfirmations
    /\ DOMAIN open = Classes /\ \A c \in Classes : open[c].facts.fee \in Int

\* The polls come before the questions: what they found settled, the chain's
\* answer is past, and that answer may only have become older since.
TickOK ==
    /\ tick \in TickRecord
    /\ tick.left \subseteq Sent /\ \A i \in tick.left : watchedAt[i] # Unknown
    /\ tick.latest <= next /\ (tick.pc # "gathered" => tick.latest = Unknown)
    /\ tick.pc = "gathered" /\ tick.latest # Unknown =>
         \A i \in Sent : Settled(i) => txs[i].nonce < tick.latest

DetectionInv == ChainOK /\ StoreOK /\ TickOK

LEMMA Bounds ==
    /\ MaxSent \in Nat /\ MaxNonce \in Nat /\ MaxTime \in Nat /\ Tip \in Nat /\ Cost \in Nat
    /\ GapConfirmations \in Nat
BY DetectionAssumption, RulesAssumption

LEMMA SentIsTyped ==
    ASSUME ChainOK
    PROVE  /\ Len(txs) \in 0..MaxSent /\ Sent = 1..Len(txs) /\ Sent \subseteq Txs
           /\ \A i \in Sent : /\ txs[i] \in TxRecord
                              /\ txs[i].nonce \in 0..MaxNonce /\ txs[i].fee \in Nat
<1>1. txs \in Seq(TxRecord) /\ Len(txs) <= MaxSent
  BY DEF ChainOK
<1>2. Len(txs) \in Nat /\ Sent = 1..Len(txs) /\ \A i \in Sent : txs[i] \in TxRecord
  BY <1>1 DEF Sent
<1>3. Len(txs) \in 0..MaxSent /\ Sent \subseteq Txs
  BY <1>1, <1>2, Bounds DEF Txs
<1> QED
  BY <1>2, <1>3 DEF TxRecord

LEMMA InvIsTyped == ASSUME DetectionInv PROVE TypeOK
<1>1. next \in 0..(MaxNonce + 1) /\ Len(txs) <= MaxSent
  BY DEF DetectionInv, ChainOK
<1>2. \A i \in Sent : txs[i] \in TxRecord
  BY SentIsTyped DEF DetectionInv
<1> QED
  BY <1>1, <1>2 DEF DetectionInv, StoreOK, TickOK, TypeOK, TxRecord, RowRecord, TickRecord

LEMMA WindowIsKnown ==
    ASSUME DetectionInv, NEW at
    PROVE  /\ \A e \in Window(at) : \E i \in Sent : e = EventOf(i)
           /\ \A e \in Window(at) : e.nonce \in 0..MaxNonce /\ e.fee \in Nat
           /\ Orderly(Window(at))
<1>1. \A e \in Window(at) : \E i \in Sent : e = EventOf(i)
  BY DEF Window
<1>2. ASSUME NEW i \in Sent
      PROVE  /\ EventOf(i).nonce \in 0..MaxNonce /\ EventOf(i).fee \in Nat
             /\ EventOf(i).at \in Int /\ EventOf(i).seq \in Int
  <2>1. i \in Int /\ i \in Txs /\ txs[i] \in TxRecord
    BY SentIsTyped DEF DetectionInv
  <2>2. watchedAt[i] \in Int
    BY <2>1 DEF DetectionInv, StoreOK, Unknown
  <2> QED
    BY <2>1, <2>2 DEF EventOf, TxRecord
<1> QED
  BY <1>1, <1>2 DEF Orderly

-----------------------------------------------------------------------------
(***************************************************************************)
(* What an evaluation drafts.                                              *)
(***************************************************************************)
Drafts == evaluateRules(Window(tick.at), Context(Window(tick.at)))

LEMMA ContextIsTheTicks ==
    ASSUME NEW window
    PROVE  Context(window).latest = tick.latest
BY DEF Context

\* A draft of R1 or R3 is of one transaction, with its nonce and its bid.
LEMMA ReplacesOne ==
    ASSUME DetectionInv, NEW d \in Drafts, d.rule \in {"R1", "R3"}
    PROVE  \E i \in Sent :
             /\ d.cites = {i} /\ d.facts.nonce = txs[i].nonce /\ d.facts.fee = txs[i].fee
             /\ EventOf(i) \in Window(tick.at)
             /\ d.rule = "R1" /\ d.confidence = 95 => Corroborated(tick.latest, txs[i].nonce)
<1> DEFINE window == Window(tick.at)
           ctx == Context(window)
<1>1. d \in Fired(window, ctx)
  BY WhatIsLeft DEF Drafts
<1>2. ctx.latest = tick.latest
  BY ContextIsTheTicks
<1>3. \A e \in window : \E i \in Sent : e = EventOf(i)
  BY WindowIsKnown
<1>4. \A i \in Sent : EventOf(i).id = i /\ EventOf(i).nonce = txs[i].nonce /\ EventOf(i).fee = txs[i].fee
  BY DEF EventOf
<1> HIDE DEF window, ctx
<1>5. CASE d.rule = "R1"
  <2>1. d \in R1(window, ctx)
    BY <1>1, <1>5, DraftsAreTheirRules
  <2>2. PICK e \in window : d = StuckDraft(e, tick.latest)
    BY <1>2, <2>1, R1Drafts
  <2>3. PICK i \in Sent : e = EventOf(i)
    BY <1>3
  <2>4. /\ d.cites = {e.id} /\ d.facts = [NoFacts EXCEPT !.nonce = e.nonce, !.fee = e.fee]
        /\ d.confidence = IF Corroborated(tick.latest, e.nonce) THEN 95 ELSE 60
    BY <2>2, Zenon DEF StuckDraft, Draft
  <2>5. d.facts.nonce = e.nonce /\ d.facts.fee = e.fee
    BY <2>4 DEF NoFacts
  <2>6. e.id = i /\ e.nonce = txs[i].nonce /\ e.fee = txs[i].fee
    BY <1>4, <2>3
  <2>7. d.confidence = 95 => Corroborated(tick.latest, e.nonce)
    BY <2>4
  <2> QED
    BY <2>2, <2>3, <2>4, <2>5, <2>6, <2>7 DEF window
<1>6. CASE d.rule = "R3"
  <2>1. d \in R3(window, ctx)
    BY <1>1, <1>6, DraftsAreTheirRules
  <2>2. PICK e \in window : d = UnderpricedDraft(e)
    BY <2>1, R3Drafts
  <2>3. PICK i \in Sent : e = EventOf(i)
    BY <1>3
  <2>4. /\ d.cites = {e.id} /\ d.facts = [NoFacts EXCEPT !.nonce = e.nonce, !.fee = e.fee]
    BY <2>2, Zenon DEF UnderpricedDraft, Draft
  <2>5. d.facts.nonce = e.nonce /\ d.facts.fee = e.fee
    BY <2>4 DEF NoFacts
  <2>6. e.id = i /\ e.nonce = txs[i].nonce /\ e.fee = txs[i].fee
    BY <1>4, <2>3
  <2> QED
    BY <1>6, <2>2, <2>3, <2>4, <2>5, <2>6 DEF window
<1> QED
  BY <1>5, <1>6

\* A draft of R2 is of nonces below one of the transactions it cites, from what
\* the chain executes next on, and nothing was submitted at any of them.
LEMMA FillsBelow ==
    ASSUME DetectionInv, tick.pc = "gathered", NEW d \in Drafts, d.rule = "R2"
    PROVE  LET n == Min(d.facts.missing) IN
           /\ d.facts.missing # {} /\ n \in Nat /\ n >= tick.latest /\ tick.latest # Unknown
           /\ \A e \in Window(tick.at) : e.nonce # n
           /\ \E i \in d.cites : txs[i].nonce > Max(d.facts.missing)
           /\ d = GapDraft(Window(tick.at), tick.latest)
<1> DEFINE window == Window(tick.at)
           ctx == Context(window)
           missing == MissingNonces(window, tick.latest)
<1>1. d \in Fired(window, ctx)
  BY WhatIsLeft DEF Drafts
<1>2. ctx.latest = tick.latest
  BY ContextIsTheTicks
<1>3. tick.latest # Unknown /\ missing # {} /\ d = GapDraft(window, tick.latest)
  <2> HIDE DEF window, ctx
  <2>1. d \in R2(window, ctx)
    BY <1>1, DraftsAreTheirRules
  <2> QED
    BY <1>2, <2>1, R2Drafts
<1>4. d.cites = IdsOf(Unresolved(window, tick.latest)) /\ d.facts = [NoFacts EXCEPT !.missing = missing]
  BY <1>3, Zenon DEF GapDraft, Draft
<1>5. d.facts.missing = missing
  BY <1>4 DEF NoFacts
<1>6. tick.latest \in Nat
  BY <1>3 DEF DetectionInv, TickOK, TickRecord
<1>7. \A e \in window : e.nonce \in 0..MaxNonce
  BY WindowIsKnown
<1>8. /\ Min(missing) \in Nat /\ Min(missing) >= tick.latest
      /\ \A e \in window : e.nonce # Min(missing)
      /\ \E e \in window : e.nonce >= tick.latest /\ e.nonce > Max(missing)
  <2> HIDE DEF window
  <2> QED
    BY <1>3, <1>6, <1>7, Bounds, MissingLiesBelow
<1>9. PICK e \in window : e.nonce >= tick.latest /\ e.nonce > Max(missing)
  BY <1>8
<1>10. PICK i \in Sent : e = EventOf(i)
  BY <1>9, WindowIsKnown
<1>11. e.id = i /\ e.nonce = txs[i].nonce /\ e.status = rows[i].status
  BY <1>10 DEF EventOf
<1>12. ~isTerminal(e)
  <2>1. rows[i].status \in {"none", "pending", "included", "reverted"}
    BY <1>10, SentIsTyped DEF DetectionInv, StoreOK, RowRecord
  <2>2. ~Settled(i)
    <3>1. Settled(i) => txs[i].nonce < tick.latest
      BY <1>3, <1>10 DEF DetectionInv, TickOK
    <3>2. txs[i].nonce \in 0..MaxNonce
      BY <1>10, SentIsTyped DEF DetectionInv
    <3> QED
      BY <1>6, <1>9, <1>11, <3>1, <3>2
  <2> QED
    BY <1>11, <2>1, <2>2 DEF isTerminal, Settled
<1>13. e \in Unresolved(window, tick.latest)
  BY <1>7, <1>9, <1>12 DEF Unresolved, Unknown
<1>14. i \in d.cites
  BY <1>4, <1>11, <1>13 DEF IdsOf
<1> HIDE DEF missing, window
<1> QED
  BY <1>3, <1>5, <1>8, <1>9, <1>11, <1>14 DEF window, missing

LEMMA DraftsAreCertain ==
    ASSUME DetectionInv, NEW d \in Drafts, d.rule = "R1", d.confidence = 95, NEW i \in d.cites,
           txs[i].fate = "landed"
    PROVE  next > tick.latest /\ txs[i].nonce >= tick.latest
<1>1. i \in Sent /\ Corroborated(tick.latest, txs[i].nonce)
  BY ReplacesOne
<1>2. txs[i].nonce \in Nat /\ txs[i].nonce < next /\ next \in Nat /\ tick.latest \in Int
  BY <1>1, SentIsTyped, Bounds DEF DetectionInv, ChainOK, TickOK, TickRecord, Unknown
<1> QED
  BY <1>1, <1>2 DEF Corroborated

LEMMA DraftedFees ==
    ASSUME DetectionInv, tick.pc = "gathered", NEW d \in Drafts
    PROVE  d.facts.fee \in Int
<1>1. CASE d.rule \in {"R1", "R3"}
  BY <1>1, ReplacesOne, SentIsTyped DEF DetectionInv
<1>2. CASE d.rule = "R2"
  <2>1. d = GapDraft(Window(tick.at), tick.latest)
    BY <1>2, FillsBelow
  <2>2. d.facts = [NoFacts EXCEPT !.missing = MissingNonces(Window(tick.at), tick.latest)]
    BY <2>1, Zenon DEF GapDraft, Draft
  <2> QED
    BY <2>2 DEF NoFacts, Unknown
<1>3. CASE d.rule \notin {"R1", "R2", "R3"}
  <2>1. d \in Fired(Window(tick.at), Context(Window(tick.at)))
    BY WhatIsLeft DEF Drafts
  <2> QED
    BY <1>3, <2>1, DraftsAreTheirRules DEF Unknown
<1> QED
  BY <1>1, <1>2, <1>3

\* What the wallet would be asked to sign for a draft.
PlanOf(d, market) == plan(d.class, d.facts, market, Nobody, Nobody)

LEMMA OnlyNoncesAreSubmittedAt ==
    ASSUME NEW class \in IncidentClasses \ (Replacing \union {"NONCE_GAP"}), NEW facts, NEW market
    PROVE  plan(class, facts, market, Nobody, Nobody).kind = "skip" /\ playbookFor(class) \notin {"P1", "P2"}
<1>1. playbookFor(class) \in {"P3", "P4", "P5", "P6", "P7"}
  BY DEF IncidentClasses, SignerClasses, Replacing, playbookFor
<1> QED
  BY <1>1 DEF plan, P3, P4, P5, P6, P7, Skip

\* A draft that plans a transaction is one of R1 to R3, at the nonce of what it
\* replaces or at the first one missing.
LEMMA SubmittedAt ==
    ASSUME DetectionInv, tick.pc = "gathered", NEW d \in Drafts, NEW market,
           PlanOf(d, market).kind = "submit"
    PROVE  \/ /\ d.rule \in {"R1", "R3"}
              /\ PlanOf(d, market).nonce = d.facts.nonce
           \/ /\ d.rule = "R2"
              /\ PlanOf(d, market).nonce = Min(d.facts.missing)
<1>1. d \in Fired(Window(tick.at), Context(Window(tick.at)))
  BY WhatIsLeft DEF Drafts
<1>2. d.rule \in {"R1", "R2", "R3"}
  BY <1>1, DraftsAreTheirRules, OnlyNoncesAreSubmittedAt DEF PlanOf
<1>3. CASE d.rule \in {"R1", "R3"}
  <2>1. playbookFor(d.class) = "P1"
    BY <1>1, <1>3, DraftsAreTheirRules DEF playbookFor
  <2>2. PlanOf(d, market) = P1(d.facts, market)
    BY <2>1 DEF PlanOf, plan
  <2> QED
    BY <1>3, <2>2 DEF P1, Submit, Skip
<1>4. CASE d.rule = "R2"
  <2>1. playbookFor(d.class) = "P2"
    BY <1>1, <1>4, DraftsAreTheirRules DEF playbookFor
  <2>2. PlanOf(d, market) = P2(d.facts, market)
    BY <2>1 DEF PlanOf, plan
  <2> QED
    BY <1>4, <2>2 DEF P2, Submit, Skip
<1> QED
  BY <1>2, <1>3, <1>4

LEMMA DraftsDoNotCollide ==
    ASSUME DetectionInv, tick.pc = "gathered", NEW d \in Drafts, NEW e \in Drafts, NEW market,
           PlanOf(d, market).kind = "submit", PlanOf(e, market).kind = "submit", d # e
    PROVE  PlanOf(d, market).nonce # PlanOf(e, market).nonce
<1> DEFINE window == Window(tick.at)
           ctx == Context(window)
<1>1. d \in Fired(window, ctx) /\ e \in Fired(window, ctx)
  BY WhatIsLeft DEF Drafts
<1>2. Orderly(window)
  BY WindowIsKnown
<1>3. ~(d.rule = "R1" /\ e.rule = "R3") /\ ~(d.rule = "R3" /\ e.rule = "R1")
  BY WhatIsLeft DEF Drafts
<1>4. ~(d.rule = "R1" /\ e.rule = "R1") /\ ~(d.rule = "R3" /\ e.rule = "R3")
  <2> HIDE DEF window, ctx
  <2> QED
    BY <1>1, <1>2, DraftsAreTheirRules, R1Drafts, R3Drafts
<1>5. ~(d.rule = "R2" /\ e.rule = "R2")
  BY FillsBelow
<1>6. ASSUME NEW f \in Drafts, f.rule \in {"R1", "R3"}, NEW g \in Drafts, g.rule = "R2"
      PROVE  f.facts.nonce # Min(g.facts.missing)
  <2>1. PICK i \in Sent : f.facts.nonce = txs[i].nonce /\ EventOf(i) \in Window(tick.at)
    BY <1>6, ReplacesOne
  <2>2. EventOf(i).nonce # Min(g.facts.missing)
    BY <1>6, <2>1, FillsBelow
  <2> QED
    BY <2>1, <2>2 DEF EventOf
<1> HIDE DEF window, ctx
<1> QED
  BY <1>3, <1>4, <1>5, <1>6, SubmittedAt

LEMMA DraftsDisplace ==
    ASSUME DetectionInv, tick.pc = "gathered", NEW d \in Drafts, playbookFor(d.class) = "P1",
           NEW i \in d.cites, \A b \in BaseFees : b >= 40, NEW b \in BaseFees
    PROVE  8 * P1(d.facts, [baseFee |-> b, tip |-> Tip]).fee >= 9 * txs[i].fee
<1>1. d \in Fired(Window(tick.at), Context(Window(tick.at)))
  BY WhatIsLeft DEF Drafts
<1>2. d.rule \in {"R1", "R3"}
  <2>1. CASE d.rule = "R2"
    BY <1>1, <2>1, DraftsAreTheirRules DEF playbookFor
  <2>2. CASE d.rule \notin {"R1", "R2", "R3"}
    BY <1>1, <2>2, DraftsAreTheirRules, OnlyNoncesAreSubmittedAt
  <2> QED
    BY <2>1, <2>2
<1>3. i \in Sent /\ d.facts.nonce = txs[i].nonce /\ d.facts.fee = txs[i].fee
  BY <1>2, ReplacesOne
<1>4. txs[i].nonce \in Nat /\ txs[i].fee \in Nat
  BY <1>3, SentIsTyped, Bounds DEF DetectionInv
<1>5. PICK c \in BaseFees : txs[i].fee >= c
  BY <1>3 DEF DetectionInv, ChainOK
<1>6. txs[i].fee >= 40 /\ b \in Nat /\ c \in Nat
  BY <1>4, <1>5, DetectionAssumption
<1> DEFINE market == [baseFee |-> b, tip |-> Tip]
<1>7. market \in [baseFee : Nat, tip : Nat]
  BY <1>6, Bounds
<1> HIDE DEF market
<1>8. 8 * P1(d.facts, market).fee >= 9 * d.facts.fee
  BY <1>3, <1>4, <1>6, <1>7, ReplacementsDisplace
<1> QED
  BY <1>3, <1>8 DEF market

-----------------------------------------------------------------------------
(***************************************************************************)
(* The steps.                                                              *)
(***************************************************************************)
LEMMA FunctionIsSequence ==
    ASSUME NEW n \in Nat, NEW S, NEW f \in [1..n -> S]
    PROVE  f \in Seq(S) /\ Len(f) = n
OBVIOUS

\* What every step does to the transactions sent before: their nonces stay, what
\* has landed has landed, and no used nonce is used again.
Onwards ==
    /\ Len(txs') \in 0..MaxSent /\ Len(txs) <= Len(txs')
    /\ \A i \in Sent : /\ txs'[i].nonce = txs[i].nonce
                       /\ txs[i].fate = "landed" => txs'[i].fate = "landed"
    /\ next' \in Nat /\ next <= next'

LEMMA SentIsTypedNext ==
    ASSUME ChainOK'
    PROVE  Len(txs') \in 0..MaxSent /\ Sent' = 1..Len(txs')
<1>1. txs' \in Seq(TxRecord') /\ Len(txs') <= MaxSent
  BY DEF ChainOK
<1>2. Len(txs') \in Nat /\ Sent' = 1..Len(txs')
  BY <1>1 DEF Sent
<1> QED
  BY <1>1, <1>2, Bounds

\* What is watched stays watched.
StillWatched ==
    /\ watchedAt' \in [Txs -> 0..MaxTime \union {Unknown}]
    /\ \A i \in Txs : watchedAt[i] # Unknown => watchedAt'[i] # Unknown

LEMMA WatchGrows ==
    ASSUME DetectionInv, NEW i, watchedAt' = watchedAt \/ watchedAt' = [watchedAt EXCEPT ![i] = now]
    PROVE  StillWatched
<1>1. now \in 0..MaxTime /\ now # Unknown
  BY Bounds DEF DetectionInv, ChainOK, Unknown
<1>2. watchedAt \in [Txs -> 0..MaxTime \union {Unknown}]
  BY DEF DetectionInv, StoreOK
<1> QED
  BY <1>1, <1>2 DEF StillWatched

LEMMA WatchStays == ASSUME DetectionInv, UNCHANGED watchedAt PROVE StillWatched
BY WatchGrows

LEMMA StoreSurvives ==
    ASSUME DetectionInv, ChainOK', Onwards, StillWatched, UNCHANGED <<rows, gapPolls, open>>
    PROVE  StoreOK'
<1>1. Sent \subseteq Sent' /\ Sent \subseteq Txs /\ Sent' \subseteq Txs
  BY SentIsTyped, SentIsTypedNext, Bounds DEF DetectionInv, Onwards, Txs
<1>2. ASSUME NEW i \in Sent', Settled(i) PROVE txs'[i].fate = "landed"
  <2>1. rows[i] # NoRow
    BY <1>2 DEF Settled, NoRow
  <2>2. i \in Sent
    BY <1>1, <2>1 DEF DetectionInv, StoreOK
  <2> QED
    BY <1>2, <2>2 DEF DetectionInv, StoreOK, Onwards
<1>3. \A i \in Txs : rows'[i] # NoRow => i \in Sent' /\ watchedAt'[i] # Unknown
  BY <1>1 DEF DetectionInv, StoreOK, StillWatched
<1>4. \A i \in Sent' : Settled(i)' => txs'[i].fate = "landed"
  BY <1>2 DEF Settled
<1> QED
  BY <1>3, <1>4 DEF DetectionInv, StoreOK, RowRecord, StillWatched

LEMMA TickSurvives ==
    ASSUME DetectionInv, ChainOK', Onwards, StillWatched, UNCHANGED <<rows, tick>>
    PROVE  TickOK'
<1>1. Sent \subseteq Sent' /\ Sent \subseteq Txs /\ Sent' \subseteq Txs
  BY SentIsTyped, SentIsTypedNext, Bounds DEF DetectionInv, Onwards, Txs
<1>2. ASSUME NEW i \in Sent', Settled(i) PROVE i \in Sent /\ txs'[i].nonce = txs[i].nonce
  <2>1. rows[i] # NoRow
    BY <1>2 DEF Settled, NoRow
  <2> QED
    BY <1>1, <2>1 DEF DetectionInv, StoreOK, Onwards
<1>3. tick.latest <= next'
  <2>1. tick.latest \in Int /\ next \in Nat
    BY Bounds DEF DetectionInv, TickOK, TickRecord, ChainOK, Unknown
  <2> QED
    BY <2>1 DEF DetectionInv, TickOK, Onwards
<1>4. tick.pc = "gathered" /\ tick.latest # Unknown =>
        \A i \in Sent' : Settled(i)' => txs'[i].nonce < tick.latest
  BY <1>2 DEF DetectionInv, TickOK, Settled
<1>5. \A i \in tick.left : i \in Txs /\ watchedAt'[i] # Unknown
  BY <1>1 DEF DetectionInv, TickOK, StillWatched
<1> QED
  BY <1>1, <1>3, <1>4, <1>5 DEF DetectionInv, TickOK, TickRecord

LEMMA ChainStays ==
    ASSUME DetectionInv, UNCHANGED <<now, baseFee, next, txs>>
    PROVE  ChainOK' /\ Onwards
<1>1. ChainOK'
  BY DEF DetectionInv, ChainOK, TxRecord, Sent
<1>2. Onwards
  BY SentIsTyped, Bounds DEF DetectionInv, ChainOK, Onwards
<1> QED
  BY <1>1, <1>2

\* A node that accepts a bid adds a transaction, and displaces those it outbids.
LEMMA SendingAdds ==
    ASSUME DetectionInv, NEW n, NEW fee \in Nat, NEW action \in Actions, Accepts(n, fee),
           txs' = WithTx(n, fee, action), UNCHANGED <<now, baseFee, next>>
    PROVE  ChainOK' /\ Onwards
<1> DEFINE kept == [i \in Sent |-> IF i \in InPool(n) THEN [txs[i] EXCEPT !.fate = "replaced"] ELSE txs[i]]
           new == [nonce |-> n, fee |-> fee, action |-> action, fate |-> "pool", replay |-> "none"]
<1>1. n \in 0..MaxNonce /\ Len(txs) < MaxSent /\ fee >= baseFee
  BY Bounds DEF Accepts, DetectionInv, ChainOK
<1>2. new \in TxRecord
  BY <1>1 DEF TxRecord, Fates, Replays
<1>3. Len(txs) \in Nat /\ Sent = 1..Len(txs) /\ \A i \in Sent : txs[i] \in TxRecord
  BY SentIsTyped DEF DetectionInv
<1>4. ASSUME NEW i \in Sent
      PROVE  /\ kept[i] \in TxRecord /\ kept[i].nonce = txs[i].nonce /\ kept[i].fee = txs[i].fee
             /\ kept[i].fate = "landed" <=> txs[i].fate = "landed"
  <2>1. txs[i] \in TxRecord
    BY <1>3
  <2>2. CASE i \in InPool(n)
    BY <2>1, <2>2 DEF InPool, TxRecord, Fates
  <2>3. CASE i \notin InPool(n)
    BY <2>1, <2>3
  <2> QED
    BY <2>2, <2>3
<1>5. kept \in [1..Len(txs) -> TxRecord]
  BY <1>3, <1>4
<1>6. txs' = Append(kept, new)
  BY DEF WithTx
<1> HIDE DEF kept, new
<1>7. kept \in Seq(TxRecord) /\ Len(kept) = Len(txs)
  BY <1>3, <1>5, FunctionIsSequence
<1>8. /\ txs' \in Seq(TxRecord) /\ Len(txs') = Len(txs) + 1
      /\ \A i \in Sent : txs'[i] = kept[i]
      /\ txs'[Len(txs) + 1] = new
  BY <1>2, <1>3, <1>6, <1>7, AppendProperties
<1>9. Sent' = Sent \union {Len(txs) + 1}
  BY <1>3, <1>8 DEF Sent
<1>10. new.fee = fee /\ new.fate = "pool"
  BY DEF new
<1>11. \A i \in Sent' : \E b \in BaseFees : txs'[i].fee >= b
  BY <1>1, <1>4, <1>8, <1>9, <1>10 DEF DetectionInv, ChainOK
<1>12. \A i \in Sent' : txs'[i].fate = "landed" => txs'[i].nonce < next'
  BY <1>4, <1>8, <1>9, <1>10 DEF DetectionInv, ChainOK
<1>13. ChainOK'
  BY <1>1, <1>3, <1>8, <1>11, <1>12, Bounds DEF DetectionInv, ChainOK, TxRecord
<1>14. Onwards
  BY <1>1, <1>3, <1>4, <1>8, Bounds DEF Onwards, DetectionInv, ChainOK
<1> QED
  BY <1>13, <1>14

LEMMA InitHolds == ASSUME Init PROVE DetectionInv /\ seen = NothingSeen
<1>1. Min(BaseFees) \in BaseFees
  <2>1. BaseFees \in SUBSET Nat /\ BaseFees # {}
    BY DetectionAssumption
  <2> QED
    BY <2>1, MinIsThere
<1>2. txs = <<>> /\ Sent = {} /\ Len(txs) = 0 /\ txs \in Seq(TxRecord)
  BY DEF Init, Sent
<1>3. ChainOK
  BY <1>1, <1>2, Bounds DEF Init, ChainOK
<1>4. StoreOK
  <2>1. watchedAt \in [Txs -> 0..MaxTime \union {Unknown}] /\ rows \in [Txs -> RowRecord]
    BY DEF Init, NoRow, RowRecord, Replays
  <2>2. \A i \in Txs : rows[i] = NoRow
    BY DEF Init
  <2>3. DOMAIN open = Classes /\ \A c \in Classes : open[c].facts.fee \in Int
    BY DEF Init, Closed, NoFacts, Unknown
  <2>4. gapPolls \in 0..GapConfirmations
    BY Bounds DEF Init
  <2> QED
    BY <1>2, <2>1, <2>2, <2>3, <2>4 DEF StoreOK
<1>5. TickOK
  <2>1. tick \in TickRecord /\ tick.left = {} /\ tick.pc = "idle" /\ tick.latest = Unknown
    BY Bounds DEF Init, Idle, TickRecord, Unknown
  <2> QED
    BY <1>2, <2>1 DEF Init, TickOK, Unknown
<1> QED
  BY <1>3, <1>4, <1>5 DEF DetectionInv, Init

LEMMA SendKeeps ==
    ASSUME DetectionInv, NEW n, NEW fee \in Nat, NEW action \in Actions, NEW reported,
           Send(n, fee, action, reported)
    PROVE  DetectionInv'
<1>1. ChainOK' /\ Onwards
  BY SendingAdds DEF Send
<1>2. StillWatched
  BY WatchGrows DEF Send
<1>3. UNCHANGED <<rows, gapPolls, open, tick>>
  BY DEF Send
<1> QED
  BY <1>1, <1>2, <1>3, StoreSurvives, TickSurvives DEF DetectionInv

LEMMA PlannedFees ==
    ASSUME DetectionInv, NEW c \in Classes, PlanFor(c).kind = "submit"
    PROVE  PlanFor(c).fee \in Int
<1> DEFINE market == [baseFee |-> baseFee, tip |-> Tip]
           facts == open[c].facts
<1>1. market \in [baseFee : Nat, tip : Nat] /\ facts.fee \in Int
  BY Bounds, DetectionAssumption DEF DetectionInv, ChainOK, StoreOK
<1>2. PlanFor(c) = plan(c, facts, market, Nobody, Nobody)
  BY DEF PlanFor
<1>3. CASE playbookFor(c) = "P1"
  <2> DEFINE bid == IF facts.fee = -1 THEN 0 ELSE facts.fee
             ask == Bumped(2 * market.baseFee + market.tip)
             floor == (bid * 115) \div 100
  <2>1. ask \in Int
    <3>1. (2 * market.baseFee + market.tip) * BumpPercent \in Int
      BY <1>1, PlaybooksAssumption
    <3> QED
      BY <3>1 DEF Bumped
  <2>2. bid \in Int /\ floor \in Int
    BY <1>1
  <2>3. ReplacementFee(bid, market) \in Int
    <3>1. ReplacementFee(bid, market) = IF ask > floor THEN ask ELSE floor
      BY DEF ReplacementFee
    <3> HIDE DEF ask, floor
    <3> QED
      BY <2>1, <2>2, <3>1
  <2>4. PlanFor(c) = P1(facts, market)
    BY <1>2, <1>3 DEF plan
  <2>5. PlanFor(c) = Submit(facts.nonce, "itself", 0, ReplacementFee(bid, market), Bumped(market.tip))
    BY <2>4 DEF P1, Skip
  <2> HIDE DEF bid
  <2> QED
    BY <2>3, <2>5 DEF Submit
<1>4. CASE playbookFor(c) = "P2"
  <2>1. PlanFor(c) = P2(facts, market)
    BY <1>2, <1>4 DEF plan
  <2>2. PlanFor(c).fee = 3 * market.baseFee + market.tip
    BY <2>1 DEF P2, Skip, Submit
  <2> QED
    BY <1>1, <2>2
<1>5. CASE playbookFor(c) \notin {"P1", "P2"}
  <2>1. c \in IncidentClasses \ (Replacing \union {"NONCE_GAP"})
    BY <1>5 DEF Classes, IncidentClasses, SignerClasses, Replacing, playbookFor
  <2> QED
    BY <1>2, <2>1, OnlyNoncesAreSubmittedAt
<1> QED
  BY <1>3, <1>4, <1>5

LEMMA SignPlanKeeps == ASSUME DetectionInv, NEW c \in Classes, SignPlan(c) PROVE DetectionInv'
<1>1. Accepts(PlanFor(c).nonce, PlanFor(c).fee) /\ PlanFor(c).kind = "submit"
  BY DEF SignPlan
<1>2. PlanFor(c).fee \in Nat
  <2>1. PlanFor(c).fee \in Int /\ PlanFor(c).fee >= baseFee
    BY <1>1, PlannedFees DEF Accepts
  <2>2. baseFee \in Nat
    BY DetectionAssumption DEF DetectionInv, ChainOK
  <2> QED
    BY <2>1, <2>2
<1>3. "heal" \in Actions
  BY DEF Actions
<1>4. txs' = WithTx(PlanFor(c).nonce, PlanFor(c).fee, "heal") /\ UNCHANGED <<now, baseFee, next>>
  BY DEF SignPlan
<1>5. ChainOK' /\ Onwards
  BY <1>1, <1>2, <1>3, <1>4, SendingAdds
<1>6. UNCHANGED <<watchedAt, rows, gapPolls, open, tick>>
  BY DEF SignPlan, store
<1> QED
  BY <1>5, <1>6, WatchStays, StoreSurvives, TickSurvives DEF DetectionInv

\* A transaction whose fate alone changes, or whose answer at the parent block.
LEMMA FatesChange ==
    ASSUME DetectionInv, NEW i \in Sent, NEW t \in TxRecord, t.nonce = txs[i].nonce, t.fee = txs[i].fee,
           txs[i].fate = "pool", txs' = [txs EXCEPT ![i] = t],
           t.fate = "landed" => t.nonce < next',
           next' \in 0..(MaxNonce + 1), next <= next', UNCHANGED <<now, baseFee>>
    PROVE  ChainOK' /\ Onwards
<1>1. Len(txs) \in 0..MaxSent /\ Sent = 1..Len(txs) /\ \A j \in Sent : txs[j].nonce \in 0..MaxNonce
  BY SentIsTyped DEF DetectionInv
<1>2. /\ txs' \in Seq(TxRecord) /\ Len(txs') = Len(txs)
      /\ \A j \in Sent : txs'[j] = IF j = i THEN t ELSE txs[j]
  <2>1. txs \in Seq(TxRecord) /\ i \in 1..Len(txs)
    BY <1>1 DEF DetectionInv, ChainOK
  <2> QED
    BY <1>1, <2>1, ExceptSeq
<1>3. Sent' = Sent
  BY <1>1, <1>2 DEF Sent
<1>4. \A j \in Sent' : \E b \in BaseFees : txs'[j].fee >= b
  BY <1>2, <1>3 DEF DetectionInv, ChainOK
<1>5. next \in Int /\ next' \in Int
  BY DEF DetectionInv, ChainOK
<1>6. \A j \in Sent' : txs'[j].fate = "landed" => txs'[j].nonce < next'
  BY <1>1, <1>2, <1>3, <1>5 DEF DetectionInv, ChainOK
<1>7. ChainOK'
  BY <1>1, <1>2, <1>4, <1>6 DEF DetectionInv, ChainOK, TxRecord
<1>8. Onwards
  BY <1>1, <1>2, <1>5, Bounds DEF Onwards
<1> QED
  BY <1>7, <1>8

LEMMA LandKeeps ==
    ASSUME DetectionInv, NEW i \in Sent, NEW replay \in Replays, Land(i, replay)
    PROVE  DetectionInv'
<1> DEFINE t == [txs[i] EXCEPT !.fate = "landed", !.replay = replay]
<1>1. txs[i] \in TxRecord /\ txs[i].nonce = next /\ txs[i].fate = "pool" /\ next' = next + 1
  BY SentIsTyped DEF DetectionInv, Land
<1>2. t \in TxRecord /\ t.nonce = txs[i].nonce /\ t.fee = txs[i].fee
  BY <1>1 DEF TxRecord, Fates
<1>3. txs' = [txs EXCEPT ![i] = t]
  <2>1. txs' = [txs EXCEPT ![i].fate = "landed", ![i].replay = replay]
    BY DEF Land
  <2>2. txs \in Seq(TxRecord) /\ i \in DOMAIN txs
    BY DEF DetectionInv, ChainOK, Sent
  <2> QED
    BY <2>1, <2>2
<1>4. next \in 0..MaxNonce
  BY <1>1, SentIsTyped DEF DetectionInv
<1>5. next' \in 0..(MaxNonce + 1) /\ next <= next' /\ t.nonce < next'
  BY <1>1, <1>2, <1>4, Bounds
<1>6. UNCHANGED <<now, baseFee, watchedAt, rows, gapPolls, open, tick>>
  BY DEF Land, store
<1> HIDE DEF t
<1>7. ChainOK' /\ Onwards
  BY <1>1, <1>2, <1>3, <1>5, <1>6, FatesChange
<1> QED
  BY <1>6, <1>7, WatchStays, StoreSurvives, TickSurvives DEF DetectionInv

LEMMA DropKeeps == ASSUME DetectionInv, NEW i \in Sent, DropTx(i) PROVE DetectionInv'
<1> DEFINE t == [txs[i] EXCEPT !.fate = "dropped"]
<1>1. txs[i] \in TxRecord /\ txs[i].fate = "pool"
  BY SentIsTyped DEF DetectionInv, DropTx
<1>2. t \in TxRecord /\ t.nonce = txs[i].nonce /\ t.fee = txs[i].fee /\ t.fate # "landed"
  BY <1>1 DEF TxRecord, Fates
<1>3. txs' = [txs EXCEPT ![i] = t]
  BY DEF DropTx
<1>4. UNCHANGED <<now, baseFee, next, watchedAt, rows, gapPolls, open, tick>>
  BY DEF DropTx, store
<1>5. next' \in 0..(MaxNonce + 1) /\ next <= next'
  BY <1>4, Bounds DEF DetectionInv, ChainOK
<1> HIDE DEF t
<1>6. ChainOK' /\ Onwards
  BY <1>1, <1>2, <1>3, <1>4, <1>5, FatesChange
<1> QED
  BY <1>4, <1>6, WatchStays, StoreSurvives, TickSurvives DEF DetectionInv

\* A transaction is watched, by the block scanner or because it was reported.
LEMMA WatchingKeeps ==
    ASSUME DetectionInv, NEW i \in Sent, watchedAt' = [watchedAt EXCEPT ![i] = now],
           UNCHANGED <<now, baseFee, next, txs, rows, gapPolls, open, tick>>
    PROVE  DetectionInv'
<1>1. ChainOK' /\ Onwards
  BY ChainStays
<1>2. StillWatched
  BY WatchGrows
<1> QED
  BY <1>1, <1>2, StoreSurvives, TickSurvives DEF DetectionInv

\* The market moves, or the clock.
LEMMA WeatherKeeps ==
    ASSUME DetectionInv, baseFee' \in BaseFees, now' \in 0..MaxTime,
           UNCHANGED <<next, txs, watchedAt, rows, gapPolls, open, tick>>
    PROVE  DetectionInv'
<1>1. ChainOK'
  BY DEF DetectionInv, ChainOK, TxRecord, Sent
<1>2. Onwards
  BY SentIsTyped, Bounds DEF DetectionInv, ChainOK, Onwards
<1> QED
  BY <1>1, <1>2, WatchStays, StoreSurvives, TickSurvives DEF DetectionInv

\* The tick moves and nothing is read or stored: it is not yet, or no longer, at
\* an evaluation.
LEMMA TickMovesKeep ==
    ASSUME DetectionInv, UNCHANGED <<chain, store>>, tick' \in TickRecord, tick'.left \subseteq Sent,
           tick'.pc # "gathered", tick'.latest = Unknown, \A i \in tick'.left : watchedAt[i] # Unknown
    PROVE  DetectionInv'
<1>1. ChainOK' /\ Onwards
  BY ChainStays DEF chain
<1>2. StoreOK'
  BY <1>1, WatchStays, StoreSurvives DEF store
<1>3. next \in Nat /\ next' = next
  BY Bounds DEF DetectionInv, ChainOK, chain
<1>4. TickOK'
  BY <1>3 DEF TickOK, TickRecord, Sent, chain, store, Unknown
<1> QED
  BY <1>1, <1>2, <1>4 DEF DetectionInv

LEMMA IdleIsTyped == Idle \in TickRecord /\ Idle.left = {} /\ Idle.pc = "idle" /\ Idle.latest = Unknown
BY Bounds DEF Idle, TickRecord, Unknown

LEMMA PollingIsTyped ==
    ASSUME DetectionInv, NEW S, S \subseteq Sent, tick' = [Idle EXCEPT !.pc = "polling", !.left = S]
    PROVE  tick' \in TickRecord /\ tick'.left = S /\ tick'.pc = "polling" /\ tick'.latest = Unknown
<1>1. S \subseteq Txs
  BY SentIsTyped DEF DetectionInv
<1> QED
  BY <1>1, IdleIsTyped DEF TickRecord

LEMMA TickStepsKeep ==
    ASSUME DetectionInv, StartTick \/ NothingToEvaluate \/ Crash
    PROVE  DetectionInv'
<1>1. CASE StartTick
  <2>1. Due \subseteq Sent /\ tick' = [Idle EXCEPT !.pc = "polling", !.left = Due] /\ UNCHANGED <<chain, store>>
    BY <1>1 DEF StartTick, Due
  <2>2. tick' \in TickRecord /\ tick'.left = Due /\ tick'.pc = "polling" /\ tick'.latest = Unknown
    BY <2>1, PollingIsTyped
  <2> QED
    BY <2>1, <2>2, TickMovesKeep DEF Due
<1>2. CASE NothingToEvaluate \/ Crash
  BY <1>2, IdleIsTyped, TickMovesKeep DEF NothingToEvaluate, Crash
<1> QED
  BY <1>1, <1>2

LEMMA PolledIsTyped ==
    ASSUME DetectionInv, tick.pc = "polling", NEW i,
           NEW t \in {Polled(i), [tick EXCEPT !.left = @ \ {i}]}
    PROVE  /\ t \in TickRecord /\ t.pc = "polling" /\ t.latest = Unknown
           /\ t.left \subseteq Sent /\ \A j \in t.left : watchedAt[j] # Unknown
BY DEF Polled, DetectionInv, TickOK, TickRecord

LEMMA PollMissesKeeps == ASSUME DetectionInv, NEW i \in Sent, PollMisses(i) PROVE DetectionInv'
<1>1. /\ tick.pc = "polling" /\ UNCHANGED <<chain, store>>
      /\ tick' \in {Polled(i), [tick EXCEPT !.left = @ \ {i}]}
  BY DEF PollMisses
<1>2. /\ tick' \in TickRecord /\ tick'.pc = "polling" /\ tick'.latest = Unknown
      /\ tick'.left \subseteq Sent /\ \A j \in tick'.left : watchedAt[j] # Unknown
  BY <1>1, PolledIsTyped
<1> QED
  BY <1>1, <1>2, TickMovesKeep

\* A row is updated from what the node answers: nothing is settled that has not landed.
LEMMA PollKeeps == ASSUME DetectionInv, NEW i \in Sent, Poll(i) PROVE DetectionInv'
<1>1. ChainOK' /\ Onwards /\ Sent' = Sent
  <2>1. UNCHANGED <<now, baseFee, next, txs>>
    BY DEF Poll, chain
  <2> QED
    BY <2>1, ChainStays DEF Sent
<1>2. i \in Txs /\ txs[i] \in TxRecord /\ watchedAt[i] # Unknown
  BY SentIsTyped DEF DetectionInv, TickOK, Poll
<1>3. Observed(i) \in RowRecord
  BY <1>2 DEF Observed, NoRow, RowRecord, TxRecord, Replays
<1>4. Observed(i).status \in {"included", "reverted"} => txs[i].fate = "landed"
  BY DEF Observed, NoRow
<1>5. rows' = rows \/ rows' = [rows EXCEPT ![i] = Observed(i)]
  BY DEF Poll, Upserted
<1>6. rows' \in [Txs -> RowRecord] /\ \A j \in Txs \ {i} : rows'[j] = rows[j]
  BY <1>2, <1>3, <1>5 DEF DetectionInv, StoreOK
<1>7. rows'[i] = rows[i] \/ rows'[i] = Observed(i)
  BY <1>2, <1>5 DEF DetectionInv, StoreOK
<1>8. \A j \in Txs : rows'[j] # NoRow => j \in Sent /\ watchedAt[j] # Unknown
  BY <1>2, <1>6 DEF DetectionInv, StoreOK
<1>9. \A j \in Sent : Settled(j)' => txs[j].fate = "landed"
  BY <1>4, <1>6, <1>7, SentIsTyped DEF DetectionInv, StoreOK, Settled
<1>10. StoreOK'
  BY <1>1, <1>6, <1>8, <1>9 DEF Poll, chain, DetectionInv, StoreOK, RowRecord, NoRow
<1>11. TickOK'
  <2>1. /\ tick.pc = "polling" /\ tick' = Polled(i) /\ next' = next /\ next \in Nat
        /\ watchedAt' = watchedAt
    BY Bounds DEF Poll, chain, DetectionInv, ChainOK
  <2>2. /\ tick' \in TickRecord /\ tick'.pc = "polling" /\ tick'.latest = Unknown
        /\ tick'.left \subseteq Sent /\ \A j \in tick'.left : watchedAt[j] # Unknown
    BY <2>1, PolledIsTyped
  <2> QED
    BY <1>1, <2>1, <2>2 DEF TickOK, TickRecord, Unknown
<1> QED
  BY <1>1, <1>10, <1>11 DEF DetectionInv

LEMMA GatherKeeps == ASSUME DetectionInv, Gather PROVE DetectionInv'
<1>1. ChainOK' /\ Onwards /\ Sent' = Sent
  <2>1. UNCHANGED <<now, baseFee, next, txs>>
    BY DEF Gather, chain
  <2> QED
    BY <2>1, ChainStays DEF Sent
<1>2. StoreOK'
  BY <1>1, WatchStays, StoreSurvives DEF Gather, store
<1>3. next \in Nat /\ baseFee \in Nat /\ now \in 0..MaxTime /\ next' = next
  BY Bounds, DetectionAssumption DEF DetectionInv, ChainOK, Gather, chain
<1>4. tick.pc = "polling" /\ tick.latest = Unknown /\ tick \in TickRecord /\ tick.left = {}
  BY DEF Gather, DetectionInv, TickOK
<1>5. PICK balance \in Balances :
        \/ tick' = [tick EXCEPT !.pc = "gathered", !.at = now, !.latest = next,
                                !.baseFee = baseFee, !.balance = balance]
        \/ tick' = [tick EXCEPT !.pc = "gathered", !.at = now]
  BY DEF Gather
<1>6. balance \in Nat
  BY DetectionAssumption
<1>7. /\ tick' \in TickRecord /\ tick'.left = tick.left /\ tick'.pc = "gathered"
      /\ tick'.latest = next \/ tick'.latest = Unknown
  BY <1>3, <1>4, <1>5, <1>6 DEF TickRecord
<1>8. \A i \in Sent : Settled(i)' => txs'[i].nonce < next
  BY DEF Gather, chain, store, Settled, DetectionInv, ChainOK, StoreOK
<1>9. TickOK'
  BY <1>1, <1>3, <1>4, <1>7, <1>8 DEF TickOK, TickRecord, Unknown
<1> QED
  BY <1>1, <1>2, <1>9 DEF DetectionInv

LEMMA LeastOfTwo ==
    ASSUME NEW x \in Nat, NEW y \in Nat
    PROVE  Min({x, y}) \in Nat /\ Min({x, y}) <= y
<1>1. {x, y} \in SUBSET Nat /\ {x, y} # {}
  OBVIOUS
<1>2. Min({x, y}) \in {x, y} /\ \A z \in {x, y} : Min({x, y}) <= z
  BY <1>1, MinIsThere
<1> QED
  BY <1>2

\* What an evaluation does.
LEMMA Evaluates ==
    ASSUME Evaluate
    PROVE  /\ tick.pc = "gathered" /\ tick' = Idle /\ UNCHANGED <<chain, watchedAt, rows>>
           /\ gapPolls' = CountedGaps(Window(tick.at))
           /\ open' = Folded(Drafts, Window(tick.at))
           /\ seen' = [drafts |-> Drafts, latest |-> tick.latest]
<1>1. gapPolls' = Context(Window(tick.at)).gapPolls
  BY DEF Evaluate
<1> QED
  BY <1>1, Zenon DEF Evaluate, Drafts, Context

LEMMA EvaluateKeeps == ASSUME DetectionInv, Evaluate PROVE DetectionInv'
<1>1. ChainOK' /\ Onwards /\ Sent' = Sent
  <2>1. UNCHANGED <<now, baseFee, next, txs>>
    BY Evaluates DEF chain
  <2> QED
    BY <2>1, ChainStays DEF Sent
<1>2. gapPolls' \in 0..GapConfirmations
  <2>1. gapPolls \in 0..GapConfirmations
    BY DEF DetectionInv, StoreOK
  <2>2. Min({gapPolls + 1, GapConfirmations}) \in 0..GapConfirmations
    BY <2>1, Bounds, LeastOfTwo
  <2> QED
    BY <2>1, <2>2, Bounds, Evaluates DEF CountedGaps
<1>3. DOMAIN open' = Classes /\ \A c \in Classes : open'[c].facts.fee \in Int
  <2>1. open' = Folded(Drafts, Window(tick.at)) /\ tick.pc = "gathered"
    BY Evaluates
  <2>2. \A d \in Drafts : d.facts.fee \in Int
    BY <2>1, DraftedFees
  <2>3. DOMAIN open' = Classes
    BY <2>1 DEF Folded
  <2>4. ASSUME NEW c \in Classes PROVE open'[c].facts.fee \in Int
    <3>1. CASE \E d \in Drafts : d.class = c
      <4> DEFINE d == CHOOSE d \in Drafts : d.class = c
      <4>1. d \in Drafts
        BY <3>1
      <4>2. open'[c].facts = d.facts
        BY <2>1, <3>1 DEF Folded
      <4> HIDE DEF d
      <4> QED
        BY <2>2, <4>1, <4>2
    <3>2. CASE ~\E d \in Drafts : d.class = c
      <4>1. open'[c] = Closed \/ open'[c] = open[c]
        BY <2>1, <3>2 DEF Folded
      <4> QED
        BY <4>1 DEF Closed, NoFacts, Unknown, DetectionInv, StoreOK
    <3> QED
      BY <3>1, <3>2
  <2> QED
    BY <2>3, <2>4
<1>4. UNCHANGED <<watchedAt, rows, txs, next>> /\ tick' = Idle
  BY Evaluates DEF chain
<1>5. StoreOK'
  BY <1>1, <1>2, <1>3, <1>4 DEF DetectionInv, StoreOK, RowRecord, Settled
<1>6. next \in Nat
  BY Bounds DEF DetectionInv, ChainOK
<1>7. TickOK'
  BY <1>4, <1>6, IdleIsTyped DEF TickOK, TickRecord, Unknown
<1> QED
  BY <1>1, <1>5, <1>7 DEF DetectionInv

-----------------------------------------------------------------------------
(***************************************************************************)
(* What an evaluation has drafted, and every behaviour.                    *)
(***************************************************************************)
WideBids == \A b \in BaseFees : b >= 40

Drafted ==
    /\ CorroboratedIsStuck /\ FillUnblocks /\ PlansDoNotCollide
    /\ WideBids => ReplacementDisplaces

LEMMA NothingDrafted == ASSUME seen = NothingSeen PROVE Drafted
<1>1. seen.drafts = {}
  BY DEF NothingSeen
<1> QED
  BY <1>1 DEF Drafted, CorroboratedIsStuck, FillUnblocks, PlansDoNotCollide, ReplacementDisplaces

LEMMA NothingDraftedNext == ASSUME seen' = NothingSeen PROVE Drafted'
<1>1. seen'.drafts = {}
  BY DEF NothingSeen
<1> QED
  BY <1>1 DEF Drafted, CorroboratedIsStuck, FillUnblocks, PlansDoNotCollide, ReplacementDisplaces

LEMMA EvaluationDrafts == ASSUME DetectionInv, Evaluate PROVE Drafted'
<1>1. /\ tick.pc = "gathered" /\ seen'.drafts = Drafts /\ seen'.latest = tick.latest
      /\ txs' = txs /\ next' = next /\ baseFee' = baseFee
  BY Evaluates DEF chain
<1>2. CorroboratedIsStuck'
  BY <1>1, DraftsAreCertain DEF CorroboratedIsStuck
<1>3. FillUnblocks'
  <2>1. ASSUME NEW d \in Drafts, d.rule = "R2"
        PROVE  /\ Min(d.facts.missing) >= tick.latest
               /\ \E i \in d.cites : txs[i].nonce > Max(d.facts.missing)
    BY <1>1, <2>1, FillsBelow
  <2> QED
    BY <1>1, <2>1 DEF FillUnblocks
<1>4. PlansDoNotCollide'
  <2> DEFINE market == [baseFee |-> baseFee, tip |-> Tip]
  <2>1. ASSUME NEW d \in Drafts, NEW e \in Drafts, PlanOf(d, market).kind = "submit",
               PlanOf(e, market).kind = "submit", d # e
        PROVE  PlanOf(d, market).nonce # PlanOf(e, market).nonce
    <3> HIDE DEF market
    <3> QED
      BY <1>1, <2>1, DraftsDoNotCollide
  <2> QED
    BY <1>1, <2>1, Zenon DEF PlansDoNotCollide, PlanOf
<1>5. WideBids => ReplacementDisplaces'
  <2>1. ASSUME WideBids, NEW d \in Drafts, playbookFor(d.class) = "P1", NEW i \in d.cites, NEW b \in BaseFees
        PROVE  8 * P1(d.facts, [baseFee |-> b, tip |-> Tip]).fee >= 9 * txs[i].fee
    BY <1>1, <2>1, DraftsDisplace DEF WideBids
  <2> QED
    BY <1>1, <2>1, Zenon DEF ReplacementDisplaces
<1> QED
  BY <1>2, <1>3, <1>4, <1>5 DEF Drafted, WideBids

LEMMA AgentKeeps == ASSUME DetectionInv, Agent PROVE DetectionInv'
<1>1. ASSUME NEW n \in 0..MaxNonce, NEW fee \in Fees, NEW a \in Calls, NEW r \in BOOLEAN, Send(n, fee, a, r)
      PROVE  DetectionInv'
  <2>1. fee \in Nat /\ a \in Actions
    BY DetectionAssumption DEF Actions
  <2> QED
    BY <1>1, <2>1, SendKeeps
<1>2. ASSUME NEW c \in Classes, SignPlan(c) PROVE DetectionInv'
  BY <1>2, SignPlanKeeps
<1> QED
  BY <1>1, <1>2 DEF Agent

LEMMA RepriceAndPassKeep ==
    ASSUME DetectionInv, (\E f \in BaseFees : Reprice(f)) \/ Pass
    PROVE  DetectionInv'
<1>1. CASE \E f \in BaseFees : Reprice(f)
  BY <1>1, WeatherKeeps DEF Reprice, store, DetectionInv, ChainOK
<1>2. CASE Pass
  <2>1. now' \in 0..MaxTime
    BY <1>2, Bounds DEF Pass, DetectionInv, ChainOK
  <2> QED
    BY <1>2, <2>1, WeatherKeeps DEF Pass, store, DetectionInv, ChainOK
<1> QED
  BY <1>1, <1>2

LEMMA ChainKeeps == ASSUME DetectionInv, Chain PROVE DetectionInv'
<1>1. ASSUME NEW i \in Sent, Land(i, ReplayOf(txs[i].action)) PROVE DetectionInv'
  <2>1. ReplayOf(txs[i].action) \in Replays
    BY DEF ReplayOf, Replays
  <2> QED
    BY <1>1, <2>1, LandKeeps
<1>2. ASSUME NEW i \in Sent, DropTx(i) PROVE DetectionInv'
  BY <1>2, DropKeeps
<1> QED
  BY <1>1, <1>2, RepriceAndPassKeep DEF Chain

LEMMA TickingKeeps == ASSUME DetectionInv, Ticking PROVE DetectionInv'
<1>1. ASSUME NEW i \in Sent, Discover(i) PROVE DetectionInv'
  <2>1. UNCHANGED <<now, baseFee, next, txs, rows, gapPolls, open, tick>>
    BY <1>1 DEF Discover, chain
  <2> QED
    BY <1>1, <2>1, WatchingKeeps DEF Discover
<1> QED
  BY <1>1, TickStepsKeep, GatherKeeps, PollKeeps, EvaluateKeeps DEF Ticking, Recorder

LEMMA NextKeeps == ASSUME DetectionInv, Next PROVE DetectionInv'
BY AgentKeeps, ChainKeeps, TickingKeeps, TickStepsKeep, PollMissesKeeps DEF Next, Trouble

LEMMA NextDrafts == ASSUME DetectionInv, Next PROVE Drafted'
<1>1. Evaluate \/ seen' = NothingSeen
  BY DEF Next, Ticking
<1> QED
  BY <1>1, EvaluationDrafts, NothingDraftedNext

\* The scenarios take no step of their own kind: a step is sent like any other
\* transaction, and a block that mines one gives it its answer at the parent.
ChaosInv == DetectionInv /\ Drafted /\ scenario \in Scenarios \union {"free"} /\ step \in Nat

LEMMA StepsAreTyped ==
    ASSUME DetectionInv, NEW s \in Scenarios, NEW k \in 1..Len(planChaos(s))
    PROVE  planChaos(s)[k].fee \in Nat /\ planChaos(s)[k].action \in Actions
<1>1. PlannedBase \in Nat /\ normalFee \in Nat
  <2>1. BaseFees \in SUBSET Nat /\ BaseFees # {}
    BY DetectionAssumption
  <2>2. Min(BaseFees) \in BaseFees
    BY <2>1, MinIsThere
  <2>3. PlannedBase \in Nat
    BY <2>1, <2>2 DEF PlannedBase
  <2> QED
    BY <2>3, Bounds DEF normalFee
<1>2. \A a \in CallKinds, f \in Nat : \A n, w : Step(a, n, f, w).fee \in Nat /\ Step(a, n, f, w).action \in Actions
  BY DEF Step, Actions
<1>3. CASE s \in {"C1", "C2"}
  <2>1. PICK n, w : \E f \in Nat : planChaos(s) = <<Step("pay", n, f, w)>>
    BY <1>1, <1>3 DEF planChaos
  <2>2. "pay" \in CallKinds
    BY DEF CallKinds
  <2>3. Len(planChaos(s)) = 1
    BY <2>1
  <2>4. k = 1
    BY <2>3
  <2>5. PICK f \in Nat : planChaos(s)[k] = Step("pay", n, f, w)
    BY <2>1, <2>4
  <2> QED
    BY <1>2, <2>2, <2>5
<1>4. CASE s = "C3"
  <2>1. planChaos(s) = <<Step("armTrap", 0, normalFee, TRUE), Step("work", 0, normalFee, FALSE)>>
    BY <1>4 DEF planChaos
  <2>2. "armTrap" \in CallKinds /\ "work" \in CallKinds
    BY DEF CallKinds
  <2>3. \/ planChaos(s)[k] = Step("armTrap", 0, normalFee, TRUE)
        \/ planChaos(s)[k] = Step("work", 0, normalFee, FALSE)
    <3>1. Len(planChaos(s)) = 2
      BY <2>1
    <3>2. k = 1 \/ k = 2
      BY <3>1
    <3>3. planChaos(s)[1] = Step("armTrap", 0, normalFee, TRUE)
      BY <2>1
    <3>4. planChaos(s)[2] = Step("work", 0, normalFee, FALSE)
      BY <2>1
    <3> QED
      BY <3>2, <3>3, <3>4
  <2> QED
    BY <1>1, <1>2, <2>2, <2>3
<1>5. CASE s = "C4"
  <2>1. planChaos(s) = [j \in 1..Attempts |-> Step("doomed", 0, normalFee, TRUE)]
    BY <1>5 DEF planChaos
  <2>2. Len(planChaos(s)) = Attempts
    BY <2>1, ChaosAssumption
  <2>3. "doomed" \in CallKinds
    BY DEF CallKinds
  <2>4. planChaos(s)[k] = Step("doomed", 0, normalFee, TRUE)
    BY <2>1, <2>2
  <2> QED
    BY <1>1, <1>2, <2>3, <2>4
<1> QED
  BY <1>3, <1>4, <1>5 DEF Scenarios

LEMMA ChaosInitHolds == ASSUME ChaosInit PROVE ChaosInv
BY InitHolds, NothingDrafted DEF ChaosInit, ChaosInv

LEMMA SigningKeeps == ASSUME ChaosInv, Signing PROVE ChaosInv'
<1>1. CASE SignStep
  <2> DEFINE s == planChaos(scenario)[step + 1]
  <2>1. /\ scenario \in Scenarios /\ step < Len(planChaos(scenario)) /\ step' = step + 1
        /\ Send(next + s.skipped, s.fee, s.action, FALSE) /\ UNCHANGED scenario
    BY <1>1 DEF SignStep, ChaosInv
  <2>2. step + 1 \in 1..Len(planChaos(scenario)) /\ step' \in Nat
    <3>1. Len(planChaos(scenario)) \in Nat
      BY <2>1, ChaosAssumption DEF Scenarios, planChaos
    <3> QED
      BY <2>1, <3>1 DEF ChaosInv
  <2>3. s.fee \in Nat /\ s.action \in Actions
    BY <2>1, <2>2, StepsAreTyped DEF ChaosInv
  <2> HIDE DEF s
  <2>4. DetectionInv'
    BY <2>1, <2>3, SendKeeps DEF ChaosInv
  <2> QED
    BY <2>1, <2>2, <2>4, NothingDraftedNext DEF ChaosInv, Signing, Quietly
<1>2. ASSUME NEW i \in Sent, Observe(i) PROVE ChaosInv'
  <2>1. /\ UNCHANGED <<now, baseFee, next, txs, rows, gapPolls, open, tick, scenario, step>>
        /\ watchedAt' = [watchedAt EXCEPT ![i] = now]
    BY <1>2 DEF Observe, chain, chaos
  <2>2. DetectionInv'
    BY <2>1, WatchingKeeps DEF ChaosInv
  <2> QED
    BY <2>1, <2>2, NothingDraftedNext DEF ChaosInv, Signing, Quietly
<1> QED
  BY <1>1, <1>2 DEF Signing

LEMMA MiningKeeps == ASSUME ChaosInv, Mining PROVE ChaosInv'
<1>1. PICK i \in Sent : Mine(i)
  BY DEF Mining
<1>2. MinedReplay(i) \in Replays
  BY DEF MinedReplay, ReplayOf, Replays
<1>3. DetectionInv'
  BY <1>1, <1>2, LandKeeps DEF Mine, ChaosInv
<1> QED
  BY <1>1, <1>3, NothingDraftedNext DEF Mining, Mine, Quietly, ChaosInv

LEMMA EmptyBlockKeeps == ASSUME ChaosInv, EmptyBlock, Quietly PROVE ChaosInv'
<1>1. /\ UNCHANGED <<now, baseFee, next, txs, watchedAt, rows, gapPolls, open, tick, scenario, step>>
  BY DEF EmptyBlock, chain, store
<1>2. baseFee' \in BaseFees /\ now' \in 0..MaxTime
  BY <1>1 DEF ChaosInv, DetectionInv, ChainOK
<1>3. DetectionInv'
  BY <1>1, <1>2, WeatherKeeps DEF ChaosInv
<1> QED
  BY <1>1, <1>3, NothingDraftedNext DEF Quietly, ChaosInv

LEMMA ChaosStep == ASSUME ChaosInv, [ChaosNext]_cvars PROVE ChaosInv'
<1>1. CASE Next /\ UNCHANGED chaos
  BY <1>1, NextKeeps, NextDrafts DEF ChaosInv, chaos
<1>2. CASE Watching
  <2>1. Next /\ UNCHANGED chaos
    BY <1>2 DEF Watching, Next
  <2> QED
    BY <2>1, NextKeeps, NextDrafts DEF ChaosInv, chaos
<1>3. CASE World
  BY <1>3, RepriceAndPassKeep, NothingDraftedNext DEF ChaosInv, World, Quietly, chaos
<1>4. CASE Mining \/ Signing
  BY <1>4, MiningKeeps, SigningKeeps
<1>5. CASE EmptyBlock /\ Quietly
  BY <1>5, EmptyBlockKeeps
<1>6. CASE UNCHANGED cvars
  <2>1. UNCHANGED <<now, baseFee, next, txs, watchedAt, rows, gapPolls, open, tick, seen, scenario, step>>
    BY <1>6 DEF cvars, vars, chain, store, chaos
  <2>2. baseFee' \in BaseFees /\ now' \in 0..MaxTime
    BY <2>1 DEF ChaosInv, DetectionInv, ChainOK
  <2>3. DetectionInv'
    BY <2>1, <2>2, WeatherKeeps DEF ChaosInv
  <2>4. Drafted'
    BY <2>1 DEF ChaosInv, Drafted, CorroboratedIsStuck, FillUnblocks, PlansDoNotCollide,
                ReplacementDisplaces, WideBids
  <2> QED
    BY <2>1, <2>3, <2>4 DEF ChaosInv
<1> QED
  BY <1>1, <1>2, <1>3, <1>4, <1>5, <1>6 DEF ChaosNext

\* The invariant holds in every behaviour, of a scenario or of a signer at large.
THEOREM Invariance == ChaosSpec => []ChaosInv
BY ChaosInitHolds, ChaosStep, PTL DEF ChaosSpec

\* Whatever the signer sends, in whatever order blocks, polls, answers and crashes
\* come, the store and the tick are well formed, and what is reported stuck with
\* full confidence had not been executed when the chain was asked (R1).
THEOREM CertaintyIsNeverContradicted == ChaosSpec => []EvidenceHolds
<1>1. ChaosInv => EvidenceHolds
  BY InvIsTyped DEF ChaosInv, Drafted, EvidenceHolds
<1> QED
  BY <1>1, Invariance, PTL

\* A fill goes below something the recorder still holds as pending, at a nonce the
\* chain had not used; a replacement outbids what it replaces by the protocol's
\* 12.5% whatever the market does next; no two incidents of one evaluation plan
\* transactions that displace each other.  Base fees are of 40 wei or more: below,
\* the floor of 115% rounds away what it is to add (findNonceGap, P1, SUPPRESSES).
THEOREM PlansAlwaysWork ==
    ASSUME \A b \in BaseFees : b >= 40
    PROVE  ChaosSpec => []PlansWork
<1>1. ChaosInv => PlansWork
  BY DEF ChaosInv, Drafted, PlansWork, WideBids
<1> QED
  BY <1>1, Invariance, PTL

-----------------------------------------------------------------------------
(***************************************************************************)
(* When a gap incident closes.                                             *)
(***************************************************************************)
\* What waits behind a skipped nonce now was pending behind it when the chain was
\* asked: the nonce it executes next only grows, and no row says it has settled.
LEMMA WaitingShows ==
    ASSUME DetectionInv, tick.latest # Unknown,
           NEW i \in Sent, rows[i] # NoRow, InWindow(i, tick.at), txs[i].fate = "pool",
           NEW n \in next..(txs[i].nonce - 1), Skipped(n)
    PROVE  MissingNonces(Window(tick.at), tick.latest) # {}
<1> DEFINE window == Window(tick.at)
           e == EventOf(i)
           submitted == Submitted(window, tick.latest)
<1>1. tick.latest \in Nat /\ txs[i].nonce \in 0..MaxNonce
  BY SentIsTyped DEF DetectionInv, TickOK, TickRecord
<1>2. next \in Nat /\ tick.latest <= next
  BY Bounds DEF DetectionInv, ChainOK, TickOK
<1>3. n \in tick.latest..(txs[i].nonce - 1)
  BY <1>1, <1>2
<1>4. ~Settled(i) /\ i \in Txs
  BY SentIsTyped DEF DetectionInv, StoreOK
<1>5. rows[i].status \in {"none", "pending"}
  BY <1>4 DEF DetectionInv, StoreOK, Settled, RowRecord
<1>6. e \in window
  BY DEF Window, InWindow
<1>7. e.nonce = txs[i].nonce /\ e.status \in {"none", "pending"}
  BY <1>5 DEF EventOf
<1>8. \A f \in window : f.nonce \in 0..MaxNonce /\ \E j \in Sent : f.nonce = txs[j].nonce
  BY WindowIsKnown DEF EventOf
<1>9. \A f \in window : f.nonce # n
  BY <1>8 DEF Skipped
<1> HIDE DEF window, e
<1>10. e \in Unresolved(window, tick.latest)
  BY <1>1, <1>3, <1>6, <1>7 DEF Unresolved, Unknown, isTerminal
<1>11. submitted \in SUBSET (0..MaxNonce) /\ e.nonce \in submitted /\ n \notin submitted
  BY <1>1, <1>3, <1>6, <1>7, <1>8, <1>9 DEF Submitted, Unknown
<1>12. Max(submitted) \in 0..MaxNonce /\ Max(submitted) >= e.nonce
  BY <1>11, Bounds, MaxIsThere
<1>13. n \in (tick.latest..Max(submitted)) \ submitted
  BY <1>1, <1>3, <1>7, <1>11, <1>12
<1> QED
  BY <1>10, <1>13 DEF MissingNonces, window

GapEnds ==
    open["NONCE_GAP"].on /\ ~open'["NONCE_GAP"].on =>
        ~\E i \in Sent : /\ rows[i] # NoRow /\ InWindow(i, tick.at)
                         /\ WaitsBehindSkipped(i)

LEMMA EvaluationEnds == ASSUME DetectionInv, Evaluate PROVE GapEnds
<1> DEFINE c == "NONCE_GAP"
           window == Window(tick.at)
<1>1. open' = Folded(Drafts, window) /\ c \in Classes
  BY Evaluates DEF Classes
<1>2. ASSUME open[c].on, ~open'[c].on PROVE GapIsOver(window)
  <2>1. ~\E d \in Drafts : d.class = c
    BY <1>1, <1>2 DEF Folded
  <2>2. open[c].on /\ IsOver(c, open[c], window)
    BY <1>1, <1>2, <2>1 DEF Folded
  <2> QED
    BY <2>2 DEF IsOver
<1>3. GapIsOver(window) => tick.latest # Unknown /\ MissingNonces(window, tick.latest) = {}
  BY DEF GapIsOver
<1> HIDE DEF window
<1> QED
  BY <1>2, <1>3, WaitingShows DEF GapEnds, WaitsBehindSkipped, window

\* Only an evaluation closes an incident.
LEMMA OthersLeaveOpen ==
    ASSUME [ChaosNext]_cvars
    PROVE  Evaluate \/ UNCHANGED open
<1> USE DEF store
<1>1. CASE Next
  <2>1. CASE Ticking
    BY <2>1 DEF Ticking, Recorder, StartTick, Gather, NothingToEvaluate, Poll, Discover
  <2>2. CASE Agent \/ Chain
    BY <2>2 DEF Agent, Chain, Send, SignPlan, Land, DropTx, Reprice, Pass
  <2>3. CASE Trouble
    BY <2>3 DEF Trouble, Crash, PollMisses
  <2> QED
    BY <1>1, <2>1, <2>2, <2>3 DEF Next
<1>2. CASE Watching
  BY <1>2 DEF Watching, Ticking, Recorder, StartTick, Gather, NothingToEvaluate, Poll, Discover
<1>3. CASE World
  BY <1>3 DEF World, Reprice, Pass
<1>4. CASE Mining \/ Signing
  BY <1>4 DEF Mining, Mine, Land, Signing, SignStep, Send, Observe
<1>5. CASE EmptyBlock
  BY <1>5 DEF EmptyBlock
<1>6. CASE UNCHANGED cvars
  BY <1>6 DEF cvars, vars
<1> QED
  BY <1>1, <1>2, <1>3, <1>4, <1>5, <1>6 DEF ChaosNext

\* However far the chain has moved on since it was asked, and whoever is sending, a
\* gap incident closes only at a step where nothing that is stored, and not too old
\* for the rules to look at, waits behind a nonce nobody submitted at (resolutionOf).
THEOREM GapsCloseWhenOver == ChaosSpec => ResolvedIsOver
<1>1. ChaosInv /\ [ChaosNext]_cvars => [GapEnds]_vars
  BY EvaluationEnds, OthersLeaveOpen DEF ChaosInv, GapEnds
<1>2. ChaosSpec => [][GapEnds]_vars
  BY <1>1, Invariance, PTL DEF ChaosSpec
<1> QED
  BY <1>2 DEF ResolvedIsOver, GapEnds
=============================================================================
