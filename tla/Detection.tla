----------------------------- MODULE Detection -----------------------------
(***************************************************************************)
(* From a failing transaction to an incident and a plan, for one signer    *)
(* that holds its key (packages/recorder, detector, remediator): the       *)
(* signer sends transactions and the chain lands, drops and replaces them; *)
(* a tick polls what is watched and unsettled, asks the chain for nonce    *)
(* and base fee, folds the rules' drafts into the open incidents and       *)
(* closes those whose condition is over; the wallet may sign the plan a    *)
(* playbook makes of an open incident.  Polls, reads and evaluation are    *)
(* separate steps: the chain moves between them.                           *)
(***************************************************************************)
EXTENDS Rules, Playbooks, FiniteSets

CONSTANTS
    Calls,           \* what the signer calls, see CallKinds
    Fees, BaseFees,  \* bids of the signer, base fees of the chain
    Balances,        \* balances the chain may report
    Tip,             \* the suggested priority fee
    Cost,            \* what a landed transaction cost
    WindowSpan,      \* windowMs: how far back the rules look
    MaxSent, MaxNonce, MaxTime, MaxMoves  \* bounds: sends, nonces, clock, base fee moves

\* "work" reverts when mined although its parent block would have run it,
\* "doomed" reverts anywhere, the rest succeed.
CallKinds == {"pay", "work", "doomed", "armTrap"}

ASSUME DetectionAssumption ==
    /\ Calls \subseteq CallKinds /\ Fees \subseteq Nat /\ Balances \subseteq Nat
    /\ BaseFees \subseteq Nat \ {0} /\ BaseFees # {}
    /\ {Tip, Cost, WindowSpan, MaxSent, MaxNonce, MaxTime, MaxMoves} \subseteq Nat

VARIABLES
    now, baseFee, moves,
    next,      \* the nonce the chain executes next
    txs,       \* every transaction sent: nonce, fee, action and what became of it
    watchedAt, \* tx -> when it was registered for watching, or Unknown
    rows,      \* tx -> the status and simulation of its stored event
    gapPolls,  \* signer_state.consecutiveGapPolls
    open,      \* class -> the open incident: facts and first cited event, or Closed
    tick,      \* the local state of the recorder's tick
    seen,      \* history: what the step just taken drafted, if it evaluated
    faulty     \* whether reads may fail and the process may die, fixed at the start

chain == <<now, baseFee, moves, next, txs>>
store == <<watchedAt, rows, gapPolls, open>>
vars == <<chain, store, tick, seen, faulty>>

Txs == 1..MaxSent
Sent == DOMAIN txs
Actions == CallKinds \union {"heal"}
Replays == {"none", "passed", "failed"}
Fates == {"pool", "landed", "replaced", "dropped"}
Classes == {"STUCK_TRANSACTION", "NONCE_GAP", "GAS_UNDERPRICED", "SIM_PASS_EXEC_REVERT",
            "RETRY_STORM", "SIGNER_GAS_STARVED", "EXECUTION_STALLED"}

NoRow == [status |-> "none", sim |-> "none"]
Closed == [on |-> FALSE, facts |-> NoFacts, first |-> Unknown]
Idle == [pc |-> "idle", left |-> {}, touched |-> FALSE, at |-> 0,
         latest |-> Unknown, baseFee |-> Unknown, balance |-> Unknown]
NothingSeen == [drafts |-> {}, latest |-> Unknown]

Init ==
    /\ now = 0 /\ moves = 0 /\ next = 0
    /\ baseFee = Min(BaseFees)
    /\ txs = <<>>
    /\ watchedAt = [i \in Txs |-> Unknown]
    /\ rows = [i \in Txs |-> NoRow]
    /\ gapPolls = 0
    /\ open = [c \in Classes |-> Closed]
    /\ tick = Idle /\ seen = NothingSeen
    /\ faulty \in BOOLEAN

(***************************************************************************)
(* The signer and the chain.                                               *)
(***************************************************************************)
InPool(n) == {i \in Sent : txs[i].fate = "pool" /\ txs[i].nonce = n}

\* A node takes a bid that is not below the base fee, at a nonce not used yet;
\* to replace a pooled transaction it has to outbid it by a tenth.
Accepts(n, fee) ==
    /\ Len(txs) < MaxSent
    /\ n \in next..MaxNonce
    /\ fee >= baseFee
    /\ \A i \in InPool(n) : fee * 10 >= txs[i].fee * 11

WithTx(n, fee, action) ==
    Append([i \in Sent |-> IF i \in InPool(n) THEN [txs[i] EXCEPT !.fate = "replaced"] ELSE txs[i]],
           [nonce |-> n, fee |-> fee, action |-> action, fate |-> "pool", replay |-> "none"])

\* The agent sends, and reports the hash or does not: a transaction no block
\* includes is heard of no other way (POST /api/chaos/observe).
Send(n, fee, action, reported) ==
    /\ Accepts(n, fee)
    /\ txs' = WithTx(n, fee, action)
    /\ watchedAt' = IF reported THEN [watchedAt EXCEPT ![Len(txs) + 1] = now] ELSE watchedAt
    /\ UNCHANGED <<now, baseFee, moves, next, rows, gapPolls, open, tick, faulty>>

\* replay: what the same call answers at the parent block, for one that reverts.
Land(i, replay) ==
    /\ txs[i].fate = "pool" /\ txs[i].nonce = next /\ txs[i].fee >= baseFee
    /\ txs' = [txs EXCEPT ![i].fate = "landed", ![i].replay = replay]
    /\ next' = next + 1
    /\ UNCHANGED <<now, baseFee, moves, store, tick, faulty>>

ReplayOf(action) ==
    CASE action = "work" -> "passed" [] action = "doomed" -> "failed" [] OTHER -> "none"

DropTx(i) ==
    /\ faulty /\ txs[i].fate = "pool"
    /\ txs' = [txs EXCEPT ![i].fate = "dropped"]
    /\ UNCHANGED <<now, baseFee, moves, next, store, tick, faulty>>

\* The block scanner finds a registered signer's transactions once they land.
Discover(i) ==
    /\ txs[i].fate = "landed" /\ watchedAt[i] = Unknown
    /\ watchedAt' = [watchedAt EXCEPT ![i] = now]
    /\ UNCHANGED <<chain, rows, gapPolls, open, tick, faulty>>

Reprice(fee) ==
    /\ moves < MaxMoves /\ fee # baseFee
    /\ moves' = moves + 1 /\ baseFee' = fee
    /\ UNCHANGED <<now, next, txs, store, tick, faulty>>

\* What goes by before the first transaction is seen by nothing: the clock
\* starts with it.
Pass ==
    /\ Sent # {} /\ now < MaxTime
    /\ now' = now + 1
    /\ UNCHANGED <<baseFee, moves, next, txs, store, tick, faulty>>

(***************************************************************************)
(* A tick: poll, ask the chain, evaluate.                                  *)
(***************************************************************************)
DueOnce == {i \in Sent : watchedAt[i] # Unknown /\ rows[i] = NoRow}
Due == {i \in Sent : watchedAt[i] # Unknown /\ rows[i].status \notin {"included", "reverted"}}

StartTick ==
    /\ tick.pc = "idle" /\ Due # {}
    /\ tick' = [Idle EXCEPT !.pc = "polling", !.left = Due]
    /\ UNCHANGED <<chain, store, faulty>>

\* buildEventFromChain: a transaction the node does not have makes no event.
\* A reverted call is replayed at the parent block (replayAtParentBlock).
ObservedGoneAsDropped(i) ==
    IF txs[i].fate = "pool" THEN [status |-> "pending", sim |-> "none"]
    ELSE [status |-> IF txs[i].fate = "landed" THEN "included" ELSE "dropped", sim |-> "none"]
Observed(i) ==
    CASE txs[i].fate = "pool" -> [status |-> "pending", sim |-> "none"]
      [] txs[i].fate = "landed" ->
            [status |-> IF txs[i].replay = "none" THEN "included" ELSE "reverted",
             sim |-> txs[i].replay]
      [] OTHER -> NoRow

\* insertEvents: only a pending row is updated by a later observation.
UpsertedOnce(i, row) == IF rows[i] # NoRow THEN rows ELSE [rows EXCEPT ![i] = row]
Upserted(i, row) ==
    IF row = NoRow \/ rows[i].status \notin {"none", "pending"} THEN rows
    ELSE [rows EXCEPT ![i] = row]

Polled(i) == [tick EXCEPT !.left = @ \ {i}, !.touched = TRUE]

Poll(i) ==
    /\ tick.pc = "polling" /\ i \in tick.left
    /\ rows' = Upserted(i, Observed(i))
    /\ tick' = Polled(i)
    /\ UNCHANGED <<chain, watchedAt, gapPolls, open, faulty>>

\* The node asked has not heard of it yet, or does not answer at all.
PollMisses(i) ==
    /\ faulty
    /\ tick.pc = "polling" /\ i \in tick.left
    /\ tick' \in {Polled(i), [tick EXCEPT !.left = @ \ {i}]}
    /\ UNCHANGED <<chain, store, faulty>>

\* evaluateSigner takes the time, then asks; what fails is left unknown.
Gather ==
    /\ tick.pc = "polling" /\ tick.left = {} /\ tick.touched
    /\ \E known \in (IF faulty THEN BOOLEAN ELSE {TRUE}), balance \in Balances :
        tick' = IF known
                THEN [tick EXCEPT !.pc = "gathered", !.at = now, !.latest = next,
                                  !.baseFee = baseFee, !.balance = balance]
                ELSE [tick EXCEPT !.pc = "gathered", !.at = now]
    /\ UNCHANGED <<chain, store, faulty>>

NothingToEvaluate ==
    /\ tick.pc = "polling" /\ tick.left = {} /\ ~tick.touched
    /\ tick' = Idle
    /\ UNCHANGED <<chain, store, faulty>>

EventOf(i) ==
    [id |-> i, seq |-> i, action |-> txs[i].action, workflow |-> FALSE, kind |-> "unset",
     status |-> rows[i].status, nonce |-> txs[i].nonce, fee |-> txs[i].fee, sim |-> rows[i].sim,
     at |-> watchedAt[i], unfunded |-> FALSE, steps |-> Unknown,
     cost |-> IF rows[i].status \in {"included", "reverted"} THEN Cost ELSE Unknown]

\* loadSignerWindow: stored events registered within the span.
Window(at) == {EventOf(i) : i \in {j \in Sent : rows[j] # NoRow /\ watchedAt[j] >= at - WindowSpan}}

\* The observation count survives restarts, and an evaluation that does not
\* know the nonce leaves it as it is.
CountedGapsAsOne(window) ==
    IF tick.latest = Unknown THEN gapPolls ELSE IF MissingNonces(window, tick.latest) = {} THEN 0 ELSE 1
CountedGaps(window) ==
    IF tick.latest = Unknown THEN gapPolls
    ELSE IF MissingNonces(window, tick.latest) = {} THEN 0
    ELSE Min({gapPolls + 1, GapConfirmations})

\* An evaluation that cannot see the chain leaves a gap open.
GapIsOverUnseen(window) == tick.latest = Unknown \/ MissingNonces(window, tick.latest) = {}
GapIsOver(window) == tick.latest # Unknown /\ MissingNonces(window, tick.latest) = {}

\* resolutionOf: what ends an incident of a class, whoever ended it.
IsOver(class, incident, window) ==
    LET n == incident.facts.nonce
    IN  CASE class \in {"STUCK_TRANSACTION", "GAS_UNDERPRICED"} ->
                n # Unknown /\ (nonceResolved(window, n) \/ tick.latest > n)
          [] class = "NONCE_GAP" -> GapIsOver(window)
          [] class = "SIGNER_GAS_STARVED" -> tick.balance >= incident.facts.threshold
          [] class = "RETRY_STORM" ->
                ~\E e \in window : /\ e.action = incident.facts.action
                                   /\ e.at >= tick.at - StormWindow
          [] class = "SIM_PASS_EXEC_REVERT" ->
                \E e, f \in window : /\ e.id = incident.first /\ f.action = e.action
                                     /\ f.status = "included" /\ f.at > e.at
          [] OTHER -> FALSE

\* The tracker: a confirmed incident takes the latest facts and keeps its
\* first cited event; one not confirmed this round closes when it is over.
\* (No causal window lapses within the clock here.)
FoldedUntouchedUnlessFired(drafts, window) ==
    [c \in Classes |->
        IF \E d \in drafts : d.class = c
        THEN [on |-> TRUE, facts |-> (CHOOSE d \in drafts : d.class = c).facts, first |-> Unknown]
        ELSE open[c]]
Folded(drafts, window) ==
    [c \in Classes |->
        IF \E d \in drafts : d.class = c
        THEN LET d == CHOOSE d \in drafts : d.class = c
             IN  [on |-> TRUE, facts |-> d.facts,
                  first |-> IF open[c].on THEN open[c].first
                            ELSE IF d.cites = {} THEN Unknown ELSE Min(d.cites)]
        ELSE IF open[c].on /\ IsOver(c, open[c], window) THEN Closed ELSE open[c]]

Context(window) ==
    [now |-> tick.at, kind |-> "unset", latest |-> tick.latest, baseFee |-> tick.baseFee,
     balance |-> tick.balance, gapPolls |-> CountedGaps(window), cap |-> Unknown, used |-> 0,
     inclusion |-> NoAnalysis]

Evaluate ==
    /\ tick.pc = "gathered"
    /\ \E window \in {Window(tick.at)} : \E ctx \in {Context(window)} :
       \E drafts \in {evaluateRules(window, ctx)} :
        /\ gapPolls' = ctx.gapPolls
        /\ open' = Folded(drafts, window)
        /\ seen' = [drafts |-> drafts, latest |-> tick.latest]
    /\ tick' = Idle
    /\ UNCHANGED <<chain, watchedAt, rows, faulty>>

\* Rows, counts and incidents are stored; the tick in progress is not.
Crash ==
    /\ faulty /\ tick.pc # "idle"
    /\ tick' = Idle
    /\ UNCHANGED <<chain, store, faulty>>

(***************************************************************************)
(* The wallet signs what the playbook of an open incident plans.           *)
(***************************************************************************)
PlanFor(c) == plan(c, open[c].facts, [baseFee |-> baseFee, tip |-> Tip], Nobody, Nobody)

\* What the wallet sends is known to the proposal, not to the recorder.
SignPlan(c) ==
    /\ open[c].on
    /\ PlanFor(c).kind = "submit"
    /\ Accepts(PlanFor(c).nonce, PlanFor(c).fee)
    /\ txs' = WithTx(PlanFor(c).nonce, PlanFor(c).fee, "heal")
    /\ UNCHANGED <<now, baseFee, moves, next, store, tick, faulty>>

Agent ==
    \/ \E n \in 0..MaxNonce, fee \in Fees, a \in Calls, r \in BOOLEAN : Send(n, fee, a, r)
    \/ \E c \in Classes : SignPlan(c)
Chain == (\E i \in Sent : Land(i, ReplayOf(txs[i].action)) \/ DropTx(i)) \/ (\E f \in BaseFees : Reprice(f)) \/ Pass
Recorder ==
    \/ StartTick \/ Gather \/ NothingToEvaluate
    \/ \E i \in Sent : Poll(i) \/ Discover(i)
Trouble == Crash \/ \E i \in Sent : PollMisses(i)
Ticking == Evaluate \/ (Recorder /\ seen' = NothingSeen)
Next == Ticking \/ ((Agent \/ Chain \/ Trouble) /\ seen' = NothingSeen)

\* setInterval keeps ticking; nothing makes the agent, the chain or the wallet
\* act, and no property needs the clock to run.
Spec == Init /\ [][Next]_vars /\ WF_vars(Ticking)

(***************************************************************************)
(* Properties.                                                             *)
(***************************************************************************)
TypeOK ==
    /\ next \in 0..(MaxNonce + 1) /\ Len(txs) <= MaxSent
    /\ \A i \in Sent : txs[i] \in [nonce : 0..MaxNonce, fee : Nat, action : Actions, fate : Fates,
                            replay : Replays]
    /\ watchedAt \in [Txs -> 0..MaxTime \union {Unknown}]
    /\ rows \in [Txs -> [status : {"none", "pending", "included", "reverted"}, sim : Replays]]
    /\ gapPolls \in 0..GapConfirmations
    /\ tick.pc \in {"idle", "polling", "gathered"} /\ tick.left \subseteq Sent
    /\ DOMAIN open = Classes

\* A stuck transaction reported at full confidence had really not landed when
\* the chain was asked: the poll it is read from is older than that answer,
\* and the corroboration is what makes up for it (R1).
CorroboratedIsStuck ==
    \A d \in seen.drafts : d.rule = "R1" /\ d.confidence = 95 =>
        \A i \in d.cites : txs[i].fate = "landed" => next > seen.latest /\ txs[i].nonce >= seen.latest

\* Well formed, and no certainty the chain contradicted when it was asked.
EvidenceHolds == TypeOK /\ CorroboratedIsStuck

\* What P2 fills unblocks something: above the nonce it sends at there is a
\* transaction the recorder still holds as pending (findNonceGap).
FillUnblocks ==
    \A d \in seen.drafts : d.rule = "R2" =>
        /\ Min(d.facts.missing) >= seen.latest
        /\ \E i \in d.cites : txs[i].nonce > Max(d.facts.missing)

\* Two incidents of one evaluation never plan transactions at the same nonce:
\* the second would displace the first (SUPPRESSES, P1, P2).
PlansDoNotCollide ==
    \A d, e \in seen.drafts :
        LET Of(x) == plan(x.class, x.facts, [baseFee |-> baseFee, tip |-> Tip], Nobody, Nobody)
        IN  Of(d).kind = "submit" /\ Of(e).kind = "submit" /\ d # e => Of(d).nonce # Of(e).nonce

\* A replacement outbids what it replaces by the protocol's 12.5% whatever the
\* market has done since, or it only wastes a submission (P1).
ReplacementDisplaces ==
    \A d \in seen.drafts : playbookFor(d.class) = "P1" =>
        \A i \in d.cites :
            \A b \in BaseFees : 8 * P1(d.facts, [baseFee |-> b, tip |-> Tip]).fee >= 9 * txs[i].fee

\* What the drafts of one evaluation are worth acting on: a fill unblocks something,
\* a replacement displaces what it replaces, and no two plans displace each other
\* (findNonceGap, P1, SUPPRESSES).
PlansWork == FillUnblocks /\ PlansDoNotCollide /\ ReplacementDisplaces

\* Never submitted at: the chain, the pool and the recorder know no transaction there.
Skipped(n) == \A i \in Sent : txs[i].nonce # n
WaitsBehindSkipped(i) == txs[i].fate = "pool" /\ \E n \in next..(txs[i].nonce - 1) : Skipped(n)
\* The rules at that time still look at what is stored of it (windowMs).
InWindow(i, at) == watchedAt[i] # Unknown /\ watchedAt[i] >= at - WindowSpan

\* A hole in the sequence: some watched transaction waits in the pool behind a
\* skipped nonce, and is not too old to be looked at.
Hole == \E i \in Sent : InWindow(i, now) /\ WaitsBehindSkipped(i)

\* A gap incident closes only when the chain has no such hole at that very step,
\* though it was asked earlier and has moved on:
\* of what is stored and within the window, nothing waits behind a skipped nonce,
\* and an evaluation that could not ask closes nothing (resolutionOf).
ResolvedIsOver ==
    [][open["NONCE_GAP"].on /\ ~open'["NONCE_GAP"].on =>
        ~\E i \in Sent : /\ rows[i] # NoRow /\ InWindow(i, tick.at)
                         /\ WaitsBehindSkipped(i)]_vars

\* Violated by the code: the incident closes only once the hole is gone.  What is
\* older than the window is no evidence to the rules, so a gap that lasts longer
\* than the window is resolved by nobody (evaluateSigner, findNonceGap).
OutlastingGapStaysOpen ==
    [][open["NONCE_GAP"].on /\ ~open'["NONCE_GAP"].on =>
        ~\E i \in Sent : rows[i] # NoRow /\ WaitsBehindSkipped(i)]_vars

\* A hole that stays is reported, with nothing but ticks to find it, unless the
\* window passes over it first: the queued transaction is seen although no
\* pending count includes it (R2).
GapIsReported == ~faulty => (Hole ~> (open["NONCE_GAP"].on \/ ~Hole))

\* A reported gap that is closed on the chain is closed as an incident, as
\* long as the tick that settles its last transaction completes (ingest).
Unsettled == \E i \in Sent : txs[i].fate # "landed"
ClosedGapResolves ==
    ~faulty => ((open["NONCE_GAP"].on /\ ~Unsettled) ~> (~open["NONCE_GAP"].on \/ Unsettled))

\* A gap is opened and closed as the chain has it, in the end (R2, ingest).
GapsAreTracked == GapIsReported /\ ClosedGapResolves

\* Violated by the code: rules that no evidence supports for a signer are not
\* offered its window (evaluateRules); nothing establishes the kind "signer".
NoRuleOfAnotherKind ==
    \A d \in seen.drafts : "signer" \in appliesTo(d.rule)

\* Violated by the code: what is reported stuck or underpriced has a nonce the
\* chain has not used, so replacing it can do something (R1, R3).
NothingUsedIsReplaced ==
    \A d \in seen.drafts : playbookFor(d.class) = "P1" /\ seen.latest # Unknown =>
        d.facts.nonce >= seen.latest

=============================================================================
