------------------------------- MODULE Rules -------------------------------
(***************************************************************************)
(* The detection rules of packages/detector: R1 to R10 as functions of a   *)
(* signer's window of events and of what the chain and the platform were   *)
(* asked, and evaluateRules, which offers the window to the rules that     *)
(* apply to the kind of agent and keeps the specific one of two rules that *)
(* describe one problem.  R7 reads an inclusion analysis that nothing in   *)
(* the deployment supplies.                                                *)
(* A window is a set of events in the order loadSignerWindow returns them, *)
(* by at, ties (which the query leaves open) by seq; a rule returns the    *)
(* set of its drafts, none or one.                                         *)
(***************************************************************************)
EXTENDS Integers, FiniteSetsExt, SequencesExt

CONSTANTS
    StuckThreshold, StalledThreshold,  \* ages after which pending is an incident
    StormWindow, StormCount,           \* R5: so many failures of an action in so long
    NodeFailures,                      \* R10: so many refusals of a workflow in so long
    GapConfirmations,                  \* R2: evaluations a gap must persist across
    StarvedMultiple,                   \* R6: transactions the balance must still pay for
    WarnPercent,                       \* R8: share of the spend cap that warns
    SlippageTolerance                  \* R7: in basis points

ASSUME RulesAssumption ==
    /\ {StuckThreshold, StalledThreshold, StormWindow, GapConfirmations, WarnPercent, SlippageTolerance}
          \subseteq Nat
    /\ {StormCount, NodeFailures, StarvedMultiple} \subseteq Nat \ {0}

Unknown == -1

Statuses == {"pending", "included", "reverted", "dropped", "replaced", "rejected", "unknown"}
Kinds == {"signer", "keeperhub"}

isTerminal(e) == e.status \in {"included", "reverted", "dropped", "replaced", "rejected"}
isFailed(e) == e.status \in {"reverted", "dropped", "rejected"}

Precedes(e, f) == e.at < f.at \/ (e.at = f.at /\ e.seq < f.seq)
First(events) == {e \in events : \A f \in events \ {e} : Precedes(e, f)}
Newest(events) == {e \in events : \A f \in events \ {e} : Precedes(f, e)}
IdsOf(events) == {e.id : e \in events}

\* What a later step reads of a draft's facts.
NoFacts == [nonce |-> Unknown, fee |-> Unknown, missing |-> {}, cost |-> Unknown,
            threshold |-> Unknown, action |-> "none"]
Draft(rule, class, severity, confidence, cites, facts) ==
    [rule |-> rule, class |-> class, severity |-> severity, confidence |-> confidence,
     cites |-> cites, facts |-> facts]

nonceResolved(window, n) == n # Unknown /\ \E e \in window : e.nonce = n /\ isTerminal(e)

\* The nonces submitted at but missing beneath the highest submission.  Only
\* what was observed counts: a node's pending count does not see a queued one.
Submitted(window, latest) == {e.nonce : e \in window} \ (Unknown..(latest - 1))
Unresolved(window, latest) ==
    {e \in window : e.nonce # Unknown /\ e.nonce >= latest /\ ~isTerminal(e)}
MissingNoncesOneTooFar(window, latest) ==
    IF Unresolved(window, latest) = {} THEN {}
    ELSE (latest..(Max(Submitted(window, latest)) + 1)) \ Submitted(window, latest)
MissingNonces(window, latest) ==
    IF Unresolved(window, latest) = {} THEN {}
    ELSE (latest..Max(Submitted(window, latest))) \ Submitted(window, latest)

(***************************************************************************)
(* The rules of an agent that holds its key.                               *)
(***************************************************************************)
\* The chain agrees that the nonce has not advanced past this one.
CorroboratedLoosely(latest, n) == latest # Unknown /\ n # Unknown /\ latest <= n + 1
Corroborated(latest, n) == latest # Unknown /\ n # Unknown /\ latest <= n

R1(window, ctx) ==
    LET stuck == {e \in window : /\ e.status = "pending"
                                 /\ ctx.now - e.at > StuckThreshold
                                 /\ ~nonceResolved(window, e.nonce)}
    IN  {Draft("R1", "STUCK_TRANSACTION", "warning",
               IF Corroborated(ctx.latest, e.nonce) THEN 95 ELSE 60, {e.id},
               [NoFacts EXCEPT !.nonce = e.nonce, !.fee = e.fee]) :
            e \in First(stuck)}

R2(window, ctx) ==
    IF \/ ctx.latest = Unknown
       \/ MissingNonces(window, ctx.latest) = {}
       \/ ctx.gapPolls < GapConfirmations
    THEN {}
    ELSE {Draft("R2", "NONCE_GAP", "critical", 90, IdsOf(Unresolved(window, ctx.latest)),
                [NoFacts EXCEPT !.missing = MissingNonces(window, ctx.latest)])}

\* The base fee is the one read now: the bid is compared with today's market.
\* Whether the nonce has been used meanwhile is not asked.
R3(window, ctx) ==
    LET low == {e \in window : /\ e.status \in {"pending", "dropped"}
                               /\ e.fee # Unknown /\ e.fee < ctx.baseFee}
    IN  IF ctx.baseFee = Unknown THEN {}
        ELSE {Draft("R3", "GAS_UNDERPRICED", "warning", 90, {e.id},
                    [NoFacts EXCEPT !.nonce = e.nonce, !.fee = e.fee]) :
                e \in First(low)}

R4(window, ctx) ==
    {Draft("R4", "SIM_PASS_EXEC_REVERT", "critical", 95, {e.id}, NoFacts) :
        e \in Newest({x \in window : x.sim = "passed" /\ x.status = "reverted"})}

\* One draft for the first action that storms, however many do.
Alike(events, e) == {f \in events : f.action = e.action}
Storming(events, count) == First({e \in events : Cardinality(Alike(events, e)) >= count})

R5(window, ctx) ==
    LET recent == {e \in window : e.at >= ctx.now - StormWindow /\ isFailed(e)}
    IN  {Draft("R5", "RETRY_STORM", "critical", 90, IdsOf(Alike(recent, e)),
               [NoFacts EXCEPT !.action = e.action]) : e \in Storming(recent, StormCount)}

median(priced) ==
    LET s == SetToSortSeq(priced, LAMBDA e, f : e.cost < f.cost \/ (e.cost = f.cost /\ Precedes(e, f)))
        mid == Len(s) \div 2 + 1
    IN  IF Len(s) % 2 = 1 THEN s[mid].cost ELSE (s[mid - 1].cost + s[mid].cost) \div 2

R6(window, ctx) ==
    LET priced == {e \in window : e.cost # Unknown}
        cost == median(priced)
        unfunded == \E e \in window : e.unfunded
    IN  IF ctx.balance = Unknown \/ priced = {} THEN {}
        ELSE IF cost = 0 \/ ctx.balance >= cost * StarvedMultiple THEN {}
        ELSE {Draft("R6", "SIGNER_GAS_STARVED", IF unfunded THEN "critical" ELSE "warning",
                    IF unfunded THEN 95 ELSE 80, IdsOf(Newest(window)),
                    [NoFacts EXCEPT !.cost = cost, !.threshold = cost * StarvedMultiple])}

\* What was expected of a swap and what came of it, in a block with neighbours.
NoAnalysis == [block |-> Unknown, expected |-> 0, actual |-> 0, neighbours |-> {}]
Adverse(analysis) ==
    /\ analysis.expected # 0 /\ analysis.neighbours # {}
    /\ ((analysis.expected - analysis.actual) * 10000) \div analysis.expected > SlippageTolerance

R7(window, ctx) ==
    LET public == {e \in window : e.public /\ e.block = ctx.inclusion.block}
    IN  IF ctx.inclusion = NoAnalysis \/ ~Adverse(ctx.inclusion) THEN {}
        ELSE {Draft("R7", "ADVERSE_INCLUSION", "warning", 65, {e.id}, NoFacts) :
                e \in Newest(public)}

(***************************************************************************)
(* The rules of an agent whose wallet the platform manages.                *)
(***************************************************************************)
\* No cap configured is not a cap of zero: the rule declines.
R8(window, ctx) ==
    IF ctx.cap \in {Unknown, 0} \/ ctx.used * 100 < ctx.cap * WarnPercent THEN {}
    ELSE {Draft("R8", "SPEND_CAP_EXHAUSTED",
                IF ctx.used >= ctx.cap THEN "critical" ELSE "warning", 95, {}, NoFacts)}

R9(window, ctx) ==
    LET Done(e) == \E f \in window : f.action = e.action /\ isTerminal(f)
        stalled == {e \in window : /\ e.status = "pending"
                                   /\ ctx.now - e.at > StalledThreshold /\ ~Done(e)}
    IN  {Draft("R9", "EXECUTION_STALLED", "warning", 90, {e.id}, NoFacts) :
            e \in First(stalled)}

R10(window, ctx) ==
    LET refused == {e \in window : /\ e.at >= ctx.now - StormWindow
                                   /\ e.status = "rejected" /\ e.workflow}
        Steps(e) == {f.steps : f \in Alike(refused, e)} \ {Unknown}
    IN  {Draft("R10", "WORKFLOW_MISCONFIGURED", "critical",
               IF Cardinality(Steps(e)) = 1 THEN 90 ELSE 75, IdsOf(Alike(refused, e)),
               [NoFacts EXCEPT !.action = e.action]) : e \in Storming(refused, NodeFailures)}

(***************************************************************************)
(* evaluateRules.                                                          *)
(***************************************************************************)
\* The kinds of agent each rule has evidence about.
appliesTo(rule) ==
    CASE rule \in {"R1", "R2", "R6"} -> {"signer"}
      [] rule \in {"R8", "R9", "R10"} -> {"keeperhub"}
      [] OTHER -> Kinds

SUPPRESSESWorkflowsOnly == {[specific |-> "R10", general |-> "R5"]}
SUPPRESSES == {[specific |-> "R3", general |-> "R1"], [specific |-> "R10", general |-> "R5"]}

Fired(window, ctx) ==
    {d \in UNION {R1(window, ctx), R2(window, ctx), R3(window, ctx), R4(window, ctx),
                  R5(window, ctx), R6(window, ctx), R7(window, ctx), R8(window, ctx),
                  R9(window, ctx), R10(window, ctx)} : ctx.kind \in appliesTo(d.rule) \union {"unset"}}

\* What is left when the specific rule of a pair has fired too.
Unsuppressed(fired) ==
    {d \in fired : ~\E s \in SUPPRESSES : s.general = d.rule /\ \E e \in fired : e.rule = s.specific}

evaluateRules(window, ctx) == UNION {Unsuppressed(fired) : fired \in {Fired(window, ctx)}}

=============================================================================
