------------------------------- MODULE Chaos -------------------------------
(***************************************************************************)
(* The failures a wallet induces on purpose (packages/api chaos-plans and  *)
(* packages/chaos) over the detection of them: a plan is drawn up from the *)
(* chain as it stands, the wallet signs its steps one at a time, each      *)
(* waiting for the last one's block where the plan says so, and reports    *)
(* the hashes; what the plan says it induces has to be found.  Without a   *)
(* scenario the signer does as it likes.                                   *)
(***************************************************************************)
EXTENDS Detection

CONSTANTS
    Attempts,   \* transactions of C4
    MaxHeight   \* bound: blocks of a scenario

ASSUME ChaosAssumption == Attempts \in Nat /\ MaxHeight \in Nat

VARIABLES
    scenario,  \* the plan being signed, or "free"
    step,      \* steps signed so far
    height,    \* the chain's block number
    armedAt    \* the block ChaosTarget's trap was armed in, or Unknown

chaos == <<scenario, step, height, armedAt>>
cvars == <<vars, chaos>>

Scenarios == {"C1", "C2", "C3", "C4"}
induces == [C1 |-> "GAS_UNDERPRICED", C2 |-> "NONCE_GAP",
            C3 |-> "SIM_PASS_EXEC_REVERT", C4 |-> "RETRY_STORM"]

ChaosInit ==
    /\ Init
    /\ scenario \in Scenarios \union {"free"}
    /\ scenario # "free" => ~faulty
    /\ step = 0 /\ height = 0 /\ armedAt = Unknown

(***************************************************************************)
(* planChaos, drawn up at nonce 0 and the first base fee.                  *)
(***************************************************************************)
PlannedBase == Min(BaseFees)
normalFee == 2 * PlannedBase + Tip
StepInSequence(action, skipped, fee, wait) == [action |-> action, skipped |-> 0, fee |-> fee, wait |-> wait]
Step(action, skipped, fee, wait) == [action |-> action, skipped |-> skipped, fee |-> fee, wait |-> wait]

planChaos(s) ==
    CASE s = "C1" -> <<Step("pay", 0, PlannedBase, FALSE)>>
      [] s = "C2" -> <<Step("pay", 1, normalFee, FALSE)>>
      [] s = "C3" -> <<Step("armTrap", 0, normalFee, TRUE), Step("work", 0, normalFee, FALSE)>>
      [] s = "C4" -> [k \in 1..Attempts |-> Step("doomed", 0, normalFee, TRUE)]

\* The wallet signs the next step once the one it waits for is mined.
SignStep ==
    /\ scenario # "free" /\ step < Len(planChaos(scenario))
    /\ step > 0 /\ planChaos(scenario)[step].wait => txs[step].fate = "landed"
    /\ LET s == planChaos(scenario)[step + 1]
       IN  Send(next + s.skipped, s.fee, s.action, FALSE)
    /\ step' = step + 1
    /\ UNCHANGED <<scenario, height, armedAt>>

\* observeSubmissions: a reported hash is looked up and watched from then on.
Observe(i) ==
    /\ scenario # "free"
    /\ watchedAt[i] = Unknown /\ txs[i].fate \in {"pool", "landed"}
    /\ watchedAt' = [watchedAt EXCEPT ![i] = now]
    /\ UNCHANGED <<chain, rows, gapPolls, open, tick, faulty, chaos>>

\* work() reverts in any block after the one the trap was armed in, so at the
\* parent block it passes only if that is the very block it was armed in.
MinedReplay(i) ==
    IF txs[i].action # "work" THEN ReplayOf(txs[i].action)
    ELSE IF height = armedAt THEN "passed" ELSE "failed"

Mine(i) ==
    /\ scenario # "free"
    /\ Land(i, MinedReplay(i))
    /\ height' = height + 1
    /\ armedAt' = IF txs[i].action = "armTrap" THEN height + 1 ELSE armedAt
    /\ UNCHANGED <<scenario, step>>

EmptyBlock ==
    /\ scenario # "free" /\ height < MaxHeight
    /\ height' = height + 1
    /\ UNCHANGED <<chain, store, tick, faulty, scenario, step, armedAt>>

Quietly == seen' = NothingSeen
Mining == (\E i \in Sent : Mine(i)) /\ Quietly
Signing == (SignStep \/ \E i \in Sent : Observe(i)) /\ Quietly
Watching == Ticking /\ UNCHANGED chaos
World == ((\E f \in BaseFees : Reprice(f)) \/ Pass) /\ Quietly /\ UNCHANGED chaos

ChaosNext ==
    \/ scenario = "free" /\ Next /\ UNCHANGED chaos
    \/ scenario # "free" /\ (Watching \/ World)
    \/ Mining \/ Signing \/ (EmptyBlock /\ Quietly)

\* A scenario is signed and reported to its end, and what can be mined is.
ChaosSpec ==
    /\ ChaosInit /\ [][ChaosNext]_cvars
    /\ WF_cvars(Watching) /\ WF_cvars(Mining) /\ WF_cvars(Signing)

(***************************************************************************)
(* Properties.                                                             *)
(***************************************************************************)
\* The clock has run past what the rules look back on before the ticks that would
\* have found it; in the code a tick takes seconds, the window an hour.
OlderThan(span) == \E i \in Sent : watchedAt[i] # Unknown /\ watchedAt[i] < now - span

\* What a wallet has induced: a gap though no block ever shows the transaction that
\* waits behind it (C2, R2), a storm though each attempt settles and is not looked
\* at again (C4, R5), and a bid once the market has outrun it (C1, R3).
Induced ==
    \/ scenario \in {"C2", "C4"}
    \/ scenario = "C1" /\ step = 1 /\ baseFee > PlannedBase
IsFound == scenario \in DOMAIN induces /\ open[induces[scenario]].on
LandedAfterAll == scenario = "C1" /\ \E i \in Sent : txs[i].fate = "landed"
TooOld == OlderThan(IF scenario = "C4" THEN StormWindow ELSE WindowSpan)

\* What a chaos scenario induces is found by the detection that is to find it,
\* whatever order its steps, the blocks and the ticks come in, unless it is too old
\* to be looked at by then, or the bid lands after all (chaos-plans.ts).
InducedIsFound == Induced ~> (IsFound \/ LandedAfterAll \/ TooOld)

\* Violated by the code: a call trapped between its simulation and its block is
\* reported as drift (C3, R4); replayed at its parent block, it passes only
\* when it is mined in the block right after the trap was armed.
DriftIsInduced == scenario = "C3" ~> open[induces.C3].on

=============================================================================
