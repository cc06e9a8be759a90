----------------------------- MODULE Playbooks -----------------------------
(***************************************************************************)
(* The remediation playbooks of packages/remediator: which one an incident *)
(* class has, whether the deployment's executors can serve it for a kind   *)
(* of agent, and the plan it makes of the incident's facts and the market: *)
(* a transaction to submit, or a refusal.                                  *)
(***************************************************************************)
EXTENDS Integers, FiniteSetsExt

CONSTANTS
    BumpPercent,   \* remediation.bumpMultiple, at least 112.5%
    TopupTarget    \* remediation.topupActionsTarget

ASSUME PlaybooksAssumption == BumpPercent \in Nat /\ BumpPercent >= 113 /\ TopupTarget \in Nat

Nobody == "nobody"

playbookFor(class) ==
    CASE class \in {"GAS_UNDERPRICED", "STUCK_TRANSACTION"} -> "P1"
      [] class = "NONCE_GAP" -> "P2"
      [] class = "ADVERSE_INCLUSION" -> "P3"
      [] class \in {"RETRY_STORM", "SIM_PASS_EXEC_REVERT", "WORKFLOW_MISCONFIGURED"} -> "P4"
      [] class = "SIGNER_GAS_STARVED" -> "P5"
      [] class = "EXECUTION_STALLED" -> "P6"
      [] class = "SPEND_CAP_EXHAUSTED" -> "P7"

\* The agents a playbook can fix and the executors that can carry it out.
serves(playbook) ==
    CASE playbook \in {"P1", "P2", "P3", "P5"} -> {"signer"}
      [] playbook \in {"P6", "P7"} -> {"keeperhub"}
      [] OTHER -> {"signer", "keeperhub"}
executorsOf(playbook) ==
    CASE playbook \in {"P1", "P2", "P5"} -> {"signer", "user-signed"}
      [] playbook = "P3" -> {"signer"}
      [] playbook = "P4" -> {"signer", "keeperhub", "keeperhub-workflow", "user-signed"}
      [] playbook = "P6" -> {"keeperhub", "keeperhub-workflow"}
      [] OTHER -> {"keeperhub"}

servability(playbook, kind, available) ==
    /\ kind \in serves(playbook) \union {"unset"}
    /\ executorsOf(playbook) \intersect available # {}

Skip == [kind |-> "skip"]
Submit(nonce, to, value, fee, tip) ==
    [kind |-> "submit", nonce |-> nonce, to |-> to, value |-> value, fee |-> fee, tip |-> tip]

Bumped(amount) == (amount * BumpPercent) \div 100

\* The fee of a replacement: the bumped market, but never below 115% of the
\* bid it has to displace.
ReplacementFeeAtMarket(previous, market) == Bumped(2 * market.baseFee + market.tip)
ReplacementFee(previous, market) ==
    LET floor == (previous * 115) \div 100
        bid == Bumped(2 * market.baseFee + market.tip)
    IN  IF bid > floor THEN bid ELSE floor

P1(facts, market) ==
    IF facts.nonce = -1 THEN Skip
    ELSE Submit(facts.nonce, "itself", 0,
                ReplacementFee(IF facts.fee = -1 THEN 0 ELSE facts.fee, market),
                Bumped(market.tip))

P2(facts, market) ==
    IF facts.missing = {} THEN Skip
    ELSE Submit(Min(facts.missing), "itself", 0,
                3 * market.baseFee + market.tip, 2 * market.tip)

\* Where there is no private mempool there is no other route, and where there is
\* one no action is declared safe to replay on it.
P3 == Skip

P4(breaker, market) ==
    IF breaker = Nobody THEN Skip
    ELSE Submit(-1, breaker, 0, 2 * market.baseFee + market.tip, market.tip)

P5(facts, fundingWallet, market) ==
    IF fundingWallet = Nobody \/ facts.cost \in {-1, 0} THEN Skip
    ELSE Submit(-1, "itself", facts.cost * TopupTarget,
                2 * market.baseFee + market.tip, market.tip)

\* A run that does not finish is the platform's to cancel, and a cap its owner's
\* to raise: neither can be done by a transaction, and both say so.
P6 == Skip
P7 == Skip

plan(class, facts, market, breaker, fundingWallet) ==
    CASE playbookFor(class) = "P1" -> P1(facts, market)
      [] playbookFor(class) = "P2" -> P2(facts, market)
      [] playbookFor(class) = "P3" -> P3
      [] playbookFor(class) = "P4" -> P4(breaker, market)
      [] playbookFor(class) = "P5" -> P5(facts, fundingWallet, market)
      [] playbookFor(class) = "P6" -> P6
      [] playbookFor(class) = "P7" -> P7

=============================================================================
