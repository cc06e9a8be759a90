------------------------------ MODULE Execution -----------------------------
(***************************************************************************)
(* How a planned remediation is submitted (packages/remediator executors/: *)
(* routing, workflow, keeperhub, signer, verify) and what the execution    *)
(* service and the chain make of it.  One step per await.  A work is what  *)
(* one incident's plan asks for; its target is the chain, the address and  *)
(* the function it is sent to, which is all that names a workflow.  The    *)
(* service is external: it accepts requests, replays a request whose       *)
(* idempotency key it has seen, runs what it accepted in its own time, and *)
(* its answers may be lost on the way back.  An execution, and a workflow, *)
(* is identified by the attempt that caused it.                            *)
(***************************************************************************)
EXTENDS Client

CONSTANTS
    Attempts,          \* bound: calls of submit
    Works, TargetOf,   \* of a work
    Nonced,            \* works whose plan names a nonce
    None,
    MaxPolls,          \* pollAttempts and hashLookupAttempts
    Modes              \* deployments: the executors there are, the works whose
                       \* signer's key is held, whether answers are lost and the
                       \* process restarts, and what else is asked of the client

ASSUME ExecutionAssumption ==
    /\ Nonced \subseteq Works /\ DOMAIN TargetOf = Works
    /\ MaxPolls \in Nat \ {0}
    /\ None \notin Attempts \union Works
    /\ \A m \in Modes :
          /\ m.executors \subseteq {"workflow", "keeperHub", "signer"}
          /\ m.held \subseteq Works
          /\ m.faults \in BOOLEAN
          \* only a contract call names a function
          /\ m.ops \in [Callers -> [does : STRING, keyed : BOOLEAN, fn : STRING]]
          /\ \A c \in Callers : m.ops[c].fn = "write" =>
                m.ops[c].does \in {"readContract", "writeContract"}

VARIABLES
    mode,
    pc,         \* attempt -> the await it is at
    of,         \* attempt -> the work it was asked for
    path,       \* attempt -> the executor that serves it
    known,      \* workflow name -> the workflow this process knows by it
    workflow,   \* attempt -> the workflow it runs
    execution,  \* attempt -> the execution it was told of
    polls,      \* attempt -> answers it has had without a hash
    verdict,    \* attempt -> what the remediator was told
    workflows,  \* the service's workflows
    began,      \* attempt -> the workflows there were when it began
    doing,      \* execution -> the work it carries out
    failed,     \* executions whose status is error
    tx          \* execution -> the fate of its transaction

calls == <<pc, of, path, workflow, execution, polls, verdict, began>>
service == <<workflows, doing, failed, tx>>
evars == <<mode, calls, known, service>>
vars == <<evars, cvars>>

\* A workflow is named for what it does and where, not for the incident.
workflowNamePerIncident(w) == w
workflowName(w) == TargetOf[w]
Names == {workflowName(w) : w \in Works}

TypeOK ==
    /\ mode \in Modes
    /\ pc \in [Attempts -> {"new", "list", "create", "execute", "poll", "simulate",
                            "write", "lookup", "sign", "verify", "done"}]
    /\ of \in [Attempts -> Works \union {None}]
    /\ path \in [Attempts -> {"none", "workflow", "keeperHub", "signer"}]
    /\ known \in [Names -> Attempts \union {None}]
    /\ workflow \in [Attempts -> Attempts \union {None}]
    /\ execution \in [Attempts -> Attempts \union {None}]
    /\ polls \in [Attempts -> 0 .. MaxPolls]
    /\ verdict \in [Attempts -> {"none", "refused", "failed", "succeeded", "lost"}]
    /\ workflows \subseteq Attempts
    /\ began \in [Attempts -> SUBSET Attempts]
    /\ doing \in [Attempts -> Works \union {None}]
    /\ failed \subseteq Attempts
    /\ tx \in [Attempts -> {"none", "sent", "landed", "reverted"}]
    \* what an attempt is told of exists, and it is told of a hash to verify
    /\ \A a \in Attempts :
          /\ workflow[a] # None => workflow[a] \in workflows
          /\ execution[a] # None => doing[execution[a]] # None
          /\ pc[a] = "verify" => tx[execution[a]] # "none"

Init ==
    /\ mode \in Modes
    /\ ops = mode.ops /\ ClientStart
    /\ pc = [a \in Attempts |-> "new"]
    /\ of = [a \in Attempts |-> None]
    /\ path = [a \in Attempts |-> "none"]
    /\ known = [n \in Names |-> None]
    /\ workflow = [a \in Attempts |-> None]
    /\ execution = [a \in Attempts |-> None]
    /\ polls = [a \in Attempts |-> 0]
    /\ verdict = [a \in Attempts |-> "none"]
    /\ workflows = {} /\ failed = {}
    /\ began = [a \in Attempts |-> {}]
    /\ doing = [a \in Attempts |-> None]
    /\ tx = [a \in Attempts |-> "none"]

(***************************************************************************)
(* The call.                                                               *)
(***************************************************************************)
At(a, label) == pc[a] = label
Goto(a, label) == pc' = [pc EXCEPT ![a] = label]
Answer(a, v) == Goto(a, "done") /\ verdict' = [verdict EXCEPT ![a] = v]
Keep == UNCHANGED <<mode, of, path, began>>

\* The service replays what carries a key it has seen.
idempotencyKeyPerAttempt(a) == <<of[a], a>>
idempotencyKey(a) == of[a]

\* RoutingExecutor.route: who serves a work, if anyone can.
route(w) ==
    LET there == mode.executors
        signs == "signer" \in there /\ w \in mode.held
    IN  IF w \in Nonced \/ there \intersect {"workflow", "keeperHub"} = {}
          THEN IF signs THEN "signer" ELSE "none"
          ELSE IF "workflow" \in there THEN "workflow" ELSE "keeperHub"

First(w) ==
    CASE route(w) = "workflow" -> IF known[workflowName(w)] = None THEN "list" ELSE "execute"
      [] route(w) = "keeperHub" -> "simulate"
      [] route(w) = "signer" -> "sign"

\* remediate asks the router: a plan nobody can serve is refused at once.
\* Without an executor there is no remediator.
Begin(a, w) ==
    /\ At(a, "new") /\ mode.executors # {}
    /\ of' = [of EXCEPT ![a] = w]
    /\ path' = [path EXCEPT ![a] = route(w)]
    /\ began' = [began EXCEPT ![a] = workflows]
    /\ IF route(w) = "none" THEN Answer(a, "refused") ELSE Goto(a, First(w)) /\ UNCHANGED verdict
    /\ workflow' = [workflow EXCEPT ![a] =
                      IF route(w) = "workflow" THEN known[workflowName(w)] ELSE None]
    /\ UNCHANGED <<mode, known, execution, polls, service>>

\* Any request may be answered with an error, or not reach the service: the
\* call throws.  Only the reads of lookupHash and waitForReceipt swallow that.
Throws(a) ==
    /\ mode.faults
    /\ pc[a] \in {"list", "create", "execute", "poll", "simulate", "write", "sign"}
    /\ Answer(a, "refused")
    /\ Keep /\ UNCHANGED <<known, workflow, execution, polls, service>>

(***************************************************************************)
(* WorkflowExecutor.                                                       *)
(***************************************************************************)
Named(name) == {p \in workflows : workflowName(of[p]) = name}
Knows(a, p) ==
    /\ known' = [known EXCEPT ![workflowName(of[a])] = p]
    /\ workflow' = [workflow EXCEPT ![a] = p]

List(a) ==
    /\ At(a, "list")
    /\ LET found == Named(workflowName(of[a])) IN
       \/ /\ found # {} /\ Goto(a, "execute")
          /\ \E p \in found : Knows(a, p)
       \/ found = {} /\ Goto(a, "create") /\ UNCHANGED <<known, workflow>>
    /\ Keep /\ UNCHANGED <<execution, polls, verdict, service>>

\* The workflow carries the plan of whoever creates it.
Create(a) ==
    /\ At(a, "create")
    /\ workflows' = workflows \union {a}
    /\ \/ Goto(a, "execute") /\ Knows(a, a) /\ UNCHANGED verdict
       \/ mode.faults /\ Answer(a, "refused") /\ UNCHANGED <<known, workflow>>
    /\ Keep /\ UNCHANGED <<execution, polls, doing, failed, tx>>

\* executeWorkflow carries no key: each one that arrives is a run.  Validation
\* comes first and neither blocks nor throws.
Execute(a) ==
    /\ At(a, "execute")
    /\ doing' = [doing EXCEPT ![a] = of[workflow[a]]]
    /\ \/ Goto(a, "poll") /\ execution' = [execution EXCEPT ![a] = a] /\ UNCHANGED verdict
       \/ mode.faults /\ Answer(a, "refused") /\ UNCHANGED execution
    /\ Keep /\ UNCHANGED <<known, workflow, polls, workflows, failed, tx>>

HashedOnceAccepted(e) == doing[e] # None
Hashed(e) == tx[e] # "none"

OnceMoreUncounted(a, label) ==
    /\ UNCHANGED polls
    /\ IF polls[a] < MaxPolls THEN Goto(a, label) /\ UNCHANGED verdict ELSE Answer(a, "refused")

\* Another answer without a hash: the last one refuses.
OnceMore(a, label) ==
    /\ polls' = [polls EXCEPT ![a] = @ + 1]
    /\ IF polls'[a] < MaxPolls THEN Goto(a, label) /\ UNCHANGED verdict ELSE Answer(a, "refused")

\* awaitHash: a hash counts even of a run whose status is error.
Poll(a) ==
    /\ At(a, "poll")
    /\ \/ Hashed(execution[a]) /\ Goto(a, "verify") /\ UNCHANGED <<polls, verdict>>
       \/ /\ ~Hashed(execution[a]) /\ execution[a] \in failed
          /\ Answer(a, "refused") /\ UNCHANGED polls
       \/ ~Hashed(execution[a]) /\ execution[a] \notin failed /\ OnceMore(a, "poll")
    /\ Keep /\ UNCHANGED <<known, workflow, execution, service>>

(***************************************************************************)
(* KeeperHubExecutor and SignerExecutor.                                   *)
(***************************************************************************)
Simulate(a) ==
    /\ At(a, "simulate")
    /\ \/ Goto(a, "write") /\ UNCHANGED verdict
       \/ Answer(a, "refused")
    /\ Keep /\ UNCHANGED <<known, workflow, execution, polls, service>>

\* The execution that answers a request: the one its key already has, or its own.
\* The service keeps a key for a day (client.ts:322); here it is kept for good, so an
\* attempt made later than that is not among these.
Served(a) ==
    LET same == {e \in Attempts : /\ doing[e] # None /\ path[e] = "keeperHub"
                                  /\ idempotencyKey(e) = idempotencyKey(a)}
    IN  IF same = {} THEN a ELSE CHOOSE e \in same : TRUE

\* A transfer that has been sent may answer with its hash; a call never does.
Write(a) ==
    /\ At(a, "write")
    /\ LET e == Served(a) IN
       /\ doing' = [doing EXCEPT ![e] = IF @ = None THEN of[a] ELSE @]
       /\ \/ /\ execution' = [execution EXCEPT ![a] = e]
             /\ Goto(a, "lookup") \/ (Hashed(e) /\ Goto(a, "verify"))
             /\ UNCHANGED verdict
          \/ mode.faults /\ Answer(a, "refused") /\ UNCHANGED execution
    /\ Keep /\ UNCHANGED <<known, workflow, polls, workflows, failed, tx>>

\* lookupHash: a lookup that fails is another answer without a hash.
Lookup(a) ==
    /\ At(a, "lookup")
    /\ \/ Hashed(execution[a]) /\ Goto(a, "verify") /\ UNCHANGED <<polls, verdict>>
       \/ /\ ~Hashed(execution[a]) \/ mode.faults
          /\ OnceMore(a, "lookup")
    /\ Keep /\ UNCHANGED <<known, workflow, execution, service>>

Sign(a) ==
    /\ At(a, "sign")
    /\ doing' = [doing EXCEPT ![a] = of[a]]
    /\ tx' = [tx EXCEPT ![a] = "sent"]
    /\ \/ Goto(a, "verify") /\ execution' = [execution EXCEPT ![a] = a] /\ UNCHANGED verdict
       \/ mode.faults /\ Answer(a, "refused") /\ UNCHANGED execution
    /\ Keep /\ UNCHANGED <<known, workflow, polls, workflows, failed>>

(***************************************************************************)
(* ReceiptVerifier.waitForReceipt, and what remediate makes of its answer: *)
(* a reverted receipt, and a deadline with no receipt or no node to ask,   *)
(* are failures.                                                           *)
(***************************************************************************)
IncludedOnceMined(e) == tx[e] \in {"landed", "reverted"}
Included(e) == tx[e] = "landed"

Verify(a) ==
    /\ At(a, "verify")
    /\ Answer(a, IF Included(execution[a]) THEN "succeeded" ELSE "failed")
    /\ Keep /\ UNCHANGED <<known, workflow, execution, polls, service>>

(***************************************************************************)
(* The process stops: what was in progress is never answered, and what it  *)
(* knew is forgotten.                                                      *)
(***************************************************************************)
Restart ==
    /\ mode.faults
    /\ \E a \in Attempts : pc[a] \notin {"new", "done"}
    /\ pc' = [a \in Attempts |-> IF pc[a] = "new" THEN "new" ELSE "done"]
    /\ verdict' = [a \in Attempts |->
                     IF pc[a] \in {"new", "done"} THEN verdict[a] ELSE "lost"]
    /\ known' = [n \in Names |-> None]
    /\ Keep /\ UNCHANGED <<workflow, execution, polls, service>>

(***************************************************************************)
(* The service and the chain.  A nonce is used once.                       *)
(***************************************************************************)
Run(e) ==
    /\ doing[e] # None /\ tx[e] = "none" /\ e \notin failed
    /\ \/ tx' = [tx EXCEPT ![e] = "sent"] /\ UNCHANGED failed
       \/ failed' = failed \union {e} /\ UNCHANGED tx
    /\ UNCHANGED <<mode, calls, known, workflows, doing>>

\* A later step of the run fails though its transaction was sent.
FailLate(e) ==
    /\ path[e] = "workflow" /\ Hashed(e) /\ e \notin failed
    /\ failed' = failed \union {e}
    /\ UNCHANGED <<mode, calls, known, workflows, doing, tx>>

Displaced(e) == \E f \in Attempts \ {e} :
    doing[f] = doing[e] /\ doing[e] \in Nonced /\ tx[f] \in {"landed", "reverted"}

Mine(e) ==
    /\ tx[e] = "sent" /\ ~Displaced(e)
    /\ \E f \in {"landed", "reverted"} : tx' = [tx EXCEPT ![e] = f]
    /\ UNCHANGED <<mode, calls, known, workflows, doing, failed>>

Step(a) ==
    \/ List(a) \/ Create(a) \/ Execute(a) \/ Poll(a)
    \/ Simulate(a) \/ Write(a) \/ Lookup(a) \/ Sign(a) \/ Verify(a)

ExecutionNext ==
    \/ \E a \in Attempts, w \in Works : Begin(a, w)
    \/ \E a \in Attempts : Step(a) \/ Throws(a) \/ Run(a) \/ FailLate(a) \/ Mine(a)
    \/ Restart

Next ==
    \/ ExecutionNext /\ UNCHANGED cvars
    \/ ClientNext /\ UNCHANGED evars

\* A request that was made is answered, if only with an error.
Fairness ==
    /\ \A a \in Attempts : WF_vars(Step(a) /\ UNCHANGED cvars)
    /\ \A c \in Callers : WF_vars((Answers(c) \/ Faults(c)) /\ UNCHANGED evars)
Spec == Init /\ [][Next]_vars /\ Fairness

(***************************************************************************)
(* Properties.                                                             *)
(***************************************************************************)

\* Whatever path serves an attempt and whatever is lost on the way, it is what
\* Submission promises: at most one transaction of its own, at the target it
\* asked for, from the agent's key when the work needs its nonce, one answer,
\* and "succeeded" only of a target that was reached (remediator.ts, submit
\* and verify of every executor).
Promise == INSTANCE Submission WITH
    asked <- of,
    carried <- [a \in Attempts |-> IF tx[a] = "none" THEN None ELSE doing[a]],
    sender <- [a \in Attempts |-> IF tx[a] = "none" THEN "nobody"
                                  ELSE IF path[a] = "signer" THEN "agent" ELSE "relayer"],
    fate <- tx,
    answer <- verdict
ImplementsSubmission == Promise!Spec

\* The direct executor pays once for a work, however often it is asked and
\* however many answers were lost: keeperhub.ts, "a retry of the same
\* remediation must send the same key so it replays instead of spending twice".
DirectPaysOnce == \A w \in Works :
    Cardinality({e \in Attempts : path[e] = "keeperHub" /\ doing[e] = w}) <= 1

\* An attempt does not create a workflow where one that serves its target
\* already was when it began, in this process or before a restart:
\* workflow.ts, "one workflow that every matching incident reuses".
TargetsShareAWorkflow == \A p \in workflows : \A q \in began[p] :
    TargetOf[of[p]] # TargetOf[of[q]]

\* No work is paid twice by the direct executor, no workflow made where one
\* already serves, and no request repeated that was not safe to repeat.
NothingIsRepeated == TypeOK /\ DirectPaysOnce /\ TargetsShareAWorkflow /\ ClientHolds

\* Every attempt is answered though its run never produces a hash: the polls
\* are bounded, so the signer's mutex is released (remediator.ts finally); and
\* so is every call of the client, whatever a limiter says.
EveryAttemptEnds ==
    /\ []<>(\A a \in Attempts : pc[a] \in {"new", "done"})
    /\ EveryCallReturns

\* What a run carries out is what was planned (workflow.ts:97, "A name that
\* identifies the work").  A transfer's amount is not in the name: a later one
\* to the same address runs the workflow that holds the first one's amount.
RunsWhatWasPlanned == \A a \in Attempts : doing[a] \in {None, of[a]}
=============================================================================
