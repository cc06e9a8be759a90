-------------------------- MODULE Execution_proofs --------------------------
(***************************************************************************)
(* For any attempts, works, deployments and losses, what the executors do  *)
(* is what Submission promises; and, for any calls of the client beside    *)
(* each other, neither repeats what was not safe to repeat.                *)
(***************************************************************************)
EXTENDS Execution, FiniteSetTheorems, TLAPS

Labels == {"new", "list", "create", "execute", "poll", "simulate",
           "write", "lookup", "sign", "verify", "done"}

WellShaped ==
    /\ pc \in [Attempts -> Labels]
    /\ of \in [Attempts -> Works \union {None}]
    /\ path \in [Attempts -> {"none", "workflow", "keeperHub", "signer"}]
    /\ known \in [Names -> Attempts \union {None}]
    /\ workflow \in [Attempts -> Attempts \union {None}]
    /\ execution \in [Attempts -> Attempts \union {None}]
    /\ verdict \in [Attempts -> {"none", "refused", "failed", "succeeded", "lost"}]
    /\ workflows \subseteq Attempts
    /\ doing \in [Attempts -> Works \union {None}]
    /\ tx \in [Attempts -> {"none", "sent", "landed", "reverted"}]

\* Where an attempt is, and what it has been given by then.
PathInv(a) ==
    /\ pc[a] = "new" <=> of[a] = None
    /\ pc[a] = "done" <=> verdict[a] # "none"
    /\ path[a] \in {"workflow", "keeperHub"} => of[a] \notin Nonced
    /\ pc[a] \in {"list", "create", "execute", "poll"} => path[a] = "workflow"
    /\ pc[a] \in {"simulate", "write", "lookup"} => path[a] = "keeperHub"
    /\ pc[a] = "sign" => path[a] = "signer"
    /\ pc[a] \in {"new", "list", "create", "execute", "simulate", "sign"} => doing[a] = None
    /\ pc[a] \in {"poll", "lookup", "verify"} => execution[a] # None
    /\ pc[a] = "execute" => workflow[a] # None

\* The workflow it runs, the execution it is told of and the work its own execution
\* carries out all have the target it asked for, and what is not the agent's to
\* send names no nonce.
TargetInv(a) ==
    /\ a \in workflows => path[a] = "workflow" /\ of[a] # None
    /\ workflow[a] # None =>
          workflow[a] \in workflows /\ TargetOf[of[workflow[a]]] = TargetOf[of[a]]
    /\ execution[a] # None =>
          /\ of[a] # None /\ doing[execution[a]] # None
          /\ TargetOf[doing[execution[a]]] = TargetOf[of[a]]
    /\ doing[a] # None =>
          /\ of[a] # None /\ TargetOf[doing[a]] = TargetOf[of[a]]
          /\ path[a] # "signer" => doing[a] \notin Nonced
    /\ tx[a] # "none" => doing[a] # None

KnownInv ==
    \A n \in Names : known[n] # None =>
        known[n] \in workflows /\ workflowName(of[known[n]]) = n

EInv ==
    /\ WellShaped
    /\ \A a \in Attempts : PathInv(a) /\ TargetInv(a)
    /\ KnownInv

LEMMA Constants ==
    /\ Nonced \subseteq Works /\ None \notin Attempts /\ None \notin Works
BY ExecutionAssumption

-----------------------------------------------------------------------------
(* What a step of one attempt leaves alone *)

Others(a) ==
    \A b \in Attempts \ {a} :
        /\ pc'[b] = pc[b] /\ of'[b] = of[b] /\ path'[b] = path[b]
        /\ workflow'[b] = workflow[b] /\ execution'[b] = execution[b]
        /\ verdict'[b] = verdict[b] /\ doing'[b] = doing[b] /\ tx'[b] = tx[b]
        /\ b \in workflows' => b \in workflows

Kept ==
    /\ \A b \in Attempts : of[b] # None => of'[b] = of[b]
    /\ \A b \in Attempts : doing[b] # None => doing'[b] = doing[b]
    /\ workflows \subseteq workflows'

LEMMA OneAttemptMoves ==
    ASSUME EInv, WellShaped', NEW a \in Attempts, Others(a), Kept,
           PathInv(a)', TargetInv(a)', KnownInv'
    PROVE  EInv'
<1>1. ASSUME NEW b \in Attempts, b # a
      PROVE  PathInv(b)' /\ TargetInv(b)'
  <2>1. PathInv(b) /\ TargetInv(b) /\ \A c \in Attempts : TargetInv(c)
    BY DEF EInv
  <2>2. /\ pc'[b] = pc[b] /\ of'[b] = of[b] /\ path'[b] = path[b]
        /\ workflow'[b] = workflow[b] /\ execution'[b] = execution[b]
        /\ verdict'[b] = verdict[b] /\ doing'[b] = doing[b] /\ tx'[b] = tx[b]
        /\ b \in workflows' => b \in workflows
    BY <1>1 DEF Others
  <2>3. PathInv(b)'
    BY <2>1, <2>2 DEF PathInv
  <2>4. workflow[b] # None =>
          /\ workflow[b] \in workflows' /\ of'[workflow[b]] = of[workflow[b]]
    <3>1. workflow[b] # None => workflow[b] \in workflows /\ workflow[b] \in Attempts
      BY <2>1 DEF TargetInv, EInv, WellShaped
    <3> QED
      BY <2>1, <3>1 DEF TargetInv, Kept
  <2>5. execution[b] # None => doing'[execution[b]] = doing[execution[b]]
    BY <2>1 DEF TargetInv, Kept, EInv, WellShaped
  <2> QED
    BY <2>1, <2>2, <2>3, <2>4, <2>5 DEF TargetInv
<1> QED
  BY <1>1 DEF EInv

LEMMA SameKnown ==
    ASSUME EInv, Kept, UNCHANGED known
    PROVE  KnownInv'
<1>1. ASSUME NEW n \in Names, known[n] # None
      PROVE  known[n] \in workflows' /\ workflowName(of'[known[n]]) = n
  <2>1. known[n] \in workflows /\ workflowName(of[known[n]]) = n /\ known[n] \in Attempts
    BY <1>1 DEF EInv, KnownInv, WellShaped
  <2>2. of[known[n]] # None
    BY <2>1 DEF EInv, TargetInv
  <2> QED
    BY <2>1, <2>2 DEF Kept
<1> QED
  BY <1>1 DEF KnownInv, workflowName

\* What most steps leave alone.
Given == <<of, path, known, workflow, execution, workflows, doing, tx>>

LEMMA AnswersWell ==
    ASSUME EInv, NEW a \in Attempts, NEW v \in {"refused", "failed", "succeeded"},
           pc[a] # "new", Answer(a, v), UNCHANGED Given
    PROVE  EInv'
<1> USE DEF Given
<1>1. PathInv(a) /\ TargetInv(a) /\ WellShaped
  BY DEF EInv
<1>2. WellShaped'
  BY <1>1 DEF WellShaped, Answer, Goto, Labels
<1>3. Others(a) /\ Kept
  BY <1>1 DEF Others, Kept, Answer, Goto, WellShaped
<1>4. pc'[a] = "done" /\ verdict'[a] = v
  BY <1>1 DEF Answer, Goto, WellShaped
<1>5. PathInv(a)' /\ TargetInv(a)'
  BY <1>1, <1>4 DEF PathInv, TargetInv
<1> QED
  BY <1>2, <1>3, <1>5, OneAttemptMoves, SameKnown

LEMMA GoesOn ==
    ASSUME EInv, NEW a \in Attempts, NEW l \in {"create", "poll", "write", "lookup", "verify"},
           pc[a] \notin {"new", "done"}, Goto(a, l), UNCHANGED <<Given, verdict>>,
           l = "create" => path[a] = "workflow" /\ doing[a] = None,
           l = "poll" => path[a] = "workflow",
           l \in {"write", "lookup"} => path[a] = "keeperHub",
           l \in {"poll", "lookup", "verify"} => execution[a] # None
    PROVE  EInv'
<1> USE DEF Given
<1>1. PathInv(a) /\ TargetInv(a) /\ WellShaped
  BY DEF EInv
<1>2. WellShaped'
  BY <1>1 DEF WellShaped, Goto, Labels
<1>3. Others(a) /\ Kept
  BY <1>1 DEF Others, Kept, Goto, WellShaped
<1>4. pc'[a] = l
  BY <1>1 DEF Goto, WellShaped
<1>5. PathInv(a)' /\ TargetInv(a)'
  BY <1>1, <1>4 DEF PathInv, TargetInv
<1> QED
  BY <1>2, <1>3, <1>5, OneAttemptMoves, SameKnown

LEMMA OnceMoreKeeps ==
    ASSUME EInv, NEW a \in Attempts, NEW l \in {"poll", "lookup"}, pc[a] = l,
           OnceMore(a, l), UNCHANGED Given
    PROVE  EInv'
<1>1. PathInv(a) /\ TargetInv(a)
  BY DEF EInv
<1>2. CASE Goto(a, l) /\ UNCHANGED verdict
  BY <1>1, <1>2, GoesOn DEF PathInv
<1>3. CASE Answer(a, "refused")
  BY <1>3, AnswersWell
<1> QED
  BY <1>2, <1>3 DEF OnceMore

-----------------------------------------------------------------------------
(* The steps *)

LEMMA InitEInv == Init => EInv
<1>1. Init => WellShaped
  BY DEF Init, WellShaped, Labels
<1>2. ASSUME Init, NEW a \in Attempts
      PROVE  PathInv(a) /\ TargetInv(a)
  BY <1>2, Constants DEF Init, PathInv, TargetInv
<1> QED
  BY <1>1, <1>2 DEF Init, EInv, KnownInv

LEMMA BeginKeeps ==
    ASSUME EInv, NEW a \in Attempts, NEW w \in Works, Begin(a, w)
    PROVE  EInv'
<1>1. PathInv(a) /\ TargetInv(a) /\ WellShaped /\ pc[a] = "new" /\ of[a] = None
  BY DEF EInv, Begin, At, PathInv
<1>2. workflowName(w) \in Names /\ workflowName(w) = TargetOf[w]
  BY DEF Names, workflowName
<1>3. route(w) \in {"none", "workflow", "keeperHub", "signer"}
      /\ (route(w) \in {"workflow", "keeperHub"} => w \notin Nonced)
  BY DEF route
<1>4. /\ of' = [of EXCEPT ![a] = w] /\ path' = [path EXCEPT ![a] = route(w)]
      /\ UNCHANGED <<known, execution, workflows, doing, tx>>
      /\ workflow' = [workflow EXCEPT ![a] = IF route(w) = "workflow" THEN known[workflowName(w)]
                                             ELSE None]
  BY DEF Begin, service
<1>5. \/ route(w) = "none" /\ pc' = [pc EXCEPT ![a] = "done"]
         /\ verdict' = [verdict EXCEPT ![a] = "refused"]
      \/ route(w) # "none" /\ pc' = [pc EXCEPT ![a] = First(w)] /\ UNCHANGED verdict
  BY DEF Begin, Answer, Goto
<1>6. route(w) # "none" =>
        \/ route(w) = "workflow" /\ First(w) \in {"list", "execute"}
           /\ (First(w) = "execute" => known[workflowName(w)] # None)
        \/ route(w) = "keeperHub" /\ First(w) = "simulate"
        \/ route(w) = "signer" /\ First(w) = "sign"
  BY <1>3 DEF First
<1> HIDE DEF workflowName
<1>7. WellShaped'
  BY <1>1, <1>2, <1>3, <1>4, <1>5, <1>6 DEF WellShaped, Labels
<1>8. Others(a) /\ Kept
  BY <1>1, <1>4, <1>5 DEF Others, Kept, WellShaped
<1>9. PathInv(a)'
  BY <1>1, <1>3, <1>4, <1>5, <1>6, Constants DEF PathInv, TargetInv, WellShaped
<1>10. TargetInv(a)'
  <2>1. known[workflowName(w)] # None =>
          /\ known[workflowName(w)] \in workflows /\ known[workflowName(w)] # a
          /\ TargetOf[of[known[workflowName(w)]]] = TargetOf[w]
    BY <1>1, <1>2 DEF EInv, KnownInv, TargetInv, workflowName
  <2>2. /\ workflow'[a] = None \/ workflow'[a] = known[workflowName(w)]
        /\ of'[a] = w /\ \A b \in Attempts \ {a} : of'[b] = of[b]
    BY <1>1, <1>4 DEF WellShaped
  <2>3. known[workflowName(w)] \in Attempts \union {None}
    BY <1>1, <1>2 DEF WellShaped
  <2> QED
    BY <1>1, <1>4, <2>1, <2>2, <2>3, Constants DEF TargetInv, WellShaped
<1> QED
  BY <1>4, <1>7, <1>8, <1>9, <1>10, OneAttemptMoves, SameKnown

\* Names carry targets, so what a name finds has the target that was asked for.
LEMMA KnowsTheTarget ==
    ASSUME EInv, NEW a \in Attempts, NEW p \in Attempts, of[a] # None,
           pc[a] \in {"list", "create"}, Goto(a, "execute"), Knows(a, p),
           p \in workflows', workflows' \subseteq workflows \union {a}, workflows \subseteq workflows',
           TargetOf[of[p]] = TargetOf[of[a]], path[a] = "workflow",
           UNCHANGED <<of, path, execution, verdict, doing, tx>>
    PROVE  EInv'
<1>1. PathInv(a) /\ TargetInv(a) /\ WellShaped
  BY DEF EInv
<1>2. of[a] \in Works /\ workflowName(of[a]) \in Names /\ workflowName(of[a]) = TargetOf[of[a]]
  BY <1>1 DEF WellShaped, Names, workflowName
<1>3. known' = [known EXCEPT ![workflowName(of[a])] = p] /\ workflow' = [workflow EXCEPT ![a] = p]
  BY DEF Knows
<1>4. WellShaped'
  BY <1>1, <1>2, <1>3 DEF WellShaped, Goto, Labels
<1>5. Others(a) /\ Kept
  BY <1>1, <1>3 DEF Others, Kept, Goto, WellShaped
<1>6. pc'[a] = "execute" /\ workflow'[a] = p
  BY <1>1, <1>3 DEF Goto, WellShaped
<1>7. PathInv(a)' /\ TargetInv(a)'
  BY <1>1, <1>6, Constants DEF PathInv, TargetInv
<1>8. KnownInv'
  <2>1. ASSUME NEW n \in Names, n # workflowName(of[a]), known'[n] # None
        PROVE  known'[n] \in workflows' /\ workflowName(of[known'[n]]) = n
    <3>1. known'[n] = known[n]
      BY <1>1, <1>3, <2>1 DEF WellShaped
    <3> QED
      BY <2>1, <3>1 DEF EInv, KnownInv
  <2>2. known'[workflowName(of[a])] = p
    BY <1>1, <1>2, <1>3 DEF WellShaped
  <2>3. workflowName(of[p]) = workflowName(of[a])
    BY DEF workflowName
  <2> QED
    BY <2>1, <2>2, <2>3 DEF KnownInv, workflowName
<1> QED
  BY <1>4, <1>5, <1>7, <1>8, OneAttemptMoves

LEMMA WorkflowKeeps ==
    ASSUME EInv, NEW a \in Attempts, List(a) \/ Create(a) \/ Execute(a) \/ Poll(a)
    PROVE  EInv'
<1> USE DEF Keep, service, Given
<1>0. PathInv(a) /\ TargetInv(a) /\ WellShaped
  BY DEF EInv
<1>1. CASE List(a)
  <2>1. pc[a] = "list" /\ of[a] # None /\ path[a] = "workflow" /\ doing[a] = None
    BY <1>0, <1>1 DEF List, At, PathInv
  <2>2. ASSUME Goto(a, "execute"), NEW p \in Named(workflowName(of[a])), Knows(a, p)
        PROVE  EInv'
    <3>1. p \in workflows /\ p \in Attempts /\ TargetOf[of[p]] = TargetOf[of[a]]
      BY <1>0, <2>2 DEF Named, workflowName, WellShaped
    <3> QED
      BY <1>1, <2>1, <2>2, <3>1, KnowsTheTarget DEF List
  <2>3. CASE Goto(a, "create") /\ UNCHANGED <<known, workflow>>
    BY <1>1, <2>1, <2>3, GoesOn DEF List
  <2> QED
    BY <1>1, <2>2, <2>3 DEF List
<1>2. CASE Create(a)
  <2>1. pc[a] = "create" /\ of[a] # None /\ path[a] = "workflow" /\ doing[a] = None
    BY <1>0, <1>2 DEF Create, At, PathInv
  <2>2. CASE Goto(a, "execute") /\ Knows(a, a) /\ UNCHANGED verdict
    BY <1>0, <1>2, <2>1, <2>2, KnowsTheTarget DEF Create
  <2>3. CASE Answer(a, "refused") /\ UNCHANGED <<known, workflow>>
    <3>1. WellShaped'
      BY <1>0, <1>2, <2>3 DEF Create, WellShaped, Answer, Goto, Labels
    <3>2. Others(a) /\ Kept
      BY <1>0, <1>2, <2>3 DEF Create, Others, Kept, Answer, Goto, WellShaped
    <3>3. pc'[a] = "done" /\ verdict'[a] = "refused"
      BY <1>0, <2>3 DEF Answer, Goto, WellShaped
    <3>4. PathInv(a)' /\ TargetInv(a)'
      BY <1>0, <1>2, <2>1, <2>3, <3>3 DEF Create, PathInv, TargetInv
    <3> QED
      BY <2>3, <3>1, <3>2, <3>4, OneAttemptMoves, SameKnown
  <2> QED
    BY <1>2, <2>2, <2>3 DEF Create
<1>3. CASE Execute(a)
  <2>1. /\ pc[a] = "execute" /\ of[a] # None /\ path[a] = "workflow" /\ doing[a] = None
        /\ workflow[a] \in workflows /\ workflow[a] \in Attempts
        /\ TargetOf[of[workflow[a]]] = TargetOf[of[a]]
    BY <1>0, <1>3 DEF Execute, At, PathInv, TargetInv, WellShaped
  <2>2. of[workflow[a]] # None /\ of[workflow[a]] \in Works /\ of[workflow[a]] \notin Nonced
    <3>1. PathInv(workflow[a]) /\ TargetInv(workflow[a])
      BY <2>1 DEF EInv
    <3> QED
      BY <1>0, <2>1, <3>1 DEF PathInv, TargetInv, WellShaped
  <2>3. /\ doing' = [doing EXCEPT ![a] = of[workflow[a]]]
        /\ UNCHANGED <<of, path, known, workflow, workflows, tx>>
        /\ \/ pc' = [pc EXCEPT ![a] = "poll"] /\ execution' = [execution EXCEPT ![a] = a]
              /\ UNCHANGED verdict
           \/ pc' = [pc EXCEPT ![a] = "done"] /\ UNCHANGED execution
              /\ verdict' = [verdict EXCEPT ![a] = "refused"]
    BY <1>3 DEF Execute, Answer, Goto
  <2>4. WellShaped'
    BY <1>0, <2>2, <2>3 DEF WellShaped, Labels
  <2>5. Others(a) /\ Kept
    BY <1>0, <2>1, <2>3 DEF Others, Kept, WellShaped
  <2>6. PathInv(a)'
    BY <1>0, <2>1, <2>3, Constants DEF PathInv, WellShaped
  <2>7. TargetInv(a)'
    <3>1. doing'[a] = of[workflow[a]]
      BY <1>0, <2>3 DEF WellShaped
    <3>2. execution'[a] # None => execution'[a] = a \/ execution'[a] = execution[a]
      BY <1>0, <2>3 DEF WellShaped
    <3>3. execution[a] # None => execution[a] # a
      BY <1>0, <2>1 DEF TargetInv
    <3>4. execution[a] # None => doing'[execution[a]] = doing[execution[a]]
      BY <1>0, <2>5 DEF TargetInv, Kept, WellShaped
    <3> QED
      BY <1>0, <2>1, <2>2, <2>3, <3>1, <3>2, <3>3, <3>4 DEF TargetInv
  <2> QED
    BY <2>3, <2>4, <2>5, <2>6, <2>7, OneAttemptMoves, SameKnown
<1>4. CASE Poll(a)
  <2>1. pc[a] = "poll" /\ execution[a] # None
    BY <1>0, <1>4 DEF Poll, At, PathInv
  <2>2. CASE Goto(a, "verify") /\ UNCHANGED verdict
    BY <1>4, <2>1, <2>2, GoesOn DEF Poll
  <2>3. CASE Answer(a, "refused")
    BY <1>4, <2>1, <2>3, AnswersWell DEF Poll
  <2>4. CASE OnceMore(a, "poll")
    BY <1>4, <2>1, <2>4, OnceMoreKeeps DEF Poll
  <2> QED
    BY <1>4, <2>2, <2>3, <2>4 DEF Poll
<1> QED
  BY <1>1, <1>2, <1>3, <1>4

\* The request that answers a direct attempt is of the same work.
LEMMA ServedIsTheSameWork ==
    ASSUME EInv, NEW a \in Attempts, of[a] # None, path[a] = "keeperHub"
    PROVE  /\ Served(a) \in Attempts
           /\ doing[Served(a)] = None => Served(a) = a
           /\ Served(a) # a => doing[Served(a)] # None
           /\ of[Served(a)] = of[a] /\ path[Served(a)] = "keeperHub"
BY DEF Served, idempotencyKey

LEMMA DirectKeeps ==
    ASSUME EInv, NEW a \in Attempts,
           Simulate(a) \/ Write(a) \/ Lookup(a) \/ Sign(a) \/ Verify(a)
    PROVE  EInv'
<1> USE DEF Keep, service, Given
<1>0. PathInv(a) /\ TargetInv(a) /\ WellShaped
  BY DEF EInv
<1>1. CASE Simulate(a)
  <2>1. pc[a] = "simulate" /\ path[a] = "keeperHub"
    BY <1>0, <1>1 DEF Simulate, At, PathInv
  <2>2. CASE Goto(a, "write") /\ UNCHANGED verdict
    BY <1>1, <2>1, <2>2, GoesOn DEF Simulate
  <2>3. CASE Answer(a, "refused")
    BY <1>1, <2>1, <2>3, AnswersWell DEF Simulate
  <2> QED
    BY <1>1, <2>2, <2>3 DEF Simulate
<1>2. CASE Write(a)
  <2> DEFINE e == Served(a)
  <2>1. pc[a] = "write" /\ path[a] = "keeperHub" /\ of[a] # None /\ of[a] \in Works
        /\ of[a] \notin Nonced
    BY <1>0, <1>2 DEF Write, At, PathInv, WellShaped
  <2>2. /\ e \in Attempts /\ of[e] = of[a] /\ path[e] = "keeperHub"
        /\ doing[e] = None => e = a
        /\ e # a => doing[e] # None
    BY <2>1, ServedIsTheSameWork
  <2>3. /\ doing' = [doing EXCEPT ![e] = IF doing[e] = None THEN of[a] ELSE doing[e]]
        /\ UNCHANGED <<of, path, known, workflow, workflows, tx>>
        /\ \/ /\ execution' = [execution EXCEPT ![a] = e] /\ UNCHANGED verdict
              /\ \E l \in {"lookup", "verify"} : pc' = [pc EXCEPT ![a] = l]
           \/ /\ pc' = [pc EXCEPT ![a] = "done"] /\ UNCHANGED execution
              /\ verdict' = [verdict EXCEPT ![a] = "refused"]
    BY <1>2 DEF Write, Answer, Goto
  <2> HIDE DEF e
  <2>4. WellShaped'
    BY <1>0, <2>1, <2>2, <2>3 DEF WellShaped, Labels
  <2>5. Others(a) /\ Kept
    BY <1>0, <2>2, <2>3 DEF Others, Kept, WellShaped
  <2>6. PathInv(a)'
    BY <1>0, <2>1, <2>2, <2>3, Constants DEF PathInv, WellShaped
  <2>7. doing'[e] # None /\ TargetOf[doing'[e]] = TargetOf[of[a]]
    <3>1. TargetInv(e)
      BY <2>2 DEF EInv
    <3> QED
      BY <1>0, <2>1, <2>2, <2>3, <3>1, Constants DEF TargetInv, WellShaped
  <2>8. TargetInv(a)'
    <3>1. execution[a] # None => doing'[execution[a]] = doing[execution[a]]
      BY <1>0, <2>5 DEF TargetInv, Kept, WellShaped
    <3>2. doing'[a] = doing[a] \/ doing'[a] = of[a]
      BY <1>0, <2>2, <2>3 DEF WellShaped
    <3>3. execution'[a] = e \/ execution'[a] = execution[a]
      BY <1>0, <2>3 DEF WellShaped
    <3> QED
      BY <1>0, <2>1, <2>3, <2>5, <2>7, <3>1, <3>2, <3>3 DEF TargetInv, Kept
  <2> QED
    BY <2>3, <2>4, <2>5, <2>6, <2>8, OneAttemptMoves, SameKnown
<1>3. CASE Lookup(a)
  <2>1. pc[a] = "lookup" /\ execution[a] # None
    BY <1>0, <1>3 DEF Lookup, At, PathInv
  <2>2. CASE Goto(a, "verify") /\ UNCHANGED verdict
    BY <1>3, <2>1, <2>2, GoesOn DEF Lookup
  <2>3. CASE OnceMore(a, "lookup")
    BY <1>3, <2>1, <2>3, OnceMoreKeeps DEF Lookup
  <2> QED
    BY <1>3, <2>2, <2>3 DEF Lookup
<1>4. CASE Sign(a)
  <2>1. pc[a] = "sign" /\ path[a] = "signer" /\ of[a] # None /\ of[a] \in Works
        /\ doing[a] = None
    BY <1>0, <1>4 DEF Sign, At, PathInv, WellShaped
  <2>2. /\ doing' = [doing EXCEPT ![a] = of[a]] /\ tx' = [tx EXCEPT ![a] = "sent"]
        /\ UNCHANGED <<of, path, known, workflow, workflows>>
        /\ \/ pc' = [pc EXCEPT ![a] = "verify"] /\ execution' = [execution EXCEPT ![a] = a]
              /\ UNCHANGED verdict
           \/ pc' = [pc EXCEPT ![a] = "done"] /\ UNCHANGED execution
              /\ verdict' = [verdict EXCEPT ![a] = "refused"]
    BY <1>4 DEF Sign, Answer, Goto
  <2>3. WellShaped'
    BY <1>0, <2>1, <2>2 DEF WellShaped, Labels
  <2>4. Others(a) /\ Kept
    BY <1>0, <2>1, <2>2 DEF Others, Kept, WellShaped
  <2>5. PathInv(a)'
    BY <1>0, <2>1, <2>2, Constants DEF PathInv, WellShaped
  <2>6. TargetInv(a)'
    <3>1. doing'[a] = of[a] /\ (execution'[a] = a \/ execution'[a] = execution[a])
      BY <1>0, <2>2 DEF WellShaped
    <3>2. execution[a] # None => doing'[execution[a]] = doing[execution[a]]
      BY <1>0, <2>4 DEF TargetInv, Kept, WellShaped
    <3> QED
      BY <1>0, <2>1, <2>2, <3>1, <3>2, Constants DEF TargetInv
  <2> QED
    BY <2>2, <2>3, <2>4, <2>5, <2>6, OneAttemptMoves, SameKnown
<1>5. CASE Verify(a)
  <2>1. pc[a] = "verify"
    BY <1>5 DEF Verify, At
  <2>2. PICK v \in {"succeeded", "failed"} : Answer(a, v)
    BY <1>5 DEF Verify
  <2> QED
    BY <1>5, <2>1, <2>2, AnswersWell DEF Verify
<1> QED
  BY <1>1, <1>2, <1>3, <1>4, <1>5

\* The chain and the service move what was accepted, and the process stops.
LEMMA TheWorldKeeps ==
    ASSUME EInv, NEW e \in Attempts, Run(e) \/ FailLate(e) \/ Mine(e)
    PROVE  EInv'
<1>1. /\ UNCHANGED <<pc, of, path, known, workflow, execution, verdict, workflows, doing>>
      /\ \/ UNCHANGED tx
         \/ doing[e] # None /\ \E f \in {"sent", "landed", "reverted"} : tx' = [tx EXCEPT ![e] = f]
  BY DEF Run, FailLate, Mine, calls, EInv, TargetInv
<1>2. WellShaped'
  BY <1>1 DEF EInv, WellShaped
<1>3. ASSUME NEW a \in Attempts
      PROVE  PathInv(a)' /\ TargetInv(a)'
  <2>1. PathInv(a) /\ TargetInv(a) /\ WellShaped
    BY DEF EInv
  <2>2. tx'[a] # "none" => doing[a] # None
    BY <1>1, <2>1 DEF TargetInv, WellShaped
  <2> QED
    BY <1>1, <2>1, <2>2 DEF PathInv, TargetInv
<1> QED
  BY <1>1, <1>2, <1>3 DEF EInv, KnownInv

LEMMA RestartKeeps ==
    ASSUME EInv, Restart
    PROVE  EInv'
<1>1. /\ UNCHANGED <<of, path, workflow, execution, workflows, doing, tx>>
      /\ pc' = [a \in Attempts |-> IF pc[a] = "new" THEN "new" ELSE "done"]
      /\ verdict' = [a \in Attempts |-> IF pc[a] \in {"new", "done"} THEN verdict[a] ELSE "lost"]
      /\ known' = [n \in Names |-> None]
  BY DEF Restart, Keep, service
<1>2. WellShaped'
  BY <1>1 DEF EInv, WellShaped, Labels
<1>3. ASSUME NEW a \in Attempts
      PROVE  PathInv(a)' /\ TargetInv(a)'
  BY <1>1, <1>3 DEF EInv, PathInv, TargetInv
<1> QED
  BY <1>1, <1>2, <1>3 DEF EInv, KnownInv

LEMMA NextKeepsEInv ==
    ASSUME EInv, [Next]_vars
    PROVE  EInv'
<1>1. CASE ExecutionNext
  <2>1. ASSUME NEW a \in Attempts, Throws(a)
        PROVE  EInv'
    BY <2>1, AnswersWell DEF Throws, Keep, service, Given
  <2> QED
    BY <1>1, <2>1, BeginKeeps, WorkflowKeeps, DirectKeeps, TheWorldKeeps, RestartKeeps
       DEF ExecutionNext, Step
<1>2. CASE UNCHANGED evars
  BY <1>2 DEF evars, calls, service, EInv, WellShaped, PathInv, TargetInv, KnownInv
<1> QED
  BY <1>1, <1>2 DEF Next, vars

-----------------------------------------------------------------------------
(* What each step is to Submission *)

Carried == [a \in Attempts |-> IF tx[a] = "none" THEN None ELSE doing[a]]
Sender == [a \in Attempts |-> IF tx[a] = "none" THEN "nobody"
                              ELSE IF path[a] = "signer" THEN "agent" ELSE "relayer"]

\* Nothing is sent, and nobody is told anything.
LEMMA Unseen ==
    ASSUME EInv, EInv', UNCHANGED <<of, path, tx, verdict>>,
           \A a \in Attempts : doing[a] # None => doing'[a] = doing[a]
    PROVE  UNCHANGED Promise!vars
<1>1. \A a \in Attempts : tx[a] # "none" => doing'[a] = doing[a]
  BY DEF EInv, TargetInv
<1>2. Carried' = Carried /\ Sender' = Sender
  BY <1>1 DEF Carried, Sender
<1> QED
  BY <1>2 DEF Promise!vars, Carried, Sender

\* An attempt is answered.
LEMMA Answering ==
    ASSUME EInv, EInv', NEW a \in Attempts, NEW v \in {"refused", "failed", "succeeded"},
           of[a] # None, pc[a] # "done", Answer(a, v), UNCHANGED <<of, path, tx>>,
           \A b \in Attempts : doing[b] # None => doing'[b] = doing[b],
           v = "succeeded" => /\ execution[a] # None
                              /\ tx[execution[a]] = "landed"
    PROVE  Promise!Next
<1>1. verdict[a] = "none" /\ verdict' = [verdict EXCEPT ![a] = v]
  BY DEF EInv, PathInv, WellShaped, Answer
<1>2. \A b \in Attempts : tx[b] # "none" => doing'[b] = doing[b]
  BY DEF EInv, TargetInv
<1>3. Carried' = Carried /\ Sender' = Sender
  BY <1>2 DEF Carried, Sender
<1>4. v = "succeeded" => Promise!Reached(of[a])
  <2>1. SUFFICES ASSUME v = "succeeded" PROVE Promise!Reached(of[a])
    OBVIOUS
  <2> DEFINE e == execution[a]
  <2>2. e \in Attempts /\ tx[e] = "landed" /\ TargetOf[doing[e]] = TargetOf[of[a]]
    BY <2>1 DEF EInv, WellShaped, TargetInv
  <2> HIDE DEF e
  <2> QED
    BY <2>2 DEF Promise!Reached
<1>5. Promise!Answer(a, v)
  BY <1>1, <1>3, <1>4 DEF Promise!Answer, Carried, Sender
<1> QED
  BY <1>5 DEF Promise!Next

\* A transaction of an attempt's own is sent.
LEMMA Sending ==
    ASSUME EInv, EInv', NEW a \in Attempts, tx[a] = "none", tx' = [tx EXCEPT ![a] = "sent"],
           of[a] # None, UNCHANGED <<of, path>>,
           \A b \in Attempts : doing[b] # None => doing'[b] = doing[b],
           \/ UNCHANGED verdict
           \/ /\ verdict[a] = "none" /\ path[a] = "signer"
              /\ verdict' = [verdict EXCEPT ![a] = "refused"]
    PROVE  Promise!Next
<1>1. WellShaped /\ WellShaped' /\ TargetInv(a)' /\ tx'[a] = "sent" /\ doing'[a] # None
  BY DEF EInv, WellShaped, TargetInv
<1>2. PICK w \in Works : w = doing'[a]
  BY <1>1 DEF WellShaped
<1> DEFINE s == IF path[a] = "signer" THEN "agent" ELSE "relayer"
<1>3. TargetOf[w] = TargetOf[of[a]] /\ (w \in Nonced => s = "agent")
  BY <1>1, <1>2 DEF TargetInv
<1>4. \A b \in Attempts : tx[b] # "none" => doing'[b] = doing[b]
  BY DEF EInv, TargetInv
<1>5. Carried' = [Carried EXCEPT ![a] = w]
  <2>1. Carried' = [b \in Attempts |-> IF b = a THEN w ELSE Carried[b]]
    BY <1>1, <1>2, <1>4 DEF Carried, WellShaped
  <2> QED
    BY <2>1 DEF Carried
<1>6. Sender' = [Sender EXCEPT ![a] = s]
  <2>1. Sender' = [b \in Attempts |-> IF b = a THEN s ELSE Sender[b]]
    BY <1>1 DEF Sender, WellShaped
  <2> QED
    BY <2>1 DEF Sender
<1> HIDE DEF s
<1>7. s \in {"agent", "relayer"} /\ (path[a] = "signer" => s = "agent")
  BY DEF s
<1>8. CASE UNCHANGED verdict
  <2>1. Promise!Send(a, w)
    BY <1>3, <1>5, <1>6, <1>7, <1>8 DEF Promise!Send, Carried, Sender
  <2> QED
    BY <2>1 DEF Promise!Next
<1>9. CASE /\ verdict[a] = "none" /\ path[a] = "signer"
           /\ verdict' = [verdict EXCEPT ![a] = "refused"]
  <2>1. Promise!SendAndRefuse(a, w)
    BY <1>3, <1>5, <1>6, <1>7, <1>9 DEF Promise!SendAndRefuse, Carried, Sender
  <2> QED
    BY <2>1 DEF Promise!Next
<1> QED
  BY <1>8, <1>9

LEMMA BeginAsks ==
    ASSUME EInv, NEW a \in Attempts, NEW w \in Works, Begin(a, w)
    PROVE  Promise!Next
<1>1. WellShaped /\ of[a] = None /\ verdict[a] = "none" /\ tx[a] = "none"
  BY DEF EInv, Begin, At, PathInv, TargetInv
<1>2. /\ of' = [of EXCEPT ![a] = w] /\ path' = [path EXCEPT ![a] = route(w)]
      /\ UNCHANGED <<doing, tx>>
      /\ \E v \in {"none", "refused"} : verdict' = [verdict EXCEPT ![a] = v]
  <2>1. UNCHANGED verdict => verdict' = [verdict EXCEPT ![a] = "none"]
    BY <1>1 DEF WellShaped
  <2> QED
    BY <2>1 DEF Begin, service, Answer
<1>3. Carried' = Carried
  BY <1>2 DEF Carried
<1>4. Sender' = Sender
  BY <1>1, <1>2 DEF Sender, WellShaped
<1>5. Promise!Ask(a, w)
  BY <1>1, <1>2, <1>3, <1>4 DEF Promise!Ask, Carried, Sender
<1> QED
  BY <1>5 DEF Promise!Next

LEMMA RestartCrashes ==
    ASSUME EInv, Restart
    PROVE  Promise!Next
<1>1. UNCHANGED <<of, path, tx, doing>>
  BY DEF Restart, Keep, service
<1>2. verdict' = [a \in Attempts |-> IF of[a] # None /\ verdict[a] = "none" THEN "lost"
                                     ELSE verdict[a]]
  <2>1. verdict' = [a \in Attempts |-> IF pc[a] \in {"new", "done"} THEN verdict[a] ELSE "lost"]
    BY DEF Restart
  <2>2. \A a \in Attempts : pc[a] \in {"new", "done"} <=> ~(of[a] # None /\ verdict[a] = "none")
    BY DEF EInv, PathInv
  <2> QED
    BY <2>1, <2>2
<1>3. Promise!Crash
  BY <1>1, <1>2 DEF Promise!Crash
<1> QED
  BY <1>3 DEF Promise!Next

LEMMA TheWorldMaps ==
    ASSUME EInv, EInv', NEW e \in Attempts, Run(e) \/ FailLate(e) \/ Mine(e)
    PROVE  Promise!Next \/ UNCHANGED Promise!vars
<1>1. UNCHANGED <<of, path, verdict, doing>>
  BY DEF Run, FailLate, Mine, calls
<1>2. CASE UNCHANGED tx
  BY <1>1, <1>2, Unseen
<1>3. CASE Run(e) /\ tx' = [tx EXCEPT ![e] = "sent"]
  <2>1. tx[e] = "none" /\ doing[e] # None /\ of[e] # None
    BY <1>3 DEF Run, EInv, TargetInv
  <2> QED
    BY <1>1, <1>3, <2>1, Sending
<1>4. CASE Mine(e)
  <2>1. tx[e] = "sent" /\ WellShaped
    BY <1>4 DEF Mine, EInv
  <2>2. Carried' = Carried /\ Sender' = Sender
    BY <1>1, <1>4, <2>1 DEF Mine, Carried, Sender, WellShaped
  <2>3. Promise!Mine(e)
    BY <1>1, <1>4, <2>1, <2>2 DEF Mine, Promise!Mine, Carried, Sender
  <2> QED
    BY <2>3 DEF Promise!Next
<1> QED
  BY <1>2, <1>3, <1>4 DEF Run, FailLate

\* The two steps in which a direct attempt is served and a key signs.
LEMMA ServedAndSigned ==
    ASSUME EInv, EInv', NEW a \in Attempts, Execute(a) \/ Write(a) \/ Sign(a)
    PROVE  Promise!Next \/ UNCHANGED Promise!vars
<1> USE DEF Keep, service
<1>0. WellShaped /\ PathInv(a) /\ TargetInv(a)
  BY DEF EInv
<1>1. CASE Execute(a) \/ Write(a)
  <2>1. /\ UNCHANGED <<of, path, tx>> /\ of[a] # None /\ pc[a] # "done"
    BY <1>0, <1>1 DEF Execute, Write, At, PathInv
  <2>2. \A b \in Attempts : doing[b] # None => doing'[b] = doing[b]
    <3>1. CASE Execute(a)
      BY <1>0, <3>1 DEF Execute, At, PathInv, WellShaped
    <3>2. CASE Write(a)
      <4>1. doing' = [doing EXCEPT ![Served(a)] = IF doing[Served(a)] = None THEN of[a]
                                                  ELSE doing[Served(a)]]
        BY <3>2 DEF Write
      <4> QED
        BY <1>0, <4>1 DEF WellShaped
    <3> QED
      BY <1>1, <3>1, <3>2
  <2>3. CASE UNCHANGED verdict
    BY <2>1, <2>2, <2>3, Unseen
  <2>4. CASE Answer(a, "refused")
    BY <2>1, <2>2, <2>4, Answering
  <2> QED
    BY <1>1, <2>3, <2>4 DEF Execute, Write
<1>2. CASE Sign(a)
  <2>1. pc[a] = "sign" /\ path[a] = "signer" /\ of[a] # None /\ doing[a] = None
        /\ tx[a] = "none" /\ verdict[a] = "none"
    BY <1>0, <1>2 DEF Sign, At, PathInv, TargetInv, WellShaped
  <2>2. /\ UNCHANGED <<of, path>> /\ tx' = [tx EXCEPT ![a] = "sent"]
        /\ \A b \in Attempts : doing[b] # None => doing'[b] = doing[b]
        /\ UNCHANGED verdict \/ verdict' = [verdict EXCEPT ![a] = "refused"]
    BY <1>0, <1>2, <2>1 DEF Sign, Answer, WellShaped
  <2> QED
    BY <2>1, <2>2, Sending
<1> QED
  BY <1>1, <1>2

LEMMA CallsMap ==
    ASSUME EInv, EInv', NEW a \in Attempts,
           \/ List(a) \/ Create(a) \/ Poll(a)
           \/ Simulate(a) \/ Lookup(a) \/ Verify(a) \/ Throws(a)
    PROVE  Promise!Next \/ UNCHANGED Promise!vars
<1> USE DEF Keep, service
<1>0. WellShaped /\ PathInv(a) /\ TargetInv(a)
  BY DEF EInv
<1>1. UNCHANGED <<of, path, doing, tx>> /\ of[a] # None /\ pc[a] # "done"
  BY <1>0 DEF List, Create, Poll, Simulate, Lookup, Verify, Throws, At, PathInv
<1>2. CASE UNCHANGED verdict
  BY <1>1, <1>2, Unseen
<1>3. CASE Answer(a, "refused")
  BY <1>1, <1>3, Answering
<1>4. CASE Verify(a)
  <2>1. execution[a] # None
    BY <1>0, <1>4 DEF Verify, At, PathInv
  <2>2. CASE Included(execution[a])
    BY <1>1, <1>4, <2>1, <2>2, Answering DEF Verify, Included
  <2>3. CASE ~Included(execution[a])
    BY <1>1, <1>4, <2>3, Answering DEF Verify
  <2> QED
    BY <2>2, <2>3
<1> QED
  BY <1>2, <1>3, <1>4 DEF List, Create, Poll, Simulate, Lookup, Throws, OnceMore

LEMMA StepsAreSubmissionSteps ==
    ASSUME EInv, [Next]_vars
    PROVE  [Promise!Next]_(Promise!vars)
<1>0. EInv'
  BY NextKeepsEInv
<1>1. CASE ExecutionNext
  <2>1. ASSUME NEW a \in Attempts, Step(a)
        PROVE  [Promise!Next]_(Promise!vars)
    BY <1>0, <2>1, CallsMap, ServedAndSigned DEF Step
  <2>2. ASSUME NEW a \in Attempts, Throws(a) \/ Run(a) \/ FailLate(a) \/ Mine(a)
        PROVE  [Promise!Next]_(Promise!vars)
    BY <1>0, <2>2, CallsMap, TheWorldMaps
  <2> QED
    BY <1>1, <2>1, <2>2, BeginAsks, RestartCrashes DEF ExecutionNext
<1>2. CASE UNCHANGED evars
  BY <1>0, <1>2, Unseen DEF evars, calls, service
<1> QED
  BY <1>1, <1>2 DEF Next, vars

-----------------------------------------------------------------------------
(* The theorem *)

\* Whatever path serves an attempt, whatever is lost on the way and wherever the
\* process stops, the executors implement Submission: at most one transaction of an
\* attempt's own, at the target it asked for, from the agent's key where the work needs
\* its nonce, one answer, and "succeeded" only of a target that was reached
\* (remediator.ts, submit and verify of every executor).
THEOREM ExecutorsImplementSubmission == Spec => ImplementsSubmission
<1>1. Init => Promise!Init
  BY DEF Init, Promise!Init
<1>2. Init => EInv
  BY InitEInv
<1>3. EInv /\ [Next]_vars => EInv'
  BY NextKeepsEInv
<1>4. EInv /\ [Next]_vars => [Promise!Next]_(Promise!vars)
  BY StepsAreSubmissionSteps
<1> QED
  BY <1>1, <1>2, <1>3, <1>4, PTL DEF Spec, ImplementsSubmission, Promise!Spec

-----------------------------------------------------------------------------
(* What is not done twice *)

\* An execution of the direct executor is its attempt's own work, and there is one
\* for a work.
PaysInv ==
    /\ \A e \in Attempts : path[e] = "keeperHub" /\ doing[e] # None => doing[e] = of[e]
    /\ \A e, f \in Attempts :
          /\ path[e] = "keeperHub" /\ doing[e] # None
          /\ path[f] = "keeperHub" /\ doing[f] # None
          => (of[e] = of[f] => e = f)

\* Whoever creates a workflow has looked at those there were when it began.
SharesInv ==
    /\ began \in [Attempts -> SUBSET Attempts]
    /\ \A a \in Attempts :
          /\ began[a] \subseteq workflows
          /\ pc[a] = "create" \/ a \in workflows =>
                \A q \in began[a] : TargetOf[of[a]] # TargetOf[of[q]]

OInv == EInv /\ PaysInv /\ SharesInv

\* The steps that pay nobody and create nothing.
LEMMA NothingNew ==
    ASSUME OInv, EInv', UNCHANGED <<of, path, began, doing, workflows>>,
           \A a \in Attempts : pc'[a] = "create" => pc[a] = "create"
    PROVE  OInv'
BY DEF OInv, PaysInv, SharesInv

LEMMA BeginIsNew ==
    ASSUME OInv, EInv', NEW a \in Attempts, NEW w \in Works, Begin(a, w)
    PROVE  OInv'
<1>1. /\ WellShaped /\ of[a] = None /\ doing[a] = None /\ pc[a] = "new" /\ a \notin workflows
  BY DEF OInv, EInv, Begin, At, PathInv, TargetInv
<1>2. /\ UNCHANGED <<doing, workflows>>
      /\ of' = [of EXCEPT ![a] = w] /\ path' = [path EXCEPT ![a] = route(w)]
      /\ began' = [began EXCEPT ![a] = workflows]
      /\ pc' = [pc EXCEPT ![a] = "done"] \/ pc' = [pc EXCEPT ![a] = First(w)]
      /\ First(w) # "create" \/ route(w) = "none"
      /\ route(w) = "none" => pc' = [pc EXCEPT ![a] = "done"]
  BY DEF Begin, service, Answer, Goto, First, route
<1>3. PaysInv'
  BY <1>1, <1>2 DEF OInv, PaysInv, WellShaped
<1>4. began' \in [Attempts -> SUBSET Attempts]
  BY <1>1, <1>2 DEF OInv, SharesInv, WellShaped
<1>5. ASSUME NEW b \in Attempts
      PROVE  /\ began'[b] \subseteq workflows
             /\ pc'[b] = "create" \/ b \in workflows =>
                    \A q \in began'[b] : TargetOf[of'[b]] # TargetOf[of'[q]]
  <2>1. CASE b = a
    BY <1>1, <1>2, <2>1 DEF OInv, SharesInv, WellShaped
  <2>2. CASE b # a
    <3>1. /\ began'[b] = began[b] /\ pc'[b] = pc[b] /\ of'[b] = of[b]
          /\ began[b] \subseteq workflows
      BY <1>1, <1>2, <2>2 DEF OInv, SharesInv, WellShaped
    <3>2. \A q \in began[b] : of'[q] = of[q]
      BY <1>1, <1>2, <3>1 DEF WellShaped
    <3> QED
      BY <3>1, <3>2 DEF OInv, SharesInv
  <2> QED
    BY <2>1, <2>2
<1>6. SharesInv'
  BY <1>2, <1>4, <1>5 DEF SharesInv
<1> QED
  BY <1>3, <1>6 DEF OInv

LEMMA WorkflowsAreShared ==
    ASSUME OInv, EInv', NEW a \in Attempts, List(a) \/ Create(a)
    PROVE  OInv'
<1> USE DEF Keep, service
<1>0. WellShaped /\ PathInv(a) /\ SharesInv
  BY DEF OInv, EInv
<1>1. UNCHANGED <<of, path, began, doing>> /\ PaysInv'
  BY DEF List, Create, OInv, PaysInv
<1>2. CASE List(a)
  <2>1. pc'[a] = "create" => \A q \in workflows : TargetOf[of[a]] # TargetOf[of[q]]
    <3>1. pc' = [pc EXCEPT ![a] = "execute"] \/ Named(workflowName(of[a])) = {}
      BY <1>2 DEF List, Goto
    <3> QED
      BY <1>0, <3>1 DEF WellShaped, Named, workflowName
  <2>2. UNCHANGED workflows /\ \A b \in Attempts \ {a} : pc'[b] = pc[b]
    BY <1>0, <1>2 DEF List, Goto, WellShaped
  <2>3. SharesInv'
    BY <1>0, <1>1, <2>1, <2>2 DEF SharesInv
  <2> QED
    BY <1>1, <2>3 DEF OInv
<1>3. CASE Create(a)
  <2>1. pc[a] = "create" /\ workflows' = workflows \union {a}
    BY <1>3 DEF Create, At
  <2>2. \A b \in Attempts : pc'[b] = "create" => pc[b] = "create"
    BY <1>0, <1>3 DEF Create, Goto, Answer, WellShaped
  <2>3. SharesInv'
    BY <1>0, <1>1, <2>1, <2>2 DEF SharesInv
  <2> QED
    BY <1>1, <2>3 DEF OInv
<1> QED
  BY <1>2, <1>3

LEMMA PaymentsAreReplayed ==
    ASSUME OInv, EInv', NEW a \in Attempts, Execute(a) \/ Write(a) \/ Sign(a)
    PROVE  OInv'
<1> USE DEF Keep, service
<1>0. WellShaped /\ PathInv(a) /\ TargetInv(a) /\ PaysInv
  BY DEF OInv, EInv
<1>1. /\ UNCHANGED <<of, path, began, workflows>>
      /\ \A b \in Attempts : pc'[b] = "create" => pc[b] = "create"
  BY <1>0 DEF Execute, Write, Sign, Answer, Goto, WellShaped
<1>2. SharesInv'
  BY <1>1 DEF OInv, SharesInv
<1>3. CASE Execute(a) \/ Sign(a)
  <2>1. path[a] # "keeperHub" /\ \A b \in Attempts \ {a} : doing'[b] = doing[b]
    BY <1>0, <1>3 DEF Execute, Sign, At, PathInv, WellShaped
  <2>2. PaysInv'
    BY <1>0, <1>1, <2>1 DEF PaysInv
  <2> QED
    BY <1>2, <2>2 DEF OInv
<1>4. CASE Write(a)
  <2> DEFINE same == {f \in Attempts : doing[f] # None /\ path[f] = "keeperHub" /\ of[f] = of[a]}
  <2>1. Served(a) = IF same = {} THEN a ELSE CHOOSE f \in same : TRUE
    BY DEF Served, idempotencyKey
  <2>2. doing' = [doing EXCEPT ![Served(a)] = IF doing[Served(a)] = None THEN of[a]
                                              ELSE doing[Served(a)]]
    BY <1>4 DEF Write
  <2>3. CASE same # {}
    <3>1. Served(a) \in same
      BY <2>1, <2>3
    <3>2. doing' = doing
      BY <1>0, <2>2, <3>1 DEF WellShaped
    <3> QED
      BY <1>0, <1>1, <1>2, <3>2 DEF OInv, PaysInv
  <2>4. CASE same = {}
    <3>1. \A f \in Attempts : doing[f] # None /\ path[f] = "keeperHub" => of[f] # of[a]
      BY <2>4
    <3>2. path[a] = "keeperHub" /\ doing[a] = None
      BY <1>0, <1>4, <3>1 DEF Write, At, PathInv
    <3>3. doing'[a] = of[a] /\ \A b \in Attempts \ {a} : doing'[b] = doing[b]
      BY <1>0, <2>1, <2>2, <2>4, <3>2 DEF WellShaped
    <3>4. PaysInv'
      BY <1>0, <1>1, <3>1, <3>2, <3>3 DEF PaysInv
    <3> QED
      BY <1>2, <3>4 DEF OInv
  <2> QED
    BY <2>3, <2>4
<1> QED
  BY <1>3, <1>4

LEMMA NextKeepsOInv ==
    ASSUME OInv, [Next]_vars
    PROVE  OInv'
<1>0. EInv' /\ WellShaped
  BY NextKeepsEInv DEF OInv, EInv
<1>1. ASSUME NEW a \in Attempts,
             \/ Poll(a) \/ Simulate(a) \/ Lookup(a) \/ Verify(a) \/ Throws(a)
             \/ Run(a) \/ FailLate(a) \/ Mine(a)
      PROVE  OInv'
  <2>1. /\ UNCHANGED <<of, path, began, doing, workflows>>
        /\ \A b \in Attempts : pc'[b] = "create" => pc[b] = "create"
    BY <1>0, <1>1 DEF Poll, Simulate, Lookup, Verify, Throws, Run, FailLate, Mine, calls, Keep,
                      service, OnceMore, Answer, Goto, WellShaped
  <2> QED
    BY <1>0, <2>1, NothingNew
<1>2. CASE Restart
  BY <1>0, <1>2, NothingNew DEF Restart, Keep, service
<1>3. CASE UNCHANGED evars
  BY <1>0, <1>3, NothingNew DEF evars, calls, service
<1> QED
  BY <1>0, <1>1, <1>2, <1>3, BeginIsNew, WorkflowsAreShared, PaymentsAreReplayed
     DEF Next, ExecutionNext, Step, vars

\* The direct executor pays once for a work, however often it is asked and however many
\* answers were lost (keeperhub.ts, the idempotency key), and no attempt creates a
\* workflow where one that serves its target already was when it began (workflow.ts).
THEOREM NothingIsPaidOrMadeTwice == Spec => [](DirectPaysOnce /\ TargetsShareAWorkflow)
<1>1. Init => OInv
  BY InitEInv DEF Init, OInv, PaysInv, SharesInv
<1>2. OInv /\ [Next]_vars => OInv'
  BY NextKeepsOInv
<1>3. OInv => DirectPaysOnce
  <2>1. SUFFICES ASSUME OInv, NEW w \in Works
                 PROVE  Cardinality({e \in Attempts : path[e] = "keeperHub" /\ doing[e] = w}) <= 1
    BY DEF DirectPaysOnce
  <2> DEFINE paid == {e \in Attempts : path[e] = "keeperHub" /\ doing[e] = w}
  <2>2. CASE paid = {}
    BY <2>2, FS_EmptySet
  <2>3. CASE paid # {}
    <3>1. PICK e \in paid : TRUE
      BY <2>3
    <3>2. paid = {e}
      BY <2>1, <3>1, Constants DEF OInv, PaysInv
    <3> QED
      BY <3>2, FS_Singleton
  <2> QED
    BY <2>2, <2>3
<1>4. OInv => TargetsShareAWorkflow
  BY DEF OInv, EInv, WellShaped, SharesInv, TargetsShareAWorkflow
<1> QED
  BY <1>1, <1>2, <1>3, <1>4, PTL DEF Spec

-----------------------------------------------------------------------------
(* The client *)

Moments == {"idle", "request", "sign", "resubmit", "check", "initialize", "notify", "tool", "done"}
Whys == {"none", "limited", "refused", "lost", "wrong shape", "unsigned", "superseded",
         "not initialized", "no verdict"}
Results == {"none", "threw", "would", "would not", "record", "value", "acted", "already paused",
            "session", "key", "valid", "invalid"}
CallState == [at : Moments, tries : 0..MaxRetries, meant : Nat, slept : Nat,
              why : Whys, answer : Results]

Shaped ==
    /\ ops \in [Callers -> [does : STRING, keyed : BOOLEAN, fn : STRING]]
    /\ \A c \in Callers : ops[c].fn = "write" => Does(c) \in {"readContract", "writeContract"}
    /\ call \in [Callers -> CallState] /\ ran \in [Callers -> Nat]
    /\ {challenged, cookie, sid} \subseteq Callers \union {Nobody} /\ ready \subseteq Callers

\* What a caller has had done, has waited and is told.  Whose work is done and who is not
\* yet answered may only ask again under a key.
WorkInv(c) ==
    /\ ~Writes(c) => ran[c] = 0
    /\ ran[c] <= 1
    /\ ran[c] > 0 /\ call[c].at # "done" => ops[c].keyed
    /\ call[c].answer # "none" => call[c].at = "done"
    /\ call[c].slept = call[c].meant /\ call[c].slept <= MaxWait
    /\ call[c].answer \in {"record", "acted"} => ran[c] = 1 \/ Replayed(c)
    /\ call[c].answer \in {"value", "would", "would not", "already paused"} => ran[c] = 0

\* One key is worth one execution.
OneKey ==
    \A c, d \in Callers : ops[c].keyed /\ ops[d].keyed /\ ran[c] > 0 /\ ran[d] > 0 => c = d

\* Where an exchange or a handshake is; and that, alone, the last challenge and the session
\* are the caller's own.
TalkInv(c) ==
    /\ call[c].at \in {"sign", "resubmit"} => Exchanges(c)
    /\ call[c].at \in Handshake => Does(c) = "validate"
    /\ call[c].at = "notify" => sid # Nobody
    /\ Alone(c) =>
          /\ call[c].why \notin {"superseded", "not initialized"}
          /\ call[c].at \in {"sign", "resubmit"} /\ Does(c) # "login" => challenged = c
          /\ Does(c) = "validate" =>
                /\ call[c].at \in {"idle", "initialize"} => sid = Nobody
                /\ call[c].at = "notify" => sid = c
                /\ call[c].at = "tool" => sid = c /\ sid \in ready

ClientInv == Shaped /\ OneKey /\ \A c \in Callers : WorkInv(c) /\ TalkInv(c)

LEMMA InitClientInv == Init => ClientInv
<1> SUFFICES ASSUME Init PROVE ClientInv
  OBVIOUS
<1>1. MaxRetries \in Nat /\ MaxWait \in Nat /\ NoCall \in CallState
  BY ClientAssumption DEF NoCall, CallState, Moments, Whys, Results
<1>2. Shaped
  BY <1>1, ExecutionAssumption DEF Init, ClientStart, Shaped, Does
<1>3. OneKey
  BY DEF Init, ClientStart, OneKey
<1>4. ASSUME NEW c \in Callers PROVE WorkInv(c) /\ TalkInv(c)
  <2>1. /\ call[c].at = "idle" /\ call[c].why = "none" /\ call[c].answer = "none"
        /\ call[c].slept = 0 /\ call[c].meant = 0 /\ ran[c] = 0 /\ sid = Nobody
    BY DEF Init, ClientStart, NoCall
  <2>2. WorkInv(c)
    BY <1>1, <2>1 DEF WorkInv
  <2>3. TalkInv(c)
    BY <2>1 DEF TalkInv, Handshake
  <2> QED
    BY <2>2, <2>3
<1> QED
  BY <1>2, <1>3, <1>4 DEF ClientInv

\* A wait the client accepts is the one that was meant, whichever header said it.
LEMMA WaitIs ==
    ASSUME NEW w \in Waits, NEW h \in Headers(w) \union {Silence}, RetryAfter(h) # NoWait
    PROVE  RetryAfter(h) = w /\ w \in Nat
<1>0. w \in Nat /\ Now \in Nat /\ Epoch \in Nat /\ Epoch <= Now /\ w < Epoch
  BY ClientAssumption
<1>1. CASE h = [after |-> Seconds(w), reset |-> Absent]
  BY <1>0, <1>1 DEF RetryAfter, Seconds, NotPast
<1>2. CASE h = [after |-> Date(Now + w), reset |-> Seconds(1)]
  BY <1>0, <1>2 DEF RetryAfter, Date, NotPast
<1>3. CASE h = [after |-> Absent, reset |-> Seconds(Now + w)]
  BY <1>0, <1>3 DEF RetryAfter, Seconds, Absent, NotPast, FromReset
<1>4. CASE w > 0 /\ h = [after |-> Absent, reset |-> Seconds(w)]
  BY <1>0, <1>4 DEF RetryAfter, Seconds, Absent, NotPast, FromReset
<1>5. CASE w = 0 /\ h = [after |-> Date(Now - 1), reset |-> Absent]
  BY <1>0, <1>5 DEF RetryAfter, Date, Absent, NotPast
<1>6. CASE h = Silence
  BY <1>6 DEF RetryAfter, Silence, Absent, FromReset
<1> QED
  BY <1>0, <1>1, <1>2, <1>3, <1>4, <1>5, <1>6 DEF Headers

\* One caller's state changes.
Turns(c, at, why, answer) ==
    /\ call' \in [Callers -> CallState] /\ \A d \in Callers \ {c} : call'[d] = call[d]
    /\ call'[c].at = at /\ call'[c].why = why /\ call'[c].answer = answer

SameWait(c) == call'[c].slept = call[c].slept /\ call'[c].meant = call[c].meant

LEMMA CallTurns ==
    ASSUME Shaped, NEW c \in Callers, NEW at \in Moments, NEW why \in Whys, NEW answer \in Results
    PROVE  /\ Goes(c, at) => Turns(c, at, call[c].why, call[c].answer) /\ SameWait(c)
           /\ Returns(c, answer) => Turns(c, "done", call[c].why, answer) /\ SameWait(c)
           /\ Breaks(c, why) => Turns(c, "done", why, "threw") /\ SameWait(c)
<1>0. call[c] \in CallState /\ call \in [Callers -> CallState]
  BY DEF Shaped
<1>1. ASSUME NEW l \in CallState, call' = [call EXCEPT ![c] = l]
      PROVE  /\ call' \in [Callers -> CallState] /\ \A d \in Callers \ {c} : call'[d] = call[d]
             /\ call'[c] = l
  BY <1>0, <1>1
<1>2. ASSUME Goes(c, at) PROVE Turns(c, at, call[c].why, call[c].answer) /\ SameWait(c)
  <2> DEFINE l == [call[c] EXCEPT !.at = at]
  <2>1. l \in CallState /\ call' = [call EXCEPT ![c] = l]
    BY <1>0, <1>2 DEF Goes, CallState
  <2>2. /\ l.at = at /\ l.why = call[c].why /\ l.answer = call[c].answer
        /\ l.slept = call[c].slept /\ l.meant = call[c].meant
    BY <1>0 DEF CallState
  <2> HIDE DEF l
  <2> QED
    BY <1>1, <2>1, <2>2 DEF Turns, SameWait
<1>3. ASSUME Returns(c, answer) PROVE Turns(c, "done", call[c].why, answer) /\ SameWait(c)
  <2> DEFINE l == [call[c] EXCEPT !.at = "done", !.answer = answer]
  <2>1. l \in CallState /\ call' = [call EXCEPT ![c] = l]
    BY <1>0, <1>3 DEF Returns, CallState, Moments
  <2>2. /\ l.at = "done" /\ l.why = call[c].why /\ l.answer = answer
        /\ l.slept = call[c].slept /\ l.meant = call[c].meant
    BY <1>0 DEF CallState
  <2> HIDE DEF l
  <2> QED
    BY <1>1, <2>1, <2>2 DEF Turns, SameWait
<1>4. ASSUME Breaks(c, why) PROVE Turns(c, "done", why, "threw") /\ SameWait(c)
  <2> DEFINE l == [call[c] EXCEPT !.at = "done", !.answer = "threw", !.why = why]
  <2>1. l \in CallState /\ call' = [call EXCEPT ![c] = l]
    BY <1>0, <1>4 DEF Breaks, CallState, Moments, Results
  <2>2. /\ l.at = "done" /\ l.why = why /\ l.answer = "threw"
        /\ l.slept = call[c].slept /\ l.meant = call[c].meant
    BY <1>0 DEF CallState
  <2> HIDE DEF l
  <2> QED
    BY <1>1, <2>1, <2>2 DEF Turns, SameWait
<1> QED
  BY <1>2, <1>3, <1>4

\* What the service may do while it is asked.
RunsOnce(c) ==
    /\ ran' \in [Callers -> Nat] /\ \A d \in Callers \ {c} : ran'[d] = ran[d]
    /\ ran'[c] >= ran[c] /\ ran'[c] <= 1
    /\ ~Writes(c) => ran'[c] = 0

LEMMA DoneIs ==
    ASSUME ClientInv, ops' = ops, NEW c \in Callers, Is(c, "request"), Done(c)
    PROVE  /\ RunsOnce(c) /\ OneKey'
           /\ Writes(c) /\ Holds(c) => ran'[c] = 1 \/ Replayed(c)
           /\ ~Replayed(c) /\ ~Holds(c) => ran'[c] = 0
<1>0. /\ ran \in [Callers -> Nat] /\ WorkInv(c) /\ call[c].at = "request" /\ OneKey
      /\ \A d \in Callers : ran[d] \in Nat
  BY DEF ClientInv, Shaped, Is
<1>1. ~Replayed(c) => ran[c] = 0
  <2>1. ran[c] > 0 => ops[c].keyed
    BY <1>0 DEF WorkInv
  <2>2. ran[c] > 0 => Replayed(c)
    BY <2>1, Zenon DEF Replayed
  <2> QED
    BY <1>0, <2>2
<1>2. CASE Writes(c) /\ ~Replayed(c) /\ Holds(c)
  <2>1. ran' = [ran EXCEPT ![c] = ran[c] + 1]
    BY <1>2 DEF Done
  <2>2. ran'[c] = 1 /\ ran' \in [Callers -> Nat] /\ \A d \in Callers \ {c} : ran'[d] = ran[d]
    BY <1>0, <1>1, <1>2, <2>1
  <2>3. ops[c].keyed => \A d \in Callers : ops[d].keyed => ~(ran[d] > 0)
    BY <1>2 DEF Replayed
  <2>4. OneKey'
    BY <1>0, <2>2, <2>3 DEF OneKey
  <2> QED
    BY <1>1, <1>2, <2>2, <2>4 DEF RunsOnce
<1>3. CASE ~(Writes(c) /\ ~Replayed(c) /\ Holds(c))
  <2>1. ran' = ran
    BY <1>3 DEF Done
  <2>2. OneKey'
    BY <1>0, <2>1 DEF OneKey
  <2>3. RunsOnce(c)
    <3>1. ran[c] <= 1 /\ (~Writes(c) => ran[c] = 0) /\ ran[c] \in Nat
      BY <1>0 DEF WorkInv
    <3> QED
      BY <1>0, <2>1, <3>1 DEF RunsOnce
  <2> QED
    BY <1>0, <1>1, <1>3, <2>1, <2>2, <2>3
<1> QED
  BY <1>2, <1>3

LEMMA ReplaysOn ==
    ASSUME Shaped, ops' = ops, NEW c \in Callers, RunsOnce(c), NEW d \in Callers, Replayed(d)
    PROVE  Replayed(d)'
<1>1. PICK e \in Callers : ops[e].keyed /\ ran[e] > 0
  BY DEF Replayed
<1>2. ran[e] \in Nat /\ ran'[e] \in Nat /\ ran'[e] >= ran[e]
  BY DEF RunsOnce, Shaped
<1>3. ran'[e] > 0
  BY <1>1, <1>2
<1> QED
  BY <1>1, <1>3, Zenon DEF Replayed

\* When one caller's call moves and what all callers share stays.
LEMMA CallKeeps ==
    ASSUME ClientInv, NEW c \in Callers, UNCHANGED held, call' \in [Callers -> CallState],
           \A d \in Callers \ {c} : call'[d] = call[d],
           RunsOnce(c), OneKey', WorkInv(c)', TalkInv(c)'
    PROVE  ClientInv'
<1>1. Shaped'
  BY DEF ClientInv, Shaped, held, RunsOnce, Does
<1>2. ASSUME NEW d \in Callers, Replayed(d) PROVE Replayed(d)'
  BY <1>2, ReplaysOn DEF held, ClientInv
<1>3. ASSUME NEW d \in Callers, d # c PROVE WorkInv(d)' /\ TalkInv(d)'
  <2>1. /\ WorkInv(d) /\ TalkInv(d) /\ call'[d] = call[d] /\ ran'[d] = ran[d]
        /\ UNCHANGED <<ops, challenged, sid, ready>>
    BY <1>3 DEF ClientInv, RunsOnce, held
  <2>2. Writes(d)' <=> Writes(d)
    BY <2>1 DEF Writes, Does
  <2>3. WorkInv(d)'
    BY <1>2, <2>1, <2>2 DEF WorkInv
  <2>4. (Alone(d)' <=> Alone(d)) /\ Does(d)' = Does(d) /\ (Exchanges(d)' <=> Exchanges(d))
    BY <2>1 DEF Alone, Does, Exchanges
  <2>5. TalkInv(d)'
    BY <2>1, <2>4 DEF TalkInv
  <2> QED
    BY <2>3, <2>5
<1> QED
  BY <1>1, <1>3 DEF ClientInv

\* When a call ends: what it is told is earned, and an exchange alone is not superseded.
LEMMA EndKeeps ==
    ASSUME ClientInv, NEW c \in Callers, call[c].at # "done", UNCHANGED held, RunsOnce(c), OneKey',
           NEW why \in Whys, NEW answer \in Results,
           Turns(c, "done", why, answer), SameWait(c),
           Alone(c) => why \notin {"superseded", "not initialized"},
           answer \in {"record", "acted"} => ran'[c] = 1 \/ Replayed(c),
           answer \in {"value", "would", "would not", "already paused"} => ran'[c] = 0
    PROVE  ClientInv'
<1>1. ASSUME Replayed(c) PROVE Replayed(c)'
  BY <1>1, ReplaysOn DEF held, ClientInv
<1>2. Writes(c)' <=> Writes(c)
  BY DEF Writes, Does, held
<1>3. WorkInv(c)'
  BY <1>1, <1>2 DEF WorkInv, ClientInv, Turns, SameWait, RunsOnce
<1>4. Alone(c)' <=> Alone(c)
  BY DEF Alone, Does, held
<1>5. TalkInv(c)'
  BY <1>4 DEF TalkInv, Turns, Handshake
<1> QED
  BY <1>3, <1>5, CallKeeps DEF Turns

LEMMA NothingDone ==
    ASSUME ClientInv, NEW c \in Callers, UNCHANGED <<ops, ran>>
    PROVE  RunsOnce(c) /\ OneKey'
<1>1. ran \in [Callers -> Nat] /\ ran[c] \in Nat /\ WorkInv(c) /\ OneKey
  BY DEF ClientInv, Shaped
<1>2. OneKey'
  BY <1>1 DEF OneKey
<1>3. ran[c] <= 1 /\ (~Writes(c) => ran[c] = 0)
  BY <1>1 DEF WorkInv
<1> QED
  BY <1>1, <1>2, <1>3 DEF RunsOnce

LEMMA BreaksKeeps ==
    ASSUME ClientInv, NEW c \in Callers, call[c].at # "done", UNCHANGED held, RunsOnce(c), OneKey',
           NEW why \in Whys, Breaks(c, why),
           Alone(c) => why \notin {"superseded", "not initialized"}
    PROVE  ClientInv'
<1>1. Turns(c, "done", why, "threw") /\ SameWait(c)
  BY CallTurns DEF ClientInv, Moments, Results
<1> QED
  BY <1>1, EndKeeps DEF Results

LEMMA ReturnsKeeps ==
    ASSUME ClientInv, NEW c \in Callers, call[c].at # "done", UNCHANGED held, RunsOnce(c), OneKey',
           NEW answer \in Results, Returns(c, answer),
           answer \in {"record", "acted"} => ran'[c] = 1 \/ Replayed(c),
           answer \in {"value", "would", "would not", "already paused"} => ran'[c] = 0
    PROVE  ClientInv'
<1>1. Turns(c, "done", call[c].why, answer) /\ SameWait(c)
  BY CallTurns DEF ClientInv, Moments, Whys
<1>2. call[c].why \in Whys /\ (Alone(c) => call[c].why \notin {"superseded", "not initialized"})
  BY DEF ClientInv, Shaped, CallState, TalkInv
<1> QED
  BY <1>1, <1>2, EndKeeps

LEMMA RefusalKeeps ==
    ASSUME ClientInv, NEW c \in Callers, call[c].at \in Requesting, UNCHANGED held,
           RunsOnce(c), OneKey', NEW why \in {"limited", "refused"}, Refusal(c, why)
    PROVE  ClientInv'
<1>1. CASE Does(c) = "simulate"
  <2>1. Returns(c, "would not") /\ ~Writes(c)
    BY <1>1 DEF Refusal, Writes, ClientInv, Shaped
  <2> QED
    BY <2>1, ReturnsKeeps DEF RunsOnce, Results, Requesting
<1>2. CASE Does(c) # "simulate"
  BY <1>2, BreaksKeeps DEF Refusal, Whys, Requesting
<1> QED
  BY <1>1, <1>2

LEMMA BeginsKeeps ==
    ASSUME ClientInv, NEW c \in Callers, Begins(c)
    PROVE  ClientInv'
<1> DEFINE label == IF Does(c) = "validate" THEN (IF sid = Nobody THEN "initialize" ELSE "tool")
                    ELSE "request"
<1>1. call[c].at = "idle" /\ Goes(c, label) /\ UNCHANGED <<held, ran>>
  BY DEF Begins, Is
<1>2. label \in {"initialize", "tool", "request"}
  OBVIOUS
<1>3. Turns(c, label, call[c].why, call[c].answer) /\ SameWait(c)
  <2> HIDE DEF label
  <2> QED
    BY <1>1, <1>2, CallTurns DEF ClientInv, Moments, Whys, Results
<1>4. RunsOnce(c) /\ OneKey'
  BY <1>1, NothingDone DEF held
<1>5. (Writes(c)' <=> Writes(c)) /\ (Alone(c)' <=> Alone(c)) /\ Does(c)' = Does(c)
      /\ sid' = sid /\ ran' = ran /\ ops' = ops
  BY <1>1 DEF Writes, Alone, Does, held
<1>6. WorkInv(c) /\ TalkInv(c)
  BY DEF ClientInv
<1>7. WorkInv(c)'
  <2>1. call'[c].answer = "none"
    BY <1>1, <1>3, <1>6 DEF WorkInv, Turns
  <2> QED
    BY <1>1, <1>3, <1>5, <1>6, <2>1 DEF WorkInv, Turns, SameWait
<1>8. TalkInv(c)'
  BY <1>1, <1>2, <1>3, <1>5, <1>6 DEF TalkInv, Turns, Handshake
<1> QED
  BY <1>1, <1>3, <1>4, <1>7, <1>8, CallKeeps DEF Turns

LEMMA LimitedKeeps ==
    ASSUME ClientInv, NEW c \in Callers, NEW w \in Waits, NEW h \in Headers(w) \union {Silence},
           Limited(c, w, h)
    PROVE  ClientInv'
<1> DEFINE wait == RetryAfter(h)
<1>0. /\ call[c].at \in Requesting /\ UNCHANGED held /\ ops' = ops
      /\ call[c] \in CallState /\ WorkInv(c) /\ TalkInv(c)
  BY DEF Limited, held, ClientInv, Shaped
<1>1. RunsOnce(c) /\ OneKey'
  <2>1. CASE UNCHANGED <<ran, paused>>
    BY <1>0, <2>1, NothingDone
  <2>2. CASE Is(c, "request") /\ Done(c)
    BY <1>0, <2>2, DoneIs
  <2> QED
    BY <2>1, <2>2 DEF Limited
<1>2. CASE Refusal(c, "limited")
  BY <1>0, <1>1, <1>2, RefusalKeeps
<1>3. CASE ~Refusal(c, "limited")
  <2>1. /\ call[c].tries < MaxRetries /\ wait # NoWait /\ wait <= MaxWait /\ Repeatable(c)
        /\ call' = [call EXCEPT ![c].tries = @ + 1, ![c].meant = w, ![c].slept = wait]
    BY <1>3 DEF Limited
  <2>2. wait = w /\ w \in Nat
    BY <2>1, WaitIs
  <2> DEFINE l == [call[c] EXCEPT !.tries = call[c].tries + 1, !.meant = w, !.slept = w]
  <2>3. call' = [call EXCEPT ![c] = l]
    <3>1. call' = [call EXCEPT ![c].tries = @ + 1, ![c].meant = w, ![c].slept = w]
      BY <2>1, <2>2
    <3> QED
      BY <1>0, <3>1 DEF ClientInv, Shaped, CallState
  <2>4. call[c].tries + 1 \in 0..MaxRetries
    BY <1>0, <2>1, ClientAssumption DEF CallState
  <2>5. /\ l \in CallState /\ l.at = call[c].at /\ l.why = call[c].why
        /\ l.answer = call[c].answer /\ l.slept = w /\ l.meant = w
    BY <1>0, <2>2, <2>4 DEF CallState
  <2> HIDE DEF l
  <2>6. call' \in [Callers -> CallState] /\ call'[c] = l /\ \A d \in Callers \ {c} : call'[d] = call[d]
    BY <2>3, <2>5 DEF ClientInv, Shaped
  <2>7. ran'[c] > 0 => ops[c].keyed
    <3>1. Does(c) = "get" => ~Writes(c)
      BY DEF Writes, ClientInv, Shaped
    <3> QED
      BY <1>1, <2>1, <3>1 DEF Repeatable, RunsOnce
  <2>8. WorkInv(c)'
    <3>1. call'[c].answer = "none"
      BY <1>0, <2>5, <2>6 DEF WorkInv, Requesting
    <3>2. Writes(c)' <=> Writes(c)
      BY <1>0 DEF Writes, Does
    <3>3. w <= MaxWait
      BY <2>1, <2>2
    <3> QED
      BY <1>0, <1>1, <2>5, <2>6, <2>7, <3>1, <3>2, <3>3 DEF WorkInv, RunsOnce
  <2>9. TalkInv(c)'
    <3>1. (Alone(c)' <=> Alone(c)) /\ Does(c)' = Does(c) /\ (Exchanges(c)' <=> Exchanges(c))
          /\ UNCHANGED <<challenged, sid, ready>>
      BY <1>0 DEF Alone, Does, Exchanges, held
    <3> QED
      BY <1>0, <2>5, <2>6, <3>1 DEF TalkInv
  <2> QED
    BY <1>0, <1>1, <2>6, <2>8, <2>9, CallKeeps
<1> QED
  BY <1>2, <1>3

LEMMA FaultsKeep ==
    ASSUME ClientInv, NEW c \in Callers, Faults(c)
    PROVE  ClientInv'
<1>1. ASSUME NEW w \in Waits, NEW h \in Headers(w) \union {Silence}, Limited(c, w, h)
      PROVE  ClientInv'
  BY <1>1, LimitedKeeps
<1>2. CASE Refused(c)
  BY <1>2, NothingDone, RefusalKeeps DEF Refused, held
<1>3. CASE Lost(c)
  <2>0. call[c].at \in Requesting /\ UNCHANGED held /\ ops' = ops /\ Breaks(c, "lost")
    BY <1>3 DEF Lost, held
  <2>1. RunsOnce(c) /\ OneKey'
    BY <1>3, <2>0, NothingDone, DoneIs DEF Lost
  <2> QED
    BY <2>0, <2>1, BreaksKeeps DEF Requesting, Whys
<1>4. CASE RpcFails(c)
  <2>1. call[c].at \in Handshake /\ UNCHANGED <<held, ops, ran>> /\ Breaks(c, "lost")
    BY <1>4 DEF RpcFails, held
  <2> QED
    BY <2>1, NothingDone, BreaksKeeps DEF Handshake, Whys
<1> QED
  BY <1>1, <1>2, <1>3, <1>4 DEF Faults

LEMMA AnsweredKeeps ==
    ASSUME ClientInv, NEW c \in Callers, Answered(c)
    PROVE  ClientInv'
<1>0. /\ Is(c, "request") /\ call[c].at # "done" /\ UNCHANGED held /\ ops' = ops
      /\ Does(c) # "guardedPause"
  BY DEF Answered, Is, held
<1>1. CASE Does(c) = "simulate"
  <2>1. UNCHANGED ran /\ ~Writes(c) /\ \E answer \in {"would", "would not"} : Returns(c, answer)
    BY <1>1 DEF Answered, Writes, ClientInv, Shaped
  <2>2. RunsOnce(c) /\ OneKey' /\ ran'[c] = 0
    BY <1>0, <2>1, NothingDone DEF RunsOnce
  <2> QED
    BY <1>0, <2>1, <2>2, ReturnsKeeps DEF Results
<1>2. CASE Does(c) # "simulate"
  <2>1. /\ Done(c)
        /\ Breaks(c, "wrong shape") \/ Returns(c, Shape(c))
    BY <1>2 DEF Answered
  <2>2. /\ RunsOnce(c) /\ OneKey' /\ (Writes(c) => ran'[c] = 1 \/ Replayed(c))
    BY <1>0, <2>1, DoneIs DEF Holds
  <2>3. CASE Breaks(c, "wrong shape")
    BY <1>0, <2>2, <2>3, BreaksKeeps DEF Whys
  <2>4. CASE Returns(c, Shape(c))
    BY <1>0, <2>2, <2>4, ReturnsKeeps DEF Shape, Results, RunsOnce
  <2> QED
    BY <2>1, <2>3, <2>4
<1> QED
  BY <1>1, <1>2

LEMMA GuardKeeps ==
    ASSUME ClientInv, NEW c \in Callers, GuardIsAnswered(c)
    PROVE  ClientInv'
<1>0. /\ Is(c, "request") /\ call[c].at # "done" /\ UNCHANGED held /\ ops' = ops
      /\ Writes(c) /\ Done(c)
  BY DEF GuardIsAnswered, Is, held, Writes
<1>1. PICK body \in Bodies(c) :
          Returns(c, IF ConditionMet(body) THEN "acted" ELSE "already paused")
  BY DEF GuardIsAnswered
<1>2. RunsOnce(c) /\ OneKey'
  BY <1>0, DoneIs
<1>3. IF ConditionMet(body) THEN ran'[c] = 1 \/ Replayed(c) ELSE ran'[c] = 0
  <2>1. CASE Replayed(c)
    <3>1. body \in {[met |-> m, record |-> TRUE] : m \in {"yes", "absent"}}
      BY <1>1, <2>1 DEF Bodies
    <3> QED
      BY <2>1, <3>1 DEF ConditionMet
  <2>2. CASE ~Replayed(c) /\ Holds(c)
    BY <1>0, <2>2, <1>1, DoneIs DEF Bodies, ConditionMet
  <2>3. CASE ~Replayed(c) /\ ~Holds(c)
    <3>1. body = [met |-> "no", record |-> FALSE]
      BY <1>1, <2>3 DEF Bodies
    <3>2. ran'[c] = 0
      BY <1>0, <2>3, DoneIs
    <3> QED
      BY <3>1, <3>2 DEF ConditionMet
  <2> QED
    BY <2>1, <2>2, <2>3
<1>4. CASE ConditionMet(body)
  <2>1. Returns(c, "acted") /\ (ran'[c] = 1 \/ Replayed(c))
    BY <1>1, <1>3, <1>4
  <2> QED
    BY <1>0, <1>2, <2>1, ReturnsKeeps DEF Results
<1>5. CASE ~ConditionMet(body)
  <2>1. Returns(c, "already paused") /\ ran'[c] = 0
    BY <1>1, <1>3, <1>5
  <2> QED
    BY <1>0, <1>2, <2>1, ReturnsKeeps DEF Results
<1> QED
  BY <1>4, <1>5

\* The steps that move on without an end, or move what all callers share.
LEMMA SharedMoves ==
    ASSUME ClientInv, NEW c \in Callers, UNCHANGED <<ops, ran>>, Shaped',
           NEW at \in Moments, NEW why \in Whys, NEW answer \in Results \ {"record", "acted", "value",
               "would", "would not", "already paused"},
           call[c].at # "done", Turns(c, at, why, answer), SameWait(c),
           answer # "none" => at = "done",
           \A d \in Callers : TalkInv(d)'
    PROVE  ClientInv'
<1>1. ASSUME NEW d \in Callers PROVE WorkInv(d)'
  <2>0. /\ WorkInv(d) /\ ran'[d] = ran[d] /\ ops'[d] = ops[d]
        /\ (Writes(d)' <=> Writes(d)) /\ (Replayed(d)' <=> Replayed(d))
    BY DEF ClientInv, Writes, Does, Replayed
  <2>1. CASE d = c
    BY <2>0, <2>1 DEF WorkInv, Turns, SameWait
  <2>2. CASE d # c
    BY <2>0, <2>2 DEF WorkInv, Turns
  <2> QED
    BY <2>1, <2>2
<1>2. OneKey'
  BY DEF ClientInv, OneKey
<1> QED
  BY <1>1, <1>2 DEF ClientInv

LEMMA SignsKeeps ==
    ASSUME ClientInv, NEW c \in Callers, Signs(c)
    PROVE  ClientInv'
<1>0. /\ call[c].at = "sign" /\ UNCHANGED <<held, ran>> /\ UNCHANGED <<ops, challenged, sid, ready>>
      /\ WorkInv(c) /\ TalkInv(c)
  BY DEF Signs, Is, held, ClientInv
<1>1. RunsOnce(c) /\ OneKey'
  BY <1>0, NothingDone
<1>2. CASE Breaks(c, "unsigned")
  BY <1>0, <1>1, <1>2, BreaksKeeps DEF Whys
<1>3. CASE Goes(c, "resubmit")
  <2>1. Turns(c, "resubmit", call[c].why, call[c].answer) /\ SameWait(c)
    BY <1>3, CallTurns DEF ClientInv, Moments, Whys, Results
  <2>2. (Writes(c)' <=> Writes(c)) /\ (Alone(c)' <=> Alone(c)) /\ Does(c)' = Does(c)
        /\ (Exchanges(c)' <=> Exchanges(c))
    BY <1>0 DEF Writes, Alone, Does, Exchanges
  <2>3. WorkInv(c)'
    <3>1. call'[c].answer = "none"
      BY <1>0, <2>1 DEF WorkInv, Turns
    <3> QED
      BY <1>0, <2>1, <2>2, <3>1 DEF WorkInv, Turns, SameWait
  <2>4. TalkInv(c)'
    BY <1>0, <2>1, <2>2 DEF TalkInv, Turns, Handshake
  <2> QED
    BY <1>0, <1>1, <2>1, <2>3, <2>4, CallKeeps DEF Turns
<1> QED
  BY <1>2, <1>3, <1>0 DEF Signs

LEMMA ToolKeeps ==
    ASSUME ClientInv, NEW c \in Callers, ToolIsCalled(c)
    PROVE  ClientInv'
<1>0. call[c].at = "tool" /\ UNCHANGED <<held, ran>> /\ ops' = ops /\ TalkInv(c)
  BY DEF ToolIsCalled, Is, held, ClientInv
<1>1. RunsOnce(c) /\ OneKey'
  BY <1>0, NothingDone
<1>2. CASE sid \in ready
  <2>1. (\E answer \in {"valid", "invalid"} : Returns(c, answer)) \/ Breaks(c, "no verdict")
    BY <1>2 DEF ToolIsCalled
  <2> QED
    BY <1>0, <1>1, <2>1, ReturnsKeeps, BreaksKeeps DEF Results, Whys
<1>3. CASE sid \notin ready
  <2>1. Breaks(c, "not initialized") /\ ~Alone(c)
    BY <1>0, <1>3 DEF ToolIsCalled, TalkInv, Handshake
  <2> QED
    BY <1>0, <1>1, <2>1, BreaksKeeps DEF Whys
<1> QED
  BY <1>2, <1>3

\* No answer is given to whoever goes on.
LEMMA NotAnswered ==
    ASSUME ClientInv, NEW c \in Callers, call[c].at # "done", NEW at \in Moments, Goes(c, at)
    PROVE  Turns(c, at, call[c].why, "none") /\ SameWait(c) /\ call[c].why \in Whys
<1>1. call[c].answer = "none" /\ call[c].why \in Whys
  BY DEF ClientInv, WorkInv, Shaped, CallState
<1> QED
  BY <1>1, CallTurns DEF ClientInv, Results

LEMMA ChallengedKeeps ==
    ASSUME ClientInv, NEW c \in Callers, IsChallenged(c)
    PROVE  ClientInv'
<1>0. /\ call[c].at = "request" /\ Exchanges(c) /\ UNCHANGED <<ops, ran, cookie, sid, ready>>
      /\ challenged' = IF Does(c) = "login" THEN challenged ELSE c
      /\ Goes(c, "sign")
  BY DEF IsChallenged, Is
<1>1. Turns(c, "sign", call[c].why, "none") /\ SameWait(c) /\ call[c].why \in Whys
  BY <1>0, NotAnswered DEF Moments
<1>2. Shaped'
  BY <1>0, <1>1 DEF ClientInv, Shaped, Turns, Does
<1>3. ASSUME NEW d \in Callers PROVE TalkInv(d)'
  <2>0. /\ (Alone(d)' <=> Alone(d)) /\ Does(d)' = Does(d) /\ (Exchanges(d)' <=> Exchanges(d))
        /\ TalkInv(d)
    BY <1>0 DEF Alone, Does, Exchanges, ClientInv
  <2>1. CASE d = c
    BY <1>0, <1>1, <2>0, <2>1 DEF TalkInv, Turns, Handshake
  <2>2. CASE d # c
    <3>1. Alone(d) /\ Exchanges(d) /\ Does(d) # "login" => challenged' = challenged
      BY <1>0, <2>2 DEF Alone, Exchanges
    <3> QED
      BY <1>0, <1>1, <2>0, <2>2, <3>1 DEF TalkInv, Turns
  <2> QED
    BY <2>1, <2>2
<1> QED
  BY <1>0, <1>1, <1>2, <1>3, SharedMoves DEF Moments, Results

LEMMA SignatureKeeps ==
    ASSUME ClientInv, NEW c \in Callers, SignatureIsAnswered(c)
    PROVE  ClientInv'
<1>0. call[c].at = "resubmit" /\ UNCHANGED <<ops, ran, sid, ready>> /\ Exchanges(c) /\ TalkInv(c)
  BY DEF SignatureIsAnswered, Is, ClientInv, TalkInv
<1>1. PICK why \in Whys, answer \in {"session", "key", "threw"} :
          /\ Turns(c, "done", why, answer) /\ SameWait(c)
          /\ Alone(c) => why \notin {"superseded", "not initialized"}
  <2>0. /\ call[c].why \in Whys
        /\ Alone(c) => call[c].why \notin {"superseded", "not initialized"}
    BY <1>0 DEF ClientInv, Shaped, CallState, TalkInv
  <2>1. CASE Returns(c, "session") \/ Returns(c, "key")
    <3>1. \/ Turns(c, "done", call[c].why, "session") /\ SameWait(c)
          \/ Turns(c, "done", call[c].why, "key") /\ SameWait(c)
      BY <2>0, <2>1, CallTurns DEF ClientInv, Moments, Results
    <3> QED
      BY <2>0, <3>1
  <2>2. CASE Breaks(c, "superseded") /\ Does(c) # "login" /\ challenged # c
    <3>1. Turns(c, "done", "superseded", "threw") /\ SameWait(c)
      BY <2>2, CallTurns DEF ClientInv, Moments, Results, Whys
    <3>2. ~Alone(c) /\ "superseded" \in Whys
      BY <1>0, <2>2 DEF TalkInv, Whys
    <3> QED
      BY <3>1, <3>2
  <2> QED
    BY <2>1, <2>2 DEF SignatureIsAnswered
<1>2. /\ challenged' \in {challenged, Nobody} /\ (challenged' # challenged => Does(c) # "login")
      /\ cookie' \in {cookie, c}
  BY DEF SignatureIsAnswered
<1>3. Shaped'
  BY <1>0, <1>1, <1>2 DEF ClientInv, Shaped, Turns, Does
<1>4. ASSUME NEW d \in Callers PROVE TalkInv(d)'
  <2>0. /\ (Alone(d)' <=> Alone(d)) /\ Does(d)' = Does(d) /\ (Exchanges(d)' <=> Exchanges(d))
        /\ TalkInv(d)
    BY <1>0 DEF Alone, Does, Exchanges, ClientInv
  <2>1. CASE d = c
    BY <1>0, <1>1, <2>0, <2>1 DEF TalkInv, Turns, Handshake
  <2>2. CASE d # c
    <3>1. Alone(d) /\ Exchanges(d) /\ Does(d) # "login" => challenged' = challenged
      BY <1>0, <1>2, <2>2 DEF Alone, Exchanges
    <3> QED
      BY <1>0, <1>1, <2>0, <2>2, <3>1 DEF TalkInv, Turns
  <2> QED
    BY <2>1, <2>2
<1> QED
  BY <1>0, <1>1, <1>3, <1>4, SharedMoves DEF Moments, Results

LEMMA InitializedKeeps ==
    ASSUME ClientInv, NEW c \in Callers, Initialized(c)
    PROVE  ClientInv'
<1>0. /\ call[c].at = "initialize" /\ UNCHANGED <<ops, ran, challenged, cookie, ready>>
      /\ sid' = c /\ Goes(c, "notify") /\ Does(c) = "validate" /\ c # Nobody
  BY ClientAssumption DEF Initialized, Is, ClientInv, TalkInv, Handshake
<1>1. Turns(c, "notify", call[c].why, "none") /\ SameWait(c) /\ call[c].why \in Whys
  BY <1>0, NotAnswered DEF Moments
<1>2. Shaped'
  BY <1>0, <1>1 DEF ClientInv, Shaped, Turns, Does
<1>3. ASSUME NEW d \in Callers PROVE TalkInv(d)'
  <2>0. /\ (Alone(d)' <=> Alone(d)) /\ Does(d)' = Does(d) /\ (Exchanges(d)' <=> Exchanges(d))
        /\ TalkInv(d)
    BY <1>0 DEF Alone, Does, Exchanges, ClientInv
  <2>1. CASE d = c
    BY <1>0, <1>1, <2>0, <2>1 DEF TalkInv, Turns, Handshake
  <2>2. CASE d # c
    <3>1. ~(Alone(d) /\ Does(d) = "validate")
      BY <1>0, <2>2 DEF Alone
    <3> QED
      BY <1>0, <1>1, <2>0, <2>2, <3>1 DEF TalkInv, Turns
  <2> QED
    BY <2>1, <2>2
<1> QED
  BY <1>0, <1>1, <1>2, <1>3, SharedMoves DEF Moments, Results

LEMMA NotifiedKeeps ==
    ASSUME ClientInv, NEW c \in Callers, IsNotified(c)
    PROVE  ClientInv'
<1>0. /\ call[c].at = "notify" /\ UNCHANGED <<ops, ran, challenged, cookie, sid>>
      /\ ready' = ready \union {sid} /\ Goes(c, "tool") /\ Does(c) = "validate" /\ sid # Nobody
      /\ sid \in Callers
  BY DEF IsNotified, Is, ClientInv, TalkInv, Handshake, Shaped
<1>1. Turns(c, "tool", call[c].why, "none") /\ SameWait(c) /\ call[c].why \in Whys
  BY <1>0, NotAnswered DEF Moments
<1>2. Shaped'
  BY <1>0, <1>1 DEF ClientInv, Shaped, Turns, Does
<1>3. ASSUME NEW d \in Callers PROVE TalkInv(d)'
  <2>0. /\ (Alone(d)' <=> Alone(d)) /\ Does(d)' = Does(d) /\ (Exchanges(d)' <=> Exchanges(d))
        /\ TalkInv(d)
    BY <1>0 DEF Alone, Does, Exchanges, ClientInv
  <2>1. CASE d = c
    BY <1>0, <1>1, <2>0, <2>1 DEF TalkInv, Turns, Handshake
  <2>2. CASE d # c
    BY <1>0, <1>1, <2>0, <2>2 DEF TalkInv, Turns
  <2> QED
    BY <2>1, <2>2
<1> QED
  BY <1>0, <1>1, <1>2, <1>3, SharedMoves DEF Moments, Results

LEMMA NextKeepsClientInv ==
    ASSUME ClientInv, [Next]_vars
    PROVE  ClientInv'
<1>1. CASE UNCHANGED <<held, call, ran>>
  <2>1. UNCHANGED <<ops, challenged, cookie, sid, ready, call, ran>>
    BY <1>1 DEF held
  <2>2. Shaped' /\ OneKey'
    BY <2>1 DEF ClientInv, Shaped, OneKey, Does
  <2>3. ASSUME NEW c \in Callers PROVE WorkInv(c)'
    BY <2>1 DEF ClientInv, WorkInv, Writes, Does, Replayed
  <2>4. ASSUME NEW c \in Callers PROVE TalkInv(c)'
    <3>1. (Alone(c)' <=> Alone(c)) /\ Does(c)' = Does(c) /\ (Exchanges(c)' <=> Exchanges(c))
      BY <2>1 DEF Alone, Does, Exchanges
    <3> QED
      BY <2>1, <3>1 DEF ClientInv, TalkInv
  <2> QED
    BY <2>2, <2>3, <2>4 DEF ClientInv
<1>2. ASSUME NEW c \in Callers, Begins(c) \/ Answers(c) \/ Faults(c)
      PROVE  ClientInv'
  BY <1>2, BeginsKeeps, AnsweredKeeps, GuardKeeps, ChallengedKeeps, SignsKeeps, SignatureKeeps,
     InitializedKeeps, NotifiedKeeps, ToolKeeps, FaultsKeep DEF Answers
<1>3. CASE UNCHANGED cvars
  BY <1>1, <1>3 DEF cvars, held
<1>4. CASE BreakerIsMoved
  BY <1>1, <1>4 DEF BreakerIsMoved
<1> QED
  BY <1>2, <1>3, <1>4 DEF Next, ClientNext, vars

LEMMA ClientInvSays == ClientInv => ClientHolds
<1> SUFFICES ASSUME ClientInv PROVE ClientHolds
  OBVIOUS
<1>1. ClientTypeOK
  BY DEF ClientInv, Shaped, CallState, ClientTypeOK
<1>2. ASSUME NEW c \in Callers, NEW d \in Callers
      PROVE  /\ ran[c] <= 1
             /\ ops[c].keyed /\ ops[d].keyed /\ c # d => ran[c] + ran[d] <= 1
  <2>1. ran[c] \in Nat /\ ran[d] \in Nat /\ ran[c] <= 1 /\ ran[d] <= 1
    BY DEF ClientInv, Shaped, WorkInv
  <2>2. ops[c].keyed /\ ops[d].keyed /\ c # d => ~(ran[c] > 0 /\ ran[d] > 0)
    BY DEF ClientInv, OneKey
  <2> QED
    BY <2>1, <2>2
<1>3. WritesRunOnce
  BY <1>2 DEF WritesRunOnce, ClientInv, WorkInv
<1> QED
  BY <1>1, <1>3 DEF ClientHolds, ClientInv, WorkInv, TalkInv, AnswersAreEarned, WaitsAreAsMeant,
                    ExchangesComplete

-----------------------------------------------------------------------------
(* Nothing is repeated *)

\* What the type says beyond EInv: the polls are bounded, and a hash that is verified is
\* there.
PollInv ==
    /\ mode \in Modes /\ failed \subseteq Attempts /\ polls \in [Attempts -> 0..MaxPolls]
    /\ \A a \in Attempts :
          /\ pc[a] \in {"poll", "lookup"} => polls[a] < MaxPolls
          /\ pc[a] \notin {"poll", "lookup", "verify", "done"} => polls[a] = 0
          /\ pc[a] = "verify" => tx[execution[a]] # "none"

\* When the polls stay, and nobody comes to poll or to verify without cause.
LEMMA SamePolls ==
    ASSUME EInv, EInv', PollInv, UNCHANGED <<mode, polls>>, failed' \subseteq Attempts,
           \A e \in Attempts : tx[e] # "none" => tx'[e] # "none",
           \A a \in Attempts :
              \/ pc'[a] = pc[a] /\ (pc[a] = "verify" => execution'[a] = execution[a])
              \/ pc'[a] = "done"
              \/ /\ pc'[a] = "verify" => tx'[execution'[a]] # "none"
                 /\ pc[a] \notin {"poll", "lookup", "verify", "done"}
              \/ pc'[a] = "verify" /\ tx'[execution'[a]] # "none"
    PROVE  PollInv'
<1>1. MaxPolls \in Nat \ {0}
  BY ExecutionAssumption
<1>2. ASSUME NEW a \in Attempts
      PROVE  /\ pc'[a] \in {"poll", "lookup"} => polls[a] < MaxPolls
             /\ pc'[a] \notin {"poll", "lookup", "verify", "done"} => polls[a] = 0
             /\ pc'[a] = "verify" => tx'[execution'[a]] # "none"
  <2>1. pc[a] = "verify" => execution[a] \in Attempts
    BY DEF EInv, WellShaped, PathInv
  <2> QED
    BY <1>1, <2>1 DEF PollInv
<1> QED
  BY <1>2 DEF PollInv

LEMMA OnceMorePolls ==
    ASSUME EInv, PollInv, NEW a \in Attempts, NEW l \in {"poll", "lookup"}, pc[a] = l,
           OnceMore(a, l), UNCHANGED <<mode, execution, tx, failed>>
    PROVE  PollInv'
<1>1. polls[a] \in 0..MaxPolls /\ polls[a] < MaxPolls /\ MaxPolls \in Nat
  BY ExecutionAssumption DEF PollInv
<1>2. polls' = [polls EXCEPT ![a] = polls[a] + 1]
  BY DEF OnceMore
<1>3. polls' \in [Attempts -> 0..MaxPolls] /\ polls'[a] = polls[a] + 1
      /\ \A b \in Attempts \ {a} : polls'[b] = polls[b]
  BY <1>1, <1>2 DEF PollInv
<1>4. /\ pc'[a] = "done" \/ (pc'[a] = l /\ polls'[a] < MaxPolls)
      /\ \A b \in Attempts \ {a} : pc'[b] = pc[b]
  BY <1>3 DEF OnceMore, Goto, Answer, EInv, WellShaped
<1> QED
  BY <1>3, <1>4 DEF PollInv

LEMMA FirstIs ==
    \A w \in Works :
        route(w) # "none" => First(w) \in {"list", "execute", "simulate", "sign"}
BY DEF First, route

LEMMA NextKeepsPollInv ==
    ASSUME EInv, PollInv, [Next]_vars
    PROVE  PollInv'
<1> USE DEF Keep, service, calls
<1>0. EInv' /\ WellShaped /\ failed \subseteq Attempts
  BY NextKeepsEInv DEF EInv, PollInv
<1>1. ASSUME NEW a \in Attempts, NEW w \in Works, Begin(a, w)
      PROVE  PollInv'
  <2>1. /\ pc[a] = "new" /\ UNCHANGED <<mode, polls, failed, tx, execution>>
        /\ pc' = [pc EXCEPT ![a] = "done"] \/ pc' = [pc EXCEPT ![a] = First(w)]
        /\ route(w) = "none" => pc' = [pc EXCEPT ![a] = "done"]
    BY <1>1 DEF Begin, At, Answer, Goto
  <2>2. pc'[a] \in {"done", "list", "execute", "simulate", "sign"}
        /\ \A b \in Attempts \ {a} : pc'[b] = pc[b]
    BY <1>0, <2>1, FirstIs DEF WellShaped
  <2> QED
    BY <1>0, <2>1, <2>2, SamePolls
<1>2. ASSUME NEW a \in Attempts,
             \/ List(a) \/ Create(a) \/ Execute(a) \/ Simulate(a) \/ Write(a) \/ Sign(a)
             \/ Verify(a) \/ Throws(a)
      PROVE  PollInv'
  <2>1. UNCHANGED <<mode, polls, failed>> /\ \A b \in Attempts \ {a} : pc'[b] = pc[b]
    BY <1>0, <1>2 DEF List, Create, Execute, Simulate, Write, Sign, Verify, Throws, Answer, Goto,
                      WellShaped
  <2>2. \A b \in Attempts \ {a} : execution'[b] = execution[b]
    BY <1>0, <1>2 DEF List, Create, Execute, Simulate, Write, Sign, Verify, Throws, WellShaped
  <2>3. \A e \in Attempts : tx[e] # "none" => tx'[e] # "none"
    BY <1>0, <1>2 DEF List, Create, Execute, Simulate, Write, Sign, Verify, Throws, WellShaped
  <2>4. \/ pc'[a] = "done"
        \/ /\ pc'[a] = "verify" => tx'[execution'[a]] # "none"
           /\ pc[a] \notin {"poll", "lookup", "verify", "done"}
    <3>1. CASE List(a) \/ Create(a) \/ Execute(a) \/ Simulate(a)
      BY <1>0, <3>1 DEF List, Create, Execute, Simulate, Answer, Goto, WellShaped, At
    <3>2. CASE Write(a)
      BY <1>0, <3>2 DEF Write, Answer, Goto, WellShaped, At, Hashed
    <3>3. CASE Sign(a)
      BY <1>0, <3>3 DEF Sign, Answer, Goto, WellShaped, At
    <3>4. CASE Verify(a) \/ Throws(a)
      BY <1>0, <3>4 DEF Verify, Throws, Answer, Goto, WellShaped
    <3> QED
      BY <1>2, <3>1, <3>2, <3>3, <3>4
  <2> QED
    BY <1>0, <2>1, <2>2, <2>3, <2>4, SamePolls
<1>3. ASSUME NEW a \in Attempts, NEW l \in {"poll", "lookup"},
             l = "poll" => Poll(a), l = "lookup" => Lookup(a)
      PROVE  PollInv'
  <2>1. /\ pc[a] = l /\ UNCHANGED <<mode, failed, tx, execution>>
        /\ \/ Hashed(execution[a]) /\ Goto(a, "verify") /\ UNCHANGED polls
           \/ Answer(a, "refused") /\ UNCHANGED polls
           \/ OnceMore(a, l)
    BY <1>3 DEF Poll, Lookup, At
  <2>2. CASE OnceMore(a, l)
    BY <2>1, <2>2, OnceMorePolls
  <2>3. CASE Answer(a, "refused") /\ UNCHANGED polls
    <3>1. pc'[a] = "done" /\ \A b \in Attempts \ {a} : pc'[b] = pc[b]
      BY <1>0, <2>3 DEF Answer, Goto, WellShaped
    <3> QED
      BY <1>0, <2>1, <2>3, <3>1, SamePolls
  <2>4. CASE Hashed(execution[a]) /\ Goto(a, "verify") /\ UNCHANGED polls
    <3>1. /\ pc'[a] = "verify" /\ \A b \in Attempts \ {a} : pc'[b] = pc[b]
          /\ tx'[execution'[a]] # "none"
      BY <1>0, <2>1, <2>4 DEF Goto, WellShaped, Hashed
    <3> QED
      BY <1>0, <2>1, <2>4, <3>1, SamePolls
  <2> QED
    BY <2>1, <2>2, <2>3, <2>4
<1>4. ASSUME NEW e \in Attempts, Run(e) \/ FailLate(e) \/ Mine(e)
      PROVE  PollInv'
  <2>1. /\ UNCHANGED <<mode, pc, execution, polls>> /\ failed' \subseteq Attempts
        /\ \A f \in Attempts : tx[f] # "none" => tx'[f] # "none"
    BY <1>0, <1>4 DEF Run, FailLate, Mine, WellShaped
  <2> QED
    BY <1>0, <2>1, SamePolls
<1>5. CASE Restart
  BY <1>0, <1>5, SamePolls DEF Restart
<1>6. CASE UNCHANGED evars
  BY <1>0, <1>6, SamePolls DEF evars
<1>7. ASSUME NEW a \in Attempts, Poll(a) \/ Lookup(a) PROVE PollInv'
  BY <1>3, <1>7
<1> QED
  BY <1>1, <1>2, <1>4, <1>5, <1>6, <1>7 DEF Next, ExecutionNext, Step, vars

\* No work is paid twice by the direct executor, no workflow is made where one already
\* serves (keeperhub.ts, workflow.ts), and no request of the client is repeated that was not
\* safe to repeat, nor any caller told of work that was not done (client.ts, rate-limit.ts).
THEOREM NothingIsEverRepeated == Spec => []NothingIsRepeated
<1>1. Init => PollInv
  BY ExecutionAssumption DEF Init, PollInv
<1>2. EInv /\ PollInv /\ [Next]_vars => PollInv'
  BY NextKeepsPollInv
<1>3. Init => EInv
  BY InitEInv
<1>4. EInv /\ [Next]_vars => EInv'
  BY NextKeepsEInv
<1>5. Init => ClientInv
  BY InitClientInv
<1>6. ClientInv /\ [Next]_vars => ClientInv'
  BY NextKeepsClientInv
<1>7. Init => OInv
  BY InitEInv DEF Init, OInv, PaysInv, SharesInv
<1>8. OInv /\ [Next]_vars => OInv'
  BY NextKeepsOInv
<1>9. ClientInv => ClientHolds
  BY ClientInvSays
<1>10. OInv /\ PollInv => TypeOK
  BY DEF OInv, EInv, WellShaped, Labels, PathInv, TargetInv, SharesInv, PollInv, TypeOK
<1>11. TypeOK /\ (DirectPaysOnce /\ TargetsShareAWorkflow) /\ ClientHolds => NothingIsRepeated
  BY DEF NothingIsRepeated
<1> QED
  BY <1>1, <1>2, <1>3, <1>4, <1>5, <1>6, <1>7, <1>8, <1>9, <1>10, <1>11,
     NothingIsPaidOrMadeTwice, PTL DEF Spec
=============================================================================
