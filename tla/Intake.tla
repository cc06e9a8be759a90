------------------------------- MODULE Intake -------------------------------
(***************************************************************************)
(* Reading an organisation's runs from KeeperHub (packages/recorder        *)
(* keeperhub-source, packages/api connection-sweeper, core normalise-run): *)
(* runs start, submit transactions and end at the provider while sweeps    *)
(* page through them newest first, store the watched ones oldest first and *)
(* move the high-water mark; the recorder's tick evaluates what its own    *)
(* sweep touched.  A webhook or the demo's button starts a second sweep at *)
(* any moment (sweepKeeperHub), which evaluates nothing.                   *)
(***************************************************************************)
EXTENDS Rules, Watchlist

CONSTANTS
    Workflows,
    Endings,    \* how runs end: <<status, receipt of the last transaction>>
    Foreign,    \* workflows whose runs name no chain we can read, see normaliseRun
    PageSize,   \* runs of a page; a mode further says whether there are nudges, how
                \* often the pick changes, which workflows run, maxPages, and bounds
    MaxRuns, MaxTxs, MaxTime     \* bounds

ASSUME IntakeAssumption ==
    /\ Foreign \subseteq Workflows
    /\ Endings \subseteq {"success", "error", "cancelled"} \X {"none", "success", "reverted"}
    /\ {PageSize, MaxRuns, MaxTxs, MaxTime} \subseteq Nat \ {0}
    /\ \A m \in Modes :
          /\ m.nudges \in BOOLEAN /\ m.running \subseteq Workflows
          /\ m.picks \in Nat /\ m.pages \in Nat \ {0}
          /\ m.runs \in 0..MaxRuns /\ m.txs \in 0..MaxTxs /\ m.until \in 1..MaxTime

VARIABLES
    now,
    runs,      \* the provider's runs, in the order they started
    watched,   \* workflows the operator picked: watched_workflows.active
    mark,      \* the high-water mark in ingest_cursors; 0 before there is one
    rows,      \* execution_events: <<run, key>> -> outcome, "none" if not stored
    sweep,     \* the locals of the tick's sweep and of the nudge's
    open,      \* open incidents: the agent they are filed under and what they are about
    picks,     \* changes of the pick so far
    loyal,     \* history: workflows watched all along
    truncated  \* history: a sweep logged that it stopped early

provider == <<now, runs>>
store == <<mark, rows>>
history == <<picks, loyal, truncated>>
ivars == <<provider, watched, store, sweep, open, history>>
vars == <<mode, ivars, xvars>>

Runs == 1..MaxRuns
Listed == DOMAIN runs
Keys == 0..MaxTxs
Sweepers == {"tick", "nudge"}
TERMINAL == {"success", "error", "cancelled"}
Ended(run) == run.status \in TERMINAL

Resting == [pc |-> "idle", chosen |-> {}, mark |-> 0, seen |-> {},
            cursor |-> MaxRuns + 1, page |-> 0, left |-> {}, unstored |-> {}, agent |-> "none"]

Init ==
    /\ mode \in Modes /\ watched \in SUBSET mode.running
    /\ now = 1
    /\ runs = <<>>
    /\ mark = 0
    /\ rows = [k \in Runs \X Keys |-> "none"]
    /\ sweep = [s \in Sweepers |-> Resting]
    /\ open = {}
    /\ loyal = watched /\ picks = 0
    /\ truncated = FALSE
    /\ WatchlistInit

(***************************************************************************)
(* The provider and the operator.                                          *)
(***************************************************************************)
Start(w) ==
    /\ Len(runs) < mode.runs /\ w \in mode.running
    /\ runs' = Append(runs, [workflow |-> w, at |-> now, status |-> "running", txs |-> <<>>])
    /\ UNCHANGED <<now, watched, store, sweep, open, history, mode>>

\* A transaction of a run; one that follows another is its fee bump or a next step.
SubmitTx(i) ==
    /\ ~Ended(runs[i]) /\ Len(runs[i].txs) < mode.txs
    /\ runs' = [runs EXCEPT ![i].txs = Append(@, "none")]
    /\ UNCHANGED <<now, watched, store, sweep, open, history, mode>>

\* A direct run reports no receipt even when it has ended.
End(i, status, receipt) ==
    /\ ~Ended(runs[i])
    /\ runs' = [runs EXCEPT ![i].status = status,
                            ![i].txs = IF @ = <<>> THEN @ ELSE [@ EXCEPT ![Len(@)] = receipt]]
    /\ UNCHANGED <<now, watched, store, sweep, open, history, mode>>

Pass ==
    /\ now < mode.until
    /\ now' = now + 1
    /\ UNCHANGED <<runs, watched, store, sweep, open, history, mode>>

Watch(w) ==
    /\ w \in mode.running \ watched /\ picks < mode.picks
    /\ watched' = watched \union {w} /\ picks' = picks + 1
    /\ UNCHANGED <<provider, store, sweep, open, loyal, truncated, mode>>

Unwatch(w) ==
    /\ w \in watched /\ picks < mode.picks
    /\ watched' = watched \ {w} /\ picks' = picks + 1 /\ loyal' = loyal \ {w}
    /\ UNCHANGED <<provider, store, sweep, open, truncated, mode>>

(***************************************************************************)
(* normaliseRun: the events of a run, keyed like its rows.                 *)
(***************************************************************************)
outcomeAsNamed(run) == run.status
outcomeUnlessSent(run) == IF run.status = "running" THEN "pending" ELSE "unknown"
outcomeWithoutTx(run) ==
    CASE run.status = "running" -> "pending" [] run.status = "error" -> "rejected" [] OTHER -> "unknown"

\* Only the last transaction carries the run's outcome.
outcomeForTxEach(run, k) ==
    CASE run.status = "error" -> "reverted" [] run.status = "running" -> "pending" [] OTHER -> "included"
outcomeForTx(run, k) ==
    CASE k # Len(run.txs) -> "replaced"
      [] k = Len(run.txs) /\ run.txs[k] = "success" -> "included"
      [] k = Len(run.txs) /\ run.txs[k] = "reverted" -> "reverted"
      [] k = Len(run.txs) /\ run.txs[k] = "none" ->
            CASE run.status = "success" -> "included" [] run.status = "error" -> "reverted"
              [] run.status = "running" -> "pending" [] OTHER -> "unknown"

normaliseRun(run) ==
    IF run.workflow \in Foreign THEN [k \in {} |-> "none"]
    ELSE IF run.txs = <<>> THEN [k \in {0} |-> outcomeWithoutTx(run)]
    ELSE [k \in DOMAIN run.txs |-> outcomeForTx(run, k)]

(***************************************************************************)
(* A sweep (ingest of ConnectionSweeper and KeeperHubSource).              *)
(***************************************************************************)
Set(s, new) == sweep' = [sweep EXCEPT ![s] = new]
Fresh(s) == {entry \in sweep[s].seen : entry.run.workflow \in sweep[s].chosen}

\* An operator who picked nothing has said nothing is important yet.
Begin(s) ==
    /\ s = "nudge" => mode.nudges
    /\ sweep[s].pc = "idle" /\ watched # {}
    /\ Set(s, [Resting EXCEPT !.pc = "marking", !.chosen = watched])
    /\ UNCHANGED <<provider, watched, store, open, history, mode>>

ReadMark(s) ==
    /\ sweep[s].pc = "marking"
    /\ Set(s, [sweep[s] EXCEPT !.pc = "listing", !.mark = mark])
    /\ UNCHANGED <<provider, watched, store, open, history, mode>>

\* The provider lists newest first; its cursor is the last run it listed.
Older(cursor) == {i \in Listed : i < cursor}
PageAt(cursor) == {i \in Older(cursor) : Cardinality({j \in Older(cursor) : j > i}) < PageSize}

\* What the page adds: runs strictly newer than the mark, as they are now.
Added(page, from) == {[id |-> i, run |-> runs[i]] : i \in {j \in page : runs[j].at > from}}

ListPage(s) ==
    LET page == PageAt(sweep[s].cursor)
        added == Added(page, sweep[s].mark)
        seen == sweep[s].seen \union added
        reached == Cardinality(added) < Cardinality(page)
        done == reached \/ page = {} \/ Older(Min(page)) = {}
        last == sweep[s].page + 1 = mode.pages
    IN  /\ sweep[s].pc = "listing"
        /\ Set(s, [sweep[s] EXCEPT
                    !.seen = seen,
                    !.cursor = IF done THEN @ ELSE Min(page),
                    !.page = @ + 1,
                    !.pc = IF done \/ last THEN "storing" ELSE @,
                    !.left = IF done \/ last THEN {e.id : e \in {x \in seen : x.run.workflow \in sweep[s].chosen}}
                             ELSE @])
        /\ truncated' = (truncated \/ (last /\ ~done))
        /\ UNCHANGED <<provider, watched, store, open, picks, loyal, mode>>

\* A listing that fails, or a token that cannot be had, ends the sweep.
ListFails(s) ==
    /\ mode.faults /\ sweep[s].pc = "listing"
    /\ Set(s, Resting)
    /\ UNCHANGED <<provider, watched, store, open, history, mode>>

\* insertEvents: only a pending row is updated.
UpsertedOnce(i, events) ==
    [k \in Runs \X Keys |-> IF k[1] = i /\ k[2] \in DOMAIN events /\ rows[k] = "none" THEN events[k[2]] ELSE rows[k]]
Upserted(i, events) ==
    [k \in Runs \X Keys |->
        IF k[1] = i /\ k[2] \in DOMAIN events /\ rows[k] \in {"none", "pending"}
        THEN events[k[2]] ELSE rows[k]]

RunOf(s, i) == (CHOOSE e \in sweep[s].seen : e.id = i).run

\* Oldest first.  A run on a chain we cannot read is skipped, and is no blocker.
StoreOldest(s) ==
    LET i == Min(sweep[s].left)
        run == RunOf(s, i)
        events == normaliseRun(run)
    IN  /\ sweep[s].pc = "storing" /\ sweep[s].left # {}
        /\ rows' = Upserted(i, events)
        /\ Set(s, [sweep[s] EXCEPT !.left = @ \ {i},
                                   !.agent = IF DOMAIN events = {} THEN @ ELSE run.workflow])
        /\ UNCHANGED <<provider, watched, mark, open, history, mode>>

StoreFails(s) ==
    /\ mode.faults
    /\ sweep[s].pc = "storing" /\ sweep[s].left # {}
    /\ \E i \in {Min(sweep[s].left)} :
        /\ DOMAIN normaliseRun(RunOf(s, i)) # {}
        /\ Set(s, [sweep[s] EXCEPT !.left = @ \ {i}, !.unstored = @ \union {i}])
    /\ UNCHANGED <<provider, watched, store, open, history, mode>>

\* What the mark must not pass: runs without an outcome, runs not stored.
BlockersUnstored(fresh, unstored) == {e \in fresh : e.id \in unstored}
BlockersPending(fresh, unstored) == {e \in fresh : ~Ended(e.run)}
Blockers(fresh, unstored) == {e \in fresh : ~Ended(e.run) \/ e.id \in unstored}

\* nextHighWater; what it answers when there is nothing to say leaves the row.
nextHighWater(fresh, current, unstored, newestSeen) ==
    LET blockers == Blockers(fresh, unstored)
        justBefore == Min({e.run.at : e \in blockers}) - 1
    IN  IF blockers = {} THEN newestSeen
        ELSE IF current # 0 /\ justBefore <= current THEN current ELSE justBefore

Finish(s) ==
    /\ sweep[s].pc = "storing" /\ sweep[s].left = {}
    /\ LET newestSeen == Max({e.run.at : e \in sweep[s].seen} \union {0})
           advanced == nextHighWater(Fresh(s), sweep[s].mark, sweep[s].unstored, newestSeen)
       IN  mark' = IF advanced = 0 THEN mark ELSE advanced
    /\ Set(s, IF s = "tick" /\ sweep[s].agent # "none"
              THEN [Resting EXCEPT !.pc = "evaluating", !.agent = sweep[s].agent] ELSE Resting)
    /\ UNCHANGED <<provider, watched, rows, open, history, mode>>

(***************************************************************************)
(* The tick's evaluation of the organisation's signer.                     *)
(***************************************************************************)
EventOf(k) ==
    [id |-> k, seq |-> k[1] * (MaxTxs + 1) + k[2], action |-> runs[k[1]].workflow,
     workflow |-> TRUE, kind |-> "keeperhub",
     status |-> rows[k], nonce |-> Unknown, fee |-> Unknown, cost |-> Unknown, unfunded |-> FALSE,
     sim |-> IF rows[k] = "rejected" THEN "failed" ELSE "passed",
     at |-> runs[k[1]].at, steps |-> Unknown]

Window == {EventOf(k) : k \in {l \in Runs \X Keys : rows[l] # "none"}}

Context == [now |-> now, kind |-> "keeperhub", latest |-> Unknown, baseFee |-> Unknown,
            balance |-> Unknown, gapPolls |-> 0, cap |-> Unknown, used |-> 0, inclusion |-> NoAnalysis]

\* resolutionOf: a storm ends with the attempts, drift with a later success;
\* what a managed wallet has of its own is closed by nobody.
IsOver(incident, window) ==
    LET own == {e \in window : e.action = incident.action}
    IN  CASE incident.class = "RETRY_STORM" ->
                ~\E e \in own : e.at >= now - StormWindow
          [] incident.class = "SIM_PASS_EXEC_REVERT" ->
                \E e \in own : e.status = "included" /\ e.at > runs[incident.first].at
          [] OTHER -> FALSE

\* The rule's action where it names one, else that of the event it cites first.
ActionOf(d) == IF d.facts.action # "none" THEN d.facts.action
               ELSE runs[Min({k[1] : k \in d.cites})].workflow

\* One signer has one evaluation, filed under the agent that was touched last.
Folded(drafts, window, agent) ==
    LET firing == {d.class : d \in drafts}
        known == {i \in open : i.agent = agent /\ i.class \in firing}
        created == {[agent |-> agent, class |-> d.class, action |-> ActionOf(d),
                     first |-> Min({k[1] : k \in d.cites})] :
                        d \in {x \in drafts : x.class \notin {i.class : i \in known}}}
    IN  known \union created \union {i \in open \ known : ~IsOver(i, window)}

Evaluate ==
    /\ sweep["tick"].pc = "evaluating"
    /\ \E window \in {Window} : \E drafts \in {evaluateRules(window, Context)} :
        open' = Folded(drafts, window, sweep["tick"].agent)
    /\ Set("tick", Resting)
    /\ UNCHANGED <<provider, watched, store, history, mode>>

\* A restart loses the sweeps and keeps the rows.
Crash ==
    /\ mode.faults /\ \E s \in Sweepers : sweep[s].pc # "idle"
    /\ sweep' = [s \in Sweepers |-> Resting]
    /\ UNCHANGED <<provider, watched, store, open, history, mode>>

Sweeping(s) == Begin(s) \/ ReadMark(s) \/ ListPage(s) \/ StoreOldest(s) \/ Finish(s)
Ticking == Sweeping("tick") \/ Evaluate
Provider ==
    \/ \E w \in Workflows : Start(w)
    \/ \E i \in Listed : SubmitTx(i) \/ \E e \in Endings : End(i, e[1], e[2])
    \/ Pass
Operator == \E w \in Workflows : Watch(w) \/ Unwatch(w)
Trouble == Crash \/ \E s \in Sweepers : ListFails(s) \/ StoreFails(s)
Ingests == Ticking \/ Sweeping("nudge") \/ Provider \/ Operator \/ Trouble
Next == (Ingests /\ UNCHANGED xvars) \/ (WatchlistNext /\ UNCHANGED ivars)

\* The recorder keeps ticking; a nudge comes or does not.
Spec ==
    /\ Init /\ [][Next]_vars
    /\ WF_vars(Ticking /\ UNCHANGED xvars) /\ WF_vars(BodyStep /\ UNCHANGED ivars)

(***************************************************************************)
(* Properties.                                                             *)
(***************************************************************************)
TypeOK ==
    /\ now \in 1..MaxTime /\ mark \in 0..MaxTime
    /\ \A i \in Listed : runs[i] \in [workflow : Workflows, at : 1..MaxTime,
            status : TERMINAL \union {"running"},
            txs : UNION {[1..n -> {"none", "success", "reverted"}] : n \in 0..MaxTxs}]
    /\ loyal \subseteq watched /\ watched \subseteq Workflows
    /\ rows \in [Runs \X Keys -> Statuses \union {"none"}]
    /\ \A s \in Sweepers : /\ sweep[s].pc \in {"idle", "marking", "listing", "storing", "evaluating"}
                           /\ sweep[s].page \in 0..mode.pages
    /\ \A i \in open : i.agent \in Workflows /\ i.action \in Workflows

\* Two runs that started in the same millisecond are told apart by nothing the
\* mark holds; every property sets them aside.
Tied(i) == \E j \in Listed \ {i} : runs[j].at = runs[i].at
Ours(i) == i \in Listed /\ runs[i].workflow \in loyal \ Foreign /\ ~Tied(i) /\ ~truncated

LastKey(i) == Len(runs[i].txs)
Arrived(i) == i \in Listed /\ Ended(runs[i]) /\ rows[<<i, LastKey(i)>>] = normaliseRun(runs[i])[LastKey(i)]

\* The mark passes no run that is not stored with its final outcome, whatever
\* sweeps overlap, fail half way or die (nextHighWater): only a sweep that
\* logged its truncation leaves a gap.
SettledIsKept == \A i \in Listed : Ours(i) /\ runs[i].at <= mark => Arrived(i)

\* A run is one attempt: however its transactions replaced each other and
\* however often it is read again, at most one of its rows is a failure (R5).
RunFailsOnce ==
    \A i \in Listed : Cardinality({k \in Keys : rows[<<i, k>>] \in {"reverted", "rejected", "dropped"}}) <= 1

\* Well formed, no run counted for two failures however often it is read, and no
\* execution settled, or its caller told it is watched, without a row that says so.
RunsAreCounted == TypeOK /\ RunFailsOnce /\ WatchlistHolds

\* Whatever ended is stored with its outcome sooner or later, with nothing but
\* ticks to read it: the sweeps catch up again and again.
EndedArrives ==
    ~mode.faults => []<>(\A i \in Listed : Ours(i) /\ Ended(runs[i]) => Arrived(i))

\* A run that stays pending past the threshold is reported although it has not
\* changed: the mark waits for it, so every tick reads it again (R9).
Stalling(i) ==
    /\ Ours(i) /\ ~Ended(runs[i]) /\ now - runs[i].at > StalledThreshold
    /\ \A j \in Listed : runs[j].workflow = runs[i].workflow => runs[j].status = "running" /\ Len(runs[j].txs) <= 1
Reported(class) == \E i \in open : i.class = class
StallIsReported ==
    ~mode.faults => []<>((\E i \in Listed : Stalling(i)) => Reported("EXECUTION_STALLED"))

\* A workflow the platform keeps refusing is reported, as long as no other sweep
\* than the tick's stores the refusals (R10).
Refusals(w) == {i \in Listed : /\ runs[i].workflow = w /\ runs[i].status = "error"
                               /\ runs[i].txs = <<>> /\ runs[i].at >= now - StormWindow}
Refused(w) == Cardinality({i \in Refusals(w) : Ours(i)}) >= NodeFailures
AllReported == (\E w \in Workflows : Refused(w)) => Reported("WORKFLOW_MISCONFIGURED")
RefusalsAreReported == ~mode.faults /\ ~mode.nudges => []<>AllReported

\* Nothing the platform did is lost for good: what ended arrives, what stalls and
\* what keeps being refused is reported (pollOnce, R9, R10).
EverythingIsReported ==
    EndedArrives /\ StallIsReported /\ RefusalsAreReported /\ EndedIsSettled

\* Violated by the code: a nudge causes the same sweep as the tick, sooner.
NudgesOnlyHasten == ~mode.faults => []<>AllReported

\* Violated by the code: a workflow is the thing incidents belong to.
FiledUnderItsWorkflow == \A i \in open : i.action = i.agent

\* Violated by the code: only a later attempt's end excuses a stalled one (R9).
EarlierSuccessExcusesNothing ==
    ~mode.faults => []<>(\A i \in Listed :
        /\ Ours(i) /\ ~Ended(runs[i]) /\ now - runs[i].at > StalledThreshold
        /\ \A j \in Listed : j > i => runs[j].workflow # runs[i].workflow
        => \E k \in open : k.class = "EXECUTION_STALLED" /\ k.action = runs[i].workflow)

=============================================================================
