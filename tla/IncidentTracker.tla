-------------------------- MODULE IncidentTracker --------------------------
(***************************************************************************)
(* The recorder's evaluation of watched signers and the incident tracker   *)
(* it feeds (packages/recorder, packages/detector): which signers a tick   *)
(* evaluates, what an evaluation's snapshot makes of the open incidents,   *)
(* and how the tracker's in-memory incidents reach their rows, one awaited *)
(* save at a time.  The tracker is one object shared by every signer and   *)
(* every tick; an incident in it is a mutable object shared by reference.  *)
(* A target stands for (signer, chain, agent); a key is a target and an    *)
(* incident class.                                                         *)
(***************************************************************************)
EXTENDS Naturals, FiniteSets, FiniteSetsExt, SequencesExt

CONSTANTS
    Modes,         \* instances: the watched signers, what ends an incident of
                   \* each class (see Kinds), whether reads of the chain and
                   \* writes of rows may fail and the process may die mid-tick,
                   \* and bounds: the last instant of the clock, incidents,
                   \* changes of the world, requests beside the recorder
    Evaluators,    \* ticks that may overlap: setInterval does not wait for one
    CausalWindow   \* causalWindowMs in clock ticks

\* "transaction": over when a transaction of the signer changes the chain
\* (a filled nonce gap); "elapsed": over when time has passed (a retry storm);
\* "standing": no predicate ever ends it (the default of resolutionOf);
\* "adverse": only a successful remediation does.
Kinds == {"transaction", "elapsed", "standing", "adverse"}

ASSUME ModeAssumption == \A m \in Modes :
    /\ m.targets # {} /\ IsFiniteSet(m.targets)
    /\ m.kind \in [DOMAIN m.kind -> Kinds] /\ DOMAIN m.kind # {} /\ IsFiniteSet(DOMAIN m.kind)
    /\ m.faults \in BOOLEAN
    /\ {m.until, m.ids, m.changes, m.requests} \subseteq Nat
ASSUME WindowAssumption == CausalWindow \in Nat

VARIABLES
    mode,
    now, changes,
    holds,   \* keys whose condition holds in the world
    due,     \* targets with a watched transaction that has not settled
    issued,  \* incident ids handed out
    keyOf,   \* id -> key, set when the incident is created
    mem,     \* id -> the tracker's object
    open,    \* key -> id of its open incident, or 0
    rows,    \* id -> the stored row
    ev       \* evaluator -> the local state of its tick

world == <<changes, holds, due>>
tracker == <<issued, keyOf, mem, open>>
vars == <<mode, now, world, tracker, rows, ev>>

Targets == mode.targets
Kind == mode.kind
KeysOf(m) == m.targets \X DOMAIN m.kind
Key == KeysOf(mode)
Ids == 1..mode.ids
SomeKey == CHOOSE k \in Key : TRUE

Statuses == {"none", "open", "acknowledged", "resolved"}
Attributions == {"nobody", "unknown", "external", "blackbox", "blackbox-proposed"}
\* The remediation an incident carries: none, or how the last one ended.
Fixes == {"none", "unsuccessful", "ours", "user-signed"}

Object == [status : Statuses, by : Attributions, fix : Fixes, seenAt : Nat]
Row == [status : Statuses, by : Attributions, fix : Fixes]

Blank == [status |-> "none", by |-> "nobody", fix |-> "none", seenAt |-> 0]
NoRow == [status |-> "none", by |-> "nobody", fix |-> "none"]
RowOf(o) == [status |-> o.status, by |-> o.by, fix |-> o.fix]

Live(r) == r.status \in {"open", "acknowledged"}

\* corroboration: whether the chain answered; window: the target's keys that
\* held when it was read; queue: incidents still to save; writing: the values
\* the save in progress took from its object.
Tick0 == [pc |-> "idle", touched |-> {}, target |-> CHOOSE t \in Targets : TRUE, at |-> 0,
          corroborated |-> FALSE, window |-> {}, queue |-> <<>>, writing |-> NoRow]

Init ==
    /\ mode \in Modes
    /\ now = 0 /\ changes = 0
    /\ holds = {} /\ due = {}
    /\ issued = 0
    /\ keyOf = [i \in Ids |-> SomeKey]
    /\ mem = [i \in Ids |-> Blank]
    /\ open = [k \in Key |-> 0]
    /\ rows = [i \in Ids |-> NoRow]
    /\ ev = [e \in Evaluators |-> Tick0]

(***************************************************************************)
(* The world.                                                              *)
(***************************************************************************)
Change == changes < mode.changes /\ changes' = changes + 1

\* A condition sets in with a transaction of the signer, which is watched.
Onset(k) ==
    /\ Change
    /\ k \notin holds
    /\ holds' = holds \union {k}
    /\ due' = due \union {k[1]}
    /\ UNCHANGED <<now, tracker, rows, ev>>

\* Only what ends by itself ends without a transaction to watch.
Clear(k) ==
    /\ Change
    /\ k \in holds
    /\ Kind[k[2]] \in {"transaction", "elapsed"}
    /\ holds' = holds \ {k}
    /\ due' = IF Kind[k[2]] = "transaction" THEN due \union {k[1]} ELSE due
    /\ UNCHANGED <<now, tracker, rows, ev>>

Pass ==
    /\ now < mode.until
    /\ now' = now + 1
    /\ UNCHANGED <<world, tracker, rows, ev>>

(***************************************************************************)
(* One tick of the recorder.                                               *)
(***************************************************************************)
\* The tick looks only at signers whose transactions are still unsettled after
\* it has polled them.
PollUnsettled(e) ==
    /\ ev[e].pc = "idle"
    /\ due # {}
    /\ due' \in SUBSET due
    /\ ev' = [ev EXCEPT ![e].pc = "next", ![e].touched = due']
    /\ UNCHANGED <<now, changes, holds, tracker, rows>>

\* The unsettled transactions are polled; their signers are the ones evaluated.
\* Any of them may settle and is then not polled again.
Poll(e) ==
    /\ ev[e].pc = "idle"
    /\ due # {}
    /\ due' \in SUBSET due
    /\ ev' = [ev EXCEPT ![e].pc = "next", ![e].touched = due]
    /\ UNCHANGED <<now, changes, holds, tracker, rows>>

\* evaluateSigner: the time is taken first, the chain and the window after it.
Evaluate(e, t) ==
    /\ ev[e].pc = "next"
    /\ t \in ev[e].touched
    /\ ev' = [ev EXCEPT ![e].pc = "reading", ![e].touched = @ \ {t},
                        ![e].target = t, ![e].at = now]
    /\ UNCHANGED <<now, world, tracker, rows>>

\* A failed read of the chain leaves the rules and predicates of a gap without
\* facts; the others go by the stored events alone.
ReadWindow(e) ==
    /\ ev[e].pc = "reading"
    /\ \E ok \in IF mode.faults THEN BOOLEAN ELSE {TRUE} :
          ev' = [ev EXCEPT ![e].pc = "read", ![e].corroborated = ok,
                           ![e].window = {k \in holds : /\ k[1] = ev[e].target
                                                        /\ ok \/ Kind[k[2]] # "transaction"}]
    /\ UNCHANGED <<now, world, tracker, rows>>

Stale(k, at) == at > mem[open[k]].seenAt + CausalWindow

\* resolutionOf: the incident may be any target's, the window is this one's.
Ended(k, e) ==
    LET class == Kind[k[2]] IN
    \/ /\ class = "elapsed" \/ (class = "transaction" /\ ev[e].corroborated)
       /\ <<ev[e].target, k[2]>> \notin ev[e].window
    \/ class = "adverse" /\ mem[open[k]].fix \in {"ours", "user-signed"}

AttributionOf(o) ==
    IF o.fix = "ours" THEN "blackbox"
    ELSE IF o.fix = "user-signed" THEN "blackbox-proposed" ELSE "external"

Finished(o, by) == [o EXCEPT !.status = "resolved", !.by = by]

OpenIds(keys) == {open[k] : k \in keys}

\* What an ingest has to save: superseded incidents are among the resolved.
SaveQueueWithoutSuperseded(created, updated, superseded, resolved) ==
    created \o updated \o resolved

SaveQueue(created, updated, superseded, resolved) ==
    created \o updated \o superseded \o resolved

\* tracker.ingest, for the keys a rule fired for; a condition in the window need
\* not fire its rule yet.  The first save takes its values in the same breath.
IngestFired(e, fired) ==
    LET at == ev[e].at
        superseded == {k \in fired : open[k] # 0 /\ Stale(k, at)}
        created == {k \in fired : open[k] = 0} \union superseded
        updated == fired \ created
        resolved == {k \in Key \ fired : open[k] # 0 /\ Ended(k, e)}
        order == SetToSeq(created)
        newIds == {issued + n : n \in 1..Len(order)}
        objects == [i \in Ids |->
            IF i \in newIds THEN [Blank EXCEPT !.status = "open", !.seenAt = at]
            ELSE IF i \in OpenIds(updated) THEN [mem[i] EXCEPT !.seenAt = at]
            ELSE IF i \in OpenIds(superseded) THEN Finished(mem[i], "unknown")
            ELSE IF i \in OpenIds(resolved) THEN Finished(mem[i], AttributionOf(mem[i]))
            ELSE mem[i]]
        queue == SaveQueue(SetToSeq(newIds), SetToSeq(OpenIds(updated)),
                           SetToSeq(OpenIds(superseded)), SetToSeq(OpenIds(resolved)))
    IN
    /\ issued + Len(order) <= mode.ids
    /\ issued' = issued + Len(order)
    /\ keyOf' = [i \in Ids |-> IF i \in newIds THEN order[i - issued] ELSE keyOf[i]]
    /\ mem' = objects
    /\ open' = [k \in Key |->
                  IF k \in created THEN issued + CHOOSE n \in DOMAIN order : order[n] = k
                  ELSE IF k \in resolved THEN 0 ELSE open[k]]
    /\ ev' = [ev EXCEPT ![e].pc = IF queue = <<>> THEN "next" ELSE "saving",
                        ![e].window = {}, ![e].queue = queue,
                        ![e].writing = IF queue = <<>> THEN NoRow ELSE RowOf(objects[Head(queue)])]
    /\ UNCHANGED <<now, world, rows>>

Ingest(e) == ev[e].pc = "read" /\ \E fired \in SUBSET ev[e].window : IngestFired(e, fired)

(***************************************************************************)
(* saveIncident, an upsert by id; a row without a remediation leaves the   *)
(* stored one alone.                                                       *)
(***************************************************************************)
Upsert(i, r) ==
    [rows EXCEPT ![i] = [r EXCEPT !.fix = IF @ = "none" THEN rows[i].fix ELSE @]]

CommitSave(e) ==
    /\ ev[e].pc = "saving"
    /\ rows' = Upsert(Head(ev[e].queue), ev[e].writing)
    /\ ev' = [ev EXCEPT ![e].pc = "alerting", ![e].queue = Tail(@), ![e].writing = NoRow]
    /\ UNCHANGED <<now, world, tracker>>

\* The rejected save ends this signer's evaluation; the tick goes on.
SaveFails(e) ==
    /\ mode.faults
    /\ ev[e].pc = "saving"
    /\ ev' = [ev EXCEPT ![e].pc = "next", ![e].queue = <<>>, ![e].writing = NoRow]
    /\ UNCHANGED <<now, world, tracker, rows>>

\* The alerter has been awaited; the next save reads its object only now.
NextSave(e) ==
    /\ ev[e].pc = "alerting"
    /\ ev' = IF ev[e].queue = <<>> THEN [ev EXCEPT ![e].pc = "next"]
             ELSE [ev EXCEPT ![e].pc = "saving",
                             ![e].writing = RowOf(mem[Head(ev[e].queue)])]
    /\ UNCHANGED <<now, world, tracker, rows>>

EndTick(e) ==
    /\ ev[e].pc = "next"
    /\ ev[e].touched = {}
    /\ ev' = [ev EXCEPT ![e] = Tick0]
    /\ UNCHANGED <<now, world, tracker, rows>>

(***************************************************************************)
(* The process dies and comes back: restoreOpenIncidents and hydrate.      *)
(***************************************************************************)
LiveOf(k) == {i \in 1..issued : keyOf[i] = k /\ Live(rows[i])}

\* The newest row of a key is restored, whatever its status.
RestoredNewest(k) ==
    LET all == {i \in 1..issued : keyOf[i] = k /\ rows[i].status # "none"} IN
    IF all = {} THEN 0 ELSE Max(all)

\* Open rows are restored before acknowledged ones, each newest first; the first
\* of a key is the one that is tracked.
Restored(k) ==
    LET opened == {i \in LiveOf(k) : rows[i].status = "open"} IN
    IF LiveOf(k) = {} THEN 0 ELSE Max(IF opened = {} THEN LiveOf(k) ELSE opened)

\* Ids are counted from the beginning again.
RestartReissuing ==
    /\ mode.faults \/ \A e \in Evaluators : ev[e].pc = "idle"
    /\ issued' = 0
    /\ open' = [k \in Key |-> Restored(k)]
    /\ mem' = [i \in Ids |->
                 IF i \in OpenIds(Key)' THEN [Blank EXCEPT !.status = rows[i].status,
                     !.by = rows[i].by, !.fix = rows[i].fix, !.seenAt = now]
                 ELSE Blank]
    /\ ev' = [e \in Evaluators |-> Tick0]
    /\ UNCHANGED <<now, world, keyOf, rows>>

Restart ==
    /\ mode.faults \/ \A e \in Evaluators : ev[e].pc = "idle"
    /\ open' = [k \in Key |-> Restored(k)]
    /\ mem' = [i \in Ids |->
                 IF i \in OpenIds(Key)' THEN [Blank EXCEPT !.status = rows[i].status,
                     !.by = rows[i].by, !.fix = rows[i].fix, !.seenAt = now]
                 ELSE Blank]
    /\ ev' = [e \in Evaluators |-> Tick0]
    /\ UNCHANGED <<now, world, issued, keyOf, rows>>

Step(e) ==
    \/ Poll(e) \/ ReadWindow(e) \/ Ingest(e)
    \/ CommitSave(e) \/ SaveFails(e) \/ NextSave(e) \/ EndTick(e)
    \/ \E t \in Targets : Evaluate(e, t)

Next ==
    /\ UNCHANGED mode
    /\ \/ \E e \in Evaluators : Step(e)
       \/ \E k \in Key : Onset(k) \/ Clear(k)
       \/ Pass
       \/ Restart

Spec == Init /\ [][Next]_vars

\* The interval timer keeps ticking and every await of a tick settles.
FairSpec == Spec /\ \A e \in Evaluators : WF_vars(UNCHANGED mode /\ Step(e))

(***************************************************************************)
(* Properties.                                                             *)
(***************************************************************************)
TickState == [pc : {"idle", "next", "reading", "read", "saving", "alerting"},
              touched : SUBSET Targets, target : Targets, at : Nat, corroborated : BOOLEAN,
              window : SUBSET Key, queue : Seq(Ids), writing : Row]

TypeOK ==
    /\ mode \in Modes
    /\ now \in Nat /\ changes \in Nat
    /\ holds \subseteq Key /\ due \subseteq Targets
    /\ issued \in 0..mode.ids
    /\ keyOf \in [Ids -> Key]
    /\ mem \in [Ids -> Object]
    /\ open \in [Key -> 0..issued]
    /\ rows \in [Ids -> Row]
    /\ ev \in [Evaluators -> TickState]

PendingSave(i) == \E e \in Evaluators : i \in Range(ev[e].queue)

\* Whether nobody but the recorder writes rows.
Alone == mode.requests = 0

\* Nothing is left open with nobody to close it (tracker.ingest: closing an
\* incident only in memory "left the stored row `open` for ever with nothing left
\* to close it"): a live row is the tracked incident of its key, or a save of it
\* is on its way, as long as nobody else writes rows, saves succeed and the process
\* does not die mid-tick.
NoRowIsOrphaned ==
    Alone /\ ~mode.faults =>
        \A i \in 1..issued : Live(rows[i]) => open[keyOf[i]] = i \/ PendingSave(i)

\* Conversely, what is tracked as open is stored as live, or is about to be:
\* a restart neither forgets an incident nor files a second one for its key, as
\* long as nobody else writes rows and saves succeed.
TrackedIsStored ==
    Alone /\ ~mode.faults =>
        \A k \in Key : open[k] # 0 => Live(rows[open[k]]) \/ PendingSave(open[k])

\* The recorder never takes back a resolution it has stored, whatever it learns
\* about the key later, while nobody else writes the rows: a new occurrence is a
\* new incident.
ResolvedStaysResolved ==
    [][Alone => \A i \in Ids : rows[i].status = "resolved" => rows'[i].status = "resolved"]_vars

\* What the tracker holds open is not stored as resolved, through crashes, failed
\* reads and failed saves alike: the next save of it never revives a closed row,
\* unless somebody else closed it.
TrackedIsNotResolved == Alone => \A k \in Key : open[k] # 0 => rows[open[k]].status # "resolved"

\* When a condition a transaction can end is over for good, every row filed for
\* it is eventually resolved, restarts between ticks included.
EndedIsResolved ==
    \A m \in Modes : \A k \in KeysOf(m) :
        ~m.faults /\ m.kind[k[2]] = "transaction" =>
            ((mode = m /\ <>[](k \notin holds)) => <>[](LiveOf(k) = {}))

\* resolutionOf "returns the attribution when the incident is over, or null while
\* it stands": at the ingest that ends an incident as resolved, a window of its
\* own signer has been seen without its condition.
ResolvedMeansOver ==
    [][\A k \in Key : open[k] # 0 /\ mem'[open[k]].status = "resolved"
                      /\ mem'[open[k]].by = "external"
          => \E e \in Evaluators : ev[e].pc = "read" /\ ev[e].target = k[1]]_vars

\* The same promise for a condition that only time ends (RETRY_STORM: "resolved
\* once the storm stops").
StormIsResolved ==
    \A m \in Modes : \A k \in KeysOf(m) :
        ~m.faults /\ m.kind[k[2]] = "elapsed" =>
            ((mode = m /\ <>[](k \notin holds)) => <>[](LiveOf(k) = {}))
=============================================================================
