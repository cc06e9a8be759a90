-------------------------------- MODULE Alerts ------------------------------
(***************************************************************************)
(* What is said about incidents, and where (packages/alerter, called by    *)
(* RecorderLoop's evaluation after each save).  An evaluation folds what   *)
(* the rules found into the incidents in memory, then saves each of them   *)
(* and considers it as it is by then; the alerter remembers what it last   *)
(* said of each, whether or not a channel took it.                         *)
(* An alert is delivered to its channels one after another, by mail through*)
(* a workflow of the operator's organisation.                              *)
(***************************************************************************)
EXTENDS Workflows

CONSTANTS
    Incidents,
    Channels   \* in the order they are tried; a mode has the routes to them

ASSUME AlertsAssumption == IsFiniteSet(Incidents) /\ Channels \in Seq(STRING)

VARIABLES
    incident,  \* id -> the tracker's object: status, severity, failed
    row,       \* id -> what is stored of it
    queue,     \* evaluation -> the incidents it has still to save and consider
    saying,    \* evaluation -> the alert it is delivering
    stored,    \* evaluation -> whether the first of its queue has been saved
    targets,   \* evaluation -> the places in Channels it has still to reach
    memory,    \* id -> what was last said of it
    told,      \* id -> what was said since the process started, in order
    heard,     \* history: whose critical alert which channel took since it started
    quiet      \* whether it is within the quiet hours

avars == <<incident, row, queue, stored, saying, targets, memory, told, heard, quiet>>
alertsVars == <<wvars, avars>>

Evaluations == Mailers
Nothing == [kind |-> "none", severity |-> "none", of |-> "none"]
NewIncident == [status |-> "none", severity |-> "warning", failed |-> FALSE]
Rank(s) == IF s = "critical" THEN 2 ELSE 1
Severities == {"warning", "critical"}
Alert(i, kind) == [kind |-> kind, severity |-> incident[i].severity, of |-> i]

AlertsTypeOK ==
    /\ \A i \in Incidents :
          /\ incident[i].status \in {"none", "open", "resolved"}
          /\ row[i].status = "resolved" => incident[i].status = "resolved"
          /\ memory[i] # Nothing => memory[i].of = i /\ memory[i].severity \in Severities
    /\ \A e \in Evaluations : /\ targets[e] # {} => saying[e] # Nothing
                             /\ stored[e] => queue[e] # <<>>

AlertsInit ==
    /\ WorkflowsInit
    /\ incident = [i \in Incidents |-> NewIncident]
    /\ row = [i \in Incidents |-> NewIncident]
    /\ queue = [e \in Evaluations |-> <<>>]
    /\ stored = [e \in Evaluations |-> FALSE]
    /\ saying = [e \in Evaluations |-> Nothing]
    /\ targets = [e \in Evaluations |-> {}]
    /\ memory = [i \in Incidents |-> Nothing]
    /\ told = [i \in Incidents |-> <<>>] /\ heard = {}
    /\ quiet = FALSE

(***************************************************************************)
(* An evaluation: what fired opens an incident or worsens it, what stopped *)
(* may have resolved; those are considered, the new ones first.            *)
(***************************************************************************)
Busy(e) == queue[e] # <<>> \/ targets[e] # {}
May(e) == /\ mode.alerts /\ ~Busy(e) /\ at[e] = "idle"
          /\ mode.sequential => \A d \in Evaluations : ~Busy(d)

Worse(s, t) == IF Rank(s) < Rank(t) THEN t ELSE s
Ingested(i, found) ==
    CASE found \in Severities -> [incident[i] EXCEPT !.status = "open", !.severity = Worse(@, found)]
      [] found = "over" -> [incident[i] EXCEPT !.status = "resolved"]
      [] OTHER -> incident[i]

\* Some order of the elements of a set.
Listed(S) == CHOOSE q \in [1..Cardinality(S) -> S] : \A x \in S : \E k \in DOMAIN q : q[k] = x

Ingest(e, found) ==
    /\ May(e)
    /\ \A i \in Incidents :
          /\ incident[i].status = "resolved" => found[i] = "nothing"
          /\ incident[i].status = "none" => found[i] # "over"
    /\ \E i \in Incidents : found[i] # "nothing"
    /\ incident' = [i \in Incidents |-> Ingested(i, found[i])]
    /\ queue' = [queue EXCEPT ![e] =
          Listed({i \in Incidents : found[i] \in Severities /\ incident[i].status = "none"})
          \o Listed({i \in Incidents : found[i] \in Severities /\ incident[i].status = "open"})
          \o Listed({i \in Incidents : found[i] = "over"})]
    /\ UNCHANGED <<wvars, row, stored, saying, targets, memory, told, heard, quiet>>

\* The remediator could not help, or could after all; memory and row both learn.
Remediated(i) ==
    /\ mode.alerts /\ incident[i].status = "open" /\ row[i].status = "open"
    /\ incident' = [incident EXCEPT ![i].failed = ~@]
    /\ row' = [row EXCEPT ![i].failed = incident'[i].failed]
    /\ UNCHANGED <<wvars, queue, stored, saying, targets, memory, told, heard, quiet>>

(***************************************************************************)
(* alertFor and selectRoutes.                                              *)
(***************************************************************************)
\* An incident is news when it opens and when it ends.
kindForEnds(i) ==
    IF incident[i].status = "resolved"
    THEN IF memory[i].kind \in {"none", "resolved"} THEN "none" ELSE "resolved"
    ELSE IF memory[i] = Nothing THEN "opened" ELSE "none"

\* A failed remediation is news whenever it is seen.
kindForEachFailure(i) == IF incident[i].failed THEN "remediation_failed" ELSE kindForEnds(i)

kindFor(i) ==
    LET m == memory[i]
        over == incident[i].status = "resolved"
    IN  CASE m = Nothing /\ over -> "none"
          [] m = Nothing /\ ~over -> IF incident[i].failed THEN "remediation_failed" ELSE "opened"
          [] m # Nothing /\ over -> IF m.kind = "resolved" THEN "none" ELSE "resolved"
          [] m # Nothing /\ ~over ->
                IF incident[i].failed /\ m.kind # "remediation_failed" THEN "remediation_failed"
                ELSE IF Rank(incident[i].severity) > Rank(m.severity) THEN "escalated" ELSE "none"

\* Quiet hours keep everything but what is critical.
selectsCriticalOnly(route, alert) ==
    /\ Rank(alert.severity) >= Rank(route.min) /\ alert.kind \in route.kinds
    /\ route.quiet => alert.severity = "critical" \/ ~quiet

selects(route, alert) ==
    /\ Rank(alert.severity) >= Rank(route.min) /\ alert.kind \in route.kinds
    /\ route.quiet => alert.severity = "critical" \/ alert.kind = "resolved" \/ ~quiet

\* The places of the channels some route takes the alert to.
Wanted(alert) == {k \in DOMAIN Channels :
    \E route \in mode.routes : route.channel = Channels[k] /\ selects(route, alert)}

(***************************************************************************)
(* saveIncident, awaited, then consider: decided at once, delivered one    *)
(* await at a time, remembered when the last channel has answered, if only *)
(* with an error, or none is wanted.                                       *)
(***************************************************************************)
Said(alert, to) == told' = [told EXCEPT ![alert.of] = Append(@, [alert EXCEPT !.of = to])]
Remember(alert) == memory' = [memory EXCEPT ![alert.of] = alert]
Unsaved(e) == queue[e] # <<>> /\ targets[e] = {} /\ ~stored[e]

Save(e) ==
    /\ Unsaved(e)
    /\ row' = [row EXCEPT ![Head(queue[e])] = incident[Head(queue[e])]]
    /\ stored' = [stored EXCEPT ![e] = TRUE]
    /\ UNCHANGED <<wvars, incident, queue, saying, targets, memory, told, heard, quiet>>

\* A save that throws ends the evaluation.
SaveFails(e) ==
    /\ mode.faults /\ Unsaved(e)
    /\ queue' = [queue EXCEPT ![e] = <<>>]
    /\ UNCHANGED <<wvars, incident, row, stored, saying, targets, memory, told, heard, quiet>>

\* It is considered whether or not it could be saved.
MayConsiderUnsaved(e) == queue[e] # <<>> /\ targets[e] = {}
MayConsider(e) == queue[e] # <<>> /\ targets[e] = {} /\ stored[e]

Consider(e) ==
    /\ MayConsider(e)
    /\ LET i == Head(queue[e])
           kind == kindFor(i)
           alert == Alert(i, kind)
           wanted == Wanted(alert)
       IN  /\ queue' = [queue EXCEPT ![e] = Tail(@)]
           /\ IF kind = "none" THEN UNCHANGED <<saying, targets, memory, told>>
              ELSE /\ targets' = [targets EXCEPT ![e] = wanted]
                   /\ saying' = [saying EXCEPT ![e] = IF wanted = {} THEN Nothing ELSE alert]
                   /\ Said(alert, {Channels[k] : k \in wanted})
                   /\ IF wanted = {} THEN Remember(alert) ELSE UNCHANGED memory
    /\ stored' = [stored EXCEPT ![e] = FALSE]
    /\ UNCHANGED <<wvars, incident, row, heard, quiet>>

\* A channel that fails is noted and the next one tried; nothing tries it again.
Foremost(e) == CHOOSE k \in targets[e] : \A j \in targets[e] : k <= j
RemainingIfTaken(e, taken) == IF taken THEN targets[e] \ {Foremost(e)} ELSE {}
Remaining(e, taken) == targets[e] \ {Foremost(e)}
Reached(e, taken) ==
    /\ targets' = [targets EXCEPT ![e] = Remaining(e, taken)]
    /\ heard' = IF taken /\ saying[e].severity = "critical"
                THEN heard \union {<<saying[e].of, Channels[Foremost(e)]>>} ELSE heard
    /\ IF targets'[e] # {} THEN UNCHANGED <<saying, memory>>
       ELSE Remember(saying[e]) /\ saying' = [saying EXCEPT ![e] = Nothing]
    /\ UNCHANGED <<incident, row, queue, stored, told, quiet>>

\* The log, which always takes it, or a webhook, which answers or fails.
Deliver(e) ==
    /\ targets[e] # {} /\ Channels[Foremost(e)] # "email"
    /\ \E taken \in BOOLEAN :
          /\ ~taken => Channels[Foremost(e)] \in mode.flaky
          /\ Reached(e, taken)
    /\ UNCHANGED wvars

\* keeperHubEmailChannel: the workflow is ensured and run.
Mail(e) ==
    /\ targets[e] # {} /\ Channels[Foremost(e)] = "email" /\ at[e] = "idle"
    /\ Begins(e) /\ Ensured(e)
    /\ left' = [left EXCEPT ![e] = 1]
    /\ UNCHANGED <<mode, listing, spurned, minted, pressed, process, lastRun, now, avars>>

Mailed(e) ==
    /\ targets[e] # {} /\ Channels[Foremost(e)] = "email" /\ at[e] = "done"
    /\ Reached(e, answer[e] = "ran")
    /\ at' = [at EXCEPT ![e] = "idle"] /\ answer' = [answer EXCEPT ![e] = "none"]
    /\ UNCHANGED <<mode, listing, using, began, spurned, minted, pressed, left, process, lastRun, now>>

Turns ==
    /\ mode.alerts /\ \E route \in mode.routes : route.quiet
    /\ quiet' = ~quiet
    /\ UNCHANGED <<wvars, incident, row, queue, stored, saying, targets, memory, told, heard>>

\* The process stops and starts: what it said is forgotten, and the tracker
\* holds what the rows say is not over.
Restart ==
    /\ Forgets
    /\ incident' = row
    /\ queue' = [e \in Evaluations |-> <<>>]
    /\ stored' = [e \in Evaluations |-> FALSE]
    /\ saying' = [e \in Evaluations |-> Nothing]
    /\ targets' = [e \in Evaluations |-> {}]
    /\ memory' = [i \in Incidents |-> Nothing]
    /\ told' = [i \in Incidents |-> <<>>] /\ heard' = {}
    /\ UNCHANGED <<row, quiet>>

Findings == [Incidents -> Severities \union {"over", "nothing"}]
Answers(e) == Consider(e) \/ Deliver(e) \/ Mail(e) \/ Mailed(e)
Proceeds(e) == Save(e) \/ Answers(e)
\* An evaluation of its signer finds an open incident as bad as it is.
Confirms(e, i) == \E found \in Findings :
    /\ incident[i].status = "open" /\ found[i] = incident[i].severity
    /\ Ingest(e, found)

AlertsNext ==
    \/ (Operates \/ \E c \in Callers : Works(c) \/ Throws(c)) /\ UNCHANGED avars
    \/ \E e \in Evaluations : \/ Proceeds(e) \/ SaveFails(e)
                              \/ \E found \in Findings : Ingest(e, found)
    \/ \E i \in Incidents : Remediated(i)
    \/ Turns \/ Restart

\* Requests are answered; a store that is asked to save again and again does not
\* fail for ever.  Nothing makes a signer be evaluated.
Fairness ==
    /\ \A c \in Callers : WF_alertsVars(Works(c) /\ UNCHANGED avars)
    /\ \A e \in Evaluations : WF_alertsVars(Answers(e)) /\ SF_alertsVars(Save(e))
AlertsSpec == AlertsInit /\ [][AlertsNext]_alertsVars /\ Fairness

(***************************************************************************)
(* Properties.                                                             *)
(***************************************************************************)
\* An operator hears of each moment once, never of a lower severity than before,
\* and of nothing after the end (alert.ts:37, "so the same thing is not said
\* twice"); a failed remediation is said again only of what has worsened since.
SaidOnce == \A i \in Incidents : \A j, k \in DOMAIN told[i] : j < k =>
    LET before == told[i][j]  after == told[i][k] IN
    /\ Rank(before.severity) <= Rank(after.severity)
    /\ before.kind = after.kind => before.severity # after.severity
    /\ before.kind # "resolved"

\* It holds while evaluations do not overlap and the process lives.
\* Violated by the code where they do (runtime.ts:344 starts a tick whether or
\* not the last has ended): both consider the incident before either remembers.
AloneSaidOnce == mode.sequential => SaidOnce

\* Whoever was told of an incident is told when it ends, quiet hours or not
\* (routing.ts:41, "delivered wherever the problem was reported"), where a route
\* for what they were told takes resolutions.
Reports(c, severity) == \E route \in mode.routes :
    route.channel = c /\ Rank(severity) >= Rank(route.min) /\ "resolved" \in route.kinds
EndIsToldWhereItBegan == \A i \in Incidents : \A j, k \in DOMAIN told[i] :
    (j < k /\ told[i][k].kind = "resolved") =>
        {c \in told[i][j].of : Reports(c, told[i][j].severity)} \subseteq told[i][k].of

\* What is being said of an incident is stored by then (recorder.ts:380, "an alert
\* never describes a state that was not persisted").
SaidIsStored == \A e \in Evaluations : targets[e] # {} =>
    /\ row[saying[e].of].severity = saying[e].severity
    /\ saying[e].kind = "resolved" => row[saying[e].of].status = "resolved"

\* It holds while evaluations do not overlap.  Violated by the code where they do:
\* the other one worsens or ends the object while this one awaits its save.
AloneSaidIsStored == mode.sequential => SaidIsStored

OutboundHolds ==
    /\ WorkflowsTypeOK /\ AlertsTypeOK
    /\ InstalledFires /\ NamedNotCounted /\ AlonePressesAreSpaced
    /\ AloneSaidOnce /\ AloneSaidIsStored /\ EndIsToldWhereItBegan

\* A channel that takes what it is given, and to which a route takes whatever
\* is critical, quiet hours or not.
Serves(c) == c \notin mode.flaky /\ (c = "email" => ~mode.faults /\ ~mode.deletes)
Takes(c) == \E route \in mode.routes :
    route.channel = c /\ {"opened", "escalated", "remediation_failed"} \subseteq route.kinds
Critical(i) == incident[i].status = "open" /\ incident[i].severity = "critical"
IsHeard(i, c) == <<i, c>> \in heard
IsHeardBy(i, c) == (Critical(i) /\ Takes(c)) ~> (IsHeard(i, c) \/ ~Critical(i))
Reevaluated(i) == []<><<\E e \in Evaluations : Confirms(e, i)>>_alertsVars

\* An incident that is critical, stays so and is found so again and again is heard
\* of on every channel that works, though the other channels fail, saves fail and
\* the process restarts (alerter.ts:68, "One dead channel must not stop the
\* others"; alerter.ts:37, "an operator finds out").
CriticalIsHeard ==
    \A i \in Incidents : \A k \in DOMAIN Channels :
        Reevaluated(i) => (Serves(Channels[k]) => IsHeardBy(i, Channels[k]))

\* Violated by the code: it is heard of whether or not its signer is evaluated
\* again.  Only signers with something unsettled are (recorder.ts:186), so a save
\* that throws on the last of them leaves a storm or a revert unsaid.
CriticalIsHeardAtOnce ==
    \A i \in Incidents : \A k \in DOMAIN Channels :
        Serves(Channels[k]) => IsHeardBy(i, Channels[k])

\* Violated by the code: a channel that fails once gets it later.  A delivery that
\* fails is remembered as said (alerter.ts:67).
FailedIsTriedAgain ==
    \A i \in Incidents : \A k \in DOMAIN Channels : Reevaluated(i) => IsHeardBy(i, Channels[k])
=============================================================================
