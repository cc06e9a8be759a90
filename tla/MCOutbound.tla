------------------------------ MODULE MCOutbound ------------------------------
(* Three installs of two triggers, one of them asked for too often; three     *)
(* presses; two evaluations.  Each mode lets one kind of caller loose.        *)
EXTENDS Alerts, TLC

CONSTANTS i1, i2, i3, i4, p1, p2, p3, e1, e2, n1, n2

Ask(kind, signedIn, complete, soon) ==
    [kind |-> kind, signedIn |-> signedIn, complete |-> complete, soon |-> soon]
MCAsks == i1 :> Ask("schedule", TRUE, TRUE, FALSE) @@ i2 :> Ask("schedule", TRUE, TRUE, FALSE)
          @@ i3 :> Ask("event", TRUE, TRUE, FALSE) @@ i4 :> Ask("schedule", TRUE, TRUE, TRUE)
MCChannels == <<"log", "page", "email">>

Kinds == {"opened", "escalated", "remediation_failed", "resolved"}
Route(channel, min, kinds, silent) == [channel |-> channel, min |-> min, kinds |-> kinds, quiet |-> silent]
Deployed == {Route(c, "critical", Kinds, FALSE) : c \in {"log", "page", "email"}}
\* Two routes fall silent in quiet hours; the second to the mail takes ends of
\* whatever severity, the first no escalation.
Quieted == {Route("log", "warning", Kinds, FALSE), Route("page", "warning", Kinds, TRUE),
            Route("email", "critical", Kinds \ {"escalated"}, FALSE), Route("email", "warning", {"resolved"}, TRUE)}

Mode(callers, sequential, faults, deletes, paid, alerts, routes) ==
    [callers |-> callers, sequential |-> sequential, faults |-> faults, deletes |-> deletes,
     paid |-> paid, alerts |-> alerts, routes |-> routes,
     flaky |-> {"page"}]
MCModes == {
    Mode({i1, i2, i3, i4}, FALSE, FALSE, TRUE, TRUE, FALSE, Deployed),
    Mode({i1, i2, i4}, TRUE, TRUE, TRUE, TRUE, FALSE, Deployed),
    Mode({i1, i2}, FALSE, TRUE, FALSE, FALSE, FALSE, Deployed),
    Mode({p1, p2, p3}, TRUE, FALSE, FALSE, TRUE, FALSE, Deployed),
    Mode({p1, p2}, TRUE, TRUE, FALSE, TRUE, FALSE, Deployed),
    Mode({p1, p2}, FALSE, TRUE, FALSE, TRUE, FALSE, Deployed),
    Mode({e1, e2}, TRUE, TRUE, FALSE, TRUE, TRUE, Quieted),
    Mode({e1, e2}, FALSE, FALSE, FALSE, TRUE, TRUE, {r \in Deployed : r.channel # "log"})}
=============================================================================
