------------------------------ MODULE MCConsole -----------------------------
(* One incident anybody may read and one its owner alone may; a mode lets    *)
(* loose the console against the runtime, the pages that sign, the pages     *)
(* that pick, or the questions about transactions, each with its bounds.     *)
EXTENDS Diagnosis, TLC

CONSTANTS n1, n2, t1, t2, a1, h1, h2, h3, p1, p2, s1, k1, k2, w1, w2, q1, q2, x1, x2

Quiet == [timers |-> {}, rows |-> {}, acks |-> {}, changes |-> 0, connections |-> 0, asked |-> 0,
          signedIn |-> FALSE, faults |-> FALSE, page |-> FALSE, types |-> {}, filters |-> {},
          panels |-> {}, scenes |-> {}, pickers |-> {}, picks |-> {}, elsewhere |-> FALSE,
          renonces |-> FALSE, pastes |-> FALSE, named |-> TRUE, askers |-> {}]
Watching(changed, connections, loads) ==
    [Quiet EXCEPT !.timers = {t1}, !.rows = {n1}, !.changes = changed,
                  !.connections = connections, !.asked = loads]

MCModes == {
    [Watching(2, 1, 0) EXCEPT !.acks = {a1}, !.signedIn = TRUE],
    [Watching(2, 1, 1) EXCEPT !.faults = TRUE, !.filters = {"open"}],
    [Watching(1, 2, 0) EXCEPT !.faults = TRUE],
    [Watching(2, 1, 1) EXCEPT !.rows = {n1, n2}, !.signedIn = TRUE, !.filters = {"all"}],
    [Watching(2, 1, 0) EXCEPT !.faults = TRUE, !.page = TRUE],
    [Watching(2, 1, 2) EXCEPT !.timers = {}, !.filters = {"all", "open", "acknowledged"}],
    [Watching(1, 0, 0) EXCEPT !.timers = {t1, t2}, !.types = {"created", "updated"}],
    [Quiet EXCEPT !.panels = {p1, p2}, !.pastes = TRUE],
    [Quiet EXCEPT !.panels = {p1, p2}, !.faults = TRUE],
    [Quiet EXCEPT !.panels = {p1}, !.elsewhere = TRUE, !.renonces = TRUE],
    [Quiet EXCEPT !.panels = {p1}, !.elsewhere = TRUE, !.pastes = TRUE, !.named = FALSE,
                  !.faults = TRUE],
    [Quiet EXCEPT !.scenes = {s1}, !.elsewhere = TRUE],
    [Quiet EXCEPT !.scenes = {s1}, !.renonces = TRUE],
    [Quiet EXCEPT !.pickers = {k1, k2}, !.picks = {w1}],
    [Quiet EXCEPT !.pickers = {k1}, !.picks = {w1, w2}],
    [Quiet EXCEPT !.askers = {q1, q2}]}

\* One page of self-signed chaos, and nobody in its way.
MCSigns == {[Quiet EXCEPT !.scenes = {s1}]}
=============================================================================
