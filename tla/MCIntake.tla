------------------------------ MODULE MCIntake ------------------------------
(* Runs of two workflows, one of them unreadable, one thing varying at a time; *)
(* then executions of an agent's own, with no runs beside them.               *)
EXTENDS Intake, TLC

Quiet == [nudges |-> FALSE, faults |-> FALSE, picks |-> 0, running |-> {"w"},
          pages |-> 2, runs |-> 2, txs |-> 0, until |-> 2,
          submitted |-> {}, deaf |-> {}, batch |-> 1, stops |-> 0]
Submitting(executions) == [Quiet EXCEPT !.running = {}, !.runs = 0, !.until = 1, !.submitted = executions]
MCModes == {[Quiet EXCEPT !.running = {"w", "v"}], [Quiet EXCEPT !.txs = 1],
            [Quiet EXCEPT !.txs = 2, !.runs = 1], [Quiet EXCEPT !.nudges = TRUE],
            [Quiet EXCEPT !.faults = TRUE], [Quiet EXCEPT !.picks = 1],
            [Quiet EXCEPT !.runs = 3, !.until = 3],
            [Submitting({"x"}) EXCEPT !.faults = TRUE, !.stops = 1],
            Submitting({"x", "y"}),
            [Submitting({"x", "y"}) EXCEPT !.batch = 2, !.deaf = {"x"}]}
MCEndings == {<<"success", "none">>, <<"error", "reverted">>}

Record(status, hash, receipts) == [status |-> status, hash |-> hash, receipts |-> receipts]
MCOutcomes == {Record("completed", TRUE, <<"success">>), Record("completed", FALSE, <<>>),
               Record("failed", FALSE, <<>>), Record("failed", TRUE, <<"none", "reverted">>)}
=============================================================================
