---------------------------- MODULE MCExecution -----------------------------
(* Two transfers of different amounts to one address, and a nonce to fill;   *)
(* then, without an executor, two calls of the client at once.               *)
EXTENDS Execution, TLC

CONSTANTS small, large, fill, payee, gap, a1, a2, c1, c2

MCTargetOf == small :> payee @@ large :> payee @@ fill :> gap

Idle == c1 :> NoOp @@ c2 :> NoOp
Mode(executors, faults) ==
    [executors |-> executors, held |-> {fill}, faults |-> faults, ops |-> Idle]
Calling(first, second) == [Mode({}, FALSE) EXCEPT !.ops = c1 :> first @@ c2 :> second]

Get == Op("get", FALSE, "none")
Pay == Op("transfer", FALSE, "none")
PayAgain == Op("transfer", TRUE, "none")
DryRun == Op("simulate", FALSE, "none")
Guard == Op("guardedPause", FALSE, "none")
GuardAgain == Op("guardedPause", TRUE, "none")
Login == Op("login", FALSE, "none")
Mint == Op("signedRequest", FALSE, "none")
Validate == Op("validate", FALSE, "none")
ReadOf(fn) == Op("readContract", FALSE, fn)
WriteOf(fn) == Op("writeContract", FALSE, fn)

MCModes ==
    {Mode({"workflow", "keeperHub", "signer"}, FALSE), Mode({"workflow"}, TRUE),
     Mode({"keeperHub"}, TRUE), Mode({"signer"}, TRUE)}
    \union {Calling(PayAgain, PayAgain), Calling(Pay, Get), Calling(Guard, Guard),
            Calling(GuardAgain, NoOp), Calling(DryRun, Mint), Calling(Login, Login),
            Calling(Mint, Mint), Calling(Validate, Validate), Calling(Validate, NoOp),
            Calling(ReadOf("view"), WriteOf("view")), Calling(ReadOf("write"), WriteOf("write"))}

MCWaits == {0, 2, 3, 4}

Symmetry == Permutations({a1, a2})
=============================================================================
