------------------------------ MODULE Watchlist -----------------------------
(***************************************************************************)
(* Executions an agent submits through the instrumented client, and how    *)
(* the recorder's loop follows them (packages/recorder instrumented, loop, *)
(* recorder, enrich; core normalise; store watchExecution, dueExecutions,  *)
(* markPolled).  KeeperHub lists no executions, so one that is not         *)
(* registered as it is submitted is never seen.  One step per await.       *)
(***************************************************************************)
EXTENDS Integers, FiniteSetsExt, SequencesExt

CONSTANTS
    Executions,
    Outcomes,   \* records an execution may end with
    Modes       \* which executions there are, which of them KeeperHub never
                \* answers for, whether things fail, and how often the loop is stopped

ASSUME WatchlistAssumption ==
    /\ IsFiniteSet(Executions) /\ IsFiniteSet(Outcomes) /\ Outcomes # {}
    /\ \A o \in Outcomes : /\ o.status \in {"completed", "failed"} /\ o.hash \in BOOLEAN
                           /\ o.receipts \in Seq({"success", "reverted", "none"})
    /\ \A m \in Modes : /\ m.deaf \subseteq m.submitted /\ m.submitted \subseteq Executions
                        /\ m.faults \in BOOLEAN /\ m.stops \in Nat /\ m.batch \in Nat \ {0}

VARIABLES
    mode,
    call,     \* execution -> the await of the wrapper's call that submits it
    service,  \* execution -> KeeperHub's record of it
    listed,   \* watched_executions: "no", "due" or "settled"
    polled,   \* its unsettled rows that have been polled, least recently first
    recorded, \* execution_events: <<execution, attempt>> -> status and whether priced
    loop,     \* RecorderLoop: running, stopping, bodies of run(), stops so far
    poll      \* the tick's locals

xvars == <<call, service, listed, polled, recorded, loop, poll>>

NoRecord == [status |-> "none", hash |-> FALSE, receipts |-> <<>>]
NoEvent == [status |-> "none", priced |-> FALSE]
Sources == 0 .. Max({Len(o.receipts) : o \in Outcomes})
Asleep == [pc |-> "off", due |-> <<>>, got |-> NoRecord, seen |-> FALSE]
Stopped == [running |-> FALSE, stopping |-> FALSE, bodies |-> 0, stops |-> 0]

TERMINAL_STATUSES == {"completed", "failed"}
IsOut(record) == record.hash \/ record.receipts # <<>>

WatchlistInit ==
    /\ call = [x \in Executions |-> "idle"]
    /\ service = [x \in Executions |-> NoRecord]
    /\ listed = [x \in Executions |-> "no"]
    /\ polled = <<>>
    /\ recorded = [s \in Executions \X Sources |-> NoEvent]
    /\ loop = Stopped /\ poll = Asleep

(***************************************************************************)
(* normaliseExecution: an event per receipt, or one of the execution.      *)
(***************************************************************************)
failureStage(record) ==
    IF record.status # "failed" THEN "none" ELSE IF IsOut(record) THEN "onchain" ELSE "preflight"

statusWithoutReceipt(record) ==
    CASE failureStage(record) = "preflight" -> "rejected"
      [] record.status = "running" -> "pending"
      [] record.status = "completed" /\ record.hash -> "included"
      [] OTHER -> "unknown"

\* All but the last were replaced.
receiptOutcome(record, k) ==
    IF k # Len(record.receipts) THEN "replaced"
    ELSE CASE record.receipts[k] = "success" -> "included"
           [] record.receipts[k] = "reverted" -> "reverted"
           [] record.receipts[k] = "none" ->
                IF record.status = "completed" THEN "included" ELSE "unknown"

normaliseExecution(record) ==
    IF record.receipts = <<>> THEN [k \in {0} |-> statusWithoutReceipt(record)]
    ELSE [k \in DOMAIN record.receipts |-> receiptOutcome(record, k)]

\* A node that has seen a hash knows what it bids.
enrichEvents(record, seen) ==
    [k \in DOMAIN normaliseExecution(record) |->
        [status |-> normaliseExecution(record)[k], priced |-> seen /\ IsOut(record)]]

\* insertEvents: what it does to a pending row leaves its submission alone.
insertEvents(x, new) ==
    [s \in DOMAIN recorded |->
        IF s[1] # x \/ s[2] \notin DOMAIN new THEN recorded[s]
        ELSE CASE recorded[s].status = "none" -> new[s[2]]
               [] recorded[s].status = "pending" -> [recorded[s] EXCEPT !.status = new[s[2]].status]
               [] OTHER -> recorded[s]]

(***************************************************************************)
(* The instrumented client.                                                *)
(***************************************************************************)
Submits(x) ==
    /\ call[x] = "idle" /\ x \in mode.submitted
    /\ call' = [call EXCEPT ![x] = "registering"]
    /\ service' = [service EXCEPT ![x].status = "running"]
    /\ UNCHANGED <<mode, listed, polled, recorded, loop, poll>>

\* Refused, or accepted and the answer lost.
SubmitFails(x) ==
    /\ mode.faults /\ call[x] = "idle" /\ x \in mode.submitted
    /\ call' = [call EXCEPT ![x] = "threw"]
    /\ \E status \in {"none", "running"} : service' = [service EXCEPT ![x].status = status]
    /\ UNCHANGED <<mode, listed, polled, recorded, loop, poll>>

\* Registering twice changes nothing.
watchExecution(x) == listed' = [listed EXCEPT ![x] = IF @ = "no" THEN "due" ELSE @]

register(x) ==
    /\ call[x] = "registering"
    /\ call' = [call EXCEPT ![x] = "returned"]
    /\ watchExecution(x)
    /\ UNCHANGED <<mode, service, polled, recorded, loop, poll>>

\* The insert fails or the chain is not one we know: it is submitted all the same.
RegisterQuietlyFails(x) ==
    /\ mode.faults /\ call[x] = "registering"
    /\ call' = [call EXCEPT ![x] = "returned"]
    /\ UNCHANGED <<mode, service, listed, polled, recorded, loop, poll>>
RegisterFails(x) ==
    /\ mode.faults /\ call[x] = "registering"
    /\ call' = [call EXCEPT ![x] = "threw"]
    /\ UNCHANGED <<mode, service, listed, polled, recorded, loop, poll>>

(***************************************************************************)
(* KeeperHub.                                                              *)
(***************************************************************************)
Broadcast(x) ==
    /\ service[x].status = "running" /\ ~service[x].hash
    /\ service' = [service EXCEPT ![x].hash = TRUE]
    /\ UNCHANGED <<mode, call, listed, polled, recorded, loop, poll>>

Ends(x) ==
    /\ service[x].status = "running"
    /\ \E o \in Outcomes : /\ service[x].hash => IsOut(o)
                           /\ service' = [service EXCEPT ![x] = o]
    /\ UNCHANGED <<mode, call, listed, polled, recorded, loop, poll>>

(***************************************************************************)
(* RecorderLoop.  A stop of a loop that does not run returns at once.      *)
(***************************************************************************)
LoopStarts ==
    /\ ~loop.running /\ mode.submitted # {}
    /\ loop' = [loop EXCEPT !.running = TRUE, !.stopping = FALSE, !.bodies = @ + 1]
    /\ poll' = [Asleep EXCEPT !.pc = "asleep"]
    /\ UNCHANGED <<mode, call, service, listed, polled, recorded>>

\* stop marks, and waits for the body to end: nothing starts meanwhile.
LoopStopsAtOnce ==
    /\ loop.running /\ ~loop.stopping /\ loop.stops < mode.stops
    /\ loop' = [loop EXCEPT !.stopping = TRUE, !.running = FALSE, !.stops = @ + 1]
    /\ UNCHANGED <<mode, call, service, listed, polled, recorded, poll>>
LoopStops ==
    /\ loop.running /\ ~loop.stopping /\ loop.stops < mode.stops
    /\ loop' = [loop EXCEPT !.stopping = TRUE, !.stops = @ + 1]
    /\ UNCHANGED <<mode, call, service, listed, polled, recorded, poll>>

BodyEnds ==
    /\ poll.pc = "asleep" /\ loop.stopping
    /\ loop' = [loop EXCEPT !.bodies = @ - 1, !.running = FALSE]
    /\ poll' = Asleep
    /\ UNCHANGED <<mode, call, service, listed, polled, recorded>>

\* dueExecutions: those never polled come first, in no particular order.
Due == {x \in Executions : listed[x] = "due"}
dueAsRegistered == {SetToSeq(Due)}
dueExecutions == {s \o polled : s \in SetToSeqs(Due \ ToSet(polled))}

TickBegins ==
    /\ poll.pc = "asleep" /\ ~loop.stopping
    /\ \E s \in dueExecutions :
        poll' = [Asleep EXCEPT !.pc = "polling", !.due = SubSeq(s, 1, Min({mode.batch, Len(s)}))]
    /\ UNCHANGED <<mode, call, service, listed, polled, recorded, loop>>

TickEnds ==
    /\ poll.pc = "polling" /\ poll.due = <<>>
    /\ poll' = [Asleep EXCEPT !.pc = "asleep"]
    /\ UNCHANGED <<mode, call, service, listed, polled, recorded, loop>>

(***************************************************************************)
(* pollOne.  Whatever throws leaves the row where it was in the order.     *)
(***************************************************************************)
Skipped == poll' = [poll EXCEPT !.pc = "polling", !.due = Tail(@)]

GetStatus ==
    /\ poll.pc = "polling" /\ poll.due # <<>> /\ Head(poll.due) \notin mode.deaf
    /\ \E seen \in BOOLEAN :
        poll' = [poll EXCEPT !.pc = "inserting", !.got = service[Head(poll.due)], !.seen = seen]
    /\ UNCHANGED <<mode, call, service, listed, polled, recorded, loop>>

GetsNothing ==
    /\ poll.pc = "polling" /\ poll.due # <<>> /\ Head(poll.due) \in mode.deaf
    /\ Skipped
    /\ UNCHANGED <<mode, call, service, listed, polled, recorded, loop>>

StoreEvents ==
    /\ poll.pc = "inserting"
    /\ recorded' = insertEvents(Head(poll.due), enrichEvents(poll.got, poll.seen))
    /\ poll' = [poll EXCEPT !.pc = "marking"]
    /\ UNCHANGED <<mode, call, service, listed, polled, loop>>

\* An update: what was polled goes to the end of the order, or out of it.
Without(s, x) ==
    IF x \in ToSet(s) THEN RemoveAt(s, CHOOSE k \in DOMAIN s : s[k] = x) ELSE s

markPolledFirst ==
    /\ poll.pc = "inserting"
    /\ LET x == Head(poll.due)
       IN  IF poll.got.status \in TERMINAL_STATUSES
           THEN listed' = [listed EXCEPT ![x] = "settled"] /\ polled' = Without(polled, x)
           ELSE listed' = listed /\ polled' = Append(Without(polled, x), x)
    /\ Skipped
    /\ UNCHANGED <<mode, call, service, recorded, loop>>
markPolled ==
    /\ poll.pc = "marking"
    /\ LET x == Head(poll.due)
       IN  IF poll.got.status \in TERMINAL_STATUSES
           THEN listed' = [listed EXCEPT ![x] = "settled"] /\ polled' = Without(polled, x)
           ELSE listed' = listed /\ polled' = Append(Without(polled, x), x)
    /\ Skipped
    /\ UNCHANGED <<mode, call, service, recorded, loop>>

PollThrows ==
    /\ mode.faults /\ poll.pc \in {"polling", "inserting", "marking"} /\ poll.due # <<>>
    /\ Skipped
    /\ UNCHANGED <<mode, call, service, listed, polled, recorded, loop>>

\* The process dies: its calls are never answered, its rows remain.
Dies ==
    /\ mode.faults /\ mode.submitted # {}
    /\ loop' = [Stopped EXCEPT !.stops = loop.stops] /\ poll' = Asleep
    /\ call' = [x \in Executions |-> IF call[x] = "registering" THEN "lost" ELSE call[x]]
    /\ UNCHANGED <<mode, service, listed, polled, recorded>>

BodyStep ==
    BodyEnds \/ TickBegins \/ TickEnds \/ GetStatus \/ GetsNothing \/ StoreEvents \/ markPolled
WatchlistNext ==
    \/ BodyStep \/ PollThrows \/ Dies \/ LoopStarts \/ LoopStops
    \/ \E x \in Executions : \/ Submits(x) \/ SubmitFails(x) \/ register(x) \/ RegisterFails(x)
                             \/ Broadcast(x) \/ Ends(x)

(***************************************************************************)
(* Properties.                                                             *)
(***************************************************************************)
Final(x) == normaliseExecution(service[x])
IsFinal(x) == service[x].status \in TERMINAL_STATUSES
LastSource(x) == Len(service[x].receipts)

\* Polling stops only when the outcome is stored, whatever failed on the way and
\* whatever an earlier poll had stored (insertEvents before markPolled).
SettledIsRecorded ==
    \A x \in Executions : listed[x] = "settled" =>
        IsFinal(x) /\ recorded[x, LastSource(x)].status = Final(x)[LastSource(x)]

\* A caller that was not told otherwise is watched (instrumented.ts, "Registration
\* failure must not lose the execution silently").
UnwatchedIsTold == \A x \in Executions : call[x] = "returned" => listed[x] # "no"

\* One body of the loop at a time, none once it says it does not run (loop.ts,
\* "Ticks never overlap"); and a due row is in the order at most once.
TicksNeverOverlap ==
    /\ loop.bodies = IF loop.running THEN 1 ELSE 0
    /\ IsInjective(polled) /\ ToSet(polled) \subseteq Due

WatchlistHolds == SettledIsRecorded /\ UnwatchedIsTold /\ TicksNeverOverlap

\* Whatever has ended is settled sooner or later while the loop is driven, if
\* fewer executions than a batch are ones KeeperHub never answers for: those stay
\* at the head of the order (dueExecutions, "so none is starved").
Waiting(x) == listed[x] = "due" /\ IsFinal(x)
Driven == loop.running /\ ~loop.stopping
EndedIsSettled ==
    ~mode.faults /\ Cardinality(mode.deaf) < mode.batch /\ <>[]Driven =>
        []<>(\A x \in Executions \ mode.deaf : ~Waiting(x))

\* Violated by the code as soon as a batch of them are (store index.ts:511).
NoneIsStarved ==
    ~mode.faults /\ <>[]Driven => []<>(\A x \in Executions \ mode.deaf : ~Waiting(x))

\* Violated by the code: a hash the node knew too late keeps no fees, for the
\* update of a pending row leaves its submission (enrich.ts:69, "the next poll
\* will find it").
FeesAreFound ==
    poll.pc = "marking" /\ poll.seen /\ IsOut(poll.got) =>
        \A k \in DOMAIN normaliseExecution(poll.got) : recorded[Head(poll.due), k].priced

\* Violated by the code: the row of an execution seen before its receipts stays
\* pending when they arrive under keys of their own (normalise.ts:84, 116).
SettledIsNotPending ==
    \A x \in Executions : listed[x] = "settled" => \A k \in Sources : recorded[x, k].status # "pending"
=============================================================================
