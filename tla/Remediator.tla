----------------------------- MODULE Remediator ----------------------------
(***************************************************************************)
(* Remediator.remediate and evaluateGuards (packages/remediator), run by   *)
(* any number of concurrent callers: the POST remediate handler, one call  *)
(* per request, and the remediation loop.  One step per await: a call      *)
(* reads the budgets from the ledger one query at a time, plans, takes the *)
(* per-signer mutex, submits, verifies and only then writes its ledger     *)
(* row.  A signer stands for the pair (signer, chain) of mutexKey.         *)
(***************************************************************************)
EXTENDS Naturals, Sequences, FiniteSets

CONSTANTS
    Calls,              \* concurrent callers; each calls remediate repeatedly
    Incidents, Signers, Agents,
    SignerOf, AgentOf,  \* of an incident
    Servable,           \* incidents some playbook and executor can serve
    Keyed,              \* of these, the ones whose plan KeeperHub executes under a key
    Confident,          \* incidents at or above minConfidence
    AllowedSigners,     \* signers on both allowlists
    SelfAgent,          \* the agent id "blackbox"
    DryRun,
    MaxAttempts, MaxPerHour, MaxGasPerHour, MaxPerDayPerAgent,
    Hour, Day,          \* BUDGET_WINDOW_MS and DAY_MS in clock ticks
    GasPerTx,           \* wei a mined remediation costs
    FaultyCalls,        \* callers whose ledger writes may fail
    MaxTime,            \* bound: the clock
    Asked               \* bound: caller -> the incidents each of its calls may be for

ASSUME IncidentAssumption ==
    /\ Incidents # {} /\ Calls # {} /\ IsFiniteSet(Calls)
    /\ SignerOf \in [Incidents -> Signers]
    /\ AgentOf \in [Incidents -> Agents]
    /\ Keyed \subseteq Incidents
    /\ Asked \in [Calls -> Seq(SUBSET Incidents)]
ASSUME ConfigAssumption ==
    /\ MaxAttempts \in Nat /\ MaxPerHour \in Nat /\ MaxGasPerHour \in Nat
    /\ MaxPerDayPerAgent \in Nat /\ Hour \in Nat /\ Day \in Nat
    /\ GasPerTx \in Nat \ {0} /\ MaxTime \in Nat
    /\ DryRun \in BOOLEAN /\ FaultyCalls \subseteq Calls

VARIABLES
    now,       \* the process clock
    inFlight,  \* signers whose mutex is held
    pc,        \* caller -> the await it is at
    call,      \* caller -> the local variables of its call in progress
    runs,      \* caller -> calls it has begun
    broadcast, \* the transactions that reached the network
    told,      \* each submit that answered: its run and the hash it was given
    mined,     \* transactions with a success receipt
    reverted,  \* transactions with a reverted receipt
    attempts   \* the rows of remediation_ledger

chain == <<broadcast, told, mined, reverted>>
vars == <<now, inFlight, pc, call, runs, chain, attempts>>

Pending == broadcast \ (mined \union reverted)

Run == Calls \X Nat

\* A transaction: the run that had it sent, for which incident, and when that run
\* made its request.  It is its own hash.
Tx == [run : Run, incident : Incidents, at : Nat]
NoHash == <<>>

Local == [incident : Incidents, guardsAt : Nat, startedAt : Nat,
          refused : BOOLEAN, hash : Tx \union {NoHash}, included : BOOLEAN,
          gas : Nat]

Fresh(i) == [incident |-> i, guardsAt |-> now, startedAt |-> now, refused |-> FALSE,
             hash |-> NoHash, included |-> FALSE, gas |-> 0]
Idle == [incident |-> CHOOSE i \in Incidents : TRUE, guardsAt |-> 0, startedAt |-> 0,
         refused |-> FALSE, hash |-> NoHash, included |-> FALSE, gas |-> 0]

Me(c) == <<c, runs[c]>>
Incident(c) == call[c].incident
Signer(c) == SignerOf[Incident(c)]
Agent(c) == AgentOf[Incident(c)]

Goto(c, label) == pc' = [pc EXCEPT ![c] = label]
Return(c) == Goto(c, "idle") /\ call' = [call EXCEPT ![c] = Idle]

Init ==
    /\ now = 0
    /\ inFlight = {}
    /\ pc = [c \in Calls |-> "idle"]
    /\ call = [c \in Calls |-> Idle]
    /\ runs = [c \in Calls |-> 0]
    /\ broadcast = {} /\ told = {} /\ mined = {} /\ reverted = {}
    /\ attempts = {}

(***************************************************************************)
(* evaluateGuards.                                                         *)
(***************************************************************************)
Since(t, window) == IF t >= window THEN t - window ELSE 0

AttemptsForIncident(i) == {r \in attempts : r.incident = i}
SpendSince(s, since) == {r \in attempts : SignerOf[r.incident] = s /\ r.at >= since}
SpendForAgent(a, since) == {r \in attempts : AgentOf[r.incident] = a /\ r.at >= since}
\* A receipt costs GasPerTx and nothing else costs anything, so the sum is a count.
GasOf(rows) == GasPerTx * Cardinality({r \in rows : r.gas > 0})

\* dry_run, min_confidence, the allowlists, not_self and
\* no_remediation_in_flight are decided before the first await.
SynchronousGuardsPass(i) ==
    /\ ~DryRun
    /\ i \in Confident
    /\ SignerOf[i] \in AllowedSigners
    /\ AgentOf[i] # SelfAgent
    /\ SignerOf[i] \notin inFlight

\* remediate(i): an incident nothing can serve is declined at once, leaving no
\* trace but the answer.
Start(c, i) ==
    /\ pc[c] = "idle" /\ runs[c] < Len(Asked[c])
    /\ i \in Asked[c][runs[c] + 1] \intersect Servable
    /\ Goto(c, "attempts")
    /\ call' = [call EXCEPT ![c] = [Fresh(i) EXCEPT !.refused = ~SynchronousGuardsPass(i)]]
    /\ runs' = [runs EXCEPT ![c] = @ + 1]
    /\ UNCHANGED <<now, inFlight, chain, attempts>>

\* Every later guard is evaluated whatever the earlier ones said.
Check(c, ok) == call' = [call EXCEPT ![c].refused = @ \/ ~ok]

\* One attempt too many is let through.
GuardAttemptsAtCap(c) ==
    /\ pc[c] = "attempts"
    /\ Check(c, Cardinality(AttemptsForIncident(Incident(c))) <= MaxAttempts)
    /\ Goto(c, "hourly")
    /\ UNCHANGED <<now, inFlight, runs, chain, attempts>>

GuardAttempts(c) ==
    /\ pc[c] = "attempts"
    /\ Check(c, Cardinality(AttemptsForIncident(Incident(c))) < MaxAttempts)
    /\ Goto(c, "hourly")
    /\ UNCHANGED <<now, inFlight, runs, chain, attempts>>

\* Either ceiling alone lets the attempt through.
GuardHourlyEither(c) ==
    /\ pc[c] = "hourly"
    /\ LET spend == SpendSince(Signer(c), Since(call[c].guardsAt, Hour)) IN
       Check(c, Cardinality(spend) < MaxPerHour \/ GasOf(spend) < MaxGasPerHour)
    /\ Goto(c, "daily")
    /\ UNCHANGED <<now, inFlight, runs, chain, attempts>>

GuardHourly(c) ==
    /\ pc[c] = "hourly"
    /\ LET spend == SpendSince(Signer(c), Since(call[c].guardsAt, Hour)) IN
       Check(c, Cardinality(spend) < MaxPerHour /\ GasOf(spend) < MaxGasPerHour)
    /\ Goto(c, "daily")
    /\ UNCHANGED <<now, inFlight, runs, chain, attempts>>

\* The day's count is only looked at when no earlier guard refused, and lets one
\* attempt too many through.
GuardDailyAtCap(c) ==
    /\ pc[c] = "daily"
    /\ LET spend == SpendForAgent(Agent(c), Since(call[c].guardsAt, Day)) IN
       IF call[c].refused \/ Cardinality(spend) > MaxPerDayPerAgent
         THEN Return(c)
         ELSE Goto(c, "planning") /\ UNCHANGED call
    /\ UNCHANGED <<now, inFlight, runs, chain, attempts>>

GuardDaily(c) ==
    /\ pc[c] = "daily"
    /\ LET spend == SpendForAgent(Agent(c), Since(call[c].guardsAt, Day))
           ok == Cardinality(spend) < MaxPerDayPerAgent IN
       IF call[c].refused \/ ~ok
         THEN Return(c)                    \* skipped_by_guard: not ledgered
         ELSE Goto(c, "planning") /\ UNCHANGED call
    /\ UNCHANGED <<now, inFlight, runs, chain, attempts>>

(***************************************************************************)
(* remediate, once the guards have passed.                                 *)
(***************************************************************************)
\* A remediation that was not seen to succeed is recorded without its hash.
RowOfSuccessOnly(c, part, status) ==
    [run |-> Me(c), part |-> part, incident |-> Incident(c),
     at |-> call[c].startedAt, status |-> status,
     hash |-> IF status = "succeeded" THEN call[c].hash ELSE NoHash,
     gas |-> IF part = "outcome" THEN call[c].gas ELSE 0]

RowOf(c, part, status) ==
    [run |-> Me(c), part |-> part, incident |-> Incident(c),
     at |-> call[c].startedAt, status |-> status,
     hash |-> IF part = "outcome" THEN call[c].hash ELSE NoHash,
     gas |-> IF part = "outcome" THEN call[c].gas ELSE 0]

Insert(row) == attempts' = attempts \union {row}

\* A write whose promise rejects may have been committed all the same.
InsertFails(c, row) == c \in FaultyCalls /\ (Insert(row) \/ UNCHANGED attempts)

\* The market or the breaker lookup rejects: so does remediate.
PlanThrows(c) ==
    /\ pc[c] = "planning"
    /\ Return(c)
    /\ UNCHANGED <<now, inFlight, runs, chain, attempts>>

PlanSkips(c) ==
    /\ pc[c] = "planning"
    /\ call' = [call EXCEPT ![c].startedAt = now]
    /\ Goto(c, "skipping")
    /\ UNCHANGED <<now, inFlight, runs, chain, attempts>>

RecordSkip(c) ==
    /\ pc[c] = "skipping"
    /\ LET row == RowOf(c, "outcome", "skipped") IN Insert(row) \/ InsertFails(c, row)
    /\ Return(c)
    /\ UNCHANGED <<now, inFlight, runs, chain>>

\* The mutex is added to the set, whoever is in it already.
TakeMutex(c) ==
    /\ pc[c] = "planning"
    /\ inFlight' = inFlight \union {Signer(c)}
    /\ call' = [call EXCEPT ![c].startedAt = now]
    /\ Goto(c, "submitting")
    /\ UNCHANGED <<now, runs, chain, attempts>>

MyTx(c) == [run |-> Me(c), incident |-> Incident(c), at |-> call[c].startedAt]

\* The key names the plan alone.
ReplaysAnyIncident(c) ==
    {t \in broadcast : t.incident \in Keyed /\ now < t.at + Day}

\* The key of a direct execution is the incident's id and the plan's description,
\* so a second attempt at the incident is answered, for a day, with what was sent
\* for the first.
Replays(c) == {t \in broadcast : /\ t.incident \in Keyed /\ t.incident = Incident(c)
                                 /\ now < t.at + Day}

\* The hash is handed out before the transaction is sent.
SubmitAnswersUnsent(c) ==
    /\ pc[c] = "submitting"
    /\ \E t \in {MyTx(c)} \union Replays(c) :
          /\ told' = told \union {[run |-> Me(c), hash |-> t]}
          /\ call' = [call EXCEPT ![c].hash = t]
    /\ Goto(c, "verifying")
    /\ UNCHANGED <<now, inFlight, runs, broadcast, mined, reverted, attempts>>

\* The transaction is a new one, or the replay of an earlier attempt's: a plan
\* whose description differs, or that the signer sends, is never replayed.
SubmitAnswers(c) ==
    /\ pc[c] = "submitting"
    /\ \E t \in {MyTx(c)} \union Replays(c) :
          /\ broadcast' = broadcast \union {t}
          /\ told' = told \union {[run |-> Me(c), hash |-> t]}
          /\ call' = [call EXCEPT ![c].hash = t]
    /\ Goto(c, "verifying")
    /\ UNCHANGED <<now, inFlight, runs, mined, reverted, attempts>>

\* submit rejects: nothing was sent, or something was and its hash never came
\* back (a workflow run still pending after the last poll, a lost response).
SubmitThrows(c) ==
    /\ pc[c] = "submitting"
    /\ broadcast' \in {broadcast, broadcast \union {MyTx(c)}}
    /\ Goto(c, "catch")
    /\ UNCHANGED <<now, inFlight, call, runs, told, mined, reverted, attempts>>

VerifyReceipt(c) ==
    /\ pc[c] = "verifying"
    /\ call[c].hash \in mined \union reverted
    /\ call' = [call EXCEPT ![c].included = call[c].hash \in mined, ![c].gas = GasPerTx]
    /\ Goto(c, "recording")
    /\ UNCHANGED <<now, inFlight, runs, chain, attempts>>

\* A transaction the node knows about is waited for without a deadline.
VerifyWaits(c) ==
    /\ pc[c] = "verifying"
    /\ call[c].hash \notin Pending
    /\ Goto(c, "recording")
    /\ UNCHANGED <<now, inFlight, call, runs, chain, attempts>>

\* No receipt by the deadline, no node that answers, or an exception.
VerifyGivesUp(c) ==
    /\ pc[c] = "verifying"
    /\ Goto(c, "recording")
    /\ UNCHANGED <<now, inFlight, call, runs, chain, attempts>>

\* Included is taken for worked: a reverted receipt has used gas too.
VerdictByGas(c) == IF call[c].gas > 0 THEN "succeeded" ELSE "failed"

Verdict(c) == IF call[c].included THEN "succeeded" ELSE "failed"

\* A failed write lands in the outer catch, which records a second row.
RecordOutcome(c) ==
    /\ pc[c] = "recording"
    /\ LET row == RowOf(c, "outcome", Verdict(c)) IN
       \/ Insert(row) /\ Goto(c, "finally")
       \/ InsertFails(c, row) /\ Goto(c, "catch")
    /\ UNCHANGED <<now, inFlight, call, runs, chain>>

\* A failure to record the failure escapes before the finally.
RecordFailureEscaping(c) ==
    /\ pc[c] = "catch"
    /\ LET row == RowOf(c, "fallback", "failed") IN
       \/ Insert(row) /\ Goto(c, "finally") /\ UNCHANGED call
       \/ InsertFails(c, row) /\ Return(c)
    /\ UNCHANGED <<now, inFlight, runs, chain>>

RecordFailure(c) ==
    /\ pc[c] = "catch"
    /\ LET row == RowOf(c, "fallback", "failed") IN Insert(row) \/ InsertFails(c, row)
    /\ Goto(c, "finally")
    /\ UNCHANGED <<now, inFlight, call, runs, chain>>

Finally(c) ==
    /\ pc[c] = "finally"
    /\ inFlight' = inFlight \ {Signer(c)}
    /\ Return(c)
    /\ UNCHANGED <<now, runs, chain, attempts>>

(***************************************************************************)
(* The chain and the clock.                                                *)
(***************************************************************************)
Mine ==
    /\ \E t \in Pending :
          \/ mined' = mined \union {t} /\ UNCHANGED reverted
          \/ reverted' = reverted \union {t} /\ UNCHANGED mined
    /\ UNCHANGED <<now, inFlight, pc, call, runs, broadcast, told, attempts>>

Tick ==
    /\ now < MaxTime
    /\ now' = now + 1
    /\ UNCHANGED <<inFlight, pc, call, runs, chain, attempts>>

Proceed(c) ==
    \/ GuardAttempts(c) \/ GuardHourly(c) \/ GuardDaily(c)
    \/ PlanThrows(c) \/ PlanSkips(c) \/ RecordSkip(c) \/ TakeMutex(c)
    \/ SubmitAnswers(c) \/ SubmitThrows(c)
    \/ VerifyReceipt(c) \/ VerifyGivesUp(c)
    \/ RecordOutcome(c) \/ RecordFailure(c) \/ Finally(c)

Next ==
    \/ \E c \in Calls : Proceed(c) \/ \E i \in Incidents : Start(c, i)
    \/ Mine
    \/ Tick

Spec == Init /\ [][Next]_vars

\* Every await settles: queries answer or fail, submit and verify are polled a
\* bounded number of times or until a deadline.
FairSpec == Spec /\ \A c \in Calls : WF_vars(Proceed(c))

(***************************************************************************)
(* Properties.                                                             *)
(***************************************************************************)
Statuses == {"skipped", "succeeded", "failed"}

LedgerRow == [run : Run, part : {"outcome", "fallback"}, incident : Incidents, at : Nat,
              status : Statuses, hash : Tx \union {NoHash}, gas : Nat]

HoldsMutex == {"submitting", "verifying", "recording", "catch", "finally"}
Labels == {"idle", "attempts", "hourly", "daily", "planning", "skipping"} \union HoldsMutex

TypeOK ==
    /\ now \in Nat
    /\ inFlight \subseteq Signers
    /\ pc \in [Calls -> Labels]
    /\ call \in [Calls -> Local]
    /\ runs \in [Calls -> Nat]
    /\ broadcast \subseteq Tx
    /\ told \subseteq [run : Run, hash : broadcast]
    /\ mined \subseteq broadcast
    /\ reverted \subseteq broadcast
    /\ attempts \subseteq LedgerRow

\* A run is one row, or two where the write of its outcome may fail.
Overshoot == Cardinality(Calls) + Cardinality(FaultyCalls)
Within(rows, t, window) == {r \in rows : r.at \in Since(t, window)..t}

\* The hourly ceilings of a signer hold in every hour, not only in the hour a
\* guard looked at, up to what the other callers in flight can add: each guard
\* reads the ledger before its own run and theirs are in it.
HourlyBudgetHolds ==
    \A s \in Signers, t \in 0..now :
        LET rows == Within(SpendSince(s, 0), t, Hour) IN
        /\ Cardinality(rows) < MaxPerHour + Overshoot
        /\ GasOf(rows) < MaxGasPerHour + Cardinality(Calls) * GasPerTx

\* An agent's daily allowance, counted across every signer it runs from.
DailyAllowanceHolds ==
    \A a \in Agents, t \in 0..now :
        Cardinality(Within(SpendForAgent(a, 0), t, Day)) < MaxPerDayPerAgent + Overshoot

\* However many callers retry it and whenever, one incident is attempted no
\* more often than maxAttempts plus the callers that were at it together.
AttemptsAreBounded ==
    \A i \in Incidents : Cardinality(AttemptsForIncident(i)) < MaxAttempts + Overshoot

\* The ledger never says a remediation worked when its transaction did not
\* (waitForReceipt, record): whatever was lost, given up on, replayed or written
\* twice, a row that says succeeded names a transaction with a success receipt,
\* and one that was sent for the row's own incident.
NeverOverclaims ==
    \A r \in attempts :
        r.status = "succeeded" => r.hash \in mined /\ r.hash.incident = r.incident

\* What every attempt is admitted under, whoever else is being admitted: the
\* state is well formed, and the hourly, daily and per-incident ceilings of
\* evaluateGuards hold up to the callers in flight.
BudgetsHold == TypeOK /\ HourlyBudgetHolds /\ DailyAllowanceHolds /\ AttemptsAreBounded

\* Every submission that answered is in the ledger once its call has returned:
\* the call's run has exactly one row and that row names the hash the call was
\* given, its own or a replayed one, whatever verification made of it, if the
\* caller's ledger writes do not fail.
SubmittedIsLedgered ==
    \A t \in told :
        \/ t.run[1] \in FaultyCalls
        \/ \E c \in Calls : pc[c] # "idle" /\ Me(c) = t.run
        \/ \E r \in attempts :
              r.run = t.run /\ r.hash = t.hash /\ \A q \in attempts : q.run = t.run => q = r

\* One transaction, one row: what the replay breaks, for two attempts at an
\* incident are then recorded under one hash, and its gas is counted twice.
OneRowPerTransaction ==
    \A r, q \in attempts : r.hash # NoHash /\ q.hash = r.hash => q = r

\* A signer's mutex is never left behind: whoever threw where, a signer in the
\* set has a call between its submission and its finally.
MutexHeldByACall ==
    \A s \in inFlight : \E c \in Calls : pc[c] \in HoldsMutex /\ Signer(c) = s

\* What the mutex is for (Remediator.inFlight: "Two remediations on one signer
\* collide on nonce"): two calls are never past it for one signer.
SignerMutex ==
    \A c, d \in Calls :
        c # d /\ pc[c] \in HoldsMutex /\ pc[d] \in HoldsMutex => Signer(c) # Signer(d)

\* The header of ledger-chain.ts: "every remediation is a real transaction with
\* a retrievable hash".  Once every call is over, a remediation that landed has
\* a row that names its transaction.
LandedIsRetrievable ==
    (\A c \in Calls : pc[c] = "idle") =>
        \A t \in mined : \E r \in attempts : r.hash = t

\* No signer stays busy for ever, and so refuses every later remediation:
\* submission and verification are bounded and finally always runs.
MutexIsReleased == \A s \in Signers : s \in inFlight ~> s \notin inFlight
=============================================================================
