# Blackbox: a TLA+ model of what watches, decides, acts and tells

Blackbox watches the on-chain activity of autonomous agents, files an incident when a
rule recognises a failure, and, where it is allowed to, remediates it with a real
transaction. This directory models the parts of it whose correctness depends on the order
in which things happen: concurrent requests, overlapping ticks, awaited calls that fail or
answer late, tokens that rotate, and restarts. The modules are translated from
`src/packages/*/src` and `src/apps/console/src`. Paths below are relative to
`src/packages/` unless they say otherwise.

## 1. The system

One Node process (`api/src/server.ts`, `api/src/runtime.ts`) holds everything; Postgres
(`store`) is the only durable state. A timer starts `Runtime.tick` every 15 s and does not
wait for the previous one (`runtime.ts:344`). HTTP handlers run between any two awaits of
a tick and of each other. Nothing is shared across processes except the database. Two
services are outside: the chain, behind an RPC endpoint, and KeeperHub, which runs
workflows and executes transactions for agents.

```
 chain --> BlockScanner --> watched_transactions --> Recorder.tick --> execution_events
                                                         |
   KeeperHub --> ConnectionSweeper, KeeperHubSource -----+
                        ^                                v
        Connections ----+   rules R1..R10 --> IncidentTracker (memory) --> incidents (rows)
        (rotating tokens)                                ^                    ^        |
                                attachRemediation -------+     whole-row saves|        v
                                                                              |  Alerter --> channels
 POST remediate --> Remediator --> guards, playbook, executor, verify --------+  EventBus --> SSE, webhook
                        |                              |                      |  Diagnostician
                        v                              v                      |
              remediation_ledger (hash chain)   KeeperHubClient    Console: proposals signed by a reader
```

| Component | State | What is hard | What makes it correct |
|---|---|---|---|
| Block scanner (`recorder/src/scanner.ts`) | cursor, watched addresses and transactions | reorganisations, a lagging node, overlapping ticks, a restart between rows and cursor | no block is passed unexamined, nothing registered that may be dropped, everything found in the end |
| Recorder, rules (`recorder/src`, `detector/src/rules.ts`) | poll queue, events, gap counts | the chain moves between poll, corroboration and evaluation | what is reported is so; what lasts is reported; what is reported is resolved only when over |
| Recorder loop, instrumented client (`recorder/src/loop.ts`, `instrumented.ts`) | watched executions, the loop's flags | failure between submission and registration, between events and mark; stop and start overlap | no execution is lost, none settles without its outcome, ticks never overlap |
| Incident tracker (`detector/src/lifecycle.ts`) | open incidents in memory, by key | objects mutated in memory, saved one awaited row at a time; restart | memory and rows agree; a resolution is final; what ended is resolved |
| Incident rows (`api/src/app.ts`, `server.ts`, `runtime.ts`, `remediator/src/loop.ts`) | `incidents` | each writer saves a whole row it read before a long await | credit is earned, no remediation is lost |
| Run ingest (`recorder/src/keeperhub-source.ts`, `api/src/connection-sweeper.ts`, `webhooks.ts`) | high-water marks, events of runs | pages, overlapping and failing sweeps, nudges | the mark passes no run that is not stored as it ended |
| Remediator (`remediator/src/remediator.ts`, `guards.ts`) | mutex set, ledger rows | budgets read before, rows written after several awaits | bounded overshoot, no false success, no leaked mutex, every submission ledgered |
| Executors, client (`remediator/src/executors`, `core/src/keeperhub`) | workflows by name, idempotency keys, the MCP session, limiters | lost answers, retries, runs that end late | nothing is repeated that was not safe to repeat; every attempt ends |
| Playbooks (`remediator/src/playbooks.ts`) | none | rounding, the market moves | a replacement displaces; two plans do not collide |
| Ledger (`store/src/ledger-chain.ts`) | `remediation_ledger` | concurrent appenders that abort, tampering | the walk verifies; damage is located |
| Connections (`api/src/connections.ts`, `oauth.ts`, `app.ts`) | encrypted refresh token, access cache, authorisation requests | a rotating token, shared refreshes, crashes between exchange and write | the living token is the stored one; a connection dies only for cause and always in time |
| Sign-in, ownership (`api/src/identity.ts`, `wallet-auth.ts`, `app.ts`) | sessions, owners, challenges, watched addresses, breakers | check, await, then write; one operator with two ids | first registration wins; only the owner acts |
| Demo, triggers, channels (`api/src/demo.ts`, `triggers.ts`, `alerter/src/channels.ts`) | workflows in the operator's organisation, the demo's slot | create, then patch; a stale listing; a crash after the claim | what is confirmed fires; named rather than counted; a cooldown apart |
| Alerter (`alerter/src`) | memory of what was said | failing channels, quiet hours, restart | said once, ended where it began, critical is heard |
| Bus, stream, webhook, console (`api/src/bus.ts`, `event-webhook.ts`, `src/apps/console`) | subscribers, counters, the store, the pages | fetches and events in any order, a stream that drops | what is shown answers the filter and catches up |
| Proposals (`api/src/proposals.ts`, `ProposePanel.tsx`, `SelfSigned.tsx`) | a plan, the hashes a wallet returned | re-nonced, displaced, late or foreign transactions | credited only where the chain bears it out |
| Diagnostician (`diagnostician/src`, `server.ts`) | a bounded memory of answers | a model that refuses, babbles or hangs | what a rule finds is told with an explanation, and nothing more than the chain bears out |
| Configuration, MCP server, contracts | - | - | see section 7 |

## 2. Modules

| Module | Models | Built on | Run |
|---|---|---|---|
| `LedgerChain` | the append transaction and `verifyChain` | | `ledger` |
| `LedgerTamper` | a row edited, swapped or removed behind the program's back | `LedgerChain` | `ledger` |
| `Remediator` | `remediate`, `evaluateGuards`, any number of callers | | `remediator` |
| `Submission` | abstract: what an executor promises the remediator | | `execution` |
| `Execution` | the four executors, the service, the chain; implements `Submission` | `Client` | `execution` |
| `Client` | one KeeperHub client: retries, limiters, sign-in, MCP session, guarded pause | | `execution` |
| `IncidentTracker` | evaluation of watched signers, `ingest`, saves, restart | | `incidents` |
| `IncidentWriters` | the writers of incident rows and the remediation loop | `IncidentTracker` | `incidents` |
| `Chain`, `BlockScanner` | blocks and reorganisations (external); the scanner's tick | | `scanner` |
| `Rules`, `Playbooks` | R1 to R10 and P1 to P7 as operators | | `detection`, `intake` |
| `Detection` | a signer, its transactions, the recorder's polls and evaluations | `Rules`, `Playbooks` | `detection` |
| `Chaos` | the four wallet-signed failure scenarios over `Detection` | `Detection` | `detection` |
| `Watchlist` | watched executions: registration, the loop, a poll, what it stores | | `intake` |
| `Intake` | sweeps of an organisation's runs and what is made of them | `Rules`, `Watchlist` | `intake`, `intake_nudge` |
| `Connections` | authorisation, refresh, expiry and disconnection | | `connections` |
| `Ownership` | abstract: an agent has at most one owner, for good | | `registry` |
| `Registry` | sign-in, claims, watched addresses, breakers, run logs; implements `Ownership` | | `registry` |
| `Workflows` | what Blackbox creates in an organisation: triggers, demo runs, mail | | `outbound` |
| `Alerts` | what an operator is told of an incident | `Workflows` | `outbound` |
| `Feed` | rows, bus, stream, webhook, the console's store and incident page | | `console` |
| `Signing` | the panels that sign a plan or a scenario, and the workflow picker | `Feed` | `console` |
| `Diagnosis` | questions about a transaction, what the rules find in it, the model and the memory of answers | `Signing` | `console` |
| `Remediation_proofs` | theorems about the remediator and about the ledger | `Remediator`, `LedgerTamper`, `TLAPS` | |
| `Console_proofs` | theorems about the connections and about the console | `Connections`, `Diagnosis`, `TLAPS` | |
| `Operator_proofs` | theorems about the registry, and about what is made and said in an organisation | `Registry`, `Alerts`, `TLAPS` | |
| other `*_proofs` | theorems about the module of that name and what it is built on | it and `TLAPS` | |
| `MC*` | the constants TLC takes | it | |

One action stands for the code between two awaits. Every local variable that lives across
an await is a component of a record of the process (`call`, `ev`, `req`, `tick`, `sweep`,
`panel`), so a value read before an await and used after it is as old in the model as in
the program. Where the program's shape allows several deployments, faults or bounds, a
variable `mode` is chosen in `Init` and never changes; a run with ten modes is ten small
instances in one state graph, each of which varies one thing.

What a reader has to know of each correspondence:

- **LedgerChain.** `ledger` is the table in `seq` order, `lock` the transaction-level
  advisory lock. `Acquire`, `ReadTip`, `InsertAndCommit` are the awaits of
  `recordRemediationAttempt`, `Abort` a transaction that fails at any of them. SHA-256 is
  idealised as an injective pairing; `Canon` sends spellings with one canonical form to one
  entry.
- **Remediator.** `inFlight` is the mutex set, `told` the submissions that answered. The
  synchronous guards are one step, each budget query one more. Ledger writes of a faulty
  caller may reject before or after they were committed. A transaction is named by the call
  that made it; where the executor sends a key (`Keyed`), a second attempt at an incident may
  be answered with the first one's (`Replays`).
- **Execution.** An execution and a workflow are identified by the attempt that caused them;
  `known` is the executor's cache of workflow names. `Throws` is any request that fails, with
  or without having been carried out; `Run`, `FailLate`, `Mine` are the service and the chain.
- **Client.** A call is a path of requests; whether one may be repeated after a 429 is the
  code's `repeatable`. A 429 may follow a request that was served.
- **IncidentTracker.** `mem` and `open` are the tracker's objects and its map by key. `Kind`
  says how an incident of a class ends in `resolutionOf`. `CommitSave`/`NextSave` save one
  incident per await and read each object only when its turn comes.
- **IncidentWriters.** Each request loads a row, awaits, saves the row it loaded with its own
  field changed. A pass of the loop lists what is open once and works through the list.
- **BlockScanner.** `ReadSigners`, `ReadHead`, `ReadCursor`, `ReadBlock`, `Insert`, `Commit`
  are the awaited calls of a tick. The node answers with any head up to the real one.
- **Rules, Playbooks.** A window is a set of events, ordered by `at` and `seq`, with the fields the rules read; a
  rule answers with the set of drafts it makes, a playbook with a plan or `Skip`. Thresholds
  are constants; the percentages of fees are those of the code, rounded down as `bigint` is.
- **Detection.** `txs` is what the signer sent and what became of it; `Poll` a poll of one
  row, `Gather` the corroborating reads, `Evaluate` rules, ingest and saves. `Crash` loses the
  tick in progress.
- **Chaos.** A plan is drawn up from the chain as it stands; each step may wait for the block
  of the last. `ChaosTarget` enters by when a call to it reverts.
- **Intake.** `mark` is the high-water mark of one organisation, `rows` its stored events by
  run and receipt; a sweep marks, lists pages, stores and evaluates in steps of its own.
- **Watchlist.** `polled` is the order of `last_polled_at`; a poll reads the record, stores its
  events and marks the row, three awaits.
- **Connections.** A token is a grant and a generation; `alive` is the generation the provider
  honours. `inFlight` is the map of shared refreshes.
- **Registry.** A request is a handler; `Renamed` is the move from the id derived from a key to
  the one KeeperHub names. `proofs` is the history of what sessions were minted for.
- **Workflows, Alerts.** `listing` is what the organisation holds; `told` the history of what
  was said of each incident, `heard` of what was critical and taken by a channel. A save and
  the consideration of what was saved are two steps, and both read the object in memory.
- **Feed, Signing, Diagnosis.** The bus is synchronous; a stream is a queue of events from the
  moment its reader's agents are known. A page holds two reads at most. The chain of
  `Signing` uses each nonce once; a plan that names none is `NoNonce`. A question reads the
  transaction, then the market and the balance, asks the model if a rule fires (`Finding`:
  R4 on a revert whose replay passed, R3 on a pending bid below the market, R6 on what paid
  for gas from a low balance), and remembers the answer: five awaits.

## 3. What is checked

| Run | Question | Properties |
|---|---|---|
| `ledger` | Do appenders that interleave and abort leave a ledger that verifies and are all answered? Is a row edited, swapped or removed from between two others reported at its place? | `HonestLedgerVerifies`, `TamperingIsLocated`, `EveryWriteReturns` |
| `remediator` | By how much do concurrent callers overshoot a budget that was read before their rows existed? Does a failing ledger write lose a submission, claim a success or keep a signer busy? | `BudgetsHold`, `SubmittedIsLedgered`, `NeverOverclaims`, `MutexHeldByACall`, `MutexIsReleased` |
| `execution` | Whatever is lost between an executor and the service, is what the remediator is told true, is anything paid twice, and is every attempt answered? | `ImplementsSubmission`, `NothingIsRepeated`, `EveryAttemptEnds` |
| `incidents` | Do memory and rows agree, are resolutions final, is what ended resolved; do stale whole-row saves credit what did not happen? | `MemoryMatchesRows`, `ResolvedStaysResolved`, `EndedIsResolved`, `CreditIsEarned` |
| `scanner` | Is a block passed over, is something registered that may be dropped, is a transaction never found? | `TypeOK`, `NeverSkips`, `DiscoveredIsFinal`, `EverythingIsFound` |
| `detection` | Is what the rules report so, do their plans work and not collide, is a gap reported and resolved when it is over, is what a wallet induces found? | `EvidenceHolds`, `PlansWork`, `ResolvedIsOver`, `GapsAreTracked`, `InducedIsFound` |
| `intake` | Does the mark pass a run that is not stored as it ended, is a run counted for two failures, is anything that ended, stalls or is refused never reported; is an execution lost, or settled early? | `SettledIsKept`, `RunsAreCounted`, `EverythingIsReported` |
| `intake_nudge` | Does a nudge only hasten what a tick does? **No.** | `NudgesOnlyHasten` |
| `connections` | Whatever overlaps with a refresh, does the credential survive, does a connection die only for cause and always at its lifetime? | `CredentialSurvives`, `CredentialsAreStored`, `DiesForCause`, `CallersReturn`, `LifetimeEndsIt` |
| `registry` | Whatever handlers overlap, does the first registration win, does only the owner act, is a signature worth one session? | `ImplementsOwnership`, `OnlyTheOwnerActs`, `RegistryHolds` |
| `outbound` | Does what was confirmed fire, are workflows named rather than counted, is each moment said once and its end where it began, and what is critical heard wherever it can be? | `OutboundHolds`, `CriticalIsHeard` |
| `console` | Do the list, the page and the counters follow what is stored; is what was signed credited only where the chain bears it out; is what a rule finds told with an explanation, and no more than the chain bears out? | `ConsoleHolds`, `ConsoleCatchesUp` |

Several properties are conjunctions of named parts: the comment above each says which, and
the mutants listed under them in `PROJECT.json` break different parts. Deadlock is not checked:
requests, blocks, time and changes are bounded, and a state where all of them are used up
is a legitimate end; that nobody waits for ever is what the liveness properties say.

Two refinements. `Registry` implements `Ownership`: every overlap of claims, sign-ins and
the move to another id is a claim of an unowned agent, the union of an operator's two ids,
or nothing. `Execution` implements `Submission`: whatever path serves an attempt, at most
one transaction of its own, at the target it asked for, from the agent's key where the
nonce is the agent's, and one answer, "succeeded" only where that target was reached.

### Bounds, and why they are enough

- `ledger`: two appenders, one legacy row, five rows. The tampered row needs a chained
  neighbour on each side and an honest row behind it.
- `remediator`: two callers, one of them twice and one with failing writes; three incidents
  such that each ceiling (incident, signer-hour, agent-day) is reached where the other two
  are not, and one of them executed under a key; an hour of one tick.
- `execution`: two attempts over two transfers to one address and a nonce to fill; the four
  executor sets, lost answers and a restart; then pairs of client calls, with waits below,
  at and beyond the patience of the client.
- `incidents`: two signers without faults, one with; four kinds of ending; three incidents of
  which one supersedes another; two requests, or two passes of the loop.
- `scanner`: four blocks behind the first, depth 1, one transaction between two addresses, and
  two blocks a tick: a tick can be three settled blocks behind, so that the cap binds.
- `detection`: two transactions, two nonces, two base fees and two bids: the higher fee outruns
  the lower bid, and what the market asks for at the lower fee does not outbid the higher bid
  by 12.5%, so that the floor of a replacement binds; two confirmations of a gap; a clock of two
  of which the rules look back on one, so that evidence ages out of their window; every
  scenario and none. Bids are of 40 or more, below which rounding down loses the 12.5%
  (section 5).
- `intake`: two workflows of which one is unreadable, a page of one run, two sweepers, three
  runs; one thing varies per mode. Two executions with a batch of one or two, one of them
  never answered for, the loop stopped and started while it ticks.
- `connections`: one organisation, two callers, one browser, two grants of three generations,
  a lifetime of one and a clock of two, any answer and any write lost.
- `registry`: one operator with two ids and one wallet, two handlers at a time out of four
  requests, a ceiling of one address and one challenge, two challenges issued: the second
  puts out the first. All three properties are proved for any other numbers.
- `outbound`: four installs, three presses, two evaluations of one incident that worsens, fails
  to be remedied and ends, a channel that fails and one that does not, four workflows; each
  mode lets one kind of caller loose, evaluations in turn or overlapping.
- `console`: two incidents, one public; one or two ticks, two connections, three fetches;
  two panels and three hashes, pasted while the ledger holds at most one attempt
  (`MaxOffers`); two pickers; two questions about two transactions and a memory of one.

### Fairness

Weak fairness of an await says that what was asked is answered, if only with an error:
`Remediator`, `Execution`, `Client`, `Connections`, `Feed`, `Diagnosis`, `IncidentTracker`,
`IncidentWriters`, `Detection`, `Intake`, `Watchlist`. The runtime's timer and the loop go
on starting ticks. Starting a request, mining, time and the wallet are not fair, except in
`Chaos`, whose scenarios are about a wallet that signs and a chain that mines. Strong
fairness is used where a step is disabled again and again by others: the ledger's lock
(Postgres grants it to whoever goes on asking), the scanner's reads (the endpoint fails
infinitely often, but not always at the same call), and an evaluation's save (a database that
is asked again and again does not fail for ever). Nothing makes a signer be evaluated:
`CriticalIsHeard` has it as a premise that the incident is found again and again
(`Reevaluated`), since `recorder.ts:186` evaluates only signers with something unsettled,
and `CriticalIsHeardAtOnce` of section 4 is what fails without it.
`EveryCallReturns` takes it that a REST request is answered; only the MCP client has a
timeout of its own.

## 4. Where the code disagrees

`intake_nudge` is a run of its own. `sweepKeeperHub` (`runtime.ts:435`), which a webhook
and the demo's button call, stores the runs it reads and moves the mark but evaluates
nothing; the tick that follows finds settled runs behind the mark, touches no signer, and
reports nothing until a later run arrives. `webhooks.ts:71` says "the same sweep the loop
does, sooner".

The others are stated in the modules, each with the line it is about, and TLC refutes them
when they are added to the configuration of the run.

| Formula | Module | What the code does |
|---|---|---|
| `SignerMutex` | `Remediator` | two calls for one signer pass the check before either is in the set (`remediator.ts:199`), and the first to finish releases the other's key |
| `LandedIsRetrievable` | `Remediator` | a run that lands after the last poll is ledgered as failed, without its hash (`workflow.ts:295`) |
| `OneRowPerTransaction` | `Remediator` | a second attempt at one incident sends the first one's key and is answered with its transaction (`keeperhub.ts:117-121`): two rows name one hash, and its gas is counted twice |
| `OutlastingGapStaysOpen` | `Detection` | an event that waits behind a gap for longer than the window is no longer seen, and the gap closes though it is not filled (`store/src/index.ts:196`) |
| `RunsWhatWasPlanned` | `Execution` | a later transfer to one address runs the workflow that holds the first one's amount (`workflow.ts:97`); the server passes no funding wallet, so no plan transfers today |
| `InitializedFirst`, `NoneIsSuperseded` | `Client` | a second MCP call goes ahead while the first initialises (`mcp.ts:102`); the sign-in that ends last is kept (`client.ts:231`) |
| `AnyRemovalIsSeen` | `LedgerTamper` | the first chained row is taken at its word and the length is not known (`ledger-chain.ts:122`) |
| `ResolvedMeansOver` | `IncidentTracker` | one tracker tests every open incident against the window of the signer at hand (`lifecycle.ts:179`) |
| `StormIsResolved` | `IncidentTracker` | only signers with unsettled transactions are evaluated (`recorder.ts:186`) |
| `CreditIsGiven`, `ProposalStaysCredited`, `OneLiveIncidentPerKey` | `IncidentWriters` | a tick resolves what a remediation is about to be attached to (`server.ts:704`); the tracker never learns of a signed one (`server.ts:786`); a whole-row save revives a resolved row (`app.ts:1410`) |
| `ResolvedStaysResolved`, `NoRowIsOrphaned` | `IncidentTracker` | with two ticks at once, and with saves that fail (its `~mode.faults` dropped), respectively |
| `WatchesFromTheMoment`, `NothingFromBefore` | `BlockScanner` | the first scan starts at the safe head of the first tick that succeeds; a cursor that stood still makes the next registration scan everything since (`scanner.ts:118-121`) |
| `NoRuleOfAnotherKind`, `NothingUsedIsReplaced` | `Detection` | nothing establishes the kind "signer", so every rule sees every window; R3 compares bids whose nonce is used up (`rules.ts:172`) |
| `DriftIsInduced` | `Chaos` | a reverted call is replayed at its parent block, where it passes only if the trap was armed in its own (`chain-source.ts:194`) |
| `FiledUnderItsWorkflow`, `EarlierSuccessExcusesNothing` | `Intake` | a run's action is its label, not its workflow; an earlier run of the same action excuses a stalled one (`rules.ts:488`) |
| `NoneIsStarved` | `Watchlist` | a batch of rows that always fail stays at the head of the order (`store/src/index.ts:519`) |
| `FeesAreFound` | `Watchlist` | the next poll finds the fees and its update leaves the submission (`enrich.ts:69`) |
| `SettledIsNotPending` | `Watchlist` | a row stored before its receipts keeps a key of its own and stays pending (`normalise.ts:84`) |
| `ForgottenStaysForgotten`, `LatestGrantIsKept` | `Connections` | a refresh in flight writes over a disconnection and over a newer grant |
| `ToldIsTrue`, `UnwatchedByItsOwner`, `EverythingMoves` | `Registry` | both of two overlapping claims are told yes (`store/src/index.ts:863`); an address claimed meanwhile is switched off (`app.ts:1989`); a handler that resolved the old id writes it after the move (`store/src/index.ts:957`) |
| `PressesAreSpaced`, `NamesDoNotAccumulate`, `SaidOnce` | `Workflows`, `Alerts` | presses and evaluations that overlap; a listing that still holds deleted workflows |
| `CriticalIsHeardAtOnce`, `FailedIsTriedAgain` | `Alerts` | a save that throws on the last evaluation of a signer leaves its incident unsaid (`recorder.ts:186`); a delivery that fails is remembered as said and not tried again, by design (`alerter.ts:67`) |
| `SaidIsStored` | `Alerts` | evaluations share the objects of the tracker: where two ticks overlap, one awaits the save of an incident while the other worsens or ends it, and then alerts of what nobody has stored, against "an alert never describes a state that was not persisted" (`recorder.ts:379`) |
| `OwnersCatchUp`, `FiguresAreTheReaders`, `NoSubscriberIsLeft`, `ListIsOfTheFilter` | `Feed` | the stream knows no session; a tick's counters count everybody's rows (`store/src/index.ts:363`); a reader who leaves while its stream opens stays subscribed (`app.ts:2090`); an event changes a row out of the filter |
| `WonMeansIncluded`, `OneAttemptPerHash`, `ResolutionIsKept`, `TheHashItselfIsMined`, `SentIsReported` | `Signing` | an accepted hash is announced as a success (`app.ts:1504`), may be submitted twice (`proposals.ts:218`), and its row saved over a resolution; what was sent before a refusal, or before a report that fails, is not reported (`SelfSigned.tsx:91`) |
| `SignableIsAsked` | `Signing` | the page turns every nonce into a number (`wallet.ts:25`), which throws where a plan leaves it to the wallet, as the plans of C1, C3 and C4 do (`chaos-plans.ts:122`) and the pause's (`proposals.ts:154`); "`C1`-`C4` are signable" (`docs/console-spec.md:654`) |
| `OneBillPerAnswer`, `AskedAgainIsSeen`, `ExplainedStillHolds`, `FailuresAreExplained` | `Diagnosis` | two who ask together both miss; an answer about a pending transaction is kept (`server.ts:674`), and what is said of it may have been overtaken while the model was asked; a revert that was doomed, or whose replay the node does not answer, is told without an explanation (`runtime.ts:511`) |

Read in the code while modelling, and without a formula: the loop the server constructs
(`server.ts:471`) is never ticked, since `loop?.tick;` (`server.ts:849`) is no call, although
`server.ts:696` speaks of "the background loop"; a row that does not parse ends a pass of it
for every incident behind (`loop.ts:59`, against `loop.ts:76`); `loadSignerWindow` takes the
oldest 500 events of its window (`store/src/index.ts:196`); a list's limit is applied before
the rows its reader may not see are taken out (`app.ts:1264`); ties of `startedAt` are lost to
the high-water mark; an incident page whose first read fails is never read again
(`Incident.tsx:65`).

## 5. What is proved

TLAPS proves, for every value of the constants and without bounds on callers, rows, blocks
or ticks:

| Theorem | Module | What it establishes |
|---|---|---|
| `HonestLedgersVerify` | `Remediation_proofs` | whatever the appenders interleave and abort, the walk of a ledger nobody tampered with succeeds, and the invariant that makes it so holds (`HonestLedgerVerifies`) |
| `LedgerTypeCorrect` | `Remediation_proofs` | the ledger, the lock and every appender's state stay well formed, for any number of writers and rows |
| `LedgerAlwaysVerifies` | `Remediation_proofs` | whatever the appenders interleave and abort, the walk of the ledger succeeds |
| `RemediatorTypeCorrect` | `Remediation_proofs` | the state of any number of concurrent calls stays well formed |
| `MutexNeverLeaks` | `Remediation_proofs` | a signer in the mutex set always has a call that will take it out (`MutexHeldByACall`) |
| `LedgerNeverOverclaims` | `Remediation_proofs` | a row that says succeeded names a transaction with a success receipt that was sent for the row's own incident, whatever was lost, replayed or written twice (`NeverOverclaims`) |
| `SubmissionsAreLedgered` | `Remediation_proofs` | without failing ledger writes, every submission that answered ends in exactly one row of its run, under the hash it was given, be it a new transaction or a replayed one (`SubmittedIsLedgered`) |
| `ScannerTypeCorrect` | `BlockScanner_proofs` | the scanner's rows, its cursor and the locals of any number of overlapping ticks stay well formed, the cursor within the chain (`TypeOK`) |
| `ScannerNeverSkips` | `BlockScanner_proofs` | for any addresses, transactions, overlapping ticks, confirmation depth and cap, every block up to the stored cursor has been examined for every address registered before it, if at most the confirmation depth of blocks pass between a tick's first two reads (`NeverSkips`) |
| `DiscoveriesAreFinal` | `BlockScanner_proofs` | under the same assumption, nothing is registered from a block that a reorganisation of the confirmation depth can still drop (`DiscoveredIsFinal`) |
| `ReplacementsDisplace` | `Detection_proofs` | whatever the market has done since, a replacement is at the nonce of the bid it replaces and outbids it by the protocol's 12.5%, for bids of 40 wei or more |
| `ManagedNoncesAreLeftAlone` | `Detection_proofs` | no plan the servability check lets through for an agent KeeperHub executes for names a nonce, whatever executors there are |
| `PlansPayNobody` | `Detection_proofs` | every plan sends to the signer itself or to the registered breaker, and only a funded top-up carries value |
| `OnlyOwnersAct` | `Operator_proofs` | for any operators, agents, addresses and requests, however many handlers overlap, a breaker or a run log is touched only by whoever owns the agent, and a breaker belongs to its agent's owner (`OnlyTheOwnerActs`) |
| `RegistryImplementsOwnership` | `Operator_proofs` | every step of the registry is a claim of an unowned agent, the union of one operator's two ids, or nothing: the first registration wins (`ImplementsOwnership`) |
| `ExecutorsImplementSubmission` | `Execution_proofs` | whatever is lost between the executors and the service, an attempt makes at most one transaction of its own, at the target it asked for, and is told it succeeded only where that target was reached (`ImplementsSubmission`) |
| `NothingIsEverRepeated` | `Execution_proofs` | for any attempts, callers, losses and restarts, a direct execution of a work is carried out once, workflows that serve one target are one, no request of the client is repeated that was not safe to repeat, and no caller is told of work that was not done (`NothingIsRepeated`) |
| `StoredCredentialSurvives` | `Console_proofs` | for any callers, organisations and losses, the token an active connection stores is the living one of its grant, unless the grant died or its rotation was lost (`CredentialSurvives`) |
| `ConnectionsDieForCause` | `Console_proofs` | overlapping callers never condemn a connection by each spending its rotating token (`DiesForCause`) |
| `CredentialsAreKept` | `Console_proofs` | the state is well formed, no access token is used that its row does not account for, no session exists before the connection it was to come with, and one consent is worth at most one grant (`CredentialsAreStored`) |
| `RegistryIsKept` | `Operator_proofs` | whatever handlers overlap, the rows and the outstanding challenges keep their shape and their bounds, watched addresses pass the ceiling by fewer than there are handlers, and no nonce is worth two sessions (`RegistryHolds`) |
| `BudgetsAreKept` | `Remediation_proofs` | for any number of callers, limits, windows and clock, the ceilings per incident, per signer and hour, on gas, and per agent and day are overrun by no more than what the calls past the guard together write (`BudgetsHold`) |
| `TamperingIsAlwaysLocated` | `Remediation_proofs` | a row edited, swapped with its neighbour or taken from between two others, in any interleaving and behind any later appends, is named by the walk with its reason (`TamperingIsLocated`) |
| `CreditIsAlwaysEarned` | `IncidentWriters_proofs` | for any signers, overlapping ticks and requests, whatever fails and whenever the process dies, a row is credited to Blackbox or to a signed proposal only if that landed for that very incident (`CreditIsEarned`) |
| `MemoryAlwaysMatchesRows` | `IncidentWriters_proofs` | where one tick does not overtake another, what the tracker holds and what is stored agree, through ingests, queued saves and restarts (`MemoryMatchesRows`) |
| `ResolutionsAreKept` | `IncidentWriters_proofs` | where one tick does not overtake another and nobody else writes rows, the recorder never takes back a resolution it has stored, through crashes and failed saves (`ResolvedStaysResolved`) |
| `CertaintyIsNeverContradicted` | `Detection_proofs` | for any transactions, fees, clock and scenario, in whatever order blocks, polls, answers and crashes come, the state is well formed and what is reported stuck with full confidence had not been executed when the chain was asked (`EvidenceHolds`) |
| `PlansAlwaysWork` | `Detection_proofs` | for base fees of 40 wei or more, a fill goes below something still held as pending at a nonce the chain had not used, a replacement outbids what it replaces whatever the market does next, and no two incidents of one evaluation plan transactions that displace each other (`PlansWork`) |
| `GapsCloseWhenOver` | `Detection_proofs` | however far the chain moves on between the question and the evaluation, a gap incident closes only at a step where nothing stored, and within the window the rules look back on, waits behind a nonce nobody submitted at (`ResolvedIsOver`) |
| `MarkKeepsWhatItPasses` | `Intake_proofs` | for any workflows, page sizes, runs, overlapping sweeps, failures and restarts, the high-water mark passes no run of a workflow watched all along before the run is stored as it ended, unless a sweep logged its truncation (`SettledIsKept`) |
| `IngestCounts` | `Intake_proofs` | the ingest stays well formed, a run is never counted for two failures however often it is read, and no execution is settled or its caller told it is watched without a row that says so; two ticks of the loop never overlap (`RunsAreCounted`) |
| `OutboundKept` | `Operator_proofs` | for any callers, incidents, channels, routes, failures and restarts, a confirmed trigger fires until it is deleted, a workflow is made only where none of its name was, demo presses that do not overlap are a cooldown apart, and while evaluations do not overlap each moment of an incident is said once, as it is stored, and its end wherever it was reported (`OutboundHolds`) |
| `ConsoleKept` | `Console_proofs` | for any incidents, connections, ticks, pages, wallets, transactions and models' answers, a list that is ready shows only what its filter asks for, every event is counted once as posted or dropped, a success and a resolution rest on a transaction that took the signer's nonce, a scene's hashes follow its plan as far as the wallet does, a saved picker shows what is watched, no answer says more than the chain, what a rule finds in a transaction is told with an explanation and state drift of no revert but one the block before let through, and what is remembered and billed is bounded (`ConsoleHolds`) |

- **Ledger.** `IInv` says that legacy rows come first, that each later row hashes what it says
  and follows the row before it, and that whoever has read the tip holds the lock and the
  tip is still the tip. Without the last part an insertion would not preserve the second.
  That `Intact` implies a successful walk is a lemma about `VerifyChain` alone. That
  tampering is located needs that the hashes of a chain differ (`Distinct`): a hash repeats
  only if two rows follow one hash, which is the same statement about fewer rows. The break
  made is then the first (`FirstDifference`), and an append leaves the first break where it
  is (`AppendKeepsFirstBreak`).
- **Remediator.** The mutex proof is inductive as stated. `NeverOverclaims` needs that a call
  which has seen inclusion holds the mined hash of a transaction sent for its incident, its own
  or the replay of an earlier attempt's (`LocalsAgree`); `SubmittedIsLedgered` needs beside it
  that a run's row exists exactly when the call has passed its recording step, and that what the
  call was told is the hash it still holds (`SInv`). It asks it only of callers whose own writes
  do not fail. The budgets count
  slots: `BudgetInv` bounds, for every window there has been, the rows in it and the rows
  that calls past the guard may still write there (`Load`). A guard is the only step that
  adds to a load, and what it adds to is what it has just read; everything else moves a slot
  into a row, or a later window's load into an earlier one's (`LoadMoves`).
- **Scanner.** `IInv` says what a tick may rely on at each of its steps: whoever it does not
  watch was registered no earlier than the last block it will read (`LateFor`), the blocks
  behind it are settled (`Behind`, `Backed`), and the matching transactions not yet written
  are exactly `found` (`InsertLocal`). A settled block stays settled (`SettledStays`), so a
  late commit that moves the cursor back moves it to something still settled.
- **Playbooks** (in `Detection_proofs`). Lemmas about the rounding of `115%`: from 40 wei on, the
  floor is 12.5% above the bid. For smaller bids it need not be (6 wei becomes 6). The other two
  go by cases of the playbook.
- **Detection.** One lemma for each rule says what its drafts are, and one that the classes that
  displace each other's transactions do not survive `SUPPRESSES` together. What they need of the
  state is `DetectionInv`. Its heart is `TickOK`: a tick polls before it asks the chain for the
  nonce, so whatever a stored event says has settled lies below the nonce the chain answered, and
  what was submitted from there on is still pending. A gap below such a submission therefore
  holds something up, and a pending event whose nonce is used was looked at when it was not.
  `Chaos` adds only which scenario is under way (`ChaosInv`), so the theorems hold for each of
  the scenarios and for a signer at large. Minimal and maximal events of a window exist because
  it is finite and `Precedes` is a total order on it (`Orderly`).
- **Registry.** `RInv`: between a check and the write it allows, the answer that was read stays
  true (`LocalInv`), because an owner once set changes only to the same operator's other id;
  and a breaker is its agent's owner's. From it each step of the registry is a step of
  `Ownership`. `Ceiling` counts rows and the handlers about to file one: whoever is let in
  found room, and they are at most as many as there are handlers. `Spending` says where a
  nonce can be: outstanding, with one handler, spent, or gone.
- **Execution.** `EInv`: where an attempt is says what it has been given (`PathInv`), and the
  workflow it runs, the execution it follows and the work its own execution carries out all
  have the target it asked for (`TargetInv`, `KnownInv`: a cached name is the name of a
  workflow for that target). The simulation maps each step to one of `Submission` or to a
  stutter; that nothing is paid twice needs one more invariant about executions and keys
  (`OInv`). The client's is `ClientInv`: whoever's work was done and who is not answered yet
  may only ask again under a key (`WorkInv`), one key is worth one execution (`OneKey`), and
  whoever is alone with its kind of call owns the last challenge or the session (`TalkInv`).
- **Connections.** `CInv`: whoever refreshes is the only one for its organisation, what it
  sent is what the row still says unless the row is of another grant, what it got lives, and
  what it condemns deserves it (`CallInv`); the row holds the living token of its grant, or
  the one who refreshes is about to write it, or it is lost (`RowInv`); a grant is of one
  organisation, and of none before it is stored (`GrantsInv`, `FlowInv`). That credentials
  are stored needs `Kept`: an access token in use is of the row's grant and no newer than it,
  or of another grant; and a consent is in one place only: a request, the callback that took
  it, or the grant it gave, so grants and consents under way together are at most the
  requests ever made.
- **Incident writers.** An ingest is proved once to be one effect (`Ingested`): each incident
  handed out before is finished, and then saved, or spared; the others are new, tracked and
  saved. `WInv` says that the tracker's map and objects name the same incidents (`Placed`)
  and that rows, objects, and the copies that evaluations and requests carry say no more than
  was done (`Credited`); a request's queue of read rows is part of it. `Matched` adds, where
  ticks do not overlap, that a save under way writes the status its object still has.
- **Intake.** The mark is a number, and what it vouches for is written by sweeps that each took
  their pages, and chose their workflows, at another time. `SettledUpTo(m)` is therefore kept
  for the stored mark and for the mark each sweep has read, which may be older. A sweep knows
  (`SweepInv`) that what it has seen is an earlier state of what is there (`Seen`), that a run
  above its mark was seen, lies on a page it has not read, or started after all it has seen
  (`Accounted`), and that what it is done with and did not note as unstored has arrived. When it
  finishes, whoever is at or below the mark it writes is then below its old mark, or was seen
  and is no blocker, and so is stored; a run that started later at the newest instant seen is
  `Tied`. Every step only adds to what is true of a run (`Steady`), which is why a sweep still
  knows what it knew after a step of the other. A row is a failure only at a run's last
  transaction (`RowInv`), hence at most once. Whom the tick reports is a workflow because every
  draft about a managed wallet cites events of the window (`DraftsAreBacked`).
- **Watched executions.** `XInv`: what is stored of an execution is provisional or how it ended
  (`RecordsInv`); the order of polls holds each unsettled row at most once, and the loop's body
  runs at most once (`LoopInv`); between its reads and `markPolled` a poll holds the record as
  it ended and has stored it, so whoever is settled is stored (`SettledInv`).
- **What an operator is told.** `WorkflowsInv` and `AlertsInv`. The listing forgets no name, so a
  call that is about to create found none of its name when it began (`NamesInv`), or the listing
  it read was one that failed; what is confirmed had its secret minted before it was armed
  (`InstallsInv`). Where demo presses do not overlap, who has claimed the slot is a cooldown from
  whoever claimed it before (`AlonePressesInv`). Nothing said of an incident exceeds what it is
  (`SaidInv`); and where evaluations do not overlap, what is being said, or else what is
  remembered, is the last thing told (`AloneSaysInv`), so that whatever is told next differs from
  all that was told before: severity only rises, a failure is repeated only after something worse,
  and an end is the last. What is considered there has been stored (`AloneStoredInv`); where they
  overlap, one evaluation worsens or ends the object while the other awaits its save. That an end
  reaches whoever heard of the beginning is asked of channels that some route would report an end
  to, since a route may leave ends out (`routing.ts:50`).
- **The console.** `FeedInv`, `SigningInv` and `DiagnosisInv`, none of which reads what the others
  are about. A list's ticket is its newest request's, so the answer it takes asked for the filter
  on screen (`ListInv`); a burst of events is posted as far as the ceiling leaves room, so what is
  in flight is as many as the posts outstanding, and what was offered is what ended, is in flight
  or was dropped (`HookInv`). Of the chain it is enough that what was sent keeps its sender and
  nonce and that a fate is final (`Steady`): what a panel waits for then goes on agreeing with the
  plan (`Justified`), a hash displaced was displaced by another at its nonce (`TxInv`), so
  following it ends where the nonce was used, and the hashes of a scene, where the wallet keeps
  the nonces it is given, go on following the plan it had when they were signed (`InStep`), a plan
  being replaced only while the page lists no hash. A picker is settled only at rest, and whoever
  changes what is watched is not at rest (`Settles`). What an asker read of a transaction was true
  of it then and is never ahead of the chain (`Read`): a mined outcome is what was mined, and a
  replay passes only where the chain drifted. So what is told at the end (`Told`) was found by a
  rule in such a reading and names the source that explained it, or says that no rule found
  anything. Each attempt of each request is billed once (`Bills`), a finite set, whose size bounds
  the calls.
Assumptions: those named `...Assumption` in the modules, which TLC evaluates in every run,
and three written into theorems. Base fees of 40 wei or more stand before `PlansAlwaysWork`: on
any live network they are, and below that the floor of a replacement is rounded away.
`OneTick` stands before the last two of the incident writers:
the timer does not wait for a tick that takes longer than its interval, and with two at
once `ResolvedStaysResolved` fails. `SlowReads = FALSE` stands before two of the scanner. The
code does not enforce that one either: `activeSigners` is read before the head, and if more than
`confirmations` blocks appear in between, a block mined after a registration can be examined
without that address. With `SlowReads = TRUE`, `NeverSkips` fails.

## 6. What only TLC shows

The liveness properties, one or two of each part of section 3, since the prover handles neither
fairness nor `ENABLED`: `EveryWriteReturns`, `MutexIsReleased`, `EndedIsResolved`,
`EverythingIsFound`, `CallersReturn`, `LifetimeEndsIt`, `GapsAreTracked`, `InducedIsFound`,
`EverythingIsReported`, `EveryAttemptEnds`, `CriticalIsHeard` and `ConsoleCatchesUp`. They hold on
the instances above. Every other property a passing run checks is a theorem of section 5. The formulas of
section 4 are refuted by TLC and are claimed nowhere else.

## 7. What is not modelled, and why

- Configuration, schemas and migrations (`core/src/config.ts`, `schemas.ts`): parsing and
  tables; the values that matter are constants. The MCP server (`mcp/src`) forwards each tool
  to one route and keeps nothing.
- Presentation: `serialise.ts`, `run-log.ts`'s steps, the console's other pages, alert and
  template texts, prompts. `CircuitBreaker.sol` is an address that plans call.
- Paging and limits of lists (200 and 50 rows), rate limits per address, the MAC of webhooks,
  encryption of tokens, the bodies of workflows.
- KeeperHub is taken to answer 400 or 401 to a refresh only for a token that is dead
  (`oauth.ts:290`); a signed plan reads the market and signs in one step; registry ids are
  distinct within their 64 characters; receipts appear only in an execution's terminal
  record, and an execution's loop is stopped only where it runs. Two runs of one
  millisecond are set aside. KeeperHub replays a key for 24 hours (`client.ts:322`): in
  `Remediator` it does, in `Execution` for good, so attempts a day apart are not among its
  attempts. Nothing in the deployment populates the analysis R7 reads, so
  `Detection` and `Intake` give it none. `RecorderLoop`, the instrumented client, the guarded
  pause and the remediation loop are started only by the repository's end-to-end scripts.

## 8. Running it

`tlc -workers 2 -config Registry.cfg MCRegistry`, and likewise each run of `PROJECT.json`
(half a minute to two minutes each); `tlapm BlockScanner_proofs.tla` and likewise each
`_proofs` module.
