------------------------------ MODULE Workflows -----------------------------
(***************************************************************************)
(* The workflows Blackbox keeps in an operator's KeeperHub organisation by *)
(* name (packages/api triggers and demo, packages/alerter channels): the   *)
(* triggers an operator has installed, the one the demo button runs and    *)
(* the one alerts are mailed through.  One step per await.  KeeperHub is   *)
(* external: it lists what it has, deleted or not, in an order of its own, *)
(* and may fail a request before or after it took effect.  A workflow is   *)
(* the position it was created at.                                         *)
(***************************************************************************)
EXTENDS Naturals, Sequences, FiniteSets

CONSTANTS
    Installs, Presses, Mailers,  \* callers: installs, demo presses, mail deliveries
    Asks,              \* install -> the request that asks for it
    Cooldown,          \* DEMO_COOLDOWN_MS
    RunsPerPress,      \* DEMO_RUNS_PER_PRESS
    MaxTime,           \* bound: the clock
    MaxListed,         \* bound: workflows ever created
    MaxRestarts,       \* bound
    Modes              \* which callers there are and what may go wrong

Callers == Installs \union Presses \union Mailers
NoWorkflow == 0
Never == MaxTime + 1

ASSUME WorkflowsAssumption ==
    /\ Cooldown \in Nat \ {0} /\ RunsPerPress \in Nat \ {0}
    /\ MaxTime \in Nat /\ MaxListed \in Nat
    /\ Installs \intersect Presses = {} /\ (Installs \union Presses) \intersect Mailers = {}
    /\ \A i \in Installs :
          /\ Asks[i].kind \in {"schedule", "event", "block"}
          /\ Asks[i].signedIn \in BOOLEAN /\ Asks[i].complete \in BOOLEAN
          /\ Asks[i].soon \in BOOLEAN
    /\ \A m \in Modes :
          /\ m.callers \subseteq Callers
          /\ {m.sequential, m.faults, m.deletes, m.paid} \subseteq BOOLEAN

VARIABLES
    mode,
    listing,   \* what KeeperHub lists: name, alive, armed, secret, and
               \* whether its maker had to make it
    at,        \* caller -> the await it is at
    using,     \* caller -> the workflow it has found or made
    answer,    \* caller -> what it was told
    began,     \* caller -> the names there were live workflows of when it began
    spurned,   \* installs whose patch of a listed workflow failed
    minted,    \* installs a webhook secret was minted for
    cached,    \* name -> the workflow this process knows by it
    lastRun,   \* the demo's cursor
    now,
    pressed,   \* press -> when it was made
    left,      \* caller -> runs it has still to start
    restarts

calls == <<at, using, answer, began, spurned, minted, pressed, left>>
process == <<cached, restarts>>
wvars == <<mode, listing, calls, process, lastRun, now>>

NameOf(c) ==
    CASE c \in Installs -> IF Asks[c].kind = "schedule" THEN "triggers/sweep" ELSE "triggers/event"
      [] c \in Presses -> "demo"
      [] OTHER -> "alerts/email"
Names == {NameOf(c) : c \in Callers}
Ids == 1..Len(listing)
Named(name) == {k \in Ids : listing[k].name = name}

WorkflowsTypeOK ==
    /\ mode \in Modes
    /\ \A k \in Ids :
          /\ listing[k].name \in Names /\ listing[k].secret \in Callers
          /\ listing[k].armed => listing[k].alive
    /\ at \in [Callers -> {"idle", "read", "claim", "find", "patch", "create", "sync", "run", "done"}]
    /\ using \in [Callers -> 0..MaxListed] /\ \A c \in Callers : using[c] \in Ids \union {NoWorkflow}
    /\ answer \in [Callers -> {"none", "installed", "ran", "cooling", "refused", "failed", "lost"}]
    /\ spurned \subseteq minted /\ minted \subseteq Installs
    /\ cached \in [Names -> 0..MaxListed]
    /\ lastRun \in 0..Never /\ now \in 0..MaxTime
    /\ pressed \in [Callers -> 0..Never] /\ left \in [Callers -> 0..RunsPerPress]

WorkflowsInit ==
    /\ mode \in Modes
    /\ listing = <<>>
    /\ at = [c \in Callers |-> "idle"] /\ using = [c \in Callers |-> NoWorkflow]
    /\ answer = [c \in Callers |-> "none"] /\ began = [c \in Callers |-> {}]
    /\ spurned = {} /\ minted = {}
    /\ cached = [n \in Names |-> NoWorkflow]
    /\ lastRun = Never /\ now = 0
    /\ pressed = [c \in Callers |-> Never] /\ left = [c \in Callers |-> 0]
    /\ restarts = 0

(***************************************************************************)
(* A call begins, ends, and goes from one await to the next.               *)
(***************************************************************************)
Midway(c) == at[c] \notin {"idle", "done"}
Turn(c) == c \in mode.callers /\ at[c] = "idle"
           /\ (mode.sequential => \A d \in Callers : ~Midway(d))
Advance(c, label) == at' = [at EXCEPT ![c] = label] /\ UNCHANGED answer
Answer(c, a) == at' = [at EXCEPT ![c] = "done"] /\ answer' = [answer EXCEPT ![c] = a]
Uses(c, k) == using' = [using EXCEPT ![c] = k]
LiveNames == {n \in Names : \E k \in Named(n) : listing[k].alive}
Begins(c) == began' = [began EXCEPT ![c] = LiveNames]
Keep == UNCHANGED <<mode, began, minted, restarts, lastRun, now, pressed>>

(***************************************************************************)
(* POST /api/triggers/keeperhub.  The secret is minted before the schedule *)
(* is looked at; what cannot be installed goes no further.                 *)
(***************************************************************************)
Mints(i) ==
    /\ Asks[i].signedIn
    /\ Asks[i].kind = "schedule" \/ (Asks[i].kind = "event" /\ Asks[i].complete)
Installable(i) == Mints(i) /\ Asks[i].complete /\ ~(Asks[i].kind = "schedule" /\ Asks[i].soon)

Install(i) ==
    /\ Turn(i) /\ Begins(i)
    /\ minted' = IF Mints(i) THEN minted \union {i} ELSE minted
    /\ IF Installable(i) THEN Advance(i, "find") ELSE Answer(i, "refused")
    /\ UNCHANGED <<mode, listing, using, spurned, pressed, left, process, lastRun, now>>

\* An organisation on the free plan is refused whatever it would write (402).
Upgrade(i) ==
    /\ i \in Installs /\ ~mode.paid /\ at[i] \in {"patch", "create", "sync"}
    /\ Answer(i, "refused")
    /\ Keep /\ UNCHANGED <<listing, using, spurned, left, cached>>

\* What is listed is not looked at.
FindNothing(c) ==
    /\ at[c] = "find" /\ Advance(c, "create")
    /\ Keep /\ UNCHANGED <<listing, using, spurned, left, cached>>

\* upsert, installs; ensureWorkflow, the others: the first of that name.
Find(c) ==
    /\ at[c] = "find"
    /\ LET found == Named(NameOf(c)) IN
       \/ found = {} /\ Advance(c, "create") /\ UNCHANGED <<using, cached>>
       \/ \E k \in found :
             /\ Uses(c, k)
             /\ IF c \in Installs THEN Advance(c, "patch") /\ UNCHANGED cached
                ELSE Advance(c, "run") /\ cached' = [cached EXCEPT ![NameOf(c)] = k]
    /\ Keep /\ UNCHANGED <<listing, spurned, left>>

Armed(k, i) == [listing EXCEPT ![k].armed = TRUE, ![k].secret = i]

\* Any failure of the patch but 402 is a reason to create.
Patch(i) ==
    /\ at[i] = "patch" /\ mode.paid
    /\ \/ /\ listing[using[i]].alive
          /\ listing' = Armed(using[i], i)
          /\ \/ Answer(i, "installed") /\ UNCHANGED spurned
             \/ mode.faults /\ Advance(i, "create") /\ spurned' = spurned \union {i}
       \/ /\ mode.faults \/ ~listing[using[i]].alive
          /\ Advance(i, "create") /\ spurned' = spurned \union {i}
          /\ UNCHANGED listing
    /\ Keep /\ UNCHANGED <<using, left, cached>>

Made(c) == Append(listing,
    [name |-> NameOf(c), alive |-> TRUE, armed |-> FALSE, secret |-> c,
     needed |-> c \in spurned \/ NameOf(c) \notin began[c]])

\* The trigger is taken for registered when it is created.
CreateUnsynced(c) ==
    /\ at[c] = "create" /\ Len(listing) < MaxListed
    /\ listing' = Made(c) /\ Uses(c, Len(listing) + 1) /\ Answer(c, "installed")
    /\ Keep /\ UNCHANGED <<spurned, left, cached>>

\* Creating persists the nodes; the patch after it registers the trigger.
Create(c) ==
    /\ at[c] = "create" /\ Len(listing) < MaxListed
    /\ c \in Installs => mode.paid
    /\ \/ /\ listing' = Made(c)
          /\ \/ /\ Uses(c, Len(listing) + 1)
                /\ Advance(c, IF c \in Installs THEN "sync" ELSE "run")
                /\ cached' = IF c \in Installs THEN cached
                             ELSE [cached EXCEPT ![NameOf(c)] = Len(listing) + 1]
             \/ mode.faults /\ Answer(c, "failed") /\ UNCHANGED <<using, cached>>
       \/ mode.faults /\ Answer(c, "failed") /\ UNCHANGED <<listing, using, cached>>
    /\ Keep /\ UNCHANGED <<spurned, left>>

Sync(i) ==
    /\ at[i] = "sync" /\ mode.paid
    /\ \/ /\ listing[using[i]].alive
          /\ listing' = Armed(using[i], i)
          /\ \/ Answer(i, "installed")
             \/ mode.faults /\ Answer(i, "failed")
       \/ /\ mode.faults \/ ~listing[using[i]].alive
          /\ Answer(i, "failed") /\ UNCHANGED listing
    /\ Keep /\ UNCHANGED <<using, spurned, left, cached>>

(***************************************************************************)
(* Demo.run: the cursor is read, the slot is claimed before anything runs. *)
(***************************************************************************)
Press(p) ==
    /\ Turn(p) /\ Begins(p) /\ Advance(p, "read")
    /\ pressed' = [pressed EXCEPT ![p] = now]
    /\ left' = [left EXCEPT ![p] = RunsPerPress]
    /\ UNCHANGED <<mode, listing, using, spurned, minted, process, lastRun, now>>

Cooling(p) == lastRun # Never /\ lastRun + Cooldown > pressed[p]

Read(p) ==
    /\ at[p] = "read"
    /\ IF Cooling(p) THEN Answer(p, "cooling") ELSE Advance(p, "claim")
    /\ Keep /\ UNCHANGED <<listing, using, spurned, left, cached>>

\* Where ensureWorkflow starts: what this process knows needs no listing.
Ensure(c) == IF cached[NameOf(c)] = NoWorkflow THEN "find" ELSE "run"
Ensured(c) == Advance(c, Ensure(c)) /\ Uses(c, cached[NameOf(c)])

\* The slot is claimed when the runs have been started.
ClaimLast(p) ==
    /\ at[p] = "claim" /\ Ensured(p)
    /\ UNCHANGED <<mode, listing, began, spurned, minted, pressed, left, process, lastRun, now>>

Claim(p) ==
    /\ at[p] = "claim"
    /\ lastRun' = pressed[p]
    /\ Ensured(p)
    /\ UNCHANGED <<mode, listing, began, spurned, minted, pressed, left, process, now>>

\* A deleted workflow may refuse to run; nothing forgets or replaces it.
Run(c) ==
    /\ at[c] = "run"
    /\ \/ /\ left' = [left EXCEPT ![c] = @ - 1]
          /\ \/ left[c] > 1 /\ Advance(c, "run")
             \/ left[c] = 1 /\ Answer(c, "ran")
             \/ mode.faults /\ Answer(c, "failed")
       \/ /\ mode.faults \/ ~listing[using[c]].alive
          /\ Answer(c, "failed") /\ UNCHANGED left
    /\ Keep /\ UNCHANGED <<listing, using, spurned, cached>>

ListFails(c) ==
    /\ mode.faults /\ at[c] \in {"find", "read", "claim"}
    /\ Answer(c, "failed")
    /\ Keep /\ UNCHANGED <<listing, using, spurned, left, cached>>

(***************************************************************************)
(* The organisation, the clock and the process.                            *)
(***************************************************************************)
Delete(k) ==
    /\ mode.deletes /\ listing[k].alive
    /\ listing' = [listing EXCEPT ![k].alive = FALSE, ![k].armed = FALSE]
    /\ UNCHANGED <<mode, calls, process, lastRun, now>>

Pass ==
    /\ now < MaxTime /\ mode.callers \intersect Presses # {}
    /\ now' = now + 1
    /\ UNCHANGED <<mode, listing, calls, process, lastRun>>

Forgets ==
    /\ mode.faults /\ restarts < MaxRestarts
    /\ restarts' = restarts + 1
    /\ cached' = [n \in Names |-> NoWorkflow]
    /\ at' = [c \in Callers |-> IF Midway(c) THEN "done" ELSE at[c]]
    /\ answer' = [c \in Callers |-> IF Midway(c) THEN "lost" ELSE answer[c]]
    /\ UNCHANGED <<mode, listing, using, began, spurned, minted, pressed, left, lastRun, now>>

Works(c) == Find(c) \/ Patch(c) \/ Create(c) \/ Sync(c) \/ Run(c)
\* The exceptions a request ends with.
Throws(c) == Upgrade(c) \/ ListFails(c)
Operates == \/ \E i \in Installs : Install(i)
            \/ \E p \in Presses : Press(p) \/ Read(p) \/ Claim(p)
            \/ \E k \in Ids : Delete(k)
            \/ Pass

(***************************************************************************)
(* Properties.                                                             *)
(***************************************************************************)
\* An install that was confirmed fires as long as it is not deleted, and what
\* it fires with is a secret that was minted (triggers.ts:119, "create alone
\* persists the nodes without registering the schedule").
InstalledFires == \A i \in Installs : answer[i] = "installed" =>
    LET w == listing[using[i]] IN w.alive => w.armed /\ w.secret \in minted

\* Nothing is created where a live workflow of that name was when the call
\* began, unless its patch failed (triggers.ts:118, demo.ts:169, channels.ts:58,
\* "Named rather than counted").
NamedNotCounted == \A k \in Ids : listing[k].needed

\* The demo runs at most once a cooldown when its presses do not overlap,
\* whatever fails or restarts in between (demo.ts, "Claim the slot before running").
Ran(p) == left[p] < RunsPerPress
PressesAreSpaced == \A p, q \in Presses :
    (p # q /\ Ran(p) /\ pressed[p] # Never /\ Ran(q) /\ pressed[q] # Never) =>
        pressed[p] + Cooldown <= pressed[q] \/ pressed[q] + Cooldown <= pressed[p]
AlonePressesAreSpaced == mode.sequential => PressesAreSpaced

\* Violated by the code when presses overlap: each reads the cursor before the
\* other claims, though demo.ts:141 has the claim prevent just that; and a slow
\* claim moves the cursor back.
\* Violated by the code under deletions: a listing still holds what was deleted,
\* so an install that finds it creates another each time (triggers.ts:118).
NamesDoNotAccumulate == mode.sequential => \A n \in Names : Cardinality({k \in Named(n) : listing[k].alive}) <= 1
=============================================================================
