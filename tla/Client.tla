-------------------------------- MODULE Client ------------------------------
(***************************************************************************)
(* KeeperHub as a client meets it (packages/core/src/keeperhub: client,    *)
(* rate-limit, mcp).  One step per answer.  A request may be rate limited, *)
(* refused or lost, and what it asked for may have been done all the same. *)
(* The service, external, mints challenges, replays a request whose key it *)
(* has seen, and keeps sessions that must be initialised before use.       *)
(***************************************************************************)
EXTENDS Integers, FiniteSets

CONSTANTS
    Callers,
    Nobody,
    MaxRetries,   \* maxRateLimitRetries
    MaxWait,      \* MAX_RETRY_WAIT_MS, in the unit of the headers
    Epoch, Now,   \* EPOCH_THRESHOLD_SECONDS, and a moment beyond it
    Waits         \* what a limiter may mean

ASSUME ClientAssumption ==
    /\ Nobody \notin Callers
    /\ MaxRetries \in Nat /\ MaxWait \in Nat
    /\ Epoch \in Nat /\ Now \in Nat /\ Waits \subseteq Nat
    /\ Epoch <= Now /\ \A w \in Waits : w < Epoch

VARIABLES
    ops,        \* caller -> what it calls
    call,       \* caller -> the await it is at, its retries, its wait, its answer
    ran,        \* caller -> how often the service has done what it asked for
    challenged, \* the caller whose challenge is the last one minted
    cookie,     \* the caller whose login this client carries
    sid,        \* the MCP session this client carries, by who began it
    ready,      \* MCP sessions the service holds as initialised
    paused      \* the breaker, as the chain has it

cvars == <<ops, call, ran, challenged, cookie, sid, ready, paused>>
held == <<ops, challenged, cookie, sid, ready>>

Op(does, keyed, fn) == [does |-> does, keyed |-> keyed, fn |-> fn]
NoOp == Op("nothing", FALSE, "none")
NoCall == [at |-> "idle", tries |-> 0, meant |-> 0, slept |-> 0, why |-> "none", answer |-> "none"]

Does(c) == ops[c].does
\* What is asked for is done on chain, unless the function only reads.
Writes(c) == Does(c) \in {"transfer", "guardedPause"} \/ ops[c].fn = "write"

ClientStart ==
    /\ call = [c \in Callers |-> NoCall]
    /\ ran = [c \in Callers |-> 0]
    /\ challenged = Nobody /\ cookie = Nobody
    /\ sid = Nobody /\ ready = {} /\ paused = FALSE

(***************************************************************************)
(* rate-limit.ts.  A header that is absent is Absent.                      *)
(***************************************************************************)
Absent == [form |-> "absent", value |-> 0]
Seconds(n) == [form |-> "seconds", value |-> n]
Date(n) == [form |-> "date", value |-> n]

\* The ways in which a limiter says that it means a wait of w, w = 0 also by a
\* moment that is over.
Headers(w) ==
    {[after |-> Seconds(w), reset |-> Absent], [after |-> Date(Now + w), reset |-> Seconds(1)],
     [after |-> Absent, reset |-> Seconds(Now + w)]}
    \union (IF w > 0 THEN {[after |-> Absent, reset |-> Seconds(w)]}
            ELSE {[after |-> Date(Now - 1), reset |-> Absent]})
Silence == [after |-> Absent, reset |-> Absent]

NoWait == -1
NotPast(n) == IF n < 0 THEN 0 ELSE n
FromReset(reset) ==
    IF reset.form = "absent" \/ reset.value = 0 THEN NoWait
    ELSE IF reset.value >= Epoch THEN NotPast(reset.value - Now)
    ELSE reset.value
RetryAfterSecondsOnly(h) == IF h.after.form = "absent" THEN h.reset.value ELSE NotPast(h.after.value)
RetryAfter(h) ==
    CASE h.after.form = "seconds" -> NotPast(h.after.value)
      [] h.after.form = "date" -> NotPast(h.after.value - Now)
      [] OTHER -> FromReset(h.reset)

(***************************************************************************)
(* request.                                                                *)
(***************************************************************************)
RepeatableAlways(c) == TRUE
Repeatable(c) == Does(c) = "get" \/ ops[c].keyed

Requesting == {"request", "resubmit", "check"}
Is(c, label) == call[c].at = label
Goes(c, label) == call' = [call EXCEPT ![c].at = label]
Returns(c, answer) == call' = [call EXCEPT ![c].at = "done", ![c].answer = answer]
Breaks(c, why) == call' = [call EXCEPT ![c].at = "done", ![c].answer = "threw", ![c].why = why]

\* The service does what is asked, unless it has seen the key; a guarded pause
\* is done only where the condition, read in the same call, holds.
Replayed(c) == ops[c].keyed /\ \E d \in Callers : ops[d].keyed /\ ran[d] > 0
Holds(c) == Does(c) = "guardedPause" => ~paused
Done(c) ==
    IF Writes(c) /\ ~Replayed(c) /\ Holds(c)
    THEN /\ ran' = [ran EXCEPT ![c] = @ + 1]
         /\ paused' = (paused \/ Does(c) = "guardedPause")
    ELSE UNCHANGED <<ran, paused>>

\* simulate takes no status for a failure; everything else throws on one.
Refusal(c, why) ==
    IF Does(c) = "simulate" THEN Returns(c, "would not") ELSE Breaks(c, why)

Begins(c) ==
    /\ Is(c, "idle") /\ Does(c) # "nothing"
    /\ Goes(c, IF Does(c) = "validate" THEN (IF sid = Nobody THEN "initialize" ELSE "tool")
               ELSE "request")
    /\ UNCHANGED <<held, ran, paused>>

\* A 429, of a request that may have been served before it was counted.
Limited(c, w, h) ==
    /\ call[c].at \in Requesting
    /\ UNCHANGED <<ran, paused>> \/ (Is(c, "request") /\ Done(c))
    /\ LET wait == RetryAfter(h) IN
       IF call[c].tries < MaxRetries /\ wait # NoWait /\ wait <= MaxWait /\ Repeatable(c)
       THEN call' = [call EXCEPT ![c].tries = @ + 1, ![c].meant = w, ![c].slept = wait]
       ELSE Refusal(c, "limited")
    /\ UNCHANGED held

Refused(c) ==
    /\ call[c].at \in Requesting
    /\ Refusal(c, "refused")
    /\ UNCHANGED <<held, ran, paused>>

\* fetch rejects: nothing here sends it again.
Lost(c) ==
    /\ call[c].at \in Requesting
    /\ UNCHANGED <<ran, paused>> \/ (Is(c, "request") /\ Done(c))
    /\ Breaks(c, "lost")
    /\ UNCHANGED held

(***************************************************************************)
(* What an answer is read as.                                              *)
(***************************************************************************)
\* isExecutionShaped: a write answers with a record, though it failed; a
\* function that reads answers with a value.
Shape(c) == IF Writes(c) THEN "record" ELSE "value"

Answered(c) ==
    /\ Is(c, "request") /\ Does(c) \in {"get", "transfer", "readContract", "writeContract", "simulate"}
    /\ CASE Does(c) = "simulate" ->
              /\ UNCHANGED <<ran, paused>>
              /\ \E answer \in {"would", "would not"} : Returns(c, answer)
         [] Does(c) = "readContract" /\ Shape(c) = "record" -> Done(c) /\ Breaks(c, "wrong shape")
         [] Does(c) = "writeContract" /\ Shape(c) = "value" -> Done(c) /\ Breaks(c, "wrong shape")
         [] OTHER -> Done(c) /\ Returns(c, Shape(c))
    /\ UNCHANGED held

\* checkAndExecute: the verdict decides, and a record where there is none.
ConditionMetByRun(body) == body.met = "yes"
ConditionMet(body) == body.met = "yes" \/ (body.met = "absent" /\ body.record)

\* guardedPause.  A request that is replayed answers as the first one did, of
\* which the service may send the record alone.
Bodies(c) ==
    CASE Replayed(c) -> {[met |-> m, record |-> TRUE] : m \in {"yes", "absent"}}
      [] ~Replayed(c) /\ Holds(c) -> {[met |-> "yes", record |-> TRUE]}
      [] OTHER -> {[met |-> "no", record |-> FALSE]}

GuardIsAnswered(c) ==
    /\ Is(c, "request") /\ Does(c) = "guardedPause"
    /\ \E body \in Bodies(c) : Returns(c, IF ConditionMet(body) THEN "acted" ELSE "already paused")
    /\ Done(c)
    /\ UNCHANGED held

\* Whoever owns the breaker moves it too.
BreakerIsMoved ==
    /\ \E c \in Callers : Does(c) = "guardedPause" /\ ~Is(c, "done")
    /\ paused' = ~paused
    /\ UNCHANGED <<held, call, ran>>

(***************************************************************************)
(* login and signedRequest: a challenge, a signature, the same endpoint    *)
(* again.  A challenge supersedes the last one minted for that endpoint;   *)
(* the nonce of a login is its address's own.                              *)
(***************************************************************************)
Exchanges(c) == Does(c) \in {"login", "signedRequest"}

IsChallenged(c) ==
    /\ Is(c, "request") /\ Exchanges(c)
    /\ Goes(c, "sign")
    /\ challenged' = IF Does(c) = "login" THEN challenged ELSE c
    /\ UNCHANGED <<ops, ran, cookie, sid, ready, paused>>

Signs(c) ==
    /\ Is(c, "sign")
    /\ Goes(c, "resubmit") \/ Breaks(c, "unsigned")
    /\ UNCHANGED <<held, ran, paused>>

SignatureIsAnswered(c) ==
    /\ Is(c, "resubmit")
    /\ \/ Does(c) = "login" /\ Returns(c, "session") /\ cookie' = c /\ UNCHANGED challenged
       \/ /\ Does(c) # "login"
          /\ IF challenged = c THEN Returns(c, "key") ELSE Breaks(c, "superseded")
          /\ challenged' = Nobody
          /\ UNCHANGED cookie
    /\ UNCHANGED <<ops, ran, sid, ready, paused>>

(***************************************************************************)
(* mcp.ts.  Every request carries the session of the last answer that      *)
(* named one.                                                              *)
(***************************************************************************)
Handshake == {"initialize", "notify", "tool"}

Initialized(c) ==
    /\ Is(c, "initialize")
    /\ sid' = c
    /\ Goes(c, "notify")
    /\ UNCHANGED <<ops, ran, challenged, cookie, ready, paused>>

InitializedUnsaid(c) ==
    /\ Is(c, "notify")
    /\ Goes(c, "tool")
    /\ UNCHANGED <<held, ran, paused>>

IsNotified(c) ==
    /\ Is(c, "notify")
    /\ ready' = ready \union {sid}
    /\ Goes(c, "tool")
    /\ UNCHANGED <<ops, ran, challenged, cookie, sid, paused>>

\* validateWorkflow: a verdict, or none that can be read.
ToolIsCalled(c) ==
    /\ Is(c, "tool")
    /\ IF sid \in ready
       THEN \/ \E answer \in {"valid", "invalid"} : Returns(c, answer)
            \/ Breaks(c, "no verdict")
       ELSE Breaks(c, "not initialized")
    /\ UNCHANGED <<held, ran, paused>>

\* An error, a timeout after thirty seconds or an answer that cannot be read.
RpcFails(c) ==
    /\ call[c].at \in Handshake
    /\ Breaks(c, "lost")
    /\ UNCHANGED <<held, ran, paused>>

-----------------------------------------------------------------------------
Answers(c) ==
    \/ Answered(c) \/ GuardIsAnswered(c)
    \/ IsChallenged(c) \/ Signs(c) \/ SignatureIsAnswered(c)
    \/ Initialized(c) \/ IsNotified(c) \/ ToolIsCalled(c)

Faults(c) ==
    \/ \E w \in Waits : \E h \in Headers(w) \union {Silence} : Limited(c, w, h)
    \/ Refused(c) \/ Lost(c) \/ RpcFails(c)

ClientNext == BreakerIsMoved \/ \E c \in Callers : Begins(c) \/ Answers(c) \/ Faults(c)

-----------------------------------------------------------------------------
ClientTypeOK ==
    /\ \A c \in Callers : call[c].tries \in 0..MaxRetries
    /\ {challenged, cookie, sid} \subseteq Callers \union {Nobody}
    /\ ready \subseteq Callers

\* Nothing is done twice because a limiter answered: client.ts:108, "a retry
\* after a rate limit could pay twice".  The work of one key is done once, and a
\* caller told that the breaker was paused already did not pause it.
WritesRunOnce ==
    /\ \A c, d \in Callers : ran[c] <= 1 /\ (ops[c].keyed /\ ops[d].keyed /\ c # d => ran[c] + ran[d] <= 1)
    /\ \A c \in Callers : call[c].answer = "already paused" => ran[c] = 0

\* A caller given a record has had its work done, by itself or under its key;
\* one given a value or a simulation has had nothing done.
AnswersAreEarned == \A c \in Callers :
    /\ call[c].answer \in {"record", "acted"} => ran[c] = 1 \/ Replayed(c)
    /\ call[c].answer \in {"value", "would", "would not"} => ran[c] = 0

\* A request comes back exactly as much later as the limiter meant, whichever of
\* its headers said so, and never later than a tick can wait.
WaitsAreAsMeant == \A c \in Callers : call[c].slept = call[c].meant /\ call[c].slept <= MaxWait

\* Alone, an exchange is never superseded and a session never used before it is
\* initialised; client.ts:231 "the retry must be the very next call".
Alone(c) == \A d \in Callers \ {c} : Does(d) # Does(c)
ExchangesComplete == \A c \in Callers :
    Alone(c) => call[c].why \notin {"superseded", "not initialized"}

ClientHolds ==
    ClientTypeOK /\ WritesRunOnce /\ AnswersAreEarned /\ WaitsAreAsMeant /\ ExchangesComplete

\* Every call returns, whatever the limiter says, as long as each request is
\* answered somehow.
EveryCallReturns == \A c \in Callers : Does(c) # "nothing" /\ call[c].at # "idle" ~> Is(c, "done")

-----------------------------------------------------------------------------
(* What the code does not keep; see the README.                              *)

\* "the session handshake is strict: sequential, not parallel" (mcp.ts:16): two
\* that connect together use a session before it is initialised.
InitializedFirst == \A c \in Callers : call[c].why # "not initialized"
\* ... and two that are challenged together supersede each other.
NoneIsSuperseded == \A c \in Callers : call[c].why # "superseded"
=============================================================================
