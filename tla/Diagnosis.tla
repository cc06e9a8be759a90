------------------------------- MODULE Diagnosis ----------------------------
(***************************************************************************)
(* The console's last source of words: the explanation of one transaction  *)
(* on demand (POST /api/diagnose: packages/api/server and runtime) by the  *)
(* diagnostician (packages/diagnostician), which asks a model and falls    *)
(* back to a template.  Answers are remembered, the oldest forgotten first.*)
(***************************************************************************)
EXTENDS Signing

CONSTANTS
    Askers,        \* requests for an explanation
    Transactions,
    CacheLimit,
    Attempts

ASSUME DiagnosisAssumption == IsFiniteSet(Askers) /\ CacheLimit \in Nat \ {0} /\ Attempts \in Nat \ {0}

VARIABLES
    visible,  \* transaction -> absent, pending, clean; or reverted, as one the block
              \* before let through (drifted) or one that was doomed when it was sent
    asker,    \* request -> its await, its transaction, what it learnt
    answers,  \* remembered answers, oldest first
    calls     \* calls of the model, all of them billed

dvars == <<visible, asker, answers, calls>>
consoleVars == <<mode, fvars, svars, dvars>>

NobodysTx == "none"
Unanswered == [state |-> "none", replay |-> "unknown", class |-> "none", source |-> "none"]
NoAsker == [at |-> "idle", of |-> NobodysTx, answer |-> Unanswered, attempt |-> 0]

ConsoleInit ==
    /\ mode \in Modes
    /\ FeedInit /\ SigningInit
    /\ visible = [x \in Transactions |-> "absent"]
    /\ asker = [q \in Askers |-> NoAsker]
    /\ answers = <<>>
    /\ calls = 0

Later == [absent |-> {"pending"}, pending |-> {"clean", "drifted", "doomed"},
          clean |-> {}, drifted |-> {}, doomed |-> {}]
Progresses(x, s) ==
    /\ mode.askers # {} /\ s \in Later[visible[x]]
    /\ visible' = [visible EXCEPT ![x] = s]
    /\ UNCHANGED <<asker, answers, calls>>

-----------------------------------------------------------------------------
Step(q, from, new) == asker[q].at = from /\ asker' = [asker EXCEPT ![q] = new]
Remembered(x) == {k \in DOMAIN answers : answers[k].of = x}

Asks(q, x) ==
    /\ q \in mode.askers
    /\ Step(q, "idle", IF Remembered(x) = {}
                       THEN [NoAsker EXCEPT !.at = "reading", !.of = x]
                       ELSE [NoAsker EXCEPT !.at = "answered", !.of = x,
                                            !.answer = answers[CHOOSE k \in Remembered(x) : TRUE].answer])
    /\ UNCHANGED <<visible, answers, calls>>

\* What a node tells of it, and what the replay of a reverted call on the block
\* before tells: nothing, where the node keeps no state that old.
Status(x) == IF visible[x] \in {"drifted", "doomed"} THEN "reverted" ELSE visible[x]
Replays(x) == CASE visible[x] = "drifted" -> {"passed", "unknown"}
                [] visible[x] = "doomed" -> {"failed", "unknown"}
                [] OTHER -> {"unknown"}

\* The transaction, its receipt and its replay.
TxIsRead(q, replay) ==
    LET x == asker[q].of
    IN /\ asker[q].at = "reading" /\ replay \in Replays(x)
       /\ Step(q, "reading", [asker[q] EXCEPT
             !.at = IF visible[x] = "absent" THEN "answer" ELSE "judging",
             !.answer.state = Status(x), !.answer.replay = replay])
       /\ UNCHANGED <<visible, answers, calls>>

\* R4 fires where the replay passed: where it says nothing, nothing is inferred.
SimulationNotFailed(answer) == answer.state = "reverted" /\ answer.replay # "failed"
SimulationPassed(answer) == answer.state = "reverted" /\ answer.replay = "passed"

\* The gravest rule that fires on one transaction: R4; R3 on what is pending and
\* bids less than the market of now; R6 on what paid for gas, its balance low now.
Finding(answer, dear, low) ==
    CASE SimulationPassed(answer) -> "drift"
      [] answer.state = "pending" /\ dear -> "underpriced"
      [] answer.state \in {"clean", "reverted"} /\ ~SimulationPassed(answer) /\ low -> "starved"
      [] OTHER -> "none"

\* Read after the transaction: the base fee, the signer's balance and nonces.
\* The diagnostician is asked about what a rule found, and about nothing else.
IsJudged(q, dear, low) ==
    LET class == Finding(asker[q].answer, dear, low)
    IN /\ Step(q, "judging", [asker[q] EXCEPT
             !.at = IF class = "none" THEN "answer" ELSE "asking", !.answer.class = class])
       /\ UNCHANGED <<visible, answers, calls>>

\* A node that does not answer is an error, which is not remembered.
ReadFails(q) ==
    /\ \E s \in {"reading", "judging"} :
          Step(q, s, [asker[q] EXCEPT !.at = "answered", !.answer = Unanswered])
    /\ UNCHANGED <<visible, answers, calls>>

\* VertexGemini.generate: refused, not JSON and no text at all are thrown.
Responses == {"refused", "not json", "no text", "wrong shape", "weak", "good"}
Text(response) == IF response \in {"refused", "not json", "no text"} THEN "thrown" ELSE response
\* The text is an explanation if it has the shape asked for and recommends
\* something definite.
Usable(text) == text = "good"

\* One attempt; the last that is of no use is followed by the template.
ModelAnswersOrNot(q, response) ==
    /\ Step(q, "asking",
            IF Usable(Text(response))
              THEN [asker[q] EXCEPT !.at = "answer", !.answer.source = "model"]
            ELSE IF asker[q].attempt + 1 = Attempts THEN [asker[q] EXCEPT !.at = "answer"]
            ELSE [asker[q] EXCEPT !.attempt = @ + 1])
    /\ calls' = calls + 1
    /\ UNCHANGED <<visible, answers>>
ModelAnswers(q, response) ==
    /\ Step(q, "asking",
            IF Usable(Text(response))
              THEN [asker[q] EXCEPT !.at = "answer", !.answer.source = "model"]
            ELSE IF asker[q].attempt + 1 = Attempts
              THEN [asker[q] EXCEPT !.at = "answer", !.answer.source = "template"]
            ELSE [asker[q] EXCEPT !.attempt = @ + 1])
    /\ calls' = calls + 1
    /\ UNCHANGED <<visible, answers>>

Entry(q) == [of |-> asker[q].of, answer |-> asker[q].answer]
\* A key that is there keeps its place.
Put(kept, e) == IF \E k \in DOMAIN kept : kept[k].of = e.of
                THEN [k \in DOMAIN kept |-> IF kept[k].of = e.of THEN e ELSE kept[k]]
                ELSE Append(kept, e)
PutUnbounded(kept, e) == Put(kept, e)
PutBounded(kept, e) == Put(IF Len(kept) >= CacheLimit THEN Tail(kept) ELSE kept, e)

IsAnswered(q) ==
    /\ Step(q, "answer", [asker[q] EXCEPT !.at = "answered"])
    /\ answers' = PutBounded(answers, Entry(q))
    /\ UNCHANGED <<visible, calls>>

AskerNext(q) ==
    \/ ReadFails(q) \/ IsAnswered(q)
    \/ \E replay \in {"passed", "failed", "unknown"} : TxIsRead(q, replay)
    \/ \E dear, low \in BOOLEAN : IsJudged(q, dear, low)
    \/ \E response \in Responses : ModelAnswers(q, response)

DiagnosisNext ==
    \/ \E q \in Askers : AskerNext(q) \/ \E x \in Transactions : Asks(q, x)
    \/ \E x \in Transactions, s \in DOMAIN Later : Progresses(x, s)

ConsoleNext ==
    \/ FeedNext /\ UNCHANGED <<svars, dvars>>
    \/ SigningNext /\ UNCHANGED <<mode, fvars, dvars>>
    \/ DiagnosisNext /\ UNCHANGED <<mode, fvars, svars>>

Fairness ==
    /\ FeedFairness
    /\ \A q \in Askers : WF_consoleVars(AskerNext(q) /\ UNCHANGED <<mode, fvars, svars>>)

ConsoleSpec == ConsoleInit /\ [][ConsoleNext]_consoleVars /\ Fairness

-----------------------------------------------------------------------------
DiagnosisTypeOK ==
    /\ \A x \in Transactions : visible[x] \in DOMAIN Later
    /\ \A q \in Askers : asker[q].attempt \in 0..Attempts - 1

\* No answer says more than the chain, then or now.  State drift is told of what
\* the chain really let through a block before and of all of that whose replay
\* was answered, never of a call that was doomed or could not be replayed.  What
\* is found is told with an explanation of the model's or of the template,
\* whatever the model did, and nothing is explained that was not found.
Rank == [none |-> 0, absent |-> 1, pending |-> 2, clean |-> 3, reverted |-> 3]
Told(answer, x) ==
    /\ Rank[answer.state] <= Rank[Status(x)]
    /\ answer.state \in {"clean", "reverted"} => answer.state = Status(x)
    /\ answer.class = "drift" => visible[x] = "drifted"
    /\ answer.replay = "passed" => answer.class = "drift"
    /\ (answer.class # "none") = (answer.source # "none")
AnswersAreExplained ==
    /\ \A q \in Askers : asker[q].at = "answered" => Told(asker[q].answer, asker[q].of)
    /\ \A k \in DOMAIN answers : Told(answers[k].answer, answers[k].of)

\* What is remembered is bounded, once each; what is billed is at most the
\* attempts of the requests made.
MemoryIsBounded ==
    /\ Len(answers) <= CacheLimit
    /\ \A j, k \in DOMAIN answers : answers[j].of = answers[k].of => j = k
    /\ calls <= Attempts * Cardinality({q \in Askers : asker[q].at # "idle"})

\* The console's store, its pages and the words it is given, together.
ConsoleHolds ==
    /\ FeedTypeOK /\ SigningTypeOK /\ DiagnosisTypeOK
    /\ ShownAnswersTheFilter /\ PostsAreCounted
    /\ SuccessesAreOnChain /\ ResolvedIsLedgered /\ SignedFollowsThePlan /\ SavedIsWatched
    /\ AnswersAreExplained /\ MemoryIsBounded

\* The list, the page and the counters catch up with what is stored, and every
\* question is answered, whatever the model does.
ConsoleCatchesUp ==
    /\ FeedCatchesUp
    /\ \A q \in Askers : asker[q].at = "reading" ~> asker[q].at = "answered"

-----------------------------------------------------------------------------
(* What the code does not keep; see the README.                              *)

\* server.ts:666: "the same hash asked for repeatedly bills us repeatedly for
\* one answer".  Two who ask together both miss.
OneBillPerAnswer == calls <= Attempts * Cardinality({asker[q].of : q \in Askers})
\* A transaction that was not there, or not settled, when it was first asked
\* for is told as it was then until it is forgotten.
AskedAgainIsSeen == [][\A q \in Askers : asker[q].at = "idle" /\ asker'[q].at = "answered" =>
                          asker'[q].answer.state = Status(asker'[q].of)]_consoleVars
\* Nor is an explanation what the chain bears out when it is given: what was
\* pending and underpriced may have been mined since, before the market was
\* read, while the model was asked or while the answer was remembered.
ExplainedStillHolds == [][\A q \in Askers : asker[q].at # "answered" /\ asker'[q].at = "answered" =>
                             (asker'[q].answer.class = "underpriced" => visible[asker'[q].of] = "pending")]_consoleVars
\* And a failure need not be explained: a revert that was not replayed, or was
\* doomed, is told with no class where the balance is not low.
FailuresAreExplained ==
    \A q \in Askers : asker[q].at = "answered" /\ asker[q].answer.state = "reverted" =>
        asker[q].answer.source # "none"
=============================================================================
