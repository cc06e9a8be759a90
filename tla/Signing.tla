-------------------------------- MODULE Signing -----------------------------
(***************************************************************************)
(* What a reader does in the console besides reading (apps/console/pages): *)
(* signs the transaction a playbook planned and offers its hash            *)
(* (ProposePanel, accepted by packages/api/proposals), signs a planned     *)
(* failure and reports its hashes (SelfSigned), picks the workflows to     *)
(* watch (Connections).  The wallet and the chain are external.            *)
(***************************************************************************)
EXTENDS Feed

CONSTANTS
    Hashes,
    Panels,    \* open pages of one incident
    Scenes,    \* open pages of self-signed chaos
    MaxOffers, \* bound: attempts in the ledger when a hash is still offered
    Pickers,   \* open pages of one organisation's connection
    Workflows  \* the workflows KeeperHub lists for it

VARIABLES
    tx,        \* hash -> from, nonce, fate
    next,      \* the signer's next nonce on the chain
    ledger,    \* remediation attempts recorded of the incident, in order
    fixed,     \* the incident as stored: resolved, and what its remediation says
    panel,
    scene,
    known,     \* transactions the server watches
    watching,  \* the organisation's watched workflows
    claim,     \* workflow -> whose agent it is
    picker,
    lastCall   \* the picker whose call last changed what is watched

svars == <<tx, next, ledger, fixed, panel, scene, known, watching, claim, picker, lastCall>>

Planned == 1        \* the nonce the incident's gap is at
Nonces == 1..3
NoNonce == 0        \* a plan that leaves the nonce to the wallet
NoHash == "none"
NoTx == [from |-> "nobody", nonce |-> 0, fate |-> "unsent"]
NoPage == "nobody"
Unfixed == [status |-> "open", outcome |-> "none"]

SigningInit ==
    /\ tx = [h \in Hashes |-> NoTx]
    /\ next = Planned
    /\ ledger = <<>>
    /\ fixed = Unfixed
    /\ panel = [p \in Panels |-> [at |-> "blank", account |-> "none", chain |-> FALSE,
                                  hash |-> NoHash, row |-> Unfixed, result |-> "none"]]
    /\ scene = [s \in Scenes |-> [at |-> "idle", plan |-> <<>>, signed |-> <<>>, produced |-> <<>>,
                                 error |-> "none"]]
    /\ known = {}
    /\ watching = {}
    /\ claim = [w \in Workflows |-> "none"]
    /\ picker = [t \in Pickers |-> [at |-> "idle", listed |-> FALSE, offered |-> {}, picked |-> {},
                                    adding |-> {}, removing |-> {}, saved |-> FALSE]]
    /\ lastCall = NoPage

-----------------------------------------------------------------------------
(* The chain.  Of the transactions at one nonce the first mined displaces    *)
(* the others.                                                               *)
Sent(h, a, n) == tx[h] = NoTx /\ tx' = [tx EXCEPT ![h] = [from |-> a, nonce |-> n, fate |-> "pending"]]
Pending(h) == tx[h].fate = "pending"
Of(h, n) == tx[h].from = "signer" /\ tx[h].nonce = n

Mines(h, fate) ==
    /\ Pending(h) /\ Of(h, next)
    /\ tx' = [g \in Hashes |->
          IF g = h THEN [tx[h] EXCEPT !.fate = fate]
          ELSE IF Of(g, next) /\ Pending(g) THEN [tx[g] EXCEPT !.fate = "displaced"] ELSE tx[g]]
    /\ next' = next + 1
    /\ UNCHANGED <<ledger, fixed, panel, scene, known, watching, claim, picker, lastCall>>

\* Sent by the same owner, from another program or to somebody else's agent.
SentElsewhere(h, a, n) ==
    /\ mode.elsewhere /\ n >= next
    /\ Sent(h, a, n)
    /\ UNCHANGED <<next, ledger, fixed, panel, scene, known, watching, claim, picker, lastCall>>

-----------------------------------------------------------------------------
(* The panel.  Its plan is asked for once, when the page opens.              *)
PanelStep(p, from, new) ==
    /\ p \in mode.panels /\ panel[p].at = from
    /\ panel' = [panel EXCEPT ![p] = new]
    /\ UNCHANGED <<next, scene, known, watching, claim, picker, lastCall>>
AtStep(p, s) == [panel[p] EXCEPT !.at = s]
NothingStored == UNCHANGED <<ledger, fixed>>

PlanArrives(p) == PanelStep(p, "blank", AtStep(p, "ready")) /\ NothingStored /\ UNCHANGED tx

WalletConnects(p, a, right) ==
    /\ panel[p].account = "none"
    /\ PanelStep(p, "ready", [panel[p] EXCEPT !.account = a, !.chain = right])
    /\ NothingStored /\ UNCHANGED tx

\* Only the incident's own account, on the incident's chain; not once accepted.
SignIsPressed(p) ==
    /\ panel[p].account = "signer" /\ panel[p].result = "none"
    /\ PanelStep(p, "ready", AtStep(p, IF panel[p].chain THEN "asking" ELSE "switching"))
    /\ NothingStored /\ UNCHANGED tx

ChainIsSwitched(p) ==
    /\ PanelStep(p, "switching", [AtStep(p, "asking") EXCEPT !.chain = TRUE])
    /\ NothingStored /\ UNCHANGED tx

\* The owner says no; and no wallet is asked for a plan that names no nonce,
\* for want of a number to convert.
WalletRefuses(p) ==
    /\ \E s \in {"switching", "asking"} : PanelStep(p, s, AtStep(p, "ready"))
    /\ NothingStored /\ UNCHANGED tx

\* The plan goes out verbatim; a wallet may still give it another nonce.
WalletSends(p, h, n) ==
    /\ mode.named
    /\ n >= next /\ (n # Planned => mode.renonces)
    /\ Sent(h, panel[p].account, n)
    /\ PanelStep(p, "asking", [AtStep(p, "loading") EXCEPT !.hash = h])
    /\ NothingStored

\* "Already sent it? Paste the hash": whether or not it is one.
HashIsPasted(p, h) ==
    /\ mode.pastes /\ panel[p].result = "none" /\ Len(ledger) < MaxOffers
    /\ PanelStep(p, "ready", [AtStep(p, "loading") EXCEPT !.hash = h])
    /\ NothingStored /\ UNCHANGED tx

-----------------------------------------------------------------------------
(* proposals.accept: the incident is read and the plan built anew, the hash  *)
(* is checked against it, its receipt is awaited, the attempt is ledgered    *)
(* and the incident saved as it was read.                                    *)
RowIsLoaded(p) ==
    /\ PanelStep(p, "loading", [AtStep(p, "checking") EXCEPT !.row = fixed])
    /\ NothingStored /\ UNCHANGED tx

AgreesUnchecked(h) == tx[h].from = "signer"
\* From the incident's own signer, at the nonce the plan named if it named one.
Agrees(h) == tx[h].from = "signer" /\ (mode.named => tx[h].nonce = Planned)

TxIsChecked(p) ==
    /\ PanelStep(p, "checking", AtStep(p, IF Agrees(panel[p].hash) THEN "waiting" ELSE "ready"))
    /\ NothingStored /\ UNCHANGED tx

\* The library follows a displaced transaction to the one that displaced it.
Followed(h) == IF tx[h].fate = "displaced"
               THEN CHOOSE g \in Hashes : /\ tx[g].from = tx[h].from /\ tx[g].nonce = tx[h].nonce
                                          /\ tx[g].fate \in {"success", "reverted"}
               ELSE h

Ledgered(p, included) ==
    /\ ledger' = Append(ledger, [hash |-> panel[p].hash, ok |-> included])
    /\ UNCHANGED <<fixed, tx>>

ReceiptComesAnyhow(p) ==
    /\ panel[p].at = "waiting"
    /\ tx[Followed(panel[p].hash)].fate \in {"success", "reverted"}
    /\ PanelStep(p, "waiting", [AtStep(p, "saving") EXCEPT !.row.outcome = "succeeded"])
    /\ Ledgered(p, TRUE)
ReceiptComes(p) ==
    LET fate == tx[Followed(panel[p].hash)].fate IN
    /\ panel[p].at = "waiting"
    /\ fate \in {"success", "reverted"}
    /\ PanelStep(p, "waiting", [AtStep(p, "saving") EXCEPT
                                  !.row.outcome = IF fate = "success" THEN "succeeded" ELSE "failed"])
    /\ Ledgered(p, fate = "success")

\* Ninety seconds, or a node that answers with an error: recorded as failed,
\* whatever became of it on the chain.
ReceiptTimesOut(p) ==
    /\ PanelStep(p, "waiting", [AtStep(p, "saving") EXCEPT !.row.outcome = "failed"])
    /\ Ledgered(p, FALSE)

\* The page that does not hear of it may offer the hash again.
OutcomeIsSaved(p, heard) ==
    LET won == panel[p].row.outcome = "succeeded" IN
    /\ heard \/ mode.faults
    /\ PanelStep(p, "saving", [AtStep(p, "ready") EXCEPT
                                 !.result = IF ~heard THEN @ ELSE IF won THEN "included" ELSE "not included"])
    /\ fixed' = IF won THEN [panel[p].row EXCEPT !.status = "resolved"] ELSE panel[p].row
    /\ UNCHANGED <<ledger, tx>>

\* The request is refused or lost, or a call of the store throws: the attempt
\* may be in the ledger by then, and the incident not saved.
AcceptFails(p) ==
    /\ mode.faults
    /\ \E s \in {"loading", "checking", "waiting", "saving"} : PanelStep(p, s, AtStep(p, "ready"))
    /\ NothingStored /\ UNCHANGED tx

PanelNext(p) ==
    \/ PlanArrives(p) \/ SignIsPressed(p) \/ ChainIsSwitched(p) \/ WalletRefuses(p)
    \/ \E a \in {"signer", "other"}, right \in BOOLEAN : WalletConnects(p, a, right)
    \/ \E h \in Hashes : HashIsPasted(p, h) \/ \E n \in Nonces : WalletSends(p, h, n)
    \/ RowIsLoaded(p) \/ TxIsChecked(p) \/ ReceiptComes(p) \/ ReceiptTimesOut(p)
    \/ \E heard \in BOOLEAN : OutcomeIsSaved(p, heard)
    \/ AcceptFails(p)

-----------------------------------------------------------------------------
(* Self-signed chaos: the plan is written from the pending nonce, its steps  *)
(* signed one at a time, the hashes reported when all of them are.  Of the   *)
(* four scenarios the gap alone names a nonce; the steps of the others are   *)
(* alike, and one stands for them.                                           *)
SceneStep(s, from, new) ==
    /\ s \in mode.scenes /\ scene[s].at = from
    /\ scene' = [scene EXCEPT ![s] = new]
    /\ UNCHANGED <<next, ledger, fixed, panel, watching, claim, picker, lastCall>>
InScene(s, at) == [scene[s] EXCEPT !.at = at, !.error = "none"]
NothingSent == UNCHANGED <<tx, known>>

ScenePlansOver(s) == SceneStep(s, "idle", InScene(s, "planning")) /\ NothingSent
ScenePlans(s) ==
    /\ SceneStep(s, "idle", [InScene(s, "planning") EXCEPT !.signed = <<>>])
    /\ NothingSent

\* pending, not latest: what the wallet would use next.
PendingNonce == next + Cardinality({n \in Nonces : n >= next /\ \A k \in next..n :
                                       \E h \in Hashes : Pending(h) /\ Of(h, k)})

Plans == {<<NoNonce>>} \union (IF PendingNonce + 1 \in Nonces THEN {<<PendingNonce + 1>>} ELSE {})
PlanIsWritten(s, plan) ==
    /\ plan \in Plans
    /\ SceneStep(s, "planning", [InScene(s, "idle") EXCEPT !.plan = plan])
    /\ NothingSent

\* No target, or an address that may not be watched: nothing to sign is shown.
PlanIsDeclined(s) ==
    /\ SceneStep(s, "planning", [InScene(s, "idle") EXCEPT !.plan = <<>>])
    /\ NothingSent

\* A plan that fails leaves the one before it on the page.
PlanFails(s) == SceneStep(s, "planning", InScene(s, "idle")) /\ NothingSent

SceneSigns(s) ==
    /\ scene[s].plan # <<>>
    /\ SceneStep(s, "idle", [InScene(s, "signing") EXCEPT !.produced = <<>>])
    /\ NothingSent

Left(s) == Len(scene[s].plan) - Len(scene[s].produced)
NextNonce(s) == scene[s].plan[Len(scene[s].produced) + 1]

\* The nonce goes through BigInt, which throws on none: the wallet is not asked.
SceneThrows(s) ==
    /\ Left(s) > 0 /\ NextNonce(s) = NoNonce
    /\ SceneStep(s, "signing", [InScene(s, "idle") EXCEPT !.error = "not asked"]) /\ NothingSent

\* Verbatim; a wallet may still give it the nonce it would use next.
SceneSends(s, h, n) ==
    /\ Left(s) > 0 /\ NextNonce(s) # NoNonce
    /\ n >= next /\ (n # NextNonce(s) => mode.renonces /\ n = PendingNonce)
    /\ Sent(h, "signer", n)
    /\ LET produced == Append(scene[s].produced, h)
       IN SceneStep(s, "signing", [scene[s] EXCEPT !.produced = produced, !.signed = produced])
    /\ UNCHANGED known

\* By its owner, or by the node since its nonce is taken.
SceneIsRefused(s) ==
    /\ Left(s) > 0
    /\ SceneStep(s, "signing", InScene(s, "idle")) /\ NothingSent

SceneReports(s) ==
    /\ Left(s) = 0
    /\ SceneStep(s, "signing", InScene(s, "reporting")) /\ NothingSent

\* observeSubmissions: a queued transaction is known to one node of a fleet, so
\* any of them may be missed.
IsObserved(s, found) ==
    /\ found \subseteq {scene[s].produced[k] : k \in DOMAIN scene[s].produced}
    /\ SceneStep(s, "reporting", InScene(s, "idle"))
    /\ known' = known \union found
    /\ UNCHANGED tx

SceneNext(s) ==
    \/ ScenePlans(s) \/ PlanIsDeclined(s) \/ PlanFails(s) \/ SceneSigns(s) \/ SceneThrows(s)
    \/ SceneIsRefused(s) \/ SceneReports(s)
    \/ \E plan \in Plans : PlanIsWritten(s, plan)
    \/ \E h \in Hashes, n \in Nonces : SceneSends(s, h, n)
    \/ \E found \in SUBSET Hashes : IsObserved(s, found)

-----------------------------------------------------------------------------
(* Picking what to watch.  A save sends what was picked and was not watched, *)
(* then what was watched and is not picked, one by one, then lists again.    *)
PickerStep(t, from, new) ==
    /\ t \in mode.pickers /\ picker[t].at = from
    /\ picker' = [picker EXCEPT ![t] = new]
    /\ UNCHANGED <<tx, next, ledger, fixed, panel, scene, known>>
At(t, s) == [picker[t] EXCEPT !.at = s]
NothingCalled == UNCHANGED <<watching, claim, lastCall>>

ListIsAskedFor(t) == PickerStep(t, "idle", [At(t, "listing") EXCEPT !.saved = FALSE]) /\ NothingCalled

RelistedAsPicked(t) == [At(t, "idle") EXCEPT !.listed = TRUE, !.offered = picker[t].picked,
                                             !.saved = picker[t].at = "saved"]
\* Their workflows by their own credential, each marked as watched or not.
Relisted(t) == [At(t, "idle") EXCEPT !.listed = TRUE, !.offered = watching, !.picked = watching,
                                     !.saved = picker[t].at = "saved"]
WorkflowsAreListed(t) ==
    /\ \E s \in {"listing", "saved"} : PickerStep(t, s, Relisted(t))
    /\ NothingCalled

Toggles(t, w) ==
    /\ picker[t].listed /\ w \in mode.picks
    /\ PickerStep(t, "idle", [picker[t] EXCEPT !.saved = FALSE,
          !.picked = IF w \in @ THEN @ \ {w} ELSE @ \union {w}])
    /\ NothingCalled

SaveIsPressed(t) ==
    LET added == picker[t].picked \ picker[t].offered
        removed == picker[t].offered \ picker[t].picked
    IN /\ added \union removed # {}
       /\ PickerStep(t, "idle", [At(t, IF added = {} THEN "removing" ELSE "adding") EXCEPT
             !.adding = added, !.removing = removed])
       /\ NothingCalled

\* Every id is among the workflows the credential lists; all are watched at once.
WorkflowsAreWatched(t) ==
    /\ PickerStep(t, "adding", At(t, "claiming"))
    /\ watching' = watching \union picker[t].adding
    /\ lastCall' = t
    /\ UNCHANGED claim

\* What another organisation claimed first stays theirs, and is reported.
Claimed(w) == IF claim[w] = "none" THEN "ours" ELSE claim[w]

WorkflowIsClaimed(t, w) ==
    /\ w \in picker[t].adding
    /\ PickerStep(t, "claiming", [picker[t] EXCEPT !.adding = @ \ {w}])
    /\ claim' = [claim EXCEPT ![w] = Claimed(w)]
    /\ UNCHANGED <<watching, lastCall>>

AddIsAnswered(t) ==
    /\ picker[t].adding = {}
    /\ PickerStep(t, "claiming", At(t, "removing")) /\ NothingCalled

WorkflowIsUnwatched(t, w) ==
    /\ w \in picker[t].removing
    /\ PickerStep(t, "removing", [picker[t] EXCEPT !.removing = @ \ {w}])
    /\ watching' = watching \ {w}
    /\ lastCall' = t
    /\ UNCHANGED claim

SaveIsDone(t) ==
    /\ picker[t].removing = {}
    /\ PickerStep(t, "removing", At(t, "saved")) /\ NothingCalled

\* A call or an answer is lost: the page keeps the list it had.
PickerFails(t) ==
    /\ \E s \in {"listing", "adding", "removing", "saved"} : PickerStep(t, s, At(t, "idle"))
    /\ NothingCalled

ClaimedByAnother(w) ==
    /\ w \in mode.picks /\ claim[w] = "none"
    /\ claim' = [claim EXCEPT ![w] = "theirs"]
    /\ UNCHANGED <<tx, next, ledger, fixed, panel, scene, known, watching, picker, lastCall>>

PickerNext(t) ==
    \/ ListIsAskedFor(t) \/ WorkflowsAreListed(t) \/ SaveIsPressed(t) \/ WorkflowsAreWatched(t)
    \/ AddIsAnswered(t) \/ SaveIsDone(t) \/ PickerFails(t)
    \/ \E w \in Workflows : Toggles(t, w) \/ WorkflowIsClaimed(t, w) \/ WorkflowIsUnwatched(t, w)

SigningNext ==
    \/ \E p \in Panels : PanelNext(p)
    \/ \E s \in Scenes : SceneNext(s)
    \/ \E t \in Pickers : PickerNext(t)
    \/ \E h \in Hashes : \/ \E fate \in {"success", "reverted"} : Mines(h, fate)
                         \/ \E a \in {"signer", "other"}, n \in Nonces : SentElsewhere(h, a, n)
    \/ \E w \in Workflows : ClaimedByAnother(w)

-----------------------------------------------------------------------------
SigningTypeOK ==
    /\ \A h \in Hashes : tx[h].fate \in {"unsent", "pending", "success", "reverted", "displaced"}
    /\ \A p \in Panels : panel[p].result \in {"none", "included", "not included"}
    /\ fixed.status \in {"open", "resolved"}
    /\ \A w \in Workflows : claim[w] \in {"none", "ours", "theirs"}

\* What was sent by the signer took the nonce in question, and did not revert.
TookItsNonce(h) == \E g \in Hashes : /\ tx[g].from = "signer" /\ tx[g].nonce = tx[h].nonce
                                     /\ tx[g].fate = "success"
\* A succeeded attempt of the ledger names a hash whose nonce the signer really
\* used up on the chain, and where the plan named a nonce it is that one:
\* whatever was pasted, displaced or re-nonced, and however long it took.
SuccessesAreOnChain ==
    \A k \in DOMAIN ledger : ledger[k].ok =>
        TookItsNonce(ledger[k].hash) /\ (mode.named => tx[ledger[k].hash].nonce = Planned)
\* And an incident is resolved by a reader only where the ledger has such an attempt.
ResolvedIsLedgered == fixed.status = "resolved" => \E k \in DOMAIN ledger : ledger[k].ok

\* The hashes a page lists are steps of the plan it shows, each at the nonce
\* planned for it unless the wallet chose another, whatever was refused, planned
\* again, declined or sent elsewhere.
SignedFollowsThePlan ==
    \A s \in Scenes : \A k \in DOMAIN scene[s].signed :
        /\ k \in DOMAIN scene[s].plan
        /\ ~mode.renonces => tx[scene[s].signed[k]].nonce = scene[s].plan[k]

\* A page whose save was the last call to change what is watched, and ended
\* well, shows what is watched, whatever other pages saved and which calls failed.
SavedIsWatched ==
    \A t \in Pickers : lastCall = t /\ picker[t].saved =>
        picker[t].offered = watching /\ picker[t].picked = watching

-----------------------------------------------------------------------------
(* What the code does not keep; see the README.                              *)

\* ProposePanel.tsx:220 says "Accepted and verified", app.ts:1504 publishes
\* remediation.succeeded, for a transaction that reverted or is still pending.
WonMeansIncluded == \A p \in Panels : panel[p].result # "not included"
\* One hash offered twice is ledgered twice (proposals.ts:218).
OneAttemptPerHash == \A j, k \in DOMAIN ledger : ledger[j].hash = ledger[k].hash => j = k
\* A row read before another panel resolved it is saved over the resolution.
ResolutionIsKept == (\E p \in Panels : panel[p].result = "included") => fixed.status = "resolved"
\* A hash that is ledgered as a success is itself on the chain.
TheHashItselfIsMined == \A k \in DOMAIN ledger : ledger[k].ok => tx[ledger[k].hash].fate = "success"
\* A wallet is asked to sign every scenario that says it can be signed; of
\* docs/console-spec.md:654, "C1-C4 are signable", only C2 is.
SignableIsAsked == \A s \in Scenes : scene[s].error # "not asked"
\* What a wallet sent is reported, whatever came next: the report may fail.
SentIsReported ==
    \A s \in Scenes : scene[s].at = "idle" =>
        {scene[s].signed[k] : k \in DOMAIN scene[s].signed} \subseteq known
=============================================================================
