-------------------------- MODULE IncidentWriters --------------------------
(***************************************************************************)
(* The incident row and everyone who writes it (packages/api): beside the  *)
(* recorder, the acknowledge, remediate and remediation-tx handlers and    *)
(* the explanations of a tick.  Each of them reads a row, awaits something *)
(* that may take minutes, and saves the whole row it read, spread around   *)
(* the field it owns.  Only what remediates then tells the tracker: the    *)
(* remediate handler, and RemediationLoop, which does so for every row     *)
(* that was open when its tick began.                                      *)
(***************************************************************************)
EXTENDS IncidentTracker

CONSTANTS
    Requests     \* handlers and explanations in progress

Ops == {"acknowledge", "remediate", "sign", "explain", "pass"}
Remediates(op) == op \in {"remediate", "pass"}

VARIABLES
    req,        \* request -> its local state
    requested,  \* requests begun
    explained,  \* ids the process has explained or is explaining
    fixedBy     \* history: id -> who has really remediated it

requests == <<req, requested, explained, fixedBy>>
writerVars == <<vars, requests>>

NoRequest == [pc |-> "idle", op |-> "explain", id |-> 0, row |-> NoRow, queue |-> <<>>]

WInit ==
    /\ Init
    /\ req = [w \in Requests |-> NoRequest]
    /\ requested = 0
    /\ explained = {}
    /\ fixedBy = [i \in Ids |-> {}]

\* The row is read; nothing looks at its status.
Load(w, op, i) ==
    /\ req[w].pc = "idle" /\ requested < mode.requests
    /\ rows[i].status # "none" /\ op \in mode.ops \ {"pass"}
    /\ op = "explain" => i \notin explained
    /\ req' = [req EXCEPT ![w] = [NoRequest EXCEPT !.pc = "loaded", !.op = op, !.id = i, !.row = rows[i]]]
    /\ requested' = requested + 1
    /\ explained' = IF op = "explain" THEN explained \union {i} ELSE explained
    /\ UNCHANGED <<vars, fixedBy>>

\* A tick of RemediationLoop reads the open rows once and takes them in turn; what
\* it throws over one of them is no reason not to take the next.
Continue(r) ==
    IF r.queue = <<>> THEN NoRequest
    ELSE [r EXCEPT !.pc = "loaded", !.id = Head(r.queue).id, !.row = Head(r.queue).row,
                   !.queue = Tail(@)]

LoopTick(w) ==
    /\ req[w].pc = "idle" /\ requested < mode.requests /\ "pass" \in mode.ops
    /\ \E queue \in SetToSeqs({i \in Ids : rows[i].status = "open"}) :
        /\ queue # <<>>
        /\ req' = [req EXCEPT ![w] = Continue([NoRequest EXCEPT !.op = "pass",
                      !.queue = [n \in DOMAIN queue |-> [id |-> queue[n], row |-> rows[queue[n]]]]])]
    /\ requested' = requested + 1
    /\ UNCHANGED <<vars, explained, fixedBy>>

\* The permission check, or the model's answer.
Awaited(w) ==
    /\ req[w].pc = "loaded"
    /\ req[w].op \in {"acknowledge", "explain"}
    /\ req' = [req EXCEPT ![w].pc = "saving",
                 ![w].row.status = IF req[w].op = "acknowledge" THEN "acknowledged" ELSE @]
    /\ UNCHANGED <<vars, requested, explained, fixedBy>>

\* What a remediation on chain may do to the incident's own condition.
Effect(i) ==
    LET k == keyOf[i] IN
    \/ UNCHANGED <<holds, due>>
    \/ /\ Kind[k[2]] = "transaction"
       /\ holds' = holds \ {k} /\ due' = due \union {k[1]}

\* A remediation of ours lands, while remediate or verifyUserSubmission waits.
Land(w) ==
    /\ req[w].pc = "loaded"
    /\ Remediates(req[w].op) \/ req[w].op = "sign"
    /\ fixedBy' = [fixedBy EXCEPT ![req[w].id] =
                     @ \union {IF req[w].op = "sign" THEN "user-signed" ELSE "ours"}]
    /\ req' = [req EXCEPT ![w].pc = "landed"]
    /\ Effect(req[w].id)
    /\ UNCHANGED <<now, changes, tracker, rows, ev, requested, explained>>

\* remediate returns the outcome's record; a refused, skipped or failed one is a
\* record too, and one that landed after the wait was given up on is a failed one.
\* recordUserRemediation also resolves the row it read.
Outcome(w) ==
    /\ Remediates(req[w].op) \/ req[w].op = "sign"
    /\ \/ /\ req[w].pc = "landed"
          /\ req' = [req EXCEPT ![w].pc = "saving",
                       ![w].row = IF Remediates(req[w].op) THEN [@ EXCEPT !.fix = "ours"]
                                  ELSE [status |-> "resolved", by |-> "blackbox-proposed",
                                        fix |-> "user-signed"]]
       \/ /\ req[w].pc \in {"loaded", "landed"}
          /\ req' = [req EXCEPT ![w].pc = "saving", ![w].row.fix = "unsuccessful"]
    /\ UNCHANGED <<vars, requested, explained, fixedBy>>

\* The plan or the transaction is not accepted, the permission is refused, or a
\* save fails.
Refuse(w) ==
    /\ req[w].pc = "loaded" \/ (mode.faults /\ req[w].pc = "saving")
    /\ req' = [req EXCEPT ![w] = Continue(req[w])]
    /\ UNCHANGED <<vars, requested, explained, fixedBy>>

Save(w) ==
    /\ req[w].pc = "saving"
    /\ rows' = Upsert(req[w].id, req[w].row)
    /\ req' = IF Remediates(req[w].op) THEN [req EXCEPT ![w].pc = "attaching"]
              ELSE [req EXCEPT ![w] = NoRequest]
    /\ UNCHANGED <<now, world, tracker, ev, requested, explained, fixedBy>>

\* Any record counts as a remediation that worked.
AttachAsOurs(w) ==
    /\ req[w].pc = "attaching"
    /\ mem' = IF req[w].id \in OpenIds(Key)
              THEN [mem EXCEPT ![req[w].id].fix = "ours"] ELSE mem
    /\ req' = [req EXCEPT ![w] = Continue(req[w])]
    /\ UNCHANGED <<now, world, issued, keyOf, open, rows, ev, requested, explained, fixedBy>>

\* attachRemediation: an incident no longer open is silently left alone.
Attach(w) ==
    /\ req[w].pc = "attaching"
    /\ mem' = IF req[w].id \in OpenIds(Key)
              THEN [mem EXCEPT ![req[w].id].fix = req[w].row.fix] ELSE mem
    /\ req' = [req EXCEPT ![w] = Continue(req[w])]
    /\ UNCHANGED <<now, world, issued, keyOf, open, rows, ev, requested, explained, fixedBy>>

\* A restart forgets the requests in flight too.
RecorderStep ==
    \/ /\ \/ \E e \in Evaluators : Step(e)
          \/ \E k \in Key : Onset(k) \/ Clear(k)
          \/ Pass
       /\ UNCHANGED requests
    \/ /\ Restart
       /\ mode.faults \/ \A w \in Requests : req[w].pc = "idle"
       /\ req' = [w \in Requests |-> NoRequest]
       /\ UNCHANGED <<requested, explained, fixedBy>>

RequestStep(w) ==
    \/ Awaited(w) \/ Land(w) \/ Outcome(w) \/ Refuse(w) \/ Save(w) \/ Attach(w)
    \/ LoopTick(w) \/ \E op \in Ops, i \in Ids : Load(w, op, i)

WNext == UNCHANGED mode /\ (RecorderStep \/ \E w \in Requests : RequestStep(w))

WSpec == WInit /\ [][WNext]_writerVars

\* The interval timer keeps ticking and every await of a tick settles.
WFairSpec ==
    WSpec /\ \A e \in Evaluators : WF_writerVars(UNCHANGED <<mode, requests>> /\ Step(e))

(***************************************************************************)
(* Properties.                                                             *)
(***************************************************************************)
RequestState == [pc : {"idle", "loaded", "landed", "saving", "attaching"},
                 op : Ops, id : Ids \union {0}, row : Row,
                 queue : Seq([id : Ids, row : Row])]

WTypeOK ==
    /\ TypeOK
    /\ req \in [Requests -> RequestState]
    /\ requested \in Nat /\ explained \subseteq Ids
    /\ fixedBy \in [Ids -> SUBSET {"ours", "user-signed"}]

\* What the recorder holds in memory and what is stored agree: well formed, no
\* live row nobody tracks, nothing tracked that is not stored or was closed.
MemoryMatchesRows ==
    WTypeOK /\ NoRowIsOrphaned /\ TrackedIsStored /\ TrackedIsNotResolved

\* No row ever claims more than was done (attributionOf, recordUserRemediation):
\* through stale rows, lost attachments and restarts, an incident is credited to
\* Blackbox only if a remediation of Blackbox's landed for that very incident,
\* and to a signed proposal only if one did.
CreditIsEarned ==
    \A i \in Ids :
        /\ rows[i].by = "blackbox" \/ rows[i].fix = "ours" => "ours" \in fixedBy[i]
        /\ rows[i].by = "blackbox-proposed" \/ rows[i].fix = "user-signed"
               => "user-signed" \in fixedBy[i]

\* lifecycle.ts of a wedged nonce: "one incident ... and it must remain one,
\* because the remediator acts per incident and spends real gas doing it".  No two
\* rows of a key are live, acknowledged ones included, unless a save of one of
\* them is on its way.
OneLiveIncidentPerKey ==
    \A i, j \in 1..issued :
        i # j /\ keyOf[i] = keyOf[j] /\ Live(rows[i]) /\ Live(rows[j])
            => PendingSave(i) \/ PendingSave(j)

\* A remediation of ours that landed is never recorded as somebody else's work:
\* "the product understating its own work, which is the one direction the
\* attribution must never err in" (attachRemediation), once its handler is done.
CreditIsGiven ==
    \A i \in Ids :
        rows[i].by = "external" /\ (\A w \in Requests : req[w].pc = "idle")
            => "ours" \notin fixedBy[i]

\* An incident a signed proposal resolved stays credited to it
\* (recordUserRemediation: "calling it `external` understates what happened").
ProposalStaysCredited ==
    [][\A i \in Ids : rows[i].by = "blackbox-proposed" => rows'[i].by = "blackbox-proposed"]_writerVars
=============================================================================
