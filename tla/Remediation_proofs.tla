-------------------------- MODULE Remediation_proofs ------------------------
(***************************************************************************)
(* Remediating an incident, and the ledger that says so.                   *)
(* For any number of callers, incidents, signers and budgets:              *)
(*   - RemediatorTypeCorrect: the state is always well formed;             *)
(*   - MutexNeverLeaks: a signer in the mutex set has a live call;         *)
(*   - LedgerNeverOverclaims: a succeeded row names a mined transaction    *)
(*     of its own incident, a replayed one included;                       *)
(*   - SubmissionsAreLedgered: a submission that answered ends in one row, *)
(*     under the hash it was given;                                        *)
(*   - BudgetsAreKept: no ceiling is overrun by more than the calls that   *)
(*     were past its guard together can write.                             *)
(* The last three are not inductive alone: LocalsAgree, RunsAgree and      *)
(* CallsAgree say what a call's locals are worth at each of its awaits,    *)
(* and BudgetInv counts, with the rows of a window, the rows that calls    *)
(* already past the guard may still write there.                           *)
(* For any number of appenders, entries and rows of the hash chain:        *)
(*   - LedgerTypeCorrect: the ledger is always well formed;                *)
(*   - LedgerAlwaysVerifies: what the appenders leave behind verifies;     *)
(*   - HonestLedgersVerify: until somebody tampers with it, the ledger     *)
(*     verifies: tampering is the only step that can lose IInv;            *)
(*   - TamperingIsAlwaysLocated: an edit, a swap or an interior removal is *)
(*     the first break of the walk, and whatever is appended stays behind  *)
(*     it.  That a row is never mistaken for another rests on Distinct: no *)
(*     two rows of an honest chain have one hash, because no two follow    *)
(*     one hash.                                                           *)
(***************************************************************************)
EXTENDS Remediator, LedgerTamper, FiniteSetTheorems, SequenceTheorems, TLAPS

\* What a call holds in its locals: the hash it verifies is of a transaction sent
\* for its incident, and a receipt it has seen is of that transaction.
LocalsAgree ==
    \A c \in Calls :
        /\ call[c].included => /\ pc[c] \in {"recording", "catch", "finally"}
                               /\ call[c].hash \in mined /\ call[c].hash.incident = Incident(c)
        /\ pc[c] = "verifying" => call[c].hash \in Tx /\ call[c].hash.incident = Incident(c)

RInv == TypeOK /\ LocalsAgree /\ NeverOverclaims

\* A call's record before it has done anything is well formed.
LEMMA IdleIsLocal == Idle \in Local /\ Idle.included = FALSE
  <1>1. (CHOOSE i \in Incidents : TRUE) \in Incidents
    BY IncidentAssumption
  <1> QED BY <1>1 DEF Idle, Local

LEMMA FreshIsLocal ==
    ASSUME TypeOK, NEW i \in Incidents
    PROVE  Fresh(i) \in Local /\ Fresh(i).included = FALSE
  BY DEF Fresh, Local, TypeOK

\* The run a call is in is a run.
LEMMA MeIsRun == ASSUME TypeOK, NEW c \in Calls PROVE Me(c) \in Run
  BY DEF TypeOK, Me, Run

\* What a submission is answered with is a transaction for the call's incident.
LEMMA AnswerIsTx ==
    ASSUME TypeOK, NEW c \in Calls, NEW t \in {MyTx(c)} \union Replays(c)
    PROVE  t \in Tx /\ t.incident = Incident(c)
  <1>1. call[c] \in Local /\ broadcast \subseteq Tx
    BY DEF TypeOK
  <1>2. MyTx(c) \in Tx /\ MyTx(c).incident = Incident(c)
    BY <1>1, MeIsRun DEF MyTx, Tx, Local, Incident
  <1> QED BY <1>1, <1>2 DEF Replays

\* A call's row is a row of the ledger.
LEMMA RowIsLedgerRow ==
    ASSUME TypeOK, NEW c \in Calls,
           NEW part \in {"outcome", "fallback"}, NEW status \in Statuses
    PROVE  RowOf(c, part, status) \in LedgerRow
  <1>1. call[c] \in Local
    BY DEF TypeOK
  <1> QED BY <1>1, MeIsRun DEF RowOf, LedgerRow, Local, Incident

\* An insert that succeeds, fails or fails after committing adds at most the row.
LEMMA InsertEffect ==
    ASSUME NEW c, NEW row, Insert(row) \/ InsertFails(c, row)
    PROVE  attempts' \subseteq attempts \union {row}
  BY DEF Insert, InsertFails

(***************************************************************************)
(* Type correctness.                                                       *)
(***************************************************************************)
LEMMA InitTypeOK == Init => TypeOK
  BY IdleIsLocal DEF Init, TypeOK, Labels

LEMMA StepTypeOK == TypeOK /\ [Next]_vars => TypeOK'
  <1> SUFFICES ASSUME TypeOK, [Next]_vars PROVE TypeOK'
    OBVIOUS
  <1> USE DEF chain
  <1>1. ASSUME NEW c \in Calls, NEW i \in Incidents, Start(c, i)
        PROVE  TypeOK'
    <2>1. [Fresh(i) EXCEPT !.refused = ~SynchronousGuardsPass(i)] \in Local
      BY DEF Fresh, Local, TypeOK, SynchronousGuardsPass
    <2> QED BY <1>1, <2>1 DEF Start, TypeOK, Goto, Labels
  <1>2. ASSUME NEW c \in Calls, NEW ok, Check(c, ok)
        PROVE  call' \in [Calls -> Local]
    <2>1. call[c] \in Local
      BY DEF TypeOK
    <2>2. (call[c].refused \/ ~ok) \in BOOLEAN
      OBVIOUS
    <2>3. [call[c] EXCEPT !.refused = @ \/ ~ok] \in Local
      BY <2>1, <2>2 DEF Local
    <2>4. call' = [call EXCEPT ![c] = [call[c] EXCEPT !.refused = @ \/ ~ok]]
      BY <1>2 DEF Check, TypeOK
    <2> QED BY <2>3, <2>4 DEF TypeOK
  <1>3. ASSUME NEW c \in Calls, GuardAttempts(c) PROVE TypeOK'
    BY <1>2, <1>3 DEF GuardAttempts, Goto, TypeOK, Labels
  <1>4. ASSUME NEW c \in Calls, GuardHourly(c) PROVE TypeOK'
    BY <1>2, <1>4 DEF GuardHourly, Goto, TypeOK, Labels
  <1>5. ASSUME NEW c \in Calls, Return(c)
        PROVE  pc' \in [Calls -> Labels] /\ call' \in [Calls -> Local]
    BY <1>5, IdleIsLocal DEF Return, Goto, TypeOK, Labels
  <1>6. ASSUME NEW c \in Calls, GuardDaily(c) PROVE TypeOK'
    BY <1>5, <1>6 DEF GuardDaily, Goto, TypeOK, Labels
  <1>7. ASSUME NEW c \in Calls, PlanThrows(c) PROVE TypeOK'
    BY <1>5, <1>7 DEF PlanThrows, TypeOK
  <1>8. ASSUME NEW c \in Calls, PlanSkips(c) PROVE TypeOK'
    <2>1. call[c] \in Local /\ now \in Nat
      BY DEF TypeOK
    <2>2. [call[c] EXCEPT !.startedAt = now] \in Local
      BY <2>1 DEF Local
    <2>3. call' = [call EXCEPT ![c] = [call[c] EXCEPT !.startedAt = now]]
      BY <1>8 DEF PlanSkips, TypeOK
    <2>4. call' \in [Calls -> Local]
      BY <2>2, <2>3 DEF TypeOK
    <2> QED BY <1>8, <2>4 DEF PlanSkips, Goto, TypeOK, Labels
  <1>9. ASSUME NEW c \in Calls, RecordSkip(c) PROVE TypeOK'
    <2> DEFINE row == RowOf(c, "outcome", "skipped")
    <2>1. row \in LedgerRow
      BY RowIsLedgerRow DEF Statuses
    <2>2. Insert(row) \/ InsertFails(c, row)
      BY <1>9 DEF RecordSkip
    <2> HIDE DEF row
    <2>3. attempts' \subseteq LedgerRow
      BY <2>1, <2>2, InsertEffect DEF TypeOK
    <2> QED BY <1>5, <1>9, <2>3 DEF RecordSkip, TypeOK
  <1>10. ASSUME NEW c \in Calls, TakeMutex(c) PROVE TypeOK'
    <2>1. Signer(c) \in Signers
      BY IncidentAssumption DEF Signer, Incident, TypeOK, Local
    <2> QED BY <1>10, <2>1 DEF TakeMutex, Goto, TypeOK, Labels, HoldsMutex, Local
  <1>11. ASSUME NEW c \in Calls, SubmitAnswers(c) PROVE TypeOK'
    <2>1. PICK t \in {MyTx(c)} \union Replays(c) :
            /\ broadcast' = broadcast \union {t}
            /\ told' = told \union {[run |-> Me(c), hash |-> t]}
            /\ call' = [call EXCEPT ![c].hash = t]
      BY <1>11 DEF SubmitAnswers
    <2>2. t \in Tx /\ Me(c) \in Run
      BY <2>1, AnswerIsTx, MeIsRun
    <2>3. call' \in [Calls -> Local]
      BY <2>1, <2>2 DEF TypeOK, Local
    <2>4. broadcast' \subseteq Tx /\ told' \subseteq [run : Run, hash : broadcast']
      BY <2>1, <2>2 DEF TypeOK
    <2> QED BY <1>11, <2>1, <2>3, <2>4 DEF SubmitAnswers, Goto, TypeOK, Labels, HoldsMutex
  <1>12. ASSUME NEW c \in Calls, SubmitThrows(c) PROVE TypeOK'
    <2>1. MyTx(c) \in Tx
      BY AnswerIsTx
    <2>2. broadcast \subseteq broadcast' /\ broadcast' \subseteq Tx
      BY <1>12, <2>1 DEF SubmitThrows, TypeOK
    <2> QED BY <1>12, <2>2 DEF SubmitThrows, Goto, TypeOK, Labels, HoldsMutex
  <1>13. ASSUME NEW c \in Calls, VerifyReceipt(c) PROVE TypeOK'
    <2> DEFINE seen == [call[c] EXCEPT !.included = call[c].hash \in mined, !.gas = GasPerTx]
    <2>1. call[c] \in Local
      BY DEF TypeOK
    <2>2. (call[c].hash \in mined) \in BOOLEAN
      OBVIOUS
    <2>3. seen \in Local
      BY <2>1, <2>2, ConfigAssumption DEF Local
    <2>4. call' = [call EXCEPT ![c] = seen]
      BY <1>13 DEF VerifyReceipt, TypeOK
    <2>5. call' \in [Calls -> Local]
      BY <2>3, <2>4 DEF TypeOK
    <2> QED BY <1>13, <2>5 DEF VerifyReceipt, Goto, TypeOK, Labels, HoldsMutex
  <1>14. ASSUME NEW c \in Calls, VerifyGivesUp(c) PROVE TypeOK'
    BY <1>14 DEF VerifyGivesUp, Goto, TypeOK, Labels, HoldsMutex
  <1>15. ASSUME NEW c \in Calls, RecordOutcome(c) PROVE TypeOK'
    <2>1. attempts' \subseteq LedgerRow
      BY <1>15, InsertEffect, RowIsLedgerRow
      DEF RecordOutcome, Verdict, Statuses, TypeOK
    <2> QED BY <1>15, <2>1 DEF RecordOutcome, Goto, TypeOK, Labels, HoldsMutex
  <1>16. ASSUME NEW c \in Calls, RecordFailure(c) PROVE TypeOK'
    <2>1. attempts' \subseteq LedgerRow
      BY <1>16, InsertEffect, RowIsLedgerRow DEF RecordFailure, Statuses, TypeOK
    <2> QED BY <1>16, <2>1 DEF RecordFailure, Goto, TypeOK, Labels, HoldsMutex
  <1>17. ASSUME NEW c \in Calls, Finally(c) PROVE TypeOK'
    BY <1>5, <1>17 DEF Finally, TypeOK
  <1>18. ASSUME Mine PROVE TypeOK'
    BY <1>18 DEF Mine, Pending, TypeOK
  <1>19. ASSUME Tick PROVE TypeOK'
    BY <1>19 DEF Tick, TypeOK
  <1>20. ASSUME UNCHANGED vars PROVE TypeOK'
    BY <1>20 DEF vars, TypeOK
  <1> QED
    BY <1>1, <1>3, <1>4, <1>6, <1>7, <1>8, <1>9, <1>10, <1>11, <1>12, <1>13, <1>14,
       <1>15, <1>16, <1>17, <1>18, <1>19, <1>20
    DEF Next, Proceed

\* The state of any number of concurrent calls stays well formed (Remediator).
THEOREM RemediatorTypeCorrect == Spec => []TypeOK
  BY InitTypeOK, StepTypeOK, PTL DEF Spec

(***************************************************************************)
(* The mutex set.                                                          *)
(***************************************************************************)
LEMMA InitMutexHeld == Init => MutexHeldByACall
  BY DEF Init, MutexHeldByACall

\* Only TakeMutex puts a signer in the set, and then its call holds it; only
\* Finally ends a call that holds one, and it takes the signer out.
LEMMA StepMutexHeld == TypeOK /\ MutexHeldByACall /\ [Next]_vars => MutexHeldByACall'
  <1> SUFFICES ASSUME TypeOK, MutexHeldByACall, [Next]_vars,
                      NEW s \in inFlight'
               PROVE  \E c \in Calls : pc'[c] \in HoldsMutex /\ Signer(c)' = s
    BY DEF MutexHeldByACall
  <1> USE DEF TypeOK
  <1>1. ASSUME NEW c \in Calls, TakeMutex(c), s = Signer(c)
        PROVE  pc'[c] \in HoldsMutex /\ Signer(c)' = s
    BY <1>1 DEF TakeMutex, Goto, HoldsMutex, Signer, Incident, Local
  <1>2. ASSUME s \in inFlight,
               \A d \in Calls : pc[d] \in HoldsMutex /\ Signer(d) = s =>
                   pc'[d] \in HoldsMutex /\ call'[d].incident = call[d].incident
        PROVE  \E c \in Calls : pc'[c] \in HoldsMutex /\ Signer(c)' = s
    <2>1. PICK d \in Calls : pc[d] \in HoldsMutex /\ Signer(d) = s
      BY <1>2 DEF MutexHeldByACall
    <2> QED BY <1>2, <2>1 DEF Signer, Incident
  <1>3. ASSUME NEW c \in Calls, Proceed(c)
        PROVE  \/ TakeMutex(c) /\ s = Signer(c)
               \/ /\ s \in inFlight
                  /\ \A d \in Calls : pc[d] \in HoldsMutex /\ Signer(d) = s =>
                        pc'[d] \in HoldsMutex /\ call'[d].incident = call[d].incident
    <2>1. CASE pc[c] \notin HoldsMutex /\ ~TakeMutex(c)
      BY <1>3, <2>1
      DEF Proceed, GuardAttempts, GuardHourly, GuardDaily, PlanThrows, PlanSkips,
          RecordSkip, SubmitAnswers, SubmitThrows, VerifyReceipt, VerifyGivesUp,
          RecordOutcome, RecordFailure, Finally, Goto, Check, Return, HoldsMutex
    <2>2. CASE TakeMutex(c)
      BY <2>2 DEF TakeMutex, Goto, HoldsMutex, Local
    <2>3. CASE Finally(c)
      BY <2>3 DEF Finally, Return, Goto, HoldsMutex
    <2>4. CASE SubmitAnswers(c) \/ SubmitThrows(c) \/ VerifyReceipt(c) \/ VerifyGivesUp(c)
      BY <2>4 DEF SubmitAnswers, SubmitThrows, VerifyReceipt, VerifyGivesUp, Goto,
                  HoldsMutex, Local
    <2>5. CASE RecordOutcome(c) \/ RecordFailure(c)
      BY <2>5 DEF RecordOutcome, RecordFailure, Goto, HoldsMutex
    <2> QED
      BY <1>3, <2>1, <2>2, <2>3, <2>4, <2>5
      DEF Proceed, GuardAttempts, GuardHourly, GuardDaily, PlanThrows, PlanSkips,
          RecordSkip, HoldsMutex
  <1>4. ASSUME NEW c \in Calls, NEW i \in Incidents, Start(c, i)
        PROVE  /\ s \in inFlight
               /\ \A d \in Calls : pc[d] \in HoldsMutex /\ Signer(d) = s =>
                     pc'[d] \in HoldsMutex /\ call'[d].incident = call[d].incident
    BY <1>4 DEF Start, Goto, HoldsMutex
  <1>5. ASSUME Mine \/ Tick \/ UNCHANGED vars
        PROVE  /\ s \in inFlight
               /\ \A d \in Calls : pc[d] \in HoldsMutex /\ Signer(d) = s =>
                     pc'[d] \in HoldsMutex /\ call'[d].incident = call[d].incident
    BY <1>5 DEF Mine, Tick, vars
  <1> QED BY <1>1, <1>2, <1>3, <1>4, <1>5 DEF Next

\* A signer in the mutex set always has a call between its submission and its
\* finally: no exception path of remediate leaves a signer busy with nobody
\* working on it (Remediator.inFlight).
THEOREM MutexNeverLeaks == Spec => []MutexHeldByACall
  <1>1. Init => TypeOK /\ MutexHeldByACall
    BY InitTypeOK, InitMutexHeld
  <1>2. TypeOK /\ MutexHeldByACall /\ [Next]_vars => (TypeOK /\ MutexHeldByACall)'
    BY StepTypeOK, StepMutexHeld
  <1> QED BY <1>1, <1>2, PTL DEF Spec

(***************************************************************************)
(* The ledger's claims.                                                    *)
(***************************************************************************)
LEMMA InitRInv == Init => RInv
  BY InitTypeOK, IdleIsLocal DEF Init, RInv, LocalsAgree, NeverOverclaims

LEMMA StepLocalsAgree == TypeOK /\ LocalsAgree /\ [Next]_vars => LocalsAgree'
  <1> SUFFICES ASSUME TypeOK, LocalsAgree, [Next]_vars, NEW d \in Calls
               PROVE  /\ call'[d].included => /\ pc'[d] \in {"recording", "catch", "finally"}
                                               /\ call'[d].hash \in mined'
                                               /\ call'[d].hash.incident = call'[d].incident
                      /\ pc'[d] = "verifying" => call'[d].hash \in Tx
                                                  /\ call'[d].hash.incident = call'[d].incident
    BY DEF LocalsAgree, Incident
  <1> DEFINE Goal == /\ call'[d].included => /\ pc'[d] \in {"recording", "catch", "finally"}
                                              /\ call'[d].hash \in mined'
                                              /\ call'[d].hash.incident = call'[d].incident
                     /\ pc'[d] = "verifying" => call'[d].hash \in Tx
                                                 /\ call'[d].hash.incident = call'[d].incident
  <1> USE DEF TypeOK, LocalsAgree, Incident, chain
  <1>1. ASSUME NEW c \in Calls, NEW i \in Incidents, Start(c, i) PROVE Goal
    <2>1. [Fresh(i) EXCEPT !.refused = ~SynchronousGuardsPass(i)].included = FALSE
      BY DEF Fresh
    <2> QED BY <1>1, <2>1 DEF Start, Goto
  <1>2. ASSUME NEW c \in Calls, Return(c), UNCHANGED mined PROVE Goal
    BY <1>2, IdleIsLocal DEF Return, Goto
  <1>3. ASSUME NEW c \in Calls, NEW ok, Check(c, ok), NEW l, Goto(c, l), l # "verifying",
               pc[c] \in {"attempts", "hourly"}, UNCHANGED mined
        PROVE  Goal
    BY <1>3 DEF Check, Goto, Local
  <1>4. ASSUME NEW c \in Calls, Proceed(c) PROVE Goal
    <2>1. CASE GuardAttempts(c) \/ GuardHourly(c)
      BY <1>3, <2>1 DEF GuardAttempts, GuardHourly
    <2>2. CASE GuardDaily(c)
      BY <1>2, <2>2 DEF GuardDaily, Goto
    <2>3. CASE PlanThrows(c) \/ RecordSkip(c) \/ Finally(c)
      BY <1>2, <2>3 DEF PlanThrows, RecordSkip, Finally
    <2>4. CASE PlanSkips(c) \/ TakeMutex(c)
      <3>1. PICK l \in {"skipping", "submitting"} : pc' = [pc EXCEPT ![c] = l]
        BY <2>4 DEF PlanSkips, TakeMutex, Goto
      <3>2. call' = [call EXCEPT ![c].startedAt = now] /\ mined' = mined /\ pc[c] = "planning"
        BY <2>4 DEF PlanSkips, TakeMutex
      <3>3. /\ pc'[d] = "verifying" => pc[d] = "verifying"
            /\ call'[d].included = call[d].included /\ call'[d].hash = call[d].hash
            /\ call'[d].incident = call[d].incident
            /\ call[d].included => pc'[d] = pc[d]
        BY <3>1, <3>2 DEF Local
      <3> QED
        BY <3>2, <3>3
    <2>5. CASE SubmitAnswers(c)
      <3>1. PICK t \in {MyTx(c)} \union Replays(c) : call' = [call EXCEPT ![c].hash = t]
        BY <2>5 DEF SubmitAnswers
      <3>2. t \in Tx /\ t.incident = call[c].incident
        BY <3>1, AnswerIsTx
      <3>3. pc' = [pc EXCEPT ![c] = "verifying"] /\ mined' = mined /\ pc[c] = "submitting"
        BY <2>5 DEF SubmitAnswers, Goto
      <3>4. call[c].included = FALSE
        BY <3>3
      <3> QED BY <3>1, <3>2, <3>3, <3>4 DEF Local
    <2>6. CASE SubmitThrows(c)
      BY <2>6 DEF SubmitThrows, Goto
    <2>7. CASE VerifyReceipt(c)
      BY <2>7 DEF VerifyReceipt, Goto, Local
    <2>8. CASE VerifyGivesUp(c) \/ RecordOutcome(c) \/ RecordFailure(c)
      BY <2>8 DEF VerifyGivesUp, RecordOutcome, RecordFailure, Goto
    <2> QED BY <1>4, <2>1, <2>2, <2>3, <2>4, <2>5, <2>6, <2>7, <2>8 DEF Proceed
  <1>5. ASSUME Mine \/ Tick \/ UNCHANGED vars PROVE Goal
    BY <1>5 DEF Mine, Tick, vars
  <1> QED BY <1>1, <1>4, <1>5 DEF Next

\* The only row that says succeeded is the outcome of a call that has seen its
\* own success receipt.
LEMMA StepNeverOverclaims == RInv /\ [Next]_vars => NeverOverclaims'
  <1> SUFFICES ASSUME RInv, [Next]_vars, NEW r \in attempts', r.status = "succeeded"
               PROVE  r.hash \in mined' /\ r.hash.incident = r.incident
    BY DEF NeverOverclaims
  <1>1. mined \subseteq mined'
    BY DEF Next, Proceed, Start, GuardAttempts, GuardHourly, GuardDaily, PlanThrows,
           PlanSkips, RecordSkip, TakeMutex, SubmitAnswers, SubmitThrows, VerifyReceipt,
           VerifyGivesUp, RecordOutcome, RecordFailure, Finally, Mine, Tick, vars, chain
  <1>2. CASE r \in attempts
    BY <1>1, <1>2 DEF RInv, NeverOverclaims
  <1>3. CASE r \notin attempts
    <2>1. PICK c \in Calls : RecordSkip(c) \/ RecordOutcome(c) \/ RecordFailure(c)
      BY <1>3 DEF Next, Proceed, Start, GuardAttempts, GuardHourly, GuardDaily, PlanThrows,
           PlanSkips, TakeMutex, SubmitAnswers, SubmitThrows, VerifyReceipt,
           VerifyGivesUp, Finally, Mine, Tick, vars
    <2>2. r = RowOf(c, "outcome", Verdict(c)) /\ Verdict(c) = "succeeded"
      BY <1>3, <2>1 DEF RecordSkip, RecordOutcome, RecordFailure, Insert, InsertFails, RowOf
    <2>3. call[c].included /\ call[c].hash \in mined /\ call[c].hash.incident = Incident(c)
      BY <2>2 DEF Verdict, RInv, LocalsAgree
    <2> QED BY <1>1, <2>2, <2>3 DEF RowOf
  <1> QED BY <1>2, <1>3

\* Whatever is lost, given up on, replayed or written twice, a ledger row that
\* says succeeded names a transaction with a success receipt that was sent for
\* the row's incident (waitForReceipt, remediate, record).
THEOREM LedgerNeverOverclaims == Spec => []NeverOverclaims
  <1>1. RInv /\ [Next]_vars => RInv'
    BY StepTypeOK, StepLocalsAgree, StepNeverOverclaims DEF RInv
  <1>2. RInv => NeverOverclaims
    BY DEF RInv
  <1> QED BY InitRInv, <1>1, <1>2, PTL DEF Spec

(***************************************************************************)
(* Every submitted transaction is in the ledger.                           *)
(***************************************************************************)
Settling == {"verifying", "recording"}

Ledgered(t) ==
    \E r \in attempts : r.run = t.run /\ r.hash = t.hash /\ \A q \in attempts : q.run = t.run => q = r

\* Runs are numbered upwards, so what the ledger and told say of a call's run was
\* said by that run; a run is in told from its submit on and in the ledger from
\* its last await on.
RunsAgree ==
    /\ \A t \in told : t.run[2] <= runs[t.run[1]]
    /\ \A r \in attempts : r.run[2] <= runs[r.run[1]]

CallsAgree ==
    \A c \in Calls \ FaultyCalls :
        /\ pc[c] \notin {"idle", "finally"} => \A r \in attempts : r.run # Me(c)
        /\ pc[c] \notin {"idle", "finally"} \union Settling => \A t \in told : t.run # Me(c)
        /\ pc[c] \in Settling => \A t \in told : t.run = Me(c) => t.hash = call[c].hash

ToldIsTracked ==
    \A t \in told :
        t.run[1] \in FaultyCalls \/ Ledgered(t) \/ \E c \in Calls : Me(c) = t.run /\ pc[c] \in Settling

SInv == TypeOK /\ RunsAgree /\ CallsAgree /\ ToldIsTracked

LEMMA InitSInv == Init => SInv
  BY InitTypeOK DEF Init, SInv, RunsAgree, CallsAgree, ToldIsTracked, Settling

\* Steps of one call that neither start a run nor tell nor record one.  Of a call
\* whose writes may fail nothing is promised.
LEMMA QuietStep ==
    ASSUME SInv, UNCHANGED <<told, attempts, runs>>, NEW c \in Calls,
           \A d \in Calls \ {c} : pc'[d] = pc[d] /\ call'[d].hash = call[d].hash,
           \/ c \in FaultyCalls
           \/ /\ pc[c] \in Settling => pc'[c] \in Settling
              /\ pc'[c] \in Settling => pc[c] \in Settling /\ call'[c].hash = call[c].hash
              /\ pc[c] \in {"idle", "finally"} => pc'[c] \in {"idle", "finally"}
    PROVE  RunsAgree' /\ CallsAgree' /\ ToldIsTracked'
  <1> USE DEF SInv, Me
  <1>1. RunsAgree'
    BY DEF RunsAgree
  <1>2. CallsAgree'
    <2> SUFFICES ASSUME NEW d \in Calls \ FaultyCalls
                 PROVE  /\ pc'[d] \notin {"idle", "finally"} => \A r \in attempts' : r.run # Me(d)'
                        /\ pc'[d] \notin {"idle", "finally"} \union Settling => \A t \in told' : t.run # Me(d)'
                        /\ pc'[d] \in Settling => \A t \in told' : t.run = Me(d)' => t.hash = call'[d].hash
      BY DEF CallsAgree, Settling
    <2>1. CASE d = c
      BY <2>1 DEF CallsAgree
    <2>2. CASE d # c
      BY <2>2 DEF CallsAgree
    <2> QED BY <2>1, <2>2
  <1>3. ToldIsTracked'
    <2> SUFFICES ASSUME NEW t \in told, t.run[1] \notin FaultyCalls
                 PROVE  Ledgered(t)' \/ \E d \in Calls : Me(d)' = t.run /\ pc'[d] \in Settling
      BY DEF ToldIsTracked, Settling
    <2>1. CASE Ledgered(t)
      BY <2>1 DEF Ledgered
    <2>2. CASE \E d \in Calls : Me(d) = t.run /\ pc[d] \in Settling
      BY <2>2
    <2> QED BY <2>1, <2>2 DEF ToldIsTracked
  <1> QED BY <1>1, <1>2, <1>3

\* A call whose run has no row yet writes it and goes on to its end: the row does
\* not disturb another run's, and makes its own the only one.
LEMMA RowStep ==
    ASSUME SInv, UNCHANGED <<told, runs>>, NEW c \in Calls,
           pc[c] \notin {"idle", "finally"},
           pc'[c] \in {"idle", "finally"} \/ c \in FaultyCalls,
           \A d \in Calls \ {c} : pc'[d] = pc[d] /\ call'[d] = call[d],
           NEW row, attempts' = attempts \union {row}, row.run = Me(c),
           pc[c] \in Settling => row.hash = call[c].hash \/ c \in FaultyCalls
    PROVE  RunsAgree' /\ CallsAgree' /\ ToldIsTracked'
  <1> USE DEF SInv, Me
  <1>1. RunsAgree'
    <2>1. row.run[2] <= runs[row.run[1]]
      BY DEF TypeOK
    <2> QED BY <2>1 DEF RunsAgree
  <1>2. CallsAgree'
    BY DEF CallsAgree, Settling
  <1>3. ToldIsTracked'
    <2> SUFFICES ASSUME NEW t \in told, t.run[1] \notin FaultyCalls
                 PROVE  Ledgered(t)' \/ \E d \in Calls : Me(d)' = t.run /\ pc'[d] \in Settling
      BY DEF ToldIsTracked, Settling
    <2>1. CASE t.run = Me(c)
      <3>0. c \notin FaultyCalls
        BY <2>1
      <3>1. pc[c] \in Settling
        BY <2>1, <3>0 DEF CallsAgree
      <3>2. \A q \in attempts' : q.run = t.run => q = row
        BY <2>1, <3>0 DEF CallsAgree
      <3>3. t.hash = row.hash
        BY <2>1, <3>0, <3>1 DEF CallsAgree
      <3>4. row \in attempts' /\ row.run = t.run
        BY <2>1
      <3> QED BY <3>2, <3>3, <3>4 DEF Ledgered
    <2>2. CASE t.run # Me(c) /\ Ledgered(t)
      BY <2>2 DEF Ledgered
    <2>3. CASE t.run # Me(c) /\ \E d \in Calls : Me(d) = t.run /\ pc[d] \in Settling
      BY <2>3
    <2> QED BY <2>1, <2>2, <2>3 DEF ToldIsTracked
  <1> QED BY <1>1, <1>2, <1>3

LEMMA StepSInv ==
    ASSUME SInv, [Next]_vars
    PROVE  SInv'
  <1> DEFINE Goal == RunsAgree' /\ CallsAgree' /\ ToldIsTracked'
  <1>1. TypeOK'
    BY StepTypeOK DEF SInv
  <1>2. TypeOK
    BY DEF SInv
  <1> USE DEF chain
  <1>3. ASSUME NEW c \in Calls, NEW i \in Incidents, Start(c, i) PROVE Goal
    <2>1. /\ pc[c] = "idle" /\ pc' = [pc EXCEPT ![c] = "attempts"]
          /\ runs' = [runs EXCEPT ![c] = @ + 1] /\ UNCHANGED <<told, attempts>>
          /\ \A d \in Calls \ {c} : call'[d] = call[d]
      BY <1>3 DEF Start, Goto
    <2>2. RunsAgree'
      BY <1>2, <2>1 DEF SInv, RunsAgree, TypeOK, Run, LedgerRow
    <2>3. (\A t \in told : t.run # Me(c)') /\ \A r \in attempts : r.run # Me(c)'
      BY <1>2, <2>1 DEF SInv, RunsAgree, TypeOK, Me
    <2>4. \A d \in Calls \ {c} : Me(d)' = Me(d) /\ pc'[d] = pc[d]
      BY <1>2, <2>1 DEF TypeOK, Me
    <2>5. pc'[c] = "attempts"
      BY <1>2, <2>1 DEF TypeOK
    <2>6. CallsAgree'
      <3> SUFFICES ASSUME NEW d \in Calls \ FaultyCalls
                   PROVE  /\ pc'[d] \notin {"idle", "finally"} => \A r \in attempts' : r.run # Me(d)'
                          /\ pc'[d] \notin {"idle", "finally"} \union Settling => \A t \in told' : t.run # Me(d)'
                          /\ pc'[d] \in Settling => \A t \in told' : t.run = Me(d)' => t.hash = call'[d].hash
        BY DEF CallsAgree, Settling
      <3>1. CASE d = c
        BY <2>1, <2>3, <2>5, <3>1 DEF Settling
      <3>2. CASE d # c
        BY <2>1, <2>4, <3>2 DEF SInv, CallsAgree
      <3> QED BY <3>1, <3>2
    <2>7. ToldIsTracked'
      <3> SUFFICES ASSUME NEW t \in told, t.run[1] \notin FaultyCalls
                   PROVE  Ledgered(t)' \/ \E d \in Calls : Me(d)' = t.run /\ pc'[d] \in Settling
        BY <2>1 DEF ToldIsTracked, Settling
      <3>1. CASE Ledgered(t)
        BY <2>1, <3>1 DEF Ledgered
      <3>2. CASE \E d \in Calls : Me(d) = t.run /\ pc[d] \in Settling
        BY <2>1, <2>4, <3>2 DEF Settling
      <3> QED BY <3>1, <3>2 DEF SInv, ToldIsTracked
    <2> QED BY <2>2, <2>6, <2>7
  <1>4. ASSUME NEW c \in Calls, Proceed(c) PROVE Goal
    <2>1. CASE GuardAttempts(c) \/ GuardHourly(c)
      BY <1>2, <2>1, QuietStep
      DEF GuardAttempts, GuardHourly, Check, Goto, TypeOK, Settling
    <2>2. CASE GuardDaily(c)
      BY <1>2, <2>2, QuietStep DEF GuardDaily, Return, Goto, TypeOK, Settling
    <2>3. CASE PlanThrows(c) \/ Finally(c)
      BY <1>2, <2>3, QuietStep DEF PlanThrows, Finally, Return, Goto, TypeOK, Settling
    <2>4. CASE PlanSkips(c) \/ TakeMutex(c) \/ SubmitThrows(c)
      BY <1>2, <2>4, QuietStep
      DEF PlanSkips, TakeMutex, SubmitThrows, Goto, TypeOK, Settling
    <2>5. CASE VerifyReceipt(c) \/ VerifyGivesUp(c)
      BY <1>2, <2>5, QuietStep
      DEF VerifyReceipt, VerifyGivesUp, Goto, TypeOK, Settling, Local
    <2>6. CASE RecordSkip(c)
      <3> DEFINE row == RowOf(c, "outcome", "skipped")
      <3>0. SUFFICES ASSUME attempts' # attempts \/ c \notin FaultyCalls PROVE Goal
        BY <1>2, <2>6, QuietStep DEF RecordSkip, Return, Goto, TypeOK
      <3>1. attempts' = attempts \union {row} /\ row.run = Me(c)
        BY <2>6, <3>0 DEF RecordSkip, Insert, InsertFails, RowOf
      <3> HIDE DEF row
      <3> QED BY <1>2, <2>6, <3>1, RowStep DEF RecordSkip, Return, Goto, TypeOK, Settling
    <2>7. CASE RecordOutcome(c)
      <3> DEFINE row == RowOf(c, "outcome", Verdict(c))
      <3>0. SUFFICES ASSUME attempts' # attempts \/ c \notin FaultyCalls PROVE Goal
        BY <1>2, <2>7, QuietStep DEF RecordOutcome, Goto, TypeOK
      <3>1. /\ attempts' = attempts \union {row}
            /\ \/ pc' = [pc EXCEPT ![c] = "finally"]
               \/ c \in FaultyCalls /\ pc' = [pc EXCEPT ![c] = "catch"]
        BY <2>7, <3>0 DEF RecordOutcome, Insert, InsertFails, Goto
      <3>2. row.run = Me(c) /\ row.hash = call[c].hash
        BY DEF RowOf
      <3> HIDE DEF row
      <3> QED BY <1>2, <2>7, <3>1, <3>2, RowStep DEF RecordOutcome, TypeOK
    <2>8. CASE RecordFailure(c)
      <3> DEFINE row == RowOf(c, "fallback", "failed")
      <3>0. SUFFICES ASSUME attempts' # attempts \/ c \notin FaultyCalls PROVE Goal
        BY <1>2, <2>8, QuietStep DEF RecordFailure, Goto, TypeOK
      <3>1. attempts' = attempts \union {row} /\ row.run = Me(c)
        BY <2>8, <3>0 DEF RecordFailure, Insert, InsertFails, RowOf
      <3> HIDE DEF row
      <3> QED BY <1>2, <2>8, <3>1, RowStep DEF RecordFailure, Goto, TypeOK, Settling
    <2>9. CASE SubmitAnswers(c)
      <3>0. PICK u \in {MyTx(c)} \union Replays(c) :
              /\ told' = told \union {[run |-> Me(c), hash |-> u]}
              /\ call' = [call EXCEPT ![c].hash = u]
        BY <2>9 DEF SubmitAnswers
      <3>1. /\ pc[c] = "submitting" /\ pc' = [pc EXCEPT ![c] = "verifying"]
            /\ told' = told \union {[run |-> Me(c), hash |-> u]} /\ UNCHANGED <<runs, attempts>>
            /\ call'[c].hash = u /\ \A d \in Calls \ {c} : call'[d] = call[d]
        BY <1>2, <2>9, <3>0 DEF SubmitAnswers, Goto, TypeOK, Local
      <3>2. RunsAgree'
        BY <1>2, <3>1 DEF SInv, RunsAgree, TypeOK, Me
      <3>3. CallsAgree'
        BY <1>2, <3>1 DEF SInv, CallsAgree, TypeOK, Me, Settling
      <3>4. ToldIsTracked'
        <4> SUFFICES ASSUME NEW t \in told', t.run[1] \notin FaultyCalls
                     PROVE  Ledgered(t)' \/ \E d \in Calls : Me(d)' = t.run /\ pc'[d] \in Settling
          BY DEF ToldIsTracked, Settling
        <4>1. CASE t.run = Me(c)
          BY <1>2, <3>1, <4>1 DEF Me, TypeOK, Settling
        <4>2. CASE t \in told /\ Ledgered(t)
          BY <3>1, <4>2 DEF Ledgered
        <4>3. CASE \E d \in Calls : Me(d) = t.run /\ pc[d] \in Settling
          BY <1>2, <3>1, <4>3 DEF Me, TypeOK, Settling
        <4> QED BY <3>1, <4>1, <4>2, <4>3 DEF SInv, ToldIsTracked
      <3> QED BY <3>2, <3>3, <3>4
    <2> QED BY <1>4, <2>1, <2>2, <2>3, <2>4, <2>5, <2>6, <2>7, <2>8, <2>9 DEF Proceed
  <1>5. ASSUME Mine \/ Tick \/ UNCHANGED vars PROVE Goal
    <2>1. UNCHANGED <<told, attempts, runs, pc, call>>
      BY <1>5 DEF Mine, Tick, vars
    <2> QED
      BY <2>1 DEF SInv, RunsAgree, CallsAgree, ToldIsTracked, Ledgered, Me, Settling
  <1> QED BY <1>1, <1>3, <1>4, <1>5 DEF Next, SInv

LEMMA SInvImpliesLedgered == SInv => SubmittedIsLedgered
  BY DEF SInv, ToldIsTracked, Ledgered, SubmittedIsLedgered, Settling

\* A submission that answered has exactly one row once its call is over, and the
\* row names the hash the call was given, a transaction of its own or the replay
\* of an earlier attempt's, whatever its verification made of it and however many
\* calls ran beside it, those whose own ledger writes fail among them (remediate,
\* record, KeeperHubExecutor.submit).
THEOREM SubmissionsAreLedgered == Spec => []SubmittedIsLedgered
  <1>1. SInv /\ [Next]_vars => SInv'
    BY StepSInv
  <1> QED BY InitSInv, <1>1, SInvImpliesLedgered, PTL DEF Spec

(***************************************************************************)
(* The steps as the ledger sees them: a call goes on, ends, or writes a    *)
(* row.  Nothing stored or remembered is of the future.                    *)
(***************************************************************************)
Started == {"skipping"} \union HoldsMutex

\* The earliest a row of the call can be dated.
Ready(c) == IF pc[c] \in Started THEN call[c].startedAt ELSE now

\* Once past the guards a call is not refused; what it remembers and what is
\* stored is of the past.
ClockInv ==
    /\ IsFiniteSet(attempts)
    /\ \A r \in attempts : r.at <= now
    /\ \A c \in Calls :
          /\ call[c].guardsAt <= now /\ call[c].startedAt <= now
          /\ pc[c] \in {"planning"} \union Started => ~call[c].refused

BInv == TypeOK /\ ClockInv

Onward ==
    {<<"attempts", "hourly">>, <<"hourly", "daily">>, <<"daily", "planning">>,
     <<"planning", "skipping">>, <<"planning", "submitting">>, <<"submitting", "verifying">>,
     <<"submitting", "catch">>, <<"verifying", "recording">>, <<"recording", "catch">>}

\* A step of a call that writes no row: it goes on, or is over, or is refused.
Advances(c) ==
    /\ attempts' = attempts
    /\ \/ pc'[c] \in {"idle", "attempts"}
       \/ pc[c] = "catch" /\ pc'[c] = "finally" /\ call' = call
       \/ call'[c].refused /\ pc'[c] \in {"hourly", "daily"}
       \/ /\ ~call[c].refused /\ ~call'[c].refused /\ Incident(c)' = Incident(c) /\ Ready(c)' = Ready(c)
          /\ <<pc[c], pc'[c]>> \in Onward

\* A step that writes one: a caller whose write may have failed will write another.
Writes(c) ==
    \E part \in {"outcome", "fallback"}, status \in Statuses :
        /\ attempts' = attempts \union {RowOf(c, part, status)}
        /\ pc[c] = "catch" => part = "fallback"
        /\ \/ pc[c] = "skipping" /\ pc'[c] = "idle"
           \/ /\ call' = call
              /\ \/ <<pc[c], pc'[c]>> \in {<<"recording", "finally">>, <<"catch", "finally">>}
                 \/ c \in FaultyCalls /\ <<pc[c], pc'[c]>> = <<"recording", "catch">>

OneCall(c) ==
    /\ now' = now
    /\ \A d \in Calls \ {c} : pc'[d] = pc[d] /\ call'[d] = call[d]
    /\ Advances(c) \/ Writes(c)

LEMMA EveryStep ==
    ASSUME BInv, [Next]_vars
    PROVE  \/ now' = now + 1 /\ UNCHANGED <<pc, call, attempts>>
           \/ UNCHANGED <<now, pc, call, attempts>>
           \/ \E c \in Calls : OneCall(c)
<1>0. TypeOK /\ \A c \in Calls : pc[c] \in {"planning"} \union Started => ~call[c].refused
  BY DEF BInv, ClockInv
<1>1. ASSUME NEW c \in Calls, NEW i \in Incidents, Start(c, i)
      PROVE  OneCall(c)
  BY <1>0, <1>1 DEF TypeOK, Start, Goto, OneCall, Advances
<1>2. ASSUME NEW c \in Calls, NEW ok, NEW l, Check(c, ok), Goto(c, l), now' = now, attempts' = attempts,
             <<pc[c], l>> \in {<<"attempts", "hourly">>, <<"hourly", "daily">>}
      PROVE  OneCall(c)
  <2>1. /\ \A d \in Calls \ {c} : pc'[d] = pc[d] /\ call'[d] = call[d]
        /\ pc'[c] = l /\ call'[c].incident = call[c].incident
        /\ call'[c].refused \/ ~call[c].refused
    BY <1>0, <1>2 DEF Check, Goto, TypeOK, Local
  <2> QED
    BY <1>0, <1>2, <2>1 DEF OneCall, Advances, Onward, Ready, Started, HoldsMutex, Incident
<1>3. ASSUME NEW c \in Calls, Return(c), now' = now, attempts' = attempts
      PROVE  OneCall(c)
  BY <1>0, <1>3 DEF Return, Goto, TypeOK, OneCall, Advances
<1>4. ASSUME NEW c \in Calls, GuardDaily(c)
      PROVE  OneCall(c)
  <2>1. CASE Return(c)
    BY <1>0, <1>3, <1>4, <2>1 DEF GuardDaily
  <2>2. CASE ~call[c].refused /\ Goto(c, "planning") /\ UNCHANGED call
    BY <1>0, <1>4, <2>2 DEF GuardDaily, Goto, TypeOK, OneCall, Advances, Onward, Ready, Started, HoldsMutex, Incident
  <2> QED
    BY <1>0, <1>4, <2>1, <2>2 DEF GuardDaily
<1>5. ASSUME NEW c \in Calls, PlanSkips(c) \/ TakeMutex(c)
      PROVE  OneCall(c)
  <2>1. /\ \A d \in Calls \ {c} : pc'[d] = pc[d] /\ call'[d] = call[d]
        /\ pc[c] = "planning" /\ pc'[c] \in {"skipping", "submitting"}
        /\ call'[c].incident = call[c].incident /\ call'[c].startedAt = now
        /\ call'[c].refused = call[c].refused
        /\ now' = now /\ attempts' = attempts
    BY <1>0, <1>5 DEF PlanSkips, TakeMutex, Goto, TypeOK, Local
  <2> QED
    BY <1>0, <2>1 DEF OneCall, Advances, Onward, Ready, Started, HoldsMutex, Incident
<1>6. ASSUME NEW c \in Calls, SubmitAnswers(c) \/ SubmitThrows(c) \/ VerifyReceipt(c) \/ VerifyGivesUp(c)
      PROVE  OneCall(c)
  <2>1. /\ \A d \in Calls \ {c} : pc'[d] = pc[d] /\ call'[d] = call[d]
        /\ <<pc[c], pc'[c]>> \in {<<"submitting", "verifying">>, <<"submitting", "catch">>,
                                  <<"verifying", "recording">>}
        /\ call'[c].incident = call[c].incident /\ call'[c].startedAt = call[c].startedAt
        /\ call'[c].refused = call[c].refused
        /\ now' = now /\ attempts' = attempts
    BY <1>0, <1>6 DEF SubmitAnswers, SubmitThrows, VerifyReceipt, VerifyGivesUp, Goto, TypeOK, Local, chain
  <2> QED
    BY <1>0, <2>1 DEF OneCall, Advances, Onward, Ready, Started, HoldsMutex, Incident
<1>7. ASSUME NEW c \in Calls, RecordSkip(c)
      PROVE  OneCall(c)
  <2>1. /\ \A d \in Calls \ {c} : pc'[d] = pc[d] /\ call'[d] = call[d]
        /\ pc[c] = "skipping" /\ pc'[c] = "idle" /\ now' = now
    BY <1>0, <1>7 DEF RecordSkip, Return, Goto, TypeOK
  <2>2. attempts' = attempts \/ attempts' = attempts \union {RowOf(c, "outcome", "skipped")}
    BY <1>0, <1>7 DEF RecordSkip, Insert, InsertFails
  <2> QED
    BY <1>0, <2>1, <2>2 DEF OneCall, Advances, Writes, Statuses
<1>8. ASSUME NEW c \in Calls, RecordOutcome(c)
      PROVE  OneCall(c)
  <2>1. /\ \A d \in Calls \ {c} : pc'[d] = pc[d] /\ call'[d] = call[d]
        /\ call' = call /\ pc[c] = "recording" /\ now' = now
    BY <1>0, <1>8 DEF RecordOutcome, Goto, TypeOK
  <2>2. Verdict(c) \in Statuses
    BY DEF Verdict, Statuses
  <2>3. CASE attempts' = attempts \union {RowOf(c, "outcome", Verdict(c))} /\ pc'[c] = "finally"
    BY <1>0, <2>1, <2>2, <2>3 DEF OneCall, Writes
  <2>4. CASE /\ c \in FaultyCalls /\ pc'[c] = "catch"
             /\ attempts' = attempts \union {RowOf(c, "outcome", Verdict(c))}
    BY <1>0, <2>1, <2>2, <2>4 DEF OneCall, Writes
  <2>5. CASE pc'[c] = "catch" /\ attempts' = attempts
    BY <1>0, <2>1, <2>5 DEF OneCall, Advances, Onward, Ready, Started, HoldsMutex, Incident
  <2> QED
    BY <1>0, <1>8, <2>3, <2>4, <2>5 DEF RecordOutcome, Insert, InsertFails, Goto, TypeOK
<1>9. ASSUME NEW c \in Calls, RecordFailure(c)
      PROVE  OneCall(c)
  <2>1. /\ \A d \in Calls \ {c} : pc'[d] = pc[d] /\ call'[d] = call[d]
        /\ pc[c] = "catch" /\ pc'[c] = "finally" /\ now' = now /\ call' = call
    BY <1>0, <1>9 DEF RecordFailure, Goto, TypeOK
  <2>2. attempts' = attempts \/ attempts' = attempts \union {RowOf(c, "fallback", "failed")}
    BY <1>0, <1>9 DEF RecordFailure, Insert, InsertFails
  <2> QED
    BY <1>0, <2>1, <2>2 DEF OneCall, Advances, Writes, Statuses
<1>10. ASSUME NEW c \in Calls, Proceed(c)
       PROVE  OneCall(c)
  <2>1. CASE GuardAttempts(c)
    BY <1>0, <1>2, <2>1 DEF GuardAttempts
  <2>2. CASE GuardHourly(c)
    BY <1>0, <1>2, <2>2 DEF GuardHourly
  <2>3. CASE PlanThrows(c) \/ Finally(c)
    BY <1>0, <1>3, <2>3 DEF PlanThrows, Finally
  <2> QED
    BY <1>0, <1>4, <1>5, <1>6, <1>7, <1>8, <1>9, <1>10, <2>1, <2>2, <2>3 DEF Proceed
<1> QED
  BY <1>1, <1>10 DEF Next, Mine, Tick, vars

LEMMA InitBInv == Init => BInv
  BY InitTypeOK, FS_EmptySet DEF Init, BInv, ClockInv, Idle, Started, HoldsMutex

LEMMA StepBInv == BInv /\ [Next]_vars => BInv'
<1> SUFFICES ASSUME BInv, [Next]_vars
             PROVE  ClockInv'
  BY StepTypeOK DEF BInv
<1>1. TypeOK /\ ClockInv /\ TypeOK'
  BY StepTypeOK DEF BInv
<1>2. ASSUME NEW c \in Calls, NEW part, NEW status
      PROVE  RowOf(c, part, status).at = call[c].startedAt
  BY DEF RowOf
<1>3. now' \in Nat /\ now' >= now /\ \A c \in Calls : OneCall(c) => now' = now
  BY <1>1, EveryStep DEF TypeOK, OneCall
<1>4. IsFiniteSet(attempts') /\ \A r \in attempts' : r.at <= now'
  <2>1. \A r \in attempts : r.at \in Nat
    BY <1>1 DEF TypeOK, LedgerRow
  <2>2. ASSUME NEW c \in Calls, NEW part, NEW status, attempts' = attempts \union {RowOf(c, part, status)}
        PROVE  IsFiniteSet(attempts') /\ \A r \in attempts' : r.at <= now'
    <3>1. call[c].startedAt \in Nat /\ call[c].startedAt <= now /\ now \in Nat
      BY <1>1 DEF ClockInv, TypeOK, Local
    <3>2. IsFiniteSet(attempts')
      BY <1>1, <2>2, FS_AddElement DEF ClockInv
    <3> QED
      BY <1>1, <1>2, <1>3, <2>1, <2>2, <3>1, <3>2 DEF ClockInv, TypeOK
  <2>3. CASE attempts' = attempts
    BY <1>1, <1>3, <2>1, <2>3 DEF ClockInv, TypeOK
  <2> QED
    BY <1>1, <2>2, <2>3, EveryStep DEF OneCall, Advances, Writes
<1>5. ASSUME NEW c \in Calls
      PROVE  call'[c].guardsAt <= now' /\ call'[c].startedAt <= now'
  <2>1. call[c] \in Local /\ call[c].guardsAt <= now /\ call[c].startedAt <= now /\ now \in Nat
    BY <1>1 DEF ClockInv, TypeOK
  <2>2. \/ call'[c].guardsAt = call[c].guardsAt /\ call'[c].startedAt \in {call[c].startedAt, now}
        \/ call'[c].guardsAt \in {0, now} /\ call'[c].startedAt \in {0, now}
    <3>1. CASE call'[c] = call[c]
      BY <3>1
    <3>2. ASSUME NEW d \in Calls, NEW i \in Incidents, Start(d, i)
          PROVE  call'[c] = call[c] \/ (call'[c].guardsAt = now /\ call'[c].startedAt = now)
      BY <1>1, <3>2 DEF Start, TypeOK, Fresh
    <3>3. ASSUME NEW d \in Calls, Return(d)
          PROVE  call'[c] = call[c] \/ (call'[c].guardsAt = 0 /\ call'[c].startedAt = 0)
      BY <1>1, <3>3 DEF Return, TypeOK, Idle
    <3>4. ASSUME NEW d \in Calls, NEW ok, Check(d, ok)
          PROVE  call'[c].guardsAt = call[c].guardsAt /\ call'[c].startedAt = call[c].startedAt
      BY <1>1, <3>4 DEF Check, TypeOK, Local
    <3>5. ASSUME NEW d \in Calls, Proceed(d)
          PROVE  \/ call'[c].guardsAt = call[c].guardsAt
                    /\ call'[c].startedAt \in {call[c].startedAt, now}
                 \/ call'[c].guardsAt = 0 /\ call'[c].startedAt = 0
      <4>1. CASE GuardAttempts(d)
        BY <3>4, <4>1 DEF GuardAttempts
      <4>2. CASE GuardHourly(d)
        BY <3>4, <4>2 DEF GuardHourly
      <4>3. CASE GuardDaily(d) \/ PlanThrows(d) \/ RecordSkip(d) \/ Finally(d)
        BY <3>3, <4>3 DEF GuardDaily, PlanThrows, RecordSkip, Finally
      <4>4. CASE PlanSkips(d) \/ TakeMutex(d) \/ SubmitAnswers(d) \/ VerifyReceipt(d)
        BY <1>1, <4>4 DEF PlanSkips, TakeMutex, SubmitAnswers, VerifyReceipt, TypeOK, Local
      <4>5. CASE SubmitThrows(d) \/ VerifyGivesUp(d) \/ RecordOutcome(d) \/ RecordFailure(d)
        BY <4>5 DEF SubmitThrows, VerifyGivesUp, RecordOutcome, RecordFailure
      <4> QED
        BY <3>5, <4>1, <4>2, <4>3, <4>4, <4>5 DEF Proceed
    <3> QED
      BY <3>1, <3>2, <3>5 DEF Next, Mine, Tick, vars
  <2> QED
    BY <1>1, <1>3, <2>1, <2>2 DEF Local, TypeOK
<1>6. ASSUME NEW c \in Calls, pc'[c] \in {"planning"} \union Started
      PROVE  ~call'[c].refused
  <2>1. CASE pc'[c] = pc[c] /\ call'[c] = call[c]
    BY <1>1, <1>6, <2>1 DEF ClockInv
  <2>2. ASSUME NEW d \in Calls, OneCall(d)
        PROVE  ~call'[c].refused
    <3>1. CASE d # c
      BY <1>1, <1>6, <2>2, <3>1 DEF OneCall, ClockInv
    <3>2. CASE d = c
      <4>1. CASE Writes(c)
        BY <1>1, <1>6, <4>1 DEF Writes, ClockInv, Started, HoldsMutex
      <4>2. CASE Advances(c)
        BY <1>1, <1>6, <4>2 DEF Advances, ClockInv, Started, HoldsMutex
      <4> QED
        BY <2>2, <3>2, <4>1, <4>2 DEF OneCall
    <3> QED
      BY <3>1, <3>2
  <2> QED
    BY <1>1, <2>1, <2>2, EveryStep
<1> QED
  BY <1>4, <1>5, <1>6 DEF ClockInv

(***************************************************************************)
(* What is in a window of the ledger and what the calls at work may add.   *)
(***************************************************************************)

\* A call may write one row, or two where the write of the first may fail; one of
\* them carries the gas.
RowSlots == (Calls \X {1}) \union (FaultyCalls \X {2})
GasSlots == Calls \X {2}

AfterDaily == {"planning"} \union Started
AfterHourly == {"daily"} \union AfterDaily
AfterAttempts == {"hourly"} \union AfterHourly

\* A window that only moves forward.
Windows == {from \in [Nat -> Nat] : /\ \A t \in Nat : from[t] <= t
                                    /\ \A t, u \in Nat : t <= u => from[t] <= from[u]}

RowsIn(K, G, from, t) == {r \in attempts : r \in K /\ r.incident \in G /\ r.at \in from[t]..t}

MayWrite(x, S, G) ==
    /\ pc[x[1]] \in S \ {"finally"} /\ ~call[x[1]].refused /\ Incident(x[1]) \in G
    /\ x[2] = 2 => pc[x[1]] # "catch"

SlotsIn(P, S, G, from, t) == {x \in P : MayWrite(x, S, G) /\ Ready(x[1]) \in from[t]..t}

Load(K, P, S, G, from, t) ==
    Cardinality(RowsIn(K, G, from, t)) + Cardinality(SlotsIn(P, S, G, from, t))

\* The step on which a guard lets a call through.
Enters(c, S) == OneCall(c) /\ pc[c] \notin S /\ pc'[c] \in S /\ ~call'[c].refused /\ attempts' = attempts

\* Whoever writes a row that counts gives up a slot for it.
RowsTakeSlots(K, P) ==
    \A c \in Calls, part \in {"outcome", "fallback"}, status \in Statuses :
        LET row == RowOf(c, part, status) IN
        row \in K /\ (pc[c] = "catch" => part = "fallback") =>
            /\ pc[c] \in {"skipping", "recording", "catch"} => <<c, 1>> \in P \/ <<c, 2>> \in P
            /\ <<c, 1>> \notin P => pc[c] # "catch"
            /\ c \in FaultyCalls => pc[c] = "catch" \/ <<c, 2>> \in P

LEMMA LoadsAreNumbers ==
    ASSUME BInv, NEW K, NEW P \in {RowSlots, GasSlots}, NEW S, NEW G, NEW from, NEW t
    PROVE  /\ IsFiniteSet(P) /\ IsFiniteSet(RowsIn(K, G, from, t)) /\ IsFiniteSet(SlotsIn(P, S, G, from, t))
           /\ Cardinality(RowsIn(K, G, from, t)) \in Nat
           /\ Cardinality(SlotsIn(P, S, G, from, t)) \in Nat
           /\ Load(K, P, S, G, from, t) \in Nat
<1>1. IsFiniteSet({1}) /\ IsFiniteSet({2}) /\ IsFiniteSet(Calls) /\ IsFiniteSet(FaultyCalls)
  BY IncidentAssumption, ConfigAssumption, FS_Singleton, FS_Subset
<1>2. IsFiniteSet(P)
  <2>1. IsFiniteSet(Calls \X {1}) /\ IsFiniteSet(FaultyCalls \X {2}) /\ IsFiniteSet(Calls \X {2})
    BY <1>1, FS_Product
  <2>2. IsFiniteSet(RowSlots)
    BY <2>1, FS_Union DEF RowSlots
  <2> QED
    BY <2>1, <2>2 DEF GasSlots
<1>3. IsFiniteSet(RowsIn(K, G, from, t))
  BY FS_Subset DEF RowsIn, BInv, ClockInv
<1>4. IsFiniteSet(SlotsIn(P, S, G, from, t))
  BY <1>2, FS_Subset DEF SlotsIn
<1> QED
  BY <1>2, <1>3, <1>4, FS_CardinalityType DEF Load

LEMMA LoadMoves ==
    ASSUME BInv, [Next]_vars, NEW K, NEW P \in {RowSlots, GasSlots}, RowsTakeSlots(K, P),
           NEW S, AfterDaily \subseteq S, S \subseteq AfterAttempts,
           NEW G, NEW from \in Windows, NEW t \in 0..now'
    PROVE  \/ \E u \in 0..now : Load(K, P, S, G, from, t)' <= Load(K, P, S, G, from, u)
           \/ t = now /\ \E c \in Calls : Enters(c, S) /\ Incident(c)' \in G
<1> DEFINE R(u) == RowsIn(K, G, from, u)
           O(u) == SlotsIn(P, S, G, from, u)
<1>0. BInv' /\ TypeOK /\ now \in Nat /\ now' \in Nat
  BY StepBInv DEF BInv, TypeOK
<1>1. ASSUME NEW u \in 0..now, R(t)' \subseteq R(u), O(t)' \subseteq O(u)
      PROVE  Load(K, P, S, G, from, t)' <= Load(K, P, S, G, from, u)
  <2>1. /\ IsFiniteSet(R(u)) /\ IsFiniteSet(O(u)) /\ Cardinality(R(u)) \in Nat /\ Cardinality(O(u)) \in Nat
    BY LoadsAreNumbers
  <2>2. Cardinality(R(t)') \in Nat /\ Cardinality(O(t)') \in Nat
        /\ Load(K, P, S, G, from, t)' = Cardinality(R(t)') + Cardinality(O(t)')
    <3>1. IsFiniteSet(R(t)') /\ IsFiniteSet(O(t)')
      BY <1>1, <2>1, FS_Subset
    <3> QED
      BY <3>1, FS_CardinalityType DEF Load
  <2>3. Cardinality(R(t)') <= Cardinality(R(u)) /\ Cardinality(O(t)') <= Cardinality(O(u))
    BY <1>1, <2>1, FS_Subset
  <2> HIDE DEF R, O
  <2>4. Load(K, P, S, G, from, u) = Cardinality(R(u)) + Cardinality(O(u))
    BY DEF Load, R, O
  <2> QED
    BY <2>1, <2>2, <2>3, <2>4
<1>2. CASE UNCHANGED <<now, pc, call, attempts>>
  <2>1. R(t)' = R(t) /\ O(t)' = O(t)
    BY <1>2 DEF RowsIn, SlotsIn, MayWrite, Ready, Incident
  <2> QED
    BY <1>1, <1>2, <2>1
<1>3. CASE now' = now + 1 /\ UNCHANGED <<pc, call, attempts>>
  <2>1. PICK u \in 0..now : u = (IF t <= now THEN t ELSE now)
    BY <1>0, <1>3
  <2>2. t \in Nat /\ u \in Nat /\ from[t] \in Nat /\ from[u] \in Nat /\ from[u] <= from[t] /\ u <= t
        /\ from[now] <= now /\ from[now] \in Nat
    BY <1>0, <1>3, <2>1 DEF Windows
  <2>3. R(t)' \subseteq R(u)
    <3>1. \A r \in attempts : r.at \in Nat /\ r.at <= now
      BY <1>0 DEF BInv, ClockInv, TypeOK, LedgerRow
    <3> QED
      BY <1>0, <1>3, <2>1, <2>2, <3>1 DEF RowsIn
  <2>4. O(t)' \subseteq O(u)
    <3>1. \A c \in Calls : call[c].startedAt \in Nat /\ call[c].startedAt <= now
      BY <1>0 DEF BInv, ClockInv, TypeOK, Local
    <3>2. \A x \in P : x[1] \in Calls
      BY ConfigAssumption DEF RowSlots, GasSlots
    <3>3. ASSUME NEW x \in P, MayWrite(x, S, G)', Ready(x[1])' \in from[t]..t
          PROVE  MayWrite(x, S, G) /\ Ready(x[1]) \in from[u]..u
      <4>1. MayWrite(x, S, G)
        BY <1>3, <3>3 DEF MayWrite, Incident
      <4>2. CASE pc[x[1]] \in Started
        BY <1>0, <1>3, <2>1, <2>2, <3>1, <3>2, <3>3, <4>1, <4>2 DEF Ready
      <4>3. CASE pc[x[1]] \notin Started
        BY <1>0, <1>3, <2>1, <2>2, <3>3, <4>1, <4>3 DEF Ready
      <4> QED
        BY <4>2, <4>3
    <3> QED
      BY <3>3 DEF SlotsIn
  <2> QED
    BY <1>1, <2>3, <2>4
<1>4. ASSUME NEW c \in Calls, OneCall(c), ~(t = now /\ Enters(c, S) /\ Incident(c)' \in G)
      PROVE  \E u \in 0..now : Load(K, P, S, G, from, t)' <= Load(K, P, S, G, from, u)
  <2>1. now' = now /\ t \in 0..now /\ t \in Nat
    BY <1>0, <1>4 DEF OneCall
  <2>2. \A x \in P : x[1] \in Calls /\ x[2] \in {1, 2}
    BY ConfigAssumption DEF RowSlots, GasSlots
  <2>3. ASSUME NEW x \in P, x[1] # c
        PROVE  x \in O(t)' <=> x \in O(t)
    BY <1>4, <2>1, <2>2, <2>3 DEF OneCall, SlotsIn, MayWrite, Ready, Incident
  <2>4. CASE Advances(c)
    <3>1. R(t)' = R(t)
      BY <2>4 DEF RowsIn, Advances
    <3>2. ASSUME NEW x \in P, x[1] = c, x \in O(t)'
          PROVE  x \in O(t)
      <4>1. /\ pc'[c] \in S \ {"finally"} /\ ~call'[c].refused /\ Incident(c)' \in G
            /\ x[2] = 2 => pc'[c] # "catch"
            /\ Ready(c)' \in from[t]..t
        BY <3>2 DEF SlotsIn, MayWrite
      <4>2. /\ ~call[c].refused /\ Incident(c)' = Incident(c) /\ Ready(c)' = Ready(c)
            /\ <<pc[c], pc'[c]>> \in Onward
        BY <2>4, <4>1 DEF Advances, AfterAttempts, AfterHourly, AfterDaily, Started, HoldsMutex
      <4>3. pc[c] \in S
        <5>1. SUFFICES ASSUME pc[c] \notin S
                       PROVE  FALSE
          OBVIOUS
        <5>2. Enters(c, S)
          BY <1>4, <2>4, <4>1, <5>1 DEF Enters, Advances
        <5>3. t # now
          BY <1>4, <4>1, <5>2
        <5>4. pc[c] \notin Started
          BY <5>1 DEF AfterDaily
        <5>5. Ready(c)' = now
          BY <4>2, <5>4 DEF Ready
        <5> QED
          BY <2>1, <4>1, <5>3, <5>5, <1>0 DEF Windows
      <4>4. pc[c] # "finally" /\ (x[2] = 2 => pc[c] # "catch")
        BY <4>2 DEF Onward
      <4> QED
        BY <3>2, <4>1, <4>2, <4>3, <4>4 DEF SlotsIn, MayWrite
    <3>3. O(t)' \subseteq O(t)
      BY <2>3, <3>2 DEF SlotsIn
    <3> QED
      BY <1>1, <2>1, <3>1, <3>3
  <2>5. CASE Writes(c)
    <3>1. PICK part \in {"outcome", "fallback"}, status \in Statuses :
            /\ attempts' = attempts \union {RowOf(c, part, status)}
            /\ pc[c] = "catch" => part = "fallback"
            /\ \/ pc[c] = "skipping" /\ pc'[c] = "idle"
               \/ /\ call' = call
                  /\ \/ <<pc[c], pc'[c]>> \in {<<"recording", "finally">>, <<"catch", "finally">>}
                     \/ c \in FaultyCalls /\ <<pc[c], pc'[c]>> = <<"recording", "catch">>
      BY <2>5 DEF Writes
    <3> DEFINE row == RowOf(c, part, status)
    <3>2. row.incident = Incident(c) /\ row.at = call[c].startedAt /\ pc[c] \in Started \cap S
          /\ pc[c] # "finally"
      BY <3>1 DEF RowOf, AfterDaily, Started, HoldsMutex
    <3>3. ~call[c].refused /\ Ready(c) = call[c].startedAt
      BY <3>2 DEF BInv, ClockInv, Ready
    <3>4. ASSUME NEW x \in P, x[1] = c, x \in O(t)'
          PROVE  x \in O(t) /\ pc'[c] = "catch" /\ x[2] # 2
      <4>1. /\ pc'[c] \in S \ {"finally"} /\ (x[2] = 2 => pc'[c] # "catch")
            /\ Incident(c)' \in G /\ Ready(c)' \in from[t]..t
        BY <3>4 DEF SlotsIn, MayWrite
      <4>2. pc'[c] = "catch" /\ call' = call /\ pc[c] = "recording"
        BY <3>1, <4>1 DEF AfterAttempts, AfterHourly, AfterDaily, Started, HoldsMutex
      <4>3. Incident(c)' = Incident(c) /\ Ready(c)' = Ready(c)
        BY <4>2, <3>3 DEF Incident, Ready, Started, HoldsMutex
      <4> QED
        BY <3>2, <3>3, <3>4, <4>1, <4>2, <4>3 DEF SlotsIn, MayWrite
    <3>5. O(t)' \subseteq O(t)
      BY <2>3, <3>4 DEF SlotsIn
    <3>6. R(t)' \subseteq R(t) \union {row}
      BY <3>1 DEF RowsIn
    <3>7. CASE row \notin R(t)'
      BY <1>1, <2>1, <3>5, <3>6, <3>7
    <3>8. CASE row \in R(t)'
      <4>1. row \in K /\ Incident(c) \in G /\ Ready(c) \in from[t]..t
        BY <3>2, <3>3, <3>8 DEF RowsIn
      <4>2. PICK x \in P : x[1] = c /\ (x[2] = 2 => pc[c] # "catch") /\ (x[2] = 2 \/ pc'[c] # "catch")
        <5>1. /\ <<c, 1>> \in P \/ <<c, 2>> \in P
              /\ <<c, 1>> \notin P => pc[c] # "catch"
              /\ c \in FaultyCalls => pc[c] = "catch" \/ <<c, 2>> \in P
          BY <3>1, <4>1 DEF RowsTakeSlots
        <5>2. CASE pc[c] = "recording" /\ pc'[c] = "catch"
          BY <3>1, <5>1, <5>2
        <5>3. CASE pc'[c] # "catch"
          BY <5>1, <5>3
        <5> QED
          BY <3>1, <5>2, <5>3
      <4>3. x \in O(t)
        BY <3>2, <3>3, <4>1, <4>2 DEF SlotsIn, MayWrite
      <4>4. x \notin O(t)'
        BY <3>4, <4>2
      <4> HIDE DEF row
      <4> DEFINE rows == R(t)
                 slots == O(t)
      <4>5. IsFiniteSet(rows) /\ IsFiniteSet(slots) /\ Cardinality(rows) \in Nat /\ Cardinality(slots) \in Nat
        BY LoadsAreNumbers
      <4>6. Load(K, P, S, G, from, t) = Cardinality(rows) + Cardinality(slots)
        BY DEF Load
      <4>7. Load(K, P, S, G, from, t)' = Cardinality(R(t)') + Cardinality(O(t)')
        BY DEF Load
      <4>8. R(t)' \subseteq rows \union {row} /\ O(t)' \subseteq slots \ {x} /\ x \in slots
        BY <3>5, <3>6, <4>3, <4>4
      <4> HIDE DEF rows, slots, R, O
      <4>9. IsFiniteSet(rows \union {row}) /\ Cardinality(rows \union {row}) <= Cardinality(rows) + 1
            /\ Cardinality(rows \union {row}) \in Nat
        <5>1. /\ IsFiniteSet(rows \union {row})
              /\ Cardinality(rows \union {row}) =
                    IF row \in rows THEN Cardinality(rows) ELSE Cardinality(rows) + 1
          BY <4>5, FS_AddElement
        <5> QED
          BY <4>5, <5>1
      <4>10. IsFiniteSet(slots \ {x}) /\ Cardinality(slots \ {x}) = Cardinality(slots) - 1
             /\ Cardinality(slots \ {x}) \in Nat
        BY <4>5, <4>8, FS_RemoveElement, FS_CardinalityType
      <4>11. /\ Cardinality(R(t)') <= Cardinality(rows) + 1 /\ Cardinality(R(t)') \in Nat
        BY <4>5, <4>8, <4>9, FS_Subset, FS_CardinalityType
      <4>12. /\ Cardinality(O(t)') <= Cardinality(slots) - 1 /\ Cardinality(O(t)') \in Nat
        BY <4>5, <4>8, <4>10, FS_Subset, FS_CardinalityType
      <4> QED
        BY <2>1, <4>5, <4>6, <4>7, <4>11, <4>12
    <3> QED
      BY <3>7, <3>8
  <2> QED
    BY <1>4, <2>4, <2>5 DEF OneCall
<1> QED
  BY <1>2, <1>3, <1>4, EveryStep

\* One row in a window for a slot, whatever the other windows hold: what enters is
\* bounded by what its guard read and the slots there are.
LEMMA LoadIsBounded ==
    ASSUME BInv, [Next]_vars, NEW K, NEW P \in {RowSlots, GasSlots}, RowsTakeSlots(K, P),
           NEW S, AfterDaily \subseteq S, S \subseteq AfterAttempts,
           NEW G, NEW from \in Windows, NEW t \in 0..now'
    PROVE  \/ \E u \in 0..now : Load(K, P, S, G, from, t)' <= Load(K, P, S, G, from, u)
           \/ /\ \E c \in Calls : Enters(c, S) /\ Incident(c)' \in G
              /\ Load(K, P, S, G, from, t)' <= Cardinality(RowsIn(K, G, from, now)) + Cardinality(P)
<1>1. CASE \E u \in 0..now : Load(K, P, S, G, from, t)' <= Load(K, P, S, G, from, u)
  BY <1>1
<1>2. ASSUME t = now, NEW c \in Calls, Enters(c, S), Incident(c)' \in G
      PROVE  Load(K, P, S, G, from, t)' <= Cardinality(RowsIn(K, G, from, now)) + Cardinality(P)
  <2> DEFINE rows == RowsIn(K, G, from, now)
             slots == SlotsIn(P, S, G, from, t)'
  <2>1. RowsIn(K, G, from, t)' = rows
    BY <1>2 DEF RowsIn, Enters
  <2>2. slots \subseteq P
    BY DEF SlotsIn
  <2>3. IsFiniteSet(P) /\ Cardinality(rows) \in Nat
    BY LoadsAreNumbers
  <2>4. Load(K, P, S, G, from, t)' = Cardinality(rows) + Cardinality(slots)
    BY <2>1 DEF Load
  <2> HIDE DEF rows, slots
  <2>5. Cardinality(slots) \in Nat /\ Cardinality(P) \in Nat /\ Cardinality(slots) <= Cardinality(P)
    BY <2>2, <2>3, FS_Subset, FS_CardinalityType
  <2> QED
    BY <2>3, <2>4, <2>5 DEF rows
<1> QED
  BY <1>1, <1>2, LoadMoves

Everything == [t \in Nat |-> 0]
HourBefore == [t \in Nat |-> Since(t, Hour)]
DayBefore == [t \in Nat |-> Since(t, Day)]

LEMMA TheseAreWindows ==
    Everything \in Windows /\ HourBefore \in Windows /\ DayBefore \in Windows
BY ConfigAssumption DEF Everything, HourBefore, DayBefore, Windows, Since

OfSigner(s) == {i \in Incidents : SignerOf[i] = s}
OfAgent(a) == {i \in Incidents : AgentOf[i] = a}
Paying == {r \in LedgerRow : r.gas > 0}

LEMMA SlotsAreEnough == TypeOK => RowsTakeSlots(LedgerRow, RowSlots) /\ RowsTakeSlots(Paying, GasSlots)
<1>1. RowsTakeSlots(LedgerRow, RowSlots)
  BY DEF RowsTakeSlots, RowSlots
<1>2. ASSUME TypeOK
      PROVE  RowsTakeSlots(Paying, GasSlots)
  BY <1>2 DEF RowsTakeSlots, GasSlots, Paying, RowOf
<1> QED
  BY <1>1, <1>2

LEMMA SlotsAreCounted ==
    /\ Cardinality(Calls) \in Nat \ {0} /\ Cardinality(FaultyCalls) \in Nat
    /\ Cardinality(RowSlots) = Overshoot /\ Cardinality(GasSlots) = Cardinality(Calls)
<1>1. IsFiniteSet(Calls) /\ IsFiniteSet(FaultyCalls) /\ IsFiniteSet({1}) /\ IsFiniteSet({2})
      /\ Cardinality({1}) = 1 /\ Cardinality({2}) = 1
  BY IncidentAssumption, ConfigAssumption, FS_Singleton, FS_Subset
<1>2. Cardinality(Calls) \in Nat /\ Cardinality(FaultyCalls) \in Nat /\ Cardinality(Calls) # 0
  BY <1>1, IncidentAssumption, FS_CardinalityType, FS_EmptySet
<1>3. /\ IsFiniteSet(Calls \X {1}) /\ Cardinality(Calls \X {1}) = Cardinality(Calls)
      /\ IsFiniteSet(Calls \X {2}) /\ Cardinality(Calls \X {2}) = Cardinality(Calls)
      /\ IsFiniteSet(FaultyCalls \X {2}) /\ Cardinality(FaultyCalls \X {2}) = Cardinality(FaultyCalls)
  <2>1. ASSUME NEW A, IsFiniteSet(A), NEW n, IsFiniteSet({n}), Cardinality({n}) = 1
        PROVE  IsFiniteSet(A \X {n}) /\ Cardinality(A \X {n}) = Cardinality(A)
    <3>1. IsFiniteSet(A \X {n}) /\ Cardinality(A \X {n}) = Cardinality(A) * 1
      BY <2>1, FS_Product
    <3>2. Cardinality(A) \in Nat
      BY <2>1, FS_CardinalityType
    <3> QED
      BY <3>1, <3>2
  <2> QED
    BY <1>1, <2>1
<1>4. (Calls \X {1}) \cap (FaultyCalls \X {2}) = {}
  OBVIOUS
<1>5. Cardinality(RowSlots) = Cardinality(Calls) + Cardinality(FaultyCalls) - 0
  BY <1>3, <1>4, FS_Union, FS_EmptySet DEF RowSlots
<1> QED
  BY <1>2, <1>3, <1>5 DEF GasSlots, Overshoot

\* What a guard has read when it lets a call through.
LEMMA GuardsRead ==
    ASSUME BInv, [Next]_vars, NEW c \in Calls
    PROVE  /\ Enters(c, AfterAttempts) => Cardinality(AttemptsForIncident(Incident(c)')) < MaxAttempts
           /\ Enters(c, AfterHourly) =>
                LET spend == SpendSince(SignerOf[Incident(c)'], Since(call[c].guardsAt, Hour)) IN
                Cardinality(spend) < MaxPerHour /\ GasOf(spend) < MaxGasPerHour
           /\ Enters(c, AfterDaily) =>
                Cardinality(SpendForAgent(AgentOf[Incident(c)'], Since(call[c].guardsAt, Day)))
                    < MaxPerDayPerAgent
<1>0. TypeOK
  BY DEF BInv
<1>1. ASSUME NEW S, AfterDaily \subseteq S, S \subseteq AfterAttempts, Enters(c, S)
      PROVE  /\ GuardAttempts(c) \/ GuardHourly(c) \/ GuardDaily(c)
             /\ <<pc[c], pc'[c]>> \in {<<"attempts", "hourly">>, <<"hourly", "daily">>, <<"daily", "planning">>}
  <2>1. pc'[c] # pc[c] /\ pc'[c] \in AfterAttempts /\ pc[c] \notin AfterDaily
    BY <1>1 DEF Enters
  <2>2. PICK d \in Calls : Proceed(d) \/ \E i \in Incidents : Start(d, i)
    BY <2>1 DEF Next, Mine, Tick, vars
  <2>3. d = c
    BY <1>0, <2>1, <2>2 DEF Proceed, Start, GuardAttempts, GuardHourly, GuardDaily, PlanThrows,
           PlanSkips, RecordSkip, TakeMutex, SubmitAnswers, SubmitThrows, VerifyReceipt,
           VerifyGivesUp, RecordOutcome, RecordFailure, Finally, Return, Goto, TypeOK
  <2>4. ~\E i \in Incidents : Start(c, i)
    BY <1>0, <2>1 DEF Start, Goto, TypeOK, AfterAttempts, AfterHourly, AfterDaily, Started, HoldsMutex
  <2>5. pc'[c] # "idle"
    BY <2>1 DEF AfterAttempts, AfterHourly, AfterDaily, Started, HoldsMutex
  <2>6. GuardAttempts(c) \/ GuardHourly(c) \/ GuardDaily(c)
    BY <1>0, <2>1, <2>2, <2>3, <2>4, <2>5
    DEF Proceed, PlanThrows, PlanSkips, RecordSkip, TakeMutex, SubmitAnswers, SubmitThrows,
        VerifyReceipt, VerifyGivesUp, RecordOutcome, RecordFailure, Finally, Return, Goto,
        AfterDaily, Started, HoldsMutex, TypeOK
  <2> QED
    BY <1>0, <2>5, <2>6 DEF GuardAttempts, GuardHourly, GuardDaily, Return, Goto, TypeOK
<1>2. AfterDaily \subseteq AfterHourly /\ AfterHourly \subseteq AfterAttempts
  BY DEF AfterHourly, AfterAttempts
<1>3. ASSUME Enters(c, AfterAttempts)
      PROVE  Cardinality(AttemptsForIncident(Incident(c)')) < MaxAttempts
  <2>1. GuardAttempts(c) /\ ~call'[c].refused
    BY <1>1, <1>2, <1>3 DEF Enters, GuardHourly, GuardDaily, AfterHourly, AfterAttempts, AfterDaily
  <2>2. call'[c].incident = call[c].incident
        /\ Cardinality(AttemptsForIncident(Incident(c))) < MaxAttempts
    BY <1>0, <2>1 DEF GuardAttempts, Check, TypeOK, Local
  <2> QED
    BY <2>2 DEF Incident
<1>4. ASSUME Enters(c, AfterHourly)
      PROVE  LET spend == SpendSince(SignerOf[Incident(c)'], Since(call[c].guardsAt, Hour)) IN
             Cardinality(spend) < MaxPerHour /\ GasOf(spend) < MaxGasPerHour
  <2>1. GuardHourly(c) /\ ~call'[c].refused
    BY <1>1, <1>2, <1>4 DEF Enters, GuardAttempts, GuardDaily, AfterHourly, AfterAttempts, AfterDaily,
                            Started, HoldsMutex
  <2>2. /\ call'[c].incident = call[c].incident
        /\ LET spend == SpendSince(Signer(c), Since(call[c].guardsAt, Hour)) IN
           Cardinality(spend) < MaxPerHour /\ GasOf(spend) < MaxGasPerHour
    BY <1>0, <2>1 DEF GuardHourly, Check, TypeOK, Local
  <2> QED
    BY <2>2 DEF Incident, Signer
<1>5. ASSUME Enters(c, AfterDaily)
      PROVE  Cardinality(SpendForAgent(AgentOf[Incident(c)'], Since(call[c].guardsAt, Day)))
                 < MaxPerDayPerAgent
  <2>1. GuardDaily(c) /\ pc'[c] = "planning"
    BY <1>1, <1>2, <1>5 DEF Enters, GuardAttempts, GuardHourly, AfterDaily, Started, HoldsMutex
  <2>2. UNCHANGED call
    BY <1>0, <2>1 DEF GuardDaily, Return, Goto, TypeOK
  <2>3. Cardinality(SpendForAgent(Agent(c), Since(call[c].guardsAt, Day))) < MaxPerDayPerAgent
    BY <1>0, <2>1 DEF GuardDaily, Return, Goto, TypeOK
  <2> QED
    BY <2>2, <2>3 DEF Agent, Incident
<1> QED
  BY <1>3, <1>4, <1>5

(***************************************************************************)
(* The budgets.                                                            *)
(***************************************************************************)

\* A ceiling the guard enforces on what it reads, a row weighing w, holds of the
\* load of every window up to one row for a slot.
LEMMA CeilingIsKept ==
    ASSUME BInv, [Next]_vars, NEW K, NEW P \in {RowSlots, GasSlots}, RowsTakeSlots(K, P),
           NEW S, AfterDaily \subseteq S, S \subseteq AfterAttempts,
           NEW G, NEW from \in Windows, NEW w \in Nat, NEW ceiling \in Nat,
           \A u \in 0..now : w * Load(K, P, S, G, from, u) < ceiling + Cardinality(P) * w,
           \A c \in Calls : Enters(c, S) /\ Incident(c)' \in G =>
                                w * Cardinality(RowsIn(K, G, from, now)) < ceiling
    PROVE  \A t \in 0..now' : w * Load(K, P, S, G, from, t)' < ceiling + Cardinality(P) * w
<1> SUFFICES ASSUME NEW t \in 0..now'
             PROVE  w * Load(K, P, S, G, from, t)' < ceiling + Cardinality(P) * w
  OBVIOUS
<1> DEFINE load == Load(K, P, S, G, from, t)'
           size == Cardinality(P)
           read == Cardinality(RowsIn(K, G, from, now))
<1>1. load \in Nat /\ size \in Nat /\ read \in Nat
  <2>1. BInv' /\ IsFiniteSet(P)
    BY StepBInv, LoadsAreNumbers
  <2>2. IsFiniteSet(RowsIn(K, G, from, t)') /\ IsFiniteSet(SlotsIn(P, S, G, from, t)')
    <3>1. IsFiniteSet(attempts')
      BY <2>1 DEF BInv, ClockInv
    <3> QED
      BY <2>1, <3>1, FS_Subset DEF RowsIn, SlotsIn
  <2> QED
    BY <2>1, <2>2, LoadsAreNumbers, FS_CardinalityType DEF Load
<1>2. \A a, b \in Nat : a <= b => w * a <= w * b
  OBVIOUS
<1>3. CASE \E u \in 0..now : load <= Load(K, P, S, G, from, u)
  <2>1. PICK u \in 0..now : load <= Load(K, P, S, G, from, u)
    BY <1>3
  <2>2. Load(K, P, S, G, from, u) \in Nat
    BY LoadsAreNumbers
  <2>3. w * load <= w * Load(K, P, S, G, from, u)
    BY <1>1, <1>2, <2>1, <2>2
  <2>4. w * Load(K, P, S, G, from, u) < ceiling + size * w
    OBVIOUS
  <2> HIDE DEF load, size
  <2> DEFINE other == Load(K, P, S, G, from, u)
  <2>5. other \in Nat
    BY <2>2
  <2> HIDE DEF other
  <2>6. w * load \in Nat /\ w * other \in Nat /\ size * w \in Nat
    BY <1>1, <2>5
  <2>7. w * load < ceiling + size * w
    BY <2>3, <2>4, <2>6 DEF other
  <2> QED
    BY <2>7 DEF load, size
<1>4. CASE /\ \E c \in Calls : Enters(c, S) /\ Incident(c)' \in G
           /\ load <= read + size
  <2>1. w * read < ceiling
    BY <1>4
  <2> HIDE DEF load, size, read
  <2>2. w * load <= w * (read + size)
    BY <1>1, <1>2, <1>4
  <2>3. w * (read + size) = w * read + size * w
    BY <1>1
  <2>4. w * load \in Nat /\ w * read \in Nat /\ size * w \in Nat
    BY <1>1
  <2>5. w * load < ceiling + size * w
    BY <2>1, <2>2, <2>3, <2>4
  <2> QED
    BY <2>5 DEF load, size
<1> QED
  BY <1>3, <1>4, LoadIsBounded

\* Every ceiling of evaluateGuards, for every window there has been and counting
\* what the calls past the guard may still write.
BudgetInv ==
    /\ BInv
    /\ \A i \in Incidents, t \in 0..now :
          1 * Load(LedgerRow, RowSlots, AfterAttempts, {i}, Everything, t)
            < MaxAttempts + Cardinality(RowSlots) * 1
    /\ \A s \in Signers, t \in 0..now :
          /\ 1 * Load(LedgerRow, RowSlots, AfterHourly, OfSigner(s), HourBefore, t)
                < MaxPerHour + Cardinality(RowSlots) * 1
          /\ GasPerTx * Load(Paying, GasSlots, AfterHourly, OfSigner(s), HourBefore, t)
                < MaxGasPerHour + Cardinality(GasSlots) * GasPerTx
    /\ \A a \in Agents, t \in 0..now :
          1 * Load(LedgerRow, RowSlots, AfterDaily, OfAgent(a), DayBefore, t)
            < MaxPerDayPerAgent + Cardinality(RowSlots) * 1

LEMMA InitBudgetInv == Init => BudgetInv
<1> SUFFICES ASSUME Init PROVE BudgetInv
  OBVIOUS
<1>1. BInv /\ attempts = {} /\ \A c \in Calls : pc[c] = "idle"
  BY InitBInv DEF Init
<1>2. ASSUME NEW K, NEW P \in {RowSlots, GasSlots}, NEW S, AfterDaily \subseteq S, S \subseteq AfterAttempts,
             NEW G, NEW from, NEW t
      PROVE  Load(K, P, S, G, from, t) = 0
  <2>1. "idle" \notin S
    BY <1>2 DEF AfterAttempts, AfterHourly, AfterDaily, Started, HoldsMutex
  <2>2. \A x \in P : x[1] \in Calls
    BY ConfigAssumption DEF RowSlots, GasSlots
  <2>3. RowsIn(K, G, from, t) = {} /\ SlotsIn(P, S, G, from, t) = {}
    BY <1>1, <2>1, <2>2 DEF RowsIn, SlotsIn, MayWrite
  <2> QED
    BY <2>3, FS_EmptySet DEF Load
<1>3. AfterDaily \subseteq AfterHourly /\ AfterHourly \subseteq AfterAttempts
  BY DEF AfterHourly, AfterAttempts
<1>4. /\ Cardinality(RowSlots) \in Nat \ {0} /\ Cardinality(GasSlots) \in Nat \ {0}
  BY SlotsAreCounted DEF Overshoot
<1>5. GasPerTx * 0 = 0 /\ Cardinality(GasSlots) * GasPerTx \in Nat \ {0}
  BY <1>4, ConfigAssumption
<1>6. ASSUME NEW i \in Incidents, NEW t \in 0..now
      PROVE  1 * Load(LedgerRow, RowSlots, AfterAttempts, {i}, Everything, t)
               < MaxAttempts + Cardinality(RowSlots) * 1
  <2>1. Load(LedgerRow, RowSlots, AfterAttempts, {i}, Everything, t) = 0
    BY <1>2, <1>3
  <2> QED
    BY <1>4, <2>1, ConfigAssumption
<1>7. ASSUME NEW s \in Signers, NEW t \in 0..now
      PROVE  /\ 1 * Load(LedgerRow, RowSlots, AfterHourly, OfSigner(s), HourBefore, t)
                   < MaxPerHour + Cardinality(RowSlots) * 1
             /\ GasPerTx * Load(Paying, GasSlots, AfterHourly, OfSigner(s), HourBefore, t)
                   < MaxGasPerHour + Cardinality(GasSlots) * GasPerTx
  <2>1. /\ Load(LedgerRow, RowSlots, AfterHourly, OfSigner(s), HourBefore, t) = 0
        /\ Load(Paying, GasSlots, AfterHourly, OfSigner(s), HourBefore, t) = 0
    BY <1>2, <1>3
  <2>2. GasPerTx * Load(Paying, GasSlots, AfterHourly, OfSigner(s), HourBefore, t) = 0
    BY <1>5, <2>1
  <2>3. 1 * Load(LedgerRow, RowSlots, AfterHourly, OfSigner(s), HourBefore, t)
          < MaxPerHour + Cardinality(RowSlots) * 1
    BY <1>4, <2>1, ConfigAssumption
  <2> DEFINE gas == Cardinality(GasSlots) * GasPerTx
  <2>4. gas \in Nat \ {0} /\ MaxGasPerHour \in Nat
    BY <1>5, ConfigAssumption
  <2> HIDE DEF gas
  <2>5. 0 < MaxGasPerHour + gas
    BY <2>4
  <2> QED
    BY <2>2, <2>3, <2>5 DEF gas
<1>8. ASSUME NEW a \in Agents, NEW t \in 0..now
      PROVE  1 * Load(LedgerRow, RowSlots, AfterDaily, OfAgent(a), DayBefore, t)
               < MaxPerDayPerAgent + Cardinality(RowSlots) * 1
  <2>1. Load(LedgerRow, RowSlots, AfterDaily, OfAgent(a), DayBefore, t) = 0
    BY <1>2, <1>3
  <2> QED
    BY <1>4, <2>1, ConfigAssumption
<1> QED
  BY <1>1, <1>6, <1>7, <1>8 DEF BudgetInv

LEMMA StepBudgetInv == BudgetInv /\ [Next]_vars => BudgetInv'
<1> SUFFICES ASSUME BudgetInv, [Next]_vars
             PROVE  BudgetInv'
  OBVIOUS
<1>1. BInv /\ BInv' /\ TypeOK /\ IsFiniteSet(attempts) /\ now \in Nat
      /\ RowsTakeSlots(LedgerRow, RowSlots) /\ RowsTakeSlots(Paying, GasSlots)
  BY StepBInv, SlotsAreEnough DEF BudgetInv, BInv, ClockInv, TypeOK
<1>2. /\ AfterDaily \subseteq AfterHourly /\ AfterHourly \subseteq AfterAttempts
      /\ AfterDaily \subseteq AfterAttempts
      /\ Everything \in Windows /\ HourBefore \in Windows /\ DayBefore \in Windows
  BY TheseAreWindows DEF AfterHourly, AfterAttempts
<1>3. ASSUME NEW A, NEW B, A \subseteq B, B \subseteq attempts
      PROVE  Cardinality(A) \in Nat /\ Cardinality(B) \in Nat /\ Cardinality(A) <= Cardinality(B)
  <2>1. IsFiniteSet(B)
    BY <1>1, <1>3, FS_Subset
  <2> QED
    BY <1>3, <2>1, FS_Subset, FS_CardinalityType
<1>4. ASSUME NEW c \in Calls
      PROVE  /\ call[c].guardsAt \in Nat /\ call[c].guardsAt <= now
             /\ Since(call[c].guardsAt, Hour) <= HourBefore[now]
             /\ Since(call[c].guardsAt, Day) <= DayBefore[now]
  <2>1. call[c].guardsAt \in Nat /\ call[c].guardsAt <= now
    BY <1>1 DEF BInv, ClockInv, TypeOK, Local
  <2> QED
    BY <1>1, <2>1, ConfigAssumption DEF HourBefore, DayBefore, Since
<1>5. \A r \in attempts : r.at \in Nat /\ r.incident \in Incidents /\ r \in LedgerRow
  BY <1>1 DEF TypeOK, LedgerRow
<1>6. ASSUME NEW i \in Incidents
      PROVE  \A t \in 0..now' :
                1 * Load(LedgerRow, RowSlots, AfterAttempts, {i}, Everything, t)'
                  < MaxAttempts + Cardinality(RowSlots) * 1
  <2>1. \A c \in Calls : Enters(c, AfterAttempts) /\ Incident(c)' \in {i} =>
            1 * Cardinality(RowsIn(LedgerRow, {i}, Everything, now)) < MaxAttempts
    <3> SUFFICES ASSUME NEW c \in Calls, Enters(c, AfterAttempts), Incident(c)' = i
                 PROVE  1 * Cardinality(RowsIn(LedgerRow, {i}, Everything, now)) < MaxAttempts
      OBVIOUS
    <3>1. Cardinality(AttemptsForIncident(i)) < MaxAttempts
      BY <1>1, GuardsRead
    <3>2. RowsIn(LedgerRow, {i}, Everything, now) \subseteq AttemptsForIncident(i)
          /\ AttemptsForIncident(i) \subseteq attempts
      BY DEF RowsIn, AttemptsForIncident
    <3>3. PICK A, B : A = RowsIn(LedgerRow, {i}, Everything, now) /\ B = AttemptsForIncident(i)
      OBVIOUS
    <3>4. Cardinality(A) \in Nat /\ Cardinality(B) \in Nat /\ Cardinality(A) <= Cardinality(B)
      BY <1>3, <3>2, <3>3
    <3>5. Cardinality(B) < MaxAttempts /\ MaxAttempts \in Nat
      BY <3>1, <3>3, ConfigAssumption
    <3>6. 1 * Cardinality(A) < MaxAttempts
      BY <3>4, <3>5
    <3> QED
      BY <3>3, <3>6
  <2>2. \A u \in 0..now : 1 * Load(LedgerRow, RowSlots, AfterAttempts, {i}, Everything, u)
            < MaxAttempts + Cardinality(RowSlots) * 1
    BY DEF BudgetInv
  <2> QED
    BY <1>1, <1>2, <2>1, <2>2, CeilingIsKept, ConfigAssumption
<1>7. ASSUME NEW s \in Signers
      PROVE  \A t \in 0..now' :
                1 * Load(LedgerRow, RowSlots, AfterHourly, OfSigner(s), HourBefore, t)'
                  < MaxPerHour + Cardinality(RowSlots) * 1
  <2>1. \A c \in Calls : Enters(c, AfterHourly) /\ Incident(c)' \in OfSigner(s) =>
            1 * Cardinality(RowsIn(LedgerRow, OfSigner(s), HourBefore, now)) < MaxPerHour
    <3> SUFFICES ASSUME NEW c \in Calls, Enters(c, AfterHourly), Incident(c)' \in OfSigner(s)
                 PROVE  1 * Cardinality(RowsIn(LedgerRow, OfSigner(s), HourBefore, now)) < MaxPerHour
      OBVIOUS
    <3> DEFINE spend == SpendSince(s, Since(call[c].guardsAt, Hour))
    <3>1. Cardinality(spend) < MaxPerHour
      BY <1>1, GuardsRead DEF OfSigner
    <3>2. RowsIn(LedgerRow, OfSigner(s), HourBefore, now) \subseteq spend /\ spend \subseteq attempts
      <4>1. HourBefore[now] \in Nat /\ Since(call[c].guardsAt, Hour) \in Nat
        BY <1>1, <1>4, ConfigAssumption DEF HourBefore, Since
      <4> QED
        BY <1>1, <1>4, <1>5, <4>1 DEF RowsIn, SpendSince, OfSigner
    <3> QED
      BY <1>3, <3>1, <3>2, ConfigAssumption
  <2>2. \A u \in 0..now : 1 * Load(LedgerRow, RowSlots, AfterHourly, OfSigner(s), HourBefore, u)
            < MaxPerHour + Cardinality(RowSlots) * 1
    BY DEF BudgetInv
  <2> QED
    BY <1>1, <1>2, <2>1, <2>2, CeilingIsKept, ConfigAssumption
<1>8. ASSUME NEW s \in Signers
      PROVE  \A t \in 0..now' :
                GasPerTx * Load(Paying, GasSlots, AfterHourly, OfSigner(s), HourBefore, t)'
                  < MaxGasPerHour + Cardinality(GasSlots) * GasPerTx
  <2>1. \A c \in Calls : Enters(c, AfterHourly) /\ Incident(c)' \in OfSigner(s) =>
            GasPerTx * Cardinality(RowsIn(Paying, OfSigner(s), HourBefore, now)) < MaxGasPerHour
    <3> SUFFICES ASSUME NEW c \in Calls, Enters(c, AfterHourly), Incident(c)' \in OfSigner(s)
                 PROVE  GasPerTx * Cardinality(RowsIn(Paying, OfSigner(s), HourBefore, now)) < MaxGasPerHour
      OBVIOUS
    <3> DEFINE spend == SpendSince(s, Since(call[c].guardsAt, Hour))
               paid == {r \in spend : r.gas > 0}
               rows == RowsIn(Paying, OfSigner(s), HourBefore, now)
    <3>1. GasPerTx * Cardinality(paid) < MaxGasPerHour
      BY <1>1, GuardsRead DEF OfSigner, GasOf
    <3>2. rows \subseteq paid /\ paid \subseteq attempts
      <4>1. HourBefore[now] \in Nat /\ Since(call[c].guardsAt, Hour) \in Nat
        BY <1>1, <1>4, ConfigAssumption DEF HourBefore, Since
      <4> QED
        BY <1>1, <1>4, <1>5, <4>1 DEF RowsIn, SpendSince, OfSigner, Paying
    <3>3. Cardinality(rows) \in Nat /\ Cardinality(paid) \in Nat /\ Cardinality(rows) <= Cardinality(paid)
      BY <1>3, <3>2
    <3> HIDE DEF rows, paid
    <3>4. GasPerTx * Cardinality(rows) <= GasPerTx * Cardinality(paid)
      BY <3>3, ConfigAssumption
    <3>5. GasPerTx * Cardinality(rows) \in Nat /\ GasPerTx * Cardinality(paid) \in Nat
      BY <3>3, ConfigAssumption
    <3>6. GasPerTx * Cardinality(rows) < MaxGasPerHour
      BY <3>1, <3>4, <3>5, ConfigAssumption
    <3> QED
      BY <3>6 DEF rows
  <2>2. \A u \in 0..now : GasPerTx * Load(Paying, GasSlots, AfterHourly, OfSigner(s), HourBefore, u)
            < MaxGasPerHour + Cardinality(GasSlots) * GasPerTx
    BY DEF BudgetInv
  <2> QED
    BY <1>1, <1>2, <2>1, <2>2, CeilingIsKept, ConfigAssumption
<1>9. ASSUME NEW a \in Agents
      PROVE  \A t \in 0..now' :
                1 * Load(LedgerRow, RowSlots, AfterDaily, OfAgent(a), DayBefore, t)'
                  < MaxPerDayPerAgent + Cardinality(RowSlots) * 1
  <2>1. \A c \in Calls : Enters(c, AfterDaily) /\ Incident(c)' \in OfAgent(a) =>
            1 * Cardinality(RowsIn(LedgerRow, OfAgent(a), DayBefore, now)) < MaxPerDayPerAgent
    <3> SUFFICES ASSUME NEW c \in Calls, Enters(c, AfterDaily), Incident(c)' \in OfAgent(a)
                 PROVE  1 * Cardinality(RowsIn(LedgerRow, OfAgent(a), DayBefore, now)) < MaxPerDayPerAgent
      OBVIOUS
    <3> DEFINE spend == SpendForAgent(a, Since(call[c].guardsAt, Day))
    <3>1. Cardinality(spend) < MaxPerDayPerAgent
      BY <1>1, GuardsRead DEF OfAgent
    <3>2. RowsIn(LedgerRow, OfAgent(a), DayBefore, now) \subseteq spend /\ spend \subseteq attempts
      <4>1. DayBefore[now] \in Nat /\ Since(call[c].guardsAt, Day) \in Nat
        BY <1>1, <1>4, ConfigAssumption DEF DayBefore, Since
      <4> QED
        BY <1>1, <1>4, <1>5, <4>1 DEF RowsIn, SpendForAgent, OfAgent
    <3> QED
      BY <1>3, <3>1, <3>2, ConfigAssumption
  <2>2. \A u \in 0..now : 1 * Load(LedgerRow, RowSlots, AfterDaily, OfAgent(a), DayBefore, u)
            < MaxPerDayPerAgent + Cardinality(RowSlots) * 1
    BY DEF BudgetInv
  <2> QED
    BY <1>1, <1>2, <2>1, <2>2, CeilingIsKept, ConfigAssumption
<1> QED
  BY <1>1, <1>6, <1>7, <1>8, <1>9 DEF BudgetInv

LEMMA BudgetInvIsEnough == BudgetInv => BudgetsHold
<1> SUFFICES ASSUME BudgetInv PROVE BudgetsHold
  OBVIOUS
<1>1. BInv /\ TypeOK /\ now \in Nat /\ Overshoot \in Nat
      /\ Cardinality(RowSlots) = Overshoot /\ Cardinality(GasSlots) = Cardinality(Calls)
  BY SlotsAreCounted DEF BudgetInv, BInv, TypeOK, Overshoot
<1>2. ASSUME NEW K, NEW P \in {RowSlots, GasSlots}, NEW S, NEW G, NEW from, NEW t, NEW rows,
             rows \subseteq RowsIn(K, G, from, t)
      PROVE  /\ Cardinality(rows) \in Nat /\ Load(K, P, S, G, from, t) \in Nat
             /\ Cardinality(rows) <= Load(K, P, S, G, from, t)
  <2> DEFINE all == RowsIn(K, G, from, t)
             slots == SlotsIn(P, S, G, from, t)
  <2>1. /\ IsFiniteSet(all) /\ Cardinality(all) \in Nat /\ Cardinality(slots) \in Nat
        /\ Load(K, P, S, G, from, t) = Cardinality(all) + Cardinality(slots)
    BY <1>1, LoadsAreNumbers DEF Load
  <2> HIDE DEF all, slots
  <2>2. rows \subseteq all
    BY <1>2 DEF all
  <2>3. Cardinality(rows) <= Cardinality(all) /\ Cardinality(rows) \in Nat
    BY <2>1, <2>2, FS_Subset, FS_CardinalityType
  <2> QED
    BY <2>1, <2>3
<1>3. \A r \in attempts : r.at \in 0..now /\ r \in LedgerRow /\ r.incident \in Incidents
  BY <1>1 DEF TypeOK, LedgerRow, BInv, ClockInv
<1>4. AttemptsAreBounded
  <2> SUFFICES ASSUME NEW i \in Incidents
               PROVE  Cardinality(AttemptsForIncident(i)) < MaxAttempts + Overshoot
    BY DEF AttemptsAreBounded
  <2>1. AttemptsForIncident(i) \subseteq RowsIn(LedgerRow, {i}, Everything, now)
    BY <1>1, <1>3 DEF AttemptsForIncident, RowsIn, Everything
  <2>2. 1 * Load(LedgerRow, RowSlots, AfterAttempts, {i}, Everything, now)
            < MaxAttempts + Cardinality(RowSlots) * 1
    BY <1>1 DEF BudgetInv
  <2>3. /\ Cardinality(AttemptsForIncident(i)) \in Nat
        /\ Load(LedgerRow, RowSlots, AfterAttempts, {i}, Everything, now) \in Nat
        /\ Cardinality(AttemptsForIncident(i)) <= Load(LedgerRow, RowSlots, AfterAttempts, {i}, Everything, now)
    BY <1>2, <2>1
  <2> QED
    BY <1>1, <2>2, <2>3, ConfigAssumption
<1>5. DailyAllowanceHolds
  <2> SUFFICES ASSUME NEW a \in Agents, NEW t \in 0..now
               PROVE  Cardinality(Within(SpendForAgent(a, 0), t, Day)) < MaxPerDayPerAgent + Overshoot
    BY DEF DailyAllowanceHolds
  <2>1. Within(SpendForAgent(a, 0), t, Day) \subseteq RowsIn(LedgerRow, OfAgent(a), DayBefore, t)
    BY <1>1, <1>3 DEF Within, SpendForAgent, RowsIn, OfAgent, DayBefore
  <2>2. 1 * Load(LedgerRow, RowSlots, AfterDaily, OfAgent(a), DayBefore, t)
            < MaxPerDayPerAgent + Cardinality(RowSlots) * 1
    BY DEF BudgetInv
  <2>3. /\ Cardinality(Within(SpendForAgent(a, 0), t, Day)) \in Nat
        /\ Load(LedgerRow, RowSlots, AfterDaily, OfAgent(a), DayBefore, t) \in Nat
        /\ Cardinality(Within(SpendForAgent(a, 0), t, Day)) <= Load(LedgerRow, RowSlots, AfterDaily, OfAgent(a), DayBefore, t)
    BY <1>2, <2>1
  <2> QED
    BY <1>1, <2>2, <2>3, ConfigAssumption
<1>6. HourlyBudgetHolds
  <2> SUFFICES ASSUME NEW s \in Signers, NEW t \in 0..now
               PROVE  LET rows == Within(SpendSince(s, 0), t, Hour) IN
                      /\ Cardinality(rows) < MaxPerHour + Overshoot
                      /\ GasOf(rows) < MaxGasPerHour + Cardinality(Calls) * GasPerTx
    BY DEF HourlyBudgetHolds
  <2> DEFINE rows == Within(SpendSince(s, 0), t, Hour)
             paid == {r \in rows : r.gas > 0}
             load == Load(Paying, GasSlots, AfterHourly, OfSigner(s), HourBefore, t)
  <2>1. rows \subseteq RowsIn(LedgerRow, OfSigner(s), HourBefore, t)
        /\ paid \subseteq RowsIn(Paying, OfSigner(s), HourBefore, t)
    BY <1>1, <1>3 DEF Within, SpendSince, RowsIn, OfSigner, HourBefore, Paying
  <2>2. /\ 1 * Load(LedgerRow, RowSlots, AfterHourly, OfSigner(s), HourBefore, t)
              < MaxPerHour + Cardinality(RowSlots) * 1
        /\ GasPerTx * load < MaxGasPerHour + Cardinality(GasSlots) * GasPerTx
    BY DEF BudgetInv
  <2>3. Cardinality(rows) < MaxPerHour + Overshoot
    <3>1. /\ Cardinality(rows) \in Nat
          /\ Load(LedgerRow, RowSlots, AfterHourly, OfSigner(s), HourBefore, t) \in Nat
          /\ Cardinality(rows) <= Load(LedgerRow, RowSlots, AfterHourly, OfSigner(s), HourBefore, t)
      BY <1>2, <2>1
    <3> HIDE DEF rows, load
    <3> QED
      BY <1>1, <2>2, <3>1, ConfigAssumption
  <2>4. Cardinality(paid) \in Nat /\ load \in Nat /\ Cardinality(paid) <= load
    BY <1>2, <2>1
  <2>5. GasOf(rows) = GasPerTx * Cardinality(paid)
    BY DEF GasOf
  <2> HIDE DEF paid, load, rows
  <2>6. GasPerTx * Cardinality(paid) <= GasPerTx * load
    BY <2>4, ConfigAssumption
  <2>7. GasPerTx * Cardinality(paid) \in Nat /\ GasPerTx * load \in Nat
        /\ Cardinality(Calls) * GasPerTx \in Nat /\ MaxGasPerHour \in Nat
    BY <2>4, ConfigAssumption, SlotsAreCounted
  <2>8. GasPerTx * load < MaxGasPerHour + Cardinality(Calls) * GasPerTx
    BY <1>1, <2>2
  <2>9. GasOf(rows) < MaxGasPerHour + Cardinality(Calls) * GasPerTx
    BY <2>5, <2>6, <2>7, <2>8
  <2> QED
    BY <2>3, <2>9 DEF rows
<1> QED
  BY <1>1, <1>4, <1>5, <1>6 DEF BudgetsHold

\* evaluateGuards reads the ledger before the run it admits has written to it, and
\* any number of calls may be between the two at once.  Even so the ceilings per
\* incident, per signer and hour, per agent and day and on gas are overrun by no
\* more than what those calls write, whatever their number, the clock and the
\* limits configured.
THEOREM BudgetsAreKept == Spec => []BudgetsHold
<1>1. Spec => []BudgetInv
  BY InitBudgetInv, StepBudgetInv, PTL DEF Spec
<1> QED
  BY <1>1, BudgetInvIsEnough, PTL

-----------------------------------------------------------------------------
(***************************************************************************)
(* What the walk makes of an intact ledger.                                *)
(***************************************************************************)
\* Over the naturals, above and different is at least one more.
LEMMA StrictlyAbove ==
    ASSUME NEW a \in Nat, NEW b \in Nat, a >= b, a # b
    PROVE  b + 1 <= a /\ a \in b + 1..a
  OBVIOUS

\* The greatest element of a non-empty interval of naturals is its upper end.
LEMMA MaxOfInterval ==
    ASSUME NEW a \in Nat, NEW b \in Nat, a <= b
    PROVE  Max(a..b) = b
<1>1. b \in a..b /\ \A y \in a..b : b >= y
  OBVIOUS
<1>2. \A x \in a..b : (\A y \in a..b : x >= y) => x = b
  OBVIOUS
<1>3. QED
  BY <1>1, <1>2 DEF Max

\* Appending a row leaves the others in place and puts it last.
LEMMA AppendRow ==
    ASSUME NEW S, NEW s \in Seq(S), NEW r
    PROVE  /\ Append(s, r) \in Seq(S \union {r})
           /\ Len(Append(s, r)) = Len(s) + 1
           /\ Len(s) \in Nat
           /\ DOMAIN Append(s, r) = 1..Len(s) + 1
           /\ \A i \in 1..Len(s) : Append(s, r)[i] = s[i]
           /\ Append(s, r)[Len(s) + 1] = r
<1>1. s \in Seq(S \union {r}) /\ r \in S \union {r}
  OBVIOUS
<1>2. QED
  BY <1>1

\* A hash is never the null column.
LEMMA HashNotNull == \A e, p : HashEntry(e, p) # Null
  BY DEF HashEntry, Null

\* The chained rows of an intact ledger are those after the legacy ones, and
\* the tip is the hash of the last of them.
LEMMA IntactShape ==
    ASSUME ChainTypeOK, Intact
    PROVE  /\ Chained(ledger) = LegacyRows + 1..Len(ledger)
           /\ TipHash(ledger) = IF Len(ledger) = LegacyRows THEN Null
                                ELSE ledger[Len(ledger)].entryHash
<1>1. LegacyRows \in Nat /\ Len(ledger) \in Nat /\ DOMAIN ledger = 1..Len(ledger)
  BY LegacyAssumption DEF ChainTypeOK
<1>2. Chained(ledger) = LegacyRows + 1..Len(ledger)
  BY <1>1, HashNotNull DEF Chained, Intact
<1>3. CASE Len(ledger) = LegacyRows
  <2>1. Chained(ledger) = {}
    BY <1>1, <1>2, <1>3
  <2>2. QED
    BY <1>2, <1>3, <2>1 DEF TipHash
<1>4. CASE Len(ledger) # LegacyRows
  <2>0. Len(ledger) >= LegacyRows
    BY DEF Intact
  <2>1. LegacyRows + 1 <= Len(ledger)
    BY <1>1, <1>4, <2>0, StrictlyAbove
  <2>2. Max(Chained(ledger)) = Len(ledger) /\ Chained(ledger) # {}
    BY <1>1, <1>2, <2>1, MaxOfInterval
  <2>3. QED
    BY <1>2, <1>4, <2>2 DEF TipHash
<1>5. QED
  BY <1>3, <1>4

\* An intact ledger verifies.
LEMMA IntactVerifies ==
    ASSUME ChainTypeOK, Intact
    PROVE  ChainVerifies
<1>1. LegacyRows \in Nat /\ Len(ledger) \in Nat
  BY LegacyAssumption DEF ChainTypeOK
<1>2. Chained(ledger) = LegacyRows + 1..Len(ledger)
  BY IntactShape
<1>3. ASSUME NEW i \in Chained(ledger)
      PROVE  LinkOk(ledger, i) /\ HashOk(ledger, i)
  <2>1. HashOk(ledger, i)
    BY <1>2, <1>3 DEF HashOk, Intact
  <2>2. ChainedBefore(ledger, i) = LegacyRows + 1..i - 1
    BY <1>1, <1>2, <1>3 DEF ChainedBefore
  <2>3. CASE i = LegacyRows + 1
    <3>1. ChainedBefore(ledger, i) = {}
      BY <1>1, <2>2, <2>3
    <3>2. QED
      BY <2>1, <3>1 DEF LinkOk, ExpectedLink
  <2>4. CASE i > LegacyRows + 1
    <3>1. /\ i - 1 \in Nat
          /\ LegacyRows + 1 <= i - 1
      BY <1>1, <1>2, <1>3, <2>4
    <3>2. Max(ChainedBefore(ledger, i)) = i - 1 /\ ChainedBefore(ledger, i) # {}
      BY <1>1, <2>2, <3>1, MaxOfInterval
    <3>3. ledger[i].prevHash = ledger[i - 1].entryHash
      BY <1>2, <1>3, <2>4 DEF Intact
    <3>4. QED
      BY <2>1, <3>2, <3>3 DEF LinkOk, ExpectedLink
  <2>5. QED
    BY <1>1, <1>2, <1>3, <2>3, <2>4
<1>4. Broken(ledger) = {}
  BY <1>3 DEF Broken
<1>5. QED
  BY <1>4 DEF ChainVerifies, VerifyChain

(***************************************************************************)
(* Appending.                                                              *)
(***************************************************************************)
LEMMA InitIInv == ChainInit => IInv
<1> SUFFICES ASSUME ChainInit PROVE IInv
  OBVIOUS
<1> USE LegacyAssumption, WriterAssumption DEF ChainInit
<1>1. /\ ledger \in Seq({ledger[i] : i \in DOMAIN ledger})
      /\ Len(ledger) = LegacyRows
      /\ DOMAIN ledger = 1..LegacyRows
      /\ \A i \in 1..LegacyRows : ledger[i] = Row(Legacy, Null, Null)
  <2> DEFINE S == {ledger[i] : i \in DOMAIN ledger}
  <2>1. ledger \in [1..LegacyRows -> S]
    OBVIOUS
  <2>2. QED
    BY <2>1
<1>2. ChainTypeOK
  BY <1>1 DEF ChainTypeOK, Hashes, Row
<1>3. Intact
  BY <1>1 DEF Intact, Row
<1>4. TipIsCurrent
  BY DEF TipIsCurrent
<1>5. QED
  BY <1>2, <1>3, <1>4 DEF IInv

\* Every step keeps the ledger intact and the lock holder's tip current.
LEMMA StepIInv == IInv /\ [ChainNext]_chainVars => IInv'
<1> SUFFICES ASSUME IInv, [ChainNext]_chainVars PROVE IInv'
  OBVIOUS
<1> USE LegacyAssumption, WriterAssumption, CanonAssumption DEF IInv
<1>1. ASSUME UNCHANGED ledger PROVE Intact' /\ TipHash(ledger)' = TipHash(ledger) /\ Hashes' = Hashes
  BY <1>1 DEF Intact, Hashes, TipHash
<1>2. ASSUME NEW w \in Writers, NEW e \in Entries, Begin(w, e) PROVE IInv'
  <2>1. ChainTypeOK'
    BY <1>1, <1>2 DEF Begin, ChainTypeOK
  <2>2. TipIsCurrent'
    BY <1>1, <1>2 DEF Begin, ChainTypeOK, TipIsCurrent
  <2>3. QED
    BY <1>1, <1>2, <2>1, <2>2 DEF Begin
<1>3. ASSUME NEW w \in Writers, Acquire(w) PROVE IInv'
  <2>1. ChainTypeOK'
    BY <1>1, <1>3 DEF Acquire, ChainTypeOK
  <2>2. TipIsCurrent'
    BY <1>1, <1>3 DEF Acquire, ChainTypeOK, TipIsCurrent
  <2>3. QED
    BY <1>1, <1>3, <2>1, <2>2 DEF Acquire
<1>4. ASSUME NEW w \in Writers, ReadTip(w) PROVE IInv'
  <2>1. TipHash(ledger) \in Hashes
    <3>1. /\ LegacyRows \in Nat /\ Len(ledger) \in Nat
          /\ DOMAIN ledger = 1..Len(ledger)
      BY DEF ChainTypeOK
    <3>2. Len(ledger) >= LegacyRows
      BY DEF Intact
    <3>3. ASSUME Len(ledger) # LegacyRows
          PROVE  Len(ledger) \in DOMAIN ledger
      <4>1. LegacyRows + 1 <= Len(ledger)
        BY <3>1, <3>2, <3>3, StrictlyAbove
      <4>2. QED
        BY <3>1, <4>1
    <3>4. QED
      BY <3>3, IntactShape DEF Hashes
  <2>2. ChainTypeOK'
    BY <1>1, <1>4, <2>1 DEF ReadTip, ChainTypeOK
  <2>3. TipIsCurrent'
    BY <1>1, <1>4 DEF ReadTip, ChainTypeOK, TipIsCurrent
  <2>4. QED
    BY <1>1, <1>4, <2>2, <2>3 DEF ReadTip
<1>5. ASSUME NEW w \in Writers, InsertAndCommit(w) PROVE IInv'
  <2> DEFINE r == Row(pending[w], tip[w], HashEntry(pending[w], tip[w]))
             n == Len(ledger)
             S == {ledger[i] : i \in DOMAIN ledger}
  <2>1. /\ ledger' \in Seq(S \union {r})
        /\ Len(ledger') = n + 1
        /\ n \in Nat
        /\ DOMAIN ledger' = 1..n + 1
        /\ \A i \in 1..n : ledger'[i] = ledger[i]
        /\ ledger'[n + 1] = r
    <3>1. ledger \in Seq(S)
      BY DEF ChainTypeOK
    <3>2. ledger' = Append(ledger, r)
      BY <1>5 DEF InsertAndCommit
    <3> HIDE DEF r, S
    <3>3. QED
      BY <3>1, <3>2, AppendRow
  <2>2. DOMAIN ledger = 1..n
    BY DEF ChainTypeOK
  <2>3. ledger' \in Seq({ledger'[i] : i \in DOMAIN ledger'})
    BY <2>1
  <2>4. /\ tip[w] \in Hashes
        /\ pending[w] \in Entries
        /\ Hashes \subseteq Hashes'
    BY <2>1, <2>2 DEF ChainTypeOK, Hashes
  <2>5. ChainTypeOK'
    <3>1. \A i \in 1..n + 1 :
             /\ ledger'[i].entry \in Entries
             /\ ledger'[i].prevHash \in Hashes'
      <4>1. \A i \in 1..n : ledger[i].entry \in Entries /\ ledger[i].prevHash \in Hashes
        BY <2>2 DEF ChainTypeOK
      <4>2. r.entry \in Entries /\ r.prevHash \in Hashes'
        BY <2>4 DEF Row
      <4> HIDE DEF r
      <4>3. QED
        BY <2>1, <2>4, <4>1, <4>2
    <3>2. /\ lock' \in Writers \union {NoWriter}
          /\ stage' \in [Writers -> {"idle", "waiting", "locked", "read"}]
          /\ pending' \in [Writers -> Entries]
          /\ tip' \in [Writers -> Hashes']
      BY <1>5, <2>4 DEF InsertAndCommit, ChainTypeOK
    <3>3. QED
      BY <2>1, <2>3, <3>1, <3>2 DEF ChainTypeOK
  <2>6. tip[w] = TipHash(ledger) /\ lock = w
    BY <1>5 DEF InsertAndCommit, TipIsCurrent
  <2>7. n >= LegacyRows
    BY DEF Intact
  <2>8. Intact'
    <3>1. /\ r.entryHash = HashEntry(r.entry, r.prevHash)
          /\ r.prevHash = TipHash(ledger)
      BY <2>6 DEF Row
    <3>2. n > LegacyRows => TipHash(ledger) = ledger[n].entryHash
      BY <2>1, <2>7, IntactShape
    <3> HIDE DEF r
    <3>3. \A i \in 1..LegacyRows : ledger'[i].entryHash = Null
      BY <2>1, <2>7 DEF Intact
    <3>4. \A i \in LegacyRows + 1..n :
             /\ ledger'[i].entryHash = HashEntry(ledger'[i].entry, ledger'[i].prevHash)
             /\ i > LegacyRows + 1 => ledger'[i].prevHash = ledger'[i - 1].entryHash
      <4> SUFFICES ASSUME NEW i \in LegacyRows + 1..n
                   PROVE  /\ ledger'[i].entryHash = HashEntry(ledger'[i].entry, ledger'[i].prevHash)
                          /\ i > LegacyRows + 1 => ledger'[i].prevHash = ledger'[i - 1].entryHash
        OBVIOUS
      <4>1. /\ ledger[i].entryHash = HashEntry(ledger[i].entry, ledger[i].prevHash)
            /\ i > LegacyRows + 1 => ledger[i].prevHash = ledger[i - 1].entryHash
        BY DEF Intact
      <4>2. i \in 1..n /\ (i > LegacyRows + 1 => i - 1 \in 1..n)
        BY <2>1, LegacyAssumption
      <4>3. ledger'[i] = ledger[i] /\ (i > LegacyRows + 1 => ledger'[i - 1] = ledger[i - 1])
        BY <2>1, <4>2
      <4> QED
        BY <4>1, <4>3
    <3>5. /\ ledger'[n + 1].entryHash = HashEntry(ledger'[n + 1].entry, ledger'[n + 1].prevHash)
          /\ n + 1 > LegacyRows + 1 => ledger'[n + 1].prevHash = ledger'[n].entryHash
      BY <2>1, <2>7, <3>1, <3>2
    <3>6. QED
      BY <2>1, <2>7, <3>3, <3>4, <3>5 DEF Intact
  <2>9. TipIsCurrent'
    <3>1. \A v \in Writers : stage'[v] \notin {"locked", "read"}
      BY <1>5, <2>6 DEF InsertAndCommit, TipIsCurrent, ChainTypeOK
    <3>2. QED
      BY <3>1 DEF TipIsCurrent
  <2>10. QED
    BY <2>5, <2>8, <2>9
<1>6. ASSUME NEW w \in Writers, Abort(w) PROVE IInv'
  <2>1. ChainTypeOK'
    BY <1>1, <1>6 DEF Abort, ChainTypeOK
  <2>2. TipIsCurrent'
    BY <1>1, <1>6 DEF Abort, ChainTypeOK, TipIsCurrent
  <2>3. QED
    BY <1>1, <1>6, <2>1, <2>2 DEF Abort
<1>7. CASE UNCHANGED chainVars
  BY <1>1, <1>7 DEF chainVars, ChainTypeOK, TipIsCurrent
<1>8. QED
  BY <1>2, <1>3, <1>4, <1>5, <1>6, <1>7 DEF ChainNext, Step

\* Types, for every number of callers and attempts.
THEOREM LedgerTypeCorrect == ChainSpec => []ChainTypeOK
<1>1. ChainSpec => []IInv
  BY InitIInv, StepIInv, PTL DEF ChainSpec
<1>2. IInv => ChainTypeOK
  BY DEF IInv
<1>3. QED
  BY <1>1, <1>2, PTL

\* The ledger that any interleaving of appenders leaves behind verifies: the
\* advisory lock makes the hash chain fork-free (recordRemediationAttempt,
\* verifyChain).
THEOREM LedgerAlwaysVerifies == ChainSpec => []ChainVerifies
<1>1. ChainSpec => []IInv
  BY InitIInv, StepIInv, PTL DEF ChainSpec
<1>2. IInv => ChainVerifies
  BY IntactVerifies DEF IInv
<1>3. QED
  BY <1>1, <1>2, PTL

(***************************************************************************)
(* The rows of an honest chain have different hashes.                      *)
(***************************************************************************)
Distinct ==
    /\ Len(ledger) > LegacyRows => ledger[LegacyRows + 1].prevHash = Null
    /\ \A i, j \in LegacyRows + 1..Len(ledger) :
          i # j => ledger[i].entryHash # ledger[j].entryHash

RowsAreRows ==
    \A i \in DOMAIN ledger : ledger[i] = Row(ledger[i].entry, ledger[i].prevHash, ledger[i].entryHash)

Honest == IInv /\ Distinct /\ RowsAreRows

\* What a chained row says it follows, nothing or the row before it, is the hash
\* of no row from there on.
LEMMA PredecessorIsPast ==
    ASSUME Honest, NEW i \in LegacyRows + 1..Len(ledger), NEW j \in i..Len(ledger)
    PROVE  ledger[j].entryHash # ledger[i].prevHash /\ ledger[j].entryHash # Null
<1>0. LegacyRows \in Nat /\ Len(ledger) \in Nat
  BY LegacyAssumption DEF Honest, IInv, ChainTypeOK
<1>1. ledger[j].entryHash # Null
  BY <1>0, HashNotNull DEF Honest, IInv, Intact
<1>2. CASE i = LegacyRows + 1
  BY <1>0, <1>1, <1>2 DEF Honest, Distinct
<1>3. CASE i # LegacyRows + 1
  <2>1. i - 1 \in LegacyRows + 1..Len(ledger) /\ j \in LegacyRows + 1..Len(ledger) /\ i - 1 # j
    BY <1>0, <1>3
  <2>2. ledger[i].prevHash = ledger[i - 1].entryHash
    BY <1>0, <2>1 DEF Honest, IInv, Intact
  <2> QED
    BY <1>1, <2>1, <2>2 DEF Honest, Distinct
<1> QED
  BY <1>2, <1>3

LEMMA InitHonest == ChainInit => Honest
<1> SUFFICES ASSUME ChainInit PROVE Distinct /\ RowsAreRows
  BY InitIInv DEF Honest
<1>1. Len(ledger) = LegacyRows /\ \A i \in DOMAIN ledger : ledger[i] = Row(Legacy, Null, Null)
  BY LegacyAssumption DEF ChainInit
<1> QED
  BY <1>1, LegacyAssumption DEF Distinct, RowsAreRows, Row

LEMMA StepHonest == Honest /\ [ChainNext]_chainVars => Honest'
<1> SUFFICES ASSUME Honest, [ChainNext]_chainVars PROVE Distinct' /\ RowsAreRows'
  BY StepIInv DEF Honest
<1>0. LegacyRows \in Nat /\ Len(ledger) \in Nat /\ Len(ledger) >= LegacyRows
  BY LegacyAssumption DEF Honest, IInv, ChainTypeOK, Intact
<1>1. CASE UNCHANGED ledger
  BY <1>1 DEF Honest, Distinct, RowsAreRows
<1>2. ASSUME NEW w \in Writers, InsertAndCommit(w)
      PROVE  Distinct' /\ RowsAreRows'
  <2> DEFINE r == Row(pending[w], tip[w], HashEntry(pending[w], tip[w]))
             n == Len(ledger)
             S == {ledger[i] : i \in DOMAIN ledger}
  <2>1. /\ Len(ledger') = n + 1 /\ DOMAIN ledger' = 1..n + 1
        /\ \A i \in 1..n : ledger'[i] = ledger[i]
        /\ ledger'[n + 1] = r
    <3>1. ledger \in Seq(S) /\ ledger' = Append(ledger, r)
      BY <1>2 DEF InsertAndCommit, Honest, IInv, ChainTypeOK
    <3> HIDE DEF r, S
    <3> QED
      BY <3>1, AppendRow
  <2>2. tip[w] = IF n = LegacyRows THEN Null ELSE ledger[n].entryHash
    BY <1>2, IntactShape DEF InsertAndCommit, Honest, IInv, TipIsCurrent
  <2>3. /\ r.prevHash = tip[w] /\ r.entryHash = HashEntry(pending[w], tip[w])
        /\ r = Row(r.entry, r.prevHash, r.entryHash)
    BY DEF Row
  <2> HIDE DEF r
  <2>4. ASSUME NEW i \in LegacyRows + 1..n
        PROVE  r.entryHash # ledger[i].entryHash
    <3>1. ledger[i].entryHash = HashEntry(ledger[i].entry, ledger[i].prevHash)
      BY <1>0 DEF Honest, IInv, Intact
    <3>2. tip[w] = ledger[n].entryHash /\ n \in i..Len(ledger)
      BY <1>0, <2>2
    <3>3. tip[w] # ledger[i].prevHash
      BY <3>2, PredecessorIsPast
    <3> QED
      BY <2>3, <3>1, <3>3 DEF HashEntry
  <2>5. ASSUME NEW i \in LegacyRows + 1..n + 1, NEW j \in LegacyRows + 1..n + 1, i # j
        PROVE  ledger'[i].entryHash # ledger'[j].entryHash
    <3>1. CASE i # n + 1 /\ j # n + 1
      BY <1>0, <2>1, <2>5, <3>1 DEF Honest, Distinct
    <3>2. CASE i = n + 1
      BY <1>0, <2>1, <2>4, <2>5, <3>2
    <3>3. CASE j = n + 1
      BY <1>0, <2>1, <2>4, <2>5, <3>3
    <3> QED
      BY <3>1, <3>2, <3>3
  <2>6. ledger'[LegacyRows + 1].prevHash = Null
    <3>1. CASE n = LegacyRows
      BY <2>1, <2>2, <2>3, <3>1
    <3>2. CASE n # LegacyRows
      BY <1>0, <2>1, <3>2 DEF Honest, Distinct
    <3> QED
      BY <3>1, <3>2
  <2>7. RowsAreRows'
    BY <1>0, <2>1, <2>3 DEF Honest, RowsAreRows, IInv, ChainTypeOK
  <2> QED
    BY <2>1, <2>5, <2>6, <2>7 DEF Distinct
<1> QED
  BY <1>1, <1>2 DEF ChainNext, Step, Begin, Acquire, ReadTip, Abort, chainVars

(***************************************************************************)
(* The first break of the walk.                                            *)
(***************************************************************************)
FirstBreak(rows, at, reason) ==
    /\ at \in Broken(rows)
    /\ \A j \in Broken(rows) : at <= j
    /\ reason = IF LinkOk(rows, at) THEN "hash_mismatch" ELSE "broken_link"

\* The walk reports the first break.
LEMMA WalkReportsFirstBreak ==
    ASSUME NEW rows, DOMAIN rows \subseteq Nat, NEW at, NEW reason, FirstBreak(rows, at, reason)
    PROVE  VerifyChain(rows) = [ok |-> FALSE, brokenAt |-> at, reason |-> reason]
<1>1. at \in Chained(rows) /\ Broken(rows) \subseteq Nat /\ at \in Broken(rows)
  BY DEF FirstBreak, Broken, Chained
<1>2. \A x \in Broken(rows) : (\A y \in Broken(rows) : x <= y) => x = at
  BY <1>1 DEF FirstBreak
<1>3. Min(Broken(rows)) = at
  BY <1>1, <1>2 DEF Min, FirstBreak
<1> QED
  BY <1>1, <1>3 DEF VerifyChain, FirstBreak

\* Neither an append nor any tampering leaves a hole in the chained rows.
Shaped(rows, n) == n >= LegacyRows /\ DOMAIN rows = 1..n /\ Chained(rows) = LegacyRows + 1..n

\* Of such a ledger a row is judged by itself and the row before it.
LEMMA JudgedByPredecessor ==
    ASSUME NEW n \in Nat, NEW rows, Shaped(rows, n), NEW k \in LegacyRows + 1..n
    PROVE  /\ LinkOk(rows, k) <=> k = LegacyRows + 1 \/ rows[k].prevHash = rows[k - 1].entryHash
           /\ k \in Broken(rows) <=> ~LinkOk(rows, k) \/ ~HashOk(rows, k)
<1>0. LegacyRows \in Nat /\ k \in Chained(rows)
  BY LegacyAssumption DEF Shaped
<1>1. ChainedBefore(rows, k) = LegacyRows + 1..k - 1
  BY <1>0 DEF ChainedBefore, Shaped
<1>2. CASE k = LegacyRows + 1
  <2>1. ChainedBefore(rows, k) = {}
    BY <1>0, <1>1, <1>2
  <2> QED
    BY <1>0, <1>2, <2>1 DEF LinkOk, ExpectedLink, Broken
<1>3. CASE k # LegacyRows + 1
  <2>1. k - 1 \in Nat /\ LegacyRows + 1 \in Nat /\ LegacyRows + 1 <= k - 1
    BY <1>0, <1>3
  <2>2. Max(ChainedBefore(rows, k)) = k - 1 /\ ChainedBefore(rows, k) # {}
    BY <1>1, <2>1, MaxOfInterval
  <2> QED
    BY <1>0, <1>3, <2>2 DEF LinkOk, ExpectedLink, Broken
<1> QED
  BY <1>2, <1>3

\* Rows that agree with another ledger's up to a row are judged alike up to it.
LEMMA JudgedAlike ==
    ASSUME NEW m \in Nat, NEW n \in Nat, NEW rows, NEW other, Shaped(rows, m), Shaped(other, n),
           NEW k \in LegacyRows + 1..m, k <= n, \A j \in 1..k : other[j] = rows[j]
    PROVE  /\ k \in Broken(other) <=> k \in Broken(rows)
           /\ LinkOk(other, k) <=> LinkOk(rows, k)
<1>0. LegacyRows \in Nat /\ k \in LegacyRows + 1..n /\ k - 1 \in Nat
  BY LegacyAssumption
<1>1. other[k] = rows[k] /\ (k # LegacyRows + 1 => other[k - 1] = rows[k - 1])
  BY <1>0
<1> QED
  BY <1>0, <1>1, JudgedByPredecessor DEF HashOk

\* A break stays the first one behind whatever rows are appended.
LEMMA AppendKeepsFirstBreak ==
    ASSUME NEW S, NEW rows \in Seq(S), Shaped(rows, Len(rows)), NEW r, r.entryHash # Null
    PROVE  /\ Append(rows, r) \in Seq(S \union {r})
           /\ Shaped(Append(rows, r), Len(Append(rows, r)))
           /\ \A at, reason : FirstBreak(rows, at, reason) => FirstBreak(Append(rows, r), at, reason)
<1> DEFINE n == Len(rows)
           more == Append(rows, r)
<1>1. /\ more \in Seq(S \union {r}) /\ Len(more) = n + 1 /\ n \in Nat
      /\ DOMAIN more = 1..n + 1 /\ more[n + 1] = r
      /\ \A i \in 1..n : more[i] = rows[i]
  BY AppendRow
<1>2. DOMAIN rows = 1..n /\ LegacyRows \in Nat
  BY LegacyAssumption DEF Shaped
<1> HIDE DEF more
<1>3. Shaped(more, n + 1)
  <2>1. n + 1 \in Chained(more)
    BY <1>1 DEF Chained
  <2>2. \A i \in 1..n : i \in Chained(more) <=> i \in Chained(rows)
    BY <1>1, <1>2 DEF Chained
  <2> QED
    BY <1>1, <1>2, <2>1, <2>2 DEF Shaped, Chained
<1>4. ASSUME NEW at, NEW reason, FirstBreak(rows, at, reason)
      PROVE  FirstBreak(more, at, reason)
  <2>1. at \in LegacyRows + 1..n
    BY <1>4 DEF FirstBreak, Broken, Shaped
  <2>2. ASSUME NEW k \in LegacyRows + 1..n
        PROVE  /\ k \in Broken(more) <=> k \in Broken(rows)
               /\ LinkOk(more, k) <=> LinkOk(rows, k)
    <3>1. k <= n + 1 /\ n + 1 \in Nat /\ \A j \in 1..k : more[j] = rows[j]
      BY <1>1, <1>2
    <3> QED
      BY <1>1, <1>3, <3>1, JudgedAlike
  <2>3. \A j \in Broken(more) : j \in LegacyRows + 1..n \/ j = n + 1
    BY <1>1, <1>2, <1>3 DEF Broken, Shaped
  <2>4. \A j \in Broken(more) : at <= j
    BY <1>1, <1>2, <1>4, <2>1, <2>2, <2>3 DEF FirstBreak
  <2> QED
    BY <1>4, <2>1, <2>2, <2>4 DEF FirstBreak
<1> QED
  BY <1>1, <1>3, <1>4 DEF more

(***************************************************************************)
(* One row edited, removed or swapped with the next.                       *)
(***************************************************************************)
\* An honest chain has no break and is shaped.
LEMMA HonestIsUnbroken ==
    ASSUME Honest
    PROVE  /\ LegacyRows \in Nat /\ Len(ledger) \in Nat
           /\ Shaped(ledger, Len(ledger)) /\ ledger \in Seq({ledger[i] : i \in DOMAIN ledger})
           /\ \A k \in LegacyRows + 1..Len(ledger) : LinkOk(ledger, k) /\ HashOk(ledger, k)
<1>1. LegacyRows \in Nat /\ Len(ledger) \in Nat /\ DOMAIN ledger = 1..Len(ledger)
      /\ ledger \in Seq({ledger[i] : i \in DOMAIN ledger})
  BY LegacyAssumption DEF Honest, IInv, ChainTypeOK
<1>2. Shaped(ledger, Len(ledger))
  BY <1>1, IntactShape DEF Shaped, Honest, IInv, Intact
<1>3. ASSUME NEW k \in LegacyRows + 1..Len(ledger)
      PROVE  LinkOk(ledger, k) /\ HashOk(ledger, k)
  <2>1. k > LegacyRows + 1 => ledger[k].prevHash = ledger[k - 1].entryHash
    BY DEF Honest, IInv, Intact
  <2>2. LinkOk(ledger, k)
    BY <1>1, <1>2, <2>1, JudgedByPredecessor
  <2> QED
    BY <2>2 DEF HashOk, Honest, IInv, Intact
<1> QED
  BY <1>1, <1>2, <1>3

\* A row that breaks, where every row before it is as it was, is the first break.
LEMMA FirstDifference ==
    ASSUME Honest, NEW n \in Nat, NEW rows, Shaped(rows, n), NEW at \in LegacyRows + 1..n,
           at <= Len(ledger) + 1, \A j \in 1..at - 1 : rows[j] = ledger[j],
           NEW reason, at \in Broken(rows),
           reason = IF LinkOk(rows, at) THEN "hash_mismatch" ELSE "broken_link"
    PROVE  FirstBreak(rows, at, reason)
<1>0. LegacyRows \in Nat /\ Len(ledger) \in Nat /\ Shaped(ledger, Len(ledger))
  BY HonestIsUnbroken
<1>1. ASSUME NEW k \in Broken(rows), ~(at <= k)
      PROVE  FALSE
  <2>1. k \in LegacyRows + 1..n
    BY <1>1 DEF Broken, Shaped
  <2>2. k \in LegacyRows + 1..Len(ledger) /\ k <= n /\ \A j \in 1..k : rows[j] = ledger[j]
    BY <1>0, <1>1, <2>1
  <2>3. k \in Broken(ledger)
    BY <1>0, <1>1, <2>2, JudgedAlike
  <2> QED
    BY <2>2, <2>3, HonestIsUnbroken DEF Broken
<1> QED
  BY <1>1 DEF FirstBreak

\* A function on an initial interval is a sequence.
LEMMA IntervalIsSequence ==
    ASSUME NEW n \in Nat, NEW S, NEW f \in [1..n -> S]
    PROVE  f \in Seq(S) /\ Len(f) = n
OBVIOUS

\* The ledger with row i's attempt replaced and its hash left alone.
Edited(rows, i, e) == rows = [ledger EXCEPT ![i].entry = e]

LEMMA EditBreaks ==
    ASSUME Honest, NEW i \in Chained(ledger), NEW e \in Entries, Canon[e] # Canon[ledger[i].entry],
           NEW rows, Edited(rows, i, e)
    PROVE  /\ rows \in Seq({rows[k] : k \in DOMAIN rows})
           /\ Shaped(rows, Len(rows))
           /\ FirstBreak(rows, i, "hash_mismatch")
<1> DEFINE n == Len(ledger)
           row == [ledger[i] EXCEPT !.entry = e]
<1>0. /\ LegacyRows \in Nat /\ n \in Nat /\ Shaped(ledger, n)
      /\ i \in LegacyRows + 1..n /\ LinkOk(ledger, i) /\ HashOk(ledger, i) /\ DOMAIN ledger = 1..n
  BY HonestIsUnbroken DEF Shaped
<1>1. rows = [ledger EXCEPT ![i] = row]
  BY DEF Edited
<1>2. row.entry = e /\ row.prevHash = ledger[i].prevHash /\ row.entryHash = ledger[i].entryHash
  <2>1. ledger[i] = Row(ledger[i].entry, ledger[i].prevHash, ledger[i].entryHash)
    BY <1>0 DEF Honest, RowsAreRows
  <2> QED
    BY <2>1 DEF Row
<1> HIDE DEF n, row
<1>3. rows = [k \in 1..n |-> IF k = i THEN row ELSE ledger[k]]
  BY <1>0, <1>1
<1>4. DOMAIN rows = 1..n /\ rows[i] = row /\ \A k \in 1..n : k # i => rows[k] = ledger[k]
  BY <1>0, <1>3
<1>5. rows \in Seq({rows[k] : k \in DOMAIN rows}) /\ Len(rows) = n
  <2> DEFINE S == {rows[k] : k \in DOMAIN rows}
  <2>1. rows \in [1..n -> S] /\ n \in Nat
    BY <1>0, <1>3
  <2> HIDE DEF S
  <2>2. rows \in Seq(S) /\ Len(rows) = n
    BY <2>1, IntervalIsSequence
  <2> QED
    BY <2>2 DEF S
<1>6. Shaped(rows, n)
  BY <1>0, <1>2, <1>4 DEF Shaped, Chained
<1>7. LinkOk(rows, i)
  <2>1. i # LegacyRows + 1 => i - 1 \in 1..n /\ i - 1 # i
    BY <1>0
  <2>2. LinkOk(rows, i) <=> i = LegacyRows + 1 \/ rows[i].prevHash = rows[i - 1].entryHash
    BY <1>0, <1>6, JudgedByPredecessor
  <2>3. i = LegacyRows + 1 \/ ledger[i].prevHash = ledger[i - 1].entryHash
    BY <1>0, JudgedByPredecessor
  <2> QED
    BY <1>2, <1>4, <2>1, <2>2, <2>3
<1>8. ~HashOk(rows, i)
  BY <1>0, <1>2, <1>4 DEF HashOk, HashEntry
<1>9. i \in Broken(rows)
  BY <1>0, <1>6, <1>8, JudgedByPredecessor
<1>10. i <= Len(ledger) + 1 /\ \A j \in 1..i - 1 : rows[j] = ledger[j]
  BY <1>0, <1>4 DEF n
<1>11. FirstBreak(rows, i, "hash_mismatch")
  BY <1>0, <1>6, <1>7, <1>9, <1>10, FirstDifference
<1> QED
  BY <1>5, <1>6, <1>11

Swapped(rows, i) ==
    /\ rows \in [DOMAIN ledger -> {ledger[k] : k \in DOMAIN ledger}]
    /\ rows[i] = ledger[i + 1] /\ rows[i + 1] = ledger[i]
    /\ \A k \in DOMAIN ledger \ {i, i + 1} : rows[k] = ledger[k]

LEMMA SwapBreaks ==
    ASSUME Honest, NEW i \in Chained(ledger), i + 1 \in Chained(ledger),
           NEW rows, Swapped(rows, i)
    PROVE  /\ rows \in Seq({rows[k] : k \in DOMAIN rows})
           /\ Shaped(rows, Len(rows))
           /\ \E at \in i..i + 1 : FirstBreak(rows, at, "broken_link")
<1> DEFINE n == Len(ledger)
           j == i + 1
<1>0. /\ LegacyRows \in Nat /\ n \in Nat /\ Shaped(ledger, n) /\ DOMAIN ledger = 1..n
      /\ i \in LegacyRows + 1..n /\ j \in LegacyRows + 1..n /\ j # LegacyRows + 1 /\ j - 1 = i /\ j # i
      /\ LinkOk(ledger, i) /\ LinkOk(ledger, j) /\ HashOk(ledger, j)
  BY HonestIsUnbroken DEF Shaped
<1>1. /\ ledger[i].entryHash # ledger[i].prevHash /\ ledger[j].entryHash # Null
      /\ i = LegacyRows + 1 => ledger[i].prevHash = Null
  <2>1. ledger[i].entryHash # ledger[i].prevHash /\ ledger[j].entryHash # Null
    BY <1>0, PredecessorIsPast
  <2> QED
    BY <1>0, <2>1 DEF Honest, Distinct
<1> HIDE DEF n, j
<1>2. rows = [k \in 1..n |-> rows[k]]
  BY <1>0 DEF Swapped
<1>3. /\ DOMAIN rows = 1..n /\ rows[i] = ledger[j] /\ rows[j] = ledger[i]
      /\ \A k \in 1..n : k # i /\ k # j => rows[k] = ledger[k]
  BY <1>0 DEF j, Swapped
<1>4. rows \in Seq({rows[k] : k \in DOMAIN rows}) /\ Len(rows) = n
  <2> DEFINE S == {rows[k] : k \in DOMAIN rows}
  <2>1. rows \in [1..n -> S] /\ n \in Nat
    BY <1>0, <1>2
  <2> HIDE DEF S
  <2>2. rows \in Seq(S) /\ Len(rows) = n
    BY <2>1, IntervalIsSequence
  <2> QED
    BY <2>2 DEF S
<1>5. Shaped(rows, n)
  BY <1>0, <1>3 DEF Shaped, Chained
<1>6. ledger[j].prevHash = ledger[i].entryHash
  <2>1. LinkOk(ledger, j) <=> j = LegacyRows + 1 \/ ledger[j].prevHash = ledger[j - 1].entryHash
    BY <1>0, JudgedByPredecessor
  <2> QED
    BY <1>0, <2>1
<1>7. ASSUME i = LegacyRows + 1
      PROVE  \E at \in i..i + 1 : FirstBreak(rows, at, "broken_link")
  <2>1. LinkOk(rows, j) <=> j = LegacyRows + 1 \/ rows[j].prevHash = rows[j - 1].entryHash
    <3>1. n \in Nat /\ j \in LegacyRows + 1..n /\ Shaped(rows, n)
      BY <1>0, <1>5
    <3> QED
      BY <3>1, JudgedByPredecessor, Zenon
  <2>2. ~LinkOk(rows, j)
    BY <1>0, <1>1, <1>3, <1>7, <2>1
  <2>3. j \in Broken(rows)
    BY <1>0, <1>5, <2>2, JudgedByPredecessor
  <2>4. LinkOk(rows, i) /\ HashOk(rows, i)
    BY <1>0, <1>3, <1>5, <1>7, JudgedByPredecessor DEF HashOk
  <2>5. \A k \in Broken(rows) : k \in LegacyRows + 1..n /\ k # i
    BY <2>4, <1>5 DEF Broken, Shaped
  <2>6. \A k \in Broken(rows) : j <= k
    BY <1>0, <1>7, <2>5
  <2>7. FirstBreak(rows, j, "broken_link")
    BY <2>2, <2>3, <2>6 DEF FirstBreak
  <2> QED
    BY <1>0, <2>7 DEF j
<1>8. ASSUME i # LegacyRows + 1
      PROVE  \E at \in i..i + 1 : FirstBreak(rows, at, "broken_link")
  <2>1. i - 1 \in 1..n /\ i - 1 # i /\ i - 1 # j
    BY <1>0, <1>8
  <2>2. ledger[i].prevHash = ledger[i - 1].entryHash
    BY <1>0, <1>8, JudgedByPredecessor
  <2>3. LinkOk(rows, i) <=> rows[i].prevHash = rows[i - 1].entryHash
    <3>1. n \in Nat /\ i \in LegacyRows + 1..n /\ Shaped(rows, n)
      BY <1>0, <1>5
    <3> QED
      BY <1>8, <3>1, JudgedByPredecessor, Zenon
  <2>4. ~LinkOk(rows, i)
    BY <1>1, <1>3, <1>6, <2>1, <2>2, <2>3
  <2>5. i \in Broken(rows)
    BY <1>0, <1>5, <2>4, JudgedByPredecessor
  <2>6. i <= Len(ledger) + 1 /\ \A k \in 1..i - 1 : rows[k] = ledger[k]
    BY <1>0, <1>3 DEF n
  <2>7. FirstBreak(rows, i, "broken_link")
    BY <1>0, <1>5, <2>4, <2>5, <2>6, FirstDifference
  <2> QED
    BY <1>0, <2>7 DEF j
<1> QED
  BY <1>4, <1>5, <1>7, <1>8

LEMMA RemovalBreaks ==
    ASSUME Honest, NEW i \in Chained(ledger),
           NEW rows, rows = RemoveAt(ledger, i)
    PROVE  /\ rows \in Seq({rows[k] : k \in DOMAIN rows})
           /\ Shaped(rows, Len(rows))
           /\ ChainedBefore(ledger, i) # {} /\ i # Max(Chained(ledger)) =>
                FirstBreak(rows, i, "broken_link")
<1> DEFINE n == Len(ledger)
           m == n - 1
<1>0. /\ LegacyRows \in Nat /\ n \in Nat /\ Shaped(ledger, n) /\ DOMAIN ledger = 1..n
      /\ ledger \in Seq({ledger[k] : k \in DOMAIN ledger})
      /\ i \in LegacyRows + 1..n /\ m \in Nat
  BY HonestIsUnbroken DEF Shaped
<1>1. /\ rows \in Seq({ledger[k] : k \in DOMAIN ledger}) /\ Len(rows) = m
      /\ \A k \in 1..m : rows[k] = IF k < i THEN ledger[k] ELSE ledger[k + 1]
  <2> DEFINE S == {ledger[k] : k \in DOMAIN ledger}
             p == i - 1
             q == n - i
  <2>1. ledger \in Seq(S) /\ rows = SubSeq(ledger, 1, p) \o SubSeq(ledger, i + 1, n)
        /\ p \in 0..n /\ q \in 0..n /\ i \in 1..n
    BY <1>0 DEF RemoveAt
  <2> HIDE DEF S
  <2>2. /\ SubSeq(ledger, 1, p) \in Seq(S) /\ Len(SubSeq(ledger, 1, p)) = p
        /\ \A k \in 1..p : SubSeq(ledger, 1, p)[k] = ledger[k]
    <3>1. 1 \in Int /\ p \in Int /\ \A k \in 1..p : ledger[k] \in S
      BY <1>0, <2>1
    <3>2. p - 1 + 1 = p /\ (IF 1 <= p THEN p - 1 + 1 ELSE 0) = p /\ \A k \in 1..p : 1 + k - 1 = k
      <4>1. \A a \in Nat : /\ a - 1 + 1 = a /\ (IF 1 <= a THEN a - 1 + 1 ELSE 0) = a
                            /\ \A k \in Nat : 1 + k - 1 = k
        OBVIOUS
      <4>2. p \in Nat
        BY <1>0, <2>1
      <4> HIDE DEF p
      <4> QED
        BY <4>1, <4>2
    <3> DEFINE a == SubSeq(ledger, 1, p)
    <3>3. /\ a \in Seq(S) /\ Len(a) = IF 1 <= p THEN p - 1 + 1 ELSE 0
          /\ \A k \in 1..p - 1 + 1 : a[k] = ledger[1 + k - 1]
      BY <3>1, SubSeqProperties
    <3> HIDE DEF a, p
    <3>4. a \in Seq(S) /\ Len(a) = p /\ \A k \in 1..p : a[k] = ledger[k]
      BY <3>2, <3>3
    <3> QED
      BY <3>4 DEF a
  <2>3. /\ SubSeq(ledger, i + 1, n) \in Seq(S) /\ Len(SubSeq(ledger, i + 1, n)) = q
        /\ \A k \in 1..q : SubSeq(ledger, i + 1, n)[k] = ledger[i + k]
    <3>1. i + 1 \in Int /\ n \in Int /\ \A k \in i + 1..n : ledger[k] \in S
      BY <1>0, <2>1
    <3>2. n - (i + 1) + 1 = q /\ (IF i + 1 <= n THEN n - (i + 1) + 1 ELSE 0) = q
          /\ \A k \in 1..q : (i + 1) + k - 1 = i + k
      <4>1. \A a, b \in Nat : b <= a =>
                /\ a - (b + 1) + 1 = a - b /\ (IF b + 1 <= a THEN a - (b + 1) + 1 ELSE 0) = a - b
                /\ \A k \in Nat : (b + 1) + k - 1 = b + k
        OBVIOUS
      <4>2. n \in Nat /\ i \in Nat /\ i <= n /\ q = n - i
        BY <1>0, <2>1
      <4> HIDE DEF n, q
      <4> QED
        BY <4>1, <4>2
    <3> DEFINE b == SubSeq(ledger, i + 1, n)
    <3>3. /\ b \in Seq(S) /\ Len(b) = IF i + 1 <= n THEN n - (i + 1) + 1 ELSE 0
          /\ \A k \in 1..n - (i + 1) + 1 : b[k] = ledger[(i + 1) + k - 1]
      BY <3>1, SubSeqProperties
    <3> HIDE DEF b, q, n
    <3>4. b \in Seq(S) /\ Len(b) = q /\ \A k \in 1..q : b[k] = ledger[i + k]
      BY <3>2, <3>3
    <3> QED
      BY <3>4 DEF b
  <2> DEFINE a == SubSeq(ledger, 1, p)
             b == SubSeq(ledger, i + 1, n)
  <2>4. p + q = m /\ p \in Nat /\ q \in Nat /\ \A k \in 1..m : k < i <=> k <= p
    BY <1>0
  <2>5. /\ a \in Seq(S) /\ b \in Seq(S) /\ Len(a) = p /\ Len(b) = q /\ rows = a \o b
    BY <2>1, <2>2, <2>3
  <2>6. \A k \in 1..p : a[k] = ledger[k]
    BY <2>2
  <2>7. \A k \in 1..q : b[k] = ledger[i + k]
    BY <2>3
  <2> HIDE DEF a, b
  <2>8. /\ rows \in Seq(S) /\ Len(rows) = p + q
        /\ \A k \in 1..p + q : rows[k] = IF k <= p THEN a[k] ELSE b[k - p]
    BY <2>4, <2>5
  <2>9. \A k \in 1..m : rows[k] = IF k < i THEN ledger[k] ELSE ledger[k + 1]
    <3> SUFFICES ASSUME NEW k \in 1..m
                 PROVE  rows[k] = IF k < i THEN ledger[k] ELSE ledger[k + 1]
      OBVIOUS
    <3>1. k \in 1..p + q /\ (k < i <=> k <= p)
      BY <2>4
    <3>2. CASE k <= p
      BY <2>4, <2>6, <2>8, <3>1, <3>2
    <3>3. CASE ~(k <= p)
      <4>1. k - p \in 1..q /\ i + (k - p) = k + 1
        BY <1>0, <2>4, <3>1, <3>3
      <4> QED
        BY <2>7, <2>8, <3>1, <3>3, <4>1
    <3> QED
      BY <3>2, <3>3
  <2> QED
    BY <2>4, <2>8, <2>9 DEF S
<1> HIDE DEF n, m
<1>2. DOMAIN rows = 1..m
  BY <1>0, <1>1
<1>3. rows \in Seq({rows[k] : k \in DOMAIN rows})
  <2> DEFINE S == {rows[k] : k \in DOMAIN rows}
  <2>1. rows \in [1..m -> S]
    BY <1>0, <1>1, <1>2
  <2> HIDE DEF S
  <2>2. rows \in Seq(S) /\ Len(rows) = m
    BY <1>0, <2>1
  <2> QED
    BY <2>2 DEF S
<1>4. Shaped(rows, m)
  <2>1. n = m + 1 /\ m >= LegacyRows
    BY <1>0 DEF m
  <2>2. ASSUME NEW k \in 1..m
        PROVE  rows[k].entryHash # Null <=> k >= LegacyRows + 1
    <3>1. \A l \in 1..n : ledger[l].entryHash # Null <=> l >= LegacyRows + 1
      BY <1>0 DEF Shaped, Chained
    <3>2. k \in 1..n /\ k + 1 \in 1..n
      BY <1>0, <2>1
    <3>3. CASE k < i
      BY <1>0, <1>1, <3>1, <3>2, <3>3
    <3>4. CASE ~(k < i)
      BY <1>0, <1>1, <3>1, <3>2, <3>4
    <3> QED
      BY <3>3, <3>4
  <2>3. Chained(rows) = LegacyRows + 1..m
    BY <1>0, <1>2, <2>2 DEF Chained
  <2> QED
    BY <1>2, <2>1, <2>3 DEF Shaped
<1>5. ASSUME ChainedBefore(ledger, i) # {}, i # Max(Chained(ledger))
      PROVE  FirstBreak(rows, i, "broken_link")
  <2>1. i # LegacyRows + 1
    BY <1>0, <1>5 DEF ChainedBefore, Shaped
  <2>2. i # n
    <3>1. LegacyRows + 1 \in Nat /\ LegacyRows + 1 <= n
      BY <1>0
    <3>2. Max(Chained(ledger)) = n
      BY <1>0, <3>1, MaxOfInterval DEF Shaped
    <3> QED
      BY <1>5, <3>2
  <2> DEFINE j == i + 1
             h == i - 1
  <2>3. /\ i \in LegacyRows + 1..m /\ j \in LegacyRows + 1..n /\ j # LegacyRows + 1 /\ j - 1 = i
        /\ h \in LegacyRows + 1..n /\ h \in 1..m /\ h < i /\ i \in h..n
    BY <1>0, <2>1, <2>2 DEF m
  <2>4. rows[i] = ledger[j] /\ rows[h] = ledger[h]
    BY <1>1, <2>3
  <2>5. ledger[j].prevHash = ledger[i].entryHash
    <3>1. LinkOk(ledger, j)
      BY <2>3, HonestIsUnbroken DEF n
    <3> QED
      BY <1>0, <2>3, <3>1, JudgedByPredecessor
  <2>6. ledger[i].entryHash # ledger[h].entryHash
    BY <1>0, <2>3 DEF Honest, Distinct, n
  <2>7. LinkOk(rows, i) <=> rows[i].prevHash = rows[h].entryHash
    BY <1>0, <1>4, <2>1, <2>3, JudgedByPredecessor
  <2>8. ~LinkOk(rows, i)
    BY <2>4, <2>5, <2>6, <2>7
  <2>9. i \in Broken(rows)
    BY <1>0, <1>4, <2>3, <2>8, JudgedByPredecessor
  <2>10. i <= Len(ledger) + 1 /\ \A k \in 1..i - 1 : rows[k] = ledger[k]
    BY <1>0, <1>1, <2>3 DEF n
  <2> QED
    BY <1>0, <1>4, <2>3, <2>8, <2>9, <2>10, FirstDifference
<1> QED
  BY <1>1, <1>3, <1>4, <1>5

(***************************************************************************)
(* The walk of a ledger tampered with.                                     *)
(***************************************************************************)
Located ==
    /\ damage.kind = "edit" => FirstBreak(ledger, damage.at, "hash_mismatch")
    /\ damage.kind = "swap" =>
          \E at \in damage.at..damage.at + 1 : FirstBreak(ledger, at, "broken_link")
    /\ damage.kind = "remove" /\ ~damage.first /\ ~damage.last =>
          FirstBreak(ledger, damage.at, "broken_link")

TInv ==
    /\ \E S : ledger \in Seq(S)
    /\ Shaped(ledger, Len(ledger))
    /\ damage = NoDamage => Honest
    /\ Located

LEMMA InitTInv == TamperInit => TInv
<1> SUFFICES ASSUME TamperInit PROVE TInv
  OBVIOUS
<1>1. Honest /\ damage = NoDamage
  BY InitHonest DEF TamperInit
<1>2. Located
  BY <1>1 DEF Located, NoDamage
<1>3. Shaped(ledger, Len(ledger)) /\ \E S : ledger \in Seq(S)
  BY <1>1, HonestIsUnbroken
<1> QED
  BY <1>1, <1>2, <1>3 DEF TInv

LEMMA StepTInv == TInv /\ [TamperNext]_tamperVars => TInv'
<1> SUFFICES ASSUME TInv, [TamperNext]_tamperVars PROVE TInv'
  OBVIOUS
<1>1. CASE Tamper
  <2>1. Honest /\ (EditRow \/ RemoveRow \/ SwapRows)
    BY <1>1 DEF Tamper, TInv
  <2>2. CASE EditRow
    <3>1. PICK i \in Chained(ledger), e \in Entries :
            /\ Canon[e] # Canon[ledger[i].entry]
            /\ ledger' = [ledger EXCEPT ![i].entry = e]
            /\ damage' = Damage("edit", i)
      BY <2>2 DEF EditRow
    <3>2. /\ ledger' \in Seq({ledger'[k] : k \in DOMAIN ledger'})
          /\ Shaped(ledger', Len(ledger'))
          /\ FirstBreak(ledger', i, "hash_mismatch")
      <4> DEFINE rows == ledger'
      <4>1. Edited(rows, i, e)
        BY <3>1 DEF Edited
      <4>2. Canon[e] # Canon[ledger[i].entry]
        BY <3>1
      <4> HIDE DEF rows
      <4>3. /\ rows \in Seq({rows[k] : k \in DOMAIN rows})
            /\ Shaped(rows, Len(rows))
            /\ FirstBreak(rows, i, "hash_mismatch")
        BY <2>1, <4>1, <4>2, EditBreaks
      <4> QED
        BY <4>3 DEF rows
    <3>3. damage'.kind = "edit" /\ damage'.at = i
      BY <3>1 DEF Damage
    <3> QED
      BY <3>2, <3>3 DEF TInv, Located, NoDamage
  <2>3. CASE SwapRows
    <3>1. PICK i \in Chained(ledger) :
            /\ i + 1 \in Chained(ledger)
            /\ ledger' = [ledger EXCEPT ![i] = ledger[i + 1], ![i + 1] = ledger[i]]
            /\ damage' = Damage("swap", i)
      BY <2>3 DEF SwapRows
    <3>2. /\ ledger' \in Seq({ledger'[k] : k \in DOMAIN ledger'})
          /\ Shaped(ledger', Len(ledger'))
          /\ \E at \in i..i + 1 : FirstBreak(ledger', at, "broken_link")
      <4> DEFINE rows == ledger'
      <4>1. rows = [ledger EXCEPT ![i] = ledger[i + 1], ![i + 1] = ledger[i]]
        BY <3>1
      <4>2. DOMAIN ledger = 1..Len(ledger) /\ Len(ledger) \in Nat /\ i \in 1..Len(ledger) /\ i + 1 \in 1..Len(ledger)
        BY <2>1, <3>1, HonestIsUnbroken DEF Shaped
      <4> HIDE DEF rows
      <4>3. rows \in [DOMAIN ledger -> {ledger[k] : k \in DOMAIN ledger}]
        BY <4>1, <4>2
      <4>4. rows[i] = ledger[i + 1] /\ rows[i + 1] = ledger[i]
            /\ \A k \in DOMAIN ledger \ {i, i + 1} : rows[k] = ledger[k]
        BY <4>1, <4>2
      <4>5. Swapped(rows, i)
        BY <4>3, <4>4 DEF Swapped
      <4>6. /\ rows \in Seq({rows[k] : k \in DOMAIN rows})
            /\ Shaped(rows, Len(rows))
            /\ \E at \in i..i + 1 : FirstBreak(rows, at, "broken_link")
        BY <2>1, <3>1, <4>5, SwapBreaks
      <4> QED
        BY <4>6 DEF rows
    <3>3. damage'.kind = "swap" /\ damage'.at = i
      BY <3>1 DEF Damage
    <3> QED
      BY <3>2, <3>3 DEF TInv, Located, NoDamage
  <2>4. CASE RemoveRow
    <3>1. PICK i \in Chained(ledger) :
            ledger' = RemoveAt(ledger, i) /\ damage' = Damage("remove", i)
      BY <2>4 DEF RemoveRow
    <3>2. /\ ledger' \in Seq({ledger'[k] : k \in DOMAIN ledger'})
          /\ Shaped(ledger', Len(ledger'))
          /\ ChainedBefore(ledger, i) # {} /\ i # Max(Chained(ledger)) =>
                FirstBreak(ledger', i, "broken_link")
      BY <2>1, <3>1, RemovalBreaks
    <3>3. /\ damage'.kind = "remove" /\ damage'.at = i
          /\ ~damage'.first => ChainedBefore(ledger, i) # {}
          /\ ~damage'.last => i # Max(Chained(ledger))
      BY <3>1 DEF Damage
    <3>4. Located'
      BY <3>2, <3>3 DEF Located
    <3>5. damage' # NoDamage
      BY <3>3 DEF NoDamage
    <3> QED
      BY <3>2, <3>4, <3>5 DEF TInv
  <2> QED
    BY <2>1, <2>2, <2>3, <2>4
<1>2. ASSUME ChainNext, UNCHANGED damage
      PROVE  TInv'
  <2>1. damage' = NoDamage => Honest'
    BY <1>2, StepHonest DEF TInv
  <2>2. CASE UNCHANGED ledger
    BY <1>2, <2>1, <2>2 DEF TInv, Located, FirstBreak
  <2>3. ASSUME NEW w \in Writers, InsertAndCommit(w)
        PROVE  TInv'
    <3> DEFINE r == Row(pending[w], tip[w], HashEntry(pending[w], tip[w]))
    <3>1. ledger' = Append(ledger, r) /\ r.entryHash # Null
      BY <2>3, HashNotNull DEF InsertAndCommit, Row
    <3> HIDE DEF r
    <3>2. PICK S : ledger \in Seq(S)
      BY DEF TInv
    <3>3. /\ ledger' \in Seq(S \union {r})
          /\ Shaped(ledger', Len(ledger'))
          /\ \A at, reason : FirstBreak(ledger, at, reason) => FirstBreak(ledger', at, reason)
      BY <3>1, <3>2, AppendKeepsFirstBreak DEF TInv
    <3>4. Located'
      BY <1>2, <3>3 DEF TInv, Located
    <3> QED
      BY <2>1, <3>3, <3>4 DEF TInv
  <2> QED
    BY <1>2, <2>2, <2>3 DEF ChainNext, Step, Begin, Acquire, ReadTip, Abort
<1>3. CASE UNCHANGED tamperVars
  <2>1. damage' = NoDamage => Honest'
    BY <1>3, StepHonest DEF TInv, tamperVars
  <2> QED
    BY <1>3, <2>1 DEF TInv, Located, FirstBreak, tamperVars, chainVars
<1> QED
  BY <1>1, <1>2, <1>3 DEF TamperNext

\* Whatever the appenders interleave and abort, the walk of a ledger nobody has
\* tampered with succeeds, for any number of writers and rows (verifyLedger).
THEOREM HonestLedgersVerify == TamperSpec => []HonestLedgerVerifies
<1>1. TInv => HonestLedgerVerifies
  BY IntactVerifies DEF TInv, Honest, HonestLedgerVerifies, IInv
<1> QED
  BY <1>1, InitTInv, StepTInv, PTL DEF TamperSpec

\* A row edited, two neighbours swapped or a row taken from between two others is
\* named by the walk with the right reason, for ever after and behind whatever is
\* appended, for any number of writers, rows and legacy rows (verifyChain).
THEOREM TamperingIsAlwaysLocated == TamperSpec => []TamperingIsLocated
<1>1. TInv => TamperingIsLocated
  <2> SUFFICES ASSUME TInv PROVE TamperingIsLocated
    OBVIOUS
  <2>1. DOMAIN ledger \subseteq Nat
    BY DEF TInv, Shaped
  <2>2. \A at, reason : FirstBreak(ledger, at, reason) =>
            Walked = [ok |-> FALSE, brokenAt |-> at, reason |-> reason]
    BY <2>1, WalkReportsFirstBreak DEF Walked
  <2>3. EditIsLocated /\ InteriorRemovalIsLocated
    BY <2>2 DEF TInv, Located, EditIsLocated, InteriorRemovalIsLocated
  <2>4. SwapIsLocated
    BY <2>2 DEF TInv, Located, SwapIsLocated
  <2> QED
    BY <2>3, <2>4 DEF TamperingIsLocated
<1> QED
  BY <1>1, InitTInv, StepTInv, PTL DEF TamperSpec
=============================================================================
