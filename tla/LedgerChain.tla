---------------------------- MODULE LedgerChain ----------------------------
(***************************************************************************)
(* The hash-chained remediation ledger of packages/store.                  *)
(*                                                                         *)
(* recordRemediationAttempt appends one row in a transaction that takes an *)
(* advisory lock, reads the newest chained row's hash and inserts a row    *)
(* that carries it; verifyLedger walks all rows in append order.  Any      *)
(* number of callers (remediate calls, user-signed submissions) append     *)
(* concurrently.  SHA-256 is idealised as an injective function: the hash  *)
(* of an entry after prevHash is the pair of the two.                      *)
(***************************************************************************)
EXTENDS Naturals, Sequences, FiniteSets, FiniteSetsExt

CONSTANTS
    Writers,    \* concurrent callers of recordRemediationAttempt
    NoWriter,   \* the advisory lock is free
    Entries,    \* what an attempt row says: every chained column of it
    Canon,      \* canonicalise, as a function from an entry to its canonical form
    Legacy,     \* a row written before the chain existed holds this entry
    LegacyRows, \* how many such rows there are
    MaxRows     \* bound on the rows of the ledger

ASSUME CanonAssumption ==
    /\ Canon \in [Entries -> Entries]
    /\ \A e \in Entries : Canon[Canon[e]] = Canon[e]
ASSUME WriterAssumption == NoWriter \notin Writers
ASSUME LegacyAssumption == Legacy \in Entries /\ LegacyRows \in Nat /\ MaxRows \in Nat

VARIABLES
    ledger,     \* remediation_ledger in seq order
    lock,       \* holder of pg_advisory_xact_lock(LEDGER_LOCK_KEY)
    stage,      \* where each caller's transaction is
    pending,    \* the entry each caller is recording
    tip         \* the prevHash each caller has read

chainVars == <<ledger, lock, stage, pending, tip>>

Null == <<>>  \* a null hash column

\* The canonical form leaves out what the row says.
HashEntryWithoutEntry(e, prev) == <<Legacy, prev>>

HashEntry(e, prev) == <<Canon[e], prev>>  \* null stands for the genesis marker

Row(e, prev, h) == [entry |-> e, prevHash |-> prev, entryHash |-> h]

(***************************************************************************)
(* The walk.                                                               *)
(***************************************************************************)
Chained(rows) == {i \in DOMAIN rows : rows[i].entryHash # Null}
ChainedBefore(rows, i) == {j \in Chained(rows) : j < i}

\* Each row's own word is taken for the row before it.
ExpectedLinkTrusting(rows, i) == rows[i].prevHash

\* The second chained row is taken at its word as well as the first.
ExpectedLinkLate(rows, i) ==
    IF Cardinality(ChainedBefore(rows, i)) <= 1 THEN rows[i].prevHash
    ELSE rows[Max(ChainedBefore(rows, i))].entryHash

\* The first chained row may name any predecessor: it is taken at its word.
ExpectedLink(rows, i) ==
    IF ChainedBefore(rows, i) = {} THEN rows[i].prevHash
    ELSE rows[Max(ChainedBefore(rows, i))].entryHash

LinkOk(rows, i) == rows[i].prevHash = ExpectedLink(rows, i)
HashOk(rows, i) == rows[i].entryHash = HashEntry(rows[i].entry, rows[i].prevHash)
Broken(rows) == {i \in Chained(rows) : ~LinkOk(rows, i) \/ ~HashOk(rows, i)}

VerifyChain(rows) ==
    IF Chained(rows) = {} THEN [ok |-> TRUE, brokenAt |-> 0, reason |-> "empty"]
    ELSE IF Broken(rows) = {} THEN [ok |-> TRUE, brokenAt |-> 0, reason |-> "ok"]
    ELSE LET at == Min(Broken(rows)) IN
         [ok |-> FALSE, brokenAt |-> at,
          reason |-> IF LinkOk(rows, at) THEN "hash_mismatch" ELSE "broken_link"]

\* The hash of the newest chained row, or null.
TipHash(rows) ==
    IF Chained(rows) = {} THEN Null ELSE rows[Max(Chained(rows))].entryHash

(***************************************************************************)
(* Appending.                                                              *)
(***************************************************************************)
ChainInit ==
    /\ ledger = [i \in 1..LegacyRows |-> Row(Legacy, Null, Null)]
    /\ lock = NoWriter
    /\ stage = [w \in Writers |-> "idle"]
    /\ pending = [w \in Writers |-> Legacy]
    /\ tip = [w \in Writers |-> Null]

Begin(w, e) ==
    /\ stage[w] = "idle"
    /\ Len(ledger) + Cardinality({v \in Writers : stage[v] # "idle"}) < MaxRows
    /\ stage' = [stage EXCEPT ![w] = "waiting"]
    /\ pending' = [pending EXCEPT ![w] = e]
    /\ UNCHANGED <<ledger, lock, tip>>

\* The lock is taken as if it were a per-row lock that two callers may share.
AcquireShared(w) ==
    /\ stage[w] = "waiting"
    /\ lock' = w
    /\ stage' = [stage EXCEPT ![w] = "locked"]
    /\ UNCHANGED <<ledger, pending, tip>>

Acquire(w) ==
    /\ stage[w] = "waiting"
    /\ lock = NoWriter
    /\ lock' = w
    /\ stage' = [stage EXCEPT ![w] = "locked"]
    /\ UNCHANGED <<ledger, pending, tip>>

ReadTip(w) ==
    /\ stage[w] = "locked"
    /\ tip' = [tip EXCEPT ![w] = TipHash(ledger)]
    /\ stage' = [stage EXCEPT ![w] = "read"]
    /\ UNCHANGED <<ledger, lock, pending>>

\* The insert is visible to others when the transaction commits, which also
\* releases the lock.
InsertAndCommit(w) ==
    /\ stage[w] = "read"
    /\ ledger' = Append(ledger,
                        Row(pending[w], tip[w], HashEntry(pending[w], tip[w])))
    /\ lock' = NoWriter
    /\ stage' = [stage EXCEPT ![w] = "idle"]
    /\ UNCHANGED <<pending, tip>>

\* The transaction fails at a statement: it is rolled back and the caller's
\* promise rejects.
AbortKeepingLock(w) ==
    /\ stage[w] \in {"locked", "read"}
    /\ stage' = [stage EXCEPT ![w] = "idle"]
    /\ UNCHANGED <<ledger, lock, pending, tip>>

Abort(w) ==
    /\ stage[w] \in {"locked", "read"}
    /\ lock' = NoWriter
    /\ stage' = [stage EXCEPT ![w] = "idle"]
    /\ UNCHANGED <<ledger, pending, tip>>

Step(w) == Acquire(w) \/ ReadTip(w) \/ InsertAndCommit(w) \/ Abort(w)

ChainNext == \E w \in Writers : Step(w) \/ \E e \in Entries : Begin(w, e)

ChainSpec == ChainInit /\ [][ChainNext]_chainVars

\* Postgres grants an advisory lock in the order it was asked for and a
\* statement eventually returns or fails.
Fairness ==
    \A w \in Writers :
        /\ SF_chainVars(Acquire(w))
        /\ WF_chainVars(ReadTip(w))
        /\ WF_chainVars(InsertAndCommit(w) \/ Abort(w))

(***************************************************************************)
(* Properties.                                                             *)
(***************************************************************************)
Hashes == {ledger[i].entryHash : i \in DOMAIN ledger} \union {Null}

ChainTypeOK ==
    /\ ledger \in Seq({ledger[i] : i \in DOMAIN ledger})
    /\ \A i \in DOMAIN ledger :
          /\ ledger[i].entry \in Entries
          /\ ledger[i].prevHash \in Hashes
    /\ lock \in Writers \union {NoWriter}
    /\ stage \in [Writers -> {"idle", "waiting", "locked", "read"}]
    /\ pending \in [Writers -> Entries]
    /\ tip \in [Writers -> Hashes]

\* Rows from before the chain come first and are the only ones without a hash;
\* every later row hashes what it says and follows the row before it.
Intact ==
    /\ Len(ledger) >= LegacyRows
    /\ \A i \in 1..LegacyRows : ledger[i].entryHash = Null
    /\ \A i \in LegacyRows + 1..Len(ledger) :
          /\ ledger[i].entryHash = HashEntry(ledger[i].entry, ledger[i].prevHash)
          /\ i > LegacyRows + 1 => ledger[i].prevHash = ledger[i - 1].entryHash

\* Whoever is past the lock holds it, so the tip it has read is still the tip.
TipIsCurrent ==
    \A w \in Writers :
        /\ stage[w] \in {"locked", "read"} => lock = w
        /\ stage[w] = "read" => tip[w] = TipHash(ledger)

IInv == ChainTypeOK /\ Intact /\ TipIsCurrent

\* However the callers interleave, the ledger they leave verifies: no two rows
\* ever claim to follow the same one, which is what the advisory lock is for
\* (recordRemediationAttempt).
ChainVerifies == VerifyChain(ledger).ok

\* A caller that asked to record an attempt is answered: nobody holds the
\* ledger lock for ever, whoever failed while holding it.
EveryWriteReturns == \A w \in Writers : stage[w] = "waiting" ~> stage[w] = "idle"
=============================================================================
