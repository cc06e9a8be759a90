---------------------------- MODULE LedgerTamper ---------------------------
(***************************************************************************)
(* What the walk of the hash chain can and cannot see.  One row of the     *)
(* ledger is edited, removed or swapped with its neighbour behind the      *)
(* application's back, at any moment of any interleaving of the appenders, *)
(* which go on appending afterwards.                                       *)
(***************************************************************************)
EXTENDS LedgerChain, SequencesExt

VARIABLE damage   \* what was done, to which row, and to how many chained rows then

tamperVars == <<chainVars, damage>>

NoDamage == [kind |-> "none", at |-> 0, first |-> FALSE, last |-> FALSE]

Damage(kind, i) ==
    [kind |-> kind, at |-> i,
     first |-> ChainedBefore(ledger, i) = {},
     last |-> i = Max(Chained(ledger))]

TamperInit == ChainInit /\ damage = NoDamage

\* A column of a chained row changes, so that its canonical form does too.
EditRow ==
    \E i \in Chained(ledger), e \in Entries :
        /\ Canon[e] # Canon[ledger[i].entry]
        /\ ledger' = [ledger EXCEPT ![i].entry = e]
        /\ damage' = Damage("edit", i)

RemoveRow ==
    \E i \in Chained(ledger) :
        /\ ledger' = RemoveAt(ledger, i)
        /\ damage' = Damage("remove", i)

SwapRows ==
    \E i \in Chained(ledger) :
        /\ i + 1 \in Chained(ledger)
        /\ ledger' = [ledger EXCEPT ![i] = ledger[i + 1], ![i + 1] = ledger[i]]
        /\ damage' = Damage("swap", i)

Tamper ==
    /\ damage = NoDamage
    /\ EditRow \/ RemoveRow \/ SwapRows
    /\ UNCHANGED <<lock, stage, pending, tip>>

TamperNext == (ChainNext /\ UNCHANGED damage) \/ Tamper

TamperSpec == TamperInit /\ [][TamperNext]_tamperVars

\* The appenders are scheduled as ever.
TamperFairSpec == TamperSpec /\ Fairness

Walked == VerifyChain(ledger)

\* A ledger nobody has tampered with always verifies, whatever interleaving of
\* appenders wrote it (verifyLedger), and keeps the invariant that is why.
HonestLedgerVerifies == damage = NoDamage => ChainVerifies /\ IInv

\* An edited attempt is reported for ever after, as an edit, at the very row
\* that was edited - whatever honest rows are appended behind it
\* (verifyChain: "a hash that does not match its own contents means the entry
\* was edited").
EditIsLocated ==
    damage.kind = "edit" =>
        Walked = [ok |-> FALSE, brokenAt |-> damage.at, reason |-> "hash_mismatch"]

\* Reordering two attempts is always reported as a broken link, at one of the
\* two rows or the one after them (verifyChain).
SwapIsLocated ==
    damage.kind = "swap" =>
        /\ Walked.reason = "broken_link"
        /\ Walked.brokenAt \in damage.at..damage.at + 1

\* Removing an attempt that has chained neighbours on both sides is reported as
\* a broken link, at the row that followed it (verifyChain).
InteriorRemovalIsLocated ==
    damage.kind = "remove" /\ ~damage.first /\ ~damage.last =>
        Walked = [ok |-> FALSE, brokenAt |-> damage.at, reason |-> "broken_link"]

\* One row edited, swapped or taken from between two others, whenever and behind
\* whatever appends, is found at its place by the next walk (verifyChain).
TamperingIsLocated == EditIsLocated /\ SwapIsLocated /\ InteriorRemovalIsLocated

\* What the header of ledger-chain.ts promises: remove any entry and the walk
\* no longer verifies.
AnyRemovalIsSeen == damage.kind = "remove" => ~Walked.ok
=============================================================================
