------------------------------- MODULE Chain -------------------------------
(***************************************************************************)
(* The chain as the recorder's readers see it: a head that grows, and      *)
(* transactions that are mined, dropped and mined again while they are     *)
(* within Confirmations blocks of the head. Not part of the repository:    *)
(* it is what BlockReader and ChainReader are assumed to answer from.      *)
(***************************************************************************)
EXTENDS Integers

CONSTANTS
    Txs,            \* transactions that may ever be mined
    Confirmations,  \* ScannerOptions.confirmations; also the deepest reorg
    MaxHead         \* bound: the last block mined

ASSUME ConfirmationsAssumption == Confirmations \in Nat
ASSUME MaxHeadAssumption == MaxHead \in Nat

VARIABLES
    head,     \* number of the newest block
    blockOf   \* the block a transaction is in, or NotMined

chainVars == <<head, blockOf>>

NotMined == -1

ChainTypeOK ==
    /\ head \in 0..MaxHead
    /\ blockOf \in [Txs -> Int]
    /\ \A t \in Txs : blockOf[t] = NotMined \/ blockOf[t] \in 0..head

ChainInit ==
    /\ head = 0
    /\ blockOf = [t \in Txs |-> NotMined]

\* Blocks a reorganisation may still change.
Shallow(b) == head - Confirmations < b /\ b <= head

\* A block is added, with any of the transactions that are in none.
Mine ==
    /\ head < MaxHead
    /\ head' = head + 1
    /\ \E included \in SUBSET {t \in Txs : blockOf[t] = NotMined} :
           blockOf' = [t \in Txs |-> IF t \in included THEN head' ELSE blockOf[t]]

\* A reorganisation moves one transaction to another shallow block, or out of
\* the chain; several in a row are any reorganisation of that depth.
Reorg(t) ==
    /\ blockOf[t] = NotMined \/ Shallow(blockOf[t])
    /\ \E b \in {n \in 0..MaxHead : Shallow(n)} \cup {NotMined} :
           blockOf' = [blockOf EXCEPT ![t] = b]
    /\ UNCHANGED head

ChainNext == Mine \/ \E t \in Txs : Reorg(t)

\* Deep enough that no reorganisation reaches it.
Final(t) == blockOf[t] # NotMined /\ blockOf[t] <= head - Confirmations
=============================================================================
