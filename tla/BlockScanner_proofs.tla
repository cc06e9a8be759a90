------------------------ MODULE BlockScanner_proofs ------------------------
(***************************************************************************)
(* For any addresses, any transactions, any number of overlapping ticks    *)
(* and any confirmation depth, the cursor never passes a block that was    *)
(* not examined, and nothing is registered that a reorganisation may drop. *)
(***************************************************************************)
EXTENDS BlockScanner, TLAPS

\* The newest block no reorganisation reaches.
Deep == head - Confirmations

\* Whoever a tick does not watch was registered no earlier than block b.
LateFor(k, b) == \A s \in active \ tick[k].watched : since[s] >= b

\* Blocks from some first scan up to c are settled.
Backed(c) == \E o \in origins : o <= c /\ \A b \in o..c : Settled(b)

\* A transaction of block n is registered as its established addresses ask.
Done(t, n) ==
    /\ From[t] \in Established(n) => rows[t] = From[t]
    /\ To[t] \in Established(n) => rows[t] # Nobody

\* What a tick may rely on at each of its steps.
HeadLocal(k) ==
    /\ tick[k].seen \in 0..head
    /\ head <= tick[k].seen + Confirmations
    /\ LateFor(k, tick[k].seen)
    /\ tick[k].last = None

CursorLocal(k) ==
    /\ tick[k].safe \in 0..Deep
    /\ LateFor(k, tick[k].safe)
    /\ tick[k].last = None

\* The blocks a tick has behind it, from its start up to c.
Behind(k, c) ==
    /\ tick[k].start \in 0..(c + 1)
    /\ \A b \in tick[k].start..c : Settled(b)
    /\ ~tick[k].fresh => Backed(tick[k].start - 1)

LoopLocal(k) ==
    /\ tick[k].n \in tick[k].start..tick[k].end
    /\ tick[k].end <= Deep
    /\ Behind(k, tick[k].n - 1)
    /\ tick[k].last # None => tick[k].last = tick[k].n - 1 /\ tick[k].start <= tick[k].last
    /\ LateFor(k, tick[k].end)

InsertLocal(k) ==
    \A t \in Txs :
        /\ t \in tick[k].found => /\ blockOf[t] = tick[k].n
                                  /\ Owner(t, tick[k].watched) # Nobody
        /\ t \notin tick[k].found /\ blockOf[t] = tick[k].n => Done(t, tick[k].n)

CommitLocal(k) ==
    /\ tick[k].last \in tick[k].start..Deep
    /\ Behind(k, tick[k].last)

LocalInv(k) ==
    /\ tick[k].pc = "head" => HeadLocal(k)
    /\ tick[k].pc = "cursor" => CursorLocal(k)
    /\ tick[k].pc \in {"block", "insert"} => LoopLocal(k)
    /\ tick[k].pc = "insert" => InsertLocal(k)
    /\ tick[k].pc = "commit" => CommitLocal(k)

\* A registered transaction is final, and its established sender owns it.
RowsInv ==
    \A t \in Txs : rows[t] # Nobody =>
        /\ blockOf[t] \in 0..Deep
        /\ From[t] \in Established(blockOf[t]) => rows[t] = From[t]

CursorInv ==
    /\ cursor # None => cursor \in 0..Deep /\ Backed(cursor)
    /\ origins \subseteq 0..Deep

IInv ==
    /\ TypeOK
    /\ \A s \in Signers : since[s] <= head
    /\ RowsInv
    /\ CursorInv
    /\ \A k \in Ticks : LocalInv(k)

-----------------------------------------------------------------------------
(* What no step undoes *)

Grows ==
    /\ head <= head'
    /\ \A t \in Txs : blockOf[t] \in 0..Deep \/ blockOf'[t] \in 0..Deep
                          => blockOf'[t] = blockOf[t]
    /\ \A s \in active' : since'[s] < head => s \in active /\ since'[s] = since[s]
    /\ \A t \in Txs : rows[t] # Nobody => rows'[t] = rows[t]
    /\ origins \subseteq origins'

\* The constants, as the provers need them.
LEMMA Constants ==
    /\ Confirmations \in Nat /\ MaxHead \in Nat /\ MaxBlocks \in Nat \ {0}
    /\ From \in [Txs -> Signers] /\ To \in [Txs -> Signers] /\ Nobody \notin Signers
    BY ConfirmationsAssumption, MaxHeadAssumption, MaxBlocksAssumption,
       PartiesAssumption, NobodyAssumption

LEMMA IdleIsATick == /\ Idle \in TickType /\ None \in Int
                    /\ Idle.pc = "idle" /\ Idle.last = None
    BY DEF Idle, TickType, None

LEMMA DeepGrows ==
    ASSUME ChainTypeOK, ChainTypeOK', head <= head'
    PROVE  /\ head \in Nat /\ head' \in Nat /\ head <= head' /\ Deep \in Int /\ Deep' \in Int
           /\ Deep <= Deep' /\ Deep <= head
<1>1. head \in Nat /\ head' \in Nat
    BY Constants DEF ChainTypeOK
<1>2. Deep = head - Confirmations /\ Deep' = head' - Confirmations
    BY DEF Deep
<1>3. Deep \in Int /\ Deep' \in Int
    BY <1>1, <1>2, ConfirmationsAssumption
<1>4. Deep <= Deep'
    <2>1. \A a, b, c \in Int : a <= b => a - c <= b - c
        OBVIOUS
    <2>2. head \in Int /\ head' \in Int /\ Confirmations \in Int
        BY <1>1, ConfirmationsAssumption
    <2>3. head - Confirmations <= head' - Confirmations
        BY <2>1, <2>2, Zenon
    <2>. QED
        BY <2>3, <1>2
<1>5. Deep <= head
    BY <1>1, <1>2, ConfirmationsAssumption
<1>. QED
    BY <1>1, <1>3, <1>4, <1>5

\* The chain only grows, and leaves alone what is deep.
LEMMA ChainGrows ==
    ASSUME TypeOK, ChainNext
    PROVE  /\ ChainTypeOK'
           /\ head <= head'
           /\ \A t \in Txs : blockOf[t] \in 0..Deep \/ blockOf'[t] \in 0..Deep
                                 => blockOf'[t] = blockOf[t]
<1>1. head \in 0..MaxHead /\ blockOf \in [Txs -> Int]
      /\ \A t \in Txs : blockOf[t] = NotMined \/ blockOf[t] \in 0..head
    BY DEF TypeOK, ChainTypeOK
<1>2. CASE Mine
    <2>1. head' = head + 1 /\ head' \in 0..MaxHead
        BY <1>1, <1>2, Constants DEF Mine
    <2>2. PICK included \in SUBSET {t \in Txs : blockOf[t] = NotMined} :
              blockOf' = [t \in Txs |-> IF t \in included THEN head' ELSE blockOf[t]]
        BY <1>2 DEF Mine
    <2>3. \A t \in Txs : blockOf'[t] = blockOf[t]
                         \/ (blockOf[t] = NotMined /\ blockOf'[t] = head + 1)
        BY <2>1, <2>2
    <2>4. blockOf' \in [Txs -> Int]
        BY <1>1, <2>1, <2>2
    <2>. QED
        BY <1>1, <2>1, <2>3, <2>4, Constants DEF ChainTypeOK, Deep, NotMined
<1>3. ASSUME NEW t \in Txs, Reorg(t)
      PROVE  /\ ChainTypeOK' /\ head <= head'
             /\ \A u \in Txs : blockOf[u] \in 0..Deep \/ blockOf'[u] \in 0..Deep
                                   => blockOf'[u] = blockOf[u]
    <2>1. PICK b \in {n \in 0..MaxHead : Shallow(n)} \cup {NotMined} :
              blockOf' = [blockOf EXCEPT ![t] = b]
        BY <1>3 DEF Reorg
    <2>2. head' = head
        BY <1>3 DEF Reorg
    <2>3. b = NotMined \/ (b \in 0..head /\ b > Deep)
        BY <1>1, <2>1, Constants DEF Shallow, Deep
    <2>4. blockOf[t] = NotMined \/ blockOf[t] > Deep
        BY <1>1, <1>3, Constants DEF Reorg, Shallow, Deep
    <2>5. blockOf' \in [Txs -> Int]
        BY <1>1, <2>1, <2>3 DEF NotMined
    <2>. QED
        BY <1>1, <2>1, <2>2, <2>3, <2>4, <2>5, Constants
        DEF ChainTypeOK, Deep, NotMined
<1>. QED
    BY <1>2, <1>3 DEF ChainNext

\* A settled block stays settled.
LEMMA SettledStays ==
    ASSUME TypeOK, TypeOK', Grows, NEW b \in 0..Deep, Settled(b)
    PROVE  Settled(b)'
<1>1. head \in Nat /\ b <= head
    BY Constants DEF TypeOK, ChainTypeOK, Deep
<1>2. since' \in [Signers -> Int] /\ active' \subseteq Signers
    BY DEF TypeOK
<1>3. Established(b)' \subseteq Established(b)
    BY <1>1, <1>2 DEF Established, Grows
<1>4. ASSUME NEW t \in Txs, blockOf'[t] = b
      PROVE  /\ From[t] \in Established(b)' => rows'[t] = From[t]
             /\ To[t] \in Established(b)' => rows'[t] # Nobody
    <2>1. blockOf[t] = b
        BY <1>4 DEF Grows
    <2>2. /\ From[t] \in Established(b) => rows[t] = From[t]
          /\ To[t] \in Established(b) => rows[t] # Nobody
        BY <2>1 DEF Settled
    <2>3. From[t] # Nobody
        BY Constants
    <2>. QED
        BY <1>3, <2>2, <2>3 DEF Grows
<1>. QED
    BY <1>4 DEF Settled

LEMMA BackedStays ==
    ASSUME TypeOK, TypeOK', Grows, origins \subseteq 0..Deep,
           NEW c \in Int, c <= Deep, Backed(c)
    PROVE  Backed(c)'
<1>1. PICK o \in origins : o <= c /\ \A b \in o..c : Settled(b)
    BY DEF Backed
<1>2. \A b \in o..c : b \in 0..Deep
    BY <1>1, Constants DEF TypeOK, ChainTypeOK, Deep
<1>3. \A b \in o..c : Settled(b)'
    BY <1>1, <1>2, SettledStays
<1>4. o \in origins'
    BY DEF Grows
<1>. QED
    BY <1>1, <1>3, <1>4 DEF Backed

\* What a tick has behind it stays behind it.
LEMMA BehindStays ==
    ASSUME TypeOK, TypeOK', Grows, CursorInv, NEW k \in Ticks, NEW c \in Int,
           c <= Deep, Behind(k, c),
           tick'[k].start = tick[k].start, tick'[k].fresh = tick[k].fresh
    PROVE  Behind(k, c)'
<1>1. tick[k].start \in Int /\ Deep \in Int
    BY DeepGrows DEF TypeOK, TickType, Grows
<1>2. \A b \in tick[k].start..c : Settled(b)'
    BY <1>1, SettledStays DEF Behind
<1>3. ~tick[k].fresh => Backed(tick[k].start - 1)'
    <2>1. tick[k].start - 1 \in Int /\ tick[k].start - 1 <= Deep
        BY <1>1 DEF Behind
    <2>. QED
        BY <2>1, BackedStays DEF Behind, CursorInv
<1>. QED
    BY <1>2, <1>3 DEF Behind

\* Whoever was registered late still was.
LEMMA LateStays ==
    ASSUME TypeOK, TypeOK', Grows, NEW k \in Ticks, NEW b \in Int, b <= head,
           LateFor(k, b), tick'[k].watched = tick[k].watched
    PROVE  LateFor(k, b)'
<1>1. head \in Int /\ active' \subseteq Signers /\ since' \in [Signers -> Int]
    BY DeepGrows DEF TypeOK, Grows
<1>2. ASSUME NEW s \in active' \ tick[k].watched, since'[s] < b
      PROVE  FALSE
    <2>1. since'[s] < head /\ since'[s] \in Int
        BY <1>1, <1>2
    <2>2. s \in active /\ since'[s] = since[s]
        BY <1>2, <2>1 DEF Grows
    <2>. QED
        BY <1>2, <2>1, <2>2 DEF LateFor
<1>. QED
    BY <1>1, <1>2 DEF LateFor

\* A tick that does not move can still rely on all it did.
LEMMA LocalStays ==
    ASSUME TypeOK, TypeOK', Grows, CursorInv, NEW k \in Ticks, LocalInv(k),
           tick'[k] = tick[k],
           tick[k].pc = "head" => head' <= tick[k].seen + Confirmations
    PROVE  LocalInv(k)'
<1>1. /\ head \in Nat /\ head' \in Nat /\ head <= head' /\ Deep \in Int /\ Deep' \in Int
      /\ Deep <= Deep' /\ Deep <= head
    BY DeepGrows DEF TypeOK, Grows
<1>2. tick[k] \in TickType /\ active' \subseteq Signers /\ since' \in [Signers -> Int]
    BY DEF TypeOK
<1>3. tick[k].seen \in Int /\ tick[k].safe \in Int /\ tick[k].start \in Int
      /\ tick[k].n \in Int /\ tick[k].end \in Int /\ tick[k].last \in Int
    BY <1>2 DEF TickType
<1>4. ASSUME NEW b \in Int, b <= head, LateFor(k, b)
      PROVE  LateFor(k, b)'
    BY <1>4, LateStays
<1>5. ASSUME NEW c \in Int, c <= Deep, Behind(k, c)
      PROVE  Behind(k, c)'
    BY <1>5, BehindStays
<1>6. CASE tick[k].pc = "idle"
    BY <1>6 DEF LocalInv
<1>7. CASE tick[k].pc = "head"
    <2>1. HeadLocal(k)'
        BY <1>1, <1>3, <1>4, <1>7 DEF LocalInv, HeadLocal
    <2>. QED
        BY <1>7, <2>1 DEF LocalInv
<1>8. CASE tick[k].pc = "cursor"
    <2>1. CursorLocal(k)'
        BY <1>1, <1>3, <1>4, <1>8 DEF LocalInv, CursorLocal
    <2>. QED
        BY <1>8, <2>1 DEF LocalInv
<1>9. CASE tick[k].pc \in {"block", "insert"}
    <2>1. LoopLocal(k)
        BY <1>9 DEF LocalInv
    <2>2. tick[k].end <= head /\ tick[k].n - 1 <= Deep
        BY <1>1, <1>3, <2>1 DEF LoopLocal
    <2>3. LateFor(k, tick[k].end)' /\ Behind(k, tick[k].n - 1)'
        BY <1>3, <1>4, <1>5, <2>1, <2>2 DEF LoopLocal
    <2>4. LoopLocal(k)'
        BY <1>1, <1>3, <2>1, <2>3 DEF LoopLocal
    <2>5. ASSUME tick[k].pc = "insert"
          PROVE  InsertLocal(k)'
        <3>1. InsertLocal(k) /\ tick[k].n \in 0..Deep
            BY <1>1, <1>3, <2>1, <2>5 DEF LocalInv, LoopLocal, Behind
        <3>2. Established(tick[k].n)' \subseteq Established(tick[k].n)
            BY <1>1, <1>2, <3>1 DEF Established, Grows
        <3>3. ASSUME NEW t \in Txs
              PROVE  /\ t \in tick[k].found => /\ blockOf'[t] = tick[k].n
                                               /\ Owner(t, tick[k].watched) # Nobody
                     /\ t \notin tick[k].found /\ blockOf'[t] = tick[k].n
                            => Done(t, tick[k].n)'
            <4>1. blockOf'[t] = tick[k].n <=> blockOf[t] = tick[k].n
                BY <3>1 DEF Grows
            <4>2. Done(t, tick[k].n) => Done(t, tick[k].n)'
                BY <3>2, Constants DEF Done, Grows
            <4>. QED
                BY <3>1, <4>1, <4>2 DEF InsertLocal
        <3>. QED
            BY <3>3 DEF InsertLocal, Owner
    <2>. QED
        BY <1>9, <2>4, <2>5 DEF LocalInv
<1>10. CASE tick[k].pc = "commit"
    <2>1. CommitLocal(k)
        BY <1>10 DEF LocalInv
    <2>2. Behind(k, tick[k].last)'
        BY <1>3, <1>5, <2>1 DEF CommitLocal
    <2>3. CommitLocal(k)'
        BY <1>1, <1>3, <2>1, <2>2 DEF CommitLocal
    <2>. QED
        BY <1>10, <2>3 DEF LocalInv
<1>. QED
    BY <1>2, <1>6, <1>7, <1>8, <1>9, <1>10 DEF TickType

\* The parts of IInv that a step must look at; the rest is carried over.
LEMMA Carry ==
    ASSUME IInv, TypeOK', Grows, \A s \in Signers : since'[s] <= head',
           RowsInv', CursorInv',
           \A k \in Ticks :
               \/ LocalInv(k)'
               \/ /\ tick'[k] = tick[k]
                  /\ tick[k].pc = "head" => head' <= tick[k].seen + Confirmations
    PROVE  IInv'
<1>1. ASSUME NEW k \in Ticks PROVE LocalInv(k)'
    BY LocalStays DEF IInv
<1>. QED
    BY <1>1 DEF IInv

\* A step that only moves tick k keeps IInv if it keeps k's part.
LEMMA QuietStep ==
    ASSUME IInv, UNCHANGED <<head, blockOf, active, since, rows, cursor, origins>>,
           NEW k \in Ticks, tick' \in [Ticks -> TickType],
           \A j \in Ticks \ {k} : tick'[j] = tick[j], LocalInv(k)'
    PROVE  IInv'
<1>1. TypeOK'
    BY DEF IInv, TypeOK, ChainTypeOK
<1>2. Grows
    <2>1. head \in Int
        BY DEF IInv, TypeOK, ChainTypeOK
    <2>. QED
        BY <2>1 DEF Grows
<1>3. RowsInv' /\ CursorInv' /\ \A s \in Signers : since'[s] <= head'
    BY DEF IInv, RowsInv, CursorInv, Backed, Settled, Established, Deep
<1>4. ASSUME NEW j \in Ticks, j # k
      PROVE  /\ tick'[j] = tick[j]
             /\ tick[j].pc = "head" => head' <= tick[j].seen + Confirmations
    BY <1>4 DEF IInv, LocalInv, HeadLocal
<1>. QED
    BY <1>1, <1>2, <1>3, <1>4, Carry

\* Going idle is always such a step.
LEMMA IdleStep ==
    ASSUME IInv, NEW k \in Ticks, Set(k, Idle), UNCHANGED <<rows, cursor, origins>>
    PROVE  IInv'
<1>1. tick' = [tick EXCEPT ![k] = Idle] /\ tick \in [Ticks -> TickType]
    BY DEF Set, IInv, TypeOK
<1>2. tick' \in [Ticks -> TickType] /\ tick'[k].pc = "idle"
      /\ \A j \in Ticks \ {k} : tick'[j] = tick[j]
    BY <1>1, IdleIsATick
<1>3. LocalInv(k)'
    BY <1>2 DEF LocalInv
<1>. QED
    BY <1>2, <1>3, QuietStep DEF Set, chainVars

-----------------------------------------------------------------------------
(* One lemma per action *)

LEMMA InitIInv == ASSUME Init PROVE IInv
<1>1. TypeOK
    BY Constants, IdleIsATick DEF Init, ChainInit, TypeOK, ChainTypeOK, NotMined, None
<1>. QED
    BY <1>1, IdleIsATick DEF Init, ChainInit, IInv, RowsInv, CursorInv, LocalInv, None

LEMMA ChainStepIInv ==
    ASSUME IInv, SlowReads = FALSE, ChainStep
    PROVE  IInv'
<1>1. /\ TypeOK /\ RowsInv /\ CursorInv
      /\ UNCHANGED <<active, since, rows, cursor, origins, tick>>
    BY DEF IInv, ChainStep, scanVars
<1>2. /\ ChainTypeOK' /\ head <= head'
      /\ \A t \in Txs : blockOf[t] \in 0..Deep \/ blockOf'[t] \in 0..Deep
                            => blockOf'[t] = blockOf[t]
    BY <1>1, ChainGrows DEF ChainStep
<1>3. TypeOK'
    BY <1>1, <1>2 DEF TypeOK
<1>4. Grows
    BY <1>1, <1>2 DEF Grows
<1>5. head \in Int /\ head' \in Int /\ Deep \in Int /\ Deep' \in Int /\ Deep <= Deep'
    BY <1>1, <1>2, DeepGrows DEF TypeOK
<1>6. \A s \in Signers : since'[s] <= head'
    BY <1>1, <1>2, <1>5 DEF IInv, TypeOK
<1>7. RowsInv'
    BY <1>1, <1>2, <1>5 DEF RowsInv, Established
<1>8. CursorInv'
    BY <1>1, <1>3, <1>4, <1>5, BackedStays DEF CursorInv, TypeOK, None
<1>9. ASSUME NEW k \in Ticks, tick[k].pc = "head"
      PROVE  head' <= tick[k].seen + Confirmations
    <2>1. tick[k].seen \in Int /\ head <= tick[k].seen + Confirmations
        BY <1>1, <1>9 DEF IInv, LocalInv, HeadLocal
    <2>2. CASE head' = head
        BY <2>1, <2>2
    <2>3. CASE head' # head
        <3>1. head < tick[k].seen + Confirmations
            BY <1>9, <2>3 DEF ChainStep, ReadsAreQuick
        <3>2. head' = head + 1
            BY <2>3 DEF ChainStep, ChainNext, Mine, Reorg
        <3>. QED
            BY <1>5, <2>1, <3>1, <3>2, Constants
    <2>. QED
        BY <2>2, <2>3
<1>. QED
    BY <1>1, <1>3, <1>4, <1>6, <1>7, <1>8, <1>9, Carry

LEMMA RegistrationIInv ==
    ASSUME IInv, NEW s \in Signers, Register(s) \/ Unregister(s)
    PROVE  IInv'
<1>1. /\ TypeOK /\ RowsInv /\ CursorInv
      /\ UNCHANGED <<head, blockOf, rows, cursor, origins, tick>>
    BY DEF IInv, Register, Unregister, chainVars
<1>2. head \in Nat /\ Deep \in Int /\ Deep <= head /\ Deep' = Deep
    BY <1>1, Constants DEF TypeOK, ChainTypeOK, Deep
<1>3. \/ active' = active \cup {s} /\ since' = [since EXCEPT ![s] = head]
      \/ active' = active \ {s} /\ since' = [since EXCEPT ![s] = 0]
    BY DEF Register, Unregister
<1>4. since \in [Signers -> Int] /\ active \subseteq Signers
    BY <1>1 DEF TypeOK
<1>5. active' \subseteq Signers /\ since' \in [Signers -> Int]
    BY <1>2, <1>3, <1>4
<1>6. TypeOK'
    BY <1>1, <1>5 DEF TypeOK, ChainTypeOK
<1>7. \A u \in active' : since'[u] < head => u \in active /\ since'[u] = since[u]
    BY <1>2, <1>3, <1>4
<1>8. Grows
    BY <1>1, <1>2, <1>7 DEF Grows
<1>9. \A u \in Signers : since'[u] <= head'
    BY <1>1, <1>2, <1>3, <1>4 DEF IInv
<1>10. RowsInv'
    <2>1. ASSUME NEW t \in Txs, rows[t] # Nobody, From[t] \in Established(blockOf[t])'
          PROVE  rows[t] = From[t]
        <3>1. blockOf[t] \in 0..Deep
            BY <1>1, <2>1 DEF RowsInv
        <3>2. From[t] \in Established(blockOf[t])
            BY <1>1, <1>2, <1>5, <1>7, <2>1, <3>1 DEF Established
        <3>. QED
            BY <1>1, <2>1, <3>2 DEF RowsInv
    <2>. QED
        BY <1>1, <1>2, <2>1 DEF RowsInv
<1>11. CursorInv'
    BY <1>1, <1>2, <1>6, <1>8, BackedStays DEF CursorInv, TypeOK, None
<1>12. ASSUME NEW k \in Ticks, tick[k].pc = "head"
       PROVE  head' <= tick[k].seen + Confirmations
    BY <1>1, <1>12 DEF IInv, LocalInv, HeadLocal
<1>. QED
    BY <1>1, <1>6, <1>8, <1>9, <1>10, <1>11, <1>12, Carry

\* The bounds of a moving tick's state, as arithmetic facts.
LEMMA Bounds ==
    ASSUME IInv, NEW k \in Ticks
    PROVE  /\ head \in Nat /\ Deep \in Int /\ Deep <= head
           /\ tick \in [Ticks -> TickType] /\ tick[k] \in TickType
           /\ cursor \in Int /\ active \subseteq Signers
           /\ since \in [Signers -> Int] /\ LocalInv(k)
<1>1. cursor \in Int
    BY Constants, IdleIsATick DEF IInv, TypeOK
<1>. QED
    BY <1>1, DeepGrows, Constants DEF IInv, TypeOK, ChainTypeOK, Deep

LEMMA ReadSignersIInv ==
    ASSUME IInv, NEW k \in Ticks, ReadSigners(k)
    PROVE  IInv'
<1>. DEFINE next == [Idle EXCEPT !.pc = "head", !.watched = active, !.seen = head]
<1>1. UNCHANGED <<head, blockOf, active, since, rows, cursor, origins>>
      /\ tick' = [tick EXCEPT ![k] = next]
    BY DEF ReadSigners, Set, chainVars
<1>0. next = [Idle EXCEPT !.pc = "head", !.watched = active, !.seen = head]
    OBVIOUS
<1>9. active \in SUBSET Signers /\ head \in Int
    BY Bounds
<1>. HIDE DEF next
<1>2. next \in TickType /\ next.pc = "head" /\ next.seen = head /\ next.watched = active
      /\ next.last = None
    <2>1. next \in TickType
        BY <1>0, <1>9, IdleIsATick DEF TickType
    <2>. QED
        BY <1>0, <2>1, IdleIsATick DEF TickType
<1>3. tick' \in [Ticks -> TickType] /\ tick'[k] = next
      /\ \A j \in Ticks \ {k} : tick'[j] = tick[j]
    BY <1>1, <1>2, Bounds
<1>4. LocalInv(k)'
    <2>1. head' = head /\ tick'[k].seen = head /\ tick'[k].watched = active'
          /\ tick'[k].last = None
        BY <1>1, <1>2, <1>3
    <2>2. HeadLocal(k)'
        BY <2>1, Bounds, Constants DEF HeadLocal, LateFor
    <2>. QED
        BY <1>2, <1>3, <2>2 DEF LocalInv
<1>. QED
    BY <1>1, <1>3, <1>4, QuietStep

LEMMA ReadHeadIInv ==
    ASSUME IInv, NEW k \in Ticks, ReadHead(k)
    PROVE  IInv'
<1>1. PICK h \in 0..head :
          Set(k, IF SafeHead(h) < 0 THEN Idle
                 ELSE [tick[k] EXCEPT !.pc = "cursor", !.seen = None,
                                      !.safe = SafeHead(h)])
    BY DEF ReadHead
<1>2. tick[k].pc = "head" /\ UNCHANGED <<rows, cursor, origins>>
    BY DEF ReadHead
<1>3. CASE SafeHead(h) < 0
    BY <1>1, <1>2, <1>3, IdleStep
<1>4. CASE ~(SafeHead(h) < 0)
    <2>. DEFINE next == [tick[k] EXCEPT !.pc = "cursor", !.seen = None,
                                        !.safe = SafeHead(h)]
    <2>1. UNCHANGED <<head, blockOf, active, since, rows, cursor, origins>>
          /\ tick' = [tick EXCEPT ![k] = next]
        BY <1>1, <1>2, <1>4 DEF Set, chainVars
    <2>2. HeadLocal(k) /\ tick[k].seen \in Int
        BY <1>2, Bounds DEF LocalInv, TickType
    <2>3. SafeHead(h) \in 0..Deep /\ SafeHead(h) <= tick[k].seen
        BY <1>1, <1>4, <2>2, Bounds, Constants DEF SafeHead, Deep, HeadLocal
    <2>a. next = [tick[k] EXCEPT !.pc = "cursor", !.seen = None, !.safe = SafeHead(h)]
        OBVIOUS
    <2>b. tick[k] \in TickType /\ SafeHead(h) \in Int
        BY <2>3, Bounds
    <2>. HIDE DEF next
    <2>4. next \in TickType /\ next.pc = "cursor" /\ next.safe = SafeHead(h)
          /\ next.watched = tick[k].watched /\ next.last = tick[k].last
        <3>1. next \in TickType
            BY <2>a, <2>b, IdleIsATick DEF TickType
        <3>. QED
            BY <2>a, <2>b, <3>1 DEF TickType
    <2>5. tick' \in [Ticks -> TickType] /\ tick'[k] = next
          /\ \A j \in Ticks \ {k} : tick'[j] = tick[j]
        BY <2>1, <2>4, Bounds
    <2>6. LocalInv(k)'
        <3>1. \A s \in active \ tick[k].watched : since[s] >= SafeHead(h)
            BY <2>2, <2>3, Bounds DEF HeadLocal, LateFor
        <3>2. Deep' = Deep /\ active' = active /\ since' = since
              /\ tick'[k].safe = SafeHead(h) /\ tick'[k].watched = tick[k].watched
              /\ tick'[k].last = tick[k].last
            BY <2>1, <2>4, <2>5 DEF Deep
        <3>3. CursorLocal(k)'
            BY <2>2, <2>3, <3>1, <3>2 DEF HeadLocal, CursorLocal, LateFor
        <3>. QED
            BY <2>4, <2>5, <3>3 DEF LocalInv
    <2>. QED
        BY <2>1, <2>5, <2>6, QuietStep
<1>. QED
    BY <1>3, <1>4

LEMMA ReadCursorIInv ==
    ASSUME IInv, NEW k \in Ticks, ReadCursor(k)
    PROVE  IInv'
<1>. DEFINE safe == tick[k].safe
            start == StartOf(safe)
            end == IF safe - start >= MaxBlocks THEN start + MaxBlocks - 1 ELSE safe
            next == [tick[k] EXCEPT !.pc = "block", !.safe = None,
                                    !.fresh = (cursor = None),
                                    !.start = start, !.n = start, !.end = end]
<1>1. tick[k].pc = "cursor" /\ UNCHANGED <<rows, cursor, origins>>
      /\ Set(k, IF start > safe THEN Idle ELSE next)
    BY DEF ReadCursor
<1>2. CASE start > safe
    BY <1>1, <1>2, IdleStep
<1>3. CASE ~(start > safe)
    <2>1. UNCHANGED <<head, blockOf, active, since, rows, cursor, origins>>
          /\ tick' = [tick EXCEPT ![k] = next]
        BY <1>1, <1>3 DEF Set, chainVars
    <2>2. CursorLocal(k) /\ CursorInv /\ TypeOK
        BY <1>1, Bounds DEF LocalInv, IInv
    <2>3. safe \in 0..Deep /\ LateFor(k, safe)
        BY <2>2 DEF CursorLocal
    <2>4. start \in 0..Deep /\ start <= safe
          /\ (cursor # None => start = cursor + 1 /\ Backed(start - 1))
        BY <1>3, <2>2, <2>3, Bounds DEF StartOf, CursorInv, None
    <2>5. end \in start..safe
        BY <2>3, <2>4, Bounds, Constants
    <2>6. PICK fresh \in BOOLEAN : fresh <=> cursor = None
        OBVIOUS
    <2>7. next = [tick[k] EXCEPT !.pc = "block", !.safe = None, !.fresh = fresh,
                                 !.start = start, !.n = start, !.end = end]
        BY <2>6, Zenon
    <2>. HIDE DEF next, start, end, safe
    <2>a. tick[k] \in TickType /\ start \in Int /\ end \in Int
        BY <2>3, <2>4, <2>5, Bounds
    <2>8. next \in TickType /\ next.pc = "block" /\ next.fresh = fresh
          /\ next.start = start /\ next.n = start /\ next.end = end
          /\ next.last = tick[k].last /\ next.watched = tick[k].watched
        <3>1. next \in TickType
            BY <2>a, <2>7, IdleIsATick DEF TickType
        <3>. QED
            BY <2>a, <2>7, <3>1 DEF TickType
    <2>9. tick' \in [Ticks -> TickType] /\ tick'[k] = next
          /\ \A j \in Ticks \ {k} : tick'[j] = tick[j]
        BY <2>1, <2>8, Bounds
    <2>10. PICK a \in Int, e \in Int : a = start /\ e = end
        BY <2>a
    <2>11. UNCHANGED <<Deep, active, since, origins, rows, blockOf>>
          /\ tick'[k].start = a /\ tick'[k].n = a /\ tick'[k].end = e
          /\ tick'[k].last = None /\ tick'[k].watched = tick[k].watched
          /\ tick'[k].fresh = fresh
        BY <2>1, <2>2, <2>8, <2>9, <2>10 DEF Deep, CursorLocal
    <2>12. LateFor(k, e)'
        <3>1. \A s \in active \ tick[k].watched : since[s] >= e
            BY <2>3, <2>5, <2>10, Bounds DEF LateFor
        <3>. QED
            BY <2>11, <3>1 DEF LateFor
    <2>13. Behind(k, a - 1)'
        <3>1. ~fresh => Backed(a - 1)
            BY <2>4, <2>6, <2>10
        <3>2. ~fresh => Backed(a - 1)'
            BY <2>11, <3>1 DEF Backed, Settled, Established
        <3>3. a \in 0..(a - 1 + 1) /\ \A b \in a..(a - 1) : FALSE
            BY <2>4, <2>10
        <3>. QED
            BY <2>11, <3>2, <3>3 DEF Behind
    <2>14. LoopLocal(k)'
        <3>1. a \in a..e /\ e <= Deep
            BY <2>3, <2>4, <2>5, <2>10, Bounds
        <3>. QED
            BY <2>11, <2>12, <2>13, <3>1 DEF LoopLocal
    <2>15. LocalInv(k)'
        BY <2>8, <2>9, <2>14 DEF LocalInv
    <2>. QED
        BY <2>1, <2>9, <2>15, QuietStep
<1>. QED
    BY <1>2, <1>3

\* Where the loop of a tick may go next.
LEMMA LoopTypes ==
    ASSUME NEW r \in TickType
    PROVE  Stopped(r) \in TickType /\ Examined(r) \in TickType
<1>1. ASSUME NEW q \in TickType PROVE Stopped(q) \in TickType
    BY IdleIsATick DEF Stopped, TickType
<1>2. [r EXCEPT !.last = r.n] \in TickType
    BY DEF TickType
<1>3. [r EXCEPT !.pc = "block", !.last = r.n, !.n = r.n + 1, !.found = {}] \in TickType
    <2>1. PICK m \in Int : m = r.n + 1
        BY DEF TickType
    <2>2. [r EXCEPT !.pc = "block", !.last = r.n, !.n = m, !.found = {}] \in TickType
        BY DEF TickType
    <2>. QED
        BY <2>1, <2>2
<1>. QED
    BY <1>1, <1>2, <1>3 DEF Examined

\* The loop's bounds, while it runs.
LEMMA LoopBounds ==
    ASSUME IInv, NEW k \in Ticks, tick[k].pc \in {"block", "insert"}
    PROVE  /\ LoopLocal(k) /\ tick[k].n \in 0..Deep /\ tick[k].start \in 0..tick[k].n
           /\ tick[k].n <= tick[k].end /\ tick[k].end \in Int /\ tick[k].last \in Int
<1>1. LoopLocal(k)
    BY Bounds DEF LocalInv
<1>2. tick[k].n \in Int /\ tick[k].start \in Int /\ tick[k].end \in Int
      /\ tick[k].last \in Int /\ Deep \in Int
    BY Bounds DEF TickType
<1>3. tick[k].start >= 0
    BY <1>1, <1>2 DEF LoopLocal, Behind
<1>. QED
    BY <1>1, <1>2, <1>3 DEF LoopLocal

\* A tick that leaves its loop can store what it examined.
LEMMA CommitReady ==
    ASSUME IInv, TypeOK', Grows, NEW k \in Ticks, NEW l \in Int,
           l \in tick[k].start..Deep, Behind(k, l)',
           tick'[k].pc = "commit", tick'[k].last = l, tick'[k].start = tick[k].start
    PROVE  LocalInv(k)'
<1>1. Deep \in Int /\ Deep' \in Int /\ Deep <= Deep' /\ tick[k].start \in Int
    BY DeepGrows, Bounds DEF IInv, TypeOK, Grows, TickType
<1>2. CommitLocal(k)'
    BY <1>1 DEF CommitLocal
<1>. QED
    BY <1>2 DEF LocalInv

LEMMA ExamineKeeps ==
    ASSUME IInv, TypeOK', Grows, NEW k \in Ticks, tick[k].pc \in {"block", "insert"},
           NEW m \in Int, m = tick[k].n, Settled(m)', tick'[k] = Examined(tick[k])
    PROVE  LocalInv(k)'
<1>1. /\ LoopLocal(k) /\ m \in 0..Deep /\ tick[k].start \in 0..m
      /\ m <= tick[k].end /\ tick[k].end \in Int /\ Deep \in Int
    BY LoopBounds, Bounds
<1>2. Behind(k, m)'
    <2>1. tick'[k].start = tick[k].start /\ tick'[k].fresh = tick[k].fresh
        <3>1. tick[k] \in TickType /\ tick[k].n # None
            BY <1>1, Bounds DEF None
        <3>2. CASE tick[k].n = tick[k].end
            <4>1. tick'[k] = [Idle EXCEPT !.pc = "commit", !.fresh = tick[k].fresh,
                                          !.start = tick[k].start, !.last = tick[k].n]
                BY <3>1, <3>2 DEF Examined, Stopped, TickType
            <4>. QED
                BY <4>1 DEF Idle
        <3>3. CASE tick[k].n # tick[k].end
            BY <3>1, <3>3 DEF Examined, TickType
        <3>. QED
            BY <3>2, <3>3
    <2>2. Behind(k, m - 1)'
        <3>1. Behind(k, m - 1) /\ m - 1 \in Int /\ m - 1 <= Deep
            BY <1>1 DEF LoopLocal
        <3>. QED
            BY <2>1, <3>1, BehindStays DEF IInv
    <2>. QED
        BY <1>1, <2>1, <2>2 DEF Behind
<1>3. CASE m = tick[k].end
    <2>1. tick'[k].pc = "commit" /\ tick'[k].last = m /\ tick'[k].start = tick[k].start
        BY <1>1, <1>3, Bounds DEF Examined, Stopped, TickType, Idle, None
    <2>. QED
        BY <1>1, <1>2, <2>1, CommitReady
<1>4. CASE m # tick[k].end
    <2>1. tick'[k] = [tick[k] EXCEPT !.pc = "block", !.last = tick[k].n,
                                     !.n = tick[k].n + 1, !.found = {}]
        BY <1>4 DEF Examined
    <2>2. /\ tick'[k].pc = "block" /\ tick'[k].last = m /\ tick'[k].n = m + 1
          /\ tick'[k].start = tick[k].start /\ tick'[k].end = tick[k].end
          /\ tick'[k].watched = tick[k].watched
        BY <2>1, Bounds DEF TickType
    <2>3. PICK e \in Int : e = tick[k].end
        BY <1>1
    <2>4. e <= Deep /\ e <= head /\ LateFor(k, e)
        BY <1>1, <2>3, Bounds DEF LoopLocal
    <2>5. LateFor(k, e)'
        BY <2>2, <2>4, LateStays DEF IInv
    <2>6. Deep' \in Int /\ Deep <= Deep'
        BY DeepGrows DEF IInv, TypeOK, Grows
    <2>7. m + 1 \in tick[k].start..e /\ e <= Deep' /\ m + 1 - 1 = m
          /\ tick[k].start <= m
        BY <1>1, <1>4, <2>3, <2>4, <2>6
    <2>8. LoopLocal(k)'
        BY <1>2, <2>2, <2>3, <2>5, <2>7 DEF LoopLocal
    <2>. QED
        BY <2>2, <2>8 DEF LocalInv
<1>. QED
    BY <1>3, <1>4

\* Nobody established is in a transaction that matches nobody watched.
LEMMA WatchedCoversEstablished ==
    ASSUME IInv, NEW k \in Ticks, tick[k].pc \in {"block", "insert"}
    PROVE  Established(tick[k].n) \subseteq tick[k].watched
<1>1. /\ LateFor(k, tick[k].end) /\ tick[k].n \in Int /\ tick[k].end \in Int
      /\ tick[k].n <= tick[k].end
    BY LoopBounds, Bounds DEF LoopLocal
<1>. QED
    BY <1>1, Bounds DEF Established, LateFor

LEMMA ReadBlockIInv ==
    ASSUME IInv, NEW k \in Ticks, ReadBlock(k)
    PROVE  IInv'
<1>. DEFINE found == Matching(tick[k].n, tick[k].watched)
<1>1. /\ tick[k].pc = "block"
      /\ UNCHANGED <<head, blockOf, active, since, rows, cursor, origins>>
      /\ tick' = [tick EXCEPT ![k] = IF found = {} THEN Examined(tick[k])
                                     ELSE [tick[k] EXCEPT !.pc = "insert", !.found = found]]
    BY DEF ReadBlock, Set, chainVars
<1>2. PICK f \in SUBSET Txs : f = found
    BY DEF Matching
<1>3. \A t \in Txs : t \in f <=> /\ blockOf[t] = tick[k].n
                                 /\ Owner(t, tick[k].watched) # Nobody
    BY <1>2 DEF Matching
<1>. HIDE DEF found
<1>4. \A t \in Txs \ f : blockOf[t] = tick[k].n =>
          From[t] \notin tick[k].watched /\ To[t] \notin tick[k].watched
    BY <1>3, Constants DEF Owner
<1>5. TypeOK /\ tick[k] \in TickType /\ tick \in [Ticks -> TickType]
    BY Bounds DEF IInv
<1>6. [tick[k] EXCEPT !.pc = "insert", !.found = f] \in TickType
    BY <1>5 DEF TickType
<1>7. tick' \in [Ticks -> TickType] /\ \A j \in Ticks \ {k} : tick'[j] = tick[j]
    BY <1>1, <1>2, <1>5, <1>6, LoopTypes
<1>8. TypeOK' /\ Grows
    BY <1>1, <1>5, <1>7, Bounds DEF TypeOK, ChainTypeOK, Grows
<1>9. PICK m \in Int : m = tick[k].n
    BY <1>5 DEF TickType
<1>10. CASE f = {}
    <2>1. Settled(m)
        BY <1>1, <1>4, <1>9, <1>10, WatchedCoversEstablished DEF Settled
    <2>2. m \in 0..Deep
        BY <1>1, <1>9, LoopBounds
    <2>3. Settled(m)'
        BY <1>5, <1>8, <2>1, <2>2, SettledStays
    <2>4. tick'[k] = Examined(tick[k])
        BY <1>1, <1>2, <1>5, <1>10
    <2>5. LocalInv(k)'
        BY <1>1, <1>8, <1>9, <2>3, <2>4, ExamineKeeps
    <2>. QED
        BY <1>1, <1>7, <2>5, QuietStep
<1>11. CASE f # {}
    <2>1. tick'[k] = [tick[k] EXCEPT !.pc = "insert", !.found = f]
        BY <1>1, <1>2, <1>5, <1>11
    <2>2. /\ tick'[k].pc = "insert" /\ tick'[k].found = f
          /\ tick'[k].n = tick[k].n /\ tick'[k].end = tick[k].end
          /\ tick'[k].start = tick[k].start /\ tick'[k].last = tick[k].last
          /\ tick'[k].fresh = tick[k].fresh /\ tick'[k].watched = tick[k].watched
        BY <1>5, <2>1 DEF TickType
    <2>3. LoopLocal(k)'
        <3>1. LoopLocal(k)
            BY <1>1, LoopBounds
        <3>. QED
            BY <1>1, <2>2, <3>1
            DEF LoopLocal, Behind, Backed, Settled, Established, LateFor, Deep
    <2>4. InsertLocal(k)'
        BY <1>1, <1>3, <1>4, <2>2, WatchedCoversEstablished
        DEF InsertLocal, Done, Established
    <2>5. LocalInv(k)'
        BY <2>2, <2>3, <2>4 DEF LocalInv
    <2>. QED
        BY <1>1, <1>7, <2>5, QuietStep
<1>. QED
    BY <1>10, <1>11

LEMMA BreakIInv ==
    ASSUME IInv, NEW k \in Ticks, Break(k)
    PROVE  IInv'
<1>1. /\ tick[k].pc \in {"block", "insert"}
      /\ UNCHANGED <<head, blockOf, active, since, rows, cursor, origins>>
      /\ tick' = [tick EXCEPT ![k] = Stopped(tick[k])]
    BY DEF Break, Set, chainVars
<1>2. tick[k] \in TickType /\ tick \in [Ticks -> TickType] /\ TypeOK
    BY Bounds DEF IInv
<1>3. tick' \in [Ticks -> TickType] /\ tick'[k] = Stopped(tick[k])
      /\ \A j \in Ticks \ {k} : tick'[j] = tick[j]
    BY <1>1, <1>2, LoopTypes
<1>4. TypeOK' /\ Grows
    BY <1>1, <1>2, <1>3, Bounds DEF TypeOK, ChainTypeOK, Grows
<1>5. CASE tick[k].last = None
    BY <1>1, <1>3, <1>5, IdleStep DEF Break, Stopped
<1>6. CASE tick[k].last # None
    <2>1. tick'[k] = [Idle EXCEPT !.pc = "commit", !.fresh = tick[k].fresh,
                                  !.start = tick[k].start, !.last = tick[k].last]
        BY <1>3, <1>6 DEF Stopped
    <2>2. tick'[k].pc = "commit" /\ tick'[k].fresh = tick[k].fresh
          /\ tick'[k].start = tick[k].start /\ tick'[k].last = tick[k].last
        BY <2>1 DEF Idle
    <2>3. /\ LoopLocal(k) /\ tick[k].n \in 0..Deep /\ Deep \in Int
          /\ tick[k].start \in 0..tick[k].n /\ tick[k].last \in Int
        BY <1>1, LoopBounds, Bounds
    <2>4. PICK l \in Int : l = tick[k].last
        BY <2>3
    <2>5. l = tick[k].n - 1 /\ l \in tick[k].start..Deep
        BY <1>6, <2>3, <2>4 DEF LoopLocal
    <2>6. Behind(k, l)
        BY <2>3, <2>5 DEF LoopLocal
    <2>7. Behind(k, l)'
        BY <1>2, <1>4, <2>2, <2>3, <2>5, <2>6, BehindStays DEF IInv
    <2>8. LocalInv(k)'
        BY <1>4, <2>2, <2>4, <2>5, <2>7, CommitReady
    <2>. QED
        BY <1>1, <1>3, <2>8, QuietStep
<1>. QED
    BY <1>5, <1>6

\* A row that is written is its transaction's, as its established addresses ask.
LEMMA InsertSettles ==
    ASSUME IInv, NEW k \in Ticks, NEW t \in Txs, Insert(k, t),
           NEW m \in Int, m = tick[k].n
    PROVE  /\ blockOf[t] = m
           /\ rows' = [rows EXCEPT ![t] = rows'[t]]
           /\ rows'[t] \in Signers
           /\ rows[t] # Nobody => rows'[t] = rows[t]
           /\ Done(t, m)'
<1>1. /\ tick[k].pc = "insert" /\ t \in tick[k].found
      /\ rows' = [rows EXCEPT ![t] = IF @ = Nobody THEN Owner(t, tick[k].watched) ELSE @]
      /\ UNCHANGED <<active, since>>
    BY DEF Insert, Set
<1>2. InsertLocal(k) /\ RowsInv /\ rows \in [Txs -> Signers \cup {Nobody}]
    BY <1>1, Bounds DEF LocalInv, IInv, TypeOK
<1>3. blockOf[t] = m /\ Owner(t, tick[k].watched) # Nobody
    BY <1>1, <1>2 DEF InsertLocal
<1>4. Established(m) \subseteq tick[k].watched
    BY <1>1, WatchedCoversEstablished
<1>5. From[t] \in Signers /\ To[t] \in Signers /\ Nobody \notin Signers
    BY Constants
<1>6. rows'[t] = IF rows[t] = Nobody THEN Owner(t, tick[k].watched) ELSE rows[t]
    BY <1>1, <1>2
<1>7. /\ Owner(t, tick[k].watched) \in Signers
      /\ From[t] \in Established(m) => Owner(t, tick[k].watched) = From[t]
    BY <1>3, <1>4, <1>5 DEF Owner
<1>8. rows'[t] \in Signers
    BY <1>2, <1>6, <1>7
<1>9. From[t] \in Established(m) => rows'[t] = From[t]
    BY <1>2, <1>3, <1>6, <1>7 DEF RowsInv
<1>10. Established(m)' = Established(m)
    BY <1>1 DEF Established
<1>11. From[t] \in Established(m)' => rows'[t] = From[t]
    BY <1>9, <1>10
<1>12. rows' = [rows EXCEPT ![t] = rows'[t]]
    BY <1>1, <1>2, <1>6
<1>. QED
    BY <1>3, <1>5, <1>6, <1>8, <1>11, <1>12 DEF Done

LEMMA InsertIInv ==
    ASSUME IInv, NEW k \in Ticks, NEW t \in Txs, Insert(k, t)
    PROVE  IInv'
<1>. DEFINE left == tick[k].found \ {t}
<1>1. /\ tick[k].pc = "insert"
      /\ UNCHANGED <<head, blockOf, active, since, cursor, origins>>
      /\ tick' = [tick EXCEPT ![k] = IF left = {} THEN Examined(tick[k])
                                     ELSE [tick[k] EXCEPT !.found = left]]
    BY DEF Insert, Set, chainVars
<1>2. /\ TypeOK /\ RowsInv /\ CursorInv /\ InsertLocal(k) /\ LoopLocal(k)
      /\ tick[k] \in TickType /\ tick \in [Ticks -> TickType]
    BY <1>1, Bounds DEF IInv, LocalInv
<1>3. PICK m \in Int : m = tick[k].n
    BY <1>2 DEF TickType
<1>4. PICK f \in SUBSET Txs : f = left
    BY <1>2 DEF TickType
<1>. HIDE DEF left
<1>5. m \in 0..Deep
    BY <1>1, <1>3, LoopBounds
<1>6. /\ blockOf[t] = m /\ rows' = [rows EXCEPT ![t] = rows'[t]]
      /\ rows'[t] \in Signers /\ (rows[t] # Nobody => rows'[t] = rows[t])
      /\ Done(t, m)'
    BY <1>3, InsertSettles
<1>7. rows' \in [Txs -> Signers \cup {Nobody}] /\ \A u \in Txs \ {t} : rows'[u] = rows[u]
    BY <1>2, <1>6 DEF TypeOK
<1>8. tick' \in [Ticks -> TickType] /\ \A j \in Ticks \ {k} : tick'[j] = tick[j]
    <2>1. [tick[k] EXCEPT !.found = f] \in TickType
        BY <1>2 DEF TickType
    <2>. QED
        BY <1>1, <1>2, <1>4, <2>1, LoopTypes
<1>9. TypeOK'
    BY <1>1, <1>2, <1>7, <1>8 DEF TypeOK, ChainTypeOK
<1>10. Grows
    BY <1>1, <1>2, <1>6, <1>7, Bounds DEF Grows
<1>11. RowsInv'
    <2>1. ASSUME NEW u \in Txs, rows'[u] # Nobody
          PROVE  /\ blockOf[u] \in 0..Deep
                 /\ From[u] \in Established(blockOf[u]) => rows'[u] = From[u]
        <3>1. CASE u = t
            BY <1>1, <1>5, <1>6, <3>1 DEF Done, Established
        <3>2. CASE u # t
            BY <1>2, <1>7, <2>1, <3>2 DEF RowsInv
        <3>. QED
            BY <3>1, <3>2
    <2>. QED
        BY <1>1, <2>1 DEF RowsInv, Established, Deep
<1>12. CursorInv'
    <2>1. Deep' = Deep
        BY <1>1 DEF Deep
    <2>2. cursor # None => cursor \in Int /\ cursor <= Deep /\ Backed(cursor)
        BY <1>2, Bounds DEF CursorInv
    <2>3. PICK c \in Int : c = cursor
        BY Bounds
    <2>4. c # None => Backed(c)'
        BY <1>2, <1>9, <1>10, <2>2, <2>3, BackedStays DEF CursorInv
    <2>5. cursor' = c
        BY <1>1, <2>3
    <2>. QED
        BY <1>1, <1>2, <2>1, <2>3, <2>4, <2>5 DEF CursorInv
<1>13. LocalInv(k)'
    <2>1. \A u \in Txs : u \notin f /\ blockOf[u] = m => Done(u, m)'
        <3>1. ASSUME NEW u \in Txs, u \notin f, blockOf[u] = m, u # t
              PROVE  Done(u, m)'
            <4>1. u \notin tick[k].found
                BY <1>4, <3>1 DEF left
            <4>2. Done(u, m)
                BY <1>2, <1>3, <3>1, <4>1 DEF InsertLocal
            <4>. QED
                BY <1>1, <1>7, <3>1, <4>2 DEF Done, Established
        <3>. QED
            BY <1>6, <3>1
    <2>2. CASE f = {}
        <3>1. Settled(m)'
            BY <1>1, <2>1, <2>2 DEF Settled, Done
        <3>2. tick'[k] = Examined(tick[k])
            BY <1>1, <1>2, <1>4, <2>2
        <3>. QED
            BY <1>1, <1>3, <1>9, <1>10, <3>1, <3>2, ExamineKeeps
    <2>3. CASE f # {}
        <3>1. tick'[k] = [tick[k] EXCEPT !.found = f]
            BY <1>1, <1>2, <1>4, <2>3
        <3>2. /\ tick'[k].pc = "insert" /\ tick'[k].found = f
              /\ tick'[k].n = m /\ tick'[k].end = tick[k].end
              /\ tick'[k].start = tick[k].start /\ tick'[k].last = tick[k].last
              /\ tick'[k].fresh = tick[k].fresh /\ tick'[k].watched = tick[k].watched
            BY <1>1, <1>2, <1>3, <3>1 DEF TickType
        <3>3. PICK e \in Int : e = tick[k].end
            BY <1>2 DEF TickType
        <3>4. LateFor(k, e)'
            BY <1>1, <1>2, <3>2, <3>3 DEF LoopLocal, LateFor
        <3>5. Behind(k, m - 1)'
            <4>1. Behind(k, m - 1) /\ m - 1 \in Int /\ m - 1 <= Deep
                BY <1>2, <1>3, <1>5, Bounds DEF LoopLocal
            <4>. QED
                BY <1>2, <1>9, <1>10, <3>2, <4>1, BehindStays
        <3>6. LoopLocal(k)'
            BY <1>1, <1>2, <1>3, <3>2, <3>3, <3>4, <3>5 DEF LoopLocal, Deep
        <3>7. InsertLocal(k)'
            <4>1. ASSUME NEW u \in Txs, u \in f
                  PROVE  blockOf[u] = m /\ Owner(u, tick[k].watched) # Nobody
                BY <1>2, <1>3, <1>4, <4>1 DEF left, InsertLocal
            <4>. QED
                BY <1>1, <2>1, <3>2, <4>1 DEF InsertLocal, Owner, Done, Established
        <3>. QED
            BY <3>2, <3>6, <3>7 DEF LocalInv
    <2>. QED
        BY <2>2, <2>3
<1>14. ASSUME NEW j \in Ticks, j # k
       PROVE  /\ tick'[j] = tick[j]
              /\ tick[j].pc = "head" => head' <= tick[j].seen + Confirmations
    BY <1>1, <1>8, <1>14 DEF IInv, LocalInv, HeadLocal
<1>15. \A s \in Signers : since'[s] <= head'
    BY <1>1 DEF IInv
<1>. QED
    BY <1>9, <1>10, <1>11, <1>12, <1>13, <1>14, <1>15, Carry

LEMMA CommitIInv ==
    ASSUME IInv, NEW k \in Ticks, Commit(k)
    PROVE  IInv'
<1>1. /\ tick[k].pc = "commit"
      /\ UNCHANGED <<head, blockOf, active, since, rows>>
      /\ tick' = [tick EXCEPT ![k] = Idle]
      /\ cursor' = tick[k].last
      /\ origins' = IF tick[k].fresh THEN origins \cup {tick[k].start} ELSE origins
    BY DEF Commit, Set, chainVars
<1>2. /\ TypeOK /\ RowsInv /\ CursorInv /\ CommitLocal(k)
      /\ tick[k] \in TickType /\ tick \in [Ticks -> TickType]
    BY <1>1, Bounds DEF IInv, LocalInv
<1>3. tick' \in [Ticks -> TickType] /\ tick'[k].pc = "idle"
      /\ \A j \in Ticks \ {k} : tick'[j] = tick[j]
    BY <1>1, <1>2, IdleIsATick
<1>4. PICK l \in Int, a \in Int : l = tick[k].last /\ a = tick[k].start
    BY <1>2 DEF TickType
<1>5. /\ Deep \in Int /\ a \in 0..l /\ l \in 0..Deep
      /\ \A b \in a..l : Settled(b)
      /\ ~tick[k].fresh => Backed(a - 1)
    <2>1. Deep \in Int /\ a >= 0
        BY <1>2, <1>4, Bounds DEF CommitLocal, Behind
    <2>. QED
        BY <1>2, <1>4, <2>1 DEF CommitLocal, Behind
<1>6. origins \subseteq origins' /\ (origins' \subseteq origins \cup {a})
      /\ (tick[k].fresh => a \in origins')
    BY <1>1, <1>4
<1>7. origins' \subseteq 0..Deep
    BY <1>2, <1>5, <1>6 DEF CursorInv
<1>8. TypeOK'
    <2>1. l \in 0..MaxHead
        BY <1>2, <1>5, Bounds, Constants DEF TypeOK, ChainTypeOK
    <2>2. origins' \subseteq Int
        BY <1>5, <1>7
    <2>. QED
        BY <1>1, <1>2, <1>3, <1>4, <2>1, <2>2 DEF TypeOK, ChainTypeOK
<1>9. Grows
    BY <1>1, <1>6, Bounds DEF Grows
<1>10. \A b : Settled(b)' <=> Settled(b)
    BY <1>1 DEF Settled, Established
<1>11. \E o \in origins' : o <= l /\ \A b \in o..l : Settled(b)
    <2>1. CASE tick[k].fresh
        BY <1>5, <1>6, <2>1
    <2>2. CASE ~tick[k].fresh
        <3>1. PICK o \in origins : o <= a - 1 /\ \A b \in o..(a - 1) : Settled(b)
            BY <1>5, <2>2 DEF Backed
        <3>2. o \in Int
            BY <1>2 DEF TypeOK
        <3>3. \A b \in o..l : b \in o..(a - 1) \/ b \in a..l
            BY <1>5, <3>2
        <3>. QED
            BY <1>5, <1>6, <3>1, <3>2, <3>3
    <2>. QED
        BY <2>1, <2>2
<1>12. CursorInv'
    <2>1. cursor' = l /\ Deep' = Deep
        BY <1>1, <1>4 DEF Deep
    <2>2. Backed(l)'
        BY <1>10, <1>11 DEF Backed
    <2>. QED
        BY <1>5, <1>7, <2>1, <2>2 DEF CursorInv
<1>13. RowsInv' /\ \A s \in Signers : since'[s] <= head'
    BY <1>1, <1>2 DEF RowsInv, Established, Deep, IInv
<1>14. LocalInv(k)'
    BY <1>3 DEF LocalInv
<1>15. ASSUME NEW j \in Ticks, j # k
       PROVE  /\ tick'[j] = tick[j]
              /\ tick[j].pc = "head" => head' <= tick[j].seen + Confirmations
    BY <1>1, <1>3, <1>15 DEF IInv, LocalInv, HeadLocal
<1>. QED
    BY <1>8, <1>9, <1>12, <1>13, <1>14, <1>15, Carry

LEMMA RestartIInv ==
    ASSUME IInv, Restart
    PROVE  IInv'
<1>1. UNCHANGED <<head, blockOf, active, since, rows, cursor, origins>>
      /\ tick' = [k \in Ticks |-> Idle]
    BY DEF Restart, chainVars
<1>2. tick' \in [Ticks -> TickType] /\ \A k \in Ticks : tick'[k].pc = "idle"
    BY <1>1, IdleIsATick
<1>3. TypeOK' /\ head \in Int
    BY <1>1, <1>2 DEF IInv, TypeOK, ChainTypeOK
<1>4. Grows
    BY <1>1, <1>3 DEF Grows
<1>5. RowsInv' /\ CursorInv' /\ \A s \in Signers : since'[s] <= head'
    BY <1>1 DEF IInv, RowsInv, CursorInv, Backed, Settled, Established, Deep
<1>6. \A k \in Ticks : LocalInv(k)'
    BY <1>2 DEF LocalInv
<1>. QED
    BY <1>3, <1>4, <1>5, <1>6, Carry

LEMMA StutterIInv ==
    ASSUME IInv, UNCHANGED vars
    PROVE  IInv'
    BY DEF vars, chainVars, scanVars, IInv, TypeOK, ChainTypeOK, RowsInv, CursorInv,
           Backed, Settled, Established, Deep, LocalInv, HeadLocal, CursorLocal,
           LoopLocal, InsertLocal, CommitLocal, Behind, LateFor, Done, Owner

-----------------------------------------------------------------------------
(* What holds of every behaviour whose ticks read the head soon enough *)

\* Every step keeps IInv.
LEMMA NextIInv ==
    ASSUME SlowReads = FALSE, IInv, [Next]_vars
    PROVE  IInv'
<1>1. CASE ChainStep
    BY <1>1, ChainStepIInv
<1>2. ASSUME NEW s \in Signers, Register(s) \/ Unregister(s)
      PROVE  IInv'
    BY <1>2, RegistrationIInv
<1>3. ASSUME NEW k \in Ticks, Step(k)
      PROVE  IInv'
    <2>1. CASE ReadSigners(k)
        BY <2>1, ReadSignersIInv
    <2>2. CASE ReadHead(k)
        BY <2>2, ReadHeadIInv
    <2>3. CASE ReadCursor(k)
        BY <2>3, ReadCursorIInv
    <2>4. CASE ReadBlock(k)
        BY <2>4, ReadBlockIInv
    <2>5. CASE \E t \in Txs : Insert(k, t)
        BY <2>5, InsertIInv
    <2>6. CASE Break(k)
        BY <2>6, BreakIInv
    <2>7. CASE Commit(k)
        BY <2>7, CommitIInv
    <2>8. CASE GiveUp(k)
        BY <2>8, IdleStep DEF GiveUp
    <2>. QED
        BY <1>3, <2>1, <2>2, <2>3, <2>4, <2>5, <2>6, <2>7, <2>8 DEF Step
<1>4. CASE Restart
    BY <1>4, RestartIInv
<1>5. CASE UNCHANGED vars
    BY <1>5, StutterIInv
<1>. QED
    BY <1>1, <1>2, <1>3, <1>4, <1>5 DEF Next

\* The inductive invariant holds of every behaviour of the scanner.
LEMMA ScannerInductive ==
    ASSUME SlowReads = FALSE
    PROVE  Spec => []IInv
<1>1. Init => IInv
    BY InitIInv
<1>2. IInv /\ [Next]_vars => IInv'
    BY NextIInv
<1>. QED
    BY <1>1, <1>2, PTL DEF Spec

\* Whatever ticks overlap, fail or are cut short, the tables and the ticks'
\* locals keep their shape (scanner.ts tick).
THEOREM ScannerTypeCorrect ==
    ASSUME SlowReads = FALSE
    PROVE  Spec => []TypeOK
<1>1. IInv => TypeOK
    BY DEF IInv
<1>. QED
    BY <1>1, ScannerInductive, PTL

\* The stored cursor never passes a block that was not examined for every
\* address registered before it (scanner.ts:162-163), for any number of
\* addresses, transactions and overlapping ticks, as long as no more than
\* Confirmations blocks pass between a tick's first two reads.
THEOREM ScannerNeverSkips ==
    ASSUME SlowReads = FALSE
    PROVE  Spec => []NeverSkips
<1>1. IInv => NeverSkips
    BY DEF IInv, CursorInv, Backed, NeverSkips
<1>. QED
    BY <1>1, ScannerInductive, PTL

\* No transaction is registered from a block that a reorganisation as deep as
\* the confirmation depth may drop (scanner.ts:45-49).
THEOREM DiscoveriesAreFinal ==
    ASSUME SlowReads = FALSE
    PROVE  Spec => []DiscoveredIsFinal
<1>1. ASSUME IInv PROVE DiscoveredIsFinal
    <2>1. ASSUME NEW t \in Txs, rows[t] # Nobody PROVE Final(t)
        <3>1. blockOf[t] \in 0..Deep /\ head \in Int
            BY <1>1, <2>1 DEF IInv, RowsInv, TypeOK, ChainTypeOK
        <3>. QED
            BY <3>1, Constants DEF Final, NotMined, Deep
    <2>. QED
        BY <2>1 DEF DiscoveredIsFinal
<1>. QED
    BY <1>1, ScannerInductive, PTL
=============================================================================
