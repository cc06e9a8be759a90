---------------------------- MODULE BlockScanner ----------------------------
(***************************************************************************)
(* Discovery of the transactions of watched addresses by walking blocks    *)
(* (packages/recorder/src/scanner.ts over the watched_signers,             *)
(* ingest_cursors and watched_transactions tables). One action per awaited *)
(* call of tick; ticks may overlap, since the runtime starts them on a     *)
(* timer, and the process may restart between any two calls.               *)
(***************************************************************************)
EXTENDS Chain

CONSTANTS
    Signers,    \* addresses that may be registered
    From, To,   \* sender and recipient of each transaction
    Nobody,     \* owner of a transaction that is not registered
    Ticks,      \* ticks that may be under way at once
    MaxBlocks,  \* ScannerOptions.maxBlocksPerTick
    SlowReads   \* may more than Confirmations blocks pass between two reads?

ASSUME PartiesAssumption == From \in [Txs -> Signers] /\ To \in [Txs -> Signers]
ASSUME NobodyAssumption == Nobody \notin Signers
ASSUME MaxBlocksAssumption == MaxBlocks \in Nat \ {0}
ASSUME SlowReadsAssumption == SlowReads \in BOOLEAN

VARIABLES
    active,   \* registered addresses
    since,    \* history: the head when an active address was registered
    rows,     \* watched_transactions: the address each is attributed to
    cursor,   \* the stored cursor, None before the first commit
    origins,  \* history: where scans that found no cursor began, once stored
    tick      \* the locals of each tick

scanVars == <<active, since, rows, cursor, origins, tick>>
vars == <<chainVars, scanVars>>

None == -1
Idle == [pc |-> "idle", watched |-> {}, seen |-> None, safe |-> None,
         fresh |-> FALSE, start |-> None, n |-> None, end |-> None,
         last |-> None, found |-> {}]

TickType == [pc : {"idle", "head", "cursor", "block", "insert", "commit"},
             watched : SUBSET Signers, seen : Int, safe : Int, fresh : BOOLEAN,
             start : Int, n : Int, end : Int, last : Int, found : SUBSET Txs]

\* The state is made of well-formed rows and locals.
TypeOK ==
    /\ ChainTypeOK
    /\ active \subseteq Signers
    /\ since \in [Signers -> Int]
    /\ rows \in [Txs -> Signers \cup {Nobody}]
    /\ cursor \in {None} \cup 0..MaxHead
    /\ origins \subseteq Int
    /\ tick \in [Ticks -> TickType]

Init ==
    /\ ChainInit
    /\ active = {}
    /\ since = [s \in Signers |-> 0]
    /\ rows = [t \in Txs |-> Nobody]
    /\ cursor = None
    /\ origins = {}
    /\ tick = [k \in Ticks |-> Idle]

\* A tick between its first two reads, for which time is short.
ReadsAreQuick ==
    SlowReads \/ \A k \in Ticks :
        tick[k].pc = "head" => head < tick[k].seen + Confirmations

ChainStep ==
    /\ ChainNext
    /\ head' # head => ReadsAreQuick
    /\ UNCHANGED scanVars

Register(s) ==
    /\ s \notin active
    /\ active' = active \cup {s}
    /\ since' = [since EXCEPT ![s] = head]
    /\ UNCHANGED <<chainVars, rows, cursor, origins, tick>>

Unregister(s) ==
    /\ s \in active
    /\ active' = active \ {s}
    /\ since' = [since EXCEPT ![s] = 0]
    /\ UNCHANGED <<chainVars, rows, cursor, origins, tick>>

Set(k, locals) ==
    /\ tick' = [tick EXCEPT ![k] = locals]
    /\ UNCHANGED <<chainVars, active, since>>

\* With nobody to watch the tick returns before it asks for the head.
ReadSigners(k) ==
    /\ tick[k].pc = "idle"
    /\ active # {}
    /\ Set(k, [Idle EXCEPT !.pc = "head", !.watched = active, !.seen = head])
    /\ UNCHANGED <<rows, cursor, origins>>

\* The answering node may be behind; too short a chain ends the tick.
SafeHeadUnconfirmed(h) == h
SafeHeadAhead(h) == h + Confirmations
SafeHeadShort(h) == h - Confirmations - 1
SafeHead(h) == h - Confirmations

ReadHead(k) ==
    /\ tick[k].pc = "head"
    /\ \E h \in 0..head :
           Set(k, IF SafeHead(h) < 0 THEN Idle
                  ELSE [tick[k] EXCEPT !.pc = "cursor", !.seen = None,
                                            !.safe = SafeHead(h)])
    /\ UNCHANGED <<rows, cursor, origins>>

StartOfSkipping(safe) == IF cursor = None THEN safe ELSE cursor + 2
StartOf(safe) == IF cursor = None THEN safe ELSE cursor + 1

\* A tick that is behind reads the newest blocks the cap allows.
ReadCursorOfTheNewest(k) ==
    /\ tick[k].pc = "cursor"
    /\ LET safe == tick[k].safe
           start == IF safe - StartOf(safe) >= MaxBlocks THEN safe - MaxBlocks + 1
                    ELSE StartOf(safe)
       IN  Set(k, IF start > safe THEN Idle
                  ELSE [tick[k] EXCEPT
                           !.pc = "block", !.safe = None, !.fresh = (cursor = None),
                           !.start = start, !.n = start, !.end = safe])
    /\ UNCHANGED <<rows, cursor, origins>>

ReadCursor(k) ==
    /\ tick[k].pc = "cursor"
    /\ LET safe == tick[k].safe
           start == StartOf(safe)
       IN  Set(k, IF start > safe THEN Idle
                  ELSE [tick[k] EXCEPT
                           !.pc = "block", !.safe = None, !.fresh = (cursor = None),
                           !.start = start, !.n = start,
                           !.end = IF safe - start >= MaxBlocks
                                   THEN start + MaxBlocks - 1 ELSE safe])
    /\ UNCHANGED <<rows, cursor, origins>>

\* A transaction belongs to its sender when that is watched, else to its
\* recipient.
Owner(t, watched) ==
    IF From[t] \in watched THEN From[t]
    ELSE IF To[t] \in watched THEN To[t] ELSE Nobody

Matching(n, watched) == {t \in Txs : blockOf[t] = n /\ Owner(t, watched) # Nobody}

\* The loop is over; what it has examined is to be stored.
Stopped(local) ==
    IF local.last = None THEN Idle
    ELSE [Idle EXCEPT !.pc = "commit", !.fresh = local.fresh,
                      !.start = local.start, !.last = local.last]

\* The loop body is done with block n.
Examined(local) ==
    IF local.n = local.end THEN Stopped([local EXCEPT !.last = local.n])
    ELSE [local EXCEPT !.pc = "block", !.last = local.n, !.n = local.n + 1,
                       !.found = {}]

ReadBlock(k) ==
    /\ tick[k].pc = "block"
    /\ LET found == Matching(tick[k].n, tick[k].watched)
       IN  Set(k, IF found = {} THEN Examined(tick[k])
                  ELSE [tick[k] EXCEPT !.pc = "insert", !.found = found])
    /\ UNCHANGED <<rows, cursor, origins>>

\* watchTransaction leaves a row that is already there alone.
Insert(k, t) ==
    /\ tick[k].pc = "insert"
    /\ t \in tick[k].found
    /\ rows' = [rows EXCEPT ![t] = IF @ = Nobody THEN Owner(t, tick[k].watched) ELSE @]
    /\ LET left == tick[k].found \ {t}
       IN  Set(k, IF left = {} THEN Examined(tick[k])
                  ELSE [tick[k] EXCEPT !.found = left])
    /\ UNCHANGED <<cursor, origins>>

\* A block that cannot be read, or a row that cannot be written.
Break(k) ==
    /\ tick[k].pc \in {"block", "insert"}
    /\ Set(k, Stopped(tick[k]))
    /\ UNCHANGED <<rows, cursor, origins>>

Commit(k) ==
    /\ tick[k].pc = "commit"
    /\ cursor' = tick[k].last
    /\ origins' = IF tick[k].fresh THEN origins \cup {tick[k].start} ELSE origins
    /\ Set(k, Idle)
    /\ UNCHANGED rows

\* The head cannot be read, or the cursor can be neither read nor written.
GiveUp(k) ==
    /\ tick[k].pc \in {"head", "cursor", "commit"}
    /\ Set(k, Idle)
    /\ UNCHANGED <<rows, cursor, origins>>

Restart ==
    /\ tick' = [k \in Ticks |-> Idle]
    /\ UNCHANGED <<chainVars, active, since, rows, cursor, origins>>

Step(k) ==
    \/ ReadSigners(k) \/ ReadHead(k) \/ ReadCursor(k) \/ ReadBlock(k)
    \/ (\E t \in Txs : Insert(k, t))
    \/ Break(k) \/ Commit(k) \/ GiveUp(k)

Next ==
    \/ ChainStep
    \/ (\E s \in Signers : Register(s) \/ Unregister(s))
    \/ (\E k \in Ticks : Step(k))
    \/ Restart

Spec == Init /\ [][Next]_vars

-----------------------------------------------------------------------------
(* Properties *)

\* Addresses registered before block n was mined, and still.
Established(n) == {s \in active : since[s] < n}

\* Block n has been examined for every established address.
Settled(n) ==
    \A t \in Txs : blockOf[t] = n =>
        /\ From[t] \in Established(n) => rows[t] = From[t]
        /\ To[t] \in Established(n) => rows[t] # Nobody

\* The cursor never advances past something that was not examined
\* (scanner.ts:162-163): whatever ticks overlap, fail or restart, every block
\* from the start of some first scan up to the cursor is settled.
NeverSkips ==
    cursor # None =>
        \E o \in origins : o <= cursor /\ \A n \in o..cursor : Settled(n)

\* A transaction is never registered from a block that a reorganisation may
\* still drop (confirmations, scanner.ts:45-49).
DiscoveredIsFinal == \A t \in Txs : rows[t] # Nobody => Final(t)

\* An established address's final transaction, above the first scan.
Discoverable(t) ==
    /\ Final(t)
    /\ {From[t], To[t]} \cap Established(blockOf[t]) # {}
    /\ \A o \in origins : o <= blockOf[t]
    /\ cursor # None

\* Every such transaction is found in the end, unless its address is
\* unregistered first: an unreadable block delays the cursor and never
\* stops it, and a tick that is further behind than the cap per tick lets it
\* read leaves the rest to the next.
EverythingIsFound ==
    \A t \in Txs : Discoverable(t) ~> (rows[t] # Nobody \/ ~Discoverable(t))

\* "Blackbox watches from the moment it is asked to" (scanner.ts:118-119): no
\* block mined after an address was registered is left behind the cursor.
WatchesFromTheMoment == cursor # None => \A n \in 0..cursor : Settled(n)

\* "backfilling an unbounded history is a different feature"
\* (scanner.ts:119-120): what is registered was mined after its address was,
\* give or take the blocks still unconfirmed then.
NothingFromBefore ==
    [][\A t \in Txs : rows[t] = Nobody /\ rows'[t] # Nobody =>
           blockOf[t] >= since[rows'[t]] - Confirmations]_vars

\* The timer goes on starting ticks. The RPC endpoint and the database may
\* fail, and a node may lag, again and again, but not at the same call each
\* time: a tick that could read the newest head, enter its loop, read its
\* block, read the last or a matching block, write its row or store its
\* cursor does so now and then.
Fairness ==
    \A k \in Ticks :
        /\ WF_vars(ReadSigners(k)) /\ WF_vars(ReadCursor(k)) /\ WF_vars(Break(k))
        /\ SF_vars(ReadHead(k) /\ tick'[k].safe = SafeHead(head))
        /\ SF_vars(ReadCursor(k) /\ tick'[k].pc = "block")
        /\ SF_vars(ReadBlock(k)) /\ SF_vars(ReadBlock(k) /\ tick'[k].pc # "block")
        /\ (\A t \in Txs : SF_vars(Insert(k, t))) /\ SF_vars(Commit(k))

FairSpec == Spec /\ Fairness
=============================================================================
