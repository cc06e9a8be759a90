---------------------------- MODULE Intake_proofs ---------------------------
(***************************************************************************)
(* What the ingest of an organisation's runs and the loop over watched     *)
(* executions keep, however sweeps overlap, fail half way or die.          *)
(***************************************************************************)
EXTENDS Intake, FiniteSetTheorems, WellFoundedInduction, SequenceTheorems, TLAPS

-----------------------------------------------------------------------------
(***************************************************************************)
(* Watched executions.                                                     *)
(***************************************************************************)
Terminal(x) == service[x].status \in TERMINAL_STATUSES

Unfinished == [status : {"none", "running"}, hash : BOOLEAN, receipts : {<<>>}]
Outcome == {"none", "pending", "rejected", "included", "unknown", "replaced", "reverted"}
PollRecord == [pc : {"off", "asleep", "polling", "inserting", "marking"}, due : Seq(Executions),
               got : Outcomes \union Unfinished, seen : BOOLEAN]
LoopRecord == [running : BOOLEAN, stopping : BOOLEAN, bodies : {0, 1}, stops : Nat]

\* What KeeperHub has of an execution, and how far its caller and its row are.
ServiceInv ==
    /\ mode \in Modes
    /\ service \in [Executions -> Outcomes \union Unfinished]
    /\ call \in [Executions -> {"idle", "registering", "returned", "threw", "lost"}]
    /\ listed \in [Executions -> {"no", "due", "settled"}]
    /\ \A x \in Executions :
          /\ call[x] = "idle" => service[x] = NoRecord /\ listed[x] = "no"
          /\ call[x] = "registering" => listed[x] = "no"
          /\ call[x] = "registering" \/ listed[x] # "no" => service[x].status # "none"
          /\ call[x] = "returned" => listed[x] # "no"

\* What is stored of an execution is provisional, or is how it ended.
RecordsInv ==
    /\ recorded \in [Executions \X Sources -> [status : Outcome, priced : BOOLEAN]]
    /\ \A x \in Executions, k \in Sources :
          \/ recorded[x, k].status \in {"none", "pending"}
          \/ Terminal(x) /\ k \in DOMAIN Final(x) /\ recorded[x, k].status = Final(x)[k]

\* Whom a tick polls, once each, is due; what it has read of the first of them
\* is what it ends with or that it runs.
Held(x) == recorded[x, LastSource(x)].status = Final(x)[LastSource(x)]
LoopInv ==
    /\ loop \in LoopRecord /\ loop.bodies = IF loop.running THEN 1 ELSE 0
    /\ poll \in PollRecord /\ (poll.pc = "off" <=> ~loop.running)
    /\ poll.due \in Seq(Due) /\ IsInjective(poll.due)
    /\ polled \in Seq(Due) /\ IsInjective(polled)
    /\ poll.pc \in {"inserting", "marking"} =>
          /\ poll.due # <<>>
          /\ \/ poll.got.status = "running" /\ poll.got.receipts = <<>>
             \/ /\ poll.got = service[Head(poll.due)] /\ Terminal(Head(poll.due))
                /\ poll.pc = "marking" => Held(Head(poll.due))

SettledInv == \A x \in Executions : listed[x] = "settled" => Terminal(x) /\ Held(x)

XInv == ServiceInv /\ RecordsInv /\ LoopInv /\ SettledInv

-----------------------------------------------------------------------------
(***************************************************************************)
(* The provider's runs and their rows.                                     *)
(***************************************************************************)
RunRecord == [workflow : Workflows, at : Nat, status : TERMINAL \union {"running"},
              txs : Seq({"none", "success", "reverted"})]

\* Runs start in the order of the clock; one that runs has no receipt.
RunsInv ==
    /\ now \in 1..MaxTime /\ mark \in 0..MaxTime /\ truncated \in BOOLEAN
    /\ runs \in Seq(RunRecord) /\ Len(runs) <= MaxRuns
    /\ \A i \in Listed :
          /\ runs[i].at \in 1..now /\ Len(runs[i].txs) <= MaxTxs
          /\ ~Ended(runs[i]) => \A k \in DOMAIN runs[i].txs : runs[i].txs[k] = "none"
          /\ \A j \in Listed : i <= j => runs[i].at <= runs[j].at
    /\ loyal \subseteq watched /\ watched \subseteq Workflows
    /\ mark # 0 => \E j \in Listed : mark <= runs[j].at

\* A row is provisional, replaced by a later transaction, or how its run ended.
RowInv(i, k) ==
    \/ rows[<<i, k>>] \in {"none", "pending"}
    \/ i \in Listed /\ rows[<<i, k>>] = "replaced" /\ k \in 1..(LastKey(i) - 1)
    \/ /\ i \in Listed /\ Ended(runs[i]) /\ runs[i].workflow \notin Foreign
       /\ k = LastKey(i) /\ rows[<<i, k>>] = normaliseRun(runs[i])[k]
RowsInv ==
    /\ rows \in [Runs \X Keys -> Statuses \union {"none"}]
    /\ \A i \in Runs, k \in Keys :
          RowInv(i, k) /\ (i \notin Listed => rows[<<i, k>>] = "none")

\* Whoever is ours up to m is stored as it ended.
SettledUpTo(m) == \A i \in Listed : Ours(i) /\ runs[i].at <= m => Arrived(i)

-----------------------------------------------------------------------------
(***************************************************************************)
(* A sweep.                                                                *)
(***************************************************************************)
\* What a sweep has seen of a run is an earlier state of it.
Seen(e) ==
    /\ e.id \in Listed
    /\ e.run.workflow = runs[e.id].workflow /\ e.run.at = runs[e.id].at
    /\ \/ e.run = runs[e.id]
       \/ /\ ~Ended(e.run) /\ e.run \in RunRecord /\ Len(e.run.txs) <= LastKey(e.id)
          /\ \A k \in DOMAIN e.run.txs : e.run.txs[k] = "none"

\* A run above the mark was seen, is on a page not read yet, or started after
\* everything that was seen.
Accounted(s, i) ==
    \/ \E e \in sweep[s].seen : e.id = i
    \/ sweep[s].pc = "listing" /\ i < sweep[s].cursor
    \/ \A e \in sweep[s].seen : e.id < i

\* What is stored of a run that was seen to have ended.
Done(s, e) == Ended(e.run) => Arrived(e.id)

SweepInv(s) ==
    LET w == sweep[s] IN
    /\ w.pc \in {"idle", "marking", "listing", "storing", "evaluating"}
    /\ w.page \in Nat /\ w.page <= mode.pages /\ (w.pc \in {"marking", "listing"} => w.page < mode.pages)
    /\ w.agent \in Workflows \union {"none"} /\ (w.pc = "evaluating" => w.agent \in Workflows /\ s = "tick")
    /\ w.pc \in {"marking", "listing"} => w.left = {} /\ w.unstored = {}
    /\ w.pc = "marking" => w.seen = {} /\ w.cursor = MaxRuns + 1
    /\ w.pc # "idle" /\ w.pc # "evaluating" => loyal \subseteq w.chosen
    /\ w.mark \in 0..MaxTime /\ (w.mark # 0 => \E j \in Listed : w.mark <= runs[j].at)
    /\ w.pc \in {"listing", "storing"} =>
          /\ SettledUpTo(w.mark)
          /\ \A e \in w.seen : Seen(e) /\ e.run.at > w.mark
          /\ \A e, f \in w.seen : e.id = f.id => e = f
          /\ \A i \in Listed : Ours(i) /\ runs[i].at > w.mark => Accounted(s, i)
    /\ w.pc = "listing" =>
          \/ w.seen = {} /\ w.cursor = MaxRuns + 1
          \/ w.cursor \in 1..MaxRuns /\ \E e \in w.seen : e.id = w.cursor
    /\ w.pc = "listing" => \A e \in w.seen : e.id >= w.cursor
    /\ w.pc = "storing" =>
          /\ w.left \subseteq {e.id : e \in w.seen}
          /\ \A e \in w.seen : e.run.workflow \in w.chosen \ Foreign =>
                e.id \in w.left \union w.unstored \/ Done(s, e)

OpenInv == \A i \in open : i.agent \in Workflows /\ i.action \in Workflows

IInv ==
    /\ mode \in Modes /\ RunsInv /\ RowsInv /\ SettledUpTo(mark)
    /\ DOMAIN sweep = Sweepers /\ \A s \in Sweepers : SweepInv(s)
    /\ OpenInv


-----------------------------------------------------------------------------
(***************************************************************************)
(* Least and greatest numbers, and sequences without repetition.           *)
(***************************************************************************)
LEMMA LeastOfNats ==
    ASSUME NEW S, S \subseteq Nat, S # {}
    PROVE  Min(S) \in S /\ \A y \in S : Min(S) <= y
<1> DEFINE less == OpToRel(<, Nat)
<1>1. IsWellFoundedOn(less, S)
    BY NatLessThanWellFounded, IsWellFoundedOnSubset
<1>2. PICK x \in S : \A y \in S : ~(<<y, x>> \in less)
    BY <1>1, WFMin
<1>3. \A y \in S : ~(y < x)
    BY <1>2, Zenon DEF OpToRel
<1>4. \A y \in S : x <= y
    BY <1>3
<1> QED
    BY <1>4 DEF Min

LEMMA GreatestOfNats ==
    ASSUME NEW S, S \subseteq Nat, S # {}, NEW b \in Nat, \A y \in S : y <= b
    PROVE  Max(S) \in S /\ \A y \in S : y <= Max(S)
<1> DEFINE T == {n \in Nat : \A y \in S : y <= n}
<1>1. PICK n \in T : \A m \in T : n <= m
    <2>1. b \in T /\ T \subseteq Nat
        OBVIOUS
    <2> HIDE DEF T
    <2> QED
        BY <2>1, LeastOfNats
<1>2. n \in S
    <2>1. SUFFICES ASSUME n \notin S
                   PROVE  FALSE
        OBVIOUS
    <2>2. PICK y \in S : TRUE
        OBVIOUS
    <2>3. n \in Nat /\ (\A z \in S : z <= n) /\ n # 0
        BY <1>1, <2>1, <2>2
    <2>4. n - 1 \in T
        BY <2>1, <2>3
    <2> QED
        BY <1>1, <2>3, <2>4
<1> QED
    BY <1>1, <1>2 DEF Max

\* Sequences over S in which nothing occurs twice.
Distinct(S) == {s \in Seq(S) : IsInjective(s)}

LEMMA SeqOver ==
    ASSUME NEW S, NEW T, NEW s \in Seq(S), \A i \in 1..Len(s) : s[i] \in T
    PROVE  s \in Seq(T)
<1>1. s \in [1..Len(s) -> S] /\ Len(s) \in Nat
    BY LenProperties
<1>2. s \in [1..Len(s) -> T]
    BY <1>1
<1> QED
    BY <1>1, <1>2, SeqDef

LEMMA TailIsDistinct ==
    ASSUME NEW S, NEW s \in Distinct(S), s # <<>>
    PROVE  Head(s) \in S /\ Head(s) = s[1] /\ Tail(s) \in Distinct(S \ {Head(s)})
<1>1. /\ s \in Seq(S) /\ Tail(s) \in Seq(S) /\ Len(Tail(s)) = Len(s) - 1 /\ Len(s) \in Nat \ {0}
      /\ \A i \in 1 .. Len(Tail(s)) : Tail(s)[i] = s[i+1]
      /\ Head(s) \in S /\ Head(s) = s[1]
    BY HeadTailProperties, EmptySeq DEF Distinct
<1>2. \A i, j \in 1..Len(s) : s[i] = s[j] => i = j
    BY <1>1, LenProperties DEF Distinct, IsInjective
<1>3. ASSUME NEW i \in 1..Len(Tail(s)) PROVE Tail(s)[i] \in S \ {Head(s)}
    <2>1. i + 1 \in 1..Len(s) /\ 1 \in 1..Len(s) /\ i + 1 # 1
        BY <1>1
    <2>2. s[i + 1] \in S
        BY <1>1, <2>1, ElementOfSeq
    <2> QED
        BY <1>1, <1>2, <2>1, <2>2
<1>4. Tail(s) \in Seq(S \ {Head(s)})
    BY <1>1, <1>3, SeqOver
<1>5. IsInjective(Tail(s))
    BY <1>1, <1>2, <1>4 DEF IsInjective
<1> QED
    BY <1>1, <1>4, <1>5 DEF Distinct

LEMMA AppendIsDistinct ==
    ASSUME NEW S, NEW x \in S, NEW s \in Distinct(S \ {x})
    PROVE  Append(s, x) \in Distinct(S)
<1>1. s \in Seq(S \ {x}) /\ s \in Seq(S) /\ Len(s) \in Nat /\ IsInjective(s)
    BY SeqMonotonic, LenProperties DEF Distinct
<1>2. /\ Append(s, x) \in Seq(S) /\ Len(Append(s, x)) = Len(s) + 1
      /\ \A i \in 1..Len(s) : Append(s, x)[i] = s[i]
      /\ Append(s, x)[Len(s) + 1] = x
    BY <1>1, AppendProperties
<1>3. \A i \in 1..Len(s) : s[i] # x
    BY <1>1, ElementOfSeq
<1>4. \A i, j \in 1..Len(s) : s[i] = s[j] => i = j
    BY <1>1, LenProperties DEF IsInjective
<1>5. IsInjective(Append(s, x))
    <2> SUFFICES ASSUME NEW i \in 1..(Len(s) + 1), NEW j \in 1..(Len(s) + 1),
                        Append(s, x)[i] = Append(s, x)[j]
                 PROVE  i = j
        BY <1>1, <1>2, LenProperties DEF IsInjective
    <2> QED
        BY <1>1, <1>2, <1>3, <1>4
<1> QED
    BY <1>2, <1>5 DEF Distinct

LEMMA WithoutIsDistinct ==
    ASSUME NEW S, NEW s \in Distinct(S), NEW x
    PROVE  Without(s, x) \in Distinct(S \ {x})
<1>1. s \in Seq(S) /\ Len(s) \in Nat /\ DOMAIN s = 1..Len(s)
    BY LenProperties DEF Distinct
<1>2. \A i, j \in 1..Len(s) : s[i] = s[j] => i = j
    BY <1>1 DEF Distinct, IsInjective
<1>3. CASE x \notin ToSet(s)
    <2>1. \A i \in 1..Len(s) : s[i] \in S \ {x}
        BY <1>1, <1>3, ElementOfSeq DEF ToSet
    <2>2. s \in Seq(S \ {x})
        BY <1>1, <2>1, SeqOver
    <2> QED
        BY <1>3, <2>2 DEF Distinct, Without
<1>4. CASE x \in ToSet(s)
    <2> DEFINE k == CHOOSE k \in DOMAIN s : s[k] = x
    <2>1. k \in 1..Len(s) /\ s[k] = x
        BY <1>1, <1>4 DEF ToSet
    <2>2. Without(s, x) = SubSeq(s, 1, k - 1) \o SubSeq(s, k + 1, Len(s))
        BY <1>4 DEF Without, RemoveAt
    <2> HIDE DEF k
    <2>3. /\ SubSeq(s, 1, k - 1) \in Seq(S) /\ Len(SubSeq(s, 1, k - 1)) = k - 1
          /\ \A i \in 1..(k - 1) : SubSeq(s, 1, k - 1)[i] = s[i]
        <3>1. \A i \in 1..(k - 1) : s[i] \in S
            BY <1>1, <2>1, ElementOfSeq
        <3>2. 1 \in Int /\ k - 1 \in Int /\ (k - 1) - 1 + 1 = k - 1
            BY <2>1
        <3>3. /\ SubSeq(s, 1, k - 1) \in Seq(S)
              /\ Len(SubSeq(s, 1, k - 1)) = IF 1 <= k - 1 THEN (k - 1) - 1 + 1 ELSE 0
              /\ \A i \in 1 .. (k - 1) - 1 + 1 : SubSeq(s, 1, k - 1)[i] = s[1 + i - 1]
            BY <3>1, <3>2, SubSeqProperties
        <3> QED
            BY <2>1, <3>2, <3>3
    <2>4. /\ SubSeq(s, k + 1, Len(s)) \in Seq(S) /\ Len(SubSeq(s, k + 1, Len(s))) = Len(s) - k
          /\ \A i \in 1..(Len(s) - k) : SubSeq(s, k + 1, Len(s))[i] = s[k + i]
        <3>1. \A i \in (k + 1)..Len(s) : s[i] \in S
            BY <1>1, <2>1, ElementOfSeq
        <3>2. k + 1 \in Int /\ Len(s) \in Int /\ Len(s) - (k + 1) + 1 = Len(s) - k
            BY <1>1, <2>1
        <3>3. /\ SubSeq(s, k + 1, Len(s)) \in Seq(S)
              /\ Len(SubSeq(s, k + 1, Len(s))) = IF k + 1 <= Len(s) THEN Len(s) - (k + 1) + 1 ELSE 0
              /\ \A i \in 1 .. Len(s) - (k + 1) + 1 : SubSeq(s, k + 1, Len(s))[i] = s[k + 1 + i - 1]
            BY <3>1, <3>2, SubSeqProperties
        <3>4. \A i \in 1..(Len(s) - k) : k + 1 + i - 1 = k + i
            BY <2>1, <1>1
        <3>5. Len(SubSeq(s, k + 1, Len(s))) = Len(s) - k
            <4>1. CASE k + 1 <= Len(s)
                BY <3>2, <3>3, <4>1
            <4>2. CASE ~(k + 1 <= Len(s))
                <5>0. k \in Int /\ Len(s) \in Int /\ k <= Len(s) /\ ~(k + 1 <= Len(s))
                    BY <1>1, <2>1, <4>2
                <5>1. Len(s) - k = 0
                    BY <5>0
                <5> QED
                    BY <3>3, <4>2, <5>1
            <4> QED
                BY <4>1, <4>2
        <3>6. \A i \in 1..(Len(s) - k) : SubSeq(s, k + 1, Len(s))[i] = s[k + i]
            BY <3>2, <3>3, <3>4
        <3> QED
            BY <3>3, <3>5, <3>6
    <2> DEFINE a == SubSeq(s, 1, k - 1)
               b == SubSeq(s, k + 1, Len(s))
               t == a \o b
               at(i) == IF i < k THEN i ELSE i + 1
    <2>5. /\ t \in Seq(S) /\ Len(t) = Len(s) - 1
          /\ \A i \in 1..(Len(s) - 1) : t[i] = s[at(i)] /\ at(i) \in 1..Len(s) \ {k}
        <3> HIDE DEF a, b
        <3>1. /\ a \in Seq(S) /\ Len(a) = k - 1 /\ \A i \in 1..(k - 1) : a[i] = s[i]
              /\ b \in Seq(S) /\ Len(b) = Len(s) - k /\ \A i \in 1..(Len(s) - k) : b[i] = s[k + i]
            BY <2>3, <2>4 DEF a, b
        <3>2. /\ t \in Seq(S) /\ Len(t) = Len(a) + Len(b)
              /\ \A i \in 1 .. Len(a) + Len(b) : t[i] = IF i <= Len(a) THEN a[i] ELSE b[i - Len(a)]
            BY <3>1, ConcatProperties
        <3>3. ASSUME NEW i \in 1..(Len(s) - 1)
              PROVE  t[i] = s[at(i)] /\ at(i) \in 1..Len(s) \ {k}
            <4>1. CASE i < k
                BY <1>1, <2>1, <3>1, <3>2, <4>1
            <4>2. CASE ~(i < k)
                <5>1. i - (k - 1) \in 1..(Len(s) - k) /\ k + (i - (k - 1)) = i + 1 /\ ~(i <= k - 1)
                    BY <1>1, <2>1, <4>2
                <5>2. t[i] = b[i - (k - 1)]
                    BY <1>1, <2>1, <3>1, <3>2, <5>1
                <5> QED
                    BY <1>1, <2>1, <3>1, <4>2, <5>1, <5>2
            <4> QED
                BY <4>1, <4>2
        <3> QED
            BY <1>1, <2>1, <3>1, <3>2, <3>3
    <2> HIDE DEF t
    <2>6. \A i \in 1..Len(t) : t[i] \in S \ {x}
        BY <1>1, <1>2, <2>1, <2>5, ElementOfSeq
    <2>7. t \in Seq(S \ {x})
        BY <2>5, <2>6, SeqOver
    <2>8. IsInjective(t)
        <3> SUFFICES ASSUME NEW i \in 1..(Len(s) - 1), NEW j \in 1..(Len(s) - 1), t[i] = t[j]
                     PROVE  i = j
            BY <2>5, LenProperties DEF IsInjective
        <3>1. at(i) = at(j)
            BY <1>2, <2>5
        <3> QED
            BY <2>1, <3>1
    <2> QED
        BY <2>2, <2>7, <2>8 DEF Distinct, t
<1> QED
    BY <1>3, <1>4

LEMMA PrefixIsDistinct ==
    ASSUME NEW S, NEW s \in Distinct(S), NEW n \in 0..Len(s)
    PROVE  SubSeq(s, 1, n) \in Distinct(S)
<1>1. s \in Seq(S) /\ Len(s) \in Nat /\ DOMAIN s = 1..Len(s)
    BY LenProperties DEF Distinct
<1>2. \A i, j \in 1..Len(s) : s[i] = s[j] => i = j
    BY <1>1 DEF Distinct, IsInjective
<1>3. \A i \in 1..n : s[i] \in S
    BY <1>1, ElementOfSeq
<1>4. 1 \in Int /\ n \in Int /\ n - 1 + 1 = n
    BY <1>1
<1>5. /\ SubSeq(s, 1, n) \in Seq(S)
      /\ Len(SubSeq(s, 1, n)) = IF 1 <= n THEN n - 1 + 1 ELSE 0
      /\ \A i \in 1 .. n - 1 + 1 : SubSeq(s, 1, n)[i] = s[1 + i - 1]
    BY <1>3, <1>4, SubSeqProperties
<1>6. /\ Len(SubSeq(s, 1, n)) = n /\ DOMAIN SubSeq(s, 1, n) = 1..n
      /\ \A i \in 1..n : SubSeq(s, 1, n)[i] = s[i]
    BY <1>1, <1>5, LenProperties
<1>7. IsInjective(SubSeq(s, 1, n))
    BY <1>1, <1>2, <1>6 DEF IsInjective
<1> QED
    BY <1>5, <1>7 DEF Distinct

LEMMA ConcatIsDistinct ==
    ASSUME NEW S, NEW t \in Distinct(S), NEW s \in Distinct(S \ ToSet(t))
    PROVE  s \o t \in Distinct(S)
<1>1. s \in Seq(S \ ToSet(t)) /\ s \in Seq(S) /\ t \in Seq(S) /\ Len(s) \in Nat /\ Len(t) \in Nat
    BY SeqMonotonic, LenProperties DEF Distinct
<1>2. /\ \A i, j \in 1..Len(s) : s[i] = s[j] => i = j
      /\ \A i, j \in 1..Len(t) : t[i] = t[j] => i = j
    BY <1>1, LenProperties DEF Distinct, IsInjective
<1>3. \A i \in 1..Len(s), j \in 1..Len(t) : s[i] # t[j]
    BY <1>1, ElementOfSeq, LenProperties DEF ToSet
<1>4. /\ s \o t \in Seq(S) /\ Len(s \o t) = Len(s) + Len(t)
      /\ \A i \in 1 .. Len(s) + Len(t) : (s \o t)[i] = IF i <= Len(s) THEN s[i] ELSE t[i - Len(s)]
    BY <1>1, ConcatProperties
<1>5. IsInjective(s \o t)
    <2> DEFINE u == s \o t
    <2> SUFFICES ASSUME NEW i \in 1 .. Len(s) + Len(t), NEW j \in 1 .. Len(s) + Len(t), u[i] = u[j]
                 PROVE  i = j
        BY <1>4, LenProperties DEF IsInjective
    <2>1. \A k \in 1 .. Len(s) + Len(t) :
             IF k <= Len(s) THEN k \in 1..Len(s) /\ u[k] = s[k]
             ELSE k - Len(s) \in 1..Len(t) /\ u[k] = t[k - Len(s)]
        BY <1>1, <1>4
    <2> HIDE DEF u
    <2>2. CASE i <= Len(s) /\ j <= Len(s)
        BY <1>2, <2>1, <2>2
    <2>3. CASE ~(i <= Len(s)) /\ ~(j <= Len(s))
        <3>1. i - Len(s) = j - Len(s)
            BY <1>2, <2>1, <2>3
        <3> QED
            BY <1>1, <3>1
    <2>4. CASE i <= Len(s) /\ ~(j <= Len(s))
        BY <1>3, <2>1, <2>4
    <2>5. CASE ~(i <= Len(s)) /\ j <= Len(s)
        BY <1>3, <2>1, <2>5
    <2> QED
        BY <2>2, <2>3, <2>4, <2>5
<1> QED
    BY <1>4, <1>5 DEF Distinct

LEMMA DistinctMonotonic ==
    ASSUME NEW S, NEW T, S \subseteq T, NEW s \in Distinct(S)
    PROVE  s \in Distinct(T)
BY SeqMonotonic DEF Distinct

-----------------------------------------------------------------------------
(***************************************************************************)
(* What is normalised of an execution.                                     *)
(***************************************************************************)
\* Of finitely many numbers one is the greatest.
LEMMA FiniteIsBounded ==
    ASSUME NEW S, IsFiniteSet(S), S \subseteq Nat
    PROVE  \E b \in Nat : \A y \in S : y <= b
<1> DEFINE bounded(T) == \E b \in Nat : \A y \in T : y <= b
           C == {Cardinality(T) : T \in {U \in SUBSET S : ~bounded(U)}}
<1>1. \A T \in SUBSET S : IsFiniteSet(T) /\ Cardinality(T) \in Nat
    BY FS_Subset, FS_CardinalityType
<1>2. SUFFICES ASSUME ~bounded(S)
               PROVE  FALSE
    OBVIOUS
<1>3. C \subseteq Nat /\ C # {}
    BY <1>1, <1>2
<1>4. PICK T \in SUBSET S : ~bounded(T) /\ \A n \in C : Cardinality(T) <= n
    <2> HIDE DEF C
    <2>1. Min(C) \in C /\ \A n \in C : Min(C) <= n
        BY <1>3, LeastOfNats
    <2>2. PICK T \in SUBSET S : ~bounded(T) /\ Cardinality(T) = Min(C)
        BY <2>1 DEF C
    <2> QED
        BY <2>1, <2>2
<1>5. PICK x \in T : TRUE
    <2>1. T # {}
        BY <1>4
    <2> QED
        BY <2>1
<1>6. Cardinality(T \ {x}) = Cardinality(T) - 1 /\ T \ {x} \in SUBSET S
    BY <1>1, <1>5, FS_RemoveElement
<1>7. bounded(T \ {x})
    <2>1. SUFFICES ASSUME ~bounded(T \ {x})
                   PROVE  FALSE
        OBVIOUS
    <2>2. Cardinality(T \ {x}) \in C
        BY <1>6, <2>1
    <2> QED
        BY <1>1, <1>4, <1>6, <2>2
<1>8. PICK b \in Nat : \A y \in T \ {x} : y <= b
    BY <1>7
<1>9. x \in Nat
    BY <1>5
<1>10. CASE x <= b
    <2>1. \A y \in T : y <= b
        BY <1>8, <1>10
    <2> QED
        BY <1>4, <2>1
<1>11. CASE ~(x <= b)
    <2>1. \A y \in T : y <= x
        BY <1>8, <1>9, <1>11
    <2> QED
        BY <1>4, <1>9, <2>1
<1> QED
    BY <1>10, <1>11

LEMMA SourcesAre ==
    /\ Sources \subseteq Nat /\ 0 \in Sources
    /\ \A o \in Outcomes : Len(o.receipts) \in Nat /\ 0..Len(o.receipts) \subseteq Sources
<1> DEFINE S == {Len(o.receipts) : o \in Outcomes}
           f == [o \in Outcomes |-> Len(o.receipts)]
<1>1. \A o \in Outcomes : Len(o.receipts) \in Nat
    BY WatchlistAssumption, LenProperties
<1>2. f \in Surjection(Outcomes, S)
    BY DEF Surjection
<1>3. IsFiniteSet(S)
    BY <1>2, FS_Surjection, WatchlistAssumption
<1>4. S \subseteq Nat /\ S # {}
    BY <1>1, WatchlistAssumption
<1> HIDE DEF S
<1>5. PICK b \in Nat : \A y \in S : y <= b
    BY <1>3, <1>4, FiniteIsBounded
<1>6. Max(S) \in S /\ \A y \in S : y <= Max(S)
    BY <1>4, <1>5, GreatestOfNats
<1>7. Sources = 0..Max(S)
    BY DEF Sources, S
<1>8. \A o \in Outcomes : Len(o.receipts) \in S
    BY DEF S
<1>9. Max(S) \in Nat
    BY <1>4, <1>6
<1> QED
    BY <1>1, <1>6, <1>7, <1>8, <1>9

\* Of an execution that runs the one thing known is that it is pending.
LEMMA RunningIsPending ==
    ASSUME NEW r, r.status = "running", r.receipts = <<>>
    PROVE  normaliseExecution(r) = [k \in {0} |-> "pending"]
<1>1. statusWithoutReceipt(r) = "pending"
    BY DEF statusWithoutReceipt, failureStage
<1> QED
    BY <1>1 DEF normaliseExecution

LEMMA EndIsNormalised ==
    ASSUME NEW o \in Outcomes
    PROVE  /\ DOMAIN normaliseExecution(o) \subseteq Sources
           /\ Len(o.receipts) \in DOMAIN normaliseExecution(o)
           /\ \A k \in DOMAIN normaliseExecution(o) : normaliseExecution(o)[k] \in Outcome
<1>1. /\ o.receipts \in Seq({"success", "reverted", "none"}) /\ Len(o.receipts) \in Nat
      /\ DOMAIN o.receipts = 1..Len(o.receipts) /\ o.status \in {"completed", "failed"} /\ o.hash \in BOOLEAN
      /\ \A k \in 1..Len(o.receipts) : o.receipts[k] \in {"success", "reverted", "none"}
    BY WatchlistAssumption, LenProperties, ElementOfSeq
<1>2. CASE o.receipts = <<>>
    <2>1. normaliseExecution(o) = [k \in {0} |-> statusWithoutReceipt(o)]
        BY <1>2 DEF normaliseExecution
    <2>2. statusWithoutReceipt(o) \in Outcome
        BY <1>1 DEF statusWithoutReceipt, failureStage, Outcome
    <2>3. Len(o.receipts) = 0
        BY <1>2, EmptySeq
    <2> QED
        BY <2>1, <2>2, <2>3, SourcesAre
<1>3. CASE o.receipts # <<>>
    <2>1. normaliseExecution(o) = [k \in 1..Len(o.receipts) |-> receiptOutcome(o, k)]
        BY <1>1, <1>3 DEF normaliseExecution
    <2>2. ASSUME NEW k \in 1..Len(o.receipts)
          PROVE  receiptOutcome(o, k) \in Outcome
        <3>1. o.receipts[k] = "success" \/ o.receipts[k] = "reverted" \/ o.receipts[k] = "none"
            BY <1>1
        <3> QED
            BY <1>1, <3>1 DEF receiptOutcome, Outcome
    <2>3. Len(o.receipts) # 0
        BY <1>1, <1>3, EmptySeq
    <2> QED
        BY <1>1, <2>1, <2>2, <2>3, SourcesAre
<1> QED
    BY <1>2, <1>3

LEMMA EventsAreNormalised ==
    ASSUME NEW r, NEW seen \in BOOLEAN
    PROVE  LET new == enrichEvents(r, seen)
           IN  /\ DOMAIN new = DOMAIN normaliseExecution(r)
               /\ \A k \in DOMAIN new : /\ new[k].status = normaliseExecution(r)[k]
                                        /\ new[k] = [status |-> normaliseExecution(r)[k],
                                                     priced |-> (seen /\ IsOut(r))]
BY Zenon DEF enrichEvents

-----------------------------------------------------------------------------
(***************************************************************************)
(* Each step keeps what is known of the watched executions.                *)
(***************************************************************************)
USE DEF TERMINAL_STATUSES

LEMMA XStart == ASSUME mode \in Modes, WatchlistInit PROVE XInv
<1>1. ServiceInv
    BY DEF WatchlistInit, ServiceInv, Unfinished, NoRecord
<1>2. RecordsInv
    <2>1. \A x \in Executions, k \in Sources : recorded[x, k] = NoEvent
        BY DEF WatchlistInit
    <2> QED
        BY <2>1 DEF WatchlistInit, RecordsInv, NoEvent, Outcome
<1>3. LoopInv
    <2>1. <<>> \in Seq(Due) /\ <<>> \in Seq(Executions) /\ Len(<<>>) = 0
        BY EmptySeq
    <2>2. IsInjective(<<>>)
        BY <2>1, LenProperties DEF IsInjective
    <2> QED
        BY <2>1, <2>2
        DEF WatchlistInit, LoopInv, LoopRecord, PollRecord, Stopped, Asleep, NoRecord, Unfinished
<1>4. SettledInv
    BY DEF WatchlistInit, SettledInv
<1> QED
    BY <1>1, <1>2, <1>3, <1>4 DEF XInv

LEMMA XStays == ASSUME XInv, UNCHANGED <<mode, xvars>> PROVE XInv'
BY DEF XInv, ServiceInv, RecordsInv, LoopInv, SettledInv, Terminal, Final, LastSource, Held, Due, xvars

\* KeeperHub's record of an execution changes while it has not ended.
LEMMA ServiceMoves ==
    ASSUME XInv, NEW x \in Executions, ~Terminal(x),
           NEW v, service' = [service EXCEPT ![x] = v],
           UNCHANGED <<listed, polled, recorded, loop, poll>>
    PROVE  RecordsInv' /\ LoopInv' /\ SettledInv'
<1>1. \A y \in Executions \ {x} :
         service'[y] = service[y] /\ (Terminal(y) <=> Terminal(y)') /\ Final(y)' = Final(y)
         /\ LastSource(y)' = LastSource(y) /\ Held(y)' = Held(y)
    BY DEF XInv, ServiceInv, Terminal, Final, LastSource, Held
<1>2. RecordsInv'
    <2>1. \A k \in Sources : recorded[x, k].status \in {"none", "pending"}
        BY DEF XInv, RecordsInv
    <2>2. ASSUME NEW y \in Executions, NEW k \in Sources
          PROVE  (\/ recorded[y, k].status \in {"none", "pending"}
                  \/ Terminal(y) /\ k \in DOMAIN Final(y) /\ recorded[y, k].status = Final(y)[k])'
        <3>1. CASE y = x
            BY <2>1, <3>1
        <3>2. CASE y # x
            <4>1. \/ recorded[y, k].status \in {"none", "pending"}
                  \/ Terminal(y) /\ k \in DOMAIN Final(y) /\ recorded[y, k].status = Final(y)[k]
                BY DEF XInv, RecordsInv
            <4>2. Terminal(y)' = Terminal(y) /\ Final(y)' = Final(y) /\ recorded' = recorded
                BY <1>1, <3>2 DEF Terminal
            <4> QED
                BY <4>1, <4>2
        <3> QED
            BY <3>1, <3>2
    <2> QED
        BY <2>2 DEF XInv, RecordsInv
<1>3. SettledInv'
    BY <1>1 DEF XInv, SettledInv
<1>4. LoopInv'
    <2>1. Due' = Due
        BY DEF Due
    <2>2. ASSUME poll.pc \in {"inserting", "marking"}
          PROVE  Head(poll.due) \in Executions
        <3>1. poll.due # <<>> /\ poll.due \in Seq(Due)
            BY <2>2 DEF XInv, LoopInv
        <3> QED
            BY <3>1, HeadTailProperties DEF Due
    <2>3. ASSUME poll.pc \in {"inserting", "marking"}, ~(poll.got.status = "running" /\ poll.got.receipts = <<>>)
          PROVE  Head(poll.due) \in Executions \ {x}
        BY <2>2, <2>3 DEF XInv, LoopInv
    <2>4. ASSUME poll.pc \in {"inserting", "marking"}
          PROVE  (/\ poll.due # <<>>
                  /\ \/ poll.got.status = "running" /\ poll.got.receipts = <<>>
                     \/ /\ poll.got = service[Head(poll.due)] /\ Terminal(Head(poll.due))
                        /\ poll.pc = "marking" => Held(Head(poll.due)))'
        <3>1. poll.due # <<>>
            BY <2>4 DEF XInv, LoopInv
        <3>2. CASE poll.got.status = "running" /\ poll.got.receipts = <<>>
            BY <3>1, <3>2
        <3>3. CASE ~(poll.got.status = "running" /\ poll.got.receipts = <<>>)
            <4>1. /\ poll.got = service[Head(poll.due)] /\ Terminal(Head(poll.due))
                  /\ poll.pc = "marking" => Held(Head(poll.due))
                BY <2>4, <3>3 DEF XInv, LoopInv
            <4>2. Head(poll.due) \in Executions \ {x}
                BY <2>3, <2>4, <3>3
            <4> QED
                BY <1>1, <3>1, <4>1, <4>2
        <3> QED
            BY <3>2, <3>3
    <2> QED
        BY <2>1, <2>4 DEF XInv, LoopInv
<1> QED
    BY <1>2, <1>3, <1>4

LEMMA XSubmits ==
    ASSUME XInv, NEW x \in Executions, Submits(x) \/ SubmitFails(x)
    PROVE  XInv'
<1>1. service[x] = NoRecord /\ listed[x] = "no" /\ service \in [Executions -> Outcomes \union Unfinished]
    BY DEF XInv, ServiceInv, Submits, SubmitFails
<1>2. PICK status \in {"none", "running"} : service' = [service EXCEPT ![x].status = status]
                                            /\ (Submits(x) => status = "running")
    BY DEF Submits, SubmitFails
<1> DEFINE v == [NoRecord EXCEPT !.status = status]
<1>3. service' = [service EXCEPT ![x] = v] /\ v \in Unfinished /\ v.status = status
    BY <1>1, <1>2 DEF NoRecord, Unfinished
<1>4. ~Terminal(x)
    BY <1>1 DEF Terminal, NoRecord
<1>5. RecordsInv' /\ LoopInv' /\ SettledInv'
    BY <1>3, <1>4, ServiceMoves DEF Submits, SubmitFails
<1> HIDE DEF v
<1>6. ServiceInv'
    BY <1>1, <1>2, <1>3 DEF XInv, ServiceInv, Submits, SubmitFails
<1> QED
    BY <1>5, <1>6 DEF XInv

LEMMA XBroadcast ==
    ASSUME XInv, NEW x \in Executions, Broadcast(x)
    PROVE  XInv'
<1>1. service[x] \in Unfinished /\ service \in [Executions -> Outcomes \union Unfinished]
    BY WatchlistAssumption DEF XInv, ServiceInv, Broadcast
<1> DEFINE v == [service[x] EXCEPT !.hash = TRUE]
<1>2. service' = [service EXCEPT ![x] = v] /\ v \in Unfinished /\ v.status = "running"
    BY <1>1 DEF Broadcast, Unfinished
<1>3. ~Terminal(x)
    BY DEF Terminal, Broadcast
<1>4. RecordsInv' /\ LoopInv' /\ SettledInv'
    BY <1>2, <1>3, ServiceMoves DEF Broadcast
<1> HIDE DEF v
<1>5. call[x] # "idle"
    BY DEF XInv, ServiceInv, Broadcast, NoRecord
<1>6. \A y \in Executions \ {x} : service'[y] = service[y]
    BY <1>1, <1>2
<1>7. service'[x].status = "running" /\ service' \in [Executions -> Outcomes \union Unfinished]
    BY <1>1, <1>2
<1>8. ServiceInv'
    BY <1>5, <1>6, <1>7 DEF XInv, ServiceInv, Broadcast
<1> QED
    BY <1>4, <1>8 DEF XInv

LEMMA XEnds ==
    ASSUME XInv, NEW x \in Executions, Ends(x)
    PROVE  XInv'
<1>1. PICK o \in Outcomes : service' = [service EXCEPT ![x] = o]
    BY DEF Ends
<1>2. ~Terminal(x)
    BY DEF Terminal, Ends
<1>3. RecordsInv' /\ LoopInv' /\ SettledInv'
    BY <1>1, <1>2, ServiceMoves DEF Ends
<1>5. call[x] # "idle"
    BY DEF XInv, ServiceInv, Ends, NoRecord
<1>6. \A y \in Executions \ {x} : service'[y] = service[y]
    BY <1>1 DEF XInv, ServiceInv
<1>7. service'[x].status # "none" /\ service' \in [Executions -> Outcomes \union Unfinished]
    BY <1>1, WatchlistAssumption DEF XInv, ServiceInv
<1>4. ServiceInv'
    BY <1>5, <1>6, <1>7 DEF XInv, ServiceInv, Ends
<1> QED
    BY <1>3, <1>4 DEF XInv

LEMMA XRegister ==
    ASSUME XInv, NEW x \in Executions, register(x) \/ RegisterFails(x)
    PROVE  XInv'
<1>1. /\ listed[x] = "no" /\ call' = [call EXCEPT ![x] = IF register(x) THEN "returned" ELSE "threw"]
      /\ listed' = IF register(x) THEN [listed EXCEPT ![x] = "due"] ELSE listed
    BY DEF XInv, ServiceInv, register, RegisterFails, watchExecution
<1>2. UNCHANGED <<mode, service, polled, recorded, loop, poll>>
    BY DEF register, RegisterFails
<1>3. ServiceInv'
    BY <1>1, <1>2 DEF XInv, ServiceInv, register, RegisterFails
<1>4. RecordsInv' /\ SettledInv'
    BY <1>1, <1>2 DEF XInv, ServiceInv, RecordsInv, SettledInv, Terminal, Final, LastSource, Held
<1>5. LoopInv'
    <2>1. Due \subseteq Due'
        BY <1>1 DEF XInv, ServiceInv, Due
    <2>2. poll.due \in Seq(Due') /\ polled \in Seq(Due')
        BY <2>1, SeqMonotonic DEF XInv, LoopInv
    <2> QED
        BY <1>2, <2>2 DEF XInv, LoopInv, Terminal, Final, LastSource, Held
<1> QED
    BY <1>3, <1>4, <1>5 DEF XInv

\* The loop's own steps: nothing of an execution changes.
LEMMA LoopMoves ==
    ASSUME XInv, UNCHANGED <<mode, call, service, listed, polled, recorded>>
    PROVE  /\ ServiceInv' /\ RecordsInv' /\ SettledInv'
           /\ Due' = Due /\ polled' \in Distinct(Due) /\ polled \in Distinct(Due)
           /\ poll.due \in Distinct(Due) /\ poll.due \in Distinct(Due') /\ polled \in Distinct(Due')
BY DEF XInv, ServiceInv, RecordsInv, LoopInv, SettledInv, Terminal, Final, LastSource, Held, Due, Distinct

LEMMA XLoopStarts ==
    ASSUME XInv, LoopStarts \/ LoopStops \/ BodyEnds \/ TickEnds
    PROVE  XInv'
<1>1. UNCHANGED <<mode, call, service, listed, polled, recorded>>
    BY DEF LoopStarts, LoopStops, BodyEnds, TickEnds
<1>2. <<>> \in Seq(Due) /\ <<>> \in Seq(Executions) /\ IsInjective(<<>>)
    BY EmptySeq, LenProperties DEF IsInjective
<1>3. loop \in LoopRecord /\ poll \in PollRecord
    BY DEF XInv, LoopInv
<1>4. CASE LoopStops
    <2> DEFINE n == loop.stops + 1
    <2>0. n \in Nat
        BY <1>3 DEF LoopRecord
    <2>1. loop' = [loop EXCEPT !.stopping = TRUE, !.stops = n] /\ poll' = poll
        BY <1>4 DEF LoopStops
    <2> HIDE DEF n
    <2>2. loop' \in LoopRecord /\ loop'.running = loop.running /\ loop'.bodies = loop.bodies
        BY <1>3, <2>0, <2>1 DEF LoopRecord
    <2> QED
        BY <1>1, <2>1, <2>2, LoopMoves DEF XInv, LoopInv, Distinct, Terminal, Final, LastSource, Held
<1>5. CASE LoopStarts \/ BodyEnds \/ TickEnds
    <2>1. /\ poll' \in PollRecord /\ poll'.due = <<>> /\ poll'.pc = IF BodyEnds THEN "off" ELSE "asleep"
        <3>1. Asleep \in PollRecord /\ Asleep.due = <<>> /\ Asleep.pc = "off"
            BY <1>2 DEF Asleep, PollRecord, NoRecord, Unfinished
        <3>2. CASE BodyEnds
            BY <3>1, <3>2 DEF BodyEnds
        <3>3. CASE ~BodyEnds
            <4>1. poll' = [Asleep EXCEPT !.pc = "asleep"]
                BY <1>5, <3>3 DEF LoopStarts, TickEnds
            <4> QED
                BY <3>1, <3>3, <4>1 DEF PollRecord
        <3> QED
            BY <3>2, <3>3
    <2>2. loop.bodies = (IF loop.running THEN 1 ELSE 0) /\ (poll.pc = "off" <=> ~loop.running)
        BY DEF XInv, LoopInv
    <2>3. loop' \in LoopRecord /\ loop'.bodies = (IF loop'.running THEN 1 ELSE 0) /\ (loop'.running <=> ~BodyEnds)
        <3>1. CASE BodyEnds
            <4> DEFINE n == loop.bodies - 1
            <4>1. n = 0
                BY <2>2, <3>1 DEF BodyEnds
            <4>2. loop' = [loop EXCEPT !.bodies = n, !.running = FALSE]
                BY <3>1 DEF BodyEnds
            <4> HIDE DEF n
            <4> QED
                BY <1>3, <3>1, <4>1, <4>2 DEF LoopRecord
        <3>2. CASE LoopStarts
            <4> DEFINE n == loop.bodies + 1
            <4>1. n = 1 /\ ~BodyEnds
                BY <2>2, <3>2 DEF LoopStarts, BodyEnds
            <4>2. loop' = [loop EXCEPT !.running = TRUE, !.stopping = FALSE, !.bodies = n]
                BY <3>2 DEF LoopStarts
            <4> HIDE DEF n
            <4> QED
                BY <1>3, <4>1, <4>2 DEF LoopRecord
        <3>3. CASE TickEnds /\ ~BodyEnds
            BY <1>3, <2>2, <3>3 DEF TickEnds, LoopRecord
        <3> QED
            BY <1>5, <3>1, <3>2, <3>3
    <2>4. poll'.pc \in {"off", "asleep"} /\ (poll'.pc = "off" <=> ~loop'.running)
        BY <2>1, <2>3
    <2> QED
        BY <1>1, <1>2, <2>1, <2>3, <2>4, LoopMoves DEF XInv, LoopInv, Distinct
<1> QED
    BY <1>4, <1>5

LEMMA XDies == ASSUME XInv, Dies PROVE XInv'
<1>1. ServiceInv'
    BY DEF XInv, ServiceInv, Dies
<1>2. RecordsInv' /\ SettledInv' /\ Due' = Due
    BY DEF XInv, RecordsInv, SettledInv, Terminal, Final, LastSource, Held, Due, Dies
<1>3. <<>> \in Seq(Due) /\ <<>> \in Seq(Executions) /\ IsInjective(<<>>)
    BY EmptySeq, LenProperties DEF IsInjective
<1>4. LoopInv'
    BY <1>2, <1>3 DEF XInv, LoopInv, Dies, PollRecord, LoopRecord, Asleep, Stopped, NoRecord, Unfinished
<1> QED
    BY <1>1, <1>2, <1>4 DEF XInv

\* Whoever a tick polls first is due.
LEMMA HeadIsDue ==
    ASSUME XInv, poll.due # <<>>
    PROVE  /\ Head(poll.due) \in Due /\ Head(poll.due) \in Executions
           /\ Tail(poll.due) \in Distinct(Due \ {Head(poll.due)}) /\ Tail(poll.due) \in Distinct(Due)
           /\ Tail(poll.due) \in Seq(Executions)
<1>1. poll.due \in Distinct(Due)
    BY DEF XInv, LoopInv, Distinct
<1>2. Head(poll.due) \in Due /\ Tail(poll.due) \in Distinct(Due \ {Head(poll.due)})
    BY <1>1, TailIsDistinct
<1>3. Due \subseteq Executions /\ Due \ {Head(poll.due)} \subseteq Due
    BY DEF Due
<1>4. Tail(poll.due) \in Distinct(Due) /\ Tail(poll.due) \in Distinct(Executions)
    BY <1>2, <1>3, DistinctMonotonic
<1> QED
    BY <1>2, <1>3, <1>4 DEF Distinct

LEMMA XTickBegins == ASSUME XInv, TickBegins PROVE XInv'
<1>1. UNCHANGED <<mode, call, service, listed, polled, recorded, loop>>
    BY DEF TickBegins
<1>2. PICK s \in dueExecutions :
         poll' = [Asleep EXCEPT !.pc = "polling", !.due = SubSeq(s, 1, Min({mode.batch, Len(s)}))]
    BY DEF TickBegins
<1>3. PICK a \in SetToSeqs(Due \ ToSet(polled)) : s = a \o polled
    BY <1>2 DEF dueExecutions
<1> DEFINE S == Due \ ToSet(polled)
           n == Min({mode.batch, Len(s)})
<1>4. S \subseteq Executions /\ IsFiniteSet(S) /\ Cardinality(S) \in Nat
    BY FS_Subset, FS_CardinalityType, WatchlistAssumption DEF Due
<1>5. a \in Distinct(S)
    <2>1. a \in [1..Cardinality(S) -> S] /\ \A i, j \in 1..Cardinality(S) : i # j => a[i] # a[j]
        BY <1>3 DEF SetToSeqs
    <2>2. a \in Seq(S)
        BY <1>4, <2>1, SeqDef
    <2> QED
        BY <2>1, <2>2 DEF Distinct, IsInjective
<1>6. s \in Distinct(Due)
    BY <1>1, <1>3, <1>5, LoopMoves, ConcatIsDistinct
<1>7. n \in 0..Len(s)
    <2>1. s \in Seq(Due)
        BY <1>6 DEF Distinct
    <2>2. Len(s) \in Nat /\ mode.batch \in Nat
        BY <2>1, LenProperties, WatchlistAssumption DEF XInv, ServiceInv
    <2>3. n \in {mode.batch, Len(s)} /\ n <= Len(s)
        <3>1. {mode.batch, Len(s)} \subseteq Nat /\ {mode.batch, Len(s)} # {}
            BY <2>2
        <3> QED
            BY <3>1, LeastOfNats
    <2> QED
        BY <2>2, <2>3
<1> HIDE DEF n
<1>8. SubSeq(s, 1, n) \in Distinct(Due) /\ SubSeq(s, 1, n) \in Seq(Executions)
    <2>1. SubSeq(s, 1, n) \in Distinct(Due) /\ Due \subseteq Executions
        BY <1>6, <1>7, PrefixIsDistinct DEF Due
    <2> QED
        BY <2>1, SeqMonotonic DEF Distinct
<1>9. poll' = [Asleep EXCEPT !.pc = "polling", !.due = SubSeq(s, 1, n)]
    BY <1>2 DEF n
<1>10. poll' \in PollRecord /\ poll'.pc = "polling" /\ poll'.due = SubSeq(s, 1, n)
    BY <1>8, <1>9 DEF Asleep, PollRecord, NoRecord, Unfinished
<1>11. poll.pc = "asleep"
    BY DEF TickBegins
<1>12. ServiceInv' /\ RecordsInv' /\ SettledInv' /\ Due' = Due /\ polled' \in Distinct(Due)
    BY <1>1, LoopMoves
<1>13. LoopInv'
    BY <1>1, <1>8, <1>10, <1>11, <1>12 DEF XInv, LoopInv, Distinct
<1> QED
    BY <1>12, <1>13 DEF XInv

LEMMA XSkips ==
    ASSUME XInv, poll.due # <<>>, poll.pc \in {"polling", "inserting", "marking"}, Skipped,
           UNCHANGED <<mode, call, service, listed, polled, recorded, loop>>
    PROVE  XInv'
<1>1. poll \in PollRecord
    BY DEF XInv, LoopInv
<1>2. /\ poll' = [poll EXCEPT !.pc = "polling", !.due = Tail(poll.due)]
      /\ Tail(poll.due) \in Distinct(Due) /\ Tail(poll.due) \in Seq(Executions)
    BY HeadIsDue DEF Skipped
<1>3. poll' \in PollRecord /\ poll'.pc = "polling" /\ poll'.due = Tail(poll.due)
    BY <1>1, <1>2 DEF PollRecord
<1>4. ServiceInv' /\ RecordsInv' /\ SettledInv' /\ Due' = Due /\ polled' \in Distinct(Due)
    BY LoopMoves
<1>5. LoopInv'
    BY <1>2, <1>3, <1>4 DEF XInv, LoopInv, Distinct
<1> QED
    BY <1>4, <1>5 DEF XInv

LEMMA XGetStatus == ASSUME XInv, GetStatus PROVE XInv'
<1> DEFINE h == Head(poll.due)
<1>1. UNCHANGED <<mode, call, service, listed, polled, recorded, loop>> /\ poll.due # <<>> /\ poll.pc = "polling"
    BY DEF GetStatus
<1>2. PICK seen \in BOOLEAN : poll' = [poll EXCEPT !.pc = "inserting", !.got = service[h], !.seen = seen]
    BY DEF GetStatus
<1>3. h \in Executions /\ listed[h] = "due"
    BY <1>1, HeadIsDue DEF Due
<1>4. poll \in PollRecord /\ service[h] \in Outcomes \union Unfinished
    BY <1>3 DEF XInv, LoopInv, ServiceInv
<1>5. /\ poll' \in PollRecord /\ poll'.pc = "inserting" /\ poll'.due = poll.due /\ poll'.got = service[h]
    <2> HIDE DEF h
    <2> QED
        BY <1>2, <1>4 DEF PollRecord
<1>6. \/ service[h].status = "running" /\ service[h].receipts = <<>>
      \/ Terminal(h)
    <2>1. service[h].status # "none"
        BY <1>3 DEF XInv, ServiceInv
    <2> QED
        BY <1>4, <2>1, WatchlistAssumption DEF Unfinished, Terminal
<1>7. ServiceInv' /\ RecordsInv' /\ SettledInv' /\ Due' = Due /\ polled' \in Distinct(Due)
    BY <1>1, LoopMoves
<1>8. LoopInv'
    <2>1. Head(poll'.due) = h /\ service' = service
        BY <1>1, <1>5
    <2> HIDE DEF h
    <2>2. (\/ poll.got.status = "running" /\ poll.got.receipts = <<>>
           \/ /\ poll.got = service[Head(poll.due)] /\ Terminal(Head(poll.due))
              /\ poll.pc = "marking" => Held(Head(poll.due)))'
        BY <1>5, <1>6, <2>1 DEF Terminal
    <2>3. poll.pc # "off"
        BY <1>1
    <2> QED
        BY <1>1, <1>5, <1>7, <2>2, <2>3 DEF XInv, LoopInv, Distinct
<1> QED
    BY <1>7, <1>8 DEF XInv

LEMMA XStoreEvents == ASSUME XInv, StoreEvents PROVE XInv'
<1>0. PICK h : h = Head(poll.due)
    OBVIOUS
<1> DEFINE new == enrichEvents(poll.got, poll.seen)
<1>1. /\ poll.pc = "inserting" /\ poll' = [poll EXCEPT !.pc = "marking"] /\ recorded' = insertEvents(h, new)
      /\ UNCHANGED <<mode, call, service, listed, polled, loop>>
    BY <1>0 DEF StoreEvents
<1>2. /\ poll \in PollRecord /\ poll.due # <<>>
      /\ \/ poll.got.status = "running" /\ poll.got.receipts = <<>>
         \/ poll.got = service[h] /\ Terminal(h)
    BY <1>0, <1>1 DEF XInv, LoopInv
<1>3. h \in Executions
    BY <1>0, <1>2, HeadIsDue
<1>4. recorded \in [Executions \X Sources -> [status : Outcome, priced : BOOLEAN]]
    BY DEF XInv, RecordsInv
<1>5. /\ DOMAIN new = DOMAIN normaliseExecution(poll.got) /\ DOMAIN new \subseteq Sources
      /\ \A k \in DOMAIN new : /\ new[k] \in [status : Outcome, priced : BOOLEAN]
                               /\ new[k].status = normaliseExecution(poll.got)[k]
    <2>1. poll.seen \in BOOLEAN /\ (poll.seen /\ IsOut(poll.got)) \in BOOLEAN
        BY <1>2 DEF PollRecord
    <2>2. /\ DOMAIN normaliseExecution(poll.got) \subseteq Sources
          /\ \A k \in DOMAIN normaliseExecution(poll.got) : normaliseExecution(poll.got)[k] \in Outcome
        <3>1. CASE poll.got.status = "running" /\ poll.got.receipts = <<>>
            BY <3>1, RunningIsPending, SourcesAre DEF Outcome
        <3>2. CASE poll.got = service[h] /\ Terminal(h)
            <4>1. poll.got \in Outcomes
                BY <1>3, <3>2 DEF XInv, ServiceInv, Terminal, Unfinished
            <4> QED
                BY <4>1, EndIsNormalised
        <3> QED
            BY <1>2, <3>1, <3>2
    <2>3. /\ DOMAIN new = DOMAIN normaliseExecution(poll.got)
          /\ \A k \in DOMAIN new : /\ new[k].status = normaliseExecution(poll.got)[k]
                                   /\ new[k] = [status |-> normaliseExecution(poll.got)[k],
                                                priced |-> (poll.seen /\ IsOut(poll.got))]
        BY <2>1, EventsAreNormalised
    <2> HIDE DEF new
    <2>4. ASSUME NEW k \in DOMAIN new
          PROVE  /\ new[k] \in [status : Outcome, priced : BOOLEAN]
                 /\ new[k].status = normaliseExecution(poll.got)[k]
        <3> DEFINE p == (poll.seen /\ IsOut(poll.got))
                   v == normaliseExecution(poll.got)[k]
        <3>1. p \in BOOLEAN /\ v \in Outcome /\ new[k] = [status |-> v, priced |-> p]
            BY <2>1, <2>2, <2>3
        <3> HIDE DEF p
        <3> QED
            BY <2>3, <3>1
    <2> QED
        BY <2>2, <2>3, <2>4
<1> HIDE DEF new
<1>6. ASSUME NEW y \in Executions, NEW k \in Sources
      PROVE  /\ recorded'[y, k] \in [status : Outcome, priced : BOOLEAN]
             /\ recorded'[y, k].status =
                   IF y = h /\ k \in DOMAIN new /\ recorded[y, k].status \in {"none", "pending"}
                   THEN normaliseExecution(poll.got)[k] ELSE recorded[y, k].status
    <2> DEFINE s == <<y, k>>
    <2>1. s \in DOMAIN recorded /\ s[1] = y /\ s[2] = k /\ recorded[s] \in [status : Outcome, priced : BOOLEAN]
        BY <1>4
    <2>2. recorded'[s] = IF s[1] # h \/ s[2] \notin DOMAIN new THEN recorded[s]
                         ELSE CASE recorded[s].status = "none" -> new[s[2]]
                                [] recorded[s].status = "pending" -> [recorded[s] EXCEPT !.status = new[s[2]].status]
                                [] OTHER -> recorded[s]
        BY <1>1, <2>1, Zenon DEF insertEvents
    <2>3. recorded'[s] = IF y # h \/ k \notin DOMAIN new THEN recorded[s]
                         ELSE CASE recorded[s].status = "none" -> new[k]
                                [] recorded[s].status = "pending" -> [recorded[s] EXCEPT !.status = new[k].status]
                                [] OTHER -> recorded[s]
        BY <2>1, <2>2
    <2> HIDE DEF s
    <2>4. CASE y # h \/ k \notin DOMAIN new
        BY <2>1, <2>3, <2>4 DEF s
    <2>5. CASE y = h /\ k \in DOMAIN new /\ recorded[s].status = "none"
        BY <1>5, <2>3, <2>5 DEF s
    <2>6. CASE y = h /\ k \in DOMAIN new /\ recorded[s].status = "pending"
        <3>1. recorded'[s] = [recorded[s] EXCEPT !.status = new[k].status]
            BY <2>3, <2>6
        <3>2. new[k].status \in Outcome /\ new[k].status = normaliseExecution(poll.got)[k]
            BY <1>5, <2>6
        <3>3. recorded'[s] \in [status : Outcome, priced : BOOLEAN] /\ recorded'[s].status = new[k].status
            BY <2>1, <3>1, <3>2
        <3> QED
            BY <2>6, <3>2, <3>3 DEF s
    <2>7. CASE y = h /\ k \in DOMAIN new /\ recorded[s].status \notin {"none", "pending"}
        BY <2>1, <2>3, <2>7 DEF s
    <2> QED
        BY <2>4, <2>5, <2>6, <2>7
<1>7. recorded' \in [Executions \X Sources -> [status : Outcome, priced : BOOLEAN]]
    <2>1. DOMAIN recorded' = Executions \X Sources
        BY <1>1, <1>4, Zenon DEF insertEvents
    <2>3. recorded' = [s \in Executions \X Sources |-> recorded'[s]]
        BY <1>1, <1>4 DEF insertEvents
    <2>4. \A s \in Executions \X Sources : recorded'[s] \in [status : Outcome, priced : BOOLEAN]
        <3> SUFFICES ASSUME NEW y \in Executions, NEW k \in Sources
                     PROVE  recorded'[<<y, k>>] \in [status : Outcome, priced : BOOLEAN]
            OBVIOUS
        <3> QED
            BY <1>6
    <2> QED
        BY <2>3, <2>4
<1>8. ASSUME poll.got = service[h], Terminal(h)
      PROVE  LastSource(h) \in Sources /\ LastSource(h) \in DOMAIN new /\ Final(h) = normaliseExecution(poll.got)
    <2>1. service[h] \in Outcomes
        BY <1>3, <1>8 DEF XInv, ServiceInv, Terminal, Unfinished
    <2> QED
        BY <1>5, <1>8, <2>1, EndIsNormalised DEF Final, LastSource
<1>9. RecordsInv'
    <2>1. ASSUME NEW y \in Executions, NEW k \in Sources
          PROVE  (\/ recorded[y, k].status \in {"none", "pending"}
                  \/ Terminal(y) /\ k \in DOMAIN Final(y) /\ recorded[y, k].status = Final(y)[k])'
        <3>1. Terminal(y)' = Terminal(y) /\ Final(y)' = Final(y)
            BY <1>1 DEF Terminal, Final
        <3>2. \/ recorded[y, k].status \in {"none", "pending"}
              \/ Terminal(y) /\ k \in DOMAIN Final(y) /\ recorded[y, k].status = Final(y)[k]
            BY DEF XInv, RecordsInv
        <3>3. CASE y = h /\ k \in DOMAIN new /\ recorded[y, k].status \in {"none", "pending"}
            <4>1. recorded'[y, k].status = normaliseExecution(poll.got)[k]
                BY <1>6, <3>3
            <4>2. CASE poll.got.status = "running" /\ poll.got.receipts = <<>>
                <5>1. normaliseExecution(poll.got) = [j \in {0} |-> "pending"]
                    BY <4>2, RunningIsPending
                <5> QED
                    BY <1>5, <3>3, <4>1, <5>1
            <4>3. CASE poll.got = service[h] /\ Terminal(h)
                BY <1>5, <1>8, <3>1, <3>3, <4>1, <4>3
            <4> QED
                BY <1>2, <4>2, <4>3
        <3>4. CASE ~(y = h /\ k \in DOMAIN new /\ recorded[y, k].status \in {"none", "pending"})
            BY <1>6, <3>1, <3>2, <3>4
        <3> QED
            BY <3>3, <3>4
    <2> QED
        BY <1>7, <2>1 DEF RecordsInv
<1>10. ASSUME NEW y \in Executions, y # h, Terminal(y), Held(y)
       PROVE  Held(y)'
    <2>1. service[y] \in Outcomes
        BY <1>10 DEF XInv, ServiceInv, Terminal, Unfinished
    <2>2. LastSource(y) \in Sources /\ UNCHANGED service
        BY <1>1, <2>1, SourcesAre DEF LastSource
    <2>3. recorded'[y, LastSource(y)].status = recorded[y, LastSource(y)].status
        BY <1>6, <1>10, <2>2
    <2> QED
        BY <1>10, <2>2, <2>3 DEF Held, Final, LastSource
<1>11. ASSUME poll.got = service[h], Terminal(h)
       PROVE  Held(h)'
    <2>1. /\ LastSource(h) \in Sources /\ LastSource(h) \in DOMAIN new /\ Final(h) = normaliseExecution(poll.got)
          /\ UNCHANGED service
        BY <1>1, <1>8, <1>11
    <2>2. \/ recorded[h, LastSource(h)].status \in {"none", "pending"}
          \/ recorded[h, LastSource(h)].status = Final(h)[LastSource(h)]
        BY <1>3, <2>1 DEF XInv, RecordsInv
    <2>3. recorded'[h, LastSource(h)].status = Final(h)[LastSource(h)]
        BY <1>3, <1>6, <2>1, <2>2
    <2> QED
        BY <2>1, <2>3 DEF Held, Final, LastSource
<1>12. SettledInv'
    <2> SUFFICES ASSUME NEW y \in Executions, listed[y] = "settled"
                 PROVE  Terminal(y)' /\ Held(y)'
        BY <1>1 DEF SettledInv
    <2>1. y # h
        BY <1>0, <1>2, HeadIsDue DEF Due
    <2>2. Terminal(y) /\ Held(y)
        BY DEF XInv, SettledInv
    <2> QED
        BY <1>1, <1>10, <2>1, <2>2 DEF Terminal
<1>13. LoopInv'
    <2>1. poll' \in PollRecord /\ poll'.pc = "marking" /\ poll'.due = poll.due /\ poll'.got = poll.got
        BY <1>1, <1>2 DEF PollRecord
    <2>2. Due' = Due /\ Head(poll'.due) = h
        BY <1>0, <1>1, <2>1 DEF Due
    <2>3. \/ poll'.got.status = "running" /\ poll'.got.receipts = <<>>
          \/ poll'.got = service'[h] /\ Terminal(h)' /\ Held(h)'
        <3>1. CASE poll.got.status = "running" /\ poll.got.receipts = <<>>
            BY <2>1, <3>1
        <3>2. CASE poll.got = service[h] /\ Terminal(h)
            BY <1>1, <1>11, <2>1, <3>2 DEF Terminal
        <3> QED
            BY <1>2, <3>1, <3>2
    <2>4. (\/ poll.got.status = "running" /\ poll.got.receipts = <<>>
           \/ /\ poll.got = service[Head(poll.due)] /\ Terminal(Head(poll.due))
              /\ poll.pc = "marking" => Held(Head(poll.due)))'
        BY <2>1, <2>2, <2>3
    <2>5. poll.pc # "off"
        BY <1>1
    <2> QED
        BY <1>1, <1>2, <2>1, <2>2, <2>4, <2>5 DEF XInv, LoopInv
<1>14. ServiceInv'
    BY <1>1 DEF XInv, ServiceInv
<1> QED
    BY <1>9, <1>12, <1>13, <1>14 DEF XInv

LEMMA XMarkPolled == ASSUME XInv, markPolled PROVE XInv'
<1>0. PICK h : h = Head(poll.due)
    OBVIOUS
<1>1. /\ poll.pc = "marking" /\ UNCHANGED <<mode, call, service, recorded, loop>>
      /\ poll' = [poll EXCEPT !.pc = "polling", !.due = Tail(poll.due)]
      /\ IF poll.got.status \in TERMINAL_STATUSES
         THEN listed' = [listed EXCEPT ![h] = "settled"] /\ polled' = Without(polled, h)
         ELSE listed' = listed /\ polled' = Append(Without(polled, h), h)
    BY <1>0 DEF markPolled, Skipped
<1>2. poll \in PollRecord /\ poll.due # <<>> /\ polled \in Distinct(Due)
    BY <1>1 DEF XInv, LoopInv, Distinct
<1>3. /\ h \in Due /\ h \in Executions /\ Tail(poll.due) \in Distinct(Due \ {h})
      /\ Tail(poll.due) \in Distinct(Due) /\ Tail(poll.due) \in Seq(Executions)
    BY <1>0, <1>2, HeadIsDue
<1>4. Without(polled, h) \in Distinct(Due \ {h})
    BY <1>2, WithoutIsDistinct
<1>5. poll' \in PollRecord /\ poll'.pc = "polling" /\ poll'.due = Tail(poll.due)
    BY <1>1, <1>2, <1>3 DEF PollRecord
<1>6. poll'.due \in Distinct(Due') /\ polled' \in Distinct(Due')
    <2>1. CASE poll.got.status \in TERMINAL_STATUSES
        <3>1. listed' = [listed EXCEPT ![h] = "settled"] /\ polled' = Without(polled, h)
            BY <1>1, <2>1
        <3>2. Due' = Due \ {h}
            BY <1>3, <3>1 DEF Due, XInv, ServiceInv
        <3> QED
            BY <1>3, <1>4, <1>5, <3>1, <3>2
    <2>2. CASE ~(poll.got.status \in TERMINAL_STATUSES)
        <3>1. listed' = listed /\ polled' = Append(Without(polled, h), h)
            BY <1>1, <2>2
        <3>2. Due' = Due
            BY <3>1 DEF Due
        <3> QED
            BY <1>3, <1>4, <1>5, <3>1, <3>2, AppendIsDistinct
    <2> QED
        BY <2>1, <2>2
<1>7. LoopInv'
    BY <1>1, <1>5, <1>6 DEF XInv, LoopInv, Distinct
<1>8. \A y \in Executions : /\ Terminal(y) => Terminal(y)'
                            /\ Held(y) => Held(y)'
                            /\ \/ listed'[y] = listed[y]
                               \/ /\ y = h /\ listed'[y] = "settled" /\ listed[y] = "due"
                                  /\ poll.got.status \in TERMINAL_STATUSES
    BY <1>1, <1>3 DEF Terminal, Held, Final, LastSource, Due, XInv, ServiceInv
<1>9. ASSUME poll.got.status \in TERMINAL_STATUSES
      PROVE  Terminal(h) /\ Held(h)
    BY <1>0, <1>1, <1>9 DEF XInv, LoopInv
<1>10. SettledInv'
    <2> SUFFICES ASSUME NEW y \in Executions, listed'[y] = "settled"
                 PROVE  Terminal(y)' /\ Held(y)'
        BY DEF SettledInv
    <2>1. CASE listed[y] = "settled"
        BY <1>8, <2>1 DEF XInv, SettledInv
    <2>2. CASE listed[y] # "settled"
        BY <1>1, <1>8, <1>9, <2>2
    <2> QED
        BY <2>1, <2>2
<1>11. RecordsInv'
    BY <1>1 DEF XInv, RecordsInv, Terminal, Final
<1>12. ServiceInv'
    <2>1. listed' \in [Executions -> {"no", "due", "settled"}]
        BY <1>1 DEF XInv, ServiceInv
    <2>2. \A y \in Executions : (listed'[y] = "no" <=> listed[y] = "no")
        BY <1>8
    <2> QED
        BY <1>1, <2>1, <2>2 DEF XInv, ServiceInv
<1> QED
    BY <1>7, <1>10, <1>11, <1>12 DEF XInv

\* All steps of the watched executions together.
LEMMA XNext == ASSUME XInv, WatchlistNext PROVE XInv'
<1>1. CASE BodyStep
    <2>1. CASE GetsNothing
        BY <2>1, XSkips DEF GetsNothing
    <2> QED
        BY <1>1, <2>1, XLoopStarts, XTickBegins, XGetStatus, XStoreEvents, XMarkPolled DEF BodyStep
<1>2. CASE PollThrows
    BY <1>2, XSkips DEF PollThrows
<1>3. CASE Dies \/ LoopStarts \/ LoopStops
    BY <1>3, XDies, XLoopStarts
<1>4. CASE \E x \in Executions : \/ Submits(x) \/ SubmitFails(x) \/ register(x) \/ RegisterFails(x)
                                 \/ Broadcast(x) \/ Ends(x)
    BY <1>4, XSubmits, XRegister, XBroadcast, XEnds
<1> QED
    BY <1>1, <1>2, <1>3, <1>4 DEF WatchlistNext

LEMMA XInvHolds == ASSUME XInv PROVE WatchlistHolds
<1>1. SettledIsRecorded
    BY DEF XInv, SettledInv, SettledIsRecorded, Terminal, Held, IsFinal
<1>2. UnwatchedIsTold
    BY DEF XInv, ServiceInv, UnwatchedIsTold
<1>3. TicksNeverOverlap
    BY ElementOfSeq, LenProperties DEF XInv, LoopInv, TicksNeverOverlap, ToSet
<1> QED
    BY <1>1, <1>2, <1>3 DEF WatchlistHolds

-----------------------------------------------------------------------------
(***************************************************************************)
(* Runs and what is normalised of them.                                    *)
(***************************************************************************)
LEMMA RunFacts ==
    ASSUME RunsInv
    PROVE  /\ Len(runs) \in Nat /\ Listed = 1..Len(runs) /\ Listed \subseteq Runs /\ Listed \subseteq Nat
           /\ MaxRuns \in Nat /\ MaxTxs \in Nat /\ MaxTime \in Nat /\ now \in Nat
           /\ \A i \in Listed : /\ runs[i] \in RunRecord /\ LastKey(i) \in Keys /\ LastKey(i) \in Nat
                                /\ runs[i].at \in Nat /\ runs[i].at <= now /\ runs[i].at >= 1
<1>1. MaxRuns \in Nat /\ MaxTxs \in Nat /\ MaxTime \in Nat /\ now \in Nat
    BY IntakeAssumption DEF RunsInv
<1>2. Len(runs) \in Nat /\ Listed = 1..Len(runs) /\ Len(runs) <= MaxRuns
    BY LenProperties DEF RunsInv, Listed
<1>3. \A i \in Listed : runs[i] \in RunRecord
    BY <1>2, ElementOfSeq DEF RunsInv
<1>4. ASSUME NEW i \in Listed
      PROVE  /\ LastKey(i) \in Keys /\ LastKey(i) \in Nat
             /\ runs[i].at \in Nat /\ runs[i].at <= now /\ runs[i].at >= 1
    <2>1. runs[i].txs \in Seq({"none", "success", "reverted"})
        BY <1>3 DEF RunRecord
    <2>2. Len(runs[i].txs) \in Nat /\ Len(runs[i].txs) <= MaxTxs /\ runs[i].at \in 1..now
        BY <2>1, LenProperties DEF RunsInv
    <2> QED
        BY <1>1, <2>2 DEF LastKey, Keys
<1> QED
    BY <1>1, <1>2, <1>3, <1>4 DEF Runs

LEMMA RunsAreRecords ==
    ASSUME NEW r \in Seq(RunRecord), NEW i \in DOMAIN r
    PROVE  r[i] \in RunRecord /\ Len(r[i].txs) \in Nat
<1>1. r[i] \in RunRecord
    BY LenProperties, ElementOfSeq
<1>2. r[i].txs \in Seq({"none", "success", "reverted"})
    BY <1>1 DEF RunRecord
<1> QED
    BY <1>1, <1>2, LenProperties

LEMMA NormalisedAre ==
    ASSUME NEW run \in RunRecord, run.workflow \notin Foreign
    PROVE  /\ Len(run.txs) \in Nat
           /\ Len(run.txs) \in DOMAIN normaliseRun(run)
           /\ Ended(run) => normaliseRun(run)[Len(run.txs)] \in {"included", "reverted", "rejected", "unknown"}
           /\ (~Ended(run) /\ \A k \in DOMAIN run.txs : run.txs[k] = "none")
                 => normaliseRun(run)[Len(run.txs)] = "pending"
           /\ \A k \in DOMAIN normaliseRun(run) :
                 k = Len(run.txs) \/ (k \in 1..(Len(run.txs) - 1) /\ normaliseRun(run)[k] = "replaced")
<1>1. /\ run.txs \in Seq({"none", "success", "reverted"}) /\ Len(run.txs) \in Nat
      /\ DOMAIN run.txs = 1..Len(run.txs) /\ run.status \in TERMINAL \union {"running"}
      /\ \A k \in 1..Len(run.txs) : run.txs[k] \in {"none", "success", "reverted"}
    <2>1. run.txs \in Seq({"none", "success", "reverted"}) /\ run.status \in TERMINAL \union {"running"}
        BY DEF RunRecord
    <2> QED
        BY <2>1, LenProperties, ElementOfSeq
<1>2. CASE run.txs = <<>>
    <2>1. normaliseRun(run) = [k \in {0} |-> outcomeWithoutTx(run)] /\ Len(run.txs) = 0
        BY <1>2, EmptySeq DEF normaliseRun
    <2>2. /\ Ended(run) => outcomeWithoutTx(run) \in {"included", "reverted", "rejected", "unknown"}
          /\ ~Ended(run) => outcomeWithoutTx(run) = "pending"
        BY <1>1 DEF Ended, TERMINAL, outcomeWithoutTx
    <2> QED
        BY <1>1, <2>1, <2>2
<1>3. CASE run.txs # <<>>
    <2> DEFINE l == Len(run.txs)
    <2>1. normaliseRun(run) = [k \in 1..l |-> outcomeForTx(run, k)] /\ l \in 1..l
        BY <1>1, <1>3, EmptySeq DEF normaliseRun
    <2>2. \A k \in 1..l : k # l => outcomeForTx(run, k) = "replaced"
        BY DEF outcomeForTx
    <2>3. run.txs[l] = "none" \/ run.txs[l] = "success" \/ run.txs[l] = "reverted"
        BY <1>1, <2>1
    <2>4. Ended(run) => outcomeForTx(run, l) \in {"included", "reverted", "rejected", "unknown"}
        BY <1>1, <2>3 DEF Ended, TERMINAL, outcomeForTx
    <2>5. ~Ended(run) /\ run.txs[l] = "none" => outcomeForTx(run, l) = "pending"
        BY <1>1 DEF Ended, TERMINAL, outcomeForTx
    <2>6. ASSUME NEW k \in DOMAIN normaliseRun(run)
          PROVE  k = l \/ (k \in 1..(l - 1) /\ normaliseRun(run)[k] = "replaced")
        <3>1. k \in 1..l /\ l \in Nat
            BY <1>1, <2>1
        <3>2. normaliseRun(run)[k] = outcomeForTx(run, k)
            BY <2>1, <3>1
        <3>3. k = l \/ k \in 1..(l - 1)
            BY <3>1
        <3> QED
            BY <2>2, <3>1, <3>2, <3>3
    <2>7. l \in DOMAIN normaliseRun(run) /\ normaliseRun(run)[l] = outcomeForTx(run, l)
        BY <2>1
    <2> HIDE DEF l
    <2>8. l = Len(run.txs)
        BY DEF l
    <2> QED
        BY <1>1, <2>1, <2>4, <2>5, <2>6, <2>7, <2>8
<1> QED
    BY <1>2, <1>3

\* An unreadable run has no events.
LEMMA ForeignHasNone ==
    ASSUME NEW run, run.workflow \in Foreign
    PROVE  DOMAIN normaliseRun(run) = {}
BY DEF normaliseRun

\* What has been seen of a run is provisional unless it is how the run ended.
LEMMA SeenIsNormalised ==
    ASSUME RunsInv, NEW e, Seen(e), NEW k \in DOMAIN normaliseRun(e.run)
    PROVE  /\ e.run.workflow \notin Foreign /\ k \in Keys
           /\ \/ normaliseRun(e.run)[k] = "pending"
              \/ normaliseRun(e.run)[k] = "replaced" /\ k \in 1..(LastKey(e.id) - 1)
              \/ /\ e.run = runs[e.id] /\ Ended(e.run) /\ k = LastKey(e.id)
                 /\ normaliseRun(e.run)[k] \in {"included", "reverted", "rejected", "unknown"}
<1>1. /\ e.id \in Listed /\ runs[e.id] \in RunRecord /\ LastKey(e.id) \in Nat /\ LastKey(e.id) <= MaxTxs
      /\ MaxTxs \in Nat
    BY RunFacts DEF Seen, Keys
<1>2. e.run \in RunRecord /\ e.run.workflow \notin Foreign
    BY <1>1, ForeignHasNone DEF Seen
<1>3. Len(e.run.txs) \in Nat /\ Len(e.run.txs) <= LastKey(e.id)
    BY <1>1, <1>2, NormalisedAre DEF Seen, LastKey
<1>4. k = Len(e.run.txs) \/ (k \in 1..(Len(e.run.txs) - 1) /\ normaliseRun(e.run)[k] = "replaced")
    BY <1>2, NormalisedAre
<1>5. k \in Keys
    BY <1>1, <1>3, <1>4 DEF Keys
<1>6. CASE k # Len(e.run.txs)
    BY <1>1, <1>2, <1>3, <1>4, <1>5, <1>6
<1>7. CASE k = Len(e.run.txs) /\ Ended(e.run)
    <2>1. e.run = runs[e.id] /\ k = LastKey(e.id)
        BY <1>7 DEF Seen, LastKey
    <2> QED
        BY <1>2, <1>5, <1>7, <2>1, NormalisedAre
<1>8. CASE k = Len(e.run.txs) /\ ~Ended(e.run)
    <2>1. \A j \in DOMAIN e.run.txs : e.run.txs[j] = "none"
        BY <1>1, <1>8 DEF Seen, RunsInv
    <2> QED
        BY <1>2, <1>5, <1>8, <2>1, NormalisedAre
<1> QED
    BY <1>6, <1>7, <1>8

-----------------------------------------------------------------------------
(***************************************************************************)
(* What every step leaves as it was, or further along.                     *)
(***************************************************************************)
\* Runs are added after all others, and one that has ended does not change.
Moves ==
    /\ Listed \subseteq Listed'
    /\ \A i \in Listed : /\ runs'[i].workflow = runs[i].workflow /\ runs'[i].at = runs[i].at
                         /\ Ended(runs[i]) => runs'[i] = runs[i]
                         /\ Len(runs[i].txs) <= Len(runs'[i].txs)
    /\ \A i \in Listed' \ Listed : runs'[i].at = now /\ \A j \in Listed : j < i

Steady ==
    /\ mode' = mode /\ loyal' \subseteq loyal /\ (truncated => truncated')
    /\ Moves /\ RunsInv'
    /\ \A i \in Listed : runs[i].workflow \notin Foreign /\ Arrived(i) => Arrived(i)'

LEMMA OursShrinks ==
    ASSUME RunsInv, Steady, NEW i \in Listed, Ours(i)'
    PROVE  Ours(i)
BY DEF Steady, Moves, Ours, Tied

LEMMA ListedLasts ==
    ASSUME RunsInv, Steady, NEW m, m # 0 => \E j \in Listed : m <= runs[j].at
    PROVE  m # 0 => \E j \in Listed' : m <= runs'[j].at
BY DEF Steady, Moves

LEMMA SettledLasts ==
    ASSUME RunsInv, Steady, NEW m \in Nat, m # 0 => \E j \in Listed : m <= runs[j].at, SettledUpTo(m)
    PROVE  \A i \in Listed' : Ours(i)' /\ runs'[i].at <= m => Arrived(i)'
<1> SUFFICES ASSUME NEW i \in Listed', Ours(i)', runs'[i].at <= m
             PROVE  Arrived(i)'
    OBVIOUS
<1>1. CASE i \in Listed
    <2>1. Ours(i) /\ runs[i].at <= m
        BY <1>1, OursShrinks DEF Steady, Moves
    <2>2. Arrived(i) /\ runs[i].workflow \notin Foreign
        BY <1>1, <2>1 DEF SettledUpTo, Ours
    <2> QED
        BY <1>1, <2>2 DEF Steady
<1>2. CASE i \notin Listed
    <2>1. runs'[i].at = now /\ now \in Nat /\ now >= 1
        BY <1>2 DEF Steady, Moves, RunsInv
    <2>2. PICK j \in Listed : m <= runs[j].at
        BY <2>1
    <2>3. runs[j].at <= now /\ runs[j].at \in Nat
        BY RunFacts
    <2>4. runs'[j].at = now /\ j \in Listed' /\ j # i
        BY <1>2, <2>1, <2>2, <2>3 DEF Steady, Moves
    <2>5. Tied(i)'
        BY <2>1, <2>4 DEF Tied
    <2> QED
        BY <2>5 DEF Ours
<1> QED
    BY <1>1, <1>2

\* What a sweep has seen stays an earlier state.
LEMMA SeenLasts ==
    ASSUME RunsInv, Steady, NEW e, Seen(e)
    PROVE  Seen(e)'
<1>1. /\ e.id \in Listed /\ e.id \in Listed'
      /\ runs'[e.id].workflow = runs[e.id].workflow /\ runs'[e.id].at = runs[e.id].at
      /\ Ended(runs[e.id]) => runs'[e.id] = runs[e.id]
      /\ Len(runs[e.id].txs) <= Len(runs'[e.id].txs)
      /\ runs[e.id] \in RunRecord
    BY RunFacts DEF Seen, Steady, Moves
<1>2. Len(runs[e.id].txs) \in Nat /\ Len(runs'[e.id].txs) \in Nat
    BY <1>1, RunsAreRecords DEF Steady, RunsInv, Listed
<1>3. CASE e.run = runs[e.id] /\ Ended(e.run)
    BY <1>1, <1>3 DEF Seen
<1>4. CASE e.run = runs[e.id] /\ ~Ended(e.run)
    <2>1. \A k \in DOMAIN e.run.txs : e.run.txs[k] = "none"
        BY <1>1, <1>4 DEF RunsInv
    <2> QED
        BY <1>1, <1>4, <2>1 DEF Seen, LastKey
<1>5. CASE e.run # runs[e.id]
    <2>1. /\ ~Ended(e.run) /\ e.run \in RunRecord /\ Len(e.run.txs) <= Len(runs[e.id].txs)
          /\ \A k \in DOMAIN e.run.txs : e.run.txs[k] = "none"
        BY <1>5 DEF Seen, LastKey
    <2>2. e.run.txs \in Seq({"none", "success", "reverted"})
        BY <2>1 DEF RunRecord
    <2>3. Len(e.run.txs) \in Nat
        BY <2>2, LenProperties
    <2>4. Len(e.run.txs) <= Len(runs'[e.id].txs)
        <3> DEFINE a == Len(e.run.txs)
                   b == Len(runs[e.id].txs)
                   c == Len(runs'[e.id].txs)
        <3>1. a \in Nat /\ b \in Nat /\ c \in Nat
            BY <1>2, <2>3
        <3>2. a <= b
            BY <2>1
        <3>3. b <= c
            BY <1>1
        <3> HIDE DEF a, b, c
        <3>4. a <= c
            BY <3>1, <3>2, <3>3
        <3> QED
            BY <3>4 DEF a, c
    <2> QED
        BY <1>1, <2>1, <2>4 DEF Seen, LastKey
<1> QED
    BY <1>3, <1>4, <1>5

\* A sweep that takes no step keeps all it knows.
LEMMA SweepLasts ==
    ASSUME RunsInv, Steady, NEW s, SweepInv(s), sweep'[s] = sweep[s]
    PROVE  SweepInv(s)'
<1> DEFINE w == sweep[s]
<1>1. w' = w /\ w.mark \in Nat
    BY RunFacts DEF SweepInv
<1>2. /\ w.pc \in {"idle", "marking", "listing", "storing", "evaluating"}
      /\ w.page \in Nat /\ w.page <= mode'.pages /\ (w.pc \in {"marking", "listing"} => w.page < mode'.pages)
      /\ w.agent \in Workflows \union {"none"} /\ (w.pc = "evaluating" => w.agent \in Workflows /\ s = "tick")
      /\ w.pc \in {"marking", "listing"} => w.left = {} /\ w.unstored = {}
      /\ w.pc = "marking" => w.seen = {} /\ w.cursor = MaxRuns + 1
      /\ w.pc # "idle" /\ w.pc # "evaluating" => loyal' \subseteq w.chosen
      /\ w.mark \in 0..MaxTime
    BY DEF SweepInv, Steady
<1>3. w.mark # 0 => \E j \in Listed' : w.mark <= runs'[j].at
    <2>1. w.mark # 0 => \E j \in Listed : w.mark <= runs[j].at
        BY DEF SweepInv
    <2>2. PICK m : m = w.mark
        OBVIOUS
    <2> HIDE DEF w
    <2> QED
        BY <2>1, <2>2, ListedLasts
<1>4. ASSUME w.pc \in {"listing", "storing"}
      PROVE  /\ SettledUpTo(w.mark)'
             /\ \A e \in w.seen : Seen(e)' /\ e.run.at > w.mark
             /\ \A e, f \in w.seen : e.id = f.id => e = f
             /\ \A i \in Listed' : Ours(i)' /\ runs'[i].at > w.mark => Accounted(s, i)'
    <2>1. /\ SettledUpTo(w.mark)
          /\ \A e \in w.seen : Seen(e) /\ e.run.at > w.mark
          /\ \A e, f \in w.seen : e.id = f.id => e = f
          /\ \A i \in Listed : Ours(i) /\ runs[i].at > w.mark => Accounted(s, i)
          /\ w.mark # 0 => \E j \in Listed : w.mark <= runs[j].at
        BY <1>4 DEF SweepInv
    <2>2. SettledUpTo(w.mark)'
        <3>1. PICK m : m = w.mark
            OBVIOUS
        <3>2. m \in Nat /\ SettledUpTo(m) /\ (m # 0 => \E j \in Listed : m <= runs[j].at)
            BY <1>1, <2>1, <3>1
        <3>3. \A i \in Listed' : Ours(i)' /\ runs'[i].at <= m => Arrived(i)'
            BY <3>2, SettledLasts
        <3>4. w.mark' = m
            BY <1>1, <3>1
        <3> QED
            BY <3>3, <3>4 DEF SettledUpTo
    <2>3. \A e \in w.seen : Seen(e)' /\ e.run.at > w.mark
        BY <2>1, SeenLasts
    <2>4. ASSUME NEW i \in Listed', Ours(i)', runs'[i].at > w.mark
          PROVE  Accounted(s, i)'
        <3>1. CASE i \in Listed
            <4>1. Ours(i) /\ runs[i].at > w.mark
                BY <2>4, <3>1, OursShrinks DEF Steady, Moves
            <4>2. Accounted(s, i)
                BY <2>1, <3>1, <4>1
            <4> QED
                BY <1>1, <4>2 DEF Accounted
        <3>2. CASE i \notin Listed
            <4>1. \A e \in w.seen : e.id \in Listed
                BY <2>1 DEF Seen
            <4>2. \A e \in w.seen : e.id < i
                BY <3>2, <4>1 DEF Steady, Moves
            <4> QED
                BY <1>1, <4>2 DEF Accounted
        <3> QED
            BY <3>1, <3>2
    <2> QED
        BY <2>1, <2>2, <2>3, <2>4
<1>5. /\ w.pc = "listing" => \/ w.seen = {} /\ w.cursor = MaxRuns + 1
                             \/ w.cursor \in 1..MaxRuns /\ \E e \in w.seen : e.id = w.cursor
      /\ w.pc = "listing" => \A e \in w.seen : e.id >= w.cursor
    BY DEF SweepInv
<1>6. ASSUME w.pc = "storing"
      PROVE  /\ w.left \subseteq {e.id : e \in w.seen}
             /\ \A e \in w.seen : e.run.workflow \in w.chosen \ Foreign =>
                   e.id \in w.left \union w.unstored \/ Done(s, e)'
    <2>1. /\ w.left \subseteq {e.id : e \in w.seen}
          /\ \A e \in w.seen : e.run.workflow \in w.chosen \ Foreign =>
                e.id \in w.left \union w.unstored \/ Done(s, e)
          /\ \A e \in w.seen : Seen(e)
        BY <1>6 DEF SweepInv
    <2>2. ASSUME NEW e \in w.seen, e.run.workflow \in w.chosen \ Foreign, Done(s, e)
          PROVE  Done(s, e)'
        <3>1. e.id \in Listed /\ runs[e.id].workflow \notin Foreign
            BY <2>1, <2>2 DEF Seen
        <3> QED
            BY <2>2, <3>1 DEF Done, Steady
    <2> QED
        BY <2>1, <2>2
<1> HIDE DEF w
<1>7. w = sweep[s] /\ w' = sweep'[s]
    BY DEF w
<1> QED
    BY <1>1, <1>2, <1>3, <1>4, <1>5, <1>6, <1>7 DEF SweepInv

\* So does a step that only moves the provider or the operator on.
LEMMA WorldMoves ==
    ASSUME IInv, Steady, UNCHANGED <<mode, mark, rows, sweep, open>>
    PROVE  IInv'
<1>1. RunsInv /\ RunsInv' /\ Moves
    BY DEF IInv, Steady
<1>2. SettledUpTo(mark)'
    <2>1. PICK m : m = mark
        OBVIOUS
    <2>2. m \in Nat /\ SettledUpTo(m) /\ (m # 0 => \E j \in Listed : m <= runs[j].at) /\ mark' = m
        BY <1>1, <2>1, RunFacts DEF IInv, RunsInv
    <2> QED
        BY <1>1, <2>2, SettledLasts DEF SettledUpTo
<1>3. \A s \in Sweepers : SweepInv(s)'
    BY <1>1, SweepLasts DEF IInv
<1>4. RowsInv'
    <2>1. ASSUME NEW i \in Runs, NEW k \in Keys
          PROVE  RowInv(i, k)' /\ (i \notin Listed' => rows'[<<i, k>>] = "none")
        <3>1. RowInv(i, k) /\ (i \notin Listed => rows[<<i, k>>] = "none") /\ rows' = rows
            BY DEF IInv, RowsInv
        <3>2. CASE rows[<<i, k>>] \in {"none", "pending"}
            BY <1>1, <3>1, <3>2 DEF RowInv, Moves
        <3>3. CASE i \in Listed /\ rows[<<i, k>>] = "replaced" /\ k \in 1..(LastKey(i) - 1)
            <4>1. LastKey(i) \in Nat /\ LastKey(i)' \in Nat /\ LastKey(i) <= LastKey(i)' /\ i \in Listed'
                <5>1. i \in Listed'
                    BY <1>1, <3>3 DEF Moves
                <5>2. Len(runs[i].txs) \in Nat /\ Len(runs'[i].txs) \in Nat
                    BY <1>1, <3>3, <5>1, RunsAreRecords DEF RunsInv, Listed
                <5> QED
                    BY <1>1, <3>3, <5>1, <5>2 DEF Moves, LastKey
            <4>2. k \in 1..(LastKey(i)' - 1)
                BY <3>3, <4>1
            <4> QED
                BY <3>1, <3>3, <4>1, <4>2 DEF RowInv
        <3>4. CASE /\ i \in Listed /\ Ended(runs[i]) /\ runs[i].workflow \notin Foreign
                   /\ k = LastKey(i) /\ rows[<<i, k>>] = normaliseRun(runs[i])[k]
            <4>1. i \in Listed' /\ runs'[i] = runs[i]
                BY <1>1, <3>4 DEF Moves
            <4> QED
                BY <3>1, <3>4, <4>1 DEF RowInv, LastKey
        <3> QED
            BY <3>1, <3>2, <3>3, <3>4 DEF RowInv
    <2> QED
        BY <2>1 DEF IInv, RowsInv
<1>5. OpenInv'
    BY DEF IInv, OpenInv
<1> QED
    BY <1>1, <1>2, <1>3, <1>4, <1>5 DEF IInv

-----------------------------------------------------------------------------
(***************************************************************************)
(* The provider and the operator.                                          *)
(***************************************************************************)
LEMMA ModeFacts ==
    ASSUME mode \in Modes
    PROVE  /\ mode.running \subseteq Workflows /\ mode.pages \in Nat /\ mode.pages >= 1
           /\ mode.runs \in Nat /\ mode.runs <= MaxRuns /\ mode.txs \in Nat /\ mode.txs <= MaxTxs
           /\ mode.until \in Nat /\ mode.until <= MaxTime
BY IntakeAssumption

LEMMA IStarts == ASSUME IInv, NEW w \in Workflows, Start(w) PROVE IInv'
<1>1. UNCHANGED <<now, watched, mark, rows, sweep, open, picks, loyal, truncated, mode>>
    BY DEF Start, store, history
<1>2. RunsInv /\ mode \in Modes
    BY DEF IInv
<1> DEFINE new == [workflow |-> w, at |-> now, status |-> "running", txs |-> <<>>]
<1>3. runs' = Append(runs, new) /\ new \in RunRecord /\ Len(<<>>) = 0
    BY <1>2, RunFacts, EmptySeq DEF Start, RunRecord
<1>4. /\ runs \in Seq(RunRecord) /\ Len(runs) \in Nat /\ Len(runs) + 1 <= MaxRuns
      /\ Listed = 1..Len(runs) /\ MaxRuns \in Nat
    BY <1>2, RunFacts, ModeFacts DEF Start, RunsInv
<1>5. new.workflow = w /\ new.at = now /\ ~Ended(new) /\ new.txs = <<>>
    BY DEF Ended, TERMINAL
<1> HIDE DEF new
<1>6. /\ runs' \in Seq(RunRecord) /\ Len(runs') = Len(runs) + 1 /\ Listed' = 1..(Len(runs) + 1)
      /\ \A i \in Listed : runs'[i] = runs[i]
      /\ runs'[Len(runs) + 1] = new
    BY <1>3, <1>4, AppendProperties, LenProperties DEF Listed
<1>7. Listed' = Listed \union {Len(runs) + 1} /\ \A j \in Listed : j < Len(runs) + 1
    BY <1>4, <1>6
<1>8. Moves
    <2>1. \A i \in Listed : Len(runs[i].txs) \in Nat
        BY <1>4, RunsAreRecords DEF Listed
    <2> QED
        BY <1>5, <1>6, <1>7, <2>1 DEF Moves
<1>9. RunsInv'
    <2>1. ASSUME NEW i \in Listed'
          PROVE  /\ runs'[i].at \in 1..now /\ Len(runs'[i].txs) <= MaxTxs
                 /\ ~Ended(runs'[i]) => \A k \in DOMAIN runs'[i].txs : runs'[i].txs[k] = "none"
                 /\ \A j \in Listed' : i <= j => runs'[i].at <= runs'[j].at
        <3>1. CASE i \in Listed
            <4>1. runs'[i] = runs[i] /\ runs[i].at <= now
                BY <1>2, <1>6, <3>1, RunFacts
            <4>2. \A j \in Listed' : i <= j => runs'[i].at <= runs'[j].at
                BY <1>2, <1>5, <1>6, <1>7, <3>1, <4>1 DEF RunsInv
            <4> QED
                BY <1>2, <3>1, <4>1, <4>2 DEF RunsInv
        <3>2. CASE i = Len(runs) + 1
            <4>1. runs'[i].at = now /\ now \in 1..now /\ runs'[i].txs = <<>> /\ DOMAIN <<>> = {} /\ 0 <= MaxTxs /\ now \in Nat
                BY <1>2, <1>5, <1>6, <3>2, RunFacts DEF RunsInv
            <4>2. \A j \in Listed' : i <= j => j = i
                BY <1>4, <1>6, <3>2
            <4>3. runs'[i].at \in 1..now /\ Len(runs'[i].txs) <= MaxTxs
                BY <1>3, <4>1
            <4>4. \A k \in DOMAIN runs'[i].txs : runs'[i].txs[k] = "none"
                BY <4>1
            <4>5. ASSUME NEW j \in Listed', i <= j PROVE runs'[i].at <= runs'[j].at
                <5>1. j = i
                    BY <4>2, <4>5
                <5> QED
                    BY <4>1, <5>1
            <4> QED
                BY <4>3, <4>4, <4>5
        <3> QED
            BY <1>7, <3>1, <3>2
    <2>2. mark # 0 => \E j \in Listed' : mark <= runs'[j].at
        BY <1>2, <1>6, <1>7 DEF RunsInv
    <2> QED
        BY <1>1, <1>2, <1>4, <1>6, <2>1, <2>2 DEF RunsInv
<1>10. \A i \in Listed : Arrived(i) => Arrived(i)'
    BY <1>1, <1>6, <1>7 DEF Arrived, LastKey
<1>11. Steady
    BY <1>1, <1>8, <1>9, <1>10 DEF Steady
<1> QED
    BY <1>1, <1>11, WorldMoves

\* A run of the provider's changes while it has not ended.
LEMMA RunChanges ==
    ASSUME IInv, NEW i \in Listed, ~Ended(runs[i]), NEW new \in RunRecord, runs' = [runs EXCEPT ![i] = new],
           new.workflow = runs[i].workflow, new.at = runs[i].at,
           Len(runs[i].txs) <= Len(new.txs), Len(new.txs) <= MaxTxs,
           ~Ended(new) => \A k \in DOMAIN new.txs : new.txs[k] = "none",
           UNCHANGED <<now, watched, mark, rows, sweep, open, picks, loyal, truncated, mode>>
    PROVE  IInv'
<1>1. RunsInv
    BY DEF IInv
<1>2. runs \in Seq(RunRecord) /\ i \in 1..Len(runs) /\ Listed = 1..Len(runs) /\ Len(runs) \in Nat
    BY <1>1, RunFacts DEF RunsInv
<1>3. /\ runs' \in Seq(RunRecord) /\ Len(runs') = Len(runs) /\ Listed' = Listed
      /\ \A j \in Listed : runs'[j] = IF j = i THEN new ELSE runs[j]
    BY <1>2, ExceptSeq, LenProperties DEF Listed
<1>4. \A j \in Listed : runs'[j].workflow = runs[j].workflow /\ runs'[j].at = runs[j].at
    BY <1>3
<1>5. Moves
    <2>1. \A j \in Listed : Len(runs[j].txs) \in Nat
        BY <1>2, RunsAreRecords DEF Listed
    <2> QED
        BY <1>3, <1>4, <2>1 DEF Moves
<1>6. RunsInv'
    <2>1. \A j \in Listed' : /\ runs'[j].at \in 1..now /\ Len(runs'[j].txs) <= MaxTxs
                             /\ ~Ended(runs'[j]) => \A k \in DOMAIN runs'[j].txs : runs'[j].txs[k] = "none"
                             /\ \A l \in Listed' : j <= l => runs'[j].at <= runs'[l].at
        BY <1>1, <1>3, <1>4 DEF RunsInv
    <2>2. mark # 0 => \E j \in Listed' : mark <= runs'[j].at
        BY <1>1, <1>3, <1>4 DEF RunsInv
    <2> QED
        BY <1>1, <1>3, <2>1, <2>2 DEF RunsInv
<1>7. \A j \in Listed : Arrived(j) => Arrived(j)'
    BY <1>3 DEF Arrived, LastKey
<1>8. Steady
    BY <1>5, <1>6, <1>7 DEF Steady
<1> QED
    BY <1>8, WorldMoves

LEMMA ISubmitsTx == ASSUME IInv, NEW i \in Listed, SubmitTx(i) PROVE IInv'
<1>1. /\ RunsInv /\ runs[i] \in RunRecord /\ mode \in Modes /\ Len(runs[i].txs) \in Nat
      /\ runs[i].txs \in Seq({"none", "success", "reverted"})
    BY RunFacts DEF IInv, RunRecord, LastKey
<1> DEFINE txs == Append(runs[i].txs, "none")
           new == [runs[i] EXCEPT !.txs = txs]
<1>2. /\ txs \in Seq({"none", "success", "reverted"}) /\ Len(txs) = Len(runs[i].txs) + 1
      /\ \A k \in 1..Len(runs[i].txs) : txs[k] = runs[i].txs[k]
      /\ txs[Len(runs[i].txs) + 1] = "none" /\ DOMAIN txs = 1..Len(txs)
    BY <1>1, AppendProperties, LenProperties
<1> HIDE DEF txs
<1>3. new \in RunRecord /\ new.workflow = runs[i].workflow /\ new.at = runs[i].at /\ new.txs = txs
    BY <1>1, <1>2 DEF RunRecord
<1>4. \A k \in DOMAIN txs : txs[k] = "none"
    <2>1. \A k \in 1..Len(runs[i].txs) : runs[i].txs[k] = "none"
        BY <1>1, LenProperties DEF RunsInv, SubmitTx
    <2> QED
        BY <1>1, <1>2, <2>1
<1>5. Len(txs) <= MaxTxs
    BY <1>1, <1>2, ModeFacts, RunFacts DEF SubmitTx
<1>6. runs' = [runs EXCEPT ![i] = new]
    BY DEF SubmitTx, txs
<1> HIDE DEF new
<1>7. /\ ~Ended(runs[i])
      /\ UNCHANGED <<now, watched, mark, rows, sweep, open, picks, loyal, truncated, mode>>
    BY DEF SubmitTx, store, history
<1>8. Len(runs[i].txs) <= Len(new.txs) /\ Len(new.txs) <= MaxTxs /\ \A k \in DOMAIN new.txs : new.txs[k] = "none"
    BY <1>1, <1>2, <1>3, <1>4, <1>5
<1> QED
    BY <1>3, <1>6, <1>7, <1>8, RunChanges

LEMMA IEnds == ASSUME IInv, NEW i \in Listed, NEW e \in Endings, End(i, e[1], e[2]) PROVE IInv'
<1>1. /\ RunsInv /\ runs[i] \in RunRecord /\ mode \in Modes /\ Len(runs[i].txs) \in Nat
      /\ runs[i].txs \in Seq({"none", "success", "reverted"})
    BY RunFacts DEF IInv, RunRecord, LastKey
<1>2. e[1] \in TERMINAL /\ e[2] \in {"none", "success", "reverted"}
    BY IntakeAssumption DEF TERMINAL
<1> DEFINE old == runs[i].txs
           txs == IF old = <<>> THEN old ELSE [old EXCEPT ![Len(old)] = e[2]]
           new == [runs[i] EXCEPT !.status = e[1], !.txs = txs]
<1>3. txs \in Seq({"none", "success", "reverted"}) /\ Len(txs) = Len(old)
    BY <1>1, <1>2, ExceptSeq, EmptySeq
<1> HIDE DEF txs
<1>4. new \in RunRecord /\ new.workflow = runs[i].workflow /\ new.at = runs[i].at /\ new.txs = txs /\ Ended(new)
    BY <1>1, <1>2, <1>3 DEF RunRecord, Ended
<1>5. Len(txs) <= MaxTxs
    BY <1>1, <1>3 DEF RunsInv
<1>6. runs' = [runs EXCEPT ![i] = new]
    BY DEF End, txs
<1> HIDE DEF new
<1>7. /\ ~Ended(runs[i])
      /\ UNCHANGED <<now, watched, mark, rows, sweep, open, picks, loyal, truncated, mode>>
    BY DEF End, store, history
<1>8. Len(runs[i].txs) <= Len(new.txs) /\ Len(new.txs) <= MaxTxs
    BY <1>1, <1>3, <1>4, <1>5
<1> QED
    BY <1>4, <1>6, <1>7, <1>8, RunChanges

LEMMA IPasses == ASSUME IInv, Pass PROVE IInv'
<1>1. UNCHANGED <<runs, watched, mark, rows, sweep, open, picks, loyal, truncated, mode>> /\ now' = now + 1
    BY DEF Pass, store, history
<1>2. RunsInv /\ now' \in 1..MaxTime
    BY <1>1, ModeFacts, IntakeAssumption DEF IInv, RunsInv, Pass
<1>3. \A i \in Listed : runs[i].at \in 1..now'
    BY <1>1, <1>2, RunFacts
<1>4. RunsInv'
    BY <1>1, <1>2, <1>3 DEF RunsInv, Listed
<1>5. Steady
    <2>1. Moves
        BY <1>1, <1>2, RunFacts DEF Moves, Listed, LastKey
    <2> QED
        BY <1>1, <1>4, <2>1 DEF Steady, Arrived, LastKey, Listed
<1> QED
    BY <1>1, <1>5, WorldMoves

LEMMA IWatches == ASSUME IInv, NEW w \in Workflows, Watch(w) \/ Unwatch(w) PROVE IInv'
<1>1. /\ UNCHANGED <<now, runs, mark, rows, sweep, open, truncated, mode>>
      /\ loyal' \subseteq loyal /\ loyal' \subseteq watched' /\ watched' \subseteq watched \union {w}
    BY DEF Watch, Unwatch, provider, store, IInv, RunsInv
<1>2. RunsInv /\ RunsInv'
    BY <1>1 DEF IInv, RunsInv, Listed
<1>3. Steady
    <2>1. Moves
        BY <1>1, <1>2, RunFacts DEF Moves, Listed, LastKey
    <2> QED
        BY <1>1, <1>2, <2>1 DEF Steady, Arrived, LastKey, Listed
<1> QED
    BY <1>1, <1>3, WorldMoves

-----------------------------------------------------------------------------
(***************************************************************************)
(* The steps of a sweep: the other sweep knows what it knew.               *)
(***************************************************************************)
\* Nothing of the provider changes.
LEMMA NothingMoves ==
    ASSUME RunsInv, UNCHANGED <<now, runs, watched, loyal>>, truncated' \in BOOLEAN,
           mark' \in 0..MaxTime, mark' # 0 => \E j \in Listed : mark' <= runs[j].at
    PROVE  Moves /\ RunsInv'
<1>1. Moves
    BY RunFacts DEF Moves, Listed, LastKey
<1>2. RunsInv'
    BY DEF RunsInv, Listed
<1> QED
    BY <1>1, <1>2

\* A step of one sweep that stores nothing.
LEMMA SweepSteps ==
    ASSUME IInv, NEW s \in Sweepers, NEW new, Set(s, new),
           UNCHANGED <<now, runs, watched, loyal, mode, rows, mark, open>>,
           truncated' \in BOOLEAN, truncated => truncated',
           SweepInv(s)'
    PROVE  IInv'
<1>1. RunsInv /\ mark \in 0..MaxTime /\ (mark # 0 => \E j \in Listed : mark <= runs[j].at)
    BY DEF IInv, RunsInv
<1>2. Moves /\ RunsInv'
    BY <1>1, NothingMoves
<1>3. Listed' = Listed /\ \A i \in Listed : Arrived(i) => Arrived(i)'
    BY DEF Arrived, Listed, LastKey
<1>4. Steady
    BY <1>2, <1>3 DEF Steady
<1>5. SettledUpTo(mark)'
    <2>1. PICK m : m = mark
        OBVIOUS
    <2>2. m \in Nat /\ SettledUpTo(m) /\ (m # 0 => \E j \in Listed : m <= runs[j].at) /\ mark' = m
        BY <1>1, <2>1, RunFacts DEF IInv
    <2> QED
        BY <1>1, <1>4, <2>2, SettledLasts DEF SettledUpTo
<1>6. DOMAIN sweep' = Sweepers /\ \A t \in Sweepers \ {s} : sweep'[t] = sweep[t]
    BY DEF Set, IInv
<1>7. \A t \in Sweepers : SweepInv(t)'
    <2> SUFFICES ASSUME NEW t \in Sweepers
                 PROVE  SweepInv(t)'
        OBVIOUS
    <2>1. CASE t = s
        BY <2>1
    <2>2. CASE t # s
        BY <1>1, <1>4, <1>6, <2>2, SweepLasts DEF IInv
    <2> QED
        BY <2>1, <2>2
<1>8. RowsInv'
    BY <1>3 DEF IInv, RowsInv, RowInv, LastKey, Listed
<1>9. OpenInv'
    BY DEF IInv, OpenInv
<1> QED
    BY <1>2, <1>5, <1>6, <1>7, <1>8, <1>9 DEF IInv

\* A sweep that rests knows nothing.
LEMMA RestingIsFine ==
    ASSUME mode' \in Modes, MaxTime \in Nat, NEW s, sweep'[s] = Resting
    PROVE  SweepInv(s)'
<1>1. mode'.pages \in Nat /\ 0 <= mode'.pages
    BY IntakeAssumption
<1> QED
    BY <1>1 DEF SweepInv, Resting

LEMMA IBegins == ASSUME IInv, NEW s \in Sweepers, Begin(s) PROVE IInv'
<1> DEFINE new == [Resting EXCEPT !.pc = "marking", !.chosen = watched]
<1>1. Set(s, new) /\ UNCHANGED <<now, runs, watched, loyal, mode, rows, mark, open, truncated>>
    BY DEF Begin, provider, store, history
<1>2. RunsInv /\ mode \in Modes /\ truncated \in BOOLEAN /\ sweep'[s] = new
    BY <1>1 DEF IInv, RunsInv, Set
<1>3. SweepInv(s)'
    BY <1>1, <1>2, ModeFacts, RunFacts DEF SweepInv, Resting, RunsInv
<1> QED
    BY <1>1, <1>2, <1>3, SweepSteps

LEMMA IReadsMark == ASSUME IInv, NEW s \in Sweepers, ReadMark(s) PROVE IInv'
<1>0. PICK w, new : w = sweep[s] /\ new = [w EXCEPT !.pc = "listing", !.mark = mark]
    OBVIOUS
<1>1. Set(s, new) /\ UNCHANGED <<now, runs, watched, loyal, mode, rows, mark, open, truncated>>
    BY <1>0 DEF ReadMark, provider, store, history
<1>2. RunsInv /\ mode \in Modes /\ truncated \in BOOLEAN /\ sweep'[s] = new /\ w.pc = "marking" /\ SweepInv(s)
    BY <1>0, <1>1 DEF IInv, RunsInv, Set, ReadMark
<1>3. /\ new.pc = "listing" /\ new.mark = mark /\ new.page = w.page /\ new.agent = w.agent
      /\ new.left = w.left /\ new.unstored = w.unstored /\ new.seen = w.seen /\ new.cursor = w.cursor
      /\ new.chosen = w.chosen
    BY <1>0
<1>4. /\ new.left = {} /\ new.unstored = {} /\ new.seen = {} /\ new.cursor = MaxRuns + 1
      /\ new.page \in Nat /\ new.page < mode'.pages /\ new.page <= mode'.pages
      /\ new.agent \in Workflows \union {"none"} /\ loyal' \subseteq new.chosen
    BY <1>0, <1>1, <1>2, <1>3, ModeFacts DEF SweepInv
<1>5. new.mark \in 0..MaxTime /\ (new.mark # 0 => \E j \in Listed' : new.mark <= runs'[j].at)
    BY <1>1, <1>2, <1>3 DEF RunsInv, Listed
<1>6. SettledUpTo(new.mark)'
    <2>1. \A i \in Listed : Ours(i) /\ runs[i].at <= new.mark => Arrived(i)
        BY <1>3 DEF IInv, SettledUpTo
    <2> QED
        BY <1>1, <2>1 DEF SettledUpTo, Ours, Tied, Arrived, LastKey, Listed
<1>7. \A i \in Listed' : i < new.cursor
    BY <1>1, <1>2, <1>4, RunFacts DEF Listed, Runs
<1>8. /\ sweep'[s].pc = "listing" /\ sweep'[s].mark = new.mark /\ sweep'[s].page = new.page
      /\ sweep'[s].agent = new.agent /\ sweep'[s].left = {} /\ sweep'[s].unstored = {}
      /\ sweep'[s].seen = {} /\ sweep'[s].cursor = new.cursor /\ sweep'[s].chosen = new.chosen
    BY <1>2, <1>3, <1>4
<1>9. \A i \in Listed' : Accounted(s, i)'
    BY <1>7, <1>8 DEF Accounted
<1>10. SettledUpTo(sweep[s].mark)'
    BY <1>6, <1>8 DEF SettledUpTo
<1>11. SweepInv(s)'
    BY <1>4, <1>5, <1>8, <1>9, <1>10 DEF SweepInv
<1> QED
    BY <1>1, <1>2, <1>11, SweepSteps

-----------------------------------------------------------------------------
(***************************************************************************)
(* Pages.                                                                  *)
(***************************************************************************)
\* A page holds the newest of the older runs, and some if there are any.
LEMMA PageFacts ==
    ASSUME RunsInv, NEW c \in Nat
    PROVE  /\ PageAt(c) \subseteq Older(c) /\ Older(c) \subseteq Listed /\ IsFiniteSet(PageAt(c))
           /\ \A i \in PageAt(c), j \in Older(c) : i < j => j \in PageAt(c)
           /\ Older(c) # {} => PageAt(c) # {}
<1>1. /\ Older(c) \subseteq Listed /\ Older(c) \subseteq Nat /\ IsFiniteSet(Older(c)) /\ MaxRuns \in Nat
      /\ \A i \in Older(c) : i <= MaxRuns
    <2>1. Older(c) \in SUBSET (1..MaxRuns) /\ MaxRuns \in Nat
        BY RunFacts DEF Older, Runs
    <2>2. IsFiniteSet(1..MaxRuns)
        BY <2>1, FS_Interval
    <2> QED
        BY <2>1, <2>2, FS_Subset DEF Older
<1>2. PageAt(c) \in SUBSET Older(c)
    BY DEF PageAt
<1>3. ASSUME NEW i \in PageAt(c), NEW j \in Older(c), i < j
      PROVE  j \in PageAt(c)
    <2> DEFINE A == {k \in Older(c) : k > i}
               B == {k \in Older(c) : k > j}
    <2>1. i \in Nat /\ j \in Nat /\ i \in Older(c)
        BY <1>1, <1>2
    <2>2. A \in SUBSET Older(c) /\ B \in SUBSET A
        BY <1>1, <1>3, <2>1
    <2>3. IsFiniteSet(A) /\ IsFiniteSet(B) /\ Cardinality(B) <= Cardinality(A)
        BY <1>1, <2>2, FS_Subset
    <2>4. Cardinality(A) < PageSize
        BY DEF PageAt
    <2>5. Cardinality(A) \in Nat /\ Cardinality(B) \in Nat /\ PageSize \in Nat
        BY <2>3, FS_CardinalityType, IntakeAssumption
    <2> HIDE DEF A
    <2>6. Cardinality(B) < PageSize
        BY <2>3, <2>4, <2>5
    <2> QED
        BY <2>6 DEF PageAt
<1>4. ASSUME Older(c) # {}
      PROVE  PageAt(c) # {}
    <2>1. Max(Older(c)) \in Older(c) /\ \A y \in Older(c) : y <= Max(Older(c))
        BY <1>1, <1>4, GreatestOfNats
    <2>2. {j \in Older(c) : j > Max(Older(c))} = {}
        BY <1>1, <2>1
    <2>3. Cardinality({j \in Older(c) : j > Max(Older(c))}) < PageSize
        BY <2>2, FS_EmptySet, IntakeAssumption
    <2>4. Max(Older(c)) \in PageAt(c)
        BY <2>1, <2>3 DEF PageAt
    <2> QED
        BY <2>4
<1> QED
    BY <1>1, <1>2, <1>3, <1>4, FS_Subset

\* A page that adds fewer runs than it lists has reached the mark.
LEMMA ReachedMeans ==
    ASSUME NEW page, IsFiniteSet(page), NEW from
    PROVE  Cardinality(Added(page, from)) < Cardinality(page) <=> \E j \in page : ~(runs[j].at > from)
<1> DEFINE keep == {j \in page : runs[j].at > from}
           f == [j \in keep |-> [id |-> j, run |-> runs[j]]]
<1>1. f \in Bijection(keep, Added(page, from))
    BY DEF Bijection, Injection, Surjection, IsInjective, Added
<1>2. keep \in SUBSET page
    OBVIOUS
<1>3. IsFiniteSet(keep) /\ Cardinality(keep) <= Cardinality(page) /\ (Cardinality(page) = Cardinality(keep) => page = keep)
    BY <1>2, FS_Subset
<1>4. Cardinality(Added(page, from)) = Cardinality(keep)
    BY <1>1, <1>3, FS_Bijection DEF ExistsBijection
<1>5. Cardinality(keep) \in Nat /\ Cardinality(page) \in Nat
    BY <1>3, FS_CardinalityType
<1>6. (\E j \in page : ~(runs[j].at > from)) <=> page # keep
    OBVIOUS
<1> HIDE DEF keep
<1> QED
    BY <1>3, <1>4, <1>5, <1>6

LEMMA IListsPage == ASSUME IInv, NEW s \in Sweepers, ListPage(s) PROVE IInv'
<1> DEFINE page == PageAt(sweep[s].cursor)
           added == Added(page, sweep[s].mark)
           reached == Cardinality(added) < Cardinality(page)
           done == reached \/ page = {} \/ Older(Min(page)) = {}
           last == sweep[s].page + 1 = mode.pages
<1>0. PICK w, new, seen :
         /\ w = sweep[s] /\ seen = w.seen \union added
         /\ new = [w EXCEPT !.seen = seen,
                            !.cursor = IF done THEN @ ELSE Min(page),
                            !.page = @ + 1,
                            !.pc = IF done \/ last THEN "storing" ELSE @,
                            !.left = IF done \/ last THEN {e.id : e \in {x \in seen : x.run.workflow \in w.chosen}}
                                     ELSE @]
    OBVIOUS
<1>1. /\ Set(s, new) /\ UNCHANGED <<now, runs, watched, loyal, mode, rows, mark, open>>
      /\ truncated' = (truncated \/ (last /\ ~done)) /\ w.pc = "listing"
    BY <1>0 DEF ListPage, provider, store
<1>2. /\ RunsInv /\ mode \in Modes /\ truncated \in BOOLEAN /\ sweep'[s] = new /\ SweepInv(s)
      /\ w.page \in Nat /\ w.page < mode.pages /\ mode.pages \in Nat
    BY <1>0, <1>1, ModeFacts DEF IInv, RunsInv, Set, SweepInv
<1>3. /\ new.seen = seen /\ new.cursor = (IF done THEN w.cursor ELSE Min(page)) /\ new.page = w.page + 1
      /\ new.pc = (IF done \/ last THEN "storing" ELSE "listing")
      /\ new.left = (IF done \/ last THEN {e.id : e \in {x \in seen : x.run.workflow \in w.chosen}} ELSE w.left)
      /\ new.mark = w.mark /\ new.chosen = w.chosen /\ new.unstored = w.unstored /\ new.agent = w.agent
    BY <1>0, <1>1
<1>4. /\ w.left = {} /\ w.unstored = {} /\ w.agent \in Workflows \union {"none"} /\ loyal \subseteq w.chosen
      /\ w.mark \in 0..MaxTime /\ (w.mark # 0 => \E j \in Listed : w.mark <= runs[j].at)
      /\ SettledUpTo(w.mark)
      /\ \A e \in w.seen : Seen(e) /\ e.run.at > w.mark /\ e.id >= w.cursor
      /\ \A e, f \in w.seen : e.id = f.id => e = f
      /\ \A i \in Listed : Ours(i) /\ runs[i].at > w.mark => Accounted(s, i)
      /\ \/ w.seen = {} /\ w.cursor = MaxRuns + 1
         \/ w.cursor \in 1..MaxRuns /\ \E e \in w.seen : e.id = w.cursor
    BY <1>0, <1>1, <1>2 DEF SweepInv
<1>5. w.cursor \in Nat /\ MaxRuns \in Nat /\ w.mark \in Nat /\ MaxTime \in Nat
    BY <1>2, <1>4, RunFacts
<1>6. /\ page \subseteq Older(w.cursor) /\ Older(w.cursor) \subseteq Listed /\ IsFiniteSet(page)
      /\ \A i \in page, j \in Older(w.cursor) : i < j => j \in page
      /\ Older(w.cursor) # {} => page # {}
      /\ \A i \in page : i \in Listed /\ i < w.cursor /\ i \in Nat
    BY <1>0, <1>2, <1>5, PageFacts, RunFacts DEF Older
<1>7. reached <=> \E j \in page : ~(runs[j].at > w.mark)
    BY <1>0, <1>6, ReachedMeans
<1>8. added = {[id |-> i, run |-> runs[i]] : i \in {j \in page : runs[j].at > w.mark}}
    BY <1>0 DEF Added
<1>9. page # {} => Min(page) \in page /\ \A y \in page : Min(page) <= y
    BY <1>6, LeastOfNats
<1> HIDE DEF page, reached, last
<1>10. \A e \in added : e.id \in page /\ e.run = runs[e.id] /\ runs[e.id].at > w.mark
    BY <1>8
<1>11. ASSUME NEW i \in page, runs[i].at > w.mark
       PROVE  \E e \in seen : e.id = i
    <2>1. [id |-> i, run |-> runs[i]] \in seen
        BY <1>0, <1>8, <1>11
    <2> QED
        BY <2>1
<1> HIDE DEF added
<1>12. \A e \in seen : Seen(e) /\ e.run.at > w.mark
    BY <1>0, <1>4, <1>6, <1>10 DEF Seen
<1>13. \A e, f \in seen : e.id = f.id => e = f
    <2>1. \A e \in w.seen : e.id >= w.cursor /\ e.id \in Nat
        BY <1>2, <1>4, RunFacts DEF Seen
    <2>2. \A e \in added : e.id < w.cursor /\ e.id \in Nat
        BY <1>6, <1>10
    <2>3. \A e, f \in added : e.id = f.id => e = f
        BY <1>8 DEF added
    <2> QED
        BY <1>0, <1>4, <1>5, <2>1, <2>2, <2>3
<1>14. ASSUME ~done
       PROVE  /\ Min(page) \in page /\ Min(page) \in 1..MaxRuns /\ Min(page) < w.cursor
              /\ \E e \in seen : e.id = Min(page)
              /\ \A e \in seen : e.id >= Min(page)
    <2>1. Min(page) \in page /\ \A y \in page : Min(page) <= y
        BY <1>9, <1>14
    <2>2. runs[Min(page)].at > w.mark
        BY <1>7, <1>14, <2>1
    <2>3. Min(page) \in 1..MaxRuns /\ Min(page) < w.cursor
        BY <1>2, <1>6, <2>1, RunFacts DEF Runs
    <2>4. \A e \in w.seen : e.id >= w.cursor /\ e.id \in Nat
        BY <1>2, <1>4, RunFacts DEF Seen
    <2>5. \A e \in added : e.id >= Min(page)
        BY <1>6, <1>10, <2>1
    <2>6. \A e \in w.seen : e.id >= Min(page)
        BY <1>5, <2>3, <2>4
    <2> QED
        BY <1>0, <1>11, <2>1, <2>2, <2>3, <2>5, <2>6
<1>15. ASSUME NEW i \in Listed, Ours(i), runs[i].at > w.mark, ~(last /\ ~done)
       PROVE  \/ \E e \in seen : e.id = i
              \/ ~done /\ i < Min(page)
              \/ \A e \in seen : e.id < i
    <2>0. i \in Nat /\ i <= MaxRuns /\ runs[i].at \in Nat
        BY <1>2, RunFacts DEF Runs
    <2>1. CASE \E e \in w.seen : e.id = i
        BY <1>0, <2>1
    <2>2. CASE i < w.cursor
        <3>1. i \in Older(w.cursor)
            BY <2>2 DEF Older
        <3>2. CASE i \in page
            BY <1>11, <1>15, <3>2
        <3>3. CASE i \notin page
            <4>1. page # {} /\ Min(page) \in page /\ Min(page) \in Listed
                BY <1>6, <1>9, <3>1
            <4>2. \A j \in page : i < j
                BY <1>6, <2>0, <3>1, <3>3
            <4>3. i \in Older(Min(page))
                BY <4>1, <4>2 DEF Older
            <4>4. ~reached
                <5>1. SUFFICES ASSUME NEW j \in page, ~(runs[j].at > w.mark)
                               PROVE  FALSE
                    BY <1>7
                <5>2. i < j /\ j \in Listed
                    BY <1>6, <4>2
                <5>3. runs[i].at <= runs[j].at /\ runs[j].at \in Nat
                    <6>1. j \in Nat /\ i <= j /\ runs[j].at \in Nat
                        BY <1>2, <1>6, <2>0, <5>2, RunFacts
                    <6> QED
                        BY <1>2, <5>2, <6>1 DEF RunsInv
                <5> QED
                    BY <1>5, <1>15, <2>0, <5>1, <5>3
            <4> QED
                BY <4>1, <4>2, <4>3, <4>4
        <3> QED
            BY <3>2, <3>3
    <2>3. CASE ~(i < w.cursor) /\ \A e \in w.seen : e.id < i
        <3>1. \A e \in added : e.id < w.cursor /\ e.id \in Nat
            BY <1>6, <1>10
        <3>2. \A e \in added : e.id < i
            BY <1>5, <2>0, <2>3, <3>1
        <3> QED
            BY <1>0, <2>3, <3>2
    <2> QED
        BY <1>0, <1>4, <1>15, <2>1, <2>2, <2>3 DEF Accounted
<1> HIDE DEF done
<1>16. ~(last /\ ~done) /\ new.pc = "storing" => done
    BY <1>3
<1>17. \A i \in Listed : Ours(i)' => Ours(i) /\ ~(last /\ ~done)
    BY <1>1 DEF Ours, Tied, Listed
<1>18. /\ sweep'[s].pc = new.pc /\ sweep'[s].mark = w.mark /\ sweep'[s].page = w.page + 1
       /\ sweep'[s].agent = w.agent /\ sweep'[s].left = new.left /\ sweep'[s].unstored = {}
       /\ sweep'[s].seen = seen /\ sweep'[s].cursor = new.cursor /\ sweep'[s].chosen = w.chosen
    BY <1>2, <1>3, <1>4
<1>19. ASSUME NEW i \in Listed', Ours(i)', runs'[i].at > w.mark
       PROVE  Accounted(s, i)'
    <2>1. i \in Listed /\ Ours(i) /\ runs[i].at > w.mark /\ ~(last /\ ~done)
        BY <1>1, <1>17, <1>19 DEF Listed
    <2>2. \/ \E e \in seen : e.id = i
          \/ ~done /\ i < Min(page)
          \/ \A e \in seen : e.id < i
        BY <1>15, <2>1
    <2>3. ASSUME ~done, i < Min(page)
          PROVE  sweep'[s].pc = "listing" /\ i < sweep'[s].cursor
        BY <1>3, <1>18, <2>1, <2>3
    <2> QED
        BY <1>18, <2>2, <2>3 DEF Accounted
<1>20. SettledUpTo(sweep[s].mark)'
    BY <1>1, <1>4, <1>17, <1>18 DEF SettledUpTo, Arrived, LastKey, Listed
<1>21. \A e \in seen : Seen(e)'
    BY <1>1, <1>12 DEF Seen, LastKey, Listed
<1>22. sweep'[s].pc = "listing" =>
          /\ ~done /\ ~last /\ sweep'[s].left = {}
          /\ sweep'[s].cursor \in 1..MaxRuns /\ (\E e \in seen : e.id = sweep'[s].cursor)
          /\ \A e \in seen : e.id >= sweep'[s].cursor
    BY <1>3, <1>4, <1>14, <1>18
<1>23. /\ sweep'[s].page \in Nat /\ sweep'[s].page <= mode'.pages
       /\ (sweep'[s].pc \in {"marking", "listing"} => sweep'[s].page < mode'.pages)
       /\ sweep'[s].pc \in {"listing", "storing"}
    <2>1. w.page + 1 \in Nat /\ w.page + 1 <= mode.pages /\ (~last => w.page + 1 < mode.pages)
        BY <1>0, <1>2 DEF last
    <2> QED
        BY <1>1, <1>3, <1>18, <1>22, <2>1
<1>24. sweep'[s].pc = "storing" =>
          /\ sweep'[s].left \subseteq {e.id : e \in seen}
          /\ \A e \in seen : e.run.workflow \in w.chosen => e.id \in sweep'[s].left
    BY <1>3, <1>18
<1>25. sweep'[s].mark # 0 => \E j \in Listed' : sweep'[s].mark <= runs'[j].at
    BY <1>1, <1>4, <1>18 DEF Listed
<1>26. SweepInv(s)'
    BY <1>1, <1>4, <1>12, <1>13, <1>18, <1>19, <1>20, <1>21, <1>22, <1>23, <1>24, <1>25 DEF SweepInv
<1> QED
    <2>1. truncated' \in BOOLEAN /\ (truncated => truncated')
        BY <1>1, <1>2
    <2> QED
        BY <1>1, <1>26, <2>1, SweepSteps

LEMMA IFails == ASSUME IInv, NEW s \in Sweepers, ListFails(s) PROVE IInv'
<1>1. /\ Set(s, Resting) /\ UNCHANGED <<now, runs, watched, loyal, mode, rows, mark, open, truncated>>
      /\ RunsInv /\ mode \in Modes /\ truncated \in BOOLEAN /\ sweep'[s] = Resting
    BY DEF ListFails, provider, store, history, Set, IInv, RunsInv
<1>2. SweepInv(s)'
    BY <1>1, RestingIsFine, RunFacts
<1> QED
    BY <1>1, <1>2, SweepSteps

LEMMA ICrashes == ASSUME IInv, Crash PROVE IInv'
<1>1. /\ UNCHANGED <<now, runs, watched, loyal, mode, rows, mark, open, truncated>>
      /\ RunsInv /\ mode \in Modes /\ truncated \in BOOLEAN
      /\ DOMAIN sweep' = Sweepers /\ \A s \in Sweepers : sweep'[s] = Resting
    BY DEF Crash, provider, store, history, IInv, RunsInv
<1>2. \A s \in Sweepers : SweepInv(s)'
    BY <1>1, RestingIsFine, RunFacts
<1>3. RunsInv'
    BY <1>1 DEF RunsInv, Listed
<1>4. RowsInv' /\ SettledUpTo(mark)' /\ OpenInv'
    BY <1>1 DEF IInv, RowsInv, RowInv, SettledUpTo, OpenInv, Ours, Tied, Arrived, LastKey, Listed
<1> QED
    BY <1>1, <1>2, <1>3, <1>4 DEF IInv

\* What a sweep that stores knows after it has done with one of its runs.
LEMMA StoringGoesOn ==
    ASSUME RunsInv, Steady, NEW s, SweepInv(s), NEW w, w = sweep[s], w.pc = "storing",
           NEW new, sweep'[s] = new, new.pc = "storing", new.mark = w.mark, new.page = w.page,
           new.seen = w.seen, new.chosen = w.chosen, new.agent \in Workflows \union {"none"},
           new.left \subseteq w.left,
           \A e \in w.seen : e.run.workflow \in w.chosen \ Foreign =>
               e.id \in new.left \union new.unstored \/ Done(s, e)'
    PROVE  SweepInv(s)'
<1>1. /\ w.page \in Nat /\ w.page <= mode'.pages /\ loyal' \subseteq w.chosen /\ w.mark \in 0..MaxTime
      /\ (w.mark # 0 => \E j \in Listed : w.mark <= runs[j].at) /\ SettledUpTo(w.mark) /\ w.mark \in Nat
      /\ \A e \in w.seen : Seen(e) /\ e.run.at > w.mark
      /\ \A e, f \in w.seen : e.id = f.id => e = f
      /\ \A i \in Listed : Ours(i) /\ runs[i].at > w.mark => Accounted(s, i)
      /\ w.left \subseteq {e.id : e \in w.seen}
    <2>1. mode' = mode /\ loyal' \subseteq loyal
        BY DEF Steady
    <2> QED
        BY <2>1, RunFacts DEF SweepInv
<1>2. w.mark # 0 => \E j \in Listed' : w.mark <= runs'[j].at
    BY <1>1, ListedLasts
<1>3. \A i \in Listed' : Ours(i)' /\ runs'[i].at <= w.mark => Arrived(i)'
    BY <1>1, SettledLasts
<1>4. \A e \in w.seen : Seen(e)'
    BY <1>1, SeenLasts
<1>5. ASSUME NEW i \in Listed', Ours(i)', runs'[i].at > w.mark
      PROVE  (\E e \in w.seen : e.id = i) \/ (\A e \in w.seen : e.id < i)
    <2>1. CASE i \in Listed
        <3>1. Ours(i) /\ runs[i].at > w.mark
            BY <1>5, <2>1, OursShrinks DEF Steady, Moves
        <3> QED
            BY <1>1, <2>1, <3>1 DEF Accounted
    <2>2. CASE i \notin Listed
        BY <1>1, <2>2 DEF Steady, Moves, Seen
    <2> QED
        BY <2>1, <2>2
<1>6. /\ sweep'[s].pc = "storing" /\ sweep'[s].mark = w.mark /\ sweep'[s].page = w.page
      /\ sweep'[s].seen = w.seen /\ sweep'[s].chosen = w.chosen /\ sweep'[s].agent = new.agent
      /\ sweep'[s].left = new.left /\ sweep'[s].unstored = new.unstored
    OBVIOUS
<1>7. SettledUpTo(sweep[s].mark)'
    BY <1>3, <1>6 DEF SettledUpTo
<1>8. \A i \in Listed' : Ours(i)' /\ runs'[i].at > w.mark => Accounted(s, i)'
    BY <1>5, <1>6 DEF Accounted
<1> QED
    BY <1>1, <1>2, <1>4, <1>6, <1>7, <1>8 DEF SweepInv

LEMMA IStoreFails == ASSUME IInv, NEW s \in Sweepers, StoreFails(s) PROVE IInv'
<1>0. PICK w, i, new : /\ w = sweep[s] /\ i = Min(w.left)
                       /\ new = [w EXCEPT !.left = @ \ {i}, !.unstored = @ \union {i}]
    OBVIOUS
<1>1. /\ Set(s, new) /\ UNCHANGED <<now, runs, watched, loyal, mode, rows, mark, open, truncated>>
      /\ w.pc = "storing"
    BY <1>0 DEF StoreFails, provider, store, history
<1>2. RunsInv /\ mode \in Modes /\ truncated \in BOOLEAN /\ sweep'[s] = new /\ SweepInv(s)
    BY <1>0, <1>1 DEF IInv, RunsInv, Set
<1>3. /\ new.pc = "storing" /\ new.mark = w.mark /\ new.page = w.page /\ new.seen = w.seen
      /\ new.chosen = w.chosen /\ new.agent = w.agent
      /\ new.left = w.left \ {i} /\ new.unstored = w.unstored \union {i}
    BY <1>0, <1>1
<1>4. Moves /\ RunsInv'
    BY <1>1, <1>2, NothingMoves DEF RunsInv
<1>5. Steady
    BY <1>1, <1>4 DEF Steady, Arrived, LastKey, Listed
<1>6. /\ w.agent \in Workflows \union {"none"}
      /\ \A e \in w.seen : e.run.workflow \in w.chosen \ Foreign => e.id \in w.left \union w.unstored \/ Done(s, e)
    BY <1>0, <1>1, <1>2 DEF SweepInv
<1>7. \A e \in w.seen : Done(s, e) => Done(s, e)'
    BY <1>1 DEF Done, Arrived, LastKey, Listed
<1>8. \A e \in w.seen : e.run.workflow \in w.chosen \ Foreign => e.id \in new.left \union new.unstored \/ Done(s, e)'
    BY <1>3, <1>6, <1>7
<1>9. SweepInv(s)'
    BY <1>0, <1>1, <1>2, <1>3, <1>5, <1>6, <1>8, StoringGoesOn
<1> QED
    BY <1>1, <1>2, <1>9, SweepSteps

LEMMA IStores == ASSUME IInv, NEW s \in Sweepers, StoreOldest(s) PROVE IInv'
<1>a. PICK w, i : w = sweep[s] /\ i = Min(w.left)
    OBVIOUS
<1>b. PICK e : e = (CHOOSE x \in w.seen : x.id = i)
    OBVIOUS
<1>c. PICK new : new = [w EXCEPT !.left = @ \ {i}, !.agent = IF DOMAIN normaliseRun(e.run) = {} THEN @ ELSE e.run.workflow]
    OBVIOUS
<1>0. /\ w = sweep[s] /\ i = Min(w.left) /\ e = (CHOOSE x \in w.seen : x.id = i)
      /\ new = [w EXCEPT !.left = @ \ {i}, !.agent = IF DOMAIN normaliseRun(e.run) = {} THEN @ ELSE e.run.workflow]
    BY <1>a, <1>b, <1>c
<1>1. /\ Set(s, new) /\ UNCHANGED <<now, runs, watched, loyal, mode, mark, open, truncated>>
      /\ w.pc = "storing" /\ w.left # {} /\ rows' = Upserted(i, normaliseRun(e.run))
    BY <1>0 DEF StoreOldest, RunOf, provider, history
<1>2. RunsInv /\ mode \in Modes /\ truncated \in BOOLEAN /\ sweep'[s] = new /\ SweepInv(s) /\ RowsInv
    BY <1>0, <1>1 DEF IInv, RunsInv, Set
<1>3. /\ new.pc = "storing" /\ new.mark = w.mark /\ new.page = w.page /\ new.seen = w.seen
      /\ new.chosen = w.chosen /\ new.left = w.left \ {i} /\ new.unstored = w.unstored
      /\ new.agent = IF DOMAIN normaliseRun(e.run) = {} THEN w.agent ELSE e.run.workflow
    BY <1>0, <1>1
<1>4. /\ w.agent \in Workflows \union {"none"} /\ w.left \subseteq {x.id : x \in w.seen}
      /\ \A x \in w.seen : Seen(x)
      /\ \A x, y \in w.seen : x.id = y.id => x = y
      /\ \A x \in w.seen : x.run.workflow \in w.chosen \ Foreign => x.id \in w.left \union w.unstored \/ Done(s, x)
    BY <1>0, <1>1, <1>2 DEF SweepInv
<1>5. i \in w.left /\ e \in w.seen /\ e.id = i /\ Seen(e) /\ i \in Listed /\ i \in Runs
    <2>1. w.left \subseteq Nat
        BY <1>2, <1>4, RunFacts DEF Seen
    <2>2. i \in w.left
        BY <1>0, <1>1, <2>1, LeastOfNats
    <2>3. \E x \in w.seen : x.id = i
        BY <1>4, <2>2
    <2>4. e \in w.seen /\ e.id = i
        BY <1>0, <2>3
    <2> QED
        BY <1>2, <1>4, <2>2, <2>4, RunFacts DEF Seen
<1> DEFINE events == normaliseRun(e.run)
<1>6. ASSUME NEW j \in Runs, NEW k \in Keys
      PROVE  rows'[<<j, k>>] = IF j = i /\ k \in DOMAIN events /\ rows[<<j, k>>] \in {"none", "pending"}
                               THEN events[k] ELSE rows[<<j, k>>]
    <2> DEFINE p == <<j, k>>
    <2>1. p \in Runs \X Keys /\ p[1] = j /\ p[2] = k
        OBVIOUS
    <2>2. rows'[p] = IF p[1] = i /\ p[2] \in DOMAIN events /\ rows[p] \in {"none", "pending"}
                     THEN events[p[2]] ELSE rows[p]
        BY <1>1, <2>1, Zenon DEF Upserted
    <2> QED
        BY <2>1, <2>2
<1>7. rows' = [p \in Runs \X Keys |-> rows'[p]]
    BY <1>1 DEF Upserted
<1>8. \A k \in DOMAIN events :
         /\ e.run.workflow \notin Foreign /\ k \in Keys
         /\ \/ events[k] = "pending"
            \/ events[k] = "replaced" /\ k \in 1..(LastKey(i) - 1)
            \/ /\ e.run = runs[i] /\ Ended(e.run) /\ k = LastKey(i)
               /\ events[k] \in {"included", "reverted", "rejected", "unknown"}
    BY <1>2, <1>5, SeenIsNormalised
<1>9. ASSUME NEW j \in Runs, NEW k \in Keys
      PROVE  /\ rows'[<<j, k>>] \in Statuses \union {"none"}
             /\ RowInv(j, k)' /\ (j \notin Listed' => rows'[<<j, k>>] = "none")
    <2>1. rows[<<j, k>>] \in Statuses \union {"none"} /\ RowInv(j, k) /\ (j \notin Listed => rows[<<j, k>>] = "none")
        BY <1>2 DEF RowsInv
    <2>2. CASE j = i /\ k \in DOMAIN events /\ rows[<<j, k>>] \in {"none", "pending"}
        <3>1. rows'[<<j, k>>] = events[k]
            BY <1>6, <2>2
        <3>2. rows'[<<j, k>>] \in Statuses \union {"none"}
            BY <1>8, <2>2, <3>1 DEF Statuses
        <3>3. RowInv(j, k)'
            BY <1>1, <1>5, <1>8, <2>2, <3>1 DEF RowInv, LastKey, Listed
        <3> QED
            BY <1>1, <1>5, <2>2, <3>2, <3>3 DEF Listed
    <2>3. CASE ~(j = i /\ k \in DOMAIN events /\ rows[<<j, k>>] \in {"none", "pending"})
        <3>1. rows'[<<j, k>>] = rows[<<j, k>>]
            BY <1>6, <2>3
        <3> QED
            BY <1>1, <2>1, <3>1 DEF RowInv, LastKey, Listed
    <2> QED
        BY <2>2, <2>3
<1>10. RowsInv'
    <2>1. \A p \in Runs \X Keys : rows'[p] \in Statuses \union {"none"}
        <3> SUFFICES ASSUME NEW j \in Runs, NEW k \in Keys
                     PROVE  rows'[<<j, k>>] \in Statuses \union {"none"}
            OBVIOUS
        <3> QED
            BY <1>9
    <2>2. rows' \in [Runs \X Keys -> Statuses \union {"none"}]
        BY <1>7, <2>1
    <2> QED
        BY <1>9, <2>2 DEF RowsInv
<1>11. ASSUME NEW j \in Listed, runs[j].workflow \notin Foreign, Arrived(j)
       PROVE  Arrived(j)'
    <2>1. /\ j \in Runs /\ LastKey(j) \in Keys /\ Ended(runs[j]) /\ runs[j] \in RunRecord
          /\ rows[<<j, LastKey(j)>>] = normaliseRun(runs[j])[LastKey(j)]
        BY <1>2, <1>11, RunFacts DEF Arrived
    <2>2. normaliseRun(runs[j])[LastKey(j)] \in {"included", "reverted", "rejected", "unknown"}
        BY <1>11, <2>1, NormalisedAre DEF LastKey
    <2>3. rows'[<<j, LastKey(j)>>] = rows[<<j, LastKey(j)>>]
        BY <1>6, <2>1, <2>2
    <2> QED
        BY <1>1, <1>11, <2>1, <2>3 DEF Arrived, LastKey, Listed
<1>12. ASSUME e.run.workflow \notin Foreign, Ended(e.run)
       PROVE  Arrived(i)'
    <2>1. e.run = runs[i] /\ runs[i] \in RunRecord /\ LastKey(i) \in Keys /\ LastKey(i) \in Nat
        BY <1>2, <1>5, <1>12, RunFacts DEF Seen
    <2>2. /\ LastKey(i) \in DOMAIN events
          /\ events[LastKey(i)] \in {"included", "reverted", "rejected", "unknown"}
        BY <1>12, <2>1, NormalisedAre DEF LastKey
    <2>3. \/ rows[<<i, LastKey(i)>>] \in {"none", "pending"}
          \/ rows[<<i, LastKey(i)>>] = events[LastKey(i)]
        <3>1. \A k \in Keys : RowInv(i, k)
            BY <1>2, <1>5 DEF RowsInv
        <3>2. ~(LastKey(i) \in 1..(LastKey(i) - 1))
            BY <2>1
        <3>3. RowInv(i, LastKey(i))
            BY <2>1, <3>1
        <3> QED
            BY <2>1, <3>2, <3>3 DEF RowInv
    <2>4. rows'[<<i, LastKey(i)>>] = events[LastKey(i)]
        BY <1>5, <1>6, <2>1, <2>2, <2>3
    <2> QED
        BY <1>1, <1>5, <1>12, <2>1, <2>4 DEF Arrived, LastKey, Listed
<1>13. Moves /\ RunsInv'
    BY <1>1, <1>2, NothingMoves DEF RunsInv
<1>14. Steady
    BY <1>1, <1>11, <1>13 DEF Steady
<1>15. new.agent \in Workflows \union {"none"}
    BY <1>2, <1>3, <1>4, <1>5, RunFacts DEF Seen, RunRecord
<1>16. ASSUME NEW x \in w.seen, x.run.workflow \in w.chosen \ Foreign, x.id \notin new.left \union new.unstored
       PROVE  Done(s, x)'
    <2>1. CASE x.id = i
        <3>1. x = e
            BY <1>4, <1>5, <2>1
        <3> QED
            BY <1>5, <1>12, <1>16, <3>1 DEF Done
    <2>2. CASE x.id # i
        <3>1. Done(s, x) /\ x.id \in Listed /\ runs[x.id].workflow \notin Foreign
            BY <1>3, <1>4, <1>16, <2>2 DEF Seen
        <3> QED
            BY <1>11, <3>1 DEF Done
    <2> QED
        BY <2>1, <2>2
<1>17. SweepInv(s)'
    <2> HIDE DEF events
    <2>1. new.left \subseteq w.left
        BY <1>3
    <2>2. RunsInv /\ Steady /\ SweepInv(s) /\ w = sweep[s] /\ w.pc = "storing" /\ sweep'[s] = new
        BY <1>0, <1>1, <1>2, <1>14
    <2>3. /\ new.pc = "storing" /\ new.mark = w.mark /\ new.page = w.page
          /\ new.seen = w.seen /\ new.chosen = w.chosen
        BY <1>3
    <2>4. \A x \in w.seen : x.run.workflow \in w.chosen \ Foreign =>
              x.id \in new.left \union new.unstored \/ Done(s, x)'
        BY <1>16
    <2> QED
        BY <1>15, <2>1, <2>2, <2>3, <2>4, StoringGoesOn
<1>18. DOMAIN sweep' = Sweepers /\ \A t \in Sweepers \ {s} : sweep'[t] = sweep[t]
    BY <1>1 DEF Set, IInv
<1>19. \A t \in Sweepers : SweepInv(t)'
    <2> SUFFICES ASSUME NEW t \in Sweepers
                 PROVE  SweepInv(t)'
        OBVIOUS
    <2>1. CASE t = s
        BY <1>17, <2>1
    <2>2. CASE t # s
        BY <1>2, <1>14, <1>18, <2>2, SweepLasts DEF IInv
    <2> QED
        BY <2>1, <2>2
<1>20. SettledUpTo(mark)'
    <2>1. PICK m : m = mark
        OBVIOUS
    <2>2. m \in Nat /\ SettledUpTo(m) /\ (m # 0 => \E j \in Listed : m <= runs[j].at) /\ mark' = m
        BY <1>1, <1>2, <2>1, RunFacts DEF IInv, RunsInv
    <2> QED
        BY <1>2, <1>14, <2>2, SettledLasts DEF SettledUpTo
<1>21. OpenInv'
    BY <1>1 DEF IInv, OpenInv
<1> QED
    BY <1>1, <1>2, <1>10, <1>13, <1>18, <1>19, <1>20, <1>21 DEF IInv

\* What the new mark does not pass.
LEMMA IFinishes == ASSUME IInv, NEW s \in Sweepers, Finish(s) PROVE IInv'
<1>0. PICK w, new :
         /\ w = sweep[s]
         /\ new = IF s = "tick" /\ w.agent # "none" THEN [Resting EXCEPT !.pc = "evaluating", !.agent = w.agent]
                  ELSE Resting
    OBVIOUS
<1> DEFINE ats == {e.run.at : e \in w.seen} \union {0}
           fresh == {entry \in w.seen : entry.run.workflow \in w.chosen}
           blockers == Blockers(fresh, w.unstored)
           stopped == {e.run.at : e \in blockers}
           advanced == nextHighWater(fresh, w.mark, w.unstored, Max(ats))
<1>1. /\ Set(s, new) /\ UNCHANGED <<now, runs, watched, loyal, mode, rows, open, truncated>>
      /\ w.pc = "storing" /\ w.left = {} /\ mark' = IF advanced = 0 THEN mark ELSE advanced
    BY <1>0 DEF Finish, Fresh, provider, history
<1>2. RunsInv /\ mode \in Modes /\ truncated \in BOOLEAN /\ sweep'[s] = new /\ SweepInv(s)
    BY <1>0, <1>1 DEF IInv, RunsInv, Set
<1>3. /\ w.mark \in 0..MaxTime /\ (w.mark # 0 => \E j \in Listed : w.mark <= runs[j].at)
      /\ loyal \subseteq w.chosen /\ SettledUpTo(w.mark)
      /\ \A e \in w.seen : Seen(e) /\ e.run.at > w.mark
      /\ \A i \in Listed : Ours(i) /\ runs[i].at > w.mark =>
            (\E e \in w.seen : e.id = i) \/ (\A e \in w.seen : e.id < i)
      /\ \A e \in w.seen : e.run.workflow \in w.chosen \ Foreign => e.id \in w.unstored \/ Done(s, e)
      /\ w.agent \in Workflows \union {"none"}
    BY <1>0, <1>1, <1>2 DEF SweepInv, Accounted
<1>4. MaxTime \in Nat /\ w.mark \in Nat /\ mark \in Nat
    BY <1>2, <1>3, RunFacts DEF RunsInv
<1>5. ASSUME NEW e \in w.seen
      PROVE  /\ e.id \in Listed /\ e.run.at = runs[e.id].at /\ e.run.at \in Nat /\ e.run.at <= MaxTime
             /\ e.id \in Nat /\ e.run.workflow = runs[e.id].workflow /\ e.run.at > w.mark
    <2>1. /\ e.id \in Listed /\ e.run.at = runs[e.id].at /\ e.run.workflow = runs[e.id].workflow
          /\ e.run.at > w.mark
        BY <1>3 DEF Seen
    <2>2. runs[e.id].at \in Nat /\ runs[e.id].at <= now /\ now <= MaxTime /\ e.id \in Nat /\ now \in Nat
        BY <1>2, <2>1, RunFacts DEF RunsInv
    <2> QED
        BY <1>4, <2>1, <2>2
<1>6. ats \subseteq Nat /\ ats # {} /\ \A y \in ats : y <= MaxTime
    BY <1>4, <1>5
<1>7. Max(ats) \in ats /\ \A y \in ats : y <= Max(ats)
    <2> HIDE DEF ats
    <2> QED
        BY <1>4, <1>6, GreatestOfNats
<1>8. stopped \subseteq Nat /\ (blockers # {} => stopped # {}) /\ blockers \subseteq w.seen
    BY <1>5 DEF Blockers
<1>9. blockers # {} => Min(stopped) \in stopped /\ \A y \in stopped : Min(stopped) <= y
    <2> HIDE DEF stopped, blockers
    <2> QED
        BY <1>8, LeastOfNats
\* Whom no blocker stands for is stored.
<1>10. ASSUME NEW e \in w.seen, Ours(e.id), e \notin blockers
       PROVE  Arrived(e.id)
    <2>1. e.run.workflow \in w.chosen \ Foreign
        BY <1>3, <1>5, <1>10 DEF Ours
    <2>2. Ended(e.run) /\ e.id \notin w.unstored
        BY <1>10, <2>1 DEF Blockers
    <2> QED
        BY <1>3, <2>1, <2>2 DEF Done
\* Of two runs the later is not below.
<1>11. ASSUME NEW i \in Listed, NEW e \in w.seen, e.id < i
       PROVE  e.run.at <= runs[i].at /\ runs[i].at \in Nat
    <2>1. i \in Nat /\ runs[i].at \in Nat
        BY <1>2, RunFacts
    <2>2. e.id <= i /\ e.id \in Listed
        BY <1>5, <1>11, <2>1
    <2> QED
        BY <1>2, <1>5, <2>1, <2>2 DEF RunsInv
<1>12. ASSUME NEW m \in Nat, NEW i \in Listed, Ours(i), runs[i].at <= m, runs[i].at > w.mark,
              \A e \in w.seen : e.id = i => e \notin blockers,
              (\A e \in w.seen : e.id < i) => FALSE
       PROVE  Arrived(i)
    <2>1. PICK e \in w.seen : e.id = i
        BY <1>3, <1>12
    <2> QED
        BY <1>10, <1>12, <2>1
<1>13. PICK m : m = mark'
    OBVIOUS
\* Nobody stands in the way: whatever was seen is stored.
<1>16. ASSUME blockers = {}, m = Max(ats), m # 0
       PROVE  SettledUpTo(m) /\ m \in 0..MaxTime /\ \E j \in Listed : m <= runs[j].at
    <2>1. PICK e0 \in w.seen : m = e0.run.at
        BY <1>7, <1>16
    <2>2. m \in Nat /\ m <= MaxTime /\ e0.id \in Listed /\ m <= runs[e0.id].at
        BY <1>5, <2>1
    <2>3. ASSUME NEW i \in Listed, Ours(i), runs[i].at <= m
          PROVE  Arrived(i)
        <3>1. CASE runs[i].at <= w.mark
            BY <1>3, <2>3, <3>1 DEF SettledUpTo
        <3>2. CASE ~(runs[i].at <= w.mark)
            <4>1. runs[i].at > w.mark
                BY <1>2, <1>4, <3>2, RunFacts
            <4>2. ASSUME \A e \in w.seen : e.id < i
                  PROVE  FALSE
                <5>1. e0.id < i /\ e0.id \in Nat /\ i \in Nat
                    BY <1>2, <1>5, <4>2, RunFacts
                <5>2. runs[e0.id].at = runs[i].at /\ e0.id \in Listed
                    BY <1>5, <1>11, <2>1, <2>3, <5>1
                <5>3. Tied(i)
                    BY <5>1, <5>2 DEF Tied
                <5> QED
                    BY <2>3, <5>3 DEF Ours
            <4>3. \A e \in w.seen : e.id = i => e \notin blockers
                BY <1>16
            <4> HIDE DEF blockers, ats
            <4> QED
                BY <1>12, <2>2, <2>3, <4>1, <4>2, <4>3
        <3> QED
            BY <3>1, <3>2
    <2> HIDE DEF blockers, ats
    <2> QED
        BY <1>4, <2>2, <2>3 DEF SettledUpTo
\* Up to just before the first who does, too.
<1>17. ASSUME blockers # {}, m = Min(stopped) - 1, m # 0
       PROVE  SettledUpTo(m) /\ m \in 0..MaxTime /\ \E j \in Listed : m <= runs[j].at
    <2>1. PICK b \in blockers : Min(stopped) = b.run.at
        BY <1>9, <1>17
    <2>2. \A e \in blockers : Min(stopped) <= e.run.at
        BY <1>9, <1>17
    <2>3. b \in w.seen /\ \A e \in blockers : e \in w.seen
        BY <1>8, <2>1
    <2> HIDE DEF blockers, stopped
    <2>4. /\ b.run.at \in Nat /\ b.run.at > w.mark /\ b.run.at <= MaxTime
          /\ b.id \in Listed /\ b.run.at = runs[b.id].at
        BY <1>5, <2>3
    <2>5. m \in Nat /\ m < b.run.at /\ m <= MaxTime
        BY <1>4, <1>17, <2>1, <2>4
    <2>6. ASSUME NEW e \in blockers
          PROVE  m < e.run.at
        <3>1. e.run.at \in Nat /\ Min(stopped) <= e.run.at
            BY <1>5, <2>2, <2>3
        <3> QED
            BY <1>17, <2>1, <2>4, <3>1
    <2>7. ASSUME NEW i \in Listed, Ours(i), runs[i].at <= m
          PROVE  Arrived(i)
        <3>1. CASE runs[i].at <= w.mark
            BY <1>3, <2>7, <3>1 DEF SettledUpTo
        <3>2. CASE ~(runs[i].at <= w.mark)
            <4>1. runs[i].at > w.mark /\ runs[i].at \in Nat
                BY <1>2, <1>4, <3>2, RunFacts
            <4>2. ASSUME \A e \in w.seen : e.id < i
                  PROVE  FALSE
                <5>1. b.run.at <= runs[i].at
                    BY <1>11, <2>3, <4>2
                <5> QED
                    BY <2>4, <2>5, <2>7, <4>1, <5>1
            <4>3. ASSUME NEW e \in w.seen, e.id = i
                  PROVE  e \notin blockers
                <5>1. e.run.at <= m /\ e.run.at \in Nat
                    BY <1>5, <2>7, <4>3
                <5> QED
                    BY <2>5, <2>6, <5>1
            <4> QED
                BY <1>12, <2>5, <2>7, <4>1, <4>2, <4>3
        <3> QED
            BY <3>1, <3>2
    <2>8. m <= runs[b.id].at
        BY <2>4, <2>5
    <2> QED
        BY <1>4, <2>4, <2>5, <2>7, <2>8 DEF SettledUpTo
<1>18. SettledUpTo(m) /\ m \in 0..MaxTime /\ (m # 0 => \E j \in Listed : m <= runs[j].at)
    <2>1. m = IF advanced = 0 THEN mark ELSE advanced
        BY <1>1, <1>13
    <2>2. CASE advanced = 0
        BY <1>2, <2>1, <2>2 DEF IInv, RunsInv
    <2>3. CASE advanced # 0 /\ blockers = {}
        BY <1>16, <2>1, <2>3 DEF nextHighWater
    <2>4. CASE advanced # 0 /\ blockers # {}
        <3>1. m = w.mark \/ m = Min(stopped) - 1
            BY <2>1, <2>4 DEF nextHighWater
        <3> QED
            BY <1>3, <1>17, <2>1, <2>4, <3>1
    <2> QED
        BY <2>2, <2>3, <2>4
<1> HIDE DEF ats, fresh, blockers, stopped, advanced
<1>19. Moves /\ RunsInv'
    BY <1>1, <1>2, <1>13, <1>18, NothingMoves
<1>20. Listed' = Listed /\ \A i \in Listed : Arrived(i) => Arrived(i)'
    BY <1>1 DEF Arrived, Listed, LastKey
<1>21. Steady
    BY <1>1, <1>19, <1>20 DEF Steady
<1>22. SettledUpTo(mark)'
    <2>1. m \in Nat
        BY <1>4, <1>18
    <2> QED
        BY <1>2, <1>13, <1>18, <1>21, <2>1, SettledLasts DEF SettledUpTo
<1>23. SweepInv(s)'
    <2>1. /\ new.page = 0 /\ new.mark = 0 /\ new.agent \in Workflows \union {"none"}
          /\ new.pc \in {"idle", "evaluating"} /\ (new.pc = "evaluating" => new.agent \in Workflows /\ s = "tick")
        BY <1>0, <1>3 DEF Resting
    <2>2. mode'.pages \in Nat
        BY <1>1, <1>2, ModeFacts
    <2> QED
        BY <1>2, <1>4, <2>1, <2>2 DEF SweepInv
<1>24. DOMAIN sweep' = Sweepers /\ \A t \in Sweepers \ {s} : sweep'[t] = sweep[t]
    BY <1>1 DEF Set, IInv
<1>25. \A t \in Sweepers : SweepInv(t)'
    <2> SUFFICES ASSUME NEW t \in Sweepers
                 PROVE  SweepInv(t)'
        OBVIOUS
    <2>1. CASE t = s
        BY <1>23, <2>1
    <2>2. CASE t # s
        BY <1>1, <1>2, <1>21, <1>24, <2>2, SweepLasts DEF IInv
    <2> QED
        BY <2>1, <2>2
<1>26. RowsInv'
    BY <1>1, <1>20 DEF IInv, RowsInv, RowInv, LastKey, Listed
<1>27. OpenInv'
    BY <1>1 DEF IInv, OpenInv
<1> QED
    BY <1>1, <1>2, <1>19, <1>22, <1>24, <1>25, <1>26, <1>27 DEF IInv

-----------------------------------------------------------------------------
(***************************************************************************)
(* The tick's evaluation.                                                  *)
(***************************************************************************)
\* A draft about a managed wallet, which has told no balance and no nonce, cites
\* events, and is about what one of them is about unless it names nothing.
Backed(d, window) ==
    /\ d.cites # {} /\ d.cites \subseteq IdsOf(window)
    /\ d.facts.action = "none" \/ \E e \in window : d.facts.action = e.action

Blind(ctx) == /\ {ctx.latest, ctx.balance, ctx.cap, ctx.baseFee} = {Unknown}
              /\ ctx.inclusion = NoAnalysis

LEMMA OfOneOf ==
    ASSUME NEW window, NEW e \in window, NEW rule, NEW class, NEW severity, NEW confidence, NEW facts,
           facts.action = "none" \/ facts.action = e.action,
           NEW events \in SUBSET window, events # {}
    PROVE  Backed(Draft(rule, class, severity, confidence, IdsOf(events), facts), window)
BY DEF Backed, Draft, IdsOf

LEMMA OfAnother ==
    ASSUME NEW window, NEW e \in window, NEW rule, NEW class, NEW severity, NEW confidence, NEW facts,
           facts.action = "none"
    PROVE  Backed(Draft(rule, class, severity, confidence, {e.id}, facts), window)
BY DEF Backed, Draft, IdsOf

LEMMA StormsAreWithin ==
    ASSUME NEW events, NEW count, NEW e \in Storming(events, count)
    PROVE  e \in events /\ Alike(events, e) \subseteq events /\ Alike(events, e) # {}
BY DEF Storming, First, Alike

LEMMA DraftsAreBacked ==
    ASSUME NEW window, NEW ctx, Blind(ctx), NEW d \in evaluateRules(window, ctx)
    PROVE  Backed(d, window)
<1>1. d \in Fired(window, ctx)
    BY DEF evaluateRules, Unsuppressed
<1>2. \A x \in First(window) \union Newest(window) : x \in window
    BY DEF First, Newest
<1>3. ASSUME d \in R1(window, ctx) PROVE Backed(d, window)
    <2> DEFINE stuck == {e \in window : /\ e.status = "pending"
                                        /\ ctx.now - e.at > StuckThreshold
                                        /\ ~nonceResolved(window, e.nonce)}
    <2>1. PICK e \in First(stuck) :
            d = Draft("R1", "STUCK_TRANSACTION", "warning",
                      IF Corroborated(ctx.latest, e.nonce) THEN 95 ELSE 60, {e.id},
                      [NoFacts EXCEPT !.nonce = e.nonce, !.fee = e.fee])
        BY <1>3 DEF R1
    <2>2. e \in window
        BY DEF First
    <2>3. [NoFacts EXCEPT !.nonce = e.nonce, !.fee = e.fee].action = "none"
        BY DEF NoFacts
    <2> QED
        BY <2>1, <2>2, <2>3, OfAnother
<1>4. d \notin R2(window, ctx) /\ d \notin R3(window, ctx) /\ d \notin R6(window, ctx)
    BY DEF R2, R3, R6, Blind
<1>5. ASSUME d \in R4(window, ctx) PROVE Backed(d, window)
    <2>1. PICK e \in window : d = Draft("R4", "SIM_PASS_EXEC_REVERT", "critical", 95, {e.id}, NoFacts)
        BY <1>5 DEF R4, Newest
    <2>2. NoFacts.action = "none"
        BY DEF NoFacts
    <2> QED
        BY <2>1, <2>2, OfAnother
<1>6. ASSUME d \in R5(window, ctx) PROVE Backed(d, window)
    <2> DEFINE recent == {e \in window : e.at >= ctx.now - StormWindow /\ isFailed(e)}
    <2>1. PICK e \in Storming(recent, StormCount) :
            d = Draft("R5", "RETRY_STORM", "critical", 90, IdsOf(Alike(recent, e)),
                      [NoFacts EXCEPT !.action = e.action])
        BY <1>6 DEF R5
    <2>2. e \in window /\ Alike(recent, e) \in SUBSET window /\ Alike(recent, e) # {}
        BY StormsAreWithin
    <2>3. [NoFacts EXCEPT !.action = e.action].action = e.action
        BY DEF NoFacts
    <2> QED
        BY <2>1, <2>2, <2>3, OfOneOf
<1>7. d \notin R7(window, ctx) /\ d \notin R8(window, ctx)
    BY DEF R7, R8, Blind
<1>8. ASSUME d \in R9(window, ctx) PROVE Backed(d, window)
    <2>1. PICK e \in window : d = Draft("R9", "EXECUTION_STALLED", "warning", 90, {e.id}, NoFacts)
        BY <1>8 DEF R9, First
    <2>2. NoFacts.action = "none"
        BY DEF NoFacts
    <2> QED
        BY <2>1, <2>2, OfAnother
<1>9. ASSUME d \in R10(window, ctx) PROVE Backed(d, window)
    <2> DEFINE refused == {e \in window : /\ e.at >= ctx.now - StormWindow
                                          /\ e.status = "rejected" /\ e.workflow}
    <2>1. PICK e \in Storming(refused, NodeFailures), c \in {90, 75} :
            d = Draft("R10", "WORKFLOW_MISCONFIGURED", "critical", c, IdsOf(Alike(refused, e)),
                      [NoFacts EXCEPT !.action = e.action])
        BY <1>9 DEF R10
    <2>2. e \in window /\ Alike(refused, e) \in SUBSET window /\ Alike(refused, e) # {}
        BY StormsAreWithin
    <2>3. PICK cites, facts : cites = Alike(refused, e) /\ facts = [NoFacts EXCEPT !.action = e.action]
        OBVIOUS
    <2>4. facts.action = e.action
        BY <2>3 DEF NoFacts
    <2>5. d = Draft("R10", "WORKFLOW_MISCONFIGURED", "critical", c, IdsOf(cites), facts)
        BY <2>1, <2>3
    <2>6. e \in window /\ cites \in SUBSET window /\ cites # {}
        BY <2>2, <2>3
    <2> HIDE DEF refused
    <2> QED
        BY <2>4, <2>5, <2>6, OfOneOf
<1> QED
    BY <1>1, <1>3, <1>4, <1>5, <1>6, <1>7, <1>8, <1>9 DEF Fired

\* Whatever is stored is a row of a run that is listed.
LEMMA WindowIsListed ==
    ASSUME RunsInv, RowsInv, NEW e \in Window
    PROVE  e.id[1] \in Listed /\ e.id[1] \in Nat /\ e.action \in Workflows
<1>1. PICK k \in Runs \X Keys : e = EventOf(k) /\ rows[k] # "none"
    BY DEF Window
<1>2. PICK i \in Runs, j \in Keys : k = <<i, j>>
    BY <1>1
<1>3. i \in Listed
    BY <1>1, <1>2 DEF RowsInv
<1>4. e.id = k /\ e.action = runs[k[1]].workflow /\ k[1] = i
    BY <1>1, <1>2 DEF EventOf
<1>5. runs[i] \in RunRecord /\ i \in Nat
    BY <1>3, RunFacts
<1> QED
    BY <1>3, <1>4, <1>5 DEF RunRecord

LEMMA AboutWorkflows ==
    ASSUME RunsInv, RowsInv, NEW d \in evaluateRules(Window, Context)
    PROVE  ActionOf(d) \in Workflows
<1>1. Blind(Context)
    BY DEF Blind, Context
<1>2. Backed(d, Window)
    BY <1>1, DraftsAreBacked
<1>3. CASE d.facts.action # "none"
    BY <1>2, <1>3, WindowIsListed DEF ActionOf, Backed
<1>4. CASE d.facts.action = "none"
    <2> DEFINE ids == {k[1] : k \in d.cites}
    <2>1. \A k \in d.cites : k[1] \in Listed /\ k[1] \in Nat
        BY <1>2, WindowIsListed DEF Backed, IdsOf
    <2>2. ids \subseteq Nat /\ ids # {} /\ ids \subseteq Listed
        BY <1>2, <2>1 DEF Backed
    <2>3. ActionOf(d) = runs[Min(ids)].workflow
        BY <1>4 DEF ActionOf
    <2> HIDE DEF ids
    <2>4. Min(ids) \in ids
        BY <2>2, LeastOfNats
    <2>5. runs[Min(ids)] \in RunRecord
        BY <2>2, <2>4, RunFacts
    <2> QED
        BY <2>3, <2>5 DEF RunRecord
<1> QED
    BY <1>3, <1>4

LEMMA IEvaluates == ASSUME IInv, Evaluate PROVE IInv'
<1>1. /\ Set("tick", Resting) /\ UNCHANGED <<now, runs, watched, loyal, mode, rows, mark, truncated>>
      /\ sweep["tick"].pc = "evaluating"
    BY DEF Evaluate, provider, store, history
<1>2. /\ RunsInv /\ RowsInv /\ mode \in Modes /\ "tick" \in Sweepers /\ sweep'["tick"] = Resting
      /\ SweepInv("tick") /\ OpenInv /\ MaxTime \in Nat
    BY <1>1, RunFacts DEF IInv, Set, Sweepers, RunsInv
<1>3. sweep["tick"].agent \in Workflows
    BY <1>1, <1>2 DEF SweepInv
<1>4. SweepInv("tick")'
    BY <1>1, <1>2, RestingIsFine
<1>5. OpenInv'
    <2>1. PICK window, drafts : /\ window = Window /\ drafts = evaluateRules(window, Context)
                                /\ open' = Folded(drafts, window, sweep["tick"].agent)
        BY DEF Evaluate
    <2>2. \A d \in drafts : ActionOf(d) \in Workflows
        BY <1>2, <2>1, AboutWorkflows
    <2>3. ASSUME NEW i \in Folded(drafts, window, sweep["tick"].agent)
          PROVE  i.agent \in Workflows /\ i.action \in Workflows
        <3>1. \/ i \in open
              \/ \E d \in drafts : i = [agent |-> sweep["tick"].agent, class |-> d.class, action |-> ActionOf(d),
                                         first |-> Min({k[1] : k \in d.cites})]
            BY <2>3 DEF Folded
        <3>2. CASE i \in open
            BY <1>2, <3>2 DEF OpenInv
        <3>3. CASE i \notin open
            <4>1. PICK d \in drafts : \E first : i = [agent |-> sweep["tick"].agent, class |-> d.class,
                                                 action |-> ActionOf(d), first |-> first]
                BY <3>1, <3>3
            <4>3. PICK first : i = [agent |-> sweep["tick"].agent, class |-> d.class,
                                    action |-> ActionOf(d), first |-> first]
                BY <4>1
            <4>2. i.agent = sweep["tick"].agent /\ i.action = ActionOf(d)
                BY <4>3
            <4> QED
                BY <1>3, <2>2, <4>2
        <3> QED
            BY <3>2, <3>3
    <2> QED
        BY <2>1, <2>3 DEF OpenInv
<1>6. mark \in 0..MaxTime /\ (mark # 0 => \E j \in Listed : mark <= runs[j].at) /\ truncated \in BOOLEAN
    BY <1>2 DEF RunsInv
<1>7. Moves /\ RunsInv'
    BY <1>1, <1>2, <1>6, NothingMoves DEF Listed
<1>8. Steady
    BY <1>1, <1>7 DEF Steady, Arrived, LastKey, Listed
<1>9. DOMAIN sweep' = Sweepers /\ sweep'["nudge"] = sweep["nudge"]
    BY <1>1 DEF Set, IInv, Sweepers
<1>10. SweepInv("nudge")'
    BY <1>1, <1>2, <1>8, <1>9, SweepLasts DEF IInv, Sweepers
<1>11. RowsInv' /\ SettledUpTo(mark)'
    BY <1>1 DEF IInv, RowsInv, RowInv, SettledUpTo, Ours, Tied, Arrived, LastKey, Listed
<1> QED
    BY <1>1, <1>4, <1>5, <1>7, <1>9, <1>10, <1>11 DEF IInv, Sweepers

-----------------------------------------------------------------------------
(***************************************************************************)
(* What the ingest promises.                                               *)
(***************************************************************************)
\* Every step of the ingest; the watched executions are another matter.
LEMMA INext == ASSUME IInv, Ingests PROVE IInv'
<1>1. ASSUME NEW s \in Sweepers, Sweeping(s) PROVE IInv'
    BY <1>1, IBegins, IReadsMark, IListsPage, IStores, IFinishes DEF Sweeping
<1>2. CASE Ticking
    BY <1>1, <1>2, IEvaluates DEF Ticking, Sweepers
<1>3. CASE Sweeping("nudge")
    BY <1>1, <1>3 DEF Sweepers
<1>4. CASE Provider
    BY <1>4, IStarts, ISubmitsTx, IEnds, IPasses DEF Provider
<1>5. CASE Operator
    BY <1>5, IWatches DEF Operator
<1>6. CASE Trouble
    BY <1>6, ICrashes, IFails, IStoreFails DEF Trouble
<1> QED
    BY <1>2, <1>3, <1>4, <1>5, <1>6 DEF Ingests

LEMMA IStays == ASSUME IInv, UNCHANGED <<mode, ivars>> PROVE IInv'
BY DEF IInv, ivars, provider, store, history, RunsInv, RowsInv, RowInv, SettledUpTo, OpenInv, SweepInv, Accounted,
       Seen, Done, Ours, Tied, Arrived, LastKey, Listed

LEMMA IStart == ASSUME Init PROVE IInv
<1>1. /\ mode \in Modes /\ watched \subseteq mode.running /\ now = 1 /\ runs = <<>> /\ mark = 0 /\ open = {}
      /\ loyal = watched /\ truncated = FALSE /\ sweep = [s \in Sweepers |-> Resting]
      /\ rows = [k \in Runs \X Keys |-> "none"]
    BY DEF Init
<1>2. MaxTime \in Nat \ {0} /\ MaxRuns \in Nat /\ mode.running \subseteq Workflows /\ mode.pages \in Nat
    BY <1>1, IntakeAssumption
<1>3. Listed = {} /\ runs \in Seq(RunRecord) /\ Len(runs) = 0
    BY <1>1 DEF Listed
<1>4. RunsInv
    <2>1. now \in 1..MaxTime /\ mark \in 0..MaxTime
        BY <1>1, <1>2
    <2>4. truncated \in BOOLEAN
        BY <1>1
    <2>3. Len(runs) <= MaxRuns
        BY <1>2, <1>3
    <2>2. loyal \subseteq watched /\ watched \subseteq Workflows
        BY <1>1, <1>2
    <2> QED
        BY <1>1, <1>3, <2>1, <2>2, <2>3, <2>4 DEF RunsInv
<1>5. RowsInv
    <2>1. rows \in [Runs \X Keys -> Statuses \union {"none"}]
        BY <1>1
    <2>2. \A i \in Runs, k \in Keys : rows[<<i, k>>] = "none"
        BY <1>1
    <2> QED
        BY <2>1, <2>2 DEF RowsInv, RowInv
<1>6. ASSUME NEW s \in Sweepers PROVE SweepInv(s)
    <2>1. sweep[s] = Resting
        BY <1>1
    <2> QED
        BY <1>2, <2>1 DEF SweepInv, Resting
<1>7. SettledUpTo(mark) /\ OpenInv
    BY <1>1, <1>3 DEF SettledUpTo, OpenInv
<1> QED
    BY <1>1, <1>4, <1>5, <1>6, <1>7 DEF IInv

LEMMA AllStarts == ASSUME Init PROVE IInv /\ XInv
BY IStart, XStart DEF Init

LEMMA AllNext == ASSUME IInv, XInv, [Next]_vars PROVE IInv' /\ XInv'
<1>1. CASE Ingests /\ UNCHANGED xvars
    <2>1. IInv'
        BY <1>1, INext
    <2>2. mode' = mode
        BY <1>1 DEF Ingests, Ticking, Sweeping, Provider, Operator, Trouble, Begin, ReadMark, ListPage, StoreOldest,
                    Finish, Evaluate, Start, SubmitTx, End, Pass, Watch, Unwatch, Crash, ListFails, StoreFails
    <2> QED
        BY <1>1, <2>1, <2>2, XStays
<1>2. CASE WatchlistNext /\ UNCHANGED ivars
    <2>1. BodyStep => mode' = mode
        BY DEF BodyStep, BodyEnds, TickBegins, TickEnds, GetStatus, GetsNothing, StoreEvents, markPolled
    <2>2. PollThrows \/ Dies \/ LoopStarts \/ LoopStops => mode' = mode
        BY DEF PollThrows, Dies, LoopStarts, LoopStops
    <2>3. ASSUME NEW x \in Executions,
                 Submits(x) \/ SubmitFails(x) \/ register(x) \/ RegisterFails(x) \/ Broadcast(x) \/ Ends(x)
          PROVE  mode' = mode
        BY <2>3 DEF Submits, SubmitFails, register, RegisterFails, Broadcast, Ends
    <2>4. mode' = mode
        BY <1>2, <2>1, <2>2, <2>3 DEF WatchlistNext
    <2> QED
        BY <1>2, <2>4, XNext, IStays
<1>3. CASE UNCHANGED vars
    BY <1>3, XStays, IStays DEF vars
<1> QED
    BY <1>1, <1>2, <1>3 DEF Next

LEMMA IInvIsWellFormed == ASSUME IInv PROVE TypeOK
<1>1. RunsInv /\ RowsInv /\ OpenInv /\ mode \in Modes
    BY DEF IInv
<1>2. ASSUME NEW i \in Listed
      PROVE  runs[i] \in [workflow : Workflows, at : 1..MaxTime, status : TERMINAL \union {"running"},
                          txs : UNION {[1..n -> {"none", "success", "reverted"}] : n \in 0..MaxTxs}]
    <2>1. /\ runs[i] \in RunRecord /\ runs[i].at \in 1..now /\ now \in 1..MaxTime
          /\ Len(runs[i].txs) <= MaxTxs /\ MaxTxs \in Nat
        BY <1>1, RunFacts DEF RunsInv
    <2>2. runs[i].at \in 1..MaxTime
        BY <1>1, <2>1, RunFacts
    <2>3. PICK n : n = Len(runs[i].txs)
        OBVIOUS
    <2>4. runs[i].txs \in [1..n -> {"none", "success", "reverted"}] /\ n \in 0..MaxTxs
        BY <2>1, <2>3, LenProperties DEF RunRecord
    <2> QED
        BY <2>1, <2>2, <2>4 DEF RunRecord
<1>3. ASSUME NEW s \in Sweepers
      PROVE  /\ sweep[s].pc \in {"idle", "marking", "listing", "storing", "evaluating"}
             /\ sweep[s].page \in 0..mode.pages
    BY <1>1, ModeFacts DEF IInv, SweepInv
<1> QED
    BY <1>1, <1>2, <1>3 DEF TypeOK, RunsInv, RowsInv, OpenInv

\* Only the row of a run's last transaction says that it failed.
LEMMA IInvCounts == ASSUME IInv PROVE RunFailsOnce
<1> SUFFICES ASSUME NEW i \in Listed
             PROVE  Cardinality({k \in Keys : rows[<<i, k>>] \in {"reverted", "rejected", "dropped"}}) <= 1
    BY DEF RunFailsOnce
<1> DEFINE failed == {k \in Keys : rows[<<i, k>>] \in {"reverted", "rejected", "dropped"}}
<1>1. failed \subseteq {LastKey(i)}
    BY RunFacts DEF IInv, RowsInv, RowInv
<1>2. failed = {} \/ failed = {LastKey(i)}
    BY <1>1
<1> HIDE DEF failed
<1>3. Cardinality(failed) \in {0, 1}
    BY <1>2, FS_EmptySet, FS_Singleton
<1> QED
    BY <1>3 DEF failed

\* The ingest stays well formed; a run is never counted for two failures, however
\* its transactions replaced each other and however often two sweeps read it again;
\* and no execution is settled, or its caller told it is watched, without a row
\* that says so, whatever fails on the way (normaliseRun, insertEvents, pollOne,
\* markPolled, registerQuietly).
THEOREM IngestCounts == Spec => []RunsAreCounted
<1>1. Init => IInv /\ XInv
    BY AllStarts
<1>2. IInv /\ XInv /\ [Next]_vars => (IInv /\ XInv)'
    BY AllNext
<1>3. IInv /\ XInv => RunsAreCounted
    BY IInvIsWellFormed, IInvCounts, XInvHolds DEF RunsAreCounted
<1> QED
    BY <1>1, <1>2, <1>3, PTL DEF Spec

\* The high-water mark passes no run of a workflow that was watched all along
\* before the run is stored as it ended, however many sweeps overlap, in whatever
\* order they write the mark, and wherever they fail or die (nextHighWater).
THEOREM MarkKeepsWhatItPasses == Spec => []SettledIsKept
<1>1. Init => IInv /\ XInv
    BY AllStarts
<1>2. IInv /\ XInv /\ [Next]_vars => (IInv /\ XInv)'
    BY AllNext
<1>3. IInv => SettledIsKept
    BY DEF IInv, SettledUpTo, SettledIsKept
<1> QED
    BY <1>1, <1>2, <1>3, PTL DEF Spec
=============================================================================
