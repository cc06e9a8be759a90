----------------------- MODULE IncidentWriters_proofs -----------------------
(***************************************************************************)
(* For any watched signers, incident classes, ticks and requests: no row   *)
(* of an incident claims more than was done for it.  Where ticks do not    *)
(* overlap and nobody else writes rows, what the tracker holds and what is *)
(* stored agree.                                                           *)
(***************************************************************************)
EXTENDS IncidentWriters, FiniteSetTheorems, SequenceTheorems, WellFoundedInduction, TLAPS

-----------------------------------------------------------------------------
(* Sequences of the elements of a set, and the greatest of them *)

LEMMA SetInSeq ==
    ASSUME NEW S, IsFiniteSet(S)
    PROVE  /\ SetToSeq(S) \in Seq(S) /\ Len(SetToSeq(S)) = Cardinality(S)
           /\ DOMAIN SetToSeq(S) = 1..Cardinality(S) /\ Cardinality(S) \in Nat
           /\ Range(SetToSeq(S)) = S /\ IsInjective(SetToSeq(S))
<1> DEFINE n == Cardinality(S)
<1>1. n \in Nat /\ \E f : f \in Bijection(1..n, S)
  BY FS_CardinalityType DEF ExistsBijection
<1>2. PICK f : f \in Bijection(1..n, S)
  BY <1>1
<1>3. f \in [1..n -> S] /\ IsInjective(f)
  BY <1>2 DEF Bijection, Injection, IsInjective
<1>4. SetToSeq(S) \in [1..n -> S] /\ IsInjective(SetToSeq(S))
  BY <1>3 DEF SetToSeq
<1> DEFINE s == SetToSeq(S)
<1> HIDE DEF s
<1>5. s \in Seq(S) /\ Len(s) = n /\ DOMAIN s = 1..n
  <2> HIDE DEF n
  <2> QED
    BY <1>1, <1>4 DEF s
<1>6. Range(s) = S
  <2>1. s \in Injection(1..n, S)
    BY <1>4 DEF s, Injection, IsInjective
  <2>2. IsFiniteSet(1..n) /\ Cardinality(1..n) = n
    BY <1>1, FS_Interval
  <2>3. s \in Surjection(1..n, S)
    BY <2>1, <2>2, FS_Injection
  <2> QED
    BY <1>5, <2>3 DEF Surjection, Range
<1> QED
  BY <1>1, <1>4, <1>5, <1>6 DEF s

LEMMA RangeOfConcat ==
    ASSUME NEW S, NEW s \in Seq(S), NEW t \in Seq(S)
    PROVE  s \o t \in Seq(S) /\ Range(s \o t) = Range(s) \union Range(t)
<1>1. /\ s \o t \in Seq(S) /\ DOMAIN (s \o t) = 1..(Len(s) + Len(t))
      /\ \A i \in 1..(Len(s) + Len(t)) :
            (s \o t)[i] = IF i <= Len(s) THEN s[i] ELSE t[i - Len(s)]
  BY ConcatProperties, LenProperties
<1>2. /\ DOMAIN s = 1..Len(s) /\ DOMAIN t = 1..Len(t) /\ Len(s) \in Nat /\ Len(t) \in Nat
  BY LenProperties
<1> DEFINE m == Len(s)
           n == Len(t)
           u == s \o t
<1> HIDE DEF m, n, u
<1>3. ASSUME NEW x \in Range(u) PROVE x \in Range(s) \union Range(t)
  <2>1. PICK i \in 1..(m + n) : x = u[i]
    BY <1>1, <1>3 DEF Range, m, n, u
  <2>2. CASE i <= m
    BY <1>1, <1>2, <2>1, <2>2 DEF Range, m, n, u
  <2>3. CASE ~(i <= m)
    <3>1. i - m \in 1..n
      BY <1>2, <2>3 DEF m, n
    <3> QED
      BY <1>1, <1>2, <2>1, <2>3, <3>1 DEF Range, m, n, u
  <2> QED
    BY <2>2, <2>3
<1>4. ASSUME NEW x \in Range(s) PROVE x \in Range(u)
  <2>1. PICK i \in 1..m : x = s[i]
    BY <1>2, <1>4 DEF Range, m
  <2>2. i \in 1..(m + n) /\ i <= m
    BY <1>2 DEF m, n
  <2> QED
    BY <1>1, <2>1, <2>2 DEF Range, m, n, u
<1>5. ASSUME NEW x \in Range(t) PROVE x \in Range(u)
  <2>1. PICK i \in 1..n : x = t[i]
    BY <1>2, <1>5 DEF Range, n
  <2>2. m + i \in 1..(m + n) /\ ~(m + i <= m) /\ (m + i) - m = i
    BY <1>2 DEF m, n
  <2> QED
    BY <1>1, <2>1, <2>2 DEF Range, m, n, u
<1> QED
  BY <1>1, <1>3, <1>4, <1>5 DEF u

LEMMA RangeOfTail ==
    ASSUME NEW S, NEW s \in Seq(S), s # <<>>
    PROVE  /\ Head(s) \in S /\ Tail(s) \in Seq(S)
           /\ Range(s) = {Head(s)} \union Range(Tail(s))
<1>1. /\ Head(s) \in S /\ Tail(s) \in Seq(S) /\ Len(Tail(s)) = Len(s) - 1
      /\ \A i \in 1..Len(Tail(s)) : Tail(s)[i] = s[i + 1]
  BY HeadTailProperties
<1>2. /\ DOMAIN s = 1..Len(s) /\ DOMAIN Tail(s) = 1..Len(Tail(s))
      /\ Len(s) \in Nat /\ Len(s) # 0 /\ Head(s) = s[1]
  BY <1>1, LenProperties, EmptySeq
<1>3. \A i \in 1..Len(s) : i = 1 \/ (i - 1 \in 1..(Len(s) - 1) /\ (i - 1) + 1 = i)
  BY <1>2
<1>4. \A i \in 1..(Len(s) - 1) : i + 1 \in 1..Len(s)
  BY <1>2
<1>5. 1 \in 1..Len(s)
  BY <1>2
<1>6. ASSUME NEW x \in Range(s) PROVE x \in {Head(s)} \union Range(Tail(s))
  <2>1. PICK i \in 1..Len(s) : x = s[i]
    BY <1>2, <1>6 DEF Range
  <2>2. CASE i = 1
    BY <1>2, <2>1, <2>2
  <2>3. CASE i # 1
    <3>1. i - 1 \in 1..Len(Tail(s)) /\ Tail(s)[i - 1] = x
      BY <1>1, <1>3, <2>1, <2>3
    <3> QED
      BY <1>2, <3>1 DEF Range
  <2> QED
    BY <2>2, <2>3
<1>7. ASSUME NEW x \in {Head(s)} \union Range(Tail(s)) PROVE x \in Range(s)
  BY <1>1, <1>2, <1>4, <1>5, <1>7 DEF Range
<1> QED
  BY <1>1, <1>6, <1>7

LEMMA RangeOfEmpty == <<>> \in Seq({}) /\ Range(<<>>) = {}
BY DEF Range

LEMMA RangeIn == ASSUME NEW S, NEW s \in Seq(S) PROVE Range(s) \subseteq S
BY LenProperties DEF Range

LEMMA MaxIsIn ==
    ASSUME NEW n \in Nat, NEW S, S \subseteq 1..n, S # {}
    PROVE  Max(S) \in S
<1> DEFINE T == {n - x : x \in S}
<1>0. \A x \in S : n - x \in Nat
  OBVIOUS
<1>1. T \in SUBSET Nat /\ T # {}
  BY <1>0
<1> HIDE DEF T
<1>2. PICK m \in T : \A k \in T : <<k, m>> \notin OpToRel(<, Nat)
  BY <1>1, WFMin, NatLessThanWellFounded, Zenon
<1>3. \A k \in T : ~(k < m)
  BY <1>1, <1>2, Zenon DEF OpToRel
<1>4. \A k \in T : m <= k
  BY <1>1, <1>3
<1>5. PICK x \in S : m = n - x
  BY DEF T
<1>6. \A y \in S : n - y \in T
  BY DEF T
<1>7. \A y \in S : x >= y
  BY <1>4, <1>5, <1>6
<1> QED
  BY <1>7 DEF Max

-----------------------------------------------------------------------------
(* What holds of the tracker, its rows and everyone about to write them *)

Tracked(i) == i \in OpenIds(Key)

\* What an evaluation still has to save has been handed out, and it saves while there is
\* something to save.
EvInv(e) ==
    /\ ev[e].queue \in Seq(1..issued)
    /\ ev[e].pc = "saving" => ev[e].queue # <<>>
    /\ ev[e].pc \notin {"saving", "alerting"} => ev[e].queue = <<>>

\* The tracker's map and its objects say the same, and a row has been handed out.
Placed ==
    /\ \A k \in Key : open[k] # 0 => keyOf[open[k]] = k
    /\ \A i \in Ids : Live(mem[i]) <=> Tracked(i)
    /\ \A i \in Ids : i > issued => rows[i].status = "none"
    /\ \A e \in Evaluators : EvInv(e)

\* What a row, an object or the locals of a writer say of an incident was done for it.
Deserved(fixers, r) ==
    /\ r.by = "blackbox" \/ r.fix = "ours" => "ours" \in fixers
    /\ r.by = "blackbox-proposed" \/ r.fix = "user-signed" => "user-signed" \in fixers

Earned(i, r) == Deserved(fixedBy[i], r)

WorkOk(q, n, fixers) == q.id \in 1..n /\ Deserved(fixers[q.id], q.row)

RequestOk(r, n, fixers) ==
    r.pc # "idle" =>
        /\ WorkOk(r, n, fixers)
        /\ \A q \in Range(r.queue) : WorkOk(q, n, fixers)
        /\ r.pc = "landed" =>
              (IF r.op = "sign" THEN "user-signed" ELSE "ours") \in fixers[r.id]

Credited ==
    /\ \A i \in Ids : Earned(i, rows[i]) /\ Earned(i, mem[i])
    /\ \A e \in Evaluators :
          ev[e].pc = "saving" => Earned(Head(ev[e].queue), ev[e].writing)
    /\ \A w \in Requests : RequestOk(req[w], issued, fixedBy)

WInv == WTypeOK /\ Placed /\ Credited

LEMMA ModesAre ==
    ASSUME mode \in Modes
    PROVE  /\ Key # {} /\ SomeKey \in Key /\ IsFiniteSet(Key)
           /\ Targets # {} /\ (CHOOSE t \in Targets : TRUE) \in Targets
           /\ mode.ids \in Nat /\ mode.requests \in Nat /\ mode.faults \in BOOLEAN
           /\ \A k \in Key : k[1] \in Targets /\ k[2] \in DOMAIN Kind
<1>1. /\ mode.targets # {} /\ IsFiniteSet(mode.targets)
      /\ DOMAIN mode.kind # {} /\ IsFiniteSet(DOMAIN mode.kind)
      /\ mode.ids \in Nat /\ mode.requests \in Nat /\ mode.faults \in BOOLEAN
  BY ModeAssumption
<1>2. IsFiniteSet(mode.targets \X DOMAIN mode.kind)
  BY <1>1, FS_Product
<1>3. Key = mode.targets \X DOMAIN mode.kind
  BY DEF Key, KeysOf
<1>4. mode.targets \X DOMAIN mode.kind # {}
  <2>1. PICK a \in mode.targets, b \in DOMAIN mode.kind : TRUE
    BY <1>1
  <2>2. <<a, b>> \in mode.targets \X DOMAIN mode.kind
    OBVIOUS
  <2> QED
    BY <2>2
<1>5. Key # {} /\ SomeKey \in Key /\ IsFiniteSet(Key)
  BY <1>2, <1>3, <1>4 DEF SomeKey
<1>6. \A k \in Key : k[1] \in Targets /\ k[2] \in DOMAIN Kind
  BY <1>3 DEF Targets, Kind
<1>7. Targets # {} /\ (CHOOSE t \in Targets : TRUE) \in Targets
  BY <1>1 DEF Targets
<1> QED
  BY <1>1, <1>5, <1>6, <1>7

LEMMA Empties ==
    /\ Blank \in Object /\ NoRow \in Row
    /\ Blank.status = "none" /\ Blank.by = "nobody" /\ Blank.fix = "none" /\ ~Live(Blank)
    /\ NoRow.status = "none" /\ NoRow.by = "nobody" /\ NoRow.fix = "none"
    /\ mode \in Modes => Tick0 \in TickState /\ Tick0.pc = "idle" /\ Tick0.queue = <<>>
    /\ NoRequest \in RequestState /\ NoRequest.pc = "idle" /\ NoRequest.queue = <<>>
<1>1. /\ Blank \in Object /\ NoRow \in Row
      /\ Blank.status = "none" /\ Blank.by = "nobody" /\ Blank.fix = "none" /\ ~Live(Blank)
      /\ NoRow.status = "none" /\ NoRow.by = "nobody" /\ NoRow.fix = "none"
  BY DEF Blank, NoRow, Object, Row, Statuses, Attributions, Fixes, Live
<1>2. mode \in Modes => Tick0 \in TickState /\ Tick0.pc = "idle" /\ Tick0.queue = <<>>
  <2> HIDE DEF NoRow
  <2> QED
    BY <1>1, ModesAre DEF Tick0, TickState
<1>3. NoRequest \in RequestState /\ NoRequest.pc = "idle" /\ NoRequest.queue = <<>>
  BY <1>1 DEF NoRequest, RequestState, Ops
<1> QED
  BY <1>1, <1>2, <1>3

LEMMA RowOfObject ==
    ASSUME NEW o \in Object
    PROVE  RowOf(o) \in Row /\ RowOf(o).status = o.status /\ RowOf(o).by = o.by
           /\ RowOf(o).fix = o.fix
BY DEF RowOf, Object, Row

LEMMA InitWInv == WInit => WInv
<1> SUFFICES ASSUME WInit PROVE WInv
  OBVIOUS
<1> USE Empties
<1>1. mode \in Modes
  BY DEF WInit, Init
<1>2. WTypeOK
  <2>1. TypeOK
    <3>1. 0 \in 0..mode.ids /\ 0 \in 0..0 /\ 0 \in Nat
      BY <1>1, ModesAre
    <3>2. SomeKey \in Key
      BY <1>1, ModesAre
    <3> QED
      BY <1>1, <3>1, <3>2 DEF WInit, Init, TypeOK
  <2> QED
    BY <1>1, <2>1 DEF WInit, WTypeOK
<1>3. Placed
  <2>1. \A i \in Ids : ~Live(mem[i]) /\ ~Tracked(i) /\ i # 0
    BY <1>1, ModesAre DEF WInit, Init, Tracked, OpenIds, Ids
  <2>2. \A e \in Evaluators : EvInv(e)
    BY <1>1, EmptySeq DEF WInit, Init, EvInv
  <2> QED
    BY <1>1, <2>1, <2>2 DEF WInit, Init, Placed
<1>4. Credited
  BY <1>1 DEF WInit, Init, Credited, Earned, Deserved, RequestOk
<1> QED
  BY <1>2, <1>3, <1>4 DEF WInv

-----------------------------------------------------------------------------
(* An ingest *)

\* What it makes of the incidents handed out before: whoever is finished was tracked, is
\* tracked no more and is saved; the others keep their status and their credit.
Finishes(e, i) ==
    /\ mem'[i].status = "resolved" /\ mem'[i].by \in {"unknown", AttributionOf(mem[i])}
    /\ mem'[i].fix = mem[i].fix
    /\ Tracked(i) /\ ~Tracked(i)' /\ i \in Range(ev'[e].queue)

Spares(i) ==
    /\ mem'[i].status = mem[i].status /\ mem'[i].by = mem[i].by /\ mem'[i].fix = mem[i].fix
    /\ Tracked(i) <=> Tracked(i)'

\* A new one is open, tracked and saved.
Files(e, i) ==
    /\ mem'[i].status = "open" /\ mem'[i].by = "nobody" /\ mem'[i].fix = "none"
    /\ Tracked(i)' /\ i \in Range(ev'[e].queue)

Ingested(e) ==
    /\ issued' \in issued..mode.ids
    /\ keyOf' \in [Ids -> Key] /\ \A i \in 1..issued : keyOf'[i] = keyOf[i]
    /\ open' \in [Key -> 0..issued'] /\ mem' \in [Ids -> Object]
    /\ \A k \in Key : open'[k] # 0 => keyOf'[open'[k]] = k
    /\ \A i \in 1..issued : Finishes(e, i) \/ Spares(i)
    /\ \A i \in (issued + 1)..issued' : Files(e, i)
    /\ \A i \in (issued' + 1)..mode.ids : mem'[i] = mem[i]
    /\ \A f \in Evaluators \ {e} : ev'[f] = ev[f]
    /\ ev' \in [Evaluators -> TickState]
    /\ ev'[e].queue \in Seq(1..issued')
    /\ \A i \in Range(ev'[e].queue) : i > issued \/ Tracked(i)
    /\ IF ev'[e].queue = <<>> THEN ev'[e].pc = "next"
       ELSE ev'[e].pc = "saving" /\ ev'[e].writing = RowOf(mem'[Head(ev'[e].queue)])

LEMMA NoTwoKeys ==
    ASSUME TypeOK, Placed, NEW k \in Key, NEW l \in Key, open[k] # 0, open[k] = open[l]
    PROVE  k = l
BY DEF Placed

LEMMA OpenAreIds ==
    ASSUME TypeOK, NEW k \in Key
    PROVE  /\ open[k] \in 0..issued /\ issued \in Nat /\ mode.ids \in Nat /\ issued <= mode.ids
           /\ open[k] # 0 => open[k] \in 1..issued /\ open[k] \in Ids
BY ModesAre DEF TypeOK, Ids

LEMMA FinishedIs ==
    ASSUME NEW o \in Object, NEW by \in Attributions
    PROVE  /\ Finished(o, by) \in Object /\ Finished(o, by).status = "resolved"
           /\ Finished(o, by).by = by /\ Finished(o, by).fix = o.fix
BY DEF Finished, Object, Statuses

LEMMA AttributionIs ==
    \A o : AttributionOf(o) \in {"blackbox", "blackbox-proposed", "external"} \cap Attributions
BY DEF AttributionOf, Attributions

LEMMA IngestIs ==
    ASSUME TypeOK, Placed, mode' = mode, NEW e \in Evaluators,
           NEW fired \in SUBSET ev[e].window, IngestFired(e, fired)
    PROVE  Ingested(e)
<1> DEFINE at == ev[e].at
           superseded == {k \in fired : open[k] # 0 /\ Stale(k, at)}
           created == {k \in fired : open[k] = 0} \union superseded
           updated == fired \ created
           resolved == {k \in Key \ fired : open[k] # 0 /\ Ended(k, e)}
           order == SetToSeq(created)
           newIds == {issued + n : n \in 1..Len(order)}
           objects == [i \in Ids |->
               IF i \in newIds THEN [Blank EXCEPT !.status = "open", !.seenAt = at]
               ELSE IF i \in OpenIds(updated) THEN [mem[i] EXCEPT !.seenAt = at]
               ELSE IF i \in OpenIds(superseded) THEN Finished(mem[i], "unknown")
               ELSE IF i \in OpenIds(resolved) THEN Finished(mem[i], AttributionOf(mem[i]))
               ELSE mem[i]]
           queue == SaveQueue(SetToSeq(newIds), SetToSeq(OpenIds(updated)),
                              SetToSeq(OpenIds(superseded)), SetToSeq(OpenIds(resolved)))
           place(k) == CHOOSE n \in DOMAIN order : order[n] = k
           len == Len(order)
<1>1. /\ issued + len <= mode.ids /\ issued' = issued + len
      /\ keyOf' = [i \in Ids |-> IF i \in newIds THEN order[i - issued] ELSE keyOf[i]]
      /\ mem' = objects
      /\ open' = [k \in Key |-> IF k \in created THEN issued + place(k)
                                ELSE IF k \in resolved THEN 0 ELSE open[k]]
      /\ ev' = [ev EXCEPT ![e].pc = IF queue = <<>> THEN "next" ELSE "saving",
                          ![e].window = {}, ![e].queue = queue,
                          ![e].writing = IF queue = <<>> THEN NoRow
                                         ELSE RowOf(objects[Head(queue)])]
  BY DEF IngestFired
<1>2. /\ fired \subseteq Key /\ superseded \subseteq created /\ created \subseteq fired
      /\ updated \subseteq fired /\ resolved \subseteq Key \ fired
      /\ updated = fired \ created
      /\ \A k \in superseded \union updated \union resolved : open[k] # 0
      /\ \A k \in created \ superseded : open[k] = 0
      /\ at \in Nat
  BY DEF TypeOK, TickState
<1>3. IsFiniteSet(created)
  BY <1>2, ModesAre, FS_Subset DEF TypeOK
<1> HIDE DEF created, at, superseded, updated, resolved
<1>4. /\ DOMAIN order = 1..len /\ len \in Nat /\ Range(order) = created
      /\ \A m, n \in 1..len : order[m] = order[n] => m = n
      /\ \A n \in 1..len : order[n] \in created
  <2>1. /\ DOMAIN order = 1..len /\ len \in Nat /\ Range(order) = created /\ IsInjective(order)
    BY <1>3, SetInSeq
  <2> HIDE DEF order
  <2> QED
    BY <2>1 DEF IsInjective, Range
<1> HIDE DEF order, len
<1>5. \A k \in created : place(k) \in 1..len /\ order[place(k)] = k
  BY <1>4 DEF Range
<1> HIDE DEF place
<1>6. /\ issued \in Nat /\ mode.ids \in Nat /\ Ids = 1..mode.ids
      /\ newIds = (issued + 1)..issued' /\ newIds \subseteq Ids /\ issued' \in issued..mode.ids
  <2>1. issued \in Nat /\ mode.ids \in Nat /\ Ids = 1..mode.ids
    BY ModesAre DEF TypeOK, Ids
  <2>2. newIds = {issued + n : n \in 1..len}
    BY DEF len
  <2>0. issued' = issued + len /\ issued + len <= mode.ids /\ len \in Nat
    BY <1>1, <1>4
  <2>3. \A i \in (issued + 1)..issued' : i - issued \in 1..len /\ issued + (i - issued) = i
    BY <2>0, <2>1
  <2>4. \A n \in 1..len : issued + n \in (issued + 1)..issued'
    BY <2>0, <2>1
  <2> HIDE DEF newIds
  <2>5. newIds = (issued + 1)..issued'
    BY <2>2, <2>3, <2>4
  <2> QED
    BY <2>0, <2>1, <2>5
<1> HIDE DEF newIds
<1> DEFINE U == OpenIds(updated)
           S == OpenIds(superseded)
           R == OpenIds(resolved)
<1>7. /\ U \subseteq 1..issued /\ S \subseteq 1..issued /\ R \subseteq 1..issued
      /\ U \cap S = {} /\ U \cap R = {} /\ S \cap R = {}
      /\ \A k \in Key : open[k] # 0 => /\ open[k] \in U <=> k \in updated
                                       /\ open[k] \in S <=> k \in superseded
                                       /\ open[k] \in R <=> k \in resolved
      /\ \A i \in U \union S \union R : i \in OpenIds(Key)
  <2>1. ASSUME NEW X \in SUBSET Key, \A k \in X : open[k] # 0
        PROVE  OpenIds(X) \subseteq 1..issued
    <3>1. \A k \in Key : open[k] # 0 => open[k] \in 1..issued
      BY OpenAreIds
    <3> QED
      BY <2>1, <3>1 DEF OpenIds
  <2>2. \A k, l \in Key : open[k] # 0 /\ open[k] = open[l] => k = l
    BY NoTwoKeys
  <2>3. updated \subseteq Key /\ superseded \subseteq Key /\ resolved \subseteq Key
        /\ updated \cap superseded = {} /\ updated \cap resolved = {}
        /\ superseded \cap resolved = {}
    BY <1>2
  <2> QED
    BY <1>2, <2>1, <2>2, <2>3 DEF OpenIds
<1>8. queue \in Seq(1..issued') /\ Range(queue) = newIds \union U \union S \union R
  <2>1. IsFiniteSet(1..issued')
    BY <1>6, FS_Interval
  <2>2. /\ newIds \subseteq 1..issued' /\ U \subseteq 1..issued'
        /\ S \subseteq 1..issued' /\ R \subseteq 1..issued'
    BY <1>6, <1>7
  <2>3. ASSUME NEW X \in SUBSET (1..issued')
        PROVE  SetToSeq(X) \in Seq(1..issued') /\ Range(SetToSeq(X)) = X
    <3>1. IsFiniteSet(X)
      BY <2>1, FS_Subset
    <3> QED
      BY <3>1, SetInSeq, SeqMonotonic
  <2> DEFINE a == SetToSeq(newIds)
             b == SetToSeq(U)
             c == SetToSeq(S)
             d == SetToSeq(R)
  <2>4. /\ a \in Seq(1..issued') /\ b \in Seq(1..issued') /\ c \in Seq(1..issued')
        /\ d \in Seq(1..issued')
        /\ Range(a) = newIds /\ Range(b) = U /\ Range(c) = S /\ Range(d) = R
    BY <2>2, <2>3
  <2>5. queue = ((a \o b) \o c) \o d
    BY DEF SaveQueue
  <2> HIDE DEF a, b, c, d, queue, U, S, R
  <2> DEFINE T == 1..issued'
  <2>0. \A s, u \in Seq(T) : s \o u \in Seq(T) /\ Range(s \o u) = Range(s) \union Range(u)
    BY RangeOfConcat
  <2>6. a \o b \in Seq(1..issued') /\ Range(a \o b) = newIds \union U
    BY <2>0, <2>4
  <2>7. (a \o b) \o c \in Seq(1..issued') /\ Range((a \o b) \o c) = newIds \union U \union S
    BY <2>0, <2>4, <2>6
  <2> QED
    BY <2>0, <2>4, <2>5, <2>7
<1>9. Head(queue) \in Range(queue) \/ queue = <<>>
  <2> HIDE DEF queue
  <2> QED
    BY <1>8, RangeOfTail
<1> HIDE DEF queue
<1>10. /\ \A i \in newIds : mem'[i] = [Blank EXCEPT !.status = "open", !.seenAt = at]
       /\ \A i \in U : mem'[i] = [mem[i] EXCEPT !.seenAt = at]
       /\ \A i \in S : mem'[i] = Finished(mem[i], "unknown")
       /\ \A i \in R : mem'[i] = Finished(mem[i], AttributionOf(mem[i]))
       /\ \A i \in Ids : i \notin newIds \union U \union S \union R => mem'[i] = mem[i]
       /\ mem' = [i \in Ids |-> mem'[i]]
  <2>1. 1..issued \subseteq Ids /\ \A i \in newIds : i \notin 1..issued
    BY <1>6
  <2> HIDE DEF U, S, R
  <2>2. objects = [i \in Ids |->
               IF i \in newIds THEN [Blank EXCEPT !.status = "open", !.seenAt = at]
               ELSE IF i \in U THEN [mem[i] EXCEPT !.seenAt = at]
               ELSE IF i \in S THEN Finished(mem[i], "unknown")
               ELSE IF i \in R THEN Finished(mem[i], AttributionOf(mem[i]))
               ELSE mem[i]]
    BY DEF U, S, R
  <2>3. mem' = objects
    BY <1>1
  <2> HIDE DEF objects
  <2> QED
    BY <1>6, <1>7, <2>1, <2>2, <2>3
<1> HIDE DEF U, S, R
<1>11. /\ \A i \in Ids : mem'[i] \in Object
       /\ \A i \in Ids : mem[i] \in Object
       /\ \A i \in newIds : /\ mem'[i].status = "open" /\ mem'[i].by = "nobody"
                            /\ mem'[i].fix = "none"
       /\ \A i \in U : /\ mem'[i].status = mem[i].status /\ mem'[i].by = mem[i].by
                       /\ mem'[i].fix = mem[i].fix
       /\ \A i \in S \union R :
             /\ mem'[i].status = "resolved" /\ mem'[i].fix = mem[i].fix
             /\ mem'[i].by \in {"unknown", AttributionOf(mem[i])}
  <2>1. \A i \in Ids : mem[i] \in Object
    BY DEF TypeOK
  <2>2. newIds \subseteq Ids /\ U \subseteq Ids /\ S \subseteq Ids /\ R \subseteq Ids
    BY <1>6, <1>7
  <2>3. ASSUME NEW i \in newIds
        PROVE  /\ mem'[i] \in Object /\ mem'[i].status = "open" /\ mem'[i].by = "nobody"
               /\ mem'[i].fix = "none"
    <3>1. mem'[i] = [Blank EXCEPT !.status = "open", !.seenAt = at]
      BY <1>10
    <3> QED
      BY <1>2, <3>1, Empties DEF Object, Statuses
  <2>4. ASSUME NEW i \in U
        PROVE  /\ mem'[i] \in Object /\ mem'[i].status = mem[i].status /\ mem'[i].by = mem[i].by
               /\ mem'[i].fix = mem[i].fix
    <3>1. mem'[i] = [mem[i] EXCEPT !.seenAt = at] /\ mem[i] \in Object
      BY <1>10, <2>1, <2>2
    <3> QED
      BY <1>2, <3>1 DEF Object
  <2>5. ASSUME NEW i \in S \union R
        PROVE  /\ mem'[i] \in Object /\ mem'[i].status = "resolved" /\ mem'[i].fix = mem[i].fix
               /\ mem'[i].by \in {"unknown", AttributionOf(mem[i])}
    <3>1. mem[i] \in Object
      BY <2>1, <2>2
    <3>2. "unknown" \in Attributions /\ AttributionOf(mem[i]) \in Attributions
      BY AttributionIs DEF Attributions
    <3>3. mem'[i] = Finished(mem[i], "unknown") \/ mem'[i] = Finished(mem[i], AttributionOf(mem[i]))
      BY <1>10
    <3> QED
      BY <3>1, <3>2, <3>3, FinishedIs
  <2>6. ASSUME NEW i \in Ids PROVE mem'[i] \in Object
    BY <1>10, <2>1, <2>3, <2>4, <2>5
  <2> QED
    BY <2>1, <2>3, <2>4, <2>5, <2>6
<1>12. /\ open' \in [Key -> 0..issued']
       /\ \A k \in created : open'[k] \in newIds /\ open'[k] = issued + place(k)
       /\ \A k \in resolved : open'[k] = 0
       /\ \A k \in Key : k \notin created \union resolved => open'[k] = open[k]
  <2>0. open' = [k \in Key |-> IF k \in created THEN issued + place(k)
                               ELSE IF k \in resolved THEN 0 ELSE open[k]]
        /\ issued' = issued + len
    BY <1>1
  <2>1. created \subseteq Key /\ resolved \subseteq Key /\ created \cap resolved = {}
    BY <1>2
  <2>2. ASSUME NEW k \in created PROVE issued + place(k) \in newIds
    <3>1. place(k) \in 1..len
      BY <1>5
    <3> QED
      BY <1>4, <1>6, <2>0, <3>1
  <2>3. \A k \in Key : open[k] \in 0..issued
    BY OpenAreIds
  <2>4. newIds \subseteq 0..issued' /\ 0..issued \subseteq 0..issued' /\ 0 \in 0..issued'
    BY <1>6
  <2> QED
    BY <2>0, <2>1, <2>2, <2>3, <2>4
<1>13. /\ keyOf' \in [Ids -> Key] /\ \A i \in 1..issued : keyOf'[i] = keyOf[i]
       /\ \A k \in created : keyOf'[open'[k]] = k
       /\ \A i \in newIds : keyOf'[i] \in created /\ open'[keyOf'[i]] = i
  <2>0. keyOf' = [i \in Ids |-> IF i \in newIds THEN order[i - issued] ELSE keyOf[i]]
        /\ issued' = issued + len
    BY <1>1
  <2>1. \A i \in newIds : i - issued \in 1..len /\ issued + (i - issued) = i
    BY <1>4, <1>6, <2>0
  <2>2. \A i \in 1..issued : i \notin newIds /\ i \in Ids
    BY <1>6
  <2>3. created \subseteq Key /\ keyOf \in [Ids -> Key]
    BY <1>2 DEF TypeOK
  <2>4. ASSUME NEW k \in created PROVE keyOf'[open'[k]] = k
    <3>1. open'[k] - issued = place(k)
      BY <1>4, <1>5, <1>6, <1>12
    <3> QED
      BY <1>5, <1>6, <1>12, <2>0, <3>1
  <2>5. ASSUME NEW i \in newIds PROVE keyOf'[i] \in created /\ open'[keyOf'[i]] = i
    <3>1. keyOf'[i] = order[i - issued] /\ i - issued \in 1..len
      BY <1>6, <2>0, <2>1
    <3>2. keyOf'[i] \in created
      BY <1>4, <3>1
    <3>3. place(keyOf'[i]) = i - issued
      BY <1>4, <1>5, <3>1, <3>2
    <3> QED
      BY <1>12, <2>1, <3>2, <3>3
  <2> QED
    BY <1>4, <1>6, <2>0, <2>1, <2>2, <2>3, <2>4, <2>5
<1>14. /\ \A f \in Evaluators \ {e} : ev'[f] = ev[f]
       /\ ev' \in [Evaluators -> TickState]
       /\ ev'[e].queue = queue
       /\ IF queue = <<>> THEN ev'[e].pc = "next"
          ELSE ev'[e].pc = "saving" /\ ev'[e].writing = RowOf(mem'[Head(queue)])
  <2> DEFINE pc == IF queue = <<>> THEN "next" ELSE "saving"
             writing == IF queue = <<>> THEN NoRow ELSE RowOf(objects[Head(queue)])
             l == [ev[e] EXCEPT !.pc = pc, !.window = {}, !.queue = queue, !.writing = writing]
  <2>1. ev' = [ev EXCEPT ![e].pc = pc, ![e].window = {}, ![e].queue = queue,
                         ![e].writing = writing]
        /\ mem' = objects
    BY <1>1
  <2>2. IF queue = <<>> THEN pc = "next"
        ELSE pc = "saving" /\ writing = RowOf(mem'[Head(queue)])
    BY <2>1
  <2>3. pc \in {"next", "saving"}
    OBVIOUS
  <2>4. queue # <<>> => Head(queue) \in Ids
    <3>1. Range(queue) \subseteq Ids
      BY <1>6, <1>7, <1>8
    <3> QED
      BY <1>9, <3>1
  <2> HIDE DEF objects
  <2>5. writing \in Row
    BY <1>11, <2>1, <2>4, Empties, RowOfObject
  <2>6. queue \in Seq(Ids)
    <3>1. 1..issued' \subseteq Ids
      BY <1>6
    <3> QED
      BY <1>8, <3>1, SeqMonotonic
  <2> HIDE DEF pc, writing
  <2>7. ev' = [ev EXCEPT ![e] = l]
    BY <2>1
  <2>8. /\ l \in TickState /\ l.queue = queue /\ l.pc = pc /\ l.writing = writing
    BY <2>3, <2>5, <2>6 DEF TypeOK, TickState
  <2> HIDE DEF l
  <2>9. ev'[e] = l /\ ev' \in [Evaluators -> TickState]
        /\ \A f \in Evaluators \ {e} : ev'[f] = ev[f]
    BY <2>7, <2>8 DEF TypeOK
  <2> QED
    BY <2>2, <2>8, <2>9
<1> HIDE DEF objects
<1>15. \A i \in Ids : Tracked(i)' <=> \E k \in Key : open'[k] = i
  BY DEF Tracked, OpenIds, Key, KeysOf
<1>16. \A i \in Ids : Tracked(i) <=> \E k \in Key : open[k] = i
  BY DEF Tracked, OpenIds
<1>17. ASSUME NEW i \in 1..issued
       PROVE  Finishes(e, i) \/ Spares(i)
  <2>1. i \in Ids /\ i \notin newIds /\ i # 0
    BY <1>6
  <2>2. CASE i \in S \union R
    <3>1. Tracked(i) /\ i \in Range(ev'[e].queue)
      BY <1>7, <1>8, <1>14, <2>2 DEF Tracked
    <3>2. ASSUME NEW k \in Key, open'[k] = i
          PROVE  FALSE
      <4>1. k \notin created /\ k \notin resolved
        BY <1>12, <2>1, <3>2
      <4>2. open[k] = i
        BY <1>12, <3>2, <4>1
      <4> QED
        BY <1>2, <1>7, <2>1, <2>2, <4>1, <4>2
    <3> QED
      BY <1>11, <1>15, <2>1, <2>2, <3>1, <3>2 DEF Finishes
  <2>3. CASE i \notin S \union R
    <3>1. mem'[i].status = mem[i].status /\ mem'[i].by = mem[i].by /\ mem'[i].fix = mem[i].fix
      BY <1>10, <1>11, <2>1, <2>3
    <3>2. ASSUME NEW k \in Key, open[k] = i
          PROVE  open'[k] = i
      <4>1. k \notin created /\ k \notin resolved
        BY <1>2, <1>7, <2>1, <2>3, <3>2
      <4> QED
        BY <1>12, <3>2, <4>1
    <3>3. ASSUME NEW k \in Key, open'[k] = i
          PROVE  open[k] = i
      <4>1. k \notin created /\ k \notin resolved
        BY <1>12, <2>1, <3>3
      <4> QED
        BY <1>12, <3>3, <4>1
    <3> QED
      BY <1>15, <1>16, <2>1, <3>1, <3>2, <3>3 DEF Spares
  <2> QED
    BY <2>2, <2>3
<1>18. ASSUME NEW i \in (issued + 1)..issued'
       PROVE  Files(e, i)
  <2>1. i \in newIds /\ i \in Ids /\ i \in Range(queue)
    BY <1>6, <1>8
  <2>2. keyOf'[i] \in Key /\ open'[keyOf'[i]] = i
    BY <1>2, <1>13, <2>1
  <2> QED
    BY <1>11, <1>14, <1>15, <2>1, <2>2 DEF Files
<1>19. ASSUME NEW k \in Key, open'[k] # 0
       PROVE  keyOf'[open'[k]] = k
  <2>1. CASE k \in created
    BY <1>13, <2>1
  <2>2. CASE k \notin created
    <3>1. open'[k] = open[k] /\ open[k] # 0
      BY <1>12, <1>19, <2>2
    <3>2. open[k] \in 1..issued /\ keyOf[open[k]] = k
      BY <3>1, OpenAreIds DEF Placed
    <3> QED
      BY <1>13, <3>1, <3>2
  <2> QED
    BY <2>1, <2>2
<1>20. \A i \in (issued' + 1)..mode.ids : mem'[i] = mem[i]
  <2>1. \A i \in (issued' + 1)..mode.ids : i \in Ids /\ i \notin newIds /\ i \notin 1..issued
    BY <1>6
  <2> QED
    BY <1>7, <1>10, <2>1
<1>21. \A i \in Range(ev'[e].queue) : i > issued \/ Tracked(i)
  <2>1. \A i \in newIds : i > issued
    BY <1>6
  <2> QED
    BY <1>7, <1>8, <1>14, <2>1 DEF Tracked
<1>22. mem' \in [Ids -> Object]
  BY <1>10, <1>11
<1> QED
  BY <1>6, <1>8, <1>12, <1>13, <1>14, <1>17, <1>18, <1>19, <1>20, <1>21, <1>22 DEF Ingested

-----------------------------------------------------------------------------
(* The other steps of the recorder *)

\* One evaluator moves, with nothing to save.
Quiet(e) ==
    /\ \A f \in Evaluators \ {e} : ev'[f] = ev[f]
    /\ ev' \in [Evaluators -> TickState]
    /\ ev'[e].queue = <<>> /\ ev'[e].pc \notin {"saving", "alerting"}

LEMMA EvChanges ==
    ASSUME TypeOK, NEW e \in Evaluators, NEW l \in TickState, ev' = [ev EXCEPT ![e] = l]
    PROVE  /\ ev' \in [Evaluators -> TickState] /\ ev'[e] = l
           /\ \A f \in Evaluators \ {e} : ev'[f] = ev[f]
BY DEF TypeOK

LEMMA QuietSteps ==
    ASSUME TypeOK, Placed, mode' = mode, NEW e \in Evaluators,
           \/ Poll(e) \/ ReadWindow(e) \/ SaveFails(e) \/ EndTick(e)
           \/ \E t \in Targets : Evaluate(e, t)
    PROVE  /\ Quiet(e) /\ UNCHANGED <<now, changes, holds, tracker, rows>> /\ due' \subseteq due
<1> USE Empties
<1>0. /\ ev[e] \in TickState /\ mode \in Modes /\ EvInv(e) /\ due \subseteq Targets
      /\ holds \subseteq Key /\ now \in Nat
  BY DEF TypeOK, Placed
<1>1. ASSUME Poll(e) PROVE Quiet(e)
  <2> DEFINE l == [ev[e] EXCEPT !.pc = "next", !.touched = due]
  <2>1. ev' = [ev EXCEPT ![e] = l] /\ ev[e].pc = "idle"
    BY <1>1 DEF Poll
  <2>2. l \in TickState /\ l.pc = "next" /\ l.queue = ev[e].queue
    BY <1>0 DEF TickState
  <2> HIDE DEF l
  <2> QED
    BY <1>0, <2>1, <2>2, EvChanges DEF Quiet, EvInv
<1>2. ASSUME ReadWindow(e) PROVE Quiet(e)
  <2>1. PICK ok \in (IF mode.faults THEN BOOLEAN ELSE {TRUE}) :
            ev' = [ev EXCEPT ![e].pc = "read", ![e].corroborated = ok,
                             ![e].window = {k \in holds : /\ k[1] = ev[e].target
                                                          /\ ok \/ Kind[k[2]] # "transaction"}]
    BY <1>2 DEF ReadWindow
  <2>0. ok \in BOOLEAN
    BY Zenon
  <2> DEFINE window == {k \in holds : /\ k[1] = ev[e].target
                                      /\ ok \/ Kind[k[2]] # "transaction"}
  <2>2. window \subseteq Key
    BY <1>0
  <2> HIDE DEF window
  <2> DEFINE l == [ev[e] EXCEPT !.pc = "read", !.corroborated = ok, !.window = window]
  <2>3. ev' = [ev EXCEPT ![e] = l] /\ ev[e].pc = "reading"
    BY <1>2, <2>1 DEF ReadWindow, window
  <2>4. l \in TickState /\ l.pc = "read" /\ l.queue = ev[e].queue
    BY <1>0, <2>0, <2>2 DEF TickState
  <2> HIDE DEF l
  <2> QED
    BY <1>0, <2>3, <2>4, EvChanges DEF Quiet, EvInv
<1>3. ASSUME SaveFails(e) PROVE Quiet(e)
  <2> DEFINE l == [ev[e] EXCEPT !.pc = "next", !.queue = <<>>, !.writing = NoRow]
  <2>1. ev' = [ev EXCEPT ![e] = l]
    BY <1>3 DEF SaveFails
  <2>2. l \in TickState /\ l.pc = "next" /\ l.queue = <<>>
    BY <1>0, EmptySeq DEF TickState
  <2> HIDE DEF l
  <2> QED
    BY <1>0, <2>1, <2>2, EvChanges DEF Quiet
<1>4. ASSUME EndTick(e) PROVE Quiet(e)
  BY <1>0, <1>4, EvChanges DEF EndTick, Quiet
<1>5. ASSUME NEW t \in Targets, Evaluate(e, t) PROVE Quiet(e)
  <2> DEFINE l == [ev[e] EXCEPT !.pc = "reading", !.touched = ev[e].touched \ {t},
                                !.target = t, !.at = now]
  <2>1. ev' = [ev EXCEPT ![e] = l] /\ ev[e].pc = "next"
    BY <1>5 DEF Evaluate
  <2>2. l \in TickState /\ l.pc = "reading" /\ l.queue = ev[e].queue
    BY <1>0 DEF TickState
  <2> HIDE DEF l
  <2> QED
    BY <1>0, <2>1, <2>2, EvChanges DEF Quiet, EvInv
<1>6. UNCHANGED <<now, changes, holds, tracker, rows>> /\ due' \subseteq due
  BY DEF Poll, ReadWindow, SaveFails, EndTick, Evaluate, world
<1> QED
  BY <1>1, <1>2, <1>3, <1>4, <1>5, <1>6

\* saveIncident: the row takes what is written, but for a remediation it would erase.
Upserted(i, r) ==
    /\ rows' \in [Ids -> Row] /\ \A j \in Ids \ {i} : rows'[j] = rows[j]
    /\ rows'[i].status = r.status /\ rows'[i].by = r.by
    /\ rows'[i].fix = r.fix \/ rows'[i].fix = rows[i].fix

LEMMA UpsertIs ==
    ASSUME TypeOK, NEW i \in Ids, NEW r \in Row, rows' = Upsert(i, r)
    PROVE  Upserted(i, r)
<1> DEFINE fix == IF r.fix = "none" THEN rows[i].fix ELSE r.fix
           row == [r EXCEPT !.fix = fix]
<1>1. rows' = [rows EXCEPT ![i] = row]
  BY DEF Upsert
<1>2. fix \in Fixes /\ (fix = r.fix \/ fix = rows[i].fix)
  BY DEF TypeOK, Row
<1> HIDE DEF fix
<1>3. row \in Row /\ row.status = r.status /\ row.by = r.by /\ row.fix = fix
  BY <1>2 DEF Row
<1> HIDE DEF row
<1>4. rows'[i] = row /\ rows' \in [Ids -> Row] /\ \A j \in Ids \ {i} : rows'[j] = rows[j]
  BY <1>1, <1>3 DEF TypeOK
<1> QED
  BY <1>2, <1>3, <1>4 DEF Upserted

LEMMA CommitIs ==
    ASSUME TypeOK, Placed, mode' = mode, NEW e \in Evaluators, CommitSave(e)
    PROVE  /\ Head(ev[e].queue) \in 1..issued /\ Head(ev[e].queue) \in Ids
           /\ ev[e].pc = "saving" /\ Upserted(Head(ev[e].queue), ev[e].writing)
           /\ \A f \in Evaluators \ {e} : ev'[f] = ev[f]
           /\ ev' \in [Evaluators -> TickState]
           /\ ev'[e].pc = "alerting" /\ ev'[e].queue \in Seq(1..issued)
           /\ Range(ev[e].queue) = {Head(ev[e].queue)} \union Range(ev'[e].queue)
           /\ UNCHANGED <<now, world, tracker>>
<1>1. /\ ev[e].pc = "saving" /\ ev[e].queue # <<>> /\ ev[e].queue \in Seq(1..issued)
      /\ ev[e] \in TickState /\ 1..issued \subseteq Ids
  BY ModesAre DEF CommitSave, Placed, EvInv, TypeOK, Ids
<1>2. /\ Head(ev[e].queue) \in 1..issued /\ Tail(ev[e].queue) \in Seq(1..issued)
      /\ Range(ev[e].queue) = {Head(ev[e].queue)} \union Range(Tail(ev[e].queue))
  BY <1>1, RangeOfTail
<1>3. Tail(ev[e].queue) \in Seq(Ids)
  BY <1>1, <1>2, SeqMonotonic
<1> DEFINE l == [ev[e] EXCEPT !.pc = "alerting", !.queue = Tail(ev[e].queue), !.writing = NoRow]
<1>4. ev' = [ev EXCEPT ![e] = l]
  BY DEF CommitSave
<1>5. l \in TickState /\ l.pc = "alerting" /\ l.queue = Tail(ev[e].queue)
  BY <1>1, <1>3, Empties DEF TickState
<1> HIDE DEF l
<1>6. ev' \in [Evaluators -> TickState] /\ ev'[e] = l /\ \A f \in Evaluators \ {e} : ev'[f] = ev[f]
  BY <1>4, <1>5, EvChanges
<1>7. Upserted(Head(ev[e].queue), ev[e].writing)
  <2>1. ev[e].writing \in Row /\ Head(ev[e].queue) \in Ids
    BY <1>1, <1>2 DEF TickState
  <2> QED
    BY <2>1, UpsertIs DEF CommitSave
<1> QED
  BY <1>1, <1>2, <1>5, <1>6, <1>7 DEF CommitSave

LEMMA NextSaveIs ==
    ASSUME TypeOK, Placed, mode' = mode, NEW e \in Evaluators, NextSave(e)
    PROVE  /\ \A f \in Evaluators \ {e} : ev'[f] = ev[f]
           /\ ev' \in [Evaluators -> TickState]
           /\ ev'[e].queue = ev[e].queue
           /\ IF ev[e].queue = <<>> THEN ev'[e].pc = "next"
              ELSE /\ ev'[e].pc = "saving"
                   /\ Head(ev[e].queue) \in Range(ev[e].queue) /\ Head(ev[e].queue) \in 1..issued
                   /\ ev'[e].writing = RowOf(mem[Head(ev[e].queue)])
           /\ UNCHANGED <<now, world, tracker, rows>>
<1>1. /\ ev[e].queue \in Seq(1..issued) /\ ev[e] \in TickState /\ 1..issued \subseteq Ids
  BY ModesAre DEF Placed, EvInv, TypeOK, Ids
<1>2. CASE ev[e].queue = <<>>
  <2> DEFINE l == [ev[e] EXCEPT !.pc = "next"]
  <2>1. ev' = [ev EXCEPT ![e] = l]
    BY <1>2 DEF NextSave
  <2>2. l \in TickState /\ l.pc = "next" /\ l.queue = ev[e].queue
    BY <1>1 DEF TickState
  <2> HIDE DEF l
  <2> QED
    BY <1>2, <2>1, <2>2, EvChanges DEF NextSave
<1>3. CASE ev[e].queue # <<>>
  <2> DEFINE h == Head(ev[e].queue)
             l == [ev[e] EXCEPT !.pc = "saving", !.writing = RowOf(mem[h])]
  <2>1. ev' = [ev EXCEPT ![e] = l]
    BY <1>3 DEF NextSave
  <2>2. h \in 1..issued /\ h \in Range(ev[e].queue)
    BY <1>1, <1>3, RangeOfTail
  <2>3. RowOf(mem[h]) \in Row
    BY <1>1, <2>2, RowOfObject DEF TypeOK
  <2>4. l \in TickState /\ l.pc = "saving" /\ l.queue = ev[e].queue /\ l.writing = RowOf(mem[h])
    <3> HIDE DEF h
    <3> QED
      BY <1>1, <2>3 DEF TickState
  <2> HIDE DEF l
  <2> QED
    BY <1>3, <2>1, <2>2, <2>4, EvChanges DEF NextSave
<1> QED
  BY <1>2, <1>3

LEMMA RestoredIs ==
    ASSUME TypeOK, NEW k \in Key
    PROVE  /\ Restored(k) \in 0..issued
           /\ Restored(k) # 0 <=> LiveOf(k) # {}
           /\ Restored(k) # 0 => /\ Restored(k) \in LiveOf(k)
                                 /\ Restored(k) \in 1..issued /\ keyOf[Restored(k)] = k
                                 /\ Live(rows[Restored(k)])
<1>1. issued \in Nat /\ LiveOf(k) \subseteq 1..issued
  BY ModesAre DEF TypeOK, LiveOf
<1> DEFINE opened == {i \in LiveOf(k) : rows[i].status = "open"}
           from == IF opened = {} THEN LiveOf(k) ELSE opened
<1>2. LiveOf(k) # {} => from # {} /\ from \subseteq LiveOf(k) /\ from \subseteq 1..issued
  BY <1>1
<1>3. Restored(k) = IF LiveOf(k) = {} THEN 0 ELSE Max(from)
  BY DEF Restored
<1> HIDE DEF from
<1>4. LiveOf(k) # {} => Max(from) \in from
  BY <1>1, <1>2, MaxIsIn
<1>5. \A i \in LiveOf(k) : i \in 1..issued /\ i # 0 /\ keyOf[i] = k /\ Live(rows[i])
  BY <1>1 DEF LiveOf
<1> QED
  BY <1>1, <1>2, <1>3, <1>4, <1>5

\* What is live is tracked again as the row says it, and all else is forgotten.
Restarted ==
    /\ open' \in [Key -> 0..issued] /\ \A k \in Key : open'[k] = Restored(k)
    /\ mem' \in [Ids -> Object]
    /\ \A i \in Ids : IF Tracked(i)'
                      THEN /\ mem'[i].status = rows[i].status /\ mem'[i].by = rows[i].by
                           /\ mem'[i].fix = rows[i].fix
                      ELSE mem'[i] = Blank
    /\ ev' = [e \in Evaluators |-> Tick0]
    /\ UNCHANGED <<now, world, issued, keyOf, rows>>

LEMMA RestartIs ==
    ASSUME TypeOK, mode' = mode, Restart
    PROVE  Restarted
<1>1. open' = [k \in Key |-> Restored(k)] /\ ev' = [e \in Evaluators |-> Tick0]
      /\ UNCHANGED <<now, world, issued, keyOf, rows>>
  BY DEF Restart
<1>2. mem' = [i \in Ids |->
                 IF i \in OpenIds(Key)' THEN [Blank EXCEPT !.status = rows[i].status,
                     !.by = rows[i].by, !.fix = rows[i].fix, !.seenAt = now]
                 ELSE Blank]
  BY DEF Restart
<1>3. ASSUME NEW i \in Ids
      PROVE  /\ mem'[i] \in Object
             /\ IF Tracked(i)' THEN /\ mem'[i].status = rows[i].status /\ mem'[i].by = rows[i].by
                                    /\ mem'[i].fix = rows[i].fix
                ELSE mem'[i] = Blank
  <2>1. rows[i] \in Row /\ now \in Nat
    BY DEF TypeOK
  <2>2. CASE i \in OpenIds(Key)'
    <3>1. mem'[i] = [Blank EXCEPT !.status = rows[i].status, !.by = rows[i].by,
                                  !.fix = rows[i].fix, !.seenAt = now]
      BY <1>2, <2>2
    <3> QED
      BY <2>1, <2>2, <3>1, Empties DEF Object, Row, Tracked
  <2>3. CASE i \notin OpenIds(Key)'
    BY <1>2, <2>3, Empties DEF Tracked
  <2> QED
    BY <2>2, <2>3
<1>4. mem' \in [Ids -> Object]
  BY <1>2, <1>3
<1>5. open' \in [Key -> 0..issued] /\ \A k \in Key : open'[k] = Restored(k)
  BY <1>1, RestoredIs
<1> QED
  BY <1>1, <1>3, <1>4, <1>5 DEF Restarted

-----------------------------------------------------------------------------
(* The steps of a request *)

Work == [id : Ids, row : Row]

LEMMA MoreFixers ==
    ASSUME NEW F, NEW G, F \subseteq G, NEW r, Deserved(F, r)
    PROVE  Deserved(G, r)
BY DEF Deserved

\* What a request was entitled to say it may still say when more is done and handed out.
LEMMA StillOk ==
    ASSUME NEW m \in Nat, NEW n \in Nat, m <= n, NEW r, RequestOk(r, m, fixedBy),
           \A i \in 1..m : fixedBy[i] \subseteq fixedBy'[i]
    PROVE  RequestOk(r, n, fixedBy')
<1>1. \A i \in 1..m : i \in 1..n
  OBVIOUS
<1>2. ASSUME NEW q, WorkOk(q, m, fixedBy)
      PROVE  WorkOk(q, n, fixedBy')
  BY <1>1, <1>2, MoreFixers DEF WorkOk
<1> QED
  BY <1>1, <1>2 DEF RequestOk, WorkOk

LEMMA ContinueIs ==
    ASSUME NEW r \in RequestState, \A q \in Range(r.queue) : WorkOk(q, issued, fixedBy)
    PROVE  /\ Continue(r) \in RequestState /\ RequestOk(Continue(r), issued, fixedBy)
           /\ Continue(r).pc \in {"idle", "loaded"}
<1>1. CASE r.queue = <<>>
  BY <1>1, Empties DEF Continue, RequestOk
<1>2. CASE r.queue # <<>>
  <2>1. r.queue \in Seq(Work)
    BY DEF RequestState, Work
  <2> DEFINE h == Head(r.queue)
             rest == Tail(r.queue)
             l == [r EXCEPT !.pc = "loaded", !.id = h.id, !.row = h.row, !.queue = rest]
  <2>2. h \in Work /\ rest \in Seq(Work) /\ Range(r.queue) = {h} \union Range(rest)
    BY <1>2, <2>1, RangeOfTail
  <2>3. Continue(r) = l
    BY <1>2 DEF Continue
  <2> HIDE DEF h, rest
  <2>4. /\ l \in RequestState /\ l.pc = "loaded" /\ l.id = h.id /\ l.row = h.row /\ l.queue = rest
    BY <2>2 DEF RequestState, Work
  <2> HIDE DEF l
  <2>5. WorkOk(l, issued, fixedBy) /\ \A q \in Range(l.queue) : WorkOk(q, issued, fixedBy)
    BY <2>2, <2>4 DEF WorkOk
  <2> QED
    BY <2>3, <2>4, <2>5 DEF RequestOk
<1> QED
  BY <1>1, <1>2

\* One request moves, to a state it is entitled to.
Moves(w) ==
    /\ \A v \in Requests \ {w} : req'[v] = req[v]
    /\ req' \in [Requests -> RequestState]
    /\ RequestOk(req'[w], issued, fixedBy')

LEMMA RequestMoves ==
    ASSUME WTypeOK, NEW w \in Requests, NEW l \in RequestState, RequestOk(l, issued, fixedBy'),
           req' = [req EXCEPT ![w] = l], mode' = mode
    PROVE  Moves(w) /\ req'[w] = l
<1>1. RequestState' = RequestState
  BY DEF RequestState, Ids, Row
<1> QED
  BY <1>1 DEF WTypeOK, Moves

LEMMA LoadMoves ==
    ASSUME WInv, mode' = mode, NEW w \in Requests, NEW op \in Ops, NEW i \in Ids, Load(w, op, i)
    PROVE  Moves(w)
<1> DEFINE l == [NoRequest EXCEPT !.pc = "loaded", !.op = op, !.id = i, !.row = rows[i]]
<1>1. req' = [req EXCEPT ![w] = l] /\ fixedBy' = fixedBy /\ rows[i].status # "none"
  BY DEF Load
<1>2. rows[i] \in Row /\ Deserved(fixedBy[i], rows[i]) /\ i \in 1..issued
  BY <1>1, ModesAre DEF WInv, WTypeOK, TypeOK, Credited, Earned, Placed, Ids
<1>3. /\ l \in RequestState /\ l.pc = "loaded" /\ l.id = i /\ l.row = rows[i] /\ l.queue = <<>>
  BY <1>2, Empties DEF RequestState
<1> HIDE DEF l
<1>4. RequestOk(l, issued, fixedBy')
  BY <1>1, <1>2, <1>3, RangeOfEmpty DEF RequestOk, WorkOk
<1> QED
  BY <1>1, <1>3, <1>4, RequestMoves DEF WInv

LEMMA LoopTickMoves ==
    ASSUME WInv, mode' = mode, NEW w \in Requests, LoopTick(w)
    PROVE  Moves(w)
<1> DEFINE S == {i \in Ids : rows[i].status = "open"}
<1>1. PICK queue \in SetToSeqs(S) :
          req' = [req EXCEPT ![w] = Continue([NoRequest EXCEPT !.op = "pass",
                    !.queue = [n \in DOMAIN queue |-> [id |-> queue[n], row |-> rows[queue[n]]]]])]
  BY DEF LoopTick
<1>2. fixedBy' = fixedBy
  BY DEF LoopTick
<1>3. IsFiniteSet(S) /\ Cardinality(S) \in Nat
  <2>1. mode.ids \in Int /\ 1 \in Int
    BY ModesAre DEF WInv, WTypeOK, TypeOK
  <2>2. IsFiniteSet(Ids)
    BY <2>1, FS_Interval DEF Ids
  <2> QED
    BY <2>2, FS_Subset, FS_CardinalityType
<1>4. ASSUME NEW i \in S
      PROVE  i \in Ids /\ rows[i] \in Row /\ i \in 1..issued /\ Deserved(fixedBy[i], rows[i])
  <2>1. i \in Ids /\ rows[i].status = "open" /\ Ids = 1..mode.ids
    BY DEF Ids
  <2>2. rows[i] \in Row /\ Deserved(fixedBy[i], rows[i]) /\ ~(i > issued)
    BY <2>1 DEF WInv, WTypeOK, TypeOK, Credited, Earned, Placed
  <2>3. issued \in Nat /\ mode.ids \in Nat
    BY ModesAre DEF WInv, WTypeOK, TypeOK
  <2> HIDE DEF S
  <2> QED
    BY <2>1, <2>2, <2>3
<1>5. queue \in [1..Cardinality(S) -> S]
  BY DEF SetToSeqs
<1> DEFINE work == [n \in DOMAIN queue |-> [id |-> queue[n], row |-> rows[queue[n]]]]
<1> HIDE DEF S
<1>6. \A n \in DOMAIN queue : work[n] \in Work /\ WorkOk(work[n], issued, fixedBy)
  BY <1>4, <1>5 DEF Work, WorkOk
<1>7. work \in Seq(Work)
  <2>1. DOMAIN work = 1..Cardinality(S)
    BY <1>5
  <2>2. work \in [1..Cardinality(S) -> Work]
    BY <1>5, <1>6
  <2> HIDE DEF work
  <2> QED
    BY <1>3, <2>2
<1>8. \A q \in Range(work) : WorkOk(q, issued, fixedBy)
  BY <1>6 DEF Range
<1> DEFINE r == [NoRequest EXCEPT !.op = "pass", !.queue = work]
<1>9. req' = [req EXCEPT ![w] = Continue(r)]
  BY <1>1
<1> HIDE DEF work
<1>10. r \in RequestState /\ r.queue = work
  BY <1>7, Empties DEF RequestState, Ops, Work
<1> HIDE DEF r
<1>11. Continue(r) \in RequestState /\ RequestOk(Continue(r), issued, fixedBy')
  BY <1>2, <1>8, <1>10, ContinueIs
<1> QED
  BY <1>9, <1>11, RequestMoves DEF WInv

LEMMA AwaitedMoves ==
    ASSUME WInv, mode' = mode, NEW w \in Requests, Awaited(w)
    PROVE  Moves(w)
<1> DEFINE status == IF req[w].op = "acknowledge" THEN "acknowledged" ELSE req[w].row.status
           row == [req[w].row EXCEPT !.status = status]
           l == [req[w] EXCEPT !.pc = "saving", !.row = row]
<1>1. req' = [req EXCEPT ![w] = l] /\ fixedBy' = fixedBy /\ req[w].pc = "loaded"
  BY DEF Awaited
<1>2. req[w] \in RequestState /\ RequestOk(req[w], issued, fixedBy)
  BY DEF WInv, WTypeOK, Credited
<1>3. status \in Statuses
  BY <1>2 DEF RequestState, Row, Statuses
<1> HIDE DEF status
<1>4. row \in Row /\ row.by = req[w].row.by /\ row.fix = req[w].row.fix
  BY <1>2, <1>3 DEF RequestState, Row
<1> HIDE DEF row
<1>5. /\ l \in RequestState /\ l.pc = "saving" /\ l.id = req[w].id /\ l.row = row
      /\ l.queue = req[w].queue
  BY <1>2, <1>4 DEF RequestState
<1> HIDE DEF l
<1>6. RequestOk(l, issued, fixedBy')
  BY <1>1, <1>2, <1>4, <1>5 DEF RequestOk, WorkOk, Deserved
<1> QED
  BY <1>1, <1>5, <1>6, RequestMoves DEF WInv

LEMMA LandMoves ==
    ASSUME WInv, mode' = mode, NEW w \in Requests, Land(w)
    PROVE  /\ Moves(w) /\ fixedBy' \in [Ids -> SUBSET {"ours", "user-signed"}]
           /\ \A i \in Ids : fixedBy[i] \subseteq fixedBy'[i]
           /\ holds' \subseteq Key /\ due' \subseteq Targets
<1> DEFINE who == IF req[w].op = "sign" THEN "user-signed" ELSE "ours"
           l == [req[w] EXCEPT !.pc = "landed"]
           i == req[w].id
<1>1. /\ req' = [req EXCEPT ![w] = l] /\ req[w].pc = "loaded"
      /\ fixedBy' = [fixedBy EXCEPT ![i] = fixedBy[i] \union {who}] /\ Effect(i)
  BY DEF Land
<1>2. /\ req[w] \in RequestState /\ RequestOk(req[w], issued, fixedBy)
      /\ fixedBy \in [Ids -> SUBSET {"ours", "user-signed"}]
      /\ issued \in Nat /\ 1..issued \subseteq Ids
  BY ModesAre DEF WInv, WTypeOK, TypeOK, Credited, Ids
<1>3. i \in 1..issued /\ who \in {"ours", "user-signed"}
  BY <1>1, <1>2 DEF RequestOk, WorkOk
<1>4. /\ l \in RequestState /\ l.pc = "landed" /\ l.id = i /\ l.row = req[w].row
      /\ l.queue = req[w].queue /\ l.op = req[w].op
  BY <1>2 DEF RequestState
<1> HIDE DEF l
<1>5. holds' \subseteq Key /\ due' \subseteq Targets
  <2>1. holds \subseteq Key /\ due \subseteq Targets /\ keyOf[i] \in Key
    BY <1>2, <1>3 DEF WInv, WTypeOK, TypeOK
  <2>2. keyOf[i][1] \in Targets
    BY <2>1, ModesAre DEF WInv, WTypeOK, TypeOK
  <2> QED
    BY <1>1, <2>1, <2>2 DEF Effect
<1> HIDE DEF who, i
<1>6. /\ fixedBy' \in [Ids -> SUBSET {"ours", "user-signed"}]
      /\ \A j \in Ids : fixedBy[j] \subseteq fixedBy'[j]
      /\ who \in fixedBy'[i]
  BY <1>1, <1>2, <1>3
<1>7. RequestOk(req[w], issued, fixedBy')
  <2>1. \A j \in 1..issued : fixedBy[j] \subseteq fixedBy'[j]
    BY <1>2, <1>6
  <2> QED
    BY <1>2, <2>1, StillOk
<1>8. RequestOk(l, issued, fixedBy')
  BY <1>1, <1>4, <1>6, <1>7 DEF RequestOk, WorkOk, who, i
<1> QED
  BY <1>1, <1>4, <1>5, <1>6, <1>8, RequestMoves DEF WInv

LEMMA OutcomeMoves ==
    ASSUME WInv, mode' = mode, NEW w \in Requests, Outcome(w)
    PROVE  Moves(w)
<1>0. /\ req[w] \in RequestState /\ RequestOk(req[w], issued, fixedBy) /\ fixedBy' = fixedBy
      /\ req[w].row \in Row
  BY DEF WInv, WTypeOK, Credited, Outcome, RequestState
<1> DEFINE credited == [req[w].row EXCEPT !.fix = "ours"]
           signed == [status |-> "resolved", by |-> "blackbox-proposed", fix |-> "user-signed"]
           failed == [req[w].row EXCEPT !.fix = "unsuccessful"]
           mine == Remediates(req[w].op)
<1>1. PICK row : /\ req' = [req EXCEPT ![w] = [req[w] EXCEPT !.pc = "saving", !.row = row]]
                 /\ \/ req[w].pc = "landed" /\ row = IF mine THEN credited ELSE signed
                    \/ req[w].pc \in {"loaded", "landed"} /\ row = failed
                 /\ mine \/ req[w].op = "sign"
  <2>1. mine \/ req[w].op = "sign"
    BY DEF Outcome
  <2>2. CASE req[w].pc = "landed" /\ req' = [req EXCEPT ![w] = [req[w] EXCEPT !.pc = "saving",
                                                  !.row = IF mine THEN credited ELSE signed]]
    BY <2>1, <2>2
  <2>3. CASE req[w].pc \in {"loaded", "landed"}
             /\ req' = [req EXCEPT ![w] = [req[w] EXCEPT !.pc = "saving", !.row = failed]]
    BY <2>1, <2>3
  <2> QED
    BY <1>0, <2>2, <2>3 DEF Outcome, RequestState
<1>2. /\ credited \in Row /\ credited.by = req[w].row.by /\ credited.fix = "ours"
      /\ signed \in Row /\ signed.by = "blackbox-proposed" /\ signed.fix = "user-signed"
      /\ failed \in Row /\ failed.by = req[w].row.by /\ failed.fix = "unsuccessful"
  BY <1>0 DEF Row, Statuses, Attributions, Fixes
<1>3. mine => req[w].op # "sign"
  BY DEF Remediates
<1> HIDE DEF credited, signed, failed, mine
<1>4. row \in Row /\ Deserved(fixedBy[req[w].id], row) /\ req[w].pc # "idle"
  BY <1>0, <1>1, <1>2, <1>3 DEF RequestOk, WorkOk, Deserved
<1> DEFINE l == [req[w] EXCEPT !.pc = "saving", !.row = row]
<1>5. /\ l \in RequestState /\ l.pc = "saving" /\ l.id = req[w].id /\ l.row = row
      /\ l.queue = req[w].queue
  BY <1>0, <1>4 DEF RequestState
<1>6. req' = [req EXCEPT ![w] = l]
  BY <1>1
<1> HIDE DEF l
<1>7. RequestOk(l, issued, fixedBy')
  BY <1>0, <1>4, <1>5 DEF RequestOk, WorkOk
<1> QED
  BY <1>5, <1>6, <1>7, RequestMoves DEF WInv

LEMMA ContinueMoves ==
    ASSUME WInv, mode' = mode, NEW w \in Requests, req[w].pc # "idle", fixedBy' = fixedBy,
           req' = [req EXCEPT ![w] = Continue(req[w])]
    PROVE  Moves(w)
<1>1. req[w] \in RequestState /\ \A q \in Range(req[w].queue) : WorkOk(q, issued, fixedBy)
  BY DEF WInv, WTypeOK, Credited, RequestOk
<1>2. Continue(req[w]) \in RequestState /\ RequestOk(Continue(req[w]), issued, fixedBy')
  BY <1>1, ContinueIs
<1> QED
  BY <1>2, RequestMoves DEF WInv

LEMMA SaveMoves ==
    ASSUME WInv, mode' = mode, NEW w \in Requests, Save(w)
    PROVE  /\ Moves(w) /\ Upserted(req[w].id, req[w].row)
           /\ req[w].id \in 1..issued /\ req[w].id \in Ids /\ Earned(req[w].id, req[w].row)
<1>1. /\ req[w] \in RequestState /\ RequestOk(req[w], issued, fixedBy) /\ fixedBy' = fixedBy
      /\ req[w].pc = "saving" /\ 1..issued \subseteq Ids
  BY ModesAre DEF WInv, WTypeOK, TypeOK, Credited, Save, Ids
<1>2. req[w].id \in 1..issued /\ req[w].row \in Row /\ Earned(req[w].id, req[w].row)
  BY <1>1 DEF RequestOk, WorkOk, Earned, RequestState
<1>3. Upserted(req[w].id, req[w].row)
  BY <1>1, <1>2, UpsertIs DEF WInv, WTypeOK, Save
<1> DEFINE l == [req[w] EXCEPT !.pc = "attaching"]
<1>4. req' = [req EXCEPT ![w] = l] \/ req' = [req EXCEPT ![w] = NoRequest]
  BY DEF Save
<1>5. /\ l \in RequestState /\ l.pc = "attaching" /\ l.id = req[w].id /\ l.row = req[w].row
      /\ l.queue = req[w].queue
  BY <1>1 DEF RequestState
<1> HIDE DEF l
<1>6. RequestOk(l, issued, fixedBy') /\ RequestOk(NoRequest, issued, fixedBy')
  BY <1>1, <1>5, Empties DEF RequestOk, WorkOk
<1>7. Moves(w)
  BY <1>4, <1>5, <1>6, Empties, RequestMoves DEF WInv
<1> QED
  BY <1>1, <1>2, <1>3, <1>7

LEMMA AttachIs ==
    ASSUME WInv, NEW w \in Requests, Attach(w)
    PROVE  /\ mem' \in [Ids -> Object]
           /\ \A i \in Ids : /\ mem'[i].status = mem[i].status /\ mem'[i].by = mem[i].by
                             /\ \/ mem'[i].fix = mem[i].fix
                                \/ i = req[w].id /\ mem'[i].fix = req[w].row.fix
           /\ req[w].id \in Ids /\ Earned(req[w].id, req[w].row)
<1>1. /\ req[w] \in RequestState /\ RequestOk(req[w], issued, fixedBy)
      /\ req[w].pc = "attaching" /\ 1..issued \subseteq Ids /\ mem \in [Ids -> Object]
  BY ModesAre DEF WInv, WTypeOK, TypeOK, Credited, Attach, Ids
<1>2. req[w].id \in Ids /\ Earned(req[w].id, req[w].row) /\ req[w].row.fix \in Fixes
  BY <1>1 DEF RequestOk, WorkOk, Earned, RequestState, Row
<1> DEFINE o == [mem[req[w].id] EXCEPT !.fix = req[w].row.fix]
<1>3. mem' = mem \/ mem' = [mem EXCEPT ![req[w].id] = o]
  BY DEF Attach
<1>4. /\ o \in Object /\ o.status = mem[req[w].id].status /\ o.by = mem[req[w].id].by
      /\ o.fix = req[w].row.fix
  BY <1>1, <1>2 DEF Object
<1> HIDE DEF o
<1> QED
  BY <1>1, <1>2, <1>3, <1>4

-----------------------------------------------------------------------------
(* Every step keeps the invariant *)

LEMMA SameMode ==
    ASSUME mode' = mode
    PROVE  /\ Ids' = Ids /\ Key' = Key /\ Targets' = Targets
           /\ TickState' = TickState /\ RequestState' = RequestState
<1>1. Ids' = Ids /\ Key' = Key /\ Targets' = Targets
  BY DEF Ids, Key, KeysOf, Targets
<1> QED
  BY <1>1 DEF TickState, RequestState

LEMMA SameTracked ==
    ASSUME mode' = mode, open' = open
    PROVE  \A i : Tracked(i)' <=> Tracked(i)
BY SameMode DEF Tracked, OpenIds

\* When the tracker and the rows stay and one evaluator or none moves.
LEMMA EvKeeps ==
    ASSUME WInv, mode' = mode, UNCHANGED <<tracker, rows, requests>>, NEW e \in Evaluators,
           now' \in Nat, changes' \in Nat, holds' \subseteq Key, due' \subseteq Targets,
           \A f \in Evaluators \ {e} : ev'[f] = ev[f],
           ev' \in [Evaluators -> TickState], EvInv(e)',
           ev'[e].pc = "saving" => Earned(Head(ev'[e].queue), ev'[e].writing)
    PROVE  WInv'
<1> USE SameMode
<1>1. WTypeOK'
  BY DEF WInv, WTypeOK, TypeOK, tracker, requests
<1>2. Placed'
  <2>1. ASSUME NEW f \in Evaluators PROVE EvInv(f)'
    BY DEF WInv, Placed, EvInv, tracker
  <2> QED
    BY <2>1, SameTracked DEF WInv, Placed, Live, tracker
<1>3. Credited'
  BY DEF WInv, Credited, Earned, tracker, requests
<1> QED
  BY <1>1, <1>2, <1>3 DEF WInv

LEMMA QuietKeeps ==
    ASSUME WInv, mode' = mode, UNCHANGED requests, NEW e \in Evaluators,
           \/ Poll(e) \/ ReadWindow(e) \/ SaveFails(e) \/ EndTick(e)
           \/ \E t \in Targets : Evaluate(e, t)
    PROVE  WInv'
<1>1. Quiet(e) /\ UNCHANGED <<now, changes, holds, tracker, rows>> /\ due' \subseteq due
  BY QuietSteps DEF WInv, WTypeOK
<1>2. EvInv(e)'
  BY <1>1, EmptySeq DEF Quiet, EvInv
<1>3. now' \in Nat /\ changes' \in Nat /\ holds' \subseteq Key /\ due' \subseteq Targets
  BY <1>1 DEF WInv, WTypeOK, TypeOK
<1> QED
  BY <1>1, <1>2, <1>3, EvKeeps DEF Quiet

LEMMA NextSaveKeeps ==
    ASSUME WInv, mode' = mode, UNCHANGED requests, NEW e \in Evaluators, NextSave(e)
    PROVE  WInv'
<1>0. TypeOK /\ Placed
  BY DEF WInv, WTypeOK
<1>1. /\ UNCHANGED <<now, world, tracker, rows>>
      /\ \A f \in Evaluators \ {e} : ev'[f] = ev[f]
      /\ ev' \in [Evaluators -> TickState] /\ ev'[e].queue = ev[e].queue
      /\ IF ev[e].queue = <<>> THEN ev'[e].pc = "next"
         ELSE /\ ev'[e].pc = "saving" /\ Head(ev[e].queue) \in 1..issued
              /\ ev'[e].writing = RowOf(mem[Head(ev[e].queue)])
  BY <1>0, NextSaveIs
<1>2. EvInv(e)'
  BY <1>0, <1>1 DEF Placed, EvInv, tracker
<1>3. ev'[e].pc = "saving" => Earned(Head(ev'[e].queue), ev'[e].writing)
  <2> SUFFICES ASSUME ev'[e].pc = "saving" PROVE Earned(Head(ev[e].queue), ev'[e].writing)
    BY <1>1
  <2> DEFINE h == Head(ev[e].queue)
  <2>1. h \in Ids /\ ev'[e].writing = RowOf(mem[h])
    BY <1>0, <1>1, ModesAre DEF TypeOK, Ids
  <2>2. mem[h] \in Object /\ Earned(h, mem[h])
    BY <1>0, <2>1 DEF TypeOK, WInv, Credited
  <2> HIDE DEF h
  <2>3. Earned(h, ev'[e].writing)
    BY <2>1, <2>2, RowOfObject DEF Earned, Deserved
  <2> QED
    BY <2>3 DEF h
<1>4. now' \in Nat /\ changes' \in Nat /\ holds' \subseteq Key /\ due' \subseteq Targets
  BY <1>0, <1>1 DEF TypeOK, world
<1> QED
  BY <1>1, <1>2, <1>3, <1>4, EvKeeps

LEMMA Thirds ==
    ASSUME NEW a \in Nat, NEW b \in Nat, NEW c \in Nat, a <= b, b <= c
    PROVE  \A i \in 1..c : i \in 1..a \/ i \in (a + 1)..b \/ i \in (b + 1)..c
OBVIOUS

LEMMA IngestFrame ==
    ASSUME NEW e, NEW fired, IngestFired(e, fired)
    PROVE  UNCHANGED <<now, world, rows>>
BY Zenon DEF IngestFired

LEMMA IngestKeeps ==
    ASSUME WInv, mode' = mode, UNCHANGED requests, NEW e \in Evaluators, Ingest(e)
    PROVE  WInv'
<1> USE SameMode
<1>0. TypeOK /\ Placed
  BY DEF WInv, WTypeOK
<1>1. PICK fired \in SUBSET ev[e].window : IngestFired(e, fired)
  BY DEF Ingest
<1>2. Ingested(e)
  BY <1>0, <1>1, IngestIs
<1>3. UNCHANGED <<now, world, rows>>
  BY <1>1, IngestFrame
<1>4. /\ issued \in Nat /\ mode.ids \in Nat /\ issued' \in Nat /\ issued <= issued'
      /\ issued' <= mode.ids /\ Ids = 1..mode.ids /\ issued' \in 0..mode.ids
  BY <1>0, <1>2, ModesAre DEF TypeOK, Ingested, Ids
<1>5. \A i \in Ids : \/ i \in 1..issued
                     \/ i \in (issued + 1)..issued' \/ i \in (issued' + 1)..mode.ids
  BY <1>4, Thirds
<1>6. WTypeOK'
  BY <1>2, <1>3, <1>4 DEF WInv, WTypeOK, TypeOK, Ingested, world, requests
<1>7. ASSUME NEW i \in (issued' + 1)..mode.ids
      PROVE  ~Tracked(i) /\ ~Tracked(i)' /\ mem'[i] = mem[i]
  <2>1. \A k \in Key : open'[k] # i /\ open[k] # i
    BY <1>0, <1>2, <1>4, OpenAreIds DEF Ingested
  <2> QED
    BY <1>2, <2>1 DEF Tracked, OpenIds, Ingested
<1>8. Placed'
  <2>1. ASSUME NEW i \in Ids PROVE Live(mem[i])' <=> Tracked(i)'
    <3>1. Live(mem[i]) <=> Tracked(i)
      BY <1>0 DEF Placed
    <3>2. CASE i \in 1..issued
      BY <1>2, <3>1, <3>2 DEF Ingested, Finishes, Spares, Live
    <3>3. CASE i \in (issued + 1)..issued'
      BY <1>2, <3>3 DEF Ingested, Files, Live
    <3>4. CASE i \in (issued' + 1)..mode.ids
      BY <1>7, <3>1, <3>4 DEF Live
    <3> QED
      BY <1>5, <3>2, <3>3, <3>4
  <2>2. \A i \in Ids : i > issued' => rows'[i].status = "none"
    BY <1>0, <1>3, <1>4 DEF Placed
  <2>3. ASSUME NEW f \in Evaluators PROVE EvInv(f)'
    <3>1. CASE f = e
      BY <1>2, <3>1 DEF Ingested, EvInv
    <3>2. CASE f # e
      <4>1. EvInv(f) /\ ev'[f] = ev[f]
        BY <1>0, <1>2, <3>2 DEF Placed, Ingested
      <4>2. 1..issued \subseteq 1..issued'
        BY <1>4
      <4>3. ev[f].queue \in Seq(1..issued')
        BY <4>1, <4>2, SeqMonotonic DEF EvInv
      <4> QED
        BY <4>1, <4>3 DEF EvInv
    <3> QED
      BY <3>1, <3>2
  <2> QED
    BY <1>2, <2>1, <2>2, <2>3 DEF Placed, Ingested
<1>9. ASSUME NEW i \in Ids PROVE Earned(i, mem[i])'
  <2>0. Earned(i, mem[i]) /\ fixedBy' = fixedBy
    BY DEF WInv, Credited, requests
  <2>1. CASE i \in 1..issued /\ Spares(i)
    BY <2>0, <2>1 DEF Spares, Earned, Deserved
  <2>2. CASE i \in 1..issued /\ Finishes(e, i)
    <3>1. mem'[i].fix = mem[i].fix /\ mem'[i].by \in {"unknown", AttributionOf(mem[i])}
      BY <2>2 DEF Finishes
    <3> QED
      BY <2>0, <3>1 DEF Earned, Deserved, AttributionOf
  <2>3. CASE i \in (issued + 1)..issued'
    BY <1>2, <2>3 DEF Ingested, Files, Earned, Deserved
  <2>4. CASE i \in (issued' + 1)..mode.ids
    BY <1>7, <2>0, <2>4 DEF Earned
  <2> QED
    BY <1>2, <1>5, <2>1, <2>2, <2>3, <2>4 DEF Ingested
<1>10. ASSUME NEW f \in Evaluators, ev'[f].pc = "saving"
       PROVE  Earned(Head(ev[f].queue), ev[f].writing)'
  <2>1. CASE f # e
    BY <1>2, <1>10, <2>1 DEF WInv, Credited, Ingested, Earned, requests
  <2>2. CASE f = e
    <3> DEFINE h == Head(ev'[e].queue)
    <3>1. ev'[e].queue # <<>> /\ ev'[e].writing = RowOf(mem'[h])
      BY <1>2, <1>10, <2>2 DEF Ingested
    <3>2. h \in Ids
      <4>1. h \in 1..issued'
        BY <1>2, <3>1, RangeOfTail DEF Ingested
      <4> QED
        BY <1>4, <4>1
    <3>3. mem'[h] \in Object
      BY <1>2, <3>2 DEF Ingested
    <3>4. Deserved(fixedBy'[h], mem'[h])
      BY <1>9, <3>2 DEF Earned
    <3> HIDE DEF h
    <3>5. Deserved(fixedBy'[h], ev'[e].writing)
      BY <3>1, <3>3, <3>4, RowOfObject DEF Deserved
    <3> QED
      BY <2>2, <3>5 DEF Earned, h
  <2> QED
    BY <2>1, <2>2
<1>11. ASSUME NEW w \in Requests PROVE RequestOk(req[w], issued, fixedBy)'
  BY <1>4, StillOk DEF WInv, Credited, requests
<1>12. \A i \in Ids : Earned(i, rows[i])'
  BY <1>3 DEF WInv, Credited, Earned, requests
<1> QED
  BY <1>6, <1>8, <1>9, <1>10, <1>11, <1>12 DEF WInv, Credited

\* A row written takes nothing that was not deserved.
LEMMA UpsertDeserved ==
    ASSUME NEW i \in Ids, NEW r, Upserted(i, r), Earned(i, r), fixedBy' = fixedBy,
           \A j \in Ids : Earned(j, rows[j])
    PROVE  \A j \in Ids : Earned(j, rows[j])'
<1>1. Earned(i, rows[i])'
  BY DEF Upserted, Earned, Deserved
<1>2. ASSUME NEW j \in Ids \ {i} PROVE Earned(j, rows[j])'
  BY <1>2 DEF Upserted, Earned
<1> QED
  BY <1>1, <1>2

LEMMA CommitKeeps ==
    ASSUME WInv, mode' = mode, UNCHANGED requests, NEW e \in Evaluators, CommitSave(e)
    PROVE  WInv'
<1> USE SameMode
<1> DEFINE h == Head(ev[e].queue)
<1>0. TypeOK /\ Placed /\ issued \in Nat
  BY ModesAre DEF WInv, WTypeOK, TypeOK
<1>1. /\ h \in 1..issued /\ h \in Ids /\ ev[e].pc = "saving" /\ Upserted(h, ev[e].writing)
      /\ \A f \in Evaluators \ {e} : ev'[f] = ev[f]
      /\ ev' \in [Evaluators -> TickState]
      /\ ev'[e].pc = "alerting" /\ ev'[e].queue \in Seq(1..issued)
      /\ UNCHANGED <<now, world, tracker>>
  BY <1>0, CommitIs
<1>2. Earned(h, ev[e].writing)
  BY <1>1 DEF WInv, Credited
<1> HIDE DEF h
<1>3. WTypeOK'
  BY <1>1 DEF WInv, WTypeOK, TypeOK, Upserted, tracker, world, requests
<1>4. Placed'
  <2>1. ASSUME NEW f \in Evaluators PROVE EvInv(f)'
    BY <1>0, <1>1 DEF Placed, EvInv, tracker
  <2>2. ASSUME NEW i \in Ids, i > issued PROVE rows'[i].status = "none"
    <3>1. i # h
      BY <1>0, <1>1, <2>2
    <3> QED
      BY <1>0, <1>1, <2>2, <3>1 DEF Upserted, Placed
  <2> QED
    BY <1>0, <1>1, <2>1, <2>2, SameTracked DEF Placed, Live, tracker
<1>5. \A j \in Ids : Earned(j, rows[j])'
  BY <1>1, <1>2, UpsertDeserved DEF WInv, Credited, requests
<1>6. Credited'
  BY <1>1, <1>5 DEF WInv, Credited, Earned, tracker, requests
<1> QED
  BY <1>3, <1>4, <1>6 DEF WInv

LEMMA RestartKeeps ==
    ASSUME WInv, mode' = mode, Restart, req' = [w \in Requests |-> NoRequest],
           UNCHANGED <<requested, explained, fixedBy>>
    PROVE  WInv'
<1> USE SameMode
<1>0. TypeOK /\ Placed /\ Restarted
  BY RestartIs DEF WInv, WTypeOK
<1>1. UNCHANGED <<now, world, issued, keyOf, rows>> /\ ev' = [e \in Evaluators |-> Tick0]
  BY <1>0 DEF Restarted
<1>2. WTypeOK'
  BY <1>0, <1>1, Empties DEF WInv, WTypeOK, TypeOK, Restarted, world
<1>3. \A i \in Ids : Tracked(i)' => Live(rows[i])
  <2>1. \A k \in Key : open'[k] # 0 => Live(rows[open'[k]])
    BY <1>0, RestoredIs DEF Restarted
  <2>2. 0 \notin Ids
    BY ModesAre, <1>0 DEF TypeOK, Ids
  <2> QED
    BY <2>1, <2>2 DEF Tracked, OpenIds
<1>4. Placed'
  <2>1. ASSUME NEW i \in Ids PROVE Live(mem[i])' <=> Tracked(i)'
    BY <1>0, <1>3, Empties DEF Restarted, Live
  <2>2. \A k \in Key : open'[k] # 0 => keyOf'[open'[k]] = k
    BY <1>0, <1>1, RestoredIs DEF Restarted
  <2>3. \A e \in Evaluators : EvInv(e)'
    BY <1>0, <1>1, Empties, EmptySeq DEF EvInv, TypeOK
  <2> QED
    BY <1>0, <1>1, <2>1, <2>2, <2>3 DEF Placed
<1>5. ASSUME NEW i \in Ids PROVE Earned(i, rows[i])' /\ Earned(i, mem[i])'
  <2>1. Earned(i, rows[i])
    BY DEF WInv, Credited
  <2>2. \/ mem'[i] = Blank
        \/ mem'[i].by = rows[i].by /\ mem'[i].fix = rows[i].fix
    BY <1>0 DEF Restarted
  <2> QED
    BY <1>1, <2>1, <2>2, Empties DEF Earned, Deserved
<1>6. Credited'
  BY <1>0, <1>1, <1>5, Empties DEF Credited, RequestOk, TypeOK
<1> QED
  BY <1>2, <1>4, <1>6 DEF WInv

\* When the world moves, or nothing does.
LEMMA WorldKeeps ==
    ASSUME WInv, mode' = mode, UNCHANGED <<tracker, rows, ev, requests>>,
           now' \in Nat, changes' \in Nat, holds' \subseteq Key, due' \subseteq Targets
    PROVE  WInv'
<1> USE SameMode
<1>1. WTypeOK'
  BY DEF WInv, WTypeOK, TypeOK, tracker, requests
<1>2. Placed'
  <2>1. ASSUME NEW f \in Evaluators PROVE EvInv(f)'
    BY DEF WInv, Placed, EvInv, tracker
  <2> QED
    BY <2>1, SameTracked DEF WInv, Placed, Live, tracker
<1>3. Credited'
  BY DEF WInv, Credited, Earned, tracker, requests
<1> QED
  BY <1>1, <1>2, <1>3 DEF WInv

\* When one request moves, and writes no more into a row or an object than was done.
LEMMA RequestKeeps ==
    ASSUME WInv, mode' = mode, UNCHANGED <<now, changes, issued, keyOf, open, ev>>,
           NEW w \in Requests, Moves(w), requested' \in Nat, explained' \subseteq Ids,
           holds' \subseteq Key, due' \subseteq Targets,
           fixedBy' \in [Ids -> SUBSET {"ours", "user-signed"}],
           \A i \in Ids : fixedBy[i] \subseteq fixedBy'[i],
           mem' \in [Ids -> Object], \A i \in Ids : mem'[i].status = mem[i].status,
           rows' \in [Ids -> Row], \A i \in Ids : i > issued => rows'[i].status = "none",
           \A i \in Ids : Earned(i, rows[i])' /\ Earned(i, mem[i])'
    PROVE  WInv'
<1> USE SameMode
<1>0. issued \in Nat /\ 1..issued \subseteq Ids
  BY ModesAre DEF WInv, WTypeOK, TypeOK, Ids
<1>1. WTypeOK'
  BY DEF WInv, WTypeOK, TypeOK, Moves
<1>2. Placed'
  <2>1. ASSUME NEW f \in Evaluators PROVE EvInv(f)'
    BY DEF WInv, Placed, EvInv
  <2> QED
    BY <2>1, SameTracked DEF WInv, Placed, Live
<1>3. Credited'
  <2>1. ASSUME NEW e \in Evaluators, ev[e].pc = "saving"
        PROVE  Earned(Head(ev[e].queue), ev[e].writing)'
    <3> DEFINE h == Head(ev[e].queue)
    <3>1. h \in 1..issued
      BY <2>1, RangeOfTail DEF WInv, Placed, EvInv
    <3>2. Deserved(fixedBy[h], ev[e].writing)
      BY <2>1 DEF WInv, Credited, Earned
    <3> HIDE DEF h
    <3>3. Deserved(fixedBy'[h], ev[e].writing)
      BY <1>0, <3>1, <3>2, MoreFixers
    <3> QED
      BY <3>3 DEF Earned, h
  <2>2. ASSUME NEW v \in Requests PROVE RequestOk(req[v], issued, fixedBy)'
    <3>1. CASE v = w
      BY <3>1 DEF Moves
    <3>2. CASE v # w
      <4>1. req'[v] = req[v] /\ RequestOk(req[v], issued, fixedBy)
        BY <3>2 DEF Moves, WInv, Credited
      <4>2. \A i \in 1..issued : fixedBy[i] \subseteq fixedBy'[i]
        BY <1>0
      <4>3. RequestOk(req[v], issued, fixedBy')
        BY <1>0, <4>1, <4>2, StillOk
      <4> QED
        BY <4>1, <4>3
    <3> QED
      BY <3>1, <3>2
  <2> QED
    BY <2>1, <2>2 DEF Credited
<1> QED
  BY <1>1, <1>2, <1>3 DEF WInv

\* The steps that write neither a row nor an object.
LEMMA LocalKeeps ==
    ASSUME WInv, mode' = mode, UNCHANGED vars, NEW w \in Requests, Moves(w),
           requested' \in Nat, explained' \subseteq Ids, fixedBy' = fixedBy
    PROVE  WInv'
<1>1. /\ holds' \subseteq Key /\ due' \subseteq Targets /\ mem' \in [Ids -> Object]
      /\ rows' \in [Ids -> Row] /\ fixedBy' \in [Ids -> SUBSET {"ours", "user-signed"}]
      /\ UNCHANGED <<now, changes, issued, keyOf, open, ev>>
  BY DEF WInv, WTypeOK, TypeOK, vars, world, tracker
<1>2. \A i \in Ids : Earned(i, rows[i])' /\ Earned(i, mem[i])'
  BY DEF WInv, Credited, Earned, vars, tracker
<1>3. \A i \in Ids : /\ mem'[i].status = mem[i].status
                     /\ i > issued => rows'[i].status = "none"
  BY DEF WInv, Placed, vars, tracker
<1>4. \A i \in Ids : fixedBy[i] \subseteq fixedBy'[i]
  OBVIOUS
<1> QED
  BY <1>1, <1>2, <1>3, <1>4, RequestKeeps

LEMMA LandKeeps ==
    ASSUME WInv, mode' = mode, NEW w \in Requests, Land(w)
    PROVE  WInv'
<1>1. /\ Moves(w) /\ fixedBy' \in [Ids -> SUBSET {"ours", "user-signed"}]
      /\ \A i \in Ids : fixedBy[i] \subseteq fixedBy'[i]
      /\ holds' \subseteq Key /\ due' \subseteq Targets
  BY LandMoves
<1>2. UNCHANGED <<now, changes, issued, keyOf, mem, open, rows, ev, requested, explained>>
  BY DEF Land, tracker
<1>3. ASSUME NEW i \in Ids PROVE Earned(i, rows[i])' /\ Earned(i, mem[i])'
  <2>1. Deserved(fixedBy[i], rows[i]) /\ Deserved(fixedBy[i], mem[i])
    BY DEF WInv, Credited, Earned
  <2>2. Deserved(fixedBy'[i], rows[i]) /\ Deserved(fixedBy'[i], mem[i])
    BY <1>1, <2>1, MoreFixers
  <2> QED
    BY <1>2, <2>2 DEF Earned
<1>4. /\ requested' \in Nat /\ explained' \subseteq Ids /\ mem' \in [Ids -> Object]
      /\ rows' \in [Ids -> Row] /\ \A i \in Ids : mem'[i].status = mem[i].status
      /\ \A i \in Ids : i > issued => rows'[i].status = "none"
  BY <1>2 DEF WInv, WTypeOK, TypeOK, Placed
<1>5. UNCHANGED <<now, changes, issued, keyOf, open, ev>>
  BY <1>2
<1> QED
  BY <1>1, <1>3, <1>4, <1>5, RequestKeeps

LEMMA SaveKeeps ==
    ASSUME WInv, mode' = mode, NEW w \in Requests, Save(w)
    PROVE  WInv'
<1> DEFINE i == req[w].id
           r == req[w].row
<1>1. Moves(w) /\ Upserted(i, r) /\ i \in 1..issued /\ i \in Ids /\ Earned(i, r)
  BY SaveMoves
<1>2. UNCHANGED <<now, changes, holds, due, issued, keyOf, mem, open, ev, requested, explained,
                  fixedBy>>
  BY DEF Save, tracker, world
<1>3. issued \in Nat
  BY ModesAre DEF WInv, WTypeOK, TypeOK
<1> HIDE DEF i, r
<1>4. rows' \in [Ids -> Row] /\ \A j \in Ids : j > issued => rows'[j].status = "none"
  <2>1. \A j \in Ids : j > issued => j # i
    BY <1>1, <1>3
  <2> QED
    BY <1>1, <2>1 DEF WInv, WTypeOK, TypeOK, Placed, Upserted
<1>5. \A j \in Ids : Earned(j, rows[j])'
  BY <1>1, <1>2, UpsertDeserved DEF WInv, Credited
<1>6. \A j \in Ids : Earned(j, mem[j])'
  BY <1>2 DEF WInv, Credited, Earned
<1>7. /\ requested' \in Nat /\ explained' \subseteq Ids /\ mem' \in [Ids -> Object]
      /\ holds' \subseteq Key /\ due' \subseteq Targets
      /\ \A j \in Ids : mem'[j].status = mem[j].status
      /\ fixedBy' \in [Ids -> SUBSET {"ours", "user-signed"}]
      /\ \A j \in Ids : fixedBy[j] \subseteq fixedBy'[j]
      /\ UNCHANGED <<now, changes, issued, keyOf, open, ev>>
  BY <1>2 DEF WInv, WTypeOK, TypeOK
<1> QED
  BY <1>1, <1>4, <1>5, <1>6, <1>7, RequestKeeps

LEMMA AttachKeeps ==
    ASSUME WInv, mode' = mode, NEW w \in Requests, Attach(w)
    PROVE  WInv'
<1>1. /\ mem' \in [Ids -> Object]
      /\ \A i \in Ids : /\ mem'[i].status = mem[i].status /\ mem'[i].by = mem[i].by
                        /\ \/ mem'[i].fix = mem[i].fix
                           \/ i = req[w].id /\ mem'[i].fix = req[w].row.fix
      /\ req[w].id \in Ids /\ Earned(req[w].id, req[w].row)
  BY AttachIs
<1>2. /\ UNCHANGED <<now, changes, holds, due, issued, keyOf, open, rows, ev, requested, explained,
                     fixedBy>>
      /\ req[w].pc = "attaching" /\ req' = [req EXCEPT ![w] = Continue(req[w])]
  BY DEF Attach, world
<1>3. Moves(w)
  BY <1>2, ContinueMoves
<1>4. ASSUME NEW i \in Ids PROVE Earned(i, rows[i])' /\ Earned(i, mem[i])'
  BY <1>1, <1>2 DEF WInv, Credited, Earned, Deserved
<1>5. /\ requested' \in Nat /\ explained' \subseteq Ids /\ rows' \in [Ids -> Row]
      /\ holds' \subseteq Key /\ due' \subseteq Targets
      /\ \A j \in Ids : j > issued => rows'[j].status = "none"
      /\ fixedBy' \in [Ids -> SUBSET {"ours", "user-signed"}]
      /\ \A j \in Ids : fixedBy[j] \subseteq fixedBy'[j]
      /\ UNCHANGED <<now, changes, issued, keyOf, open, ev>>
  BY <1>2 DEF WInv, WTypeOK, TypeOK, Placed
<1> QED
  BY <1>1, <1>3, <1>4, <1>5, RequestKeeps

LEMMA RequestStepKeeps ==
    ASSUME WInv, mode' = mode, NEW w \in Requests, RequestStep(w)
    PROVE  WInv'
<1>0. requested \in Nat /\ explained \subseteq Ids
  BY DEF WInv, WTypeOK
<1>1. CASE Awaited(w)
  BY <1>0, <1>1, AwaitedMoves, LocalKeeps DEF Awaited
<1>2. CASE Land(w)
  BY <1>2, LandKeeps
<1>3. CASE Outcome(w)
  BY <1>0, <1>3, OutcomeMoves, LocalKeeps DEF Outcome
<1>4. CASE Refuse(w)
  <2>1. req[w].pc # "idle" /\ req' = [req EXCEPT ![w] = Continue(req[w])]
        /\ UNCHANGED <<vars, requested, explained, fixedBy>>
    BY <1>4 DEF Refuse
  <2> QED
    BY <1>0, <2>1, ContinueMoves, LocalKeeps
<1>5. CASE Save(w)
  BY <1>5, SaveKeeps
<1>6. CASE Attach(w)
  BY <1>6, AttachKeeps
<1>7. CASE LoopTick(w)
  <2>1. Moves(w)
    BY <1>7, LoopTickMoves
  <2>2. requested' \in Nat /\ explained' \subseteq Ids /\ fixedBy' = fixedBy /\ UNCHANGED vars
    BY <1>0, <1>7 DEF LoopTick
  <2> QED
    BY <2>1, <2>2, LocalKeeps
<1>8. ASSUME NEW op \in Ops, NEW i \in Ids, Load(w, op, i)
      PROVE  WInv'
  <2>1. Moves(w)
    BY <1>8, LoadMoves
  <2>2. requested' \in Nat /\ explained' \subseteq Ids /\ fixedBy' = fixedBy /\ UNCHANGED vars
    BY <1>0, <1>8 DEF Load
  <2> QED
    BY <2>1, <2>2, LocalKeeps
<1> QED
  BY <1>1, <1>2, <1>3, <1>4, <1>5, <1>6, <1>7, <1>8 DEF RequestStep

LEMMA StepKeeps ==
    ASSUME WInv, mode' = mode, UNCHANGED requests, NEW e \in Evaluators, Step(e)
    PROVE  WInv'
<1>1. CASE \/ Poll(e) \/ ReadWindow(e) \/ SaveFails(e) \/ EndTick(e)
           \/ \E t \in Targets : Evaluate(e, t)
  BY <1>1, QuietKeeps
<1>2. CASE Ingest(e)
  BY <1>2, IngestKeeps
<1>3. CASE CommitSave(e)
  BY <1>3, CommitKeeps
<1>4. CASE NextSave(e)
  BY <1>4, NextSaveKeeps
<1> QED
  BY <1>1, <1>2, <1>3, <1>4 DEF Step

LEMMA WorldStepKeeps ==
    ASSUME WInv, mode' = mode, UNCHANGED requests,
           (\E k \in Key : Onset(k) \/ Clear(k)) \/ Pass
    PROVE  WInv'
<1>0. /\ now \in Nat /\ changes \in Nat /\ holds \subseteq Key /\ due \subseteq Targets
      /\ \A k \in Key : k[1] \in Targets
  BY ModesAre DEF WInv, WTypeOK, TypeOK
<1>1. CASE Pass
  BY <1>0, <1>1, WorldKeeps DEF Pass, world
<1>2. ASSUME NEW k \in Key, Onset(k) \/ Clear(k) PROVE WInv'
  <2>1. /\ UNCHANGED <<tracker, rows, ev>> /\ now' \in Nat /\ changes' \in Nat
        /\ holds' \subseteq Key /\ due' \subseteq Targets
    BY <1>0, <1>2 DEF Onset, Clear, Change
  <2> QED
    BY <2>1, WorldKeeps
<1> QED
  BY <1>1, <1>2

LEMMA WNextKeeps ==
    ASSUME WInv, [WNext]_writerVars
    PROVE  WInv'
<1>1. CASE UNCHANGED writerVars
  <2>1. mode' = mode /\ UNCHANGED <<tracker, rows, ev, requests>>
        /\ UNCHANGED <<now, changes, holds, due>>
    BY <1>1 DEF writerVars, vars, world
  <2>2. now' \in Nat /\ changes' \in Nat /\ holds' \subseteq Key /\ due' \subseteq Targets
    BY <2>1 DEF WInv, WTypeOK, TypeOK
  <2> QED
    BY <2>1, <2>2, WorldKeeps
<1>2. CASE WNext
  <2>0. mode' = mode
    BY <1>2 DEF WNext
  <2>1. CASE RecorderStep
    <3>1. ASSUME NEW e \in Evaluators, Step(e), UNCHANGED requests PROVE WInv'
      BY <2>0, <3>1, StepKeeps
    <3>2. CASE ((\E k \in Key : Onset(k) \/ Clear(k)) \/ Pass) /\ UNCHANGED requests
      BY <2>0, <3>2, WorldStepKeeps
    <3>3. CASE /\ Restart /\ req' = [w \in Requests |-> NoRequest]
               /\ UNCHANGED <<requested, explained, fixedBy>>
      BY <2>0, <3>3, RestartKeeps
    <3> QED
      BY <2>1, <3>1, <3>2, <3>3 DEF RecorderStep
  <2>2. ASSUME NEW w \in Requests, RequestStep(w) PROVE WInv'
    BY <2>0, <2>2, RequestStepKeeps
  <2> QED
    BY <1>2, <2>1, <2>2 DEF WNext
<1> QED
  BY <1>1, <1>2

LEMMA WInvHolds == WSpec => []WInv
<1>1. WInv /\ [WNext]_writerVars => WInv'
  BY WNextKeeps
<1> QED
  BY InitWInv, <1>1, PTL DEF WSpec

-----------------------------------------------------------------------------
(* Whatever the number of ticks and requests *)

\* No row ever claims more than was done (attributionOf, recordUserRemediation): however
\* ticks and requests interleave, whatever fails and whenever the process dies.
THEOREM CreditIsAlwaysEarned == WSpec => []CreditIsEarned
<1>1. WInv => CreditIsEarned
  BY DEF WInv, Credited, Earned, Deserved, CreditIsEarned
<1> QED
  BY WInvHolds, <1>1, PTL

LEMMA RequestFrame ==
    ASSUME NEW w \in Requests, RequestStep(w)
    PROVE  ev' = ev /\ (rows' = rows \/ Save(w)) /\ (mem' = mem \/ Attach(w))
<1>1. UNCHANGED vars => UNCHANGED <<ev, rows, mem>>
  BY DEF vars, tracker
<1>2. CASE Awaited(w) \/ Outcome(w) \/ Refuse(w)
  BY <1>1, <1>2 DEF Awaited, Outcome, Refuse
<1>3. CASE LoopTick(w)
  BY <1>1, <1>3 DEF LoopTick
<1>4. CASE \E op \in Ops, i \in Ids : Load(w, op, i)
  BY <1>1, <1>4 DEF Load
<1>5. CASE Land(w)
  BY <1>5 DEF Land, tracker
<1>6. CASE Save(w)
  <2>1. UNCHANGED <<ev, mem>>
    BY <1>6 DEF Save, tracker
  <2> QED
    BY <1>6, <2>1
<1>7. CASE Attach(w)
  <2>1. UNCHANGED <<ev, rows>>
    BY <1>7 DEF Attach
  <2> QED
    BY <1>7, <2>1
<1> QED
  BY <1>2, <1>3, <1>4, <1>5, <1>6, <1>7 DEF RequestStep

LEMMA RowsChangeIn ==
    ASSUME WInv, [WNext]_writerVars
    PROVE  \/ rows' = rows
           \/ \E e \in Evaluators : CommitSave(e) /\ mode' = mode
           \/ \E w \in Requests : Save(w) /\ mode' = mode
<1>1. ASSUME NEW e \in Evaluators, Step(e), mode' = mode
      PROVE  rows' = rows \/ CommitSave(e)
  <2>1. CASE Ingest(e)
    BY <2>1, IngestFrame DEF Ingest
  <2>2. CASE Poll(e) \/ ReadWindow(e) \/ \E t \in Targets : Evaluate(e, t)
    BY <2>2 DEF Poll, ReadWindow, Evaluate
  <2>3. CASE SaveFails(e) \/ NextSave(e) \/ EndTick(e)
    BY <2>3 DEF SaveFails, NextSave, EndTick
  <2> QED
    BY <1>1, <2>1, <2>2, <2>3 DEF Step
<1>2. ASSUME NEW w \in Requests, RequestStep(w)
      PROVE  rows' = rows \/ Save(w)
  BY <1>2, RequestFrame
<1>3. (\E k \in Key : Onset(k) \/ Clear(k)) \/ Pass \/ Restart \/ UNCHANGED writerVars
         => rows' = rows
  BY DEF Onset, Clear, Pass, Restart, writerVars, vars
<1> QED
  BY <1>1, <1>2, <1>3 DEF WNext, RecorderStep

-----------------------------------------------------------------------------
(* Ticks that do not overlap *)

OneTick == \A e, f \in Evaluators : e = f

\* What is being saved still has the status its object has, and only what was filed is.
SavesWhatIs(e) ==
    /\ ev[e].pc = "saving" => ev[e].writing.status = mem[Head(ev[e].queue)].status
    /\ \A i \in Range(ev[e].queue) : mem[i].status # "none"

Matched ==
    /\ \A e \in Evaluators : SavesWhatIs(e)
    /\ Alone => \A w \in Requests : req[w].pc = "idle"
    /\ TrackedIsNotResolved /\ NoRowIsOrphaned /\ TrackedIsStored

LEMMA PendingIs ==
    ASSUME OneTick, NEW e \in Evaluators
    PROVE  \A i : PendingSave(i) <=> i \in Range(ev[e].queue)
BY DEF OneTick, PendingSave

LEMMA TrackedIs ==
    ASSUME WInv
    PROVE  /\ \A k \in Key : open[k] # 0 => /\ open[k] \in 1..issued /\ open[k] \in Ids
                                            /\ keyOf[open[k]] = k /\ Tracked(open[k])
           /\ \A i \in Ids : Tracked(i) => i # 0 /\ keyOf[i] \in Key /\ open[keyOf[i]] = i
           /\ \A i \in Ids : Live(mem[i]) <=> Tracked(i)
           /\ issued \in Nat /\ 1..issued \subseteq Ids
<1>1. issued \in Nat /\ 1..issued \subseteq Ids /\ 0 \notin Ids
  BY ModesAre DEF WInv, WTypeOK, TypeOK, Ids
<1>2. \A k \in Key : open[k] # 0 => open[k] \in 1..issued /\ keyOf[open[k]] = k
  BY OpenAreIds DEF WInv, WTypeOK, Placed
<1>3. ASSUME NEW i \in Ids, Tracked(i) PROVE keyOf[i] \in Key /\ open[keyOf[i]] = i
  <2>1. PICK k \in Key : open[k] = i
    BY <1>3 DEF Tracked, OpenIds
  <2> QED
    BY <1>1, <1>2, <2>1
<1> QED
  BY <1>1, <1>2, <1>3 DEF Tracked, OpenIds, WInv, Placed

LEMMA InitMatched == WInit => Matched
<1> SUFFICES ASSUME WInit PROVE Matched
  OBVIOUS
<1>1. \A e \in Evaluators : SavesWhatIs(e)
  BY Empties, RangeOfEmpty DEF WInit, Init, SavesWhatIs
<1>2. \A k \in Key : open[k] = 0
  BY DEF WInit, Init
<1>3. \A i \in 1..issued : FALSE
  BY DEF WInit, Init
<1> QED
  BY <1>1, <1>2, <1>3, Empties
     DEF WInit, Init, Matched, TrackedIsNotResolved, NoRowIsOrphaned, TrackedIsStored

\* When neither the tracker nor a row changes and no save is lost but to a fault.
LEMMA SameMatched ==
    ASSUME WInv, Matched, mode' = mode, UNCHANGED <<tracker, rows, requests>>,
           \A e \in Evaluators : SavesWhatIs(e)',
           ~mode.faults => \A e \in Evaluators : Range(ev'[e].queue) = Range(ev[e].queue)
    PROVE  Matched'
<1> USE SameMode
<1>1. ~mode.faults => \A i : PendingSave(i)' <=> PendingSave(i)
  BY DEF PendingSave
<1> QED
  BY <1>1 DEF Matched, Alone, TrackedIsNotResolved, NoRowIsOrphaned, TrackedIsStored, tracker,
     requests, Live

LEMMA QuietMatched ==
    ASSUME WInv, Matched, mode' = mode, UNCHANGED requests, NEW e \in Evaluators,
           \/ Poll(e) \/ ReadWindow(e) \/ SaveFails(e) \/ EndTick(e)
           \/ \E t \in Targets : Evaluate(e, t)
    PROVE  Matched'
<1>1. Quiet(e) /\ UNCHANGED <<now, changes, holds, tracker, rows>>
  BY QuietSteps DEF WInv, WTypeOK
<1>2. ~mode.faults => ev[e].queue = <<>>
  BY DEF Poll, ReadWindow, SaveFails, EndTick, Evaluate, WInv, Placed, EvInv
<1>3. ASSUME NEW f \in Evaluators PROVE SavesWhatIs(f)'
  BY <1>1, RangeOfEmpty DEF Quiet, Matched, SavesWhatIs, tracker
<1>4. ~mode.faults => \A f \in Evaluators : Range(ev'[f].queue) = Range(ev[f].queue)
  BY <1>1, <1>2 DEF Quiet
<1> QED
  BY <1>1, <1>3, <1>4, SameMatched

LEMMA NextSaveMatched ==
    ASSUME WInv, Matched, mode' = mode, UNCHANGED requests, NEW e \in Evaluators, NextSave(e)
    PROVE  Matched'
<1>1. /\ \A f \in Evaluators \ {e} : ev'[f] = ev[f]
      /\ ev'[e].queue = ev[e].queue
      /\ IF ev[e].queue = <<>> THEN ev'[e].pc = "next"
         ELSE /\ ev'[e].pc = "saving" /\ Head(ev[e].queue) \in 1..issued
              /\ ev'[e].writing = RowOf(mem[Head(ev[e].queue)])
      /\ UNCHANGED <<tracker, rows>>
  BY NextSaveIs DEF WInv, WTypeOK
<1>2. ev'[e].pc = "saving" => ev'[e].writing.status = mem[Head(ev'[e].queue)].status
  <2> SUFFICES ASSUME ev'[e].pc = "saving"
               PROVE  ev'[e].writing.status = mem[Head(ev[e].queue)].status
    BY <1>1
  <2>1. Head(ev[e].queue) \in Ids /\ ev'[e].writing = RowOf(mem[Head(ev[e].queue)])
    BY <1>1, TrackedIs
  <2>2. mem[Head(ev[e].queue)] \in Object
    BY <2>1 DEF WInv, WTypeOK, TypeOK
  <2> QED
    BY <2>1, <2>2, RowOfObject
<1>3. ASSUME NEW f \in Evaluators PROVE SavesWhatIs(f)'
  BY <1>1, <1>2 DEF Matched, SavesWhatIs, tracker
<1>4. \A f \in Evaluators : Range(ev'[f].queue) = Range(ev[f].queue)
  BY <1>1
<1> QED
  BY <1>1, <1>3, <1>4, SameMatched

LEMMA IngestMatched ==
    ASSUME OneTick, WInv, WInv', Matched, mode' = mode, UNCHANGED requests,
           NEW e \in Evaluators, Ingest(e)
    PROVE  Matched'
<1> USE SameMode
<1>1. PICK fired \in SUBSET ev[e].window : IngestFired(e, fired)
  BY DEF Ingest
<1>2. Ingested(e) /\ UNCHANGED <<now, world, rows>>
  BY <1>1, IngestIs, IngestFrame DEF WInv, WTypeOK
<1>3. /\ issued \in Nat /\ mode.ids \in Nat /\ issued' \in Nat /\ issued <= issued'
      /\ issued' <= mode.ids /\ Ids = 1..mode.ids /\ 1..issued' \subseteq Ids
  BY <1>2, ModesAre DEF WInv, WTypeOK, TypeOK, Ingested, Ids
<1>4. \A i \in 1..issued' : i \in 1..issued \/ i \in (issued + 1)..issued'
  BY <1>3
<1>5. \A i : ~PendingSave(i)
  <2>1. ev[e].queue = <<>>
    BY DEF Ingest, WInv, Placed, EvInv
  <2> QED
    BY <2>1, RangeOfEmpty, PendingIs
<1>6. \A i : PendingSave(i)' <=> i \in Range(ev'[e].queue)
  BY DEF OneTick, PendingSave
<1>7. ASSUME NEW f \in Evaluators PROVE SavesWhatIs(f)'
  <2>0. f = e
    BY DEF OneTick
  <2>1. ASSUME NEW i \in Range(ev'[e].queue) PROVE mem'[i].status # "none"
    <3>1. i \in 1..issued' /\ (i > issued \/ Tracked(i))
      BY <1>2, RangeIn DEF Ingested
    <3>2. CASE i \in (issued + 1)..issued'
      BY <1>2, <3>2 DEF Ingested, Files
    <3>3. CASE i \in 1..issued
      <4>1. Tracked(i) /\ i \in Ids
        BY <1>3, <3>1, <3>3
      <4>2. mem[i].status # "none"
        BY <4>1, TrackedIs DEF Live
      <4> QED
        BY <1>2, <3>3, <4>2 DEF Ingested, Finishes, Spares
    <3> QED
      BY <1>4, <3>1, <3>2, <3>3
  <2>2. ev'[e].pc = "saving" => ev'[e].writing.status = mem'[Head(ev'[e].queue)].status
    <3> SUFFICES ASSUME ev'[e].pc = "saving"
                 PROVE  ev'[e].writing.status = mem'[Head(ev'[e].queue)].status
      OBVIOUS
    <3>1. ev'[e].queue # <<>> /\ ev'[e].writing = RowOf(mem'[Head(ev'[e].queue)])
      BY <1>2 DEF Ingested
    <3>2. Head(ev'[e].queue) \in Ids
      BY <1>2, <1>3, <3>1, RangeOfTail DEF Ingested
    <3>3. mem'[Head(ev'[e].queue)] \in Object
      BY <1>2, <3>2 DEF Ingested
    <3> QED
      BY <3>1, <3>3, RowOfObject
  <2> QED
    BY <2>0, <2>1, <2>2 DEF SavesWhatIs
<1>8. \A i : Tracked(i)' <=> \E k \in Key : open'[k] = i
  BY DEF Tracked, OpenIds
<1>9. ASSUME NEW k \in Key, NEW i, i = open'[k], i # 0
      PROVE  \/ i \in Range(ev'[e].queue) /\ rows[i].status = "none"
             \/ \E l \in Key : open[l] # 0 /\ open[l] = i
  <2>1. i \in 1..issued' /\ Tracked(i)'
    BY <1>2, <1>3, <1>8, <1>9 DEF Ingested
  <2>2. CASE i \in (issued + 1)..issued'
    <3>1. i \in Ids /\ i > issued
      BY <1>3, <2>2
    <3> QED
      BY <1>2, <2>2, <3>1 DEF Ingested, Files, WInv, Placed
  <2>3. CASE i \in 1..issued
    <3>1. Tracked(i)
      BY <1>2, <2>1, <2>3 DEF Ingested, Finishes, Spares
    <3> QED
      BY <1>9, <3>1 DEF Tracked, OpenIds
  <2> QED
    BY <1>4, <2>1, <2>2, <2>3
<1>10. TrackedIsNotResolved'
  BY <1>2, <1>9 DEF Matched, TrackedIsNotResolved, Alone
<1>11. TrackedIsStored'
  BY <1>2, <1>5, <1>6, <1>9 DEF Matched, TrackedIsStored, Alone
<1>12. NoRowIsOrphaned'
  <2> SUFFICES ASSUME Alone, ~mode.faults, NEW i \in 1..issued', Live(rows[i])
               PROVE  open'[keyOf'[i]] = i \/ i \in Range(ev'[e].queue)
    BY <1>2, <1>6 DEF NoRowIsOrphaned, Alone
  <2>1. CASE i \in 1..issued
    <3>1. open[keyOf[i]] = i /\ keyOf[i] \in Key /\ i \in Ids
      BY <1>3, <1>5, <2>1 DEF Matched, NoRowIsOrphaned, WInv, WTypeOK, TypeOK
    <3>2. Tracked(i)
      BY <3>1 DEF Tracked, OpenIds
    <3> QED
      <4>1. ASSUME Tracked(i)' PROVE open'[keyOf'[i]] = i
        <5>1. PICK k \in Key : open'[k] = i
          BY <1>8, <4>1
        <5>2. i # 0
          BY <1>3, <2>1
        <5>3. open'[k] # 0 => keyOf'[open'[k]] = k
          BY <1>2 DEF Ingested
        <5> QED
          BY <5>1, <5>2, <5>3
      <4> QED
        BY <1>2, <2>1, <3>1, <3>2, <4>1 DEF Ingested, Finishes, Spares
  <2>2. CASE i \in (issued + 1)..issued'
    BY <1>2, <2>2 DEF Ingested, Files
  <2> QED
    BY <1>4, <2>1, <2>2
<1>13. Alone' => \A w \in Requests : req'[w].pc = "idle"
  BY DEF Matched, Alone, requests
<1> QED
  BY <1>7, <1>10, <1>11, <1>12, <1>13 DEF Matched

\* What a save writes is what its object is: live just when it is tracked.
LEMMA CommitWrites ==
    ASSUME WInv, Matched, mode' = mode, NEW e \in Evaluators, CommitSave(e),
           NEW h, h = Head(ev[e].queue)
    PROVE  /\ h \in Ids /\ h \in 1..issued /\ rows'[h].status = mem[h].status
           /\ mem[h].status # "none" /\ (Live(rows'[h]) <=> Tracked(h))
           /\ rows'[h].status # "resolved" <=> Tracked(h)
           /\ \A j \in Ids \ {h} : rows'[j] = rows[j]
<1>1. /\ h \in 1..issued /\ h \in Ids /\ ev[e].pc = "saving" /\ Upserted(h, ev[e].writing)
      /\ Range(ev[e].queue) = {h} \union Range(ev'[e].queue)
  BY CommitIs DEF WInv, WTypeOK
<1>2. ev[e].writing.status = mem[h].status /\ mem[h].status # "none"
  BY <1>1 DEF Matched, SavesWhatIs
<1>3. rows'[h].status = mem[h].status /\ \A j \in Ids \ {h} : rows'[j] = rows[j]
  BY <1>1, <1>2 DEF Upserted
<1>4. mem[h].status \in Statuses /\ (Live(mem[h]) <=> Tracked(h))
  BY <1>1, TrackedIs DEF WInv, WTypeOK, TypeOK, Object
<1> QED
  BY <1>1, <1>2, <1>3, <1>4 DEF Live, Statuses

LEMMA CommitMatched ==
    ASSUME OneTick, WInv, Matched, mode' = mode, UNCHANGED requests, NEW e \in Evaluators,
           CommitSave(e)
    PROVE  Matched'
<1> USE SameMode
<1> DEFINE h == Head(ev[e].queue)
<1>1. /\ h \in Ids /\ rows'[h].status = mem[h].status /\ h \in 1..issued
      /\ mem[h].status # "none" /\ (Live(rows'[h]) <=> Tracked(h))
      /\ rows'[h].status # "resolved" <=> Tracked(h)
      /\ \A j \in Ids \ {h} : rows'[j] = rows[j]
  BY CommitWrites
<1>2. /\ Range(ev[e].queue) = {h} \union Range(ev'[e].queue)
      /\ ev'[e].pc = "alerting" /\ UNCHANGED tracker
  BY CommitIs DEF WInv, WTypeOK
<1> HIDE DEF h
<1>3. ASSUME NEW f \in Evaluators PROVE SavesWhatIs(f)'
  <2>1. f = e
    BY DEF OneTick
  <2> QED
    BY <1>2, <2>1 DEF Matched, SavesWhatIs, tracker
<1>4. \A i : PendingSave(i) <=> i = h \/ i \in Range(ev'[e].queue)
  BY <1>2, PendingIs
<1>5. \A i : PendingSave(i)' <=> i \in Range(ev'[e].queue)
  BY DEF OneTick, PendingSave
<1>6. TrackedIsNotResolved'
  BY <1>1, <1>2, TrackedIs DEF Matched, TrackedIsNotResolved, Alone, tracker
<1>7. TrackedIsStored'
  <2> SUFFICES ASSUME Alone, ~mode.faults, NEW k \in Key, open[k] # 0
               PROVE  Live(rows'[open[k]]) \/ open[k] \in Range(ev'[e].queue)
    BY <1>2, <1>5 DEF TrackedIsStored, Alone, tracker
  <2>1. Tracked(open[k]) /\ open[k] \in Ids
    BY TrackedIs
  <2>2. Live(rows[open[k]]) \/ PendingSave(open[k])
    BY DEF Matched, TrackedIsStored
  <2>3. CASE open[k] = h
    BY <1>1, <2>1, <2>3
  <2>4. CASE open[k] # h
    BY <1>1, <1>4, <2>1, <2>2, <2>4
  <2> QED
    BY <2>3, <2>4
<1>8. NoRowIsOrphaned'
  <2> SUFFICES ASSUME Alone, ~mode.faults, NEW i \in 1..issued, Live(rows'[i])
               PROVE  open[keyOf[i]] = i \/ PendingSave(i)'
    BY <1>2 DEF NoRowIsOrphaned, Alone, tracker
  <2>1. CASE i = h
    BY <1>1, <2>1, TrackedIs
  <2>2. CASE i # h
    <3>1. i \in Ids
      BY TrackedIs
    <3>2. open[keyOf[i]] = i \/ PendingSave(i)
      BY <1>1, <2>2, <3>1 DEF Matched, NoRowIsOrphaned
    <3> QED
      BY <1>4, <1>5, <2>2, <3>2
  <2> QED
    BY <2>1, <2>2
<1>9. Alone' => \A w \in Requests : req'[w].pc = "idle"
  BY DEF Matched, Alone, requests
<1> QED
  BY <1>3, <1>6, <1>7, <1>8, <1>9 DEF Matched

LEMMA RestartMatched ==
    ASSUME OneTick, WInv, Matched, mode' = mode, Restart,
           req' = [w \in Requests |-> NoRequest]
    PROVE  Matched'
<1> USE SameMode
<1>0. Restarted /\ TypeOK
  BY RestartIs DEF WInv, WTypeOK
<1>1. UNCHANGED <<issued, keyOf, rows>> /\ ev' = [e \in Evaluators |-> Tick0]
  BY <1>0 DEF Restarted
<1>2. \A e \in Evaluators : SavesWhatIs(e)'
  BY <1>0, <1>1, Empties, RangeOfEmpty DEF SavesWhatIs, TypeOK
<1>3. ASSUME NEW k \in Key
      PROVE  /\ open'[k] = Restored(k)
             /\ open'[k] # 0 <=> LiveOf(k) # {}
             /\ open'[k] # 0 => open'[k] \in LiveOf(k) /\ Live(rows[open'[k]])
  BY <1>0, RestoredIs DEF Restarted
<1>4. TrackedIsNotResolved' /\ TrackedIsStored'
  BY <1>1, <1>3 DEF TrackedIsNotResolved, TrackedIsStored, Live
<1>5. NoRowIsOrphaned'
  <2> SUFFICES ASSUME Alone, ~mode.faults, NEW i \in 1..issued, Live(rows[i])
               PROVE  open'[keyOf[i]] = i
    BY <1>1 DEF NoRowIsOrphaned, Alone
  <2>1. \A j : ~PendingSave(j)
    <3>1. \A e \in Evaluators : ev[e].queue = <<>>
      BY DEF Restart, WInv, Placed, EvInv
    <3> QED
      BY <3>1, RangeOfEmpty DEF PendingSave
  <2>2. \A j \in 1..issued : Live(rows[j]) => open[keyOf[j]] = j
    BY <2>1 DEF Matched, NoRowIsOrphaned
  <2>3. keyOf[i] \in Key /\ i \in LiveOf(keyOf[i])
    BY TrackedIs, <1>0 DEF TypeOK, LiveOf
  <2>4. open'[keyOf[i]] \in LiveOf(keyOf[i])
    BY <1>3, <2>3
  <2> QED
    BY <2>2, <2>4 DEF LiveOf
<1>6. \A w \in Requests : req'[w].pc = "idle"
  BY Empties
<1> QED
  BY <1>2, <1>4, <1>5, <1>6 DEF Matched

\* Where nobody else writes rows, nobody else does anything.
LEMMA RequestsAreOthers ==
    ASSUME WInv, Matched, NEW w \in Requests, RequestStep(w)
    PROVE  ~Alone
<1>1. requested \in Nat
  BY DEF WInv, WTypeOK
<1> SUFFICES ASSUME Alone PROVE FALSE
  OBVIOUS
<1>2. req[w].pc = "idle" /\ ~(requested < mode.requests)
  BY <1>1 DEF Matched, Alone
<1> QED
  BY <1>2 DEF RequestStep, Awaited, Land, Outcome, Refuse, Save, Attach, LoopTick, Load

LEMMA RequestMatched ==
    ASSUME WInv, Matched, mode' = mode, NEW w \in Requests, RequestStep(w)
    PROVE  Matched'
<1>1. ~Alone'
  BY RequestsAreOthers DEF Alone
<1>2. \A i \in Ids : mem'[i].status = mem[i].status
  <2>1. CASE Attach(w)
    BY <2>1, AttachIs
  <2>2. CASE ~Attach(w)
    BY <2>2, RequestFrame
  <2> QED
    BY <2>1, <2>2
<1>3. ev' = ev
  BY RequestFrame
<1>4. ASSUME NEW e \in Evaluators PROVE SavesWhatIs(e)'
  <2>1. ev[e].queue \in Seq(1..issued) /\ (ev[e].pc = "saving" => ev[e].queue # <<>>)
    BY DEF WInv, Placed, EvInv
  <2>2. ev[e].pc = "saving" => Head(ev[e].queue) \in Ids
    BY <2>1, RangeOfTail, TrackedIs
  <2>3. Range(ev[e].queue) \subseteq Ids
    BY <2>1, RangeIn, TrackedIs
  <2> QED
    BY <1>2, <1>3, <2>2, <2>3 DEF Matched, SavesWhatIs
<1> QED
  BY <1>1, <1>4 DEF Matched, TrackedIsNotResolved, NoRowIsOrphaned, TrackedIsStored

LEMMA WorldMatched ==
    ASSUME WInv, Matched, mode' = mode, UNCHANGED requests,
           UNCHANGED <<tracker, rows, ev>>
    PROVE  Matched'
<1>1. ASSUME NEW e \in Evaluators PROVE SavesWhatIs(e)'
  BY DEF Matched, SavesWhatIs, tracker
<1> QED
  BY <1>1, SameMatched

LEMMA WNextMatched ==
    ASSUME OneTick, WInv, WInv', Matched, [WNext]_writerVars
    PROVE  Matched'
<1>1. CASE UNCHANGED writerVars
  BY <1>1, WorldMatched DEF writerVars, vars
<1>2. CASE WNext
  <2>0. mode' = mode
    BY <1>2 DEF WNext
  <2>1. CASE RecorderStep
    <3>1. ASSUME NEW e \in Evaluators, Step(e), UNCHANGED requests PROVE Matched'
      <4>1. CASE \/ Poll(e) \/ ReadWindow(e) \/ SaveFails(e) \/ EndTick(e)
                 \/ \E t \in Targets : Evaluate(e, t)
        BY <2>0, <3>1, <4>1, QuietMatched
      <4>2. CASE Ingest(e)
        BY <2>0, <3>1, <4>2, IngestMatched
      <4>3. CASE CommitSave(e)
        BY <2>0, <3>1, <4>3, CommitMatched
      <4>4. CASE NextSave(e)
        BY <2>0, <3>1, <4>4, NextSaveMatched
      <4> QED
        BY <3>1, <4>1, <4>2, <4>3, <4>4 DEF Step
    <3>2. CASE ((\E k \in Key : Onset(k) \/ Clear(k)) \/ Pass) /\ UNCHANGED requests
      BY <2>0, <3>2, WorldMatched DEF Onset, Clear, Pass
    <3>3. CASE Restart /\ req' = [w \in Requests |-> NoRequest]
      BY <2>0, <3>3, RestartMatched
    <3> QED
      BY <2>1, <3>1, <3>2, <3>3 DEF RecorderStep
  <2>2. ASSUME NEW w \in Requests, RequestStep(w) PROVE Matched'
    BY <2>0, <2>2, RequestMatched
  <2> QED
    BY <1>2, <2>1, <2>2 DEF WNext
<1> QED
  BY <1>1, <1>2

LEMMA MatchedHolds == ASSUME OneTick PROVE WSpec => [](WInv /\ Matched)
<1>1. WInv /\ Matched /\ [WNext]_writerVars => (WInv /\ Matched)'
  BY WNextKeeps, WNextMatched
<1>2. WInit => WInv /\ Matched
  BY InitWInv, InitMatched
<1> QED
  BY <1>1, <1>2, PTL DEF WSpec

\* What the recorder holds in memory and what is stored agree, as long as one tick does not
\* overtake another: no live row nobody tracks, nothing tracked that is not stored or that
\* was closed, through restarts (tracker.ingest, restoreOpenIncidents, hydrate).
THEOREM MemoryAlwaysMatchesRows == ASSUME OneTick PROVE WSpec => []MemoryMatchesRows
<1>1. WInv /\ Matched => MemoryMatchesRows
  BY DEF WInv, Matched, MemoryMatchesRows
<1> QED
  BY MatchedHolds, <1>1, PTL

\* Under the same condition the recorder never takes back a resolution it has stored.
THEOREM ResolutionsAreKept == ASSUME OneTick PROVE WSpec => ResolvedStaysResolved
<1> DEFINE Kept ==
          Alone => \A i \in Ids : rows[i].status = "resolved" => rows'[i].status = "resolved"
<1>1. ASSUME WInv, Matched, [WNext]_writerVars, Alone, NEW i \in Ids,
             rows[i].status = "resolved"
      PROVE  rows'[i].status = "resolved"
  <2>1. CASE rows' = rows
    BY <1>1, <2>1
  <2>2. ASSUME NEW e \in Evaluators, CommitSave(e), mode' = mode
        PROVE  rows'[i].status = "resolved"
    <3> DEFINE h == Head(ev[e].queue)
    <3>1. /\ h \in Ids /\ (rows'[h].status # "resolved" <=> Tracked(h))
          /\ \A j \in Ids \ {h} : rows'[j] = rows[j]
      BY <1>1, <2>2, CommitWrites
    <3> HIDE DEF h
    <3>2. ~Tracked(i)
      BY <1>1, TrackedIs DEF Matched, TrackedIsNotResolved
    <3> QED
      BY <1>1, <3>1, <3>2
  <2>3. ASSUME NEW w \in Requests, Save(w) PROVE FALSE
    BY <1>1, <2>3, RequestsAreOthers DEF RequestStep
  <2> QED
    BY <1>1, <2>1, <2>2, <2>3, RowsChangeIn
<1>2. WInv /\ Matched /\ [WNext]_writerVars => Kept
  BY <1>1
<1> QED
  BY MatchedHolds, <1>2, PTL DEF WSpec, ResolvedStaysResolved
=============================================================================
