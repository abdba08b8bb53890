-------------------------- MODULE LeotpHolesProofs --------------------------
(***************************************************************************)
(* Lemmas on data holes, which a requester and a midnode keep alike: the   *)
(* list stays well formed, sorted and below the mark of detectDataHole.    *)
(***************************************************************************)
EXTENDS LeotpHoles, ByteRangeProofs

Gaps == {h \in [start : Nat, end : Nat, age : Ages] : h.start < h.end}

-----------------------------------------------------------------------------
(* Types.                                                                  *)

LEMMA HolePieces ==
  ASSUME NEW h \in Gaps, NEW r, r.start \in Nat, r.end \in Nat
  PROVE  Before(h, r) \in Seq(Gaps) /\ After(h, r) \in Seq(Gaps)
<1>1. h.start < r.start => [h EXCEPT !.end = Lower(@, r.start)] \in Gaps
  BY DEF Gaps, Lower
<1>2. h.end > r.end => [h EXCEPT !.start = Higher(@, r.end)] \in Gaps
  BY DEF Gaps, Higher
<1>. QED
  BY <1>1, <1>2 DEF Before, After

(* deleteDataHole.                                                         *)
LEMMA DeleteDataHoleType ==
  ASSUME NEW holes \in Seq(Gaps), NEW r, r.start \in Nat, r.end \in Nat
  PROVE  DeleteDataHole(holes, r) \in Seq(Gaps)
<1>. DEFINE ps == [i \in 1 .. Len(holes) |->
                     IF i \in Scanned(holes, r) THEN Before(holes[i], r) \o After(holes[i], r) ELSE <<holes[i]>>]
<1>1. ASSUME NEW i \in 1 .. Len(holes)
      PROVE  holes[i] \in Gaps /\ Before(holes[i], r) \o After(holes[i], r) \in Seq(Gaps)
  <2>1. holes[i] \in Gaps
    OBVIOUS
  <2>. QED
    BY <2>1, HolePieces
<1>2. ps \in [1 .. Len(holes) -> Seq(Gaps)]
  BY <1>1
<1>. HIDE DEF ps
<1>3. Concat(Len(holes), ps) \in Seq(Gaps)
  BY <1>2, ConcatType
<1>. QED
  BY <1>3 DEF DeleteDataHole, Recut, ps

LEMMA HolesAfterType ==
  ASSUME NEW holes \in Seq(Gaps), NEW next \in Nat, NEW r, r.start \in Nat, r.end \in Nat
  PROVE  HolesAfter(holes, next, r) \in Seq(Gaps) /\ NextAfter(next, r) \in Nat
<1>1. next < r.start => [start |-> next, end |-> r.start, age |-> "young"] \in Gaps
  BY DEF Gaps, Ages
<1>. QED
  BY <1>1, DeleteDataHoleType DEF HolesAfter, NextAfter, IsHole

(* Every interest sent deletes the holes it asks for in turn.              *)
LEMMA DeleteAllStays ==
  ASSUME NEW S, NEW s \in S, NEW rs, Len(rs) \in Nat,
         \A x \in S : \A i \in 1 .. Len(rs) : DeleteDataHole(x, rs[i]) \in S
  PROVE  RecutAll(s, rs, DeleteDataHole) \in S
<1>. DEFINE Step(f, i) == IF i = 0 THEN s ELSE DeleteDataHole(f[i - 1], rs[i])
            f == CHOOSE f : f = [i \in 0 .. Len(rs) |-> Step(f, i)]
            G == [q \in S \X Nat |-> IF q[2] \in 1 .. Len(rs) THEN DeleteDataHole(q[1], rs[q[2]]) ELSE s]
<1>1. G \in [S \X Nat -> S]
  OBVIOUS
<1>2. ASSUME NEW x \in S, NEW i \in 1 .. Len(rs)
      PROVE  G[<<x, i>>] = DeleteDataHole(x, rs[i])
  <2>1. <<x, i>> \in S \X Nat
    OBVIOUS
  <2>. QED
    BY <2>1
<1>. HIDE DEF G
<1>3. PICK h \in [0 .. Len(rs) -> S] :
        h[0] = s /\ \A i \in 1 .. Len(rs) : h[i] = G[<<h[i - 1], i>>]
  <2>1. Solvable(Len(rs), S, s, G)
    BY <1>1, RecursionExists
  <2>. QED
    BY <2>1 DEF Solvable
<1>4. h = [i \in 0 .. Len(rs) |-> Step(h, i)]
  <2>1. ASSUME NEW i \in 0 .. Len(rs)
        PROVE  h[i] = Step(h, i)
    <3>1. CASE i = 0
      BY <1>3, <3>1
    <3>2. CASE i # 0
      <4>1. i \in 1 .. Len(rs) /\ i - 1 \in 0 .. Len(rs)
        BY <3>2
      <4>2. h[i - 1] \in S
        BY <1>3, <4>1
      <4>. QED
        BY <1>2, <1>3, <3>2, <4>1, <4>2
    <3>. QED
      BY <3>1, <3>2
  <2>. HIDE DEF Step
  <2>. QED
    BY <2>1
<1>5. f = [i \in 0 .. Len(rs) |-> Step(f, i)]
  <2>. HIDE DEF Step
  <2>. QED
    BY <1>4
<1>6. f[Len(rs)] \in S
  <2>. HIDE DEF f
  <2>1. f[0] \in S
    BY <1>5
  <2>2. ASSUME NEW i \in 1 .. Len(rs), f[i - 1] \in S
        PROVE  f[i] \in S
    <3>1. f[i] = DeleteDataHole(f[i - 1], rs[i])
      BY <1>5
    <3>. QED
      BY <2>2, <3>1
  <2>. QED
    BY <2>1, <2>2, RecursionStays
<1>7. RecutAll(s, rs, DeleteDataHole) = f[Len(rs)]
  BY DEF RecutAll
<1>. QED
  BY <1>6, <1>7

LEMMA DeleteAllType ==
  ASSUME NEW s \in Seq(Gaps), NEW rs,
         Len(rs) \in Nat, \A i \in 1 .. Len(rs) : rs[i].start \in Nat /\ rs[i].end \in Nat
  PROVE  RecutAll(s, rs, DeleteDataHole) \in Seq(Gaps)
<1>1. \A x \in Seq(Gaps) : \A i \in 1 .. Len(rs) : DeleteDataHole(x, rs[i]) \in Seq(Gaps)
  BY DeleteDataHoleType
<1>. QED
  BY <1>1, DeleteAllStays

-----------------------------------------------------------------------------
(* Order.  The holes stay disjoint, in order, and below the mark.          *)

LEMMA GapsSized == Sized(Gaps)
BY DEF Sized, Gaps

LEMMA HoleParts ==
  ASSUME NEW h \in Gaps, NEW r, r.start \in Nat, r.end \in Nat, r.start < r.end
  PROVE  PartsOf(Gaps, Before(h, r) \o After(h, r), h)
<1>. DEFINE front == [h EXCEPT !.end = Lower(@, r.start)]
            rear  == [h EXCEPT !.start = Higher(@, r.end)]
<1>1. h.start \in Nat /\ h.end \in Nat /\ h.start < h.end
  BY DEF Gaps
<1>2. h.start < r.start =>
        front \in Gaps /\ front.start = h.start /\ front.end <= h.end /\ front.end <= r.start
  BY <1>1 DEF Gaps, Lower
<1>3. h.end > r.end =>
        rear \in Gaps /\ rear.end = h.end /\ h.start <= rear.start /\ r.end <= rear.start
  BY <1>1 DEF Gaps, Higher
<1>4. Before(h, r) = (IF h.start < r.start THEN <<front>> ELSE <<>>)
      /\ After(h, r) = (IF h.end > r.end THEN <<rear>> ELSE <<>>)
  BY DEF Before, After
<1>. HIDE DEF front, rear
<1>5. CASE ~ (h.start < r.start /\ h.end > r.end)
  <2>1. CASE ~ (h.start < r.start) /\ ~ (h.end > r.end)
    <3>1. Before(h, r) \o After(h, r) = <<>>
      BY <1>4, <2>1
    <3>. QED
      BY <3>1, GapsSized, WholeOrNone
  <2>2. CASE h.start < r.start /\ ~ (h.end > r.end)
    <3>1. Before(h, r) \o After(h, r) = <<front>>
      BY <1>4, <2>2
    <3>2. PICK t : t = <<front>>
      OBVIOUS
    <3>3. PartsOf(Gaps, t, front)
      BY <1>2, <2>2, <3>2, GapsSized, WholeOrNone
    <3>4. \A i \in 1 .. Len(t) : t[i] = front
      BY <3>2
    <3>. QED
      BY <1>1, <1>2, <2>2, <3>1, <3>2, <3>3, <3>4 DEF PartsOf
  <2>3. CASE ~ (h.start < r.start) /\ h.end > r.end
    <3>1. Before(h, r) \o After(h, r) = <<rear>>
      BY <1>4, <2>3
    <3>2. PICK t : t = <<rear>>
      OBVIOUS
    <3>3. PartsOf(Gaps, t, rear)
      BY <1>3, <2>3, <3>2, GapsSized, WholeOrNone
    <3>4. \A i \in 1 .. Len(t) : t[i] = rear
      BY <3>2
    <3>. QED
      BY <1>1, <1>3, <2>3, <3>1, <3>2, <3>3, <3>4 DEF PartsOf
  <2>. QED
    BY <1>5, <2>1, <2>2, <2>3
<1>6. CASE h.start < r.start /\ h.end > r.end
  <2>1. PICK t : t = <<front>> \o <<rear>>
    OBVIOUS
  <2>2. Before(h, r) \o After(h, r) = t
    BY <1>4, <1>6, <2>1
  <2>3. t \in Seq(Gaps) /\ Len(t) = 2 /\ t[1] = front /\ t[2] = rear
    <3>1. front \in Gaps /\ rear \in Gaps
      BY <1>2, <1>3, <1>6
    <3>. QED
      BY <2>1, <3>1
  <2>4. /\ front.start \in Nat /\ front.end \in Nat /\ rear.start \in Nat /\ rear.end \in Nat
        /\ front.start = h.start /\ front.end <= h.end /\ rear.end = h.end /\ h.start <= rear.start
    BY <1>2, <1>3, <1>6 DEF Gaps
  <2>5. front.end <= rear.start
    BY <1>2, <1>3, <1>6, <2>4
  <2>6. \A i \in 1 .. Len(t) : i = 1 \/ i = 2
    BY <2>3
  <2>7. \A i \in 1 .. Len(t) - 1 : i = 1 /\ i + 1 = 2
    BY <2>3
  <2>8. Sorted(t)
    BY <2>3, <2>5, <2>7 DEF Sorted
  <2>9. \A i \in 1 .. Len(t) : h.start <= t[i].start /\ t[i].end <= h.end
    BY <1>1, <2>3, <2>4, <2>6
  <2>. QED
    BY <2>2, <2>3, <2>8, <2>9 DEF PartsOf
<1>. QED
  BY <1>5, <1>6

LEMMA DeleteDataHoleSorted ==
  ASSUME NEW n \in Nat, NEW holes \in SortedBelow(Gaps, n),
         NEW r, r.start \in Nat, r.end \in Nat, r.start < r.end
  PROVE  DeleteDataHole(holes, r) \in SortedBelow(Gaps, n)
<1>. DEFINE ps == [i \in 1 .. Len(holes) |->
                     IF i \in Scanned(holes, r) THEN Before(holes[i], r) \o After(holes[i], r) ELSE <<holes[i]>>]
<1>1. ASSUME NEW i \in 1 .. Len(holes)
      PROVE  PartsOf(Gaps, ps[i], holes[i])
  <2>1. holes[i] \in Gaps
    BY DEF SortedBelow
  <2>2. PartsOf(Gaps, Before(holes[i], r) \o After(holes[i], r), holes[i])
    BY <2>1, HoleParts
  <2>. QED
    BY <2>1, <2>2, GapsSized, WholeOrNone
<1>. HIDE DEF ps
<1>2. Concat(Len(holes), ps) \in SortedBelow(Gaps, n)
  BY <1>1, GapsSized, PartsSorted
<1>. QED
  BY <1>2 DEF DeleteDataHole, Recut, ps

LEMMA DeleteAllSorted ==
  ASSUME NEW n \in Nat, NEW s \in SortedBelow(Gaps, n), NEW rs, Len(rs) \in Nat,
         \A i \in 1 .. Len(rs) : rs[i].start \in Nat /\ rs[i].end \in Nat /\ rs[i].start < rs[i].end
  PROVE  RecutAll(s, rs, DeleteDataHole) \in SortedBelow(Gaps, n)
<1>1. PICK S : S = SortedBelow(Gaps, n)
  OBVIOUS
<1>2. \A x \in S : \A i \in 1 .. Len(rs) : DeleteDataHole(x, rs[i]) \in S
  BY <1>1, DeleteDataHoleSorted
<1>. QED
  BY <1>1, <1>2, DeleteAllStays

(* detectDataHole raises the mark and appends a hole below it.             *)
LEMMA HolesAfterSorted ==
  ASSUME NEW next \in Nat, NEW holes \in SortedBelow(Gaps, next),
         NEW r, r.start \in Nat, r.end \in Nat, r.start < r.end
  PROVE  NextAfter(next, r) \in Nat /\ HolesAfter(holes, next, r) \in SortedBelow(Gaps, NextAfter(next, r))
<1>1. CASE r.start < next
  BY <1>1, DeleteDataHoleSorted DEF HolesAfter, NextAfter
<1>2. CASE r.start >= next
  <2>1. NextAfter(next, r) = r.end /\ next <= r.end
    BY <1>2 DEF NextAfter
  <2>2. \A t \in Seq(Gaps) : \A i \in 1 .. Len(t) : t[i].end \in Nat
    <3>1. \A t \in Seq(Gaps) : \A i \in 1 .. Len(t) : t[i] \in Gaps
      OBVIOUS
    <3>. QED
      BY <3>1 DEF Gaps
  <2>3. holes \in SortedBelow(Gaps, r.end)
    BY <2>1, <2>2 DEF SortedBelow
  <2>4. CASE IsHole(next, r)
    <3>. DEFINE hole == [start |-> next, end |-> r.start, age |-> "young"]
    <3>1. hole \in Gaps /\ hole.start = next /\ hole.end = r.start
      BY <2>4 DEF IsHole, Gaps, Ages
    <3>2. HolesAfter(holes, next, r) = Append(holes, hole)
      BY <1>2, <2>4 DEF HolesAfter
    <3>. HIDE DEF hole
    <3>3. PICK t : t = <<hole>>
      OBVIOUS
    <3>4. t \in Seq(Gaps) /\ Len(t) = 1 /\ \A i \in 1 .. Len(t) : t[i] = hole
      BY <3>1, <3>3
    <3>5. t \in SortedBelow(Gaps, r.end) /\ \A i \in 1 .. Len(t) : next <= t[i].start
      <4>1. Sorted(t)
        BY <3>4 DEF Sorted
      <4>2. \A i \in 1 .. Len(t) : t[i].end <= r.end /\ next <= t[i].start
        BY <3>1, <3>4
      <4>. QED
        BY <3>4, <4>1, <4>2 DEF SortedBelow
    <3>6. holes \o t \in SortedBelow(Gaps, r.end)
      BY <2>1, <3>5, GapsSized, SortedJoin
    <3>7. Append(holes, hole) = holes \o t
      BY <3>3 DEF SortedBelow
    <3>. QED
      BY <2>1, <3>2, <3>6, <3>7
  <2>5. CASE ~ IsHole(next, r)
    <3>1. HolesAfter(holes, next, r) = holes
      BY <1>2, <2>5 DEF HolesAfter
    <3>. QED
      BY <2>1, <2>3, <3>1
  <2>. QED
    BY <2>4, <2>5
<1>. QED
  BY <1>1, <1>2

(* Ageing changes no bound.                                                *)
LEMMA AgedSorted ==
  ASSUME NEW n \in Nat, NEW s \in SortedBelow(Gaps, n), NEW t \in Seq(Gaps), Len(t) = Len(s),
         \A i \in 1 .. Len(s) : t[i].start = s[i].start /\ t[i].end = s[i].end
  PROVE  t \in SortedBelow(Gaps, n)
<1>1. Len(s) \in Nat
  BY DEF SortedBelow
<1>2. \A i \in 1 .. Len(s) - 1 : i \in 1 .. Len(s) /\ i + 1 \in 1 .. Len(s)
  BY <1>1
<1>. QED
  BY <1>2 DEF SortedBelow, Sorted
=============================================================================
