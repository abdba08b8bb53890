--------------------------- MODULE LeotpPathProofs --------------------------
(***************************************************************************)
(* Theorems on a requester and a responder connected by a network: each of *)
(* them behaves as its own module says, so that what is proved of a        *)
(* requester in any network holds here, the responder queues each byte of  *)
(* each interest once and packs its segments into datagrams that fit, and  *)
(* an interest is transmitted at most once more for each thing that goes   *)
(* wrong.                                                                  *)
(***************************************************************************)
EXTENDS LeotpPath, LeotpRequesterByteProofs

-----------------------------------------------------------------------------
(* The responder's operators on ranges are those of the requester.         *)
LEMMA SameLower == \A a, b : Server!Lower(a, b) = Lower(a, b) /\ Server!Higher(a, b) = Higher(a, b)
BY DEF Server!Lower, Lower, Server!Higher, Higher

LEMMA SameConcat == ASSUME NEW n, NEW ss PROVE Server!Concat(n, ss) = Concat(n, ss)
BY DEF Server!Concat, Concat

LEMMA SameSum == ASSUME NEW n, NEW ss PROVE Server!SumOf(n, ss) = SumOf(n, ss)
BY DEF Server!SumOf, SumOf

LEMMA SameCovered == ASSUME NEW s PROVE Server!Covered(s) = Covered(s)
BY DEF Server!Covered, Covered, Server!Span, Span

LEMMA SameFirst == ASSUME NEW s PROVE Server!First(s) = First(s)
BY DEF Server!First, First

LEMMA SameParts ==
  ASSUME NEW x, NEW r
  PROVE  /\ Server!Before(x, r) = Before(x, r) /\ Server!After(x, r) = After(x, r)
         /\ Server!Overlap(x, r) = Overlap(x, r)
BY SameLower DEF Server!Before, Before, Server!After, After, Server!Overlap, Overlap

LEMMA SameSize == ASSUME NEW s PROVE Server!SizeOf(s) = Amount(s)
BY SameSum DEF Server!SizeOf, Server!TotalSize, Server!Size, Amount, TotalSize, Size

-----------------------------------------------------------------------------
(* Segments of data below n, as the responder sends them.                  *)
DataSegs(n) == {Server!Data(r.start, r.end) : r \in {x \in Segs(n) : Size(x) <= LEOTP_MSS}}

PathNumbers == LEOTP_MSS \in Nat \ {0} /\ LEOTP_OVERHEAD \in Nat \ {0} /\ MaxByte \in Nat

LEMMA PathNumbersHold == PathNumbers
BY RequesterAssumption, PathAssumption DEF PathNumbers

LEMMA DataSegFacts ==
  ASSUME NEW n \in Nat, NEW x \in DataSegs(n)
  PROVE  /\ x.start \in Nat /\ x.end \in Nat /\ x.start < x.end /\ x.end <= n
         /\ x.len = x.end - x.start /\ x.len \in Nat /\ x.len <= LEOTP_MSS
         /\ x = Server!Data(x.start, x.end)
<1>1. PICK r \in Segs(n) : Size(r) <= LEOTP_MSS /\ x = Server!Data(r.start, r.end)
  BY DEF DataSegs
<1>2. PICK a \in Nat, b \in Nat : a = r.start /\ b = r.end /\ a < b /\ b <= n /\ b - a <= LEOTP_MSS
  BY <1>1 DEF Segs, Size
<1>3. x = [start |-> a, end |-> b, len |-> b - a]
  BY <1>1, <1>2 DEF Server!Data
<1>4. b - a \in Nat
  BY <1>2
<1>. QED
  BY <1>2, <1>3, <1>4 DEF Server!Data

LEMMA DataSegsSized == ASSUME NEW n \in Nat PROVE Sized(DataSegs(n)) /\ Sized(Segs(n))
BY DataSegFacts, SegsSized DEF Sized

LEMMA DataSegsGrow ==
  ASSUME NEW m \in Nat, NEW n \in Nat, m <= n
  PROVE  /\ DataSegs(m) \subseteq DataSegs(n) /\ Seq(DataSegs(m)) \subseteq Seq(DataSegs(n))
<1>1. Segs(m) \subseteq Segs(n)
  BY DEF Segs
<1>2. DataSegs(m) \subseteq DataSegs(n)
  BY <1>1 DEF DataSegs
<1>. QED
  BY <1>2

(* The bytes of segments with their headers.                               *)
SegFn(n) == [x \in DataSegs(n) |-> LEOTP_OVERHEAD + x.len]

LEMMA SegFnType == ASSUME NEW n \in Nat PROVE SegFn(n) \in [DataSegs(n) -> Nat] /\ SegFn(n) \in [DataSegs(n) -> Int]
<1>1. \A x \in DataSegs(n) : LEOTP_OVERHEAD + x.len \in Nat /\ LEOTP_OVERHEAD + x.len \in Int
  BY DataSegFacts, PathNumbersHold DEF PathNumbers
<1>. QED
  BY <1>1 DEF SegFn

LEMMA WeightIs ==
  ASSUME NEW n \in Nat, NEW s \in Seq(DataSegs(n))
  PROVE  Server!Weight(s) = WeightOf(SegFn(n), s) /\ Server!Weight(s) \in Nat
<1>1. \A i \in 1 .. Len(s) : SegFn(n)[s[i]] = LEOTP_OVERHEAD + s[i].len
  BY DEF SegFn
<1>2. Server!Weight(s) = SumOf(Len(s), [i \in 1 .. Len(s) |-> LEOTP_OVERHEAD + s[i].len])
  BY SameSum DEF Server!Weight
<1>3. Server!Weight(s) = WeightOf(SegFn(n), s)
  BY <1>1, <1>2 DEF WeightOf
<1>4. WeightOf(SegFn(n), s) \in Nat
  <2>1. SegFn(n) \in [DataSegs(n) -> Nat]
    BY SegFnType
  <2>. QED
    BY <2>1, WeightNat
<1>. QED
  BY <1>3, <1>4

LEMMA WeightsJoin ==
  ASSUME NEW n \in Nat, NEW s \in Seq(DataSegs(n)), NEW t \in Seq(DataSegs(n))
  PROVE  Server!Weight(s \o t) = Server!Weight(s) + Server!Weight(t)
<1>1. s \o t \in Seq(DataSegs(n))
  OBVIOUS
<1>2. WeightOf(SegFn(n), s \o t) = WeightOf(SegFn(n), s) + WeightOf(SegFn(n), t)
  BY SegFnType, WeightJoin
<1>. QED
  BY <1>1, <1>2, WeightIs

(* Cutting a queue behind its first k segments splits its weight.          *)
LEMMA WeightCut ==
  ASSUME NEW n \in Nat, NEW s \in Seq(DataSegs(n)), NEW k \in 0 .. Len(s)
  PROVE  /\ SubSeq(s, 1, k) \in Seq(DataSegs(n)) /\ SubSeq(s, k + 1, Len(s)) \in Seq(DataSegs(n))
         /\ Server!Weight(s) = Server!Weight(SubSeq(s, 1, k)) + Server!Weight(SubSeq(s, k + 1, Len(s)))
<1>1. Sized(DataSegs(n))
  BY DataSegsSized
<1>2. PICK a, b : a = SubSeq(s, 1, k) /\ b = SubSeq(s, k + 1, Len(s))
  OBVIOUS
<1>3. a \in Seq(DataSegs(n)) /\ b \in Seq(DataSegs(n))
  BY <1>1, <1>2, CutInTwo
<1>4. s = a \o b
  <2>1. 1 \in 1 .. Len(s) + 1 /\ k \in 1 - 1 .. Len(s) /\ Len(s) \in k .. Len(s)
    OBVIOUS
  <2>2. a \o b = SubSeq(s, 1, Len(s))
    BY <1>2, <2>1, ConcatAdjacentSubSeq
  <2>. QED
    BY <2>2, SubSeqFull
<1>5. Server!Weight(a \o b) = Server!Weight(a) + Server!Weight(b)
  BY <1>3, WeightsJoin
<1>. QED
  BY <1>2, <1>3, <1>4, <1>5

(* sendData cuts the bytes from s to e into segments.                      *)
LEMMA CutData ==
  ASSUME NEW n \in Nat, NEW s \in Nat, NEW e \in Nat, s <= e, e <= n
  PROVE  /\ Server!Cut(s, e) \in Seq(DataSegs(n)) /\ Amount(Server!Cut(s, e)) = e - s
         /\ Covered(Server!Cut(s, e)) = s .. e - 1
<1>2. PICK m \in Nat : m = LEOTP_MSS /\ m > 0
  BY PathNumbersHold DEF PathNumbers
<1>3. PICK c : c = (e - s + m - 1) \div m
  OBVIOUS
<1>4. c \in Nat /\ (c = 0 <=> s = e)
  BY <1>2, <1>3, PieceCount
<1>5. PICK t : t = Server!Cut(s, e)
  OBVIOUS
<1>6. t = [i \in 1 .. c |-> Server!Data(s + (i - 1) * m, Lower(s + i * m, e))]
  BY <1>2, <1>3, <1>5, SameLower DEF Server!Cut
<1>7. Len(t) = c
  BY <1>4, <1>6
<1>8. CASE s = e
  <2>1. t = <<>>
    BY <1>4, <1>6, <1>8
  <2>2. s .. e - 1 = {} /\ e - s = 0
    BY <1>8
  <2>3. t \in Seq(DataSegs(n)) /\ Amount(t) = 0 /\ Covered(t) = {}
    BY <2>1, AmountNone, CoveredNone
  <2>. QED
    BY <1>5, <2>2, <2>3
<1>9. CASE s < e
  <2>1. ASSUME NEW i \in 1 .. c
        PROVE  /\ t[i].start = s + (i - 1) * m /\ t[i].end = Lower(s + i * m, e)
               /\ t[i] = Server!Data(t[i].start, t[i].end)
    <3>1. PICK a, b : a = s + (i - 1) * m /\ b = Lower(s + i * m, e)
      OBVIOUS
    <3>2. t[i] = Server!Data(a, b)
      BY <1>6, <3>1
    <3>3. t[i].start = a /\ t[i].end = b
      BY <3>2 DEF Server!Data
    <3>. QED
      BY <3>1, <3>2, <3>3
  <2>2. IsCut(t, s, e, m)
    BY <1>3, <1>7, <2>1 DEF IsCut
  <2>3. IsChain(t, s, e) /\ \A i \in 1 .. Len(t) : Size(t[i]) <= m
    BY <1>2, <1>9, <2>2, CutChain
  <2>4. Amount(t) = e - s /\ Covered(t) = s .. e - 1
    BY <2>3, ChainBytes
  <2>5. ASSUME NEW i \in 1 .. c
        PROVE  t[i] \in DataSegs(n)
    <3>1. PICK a \in Nat, b \in Nat : a = t[i].start /\ b = t[i].end /\ a < b /\ b - a <= m
      BY <1>7, <2>3 DEF IsChain, Size
    <3>2. b <= e
      <4>1. \A x : b = Lower(x, e) => b = e \/ (b = x /\ x < e)
        BY DEF Lower
      <4>2. b = Lower(s + i * m, e)
        BY <2>1, <3>1
      <4>. QED
        BY <4>1, <4>2
    <3>3. t[i] = Server!Data(a, b)
      BY <2>1, <3>1
    <3>4. [start |-> a, end |-> b] \in Segs(n)
      BY <3>1, <3>2 DEF Segs
    <3>. QED
      BY <1>2, <3>1, <3>3, <3>4 DEF DataSegs, Size
  <2>6. t \in Seq(DataSegs(n))
    BY <1>4, <1>6, <1>7, <2>5
  <2>. QED
    BY <1>5, <2>4, <2>6
<1>. QED
  BY <1>8, <1>9

(* The cache serves a front of the range.                                  *)
LEMMA ServedEndIn ==
  ASSUME NEW bytes, NEW r, r.start \in Nat, r.end \in Nat, r.start < r.end
  PROVE  Server!ServedEnd(bytes, r) \in r.start .. r.end
<1>. DEFINE S == {b \in r.start .. r.end : b = r.end \/ b \notin bytes}
<1>1. S \subseteq Nat /\ r.end \in S
  OBVIOUS
<1>2. Server!ServedEnd(bytes, r) = First(S)
  BY SameFirst DEF Server!ServedEnd
<1>. HIDE DEF S
<1>3. First(S) \in S
  BY <1>1, FirstIsLeast
<1>. QED
  BY <1>2, <1>3 DEF S

-----------------------------------------------------------------------------
(* notifyNewData.  Of a pending interest, the parts before and after the   *)
(* data stay, and the part inside is sent.                                 *)
StaysOf(x, r) == Before(x, r) \o After(x, r)

SentOf(x, r) ==
  IF Overlap(x, r) THEN Server!Cut(Higher(x.start, r.start), Lower(x.end, r.end)) ELSE <<>>

LEMMA PartsOfPending ==
  ASSUME NEW n \in Nat, NEW x \in Segs(n), NEW r, r.start \in Nat, r.end \in Nat, r.start < r.end
  PROVE  /\ StaysOf(x, r) \in Seq(Segs(n)) /\ SentOf(x, r) \in Seq(DataSegs(n))
         /\ Amount(StaysOf(x, r)) + Amount(SentOf(x, r)) = Size(x)
         /\ Covered(StaysOf(x, r)) \cup Covered(SentOf(x, r)) = Span(x)
         /\ Covered(StaysOf(x, r)) \cap Span(r) = {}
<1>1. PICK a \in Nat, b \in Nat : a = x.start /\ b = x.end /\ a < b /\ b <= n
  BY DEF Segs
<1>2. PICK c \in Nat, d \in Nat : c = r.start /\ d = r.end /\ c < d
  OBVIOUS
<1>3. x = [start |-> a, end |-> b]
  BY <1>1 DEF Segs
<1>4. IsRange(x)
  BY <1>1, <1>3 DEF IsRange
<1>5. PICK p, q : p = Before(x, r) /\ q = After(x, r)
  OBVIOUS
<1>6. p \in Seq(Segs(n)) /\ q \in Seq(Segs(n))
  <2>1. a < c => [x EXCEPT !.end = Lower(@, c)] \in Segs(n)
    BY <1>1, <1>3 DEF Segs, Lower
  <2>2. b > d => [x EXCEPT !.start = Higher(@, d)] \in Segs(n)
    BY <1>1, <1>3 DEF Segs, Higher
  <2>3. p \in Seq(Segs(n))
    BY <1>1, <1>2, <1>5, <2>1 DEF Before
  <2>4. q \in Seq(Segs(n))
    BY <1>1, <1>2, <1>5, <2>2 DEF After
  <2>. QED
    BY <2>3, <2>4
<1>7. /\ Covered(p) = a .. Lower(b, c) - 1 /\ Amount(p) = IF a < c THEN Lower(b, c) - a ELSE 0
  BY <1>1, <1>2, <1>4, <1>5, BeforeBytes
<1>8. /\ Covered(q) = Higher(a, d) .. b - 1 /\ Amount(q) = IF b > d THEN b - Higher(a, d) ELSE 0
  BY <1>1, <1>2, <1>4, <1>5, AfterBytes
<1>9. PICK t : t = SentOf(x, r)
  OBVIOUS
<1>10. PICK lo \in Nat, hi \in Nat : lo = Higher(a, c) /\ hi = Lower(b, d)
  BY <1>1, <1>2 DEF Higher, Lower
<1>11. hi <= n
  BY <1>1, <1>2, <1>10 DEF Lower
<1>12. /\ t \in Seq(DataSegs(n))
       /\ Amount(t) = IF lo < hi THEN hi - lo ELSE 0
       /\ Covered(t) = lo .. hi - 1
  <2>1. CASE lo < hi
    <3>1. a < d /\ c < b
      BY <1>1, <1>2, <1>10, <2>1 DEF Higher, Lower
    <3>2. t = Server!Cut(lo, hi)
      BY <1>1, <1>2, <1>9, <1>10, <3>1 DEF SentOf, Overlap
    <3>. QED
      BY <1>11, <2>1, <3>2, CutData
  <2>2. CASE ~ (lo < hi)
    <3>1. ~ (a < d /\ c < b)
      BY <1>1, <1>2, <1>10, <2>2 DEF Higher, Lower
    <3>2. t = <<>>
      BY <1>1, <1>2, <1>9, <3>1 DEF SentOf, Overlap
    <3>3. lo .. hi - 1 = {}
      BY <2>2
    <3>4. t \in Seq(DataSegs(n)) /\ Amount(t) = 0 /\ Covered(t) = {}
      BY <3>2, AmountNone, CoveredNone
    <3>. QED
      BY <2>2, <3>3, <3>4
  <2>. QED
    BY <2>1, <2>2
<1>13. PICK s : s = p \o q
  OBVIOUS
<1>14. s \in Seq(Segs(n)) /\ Amount(s) = Amount(p) + Amount(q) /\ Covered(s) = Covered(p) \cup Covered(q)
  <2>1. Sized(Segs(n))
    BY SegsSized
  <2>. QED
    BY <1>6, <1>13, <2>1, AmountJoin, CoveredJoin
<1>15. Amount(s) + Amount(t) = b - a
  <2>1. PICK u \in Int, v \in Int, w \in Int :
          /\ u = IF a < c THEN (IF b < c THEN b ELSE c) - a ELSE 0
          /\ v = IF b > d THEN b - (IF a > d THEN a ELSE d) ELSE 0
          /\ w = IF lo < hi THEN hi - lo ELSE 0
    BY <1>1, <1>2, <1>10
  <2>2. u + v + w = b - a
    <3>1. lo = (IF a > c THEN a ELSE c) /\ hi = (IF b < d THEN b ELSE d)
      BY <1>10 DEF Lower, Higher
    <3>. QED
      BY <1>1, <1>2, <2>1, <3>1
  <2>3. Amount(p) = u
    BY <1>7, <2>1 DEF Lower
  <2>4. Amount(q) = v
    BY <1>8, <2>1 DEF Higher
  <2>5. Amount(t) = w
    BY <1>12, <2>1
  <2>6. Amount(s) = u + v
    BY <1>14, <2>3, <2>4
  <2>. QED
    BY <2>2, <2>5, <2>6
<1>16. Covered(s) \cup Covered(t) = a .. b - 1
  <2>1. (a .. Lower(b, c) - 1) \cup (Higher(a, d) .. b - 1) \cup (lo .. hi - 1) = a .. b - 1
    BY <1>1, <1>2, <1>10 DEF Lower, Higher
  <2>. QED
    BY <1>7, <1>8, <1>12, <1>14, <2>1
<1>17. Covered(s) \cap (c .. d - 1) = {}
  <2>1. ((a .. Lower(b, c) - 1) \cup (Higher(a, d) .. b - 1)) \cap (c .. d - 1) = {}
    BY <1>1, <1>2 DEF Lower, Higher
  <2>. QED
    BY <1>7, <1>8, <1>14, <2>1
<1>. QED
  BY <1>1, <1>2, <1>5, <1>9, <1>12, <1>13, <1>14, <1>15, <1>16, <1>17 DEF StaysOf, Size, Span

LEMMA PendingBytes ==
  ASSUME NEW n \in Nat, NEW ints \in Seq(Segs(n)), NEW r, r.start \in Nat, r.end \in Nat, r.start < r.end
  PROVE  /\ Server!Pending(ints, r) \in Seq(Segs(n)) /\ Server!Notified(ints, r) \in Seq(DataSegs(n))
         /\ Amount(Server!Pending(ints, r)) + Amount(Server!Notified(ints, r)) = Amount(ints)
         /\ Covered(Server!Pending(ints, r)) \cup Covered(Server!Notified(ints, r)) = Covered(ints)
         /\ Covered(Server!Pending(ints, r)) \cap Span(r) = {}
<1>. DEFINE ps == [i \in 1 .. Len(ints) |-> StaysOf(ints[i], r)]
            qs == [i \in 1 .. Len(ints) |-> SentOf(ints[i], r)]
<1>1. Len(ints) \in Nat /\ \A i \in 1 .. Len(ints) : ints[i] \in Segs(n)
  OBVIOUS
<1>2. ASSUME NEW i \in 1 .. Len(ints)
      PROVE  /\ ps[i] \in Seq(Segs(n)) /\ qs[i] \in Seq(DataSegs(n))
             /\ Amount(ps[i]) + Amount(qs[i]) = Size(ints[i])
             /\ Covered(ps[i]) \cup Covered(qs[i]) = Span(ints[i])
             /\ Covered(ps[i]) \cap Span(r) = {}
  <2>1. ps[i] = StaysOf(ints[i], r) /\ qs[i] = SentOf(ints[i], r) /\ ints[i] \in Segs(n)
    BY <1>1
  <2>. HIDE DEF ps, qs
  <2>. QED
    BY <2>1, PartsOfPending
<1>3. Server!Pending(ints, r) = Concat(Len(ints), ps)
  <2>1. \A i \in 1 .. Len(ints) : Server!StillPending(ints[i], r) = StaysOf(ints[i], r)
    BY SameParts DEF Server!StillPending, StaysOf
  <2>. QED
    BY <2>1, SameConcat DEF Server!Pending
<1>4. Server!Notified(ints, r) = Concat(Len(ints), qs)
  BY SameConcat, SameParts, SameLower DEF Server!Notified, SentOf
<1>5. ps \in [1 .. Len(ints) -> Seq(Segs(n))] /\ qs \in [1 .. Len(ints) -> Seq(DataSegs(n))]
  <2>1. ps = [i \in 1 .. Len(ints) |-> ps[i]] /\ qs = [i \in 1 .. Len(ints) |-> qs[i]]
    OBVIOUS
  <2>. HIDE DEF ps, qs
  <2>. QED
    BY <1>2, <2>1
<1>. HIDE DEF ps, qs
<1>6. Concat(Len(ints), ps) \in Seq(Segs(n)) /\ Concat(Len(ints), qs) \in Seq(DataSegs(n))
  BY <1>1, <1>5, ConcatType
<1>7. /\ Amount(Concat(Len(ints), ps)) + Amount(Concat(Len(ints), qs)) = Amount(ints)
      /\ Covered(Concat(Len(ints), ps)) \cup Covered(Concat(Len(ints), qs)) = Covered(ints)
  <2>1. Splits(Segs(n), DataSegs(n), ints, ps, qs)
    BY <1>2 DEF Splits
  <2>2. Sized(Segs(n)) /\ Sized(DataSegs(n))
    BY DataSegsSized
  <2>. QED
    BY <1>1, <2>1, <2>2, SplitAmount
<1>8. Covered(Concat(Len(ints), ps)) \cap Span(r) = {}
  <2>1. Covered(Concat(Len(ints), ps)) = UNION {Covered(ps[i]) : i \in 1 .. Len(ints)}
    <3>1. \A i \in 1 .. Len(ints) : ps[i] \in Seq(Segs(n))
      BY <1>2
    <3>2. PICK T, fs, m : T = Segs(n) /\ fs = ps /\ m = Len(ints)
      OBVIOUS
    <3>3. m \in Nat /\ \A i \in 1 .. m : fs[i] \in Seq(T)
      BY <1>1, <3>1, <3>2
    <3>4. Covered(Concat(m, fs)) = UNION {Covered(fs[i]) : i \in 1 .. m}
      BY <3>3, CoveredConcat
    <3>. QED
      BY <3>2, <3>4
  <2>2. \A i \in 1 .. Len(ints) : Covered(ps[i]) \cap Span(r) = {}
    BY <1>2
  <2>. QED
    BY <2>1, <2>2
<1>. QED
  BY <1>3, <1>4, <1>6, <1>7, <1>8

-----------------------------------------------------------------------------
(* What the responder keeps, while the requester asks for bytes below n.   *)
ServerInv(n) ==
  /\ store \subseteq 0 .. MaxByte
  /\ pendingInts \in Seq(Segs(n)) /\ owed = Amount(pendingInts)
  /\ sndQueue \in Seq(DataSegs(n)) /\ sndQueueBytes = Server!Weight(sndQueue)
  /\ dataOutputLimit \in Nat

(* What is queued for sending is counted.                                  *)
LEMMA ServerQueues ==
  ASSUME NEW n \in Nat, ServerInv(n), NEW segs \in Seq(DataSegs(n)), Server!Queue(segs)
  PROVE  /\ sndQueue' \in Seq(DataSegs(n)) /\ sndQueueBytes' = Server!Weight(sndQueue')
         /\ Amount(sndQueue') = Amount(sndQueue) + Amount(segs)
<1>1. sndQueue' = sndQueue \o segs /\ sndQueueBytes' = sndQueueBytes + Server!Weight(segs)
  BY DEF Server!Queue, Server!Enqueued
<1>2. PICK q \in Seq(DataSegs(n)) : q = sndQueue /\ sndQueueBytes = Server!Weight(q)
  BY DEF ServerInv
<1>3. q \o segs \in Seq(DataSegs(n))
  OBVIOUS
<1>4. Server!Weight(q \o segs) = Server!Weight(q) + Server!Weight(segs)
  BY WeightsJoin
<1>5. Amount(q \o segs) = Amount(q) + Amount(segs)
  <2>1. Sized(DataSegs(n))
    BY DataSegsSized
  <2>. QED
    BY <2>1, AmountJoin
<1>. QED
  BY <1>1, <1>2, <1>3, <1>4, <1>5

(* Each byte of an interest is queued or stays pending, and what the       *)
(* application inserts answers every pending interest it meets.            *)
LEMMA ServerInputInv ==
  ASSUME NEW n \in Nat, ServerInv(n), NEW r \in Segs(n), NEW provided \in 0 .. MaxByte,
         Server!InputInt(r, provided)
  PROVE  ServerInv(n)' /\ Covered(pendingInts') \cap (store' \ store) = {}
<1>1. PICK a \in Nat, b \in Nat : a = r.start /\ b = r.end /\ a < b /\ b <= n /\ Size(r) = b - a
  BY DEF Segs, Size
<1>2. PICK e \in Nat : e = Server!ServedEnd(store, r) /\ a <= e /\ e <= b
  BY <1>1, ServedEndIn
<1>3. PICK cached : cached = Server!Cut(a, e)
  OBVIOUS
<1>4. cached \in Seq(DataSegs(n)) /\ Amount(cached) = e - a
  <2>1. a <= e /\ e <= n
    BY <1>1, <1>2
  <2>2. Server!Cut(a, e) \in Seq(DataSegs(n)) /\ Amount(Server!Cut(a, e)) = e - a
    BY <2>1, CutData
  <2>. QED
    BY <1>3, <2>2
<1>5. PICK ps \in Seq(Segs(n)), q \in Seq(DataSegs(n)) : ps = pendingInts /\ owed = Amount(ps) /\ q = sndQueue
  BY DEF ServerInv
<1>6. Amount(ps) \in Nat /\ Amount(q) \in Nat /\ Sized(Segs(n)) /\ Sized(DataSegs(n))
  <2>1. Sized(Segs(n)) /\ Sized(DataSegs(n))
    BY DataSegsSized
  <2>. QED
    BY <2>1, AmountType
<1>7. owed' = owed + (b - a) - (Amount(sndQueue') - Amount(q)) /\ dataOutputLimit' \in Nat
  <2>1. owed' = owed + Size(r) - (Amount(sndQueue') - Amount(sndQueue))
    BY SameSize DEF Server!InputInt, Server!Size, Size
  <2>2. dataOutputLimit' \in Nat
    BY DEF Server!InputInt, ServerInv
  <2>. QED
    BY <1>1, <1>5, <2>1, <2>2
<1>8. CASE e = b
  <2>1. Server!Queue(cached) /\ UNCHANGED <<store, pendingInts>>
    BY <1>1, <1>2, <1>3, <1>8 DEF Server!InputInt
  <2>2. sndQueue' \in Seq(DataSegs(n)) /\ sndQueueBytes' = Server!Weight(sndQueue')
        /\ Amount(sndQueue') = Amount(sndQueue) + Amount(cached)
    BY <1>4, <2>1, ServerQueues
  <2>3. PICK d \in Nat : d = Amount(q) /\ Amount(sndQueue') = d + (b - a)
    BY <1>4, <1>5, <1>6, <1>8, <2>2
  <2>4. PICK o \in Nat : o = Amount(ps) /\ owed = o
    BY <1>5, <1>6
  <2>5. owed' = o
    <3>1. owed' = o + (b - a) - ((d + (b - a)) - d)
      BY <1>7, <2>3, <2>4
    <3>2. o + (b - a) - ((d + (b - a)) - d) = o
      OBVIOUS
    <3>. QED
      BY <3>1, <3>2
  <2>6. pendingInts' \in Seq(Segs(n)) /\ owed' = Amount(pendingInts')
    BY <1>5, <2>1, <2>4, <2>5
  <2>7. store' \subseteq 0 .. MaxByte
    BY <2>1 DEF ServerInv
  <2>8. store' \ store = {}
    BY <2>1
  <2>. QED
    BY <1>7, <2>2, <2>6, <2>7, <2>8 DEF ServerInv
<1>9. CASE e # b
  <2>1. PICK data : data = [start |-> e, end |-> provided]
    OBVIOUS
  <2>2. PICK x : x = [start |-> e, end |-> b]
    OBVIOUS
  <2>3. PICK ints : ints = Append(ps, x)
    OBVIOUS
  <2>4. /\ e < provided /\ provided <= b
        /\ store' = store \cup Server!Span(data)
        /\ pendingInts' = Server!Pending(ints, data)
        /\ Server!Queue(cached \o Server!Notified(ints, data))
    BY <1>1, <1>2, <1>3, <1>5, <1>9, <2>1, <2>2, <2>3 DEF Server!InputInt
  <2>5. provided \in Nat /\ data.start \in Nat /\ data.end \in Nat /\ data.start < data.end
    BY <2>1, <2>4, PathNumbersHold DEF PathNumbers
  <2>6. x \in Segs(n) /\ Size(x) = b - e
    BY <1>1, <1>2, <1>9, <2>2 DEF Segs, Size
  <2>7. ints \in Seq(Segs(n)) /\ Amount(ints) = Amount(ps) + (b - e)
    <3>1. Amount(Append(ps, x)) = Amount(ps) + Size(x)
      BY <1>6, <2>6, AppendBytes
    <3>. QED
      BY <2>3, <2>6, <3>1
  <2>8. PICK ps2, ts : ps2 = Server!Pending(ints, data) /\ ts = Server!Notified(ints, data)
    OBVIOUS
  <2>9. ps2 \in Seq(Segs(n)) /\ ts \in Seq(DataSegs(n)) /\ Amount(ps2) + Amount(ts) = Amount(ints)
        /\ Covered(ps2) \cap Span(data) = {}
    BY <2>5, <2>7, <2>8, PendingBytes
  <2>10. cached \o ts \in Seq(DataSegs(n)) /\ Amount(cached \o ts) = Amount(cached) + Amount(ts)
    BY <1>4, <1>6, <2>9, AmountJoin
  <2>11. Server!Queue(cached \o ts)
    BY <2>4, <2>8
  <2>12. sndQueue' \in Seq(DataSegs(n)) /\ sndQueueBytes' = Server!Weight(sndQueue')
         /\ Amount(sndQueue') = Amount(sndQueue) + Amount(cached \o ts)
    BY <2>10, <2>11, ServerQueues
  <2>13. Amount(ps2) \in Nat /\ Amount(ts) \in Nat
    BY <1>6, <2>9, AmountType
  <2>14. owed' = Amount(ps2)
    <3>1. PICK d \in Nat, o \in Nat, u \in Nat, v \in Nat :
            d = Amount(q) /\ o = Amount(ps) /\ u = Amount(ps2) /\ v = Amount(ts)
      BY <1>6, <2>13
    <3>2. u + v = o + (b - e)
      BY <2>7, <2>9, <3>1
    <3>3. Amount(sndQueue') = d + ((e - a) + v)
      BY <1>4, <1>5, <2>10, <2>12, <3>1
    <3>4. owed' = o + (b - a) - ((d + ((e - a) + v)) - d)
      BY <1>5, <1>7, <3>1, <3>3
    <3>5. o + (b - a) - ((d + ((e - a) + v)) - d) = u
      BY <3>2
    <3>. QED
      BY <3>1, <3>4, <3>5
  <2>15. store' \subseteq 0 .. MaxByte /\ store' \ store \subseteq Span(data)
    <3>1. Server!Span(data) = e .. provided - 1 /\ Span(data) = e .. provided - 1
      BY <2>1 DEF Server!Span, Span
    <3>2. e .. provided - 1 \subseteq 0 .. MaxByte
      BY <2>4, <2>5, PathNumbersHold DEF PathNumbers
    <3>3. store \subseteq 0 .. MaxByte
      BY DEF ServerInv
    <3>. QED
      BY <2>4, <3>1, <3>2, <3>3
  <2>16. pendingInts' = ps2
    BY <2>4, <2>8
  <2>17. Covered(pendingInts') \cap (store' \ store) = {}
    BY <2>9, <2>15, <2>16
  <2>. QED
    BY <1>7, <2>9, <2>12, <2>14, <2>15, <2>16, <2>17 DEF ServerInv
<1>. QED
  BY <1>8, <1>9

(* A flush spends no more than its credit, and what it sends leaves the    *)
(* queue and its count.                                                    *)
LEMMA ServerFlushInv ==
  ASSUME NEW n \in Nat, ServerInv(n), NEW newOutput \in DataOutputs, NEW k \in 0 .. Len(sndQueue),
         Server!FlushData(newOutput, k)
  PROVE  ServerInv(n)' /\ SubSeq(sndQueue, 1, k) \in Seq(DataSegs(n))
<1>1. PICK q \in Seq(DataSegs(n)) : q = sndQueue /\ sndQueueBytes = Server!Weight(q)
  BY DEF ServerInv
<1>2. PICK gone, stay : gone = SubSeq(q, 1, k) /\ stay = SubSeq(q, k + 1, Len(q))
  OBVIOUS
<1>3. /\ gone \in Seq(DataSegs(n)) /\ stay \in Seq(DataSegs(n))
      /\ Server!Weight(q) = Server!Weight(gone) + Server!Weight(stay)
  BY <1>1, <1>2, WeightCut
<1>4. PICK g \in Nat, s \in Nat : g = Server!Weight(gone) /\ s = Server!Weight(stay)
  BY <1>3, WeightIs
<1>5. sndQueue' = stay /\ sndQueueBytes' = sndQueueBytes - g
      /\ UNCHANGED <<store, pendingInts, owed>>
  BY <1>1, <1>2, <1>4 DEF Server!FlushData
<1>6. sndQueueBytes' = Server!Weight(sndQueue') /\ sndQueue' \in Seq(DataSegs(n))
  BY <1>1, <1>3, <1>4, <1>5
<1>7. dataOutputLimit' \in Nat
  <2>1. PICK c \in Nat, o \in Nat : c = dataOutputLimit + newOutput /\ o = newOutput
    BY PathAssumption DEF ServerInv
  <2>2. g <= c
    BY <1>1, <1>2, <1>4, <2>1 DEF Server!FlushData, Server!SendsExactly
  <2>3. dataOutputLimit' = IF k = Len(q) THEN Lower(c - g, o) ELSE c - g
    BY <1>1, <1>2, <1>4, <2>1, SameLower DEF Server!FlushData, Server!CreditAfter
  <2>4. c - g \in Nat
    BY <2>2
  <2>5. Lower(c - g, o) \in Nat
    BY <2>4 DEF Lower
  <2>. QED
    BY <2>3, <2>4, <2>5
<1>. QED
  BY <1>1, <1>2, <1>3, <1>5, <1>6, <1>7 DEF ServerInv

LEMMA ServerDropInv ==
  ASSUME NEW n \in Nat, ServerInv(n), Server!DropBlock
  PROVE  ServerInv(n)' /\ store' \subseteq store
BY DEF ServerInv, Server!DropBlock

LEMMA ServerGrows ==
  ASSUME NEW m \in Nat, NEW n \in Nat, m <= n, ServerInv(m)
  PROVE  ServerInv(n)
BY SegsGrow, DataSegsGrow DEF ServerInv

-----------------------------------------------------------------------------
(* Datagrams: at least one segment, and no longer than LEOTP_MTU.          *)
Grams(n) == {d \in Seq(DataSegs(n)) : d # <<>> /\ Server!Weight(d) <= Server!LEOTP_MTU}

Packed(g, x) ==
  IF Len(g) = 0 \/ Server!NoRoom(g[Len(g)], x)
  THEN Append(g, <<x>>)
  ELSE [g EXCEPT ![Len(g)] = Append(@, x)]

LEMMA PackedFits ==
  ASSUME NEW n \in Nat, NEW g \in Seq(Grams(n)), NEW x \in DataSegs(n)
  PROVE  Packed(g, x) \in Seq(Grams(n))
<1>1. PICK o \in Seq(DataSegs(n)) : o = <<x>>
  <2>1. PICK T : T = DataSegs(n)
    OBVIOUS
  <2>2. PICK o : o = <<x>>
    OBVIOUS
  <2>3. x \in T
    BY <2>1
  <2>4. o \in Seq(T)
    BY <2>2, <2>3
  <2>. QED
    BY <2>1, <2>2, <2>4
<1>2. Server!LEOTP_MTU \in Nat /\ Server!Weight(o) <= Server!LEOTP_MTU
  <2>1. PICK w \in Nat, c \in Nat, m \in Nat : w = x.len /\ c = LEOTP_OVERHEAD /\ m = LEOTP_MSS /\ w <= m
    BY DataSegFacts, PathNumbersHold DEF PathNumbers
  <2>2. WeightOf(SegFn(n), <<x>>) = SegFn(n)[x]
    BY SegFnType, WeightOne
  <2>3. SegFn(n)[x] = c + w
    BY <2>1 DEF SegFn
  <2>4. Server!Weight(o) = c + w
    BY <1>1, <2>2, <2>3, WeightIs
  <2>5. Server!LEOTP_MTU = m + c
    BY <2>1 DEF Server!LEOTP_MTU
  <2>. QED
    BY <2>1, <2>4, <2>5
<1>3. o \in Grams(n)
  BY <1>1, <1>2 DEF Grams
<1>4. CASE Len(g) = 0 \/ Server!NoRoom(g[Len(g)], x)
  <2>1. Packed(g, x) = Append(g, o)
    BY <1>1, <1>4 DEF Packed
  <2>. QED
    BY <1>3, <2>1
<1>5. CASE ~ (Len(g) = 0 \/ Server!NoRoom(g[Len(g)], x))
  <2>1. Len(g) \in 1 .. Len(g)
    BY <1>5
  <2>2. PICK d \in Grams(n) : d = g[Len(g)]
    BY <2>1
  <2>3. d \in Seq(DataSegs(n)) /\ ~ Server!NoRoom(d, x)
    BY <1>5, <2>2 DEF Grams
  <2>4. PICK t : t = Append(d, x)
    OBVIOUS
  <2>5. t \in Seq(DataSegs(n)) /\ t = d \o o /\ t # <<>>
    BY <1>1, <2>3, <2>4
  <2>6. Server!Weight(d \o o) = Server!Weight(d) + Server!Weight(o)
    BY <2>3, WeightsJoin
  <2>7. Server!Weight(d) + Server!Weight(o) <= Server!LEOTP_MTU
    <3>1. PICK u \in Nat, v \in Nat : u = Server!Weight(d) /\ v = Server!Weight(o)
      BY <2>3, WeightIs
    <3>2. ~ (u + v > Server!LEOTP_MTU)
      BY <1>1, <2>3, <3>1 DEF Server!NoRoom
    <3>. QED
      BY <1>2, <3>1, <3>2
  <2>8. t \in Grams(n)
    BY <2>5, <2>6, <2>7 DEF Grams
  <2>9. Packed(g, x) = [g EXCEPT ![Len(g)] = t]
    BY <1>5, <2>2, <2>4 DEF Packed
  <2>. QED
    BY <2>1, <2>8, <2>9
<1>. QED
  BY <1>4, <1>5

(* f has the datagrams after each of the segments.                         *)
Packing(n, segs, f) ==
  /\ \A i \in 0 .. Len(segs) : f[i] \in Seq(Grams(n))
  /\ f[0] = <<>> /\ \A i \in 1 .. Len(segs) : f[i] = Packed(f[i - 1], segs[i])

LEMMA DatagramsSteps ==
  ASSUME NEW n \in Nat, NEW segs \in Seq(DataSegs(n))
  PROVE  \E f : Packing(n, segs, f) /\ Server!Datagrams(segs) = f[Len(segs)]
<1>. DEFINE S == Seq(Grams(n))
            Step(f, i) == IF i = 0 THEN <<>> ELSE Packed(f[i - 1], segs[i])
            f == CHOOSE f : f = [i \in 0 .. Len(segs) |-> Step(f, i)]
            G == [q \in S \X Nat |-> IF q[2] \in 1 .. Len(segs) THEN Packed(q[1], segs[q[2]]) ELSE <<>>]
<1>0. Len(segs) \in Nat /\ <<>> \in S
  OBVIOUS
<1>1. ASSUME NEW x \in S, NEW i \in 1 .. Len(segs)
      PROVE  Packed(x, segs[i]) \in S
  BY PackedFits
<1>2. G \in [S \X Nat -> S]
  <2>. HIDE DEF S
  <2>. QED
    BY <1>0, <1>1
<1>3. ASSUME NEW x \in S, NEW i \in 1 .. Len(segs)
      PROVE  G[<<x, i>>] = Packed(x, segs[i])
  <2>1. <<x, i>> \in S \X Nat
    OBVIOUS
  <2>. QED
    BY <2>1
<1>. HIDE DEF G, S
<1>4. PICK h \in [0 .. Len(segs) -> S] :
        h[0] = <<>> /\ \A i \in 1 .. Len(segs) : h[i] = G[<<h[i - 1], i>>]
  <2>1. Solvable(Len(segs), S, <<>>, G)
    BY <1>0, <1>2, RecursionExists
  <2>. QED
    BY <2>1 DEF Solvable
<1>5. ASSUME NEW i \in 1 .. Len(segs)
      PROVE  i - 1 \in 0 .. Len(segs) /\ h[i - 1] \in S /\ h[i] = Packed(h[i - 1], segs[i])
  <2>1. i - 1 \in 0 .. Len(segs)
    OBVIOUS
  <2>2. h[i - 1] \in S
    BY <1>4, <2>1
  <2>. QED
    BY <1>3, <1>4, <2>1, <2>2
<1>6. h = [i \in 0 .. Len(segs) |-> Step(h, i)]
  <2>1. ASSUME NEW i \in 0 .. Len(segs)
        PROVE  h[i] = Step(h, i)
    <3>1. CASE i = 0
      BY <1>4, <3>1
    <3>2. CASE i # 0
      <4>1. i \in 1 .. Len(segs)
        BY <3>2
      <4>. QED
        BY <1>5, <3>2, <4>1
    <3>. QED
      BY <3>1, <3>2
  <2>. HIDE DEF Step
  <2>. QED
    BY <1>4, <2>1
<1>7. f = [i \in 0 .. Len(segs) |-> Step(f, i)]
  <2>. HIDE DEF Step
  <2>. QED
    BY <1>6
<1>8. Server!Datagrams(segs) = f[Len(segs)]
  BY DEF Server!Datagrams, Packed
<1>9. f[0] = <<>> /\ \A i \in 1 .. Len(segs) : f[i] = Packed(f[i - 1], segs[i])
  <2>. HIDE DEF f
  <2>. QED
    BY <1>0, <1>7, SMTT(60)
<1>. HIDE DEF f
<1>10. \A i \in 0 .. Len(segs) : f[i] \in S
  <2>1. ASSUME NEW i \in 1 .. Len(segs), f[i - 1] \in S
        PROVE  f[i] \in S
    BY <1>1, <1>9, <2>1
  <2>. SUFFICES ASSUME NEW m \in 0 .. Len(segs) PROVE f[m] \in S
    OBVIOUS
  <2>2. m \in Nat /\ f[0] \in S /\ \A i \in 1 .. m : f[i - 1] \in S => f[i] \in S
    BY <1>0, <1>9, <2>1
  <2>. QED
    BY <2>2, RecursionStays
<1>. QED
  BY <1>8, <1>9, <1>10 DEF S, Packing

LEMMA DatagramsType ==
  ASSUME NEW n \in Nat, NEW segs \in Seq(DataSegs(n))
  PROVE  Server!Datagrams(segs) \in Seq(Grams(n))
<1>1. Len(segs) \in 0 .. Len(segs)
  OBVIOUS
<1>. QED
  BY <1>1, DatagramsSteps DEF Packing

LEMMA GramsGrow ==
  ASSUME NEW m \in Nat, NEW n \in Nat, m <= n
  PROVE  Seq(Grams(m)) \subseteq Seq(Grams(n))
<1>1. Grams(m) \subseteq Grams(n)
  BY DataSegsGrow DEF Grams
<1>. QED
  BY <1>1

-----------------------------------------------------------------------------
(* flush asks the responder only for bytes that asked then counts.         *)
SameBounds(s, t) ==
  /\ Len(s) \in Nat /\ Len(t) = Len(s)
  /\ \A i \in 1 .. Len(s) : t[i].start = s[i].start /\ t[i].end = s[i].end

LEMMA SentEndsBelow ==
  ASSUME NEW N \in Nat, NEW n \in Nat, NEW e,
         NEW s \in Seq(Ints(N)), NEW m, UnsentFrom(s, m, n, e), NEW buf, SameBounds(s, buf),
         NEW t \in Seq(Ints(N)), NEW l, UnsentFrom(t, l, n, e),
         NEW i \in 1 .. Len(buf), NEW j \in 1 .. Len(t),
         buf[i].start \in Span(t[j]), t[j].xmit > 0
  PROVE  buf[i].end <= n
<1>1. /\ i \in 1 .. Len(s) /\ s[i].start = buf[i].start /\ s[i].end = buf[i].end
      /\ s[i].start \in Nat
  <2>1. i \in 1 .. Len(s) /\ s[i].start = buf[i].start /\ s[i].end = buf[i].end
    BY DEF SameBounds
  <2>2. s[i] \in Ints(N)
    BY <2>1
  <2>. QED
    BY <2>1, <2>2 DEF Ints
<1>2. t[j].end <= n /\ t[j].end \in Nat /\ t[j].start \in Nat
  <2>1. t[j] \in Ints(N)
    OBVIOUS
  <2>2. l \in 0 .. Len(t) /\ (j \in l + 1 .. Len(t) => t[j].xmit = 0)
    BY DEF UnsentFrom
  <2>3. j \in 1 .. l
    BY <2>2
  <2>. QED
    BY <2>1, <2>3 DEF UnsentFrom, Ints
<1>3. s[i].start < n
  BY <1>1, <1>2 DEF Span
<1>4. m \in 0 .. Len(s)
  BY DEF UnsentFrom
<1>5. i \notin m + 1 .. Len(s)
  <2>1. \A k \in m + 1 .. Len(s) : n <= s[k].start
    BY UnsentOrder
  <2>. QED
    BY <1>1, <1>3, <2>1
<1>6. i \in 1 .. m
  BY <1>1, <1>4, <1>5
<1>. QED
  BY <1>1, <1>6 DEF UnsentFrom

LEMMA SentSameBounds ==
  ASSUME NEW n \in Nat, NEW buf \in Seq(Ints(n)), NEW need, NEW sent, IsSent(sent, buf, need)
  PROVE  sent \in Seq(Ints(n)) /\ SameBounds(sent, buf)
<1>1. Len(buf) \in Nat
  OBVIOUS
<1>2. /\ sent \in Seq(Ints(n)) /\ Len(sent) = Len(buf)
      /\ \A i \in 1 .. Len(buf) :
           /\ sent[i].start = buf[i].start /\ sent[i].end = buf[i].end
           /\ i \notin need => sent[i] = buf[i]
  BY SentFields
<1>. QED
  BY <1>1, <1>2 DEF SameBounds

LEMMA FlushedBelow ==
  ASSUME CreditInv, Up, Flush, NEW buf, buf = intBuf \o NewInterests
  PROVE  \A i \in 1 .. Len(buf), j \in 1 .. Len(intBuf') :
           buf[i].start \in Span(intBuf'[j]) /\ intBuf'[j].xmit > 0 => buf[i].end <= asked'
<1>1. /\ sendStart \in Nat /\ asked \in 0 .. sendStart /\ asked \in Nat
      /\ intBuf \in Seq(Ints(sendStart)) /\ NewInterests \in Seq(Ints(sendStart))
      /\ dataNextRangeStart \in Nat /\ dataNextRangeStart <= asked
      /\ dataHoles \in SortedBelow(Gaps, dataNextRangeStart)
  BY NewInterestsType DEF CreditInv, TypeInv, Limits, ByteInv, HolesInv, StreamInv, ListTypes, NumberTypes
<1>2. intBuf' \in Seq(Ints(sendStart)) /\ asked' \in asked .. sendStart
  BY FlushTypes DEF CreditInv, TypeInv, ByteInv, StreamInv
<1>3. buf \in Seq(Ints(sendStart)) /\ Len(buf) \in Nat
      /\ \A i \in 1 .. Len(buf) : buf[i] \in Ints(sendStart)
  BY <1>1
<1>4. PICK m : UnsentFrom(buf, m, asked, sendStart)
  BY NewUnsent DEF CreditInv, UnsentKept, TypeInv, ByteInv
<1>5. SameBounds(buf, buf)
  BY <1>3 DEF SameBounds
<1>6. PICK N \in Nat, a \in Nat, b \in Nat, t \in Seq(Ints(sendStart)) :
        N = sendStart /\ a = asked /\ b = asked' /\ t = intBuf' /\ a <= b
  BY <1>1, <1>2
<1>7. (\E l : UnsentFrom(t, l, a, N)) =>
        \A i \in 1 .. Len(buf), j \in 1 .. Len(t) :
           buf[i].start \in Span(t[j]) /\ t[j].xmit > 0 => buf[i].end <= b
  <2>. SUFFICES ASSUME NEW l, UnsentFrom(t, l, a, N),
                       NEW i \in 1 .. Len(buf), NEW j \in 1 .. Len(t),
                       buf[i].start \in Span(t[j]), t[j].xmit > 0
                PROVE  buf[i].end <= b
    OBVIOUS
  <2>1. buf \in Seq(Ints(N)) /\ UnsentFrom(buf, m, a, N) /\ t \in Seq(Ints(N))
    BY <1>3, <1>4, <1>6
  <2>2. buf[i].end <= a
    BY <1>5, <2>1, SentEndsBelow
  <2>3. buf[i].end \in Nat
    BY <1>3 DEF Ints
  <2>. QED
    BY <1>6, <2>2, <2>3, SMTT(60)
<1>8. CASE FlushDataHoles(buf, dataHoles) /\ UNCHANGED <<intOutputLimit, asked>>
  <2>1. dataNextRangeStart \in 0 .. asked
    BY <1>1
  <2>2. \E l : UnsentFrom(intBuf', l, asked, sendStart)
    BY <1>1, <1>3, <1>4, <1>8, <2>1, FlushDataHolesUnsent
  <2>. QED
    BY <1>6, <1>7, <2>2
<1>9. ASSUME NEW newOutput \in NewOutputs, NEW k \in 0 .. Len(buf), NEW need, NEW sent,
             FlushSends(buf, newOutput, k, need, sent)
      PROVE  \A i \in 1 .. Len(buf), j \in 1 .. Len(intBuf') :
               buf[i].start \in Span(intBuf'[j]) /\ intBuf'[j].xmit > 0 => buf[i].end <= asked'
  <2>1. CASE intBuf' = buf
    <3>1. UnsentFrom(t, m, a, N)
      BY <1>4, <1>6, <2>1
    <3>. QED
      BY <1>6, <1>7, <3>1
  <2>2. CASE FlushDataHoles(sent, RecutAll(dataHoles, Pick(buf, need), DeleteDataHole))
    <3>1. need = NeedSend(buf) \cap 1 .. k /\ IsSent(sent, buf, need)
          /\ b = Highest({a} \cup {buf[i].end : i \in need})
      BY <1>6, <1>9 DEF FlushSends
    <3>2. UnsentFrom(sent, Higher(m, k), b, N)
      <4>1. SendsUnsent(buf, a, k, need, sent, b)
        BY <3>1 DEF SendsUnsent
      <4>2. buf \in Seq(Ints(N)) /\ UnsentFrom(buf, m, a, N)
        BY <1>3, <1>4, <1>6
      <4>. QED
        BY <4>1, <4>2, SentUnsent
    <3>3. sent \in Seq(Ints(N)) /\ SameBounds(sent, buf)
      <4>1. buf \in Seq(Ints(N))
        BY <1>3, <1>6
      <4>2. IsSent(sent, buf, need)
        BY <3>1
      <4>. QED
        BY <4>1, <4>2, SentSameBounds
    <3>4. PICK rs \in Seq(Ints(N)) : rs = Pick(buf, need)
      BY <1>3, <1>6, PickType
    <3>5. Len(rs) \in Nat
          /\ \A i \in 1 .. Len(rs) : rs[i].start \in Nat /\ rs[i].end \in Nat /\ rs[i].start < rs[i].end
      <4>1. \A i \in 1 .. Len(rs) : rs[i] \in Ints(N)
        OBVIOUS
      <4>. QED
        BY <4>1 DEF Ints
    <3>6. PICK holes : holes = RecutAll(dataHoles, rs, DeleteDataHole)
      OBVIOUS
    <3>7. holes \in SortedBelow(Gaps, dataNextRangeStart)
      BY <1>1, <3>5, <3>6, DeleteAllSorted
    <3>8. FlushDataHoles(sent, holes)
      BY <2>2, <3>4, <3>6
    <3>9. dataNextRangeStart \in 0 .. b
      BY <1>1, <1>6
    <3>10. PICK l : UnsentFrom(t, l, b, N)
      <4>1. \E l : UnsentFrom(intBuf', l, b, N)
        BY <3>2, <3>3, <3>7, <3>8, <3>9, FlushDataHolesUnsent
      <4>. QED
        BY <1>6, <4>1
    <3>12. t \in Seq(Ints(N))
      BY <1>6
    <3>11. ASSUME NEW i \in 1 .. Len(buf), NEW j \in 1 .. Len(t),
                  buf[i].start \in Span(t[j]), t[j].xmit > 0
           PROVE  buf[i].end <= b
      BY <3>2, <3>3, <3>10, <3>11, <3>12, SentEndsBelow
    <3>. QED
      BY <1>6, <3>11
  <2>. QED
    BY <1>9, <2>1, <2>2 DEF FlushSends
<1>. QED
  BY <1>8, <1>9, FlushCases

LEMMA AskType ==
  ASSUME NEW n \in Nat, NEW s, Len(s) \in Nat,
         \A i \in 1 .. Len(s) : s[i].start \in Nat /\ s[i].end \in Nat /\ s[i].start < s[i].end
                                /\ s[i].end <= n
  PROVE  Ask(s) \in Seq(Segs(n))
<1>1. \A i \in 1 .. Len(s) : Seg(s[i].start, s[i].end) \in Segs(n)
  BY DEF Seg, Segs
<1>. QED
  BY <1>1 DEF Ask

LEMMA FlushAsks ==
  ASSUME CreditInv, Up, Flush
  PROVE  Ask(FlushedInterests \o FlushedHoles) \in Seq(Segs(asked'))
<1>1. /\ sendStart \in Nat /\ asked \in Nat
      /\ intBuf \in Seq(Ints(sendStart)) /\ NewInterests \in Seq(Ints(sendStart))
      /\ dataNextRangeStart \in Nat /\ dataNextRangeStart <= asked
      /\ dataHoles \in SortedBelow(Gaps, dataNextRangeStart)
  BY NewInterestsType DEF CreditInv, TypeInv, Limits, ByteInv, HolesInv, StreamInv, ListTypes, NumberTypes
<1>2. asked' \in asked .. sendStart /\ intBuf' \in Seq(Ints(sendStart))
  BY FlushTypes DEF CreditInv, TypeInv, ByteInv, StreamInv
<1>3. PICK n \in Nat : n = asked' /\ asked <= n
  BY <1>1, <1>2
<1>4. PICK buf : buf = intBuf \o NewInterests
  OBVIOUS
<1>18. buf \in Seq(Ints(sendStart))
  BY <1>1, <1>4
<1>5. PICK S : /\ FlushedInterests = Pick(buf, S)
               /\ \A i \in S : i \in 1 .. Len(buf) /\ \E j \in 1 .. Len(intBuf') :
                    buf[i].start \in Span(intBuf'[j]) /\ intBuf'[j].xmit > buf[i].xmit
  <2>. DEFINE R == {i \in 1 .. Len(buf) : \E y \in {intBuf'[j] : j \in 1 .. Len(intBuf')} :
                      buf[i].start \in Span(y) /\ y.xmit > buf[i].xmit}
  <2>1. FlushedInterests = Pick(buf, R)
    BY <1>4 DEF FlushedInterests
  <2>2. \A i \in R : i \in 1 .. Len(buf) /\ \E j \in 1 .. Len(intBuf') :
                    buf[i].start \in Span(intBuf'[j]) /\ intBuf'[j].xmit > buf[i].xmit
    OBVIOUS
  <2>. HIDE DEF R
  <2>. QED
    BY <2>1, <2>2
<1>. DEFINE T == {x \in Ints(sendStart) : x.end <= n}
<1>6. \A i \in 1 .. Len(buf) : i \in S => buf[i] \in T
  <2>. SUFFICES ASSUME NEW i \in 1 .. Len(buf), i \in S PROVE buf[i] \in T
    OBVIOUS
  <2>1. PICK j \in 1 .. Len(intBuf') :
          buf[i].start \in Span(intBuf'[j]) /\ intBuf'[j].xmit > buf[i].xmit
    BY <1>5
  <2>2. buf[i] \in Ints(sendStart) /\ intBuf'[j] \in Ints(sendStart)
    BY <1>2, <1>18
  <2>3. intBuf'[j].xmit > 0
    <3>1. PICK u \in Nat, v \in Nat : u = buf[i].xmit /\ v = intBuf'[j].xmit
      BY <2>2 DEF Ints
    <3>2. v > u
      BY <2>1, <3>1
    <3>. QED
      BY <3>1, <3>2
  <2>4. buf[i].end <= asked'
    BY <1>4, <2>1, <2>3, FlushedBelow
  <2>. QED
    BY <1>3, <2>2, <2>4
<1>. HIDE DEF T
<1>7. PICK fi \in Seq(T) : fi = FlushedInterests
  <2>1. Len(buf) \in Nat
    BY <1>18
  <2>. QED
    BY <1>5, <1>6, <2>1, PickMembers
<1>8. Len(fi) \in Nat
      /\ \A i \in 1 .. Len(fi) : fi[i].start \in Nat /\ fi[i].end \in Nat /\ fi[i].start < fi[i].end
                                 /\ fi[i].end <= n
  <2>1. \A i \in 1 .. Len(fi) : fi[i] \in T
    OBVIOUS
  <2>. QED
    BY <2>1 DEF T, Ints
<1>9. PICK holes : holes = RecutAll(dataHoles, fi, DeleteDataHole)
  OBVIOUS
<1>10. holes \in SortedBelow(Gaps, dataNextRangeStart)
  BY <1>1, <1>8, <1>9, DeleteAllSorted
<1>11. PICK H : FlushedHoles = Pick(holes, H)
  BY <1>7, <1>9 DEF FlushedHoles
<1>12. PICK fh : fh = FlushedHoles
  OBVIOUS
<1>13. fh \in SortedBelow(Gaps, dataNextRangeStart)
  <2>1. Sized(Gaps)
    BY DEF Sized, Gaps
  <2>. QED
    BY <1>1, <1>10, <1>11, <1>12, <2>1, PickSorted
<1>14. Len(fh) \in Nat
       /\ \A i \in 1 .. Len(fh) : fh[i].start \in Nat /\ fh[i].end \in Nat /\ fh[i].start < fh[i].end
                                  /\ fh[i].end <= n
  <2>1. fh \in Seq(Gaps) /\ \A i \in 1 .. Len(fh) : fh[i].end <= dataNextRangeStart
    BY <1>13 DEF SortedBelow
  <2>2. \A i \in 1 .. Len(fh) : fh[i] \in Gaps
    BY <2>1
  <2>3. \A i \in 1 .. Len(fh) : fh[i].start \in Nat /\ fh[i].end \in Nat /\ fh[i].start < fh[i].end
    BY <2>2 DEF Gaps
  <2>. QED
    BY <1>1, <1>3, <2>1, <2>3
<1>15. PICK s : s = fi \o fh
  OBVIOUS
<1>16. /\ Len(s) = Len(fi) + Len(fh)
       /\ \A i \in 1 .. Len(s) : s[i] = IF i <= Len(fi) THEN fi[i] ELSE fh[i - Len(fi)]
  <2>1. fh \in Seq(Gaps)
    BY <1>13 DEF SortedBelow
  <2>2. fi \in Seq(T \cup Gaps) /\ fh \in Seq(T \cup Gaps)
    BY <2>1
  <2>. QED
    BY <1>15, <2>2
<1>17. Len(s) \in Nat /\ \A i \in 1 .. Len(s) :
         s[i].start \in Nat /\ s[i].end \in Nat /\ s[i].start < s[i].end /\ s[i].end <= n
  <2>1. Len(s) \in Nat
    BY <1>8, <1>14, <1>16
  <2>2. ASSUME NEW i \in 1 .. Len(s)
        PROVE  s[i].start \in Nat /\ s[i].end \in Nat /\ s[i].start < s[i].end /\ s[i].end <= n
    <3>1. CASE i <= Len(fi)
      <4>1. i \in 1 .. Len(fi) /\ s[i] = fi[i]
        BY <1>8, <1>16, <3>1
      <4>. QED
        BY <1>8, <4>1
    <3>2. CASE ~ (i <= Len(fi))
      <4>1. i - Len(fi) \in 1 .. Len(fh) /\ s[i] = fh[i - Len(fi)]
        BY <1>8, <1>14, <1>16, <3>2
      <4>. QED
        BY <1>14, <4>1
    <3>. QED
      BY <3>1, <3>2
  <2>. QED
    BY <2>1, <2>2
<1>. QED
  BY <1>3, <1>7, <1>12, <1>15, <1>17, AskType

-----------------------------------------------------------------------------
(* The invariant: requester, responder, and what is on its way.            *)
NetInv(n) ==
  /\ toServer \in Seq(Segs(n)) /\ toClient \in Seq(Grams(n))
  /\ datagram \in Seq(DataSegs(n))

PathInv == CreditInv /\ ServerInv(asked) /\ NetInv(asked)

LEMMA CreditInvNumbers ==
  ASSUME CreditInv
  PROVE  asked \in Nat /\ MaxByte \in Nat /\ asked <= MaxByte
<1>1. asked \in 0 .. sendStart /\ sendStart \in Nat /\ sendStart <= MaxByte
  BY DEF CreditInv, TypeInv, Limits, ByteInv, StreamInv, NumberTypes
<1>2. MaxByte \in Nat
  BY PathNumbersHold DEF PathNumbers
<1>. QED
  BY <1>1, <1>2

(* Any step of the path is one of the requester, and one of the responder. *)
PathStepGood ==
  /\ PathInv' /\ [Next]_vars /\ [Server!Next]_(Server!vars)
  /\ Covered(pendingInts') \cap (store' \ store) = {}

(* The requester steps and the responder rests.                            *)
LEMMA ClientSteps ==
  ASSUME PathInv, [Next]_vars, UNCHANGED serverVars, NEW n \in Nat, asked' = n, asked <= n,
         NetInv(n)'
  PROVE  PathStepGood
<1>1. CreditInv' /\ asked \in Nat
  BY NextCreditInv, CreditInvNumbers DEF PathInv
<1>2. ServerInv(n)
  BY <1>1, ServerGrows DEF PathInv
<1>3. ServerInv(n)' /\ UNCHANGED Server!vars /\ store' = store
  BY <1>2 DEF ServerInv, serverVars, Server!vars
<1>4. store' \ store = {}
  BY <1>3
<1>5. PathInv'
  <2>1. ServerInv(n)' => ServerInv(asked)'
    BY DEF ServerInv
  <2>2. NetInv(n)' => NetInv(asked)'
    BY DEF NetInv
  <2>. QED
    BY <1>1, <1>3, <2>1, <2>2 DEF PathInv
<1>. QED
  BY <1>3, <1>4, <1>5 DEF PathStepGood

(* The responder steps and the requester rests.                            *)
LEMMA ServerSteps ==
  ASSUME PathInv, UNCHANGED clientVars, NEW n \in Nat, asked = n,
         ServerInv(n)', NetInv(n)', [Server!Next]_(Server!vars),
         Covered(pendingInts') \cap (store' \ store) = {}
  PROVE  PathStepGood
<1>1. UNCHANGED vars /\ asked' = n
  BY DEF clientVars, vars, histVars
<1>2. [Next]_vars
  BY <1>1
<1>3. CreditInv'
  BY <1>2, NextCreditInv DEF PathInv
<1>4. ServerInv(asked)' /\ NetInv(asked)'
  BY <1>1 DEF ServerInv, NetInv
<1>. QED
  BY <1>2, <1>3, <1>4 DEF PathStepGood, PathInv

LEMMA NextPathInv ==
  ASSUME PathInv, [PathNext]_pathVars
  PROVE  PathStepGood
<1>1. PICK n \in Nat : n = asked /\ n <= MaxByte
  BY CreditInvNumbers DEF PathInv
<1>2. ServerInv(n) /\ NetInv(n) /\ CreditInv
  BY <1>1 DEF PathInv
<1>3. ASSUME UNCHANGED <<serverVars, netVars>>, [Next]_vars, asked' = asked
      PROVE  PathStepGood
  <2>1. NetInv(n)'
    BY <1>2, <1>3 DEF NetInv, netVars
  <2>2. asked' = n /\ asked <= n
    BY <1>1, <1>3
  <2>. QED
    BY <1>3, <2>1, <2>2, ClientSteps
<1>4. CASE UNCHANGED pathVars
  <2>1. UNCHANGED <<serverVars, netVars>> /\ [Next]_vars /\ asked' = asked
    BY <1>4 DEF pathVars, clientVars, vars, histVars
  <2>. QED
    BY <1>3, <2>1
<1>5. CASE Client(Request)
  <2>1. UNCHANGED <<serverVars, netVars>> /\ Request
    BY <1>5 DEF Client
  <2>2. Next /\ asked' = asked
    BY <2>1 DEF Next, Request, histVars
  <2>. QED
    BY <1>3, <2>1, <2>2
<1>6. CASE Client(Recv)
  <2>1. UNCHANGED <<serverVars, netVars>> /\ Recv
    BY <1>6 DEF Client
  <2>2. Next /\ asked' = asked
    BY <2>1 DEF Next, Recv, histVars
  <2>. QED
    BY <1>3, <2>1, <2>2
<1>7. CASE Client(HoleAges)
  <2>1. UNCHANGED <<serverVars, netVars>> /\ HoleAges
    BY <1>7 DEF Client
  <2>2. Next /\ asked' = asked
    BY <2>1 DEF Next, HoleAges, histVars
  <2>. QED
    BY <1>3, <2>1, <2>2
<1>8. CASE ClientUpdate
  <2>1. UNCHANGED <<serverVars, toClient, datagram>> /\ Update(FALSE)
        /\ toServer' = toServer \o Ask(FlushedInterests \o FlushedHoles)
    BY <1>8 DEF ClientUpdate, ClientUpdateAdding, Update, UpdateAdding, Flush
  <2>2. Up /\ Flush
    BY <2>1 DEF Update, UpdateAdding, Flush
  <2>3. PICK m \in Nat : m = asked' /\ n <= m
    <3>1. asked' \in asked .. sendStart
      BY <1>2, <2>2, FlushTypes DEF CreditInv, TypeInv, ByteInv, StreamInv
    <3>. QED
      BY <1>1, <3>1
  <2>4. PICK qs \in Seq(Segs(m)) : qs = Ask(FlushedInterests \o FlushedHoles)
    BY <1>2, <2>2, <2>3, FlushAsks
  <2>5. toServer \in Seq(Segs(m)) /\ toClient \in Seq(Grams(m)) /\ datagram \in Seq(DataSegs(m))
    BY <1>2, <2>3, SegsGrow, DataSegsGrow, GramsGrow DEF NetInv
  <2>6. toServer \o qs \in Seq(Segs(m))
    BY <2>5
  <2>7. NetInv(m)'
    BY <2>1, <2>4, <2>5, <2>6 DEF NetInv
  <2>8. [Next]_vars
    BY <2>1 DEF Next
  <2>. QED
    BY <1>1, <2>1, <2>3, <2>7, <2>8, ClientSteps
<1>9. CASE ClientTimeout
  <2>1. UNCHANGED <<serverVars, toServer, toClient, datagram>> /\ InterestTimeout
    BY <1>9 DEF ClientTimeout
  <2>2. [Next]_vars /\ asked' = n
    BY <1>1, <2>1 DEF Next, InterestTimeout, histVars
  <2>3. NetInv(n)'
    BY <1>2, <2>1 DEF NetInv
  <2>. QED
    BY <1>1, <2>1, <2>2, <2>3, ClientSteps
<1>10. CASE ClientInput
  <2>1. UNCHANGED <<serverVars, toServer>>
    BY <1>10 DEF ClientInput, TakeSegment
  <2>2. PICK d \in Seq(DataSegs(n)) :
          /\ d # <<>> /\ datagram' = Tail(d)
          /\ \/ toClient' = toClient
             \/ toClient # <<>> /\ toClient' = Tail(toClient)
          /\ InputData(Seg(Head(d).start, Head(d).end))
    <3>1. CASE Unlocked
      <4>1. toClient # <<>> /\ datagram' = Tail(Head(toClient)) /\ toClient' = Tail(toClient)
            /\ InputData(Seg(Head(Head(toClient)).start, Head(Head(toClient)).end))
        BY <1>10, <3>1 DEF ClientInput, TakeSegment
      <4>2. Head(toClient) \in Grams(n)
        BY <1>2, <4>1 DEF NetInv
      <4>3. Head(toClient) \in Seq(DataSegs(n)) /\ Head(toClient) # <<>>
        BY <4>2 DEF Grams
      <4>. QED
        BY <4>1, <4>3
    <3>2. CASE ~ Unlocked
      <4>1. datagram' = Tail(datagram) /\ toClient' = toClient
            /\ InputData(Seg(Head(datagram).start, Head(datagram).end))
        BY <1>10, <3>2 DEF ClientInput, TakeSegment
      <4>2. datagram \in Seq(DataSegs(n)) /\ datagram # <<>>
        BY <1>2, <3>2 DEF NetInv, Unlocked
      <4>. QED
        BY <4>1, <4>2
    <3>. QED
      BY <3>1, <3>2
  <2>3. PICK x \in DataSegs(n) : x = Head(d)
    BY <2>2
  <2>4. Tail(d) \in Seq(DataSegs(n))
    BY <2>2
  <2>5. toClient' \in Seq(Grams(n))
    <3>1. toClient \in Seq(Grams(n))
      BY <1>2 DEF NetInv
    <3>2. toClient # <<>> => Tail(toClient) \in Seq(Grams(n))
      BY <3>1
    <3>. QED
      BY <2>2, <3>1, <3>2
  <2>6. NetInv(n)'
    BY <1>2, <2>1, <2>2, <2>4, <2>5 DEF NetInv
  <2>7. Input
    <3>1. PICK s \in Nat, e \in Nat : s = x.start /\ e = x.end /\ s < e /\ e <= n /\ e - s <= LEOTP_MSS
      BY DataSegFacts
    <3>2. InputData(Seg(s, e))
      BY <2>2, <2>3, <3>1
    <3>3. s \in 0 .. asked /\ e \in 0 .. asked
      BY <1>1, <3>1
    <3>. QED
      BY <3>1, <3>2, <3>3 DEF Input
  <2>8. [Next]_vars
    BY <2>7 DEF Next
  <2>9. asked' = n
    BY <1>1, <2>2 DEF InputData, histVars
  <2>. QED
    BY <1>1, <2>1, <2>6, <2>8, <2>9, ClientSteps
<1>11. CASE ServerInput
  <2>1. UNCHANGED <<clientVars, toClient, datagram>> /\ toServer # <<>> /\ toServer' = Tail(toServer)
    BY <1>11 DEF ServerInput
  <2>2. PICK provided \in 0 .. MaxByte : Server!InputInt(Head(toServer), provided)
    BY <1>11 DEF ServerInput, Bytes
  <2>3. Head(toServer) \in Segs(n) /\ Tail(toServer) \in Seq(Segs(n))
    <3>1. toServer \in Seq(Segs(n))
      BY <1>2 DEF NetInv
    <3>. QED
      BY <2>1, <3>1
  <2>4. PICK r \in Segs(n) : r = Head(toServer) /\ Server!InputInt(r, provided)
    BY <2>2, <2>3
  <2>5. ServerInv(n)' /\ Covered(pendingInts') \cap (store' \ store) = {}
    BY <1>2, <2>4, ServerInputInv
  <2>6. Server!Next
    <3>1. r \in Server!Ranges
      <4>1. MaxByte \in Nat
        BY PathNumbersHold DEF PathNumbers
      <4>2. PICK a \in Nat, b \in Nat : r = [start |-> a, end |-> b] /\ a < b /\ b <= n
        BY DEF Segs
      <4>3. a \in Server!Bytes /\ b \in Server!Bytes
        BY <1>1, <4>1, <4>2 DEF Server!Bytes
      <4>. QED
        BY <4>2, <4>3 DEF Server!Ranges
    <3>. QED
      BY <2>4, <3>1 DEF Server!Next, Server!Bytes
  <2>7. NetInv(n)'
    BY <1>2, <2>1, <2>3 DEF NetInv
  <2>. QED
    BY <1>1, <2>1, <2>5, <2>6, <2>7, ServerSteps
<1>12. CASE ServerFlush
  <2>1. UNCHANGED <<clientVars, toServer, datagram>>
    BY <1>12 DEF ServerFlush, ServerFlushAdding
  <2>2. PICK newOutput \in DataOutputs, k \in 0 .. Len(sndQueue) :
          /\ Server!FlushData(newOutput, k)
          /\ toClient' = toClient \o Server!Datagrams(SubSeq(sndQueue, 1, k))
    BY <1>12 DEF ServerFlush, ServerFlushAdding
  <2>3. ServerInv(n)' /\ SubSeq(sndQueue, 1, k) \in Seq(DataSegs(n))
    BY <1>2, <2>2, ServerFlushInv
  <2>4. PICK gs \in Seq(Grams(n)) : gs = Server!Datagrams(SubSeq(sndQueue, 1, k))
    BY <2>3, DatagramsType
  <2>5. toClient \o gs \in Seq(Grams(n))
    BY <1>2 DEF NetInv
  <2>6. NetInv(n)'
    BY <1>2, <2>1, <2>2, <2>4, <2>5 DEF NetInv
  <2>7. Server!Next
    BY <2>2 DEF Server!Next
  <2>8. store' = store
    BY <2>2 DEF Server!FlushData
  <2>9. Covered(pendingInts') \cap (store' \ store) = {}
    BY <2>8
  <2>. QED
    BY <1>1, <2>1, <2>3, <2>6, <2>7, <2>9, ServerSteps
<1>13. CASE ServerDrop
  <2>1. Server!DropBlock /\ UNCHANGED <<clientVars, netVars>>
    BY <1>13 DEF ServerDrop
  <2>2. ServerInv(n)' /\ store' \subseteq store
    BY <1>2, <2>1, ServerDropInv
  <2>3. Covered(pendingInts') \cap (store' \ store) = {}
    BY <2>2
  <2>4. NetInv(n)' /\ UNCHANGED clientVars
    BY <1>2, <2>1 DEF NetInv, netVars
  <2>5. Server!Next
    BY <2>1 DEF Server!Next
  <2>. QED
    BY <1>1, <2>2, <2>3, <2>4, <2>5, ServerSteps
<1>14. CASE Lose
  <2>1. UNCHANGED <<clientVars, serverVars, datagram>>
        /\ \/ toServer # <<>> /\ toServer' = Tail(toServer) /\ UNCHANGED toClient
           \/ toClient # <<>> /\ toClient' = Tail(toClient) /\ UNCHANGED toServer
    BY <1>14 DEF Lose
  <2>2. toServer \in Seq(Segs(n)) /\ toClient \in Seq(Grams(n))
    BY <1>2 DEF NetInv
  <2>3. /\ toServer # <<>> => Tail(toServer) \in Seq(Segs(n))
        /\ toClient # <<>> => Tail(toClient) \in Seq(Grams(n))
    BY <2>2
  <2>4. NetInv(n)'
    BY <1>2, <2>1, <2>2, <2>3 DEF NetInv
  <2>5. UNCHANGED serverVars /\ UNCHANGED clientVars
    BY <2>1
  <2>6. [Next]_vars /\ asked' = n
    BY <1>1, <2>5 DEF clientVars, vars, histVars
  <2>. QED
    BY <1>1, <2>4, <2>5, <2>6, ClientSteps
<1>. QED
  BY <1>4, <1>5, <1>6, <1>7, <1>8, <1>9, <1>10, <1>11, <1>12, <1>13, <1>14 DEF PathNext

LEMMA InitPathInv == PathInit => PathInv
<1>. SUFFICES ASSUME PathInit PROVE PathInv
  OBVIOUS
<1>1. CreditInv /\ asked = 0
  BY InitCreditInv DEF PathInit, Init
<1>2. NetInv(0)
  BY DEF PathInit, NetInit, NetInv
<1>3. ServerInv(0)
  <2>1. store = {} /\ pendingInts = <<>> /\ sndQueue = <<>> /\ sndQueueBytes = 0
        /\ dataOutputLimit = LEOTP_MSS /\ owed = 0
    BY DEF PathInit, Server!Init
  <2>2. <<>> \in Seq(DataSegs(0)) /\ <<>> \in Seq(Segs(0))
    OBVIOUS
  <2>3. Server!Weight(<<>>) = 0
    BY <2>2, WeightIs, WeightEmpty
  <2>4. LEOTP_MSS \in Nat
    BY PathNumbersHold DEF PathNumbers
  <2>. QED
    BY <2>1, <2>2, <2>3, <2>4, AmountNone DEF ServerInv
<1>. QED
  BY <1>1, <1>2, <1>3 DEF PathInv

LEMMA PathInvMeans ==
  PathInv => ServerTypeOK /\ EachInterestOnce /\ SndQueueAccounted /\ DatagramsFit
<1>. SUFFICES ASSUME PathInv PROVE ServerTypeOK /\ EachInterestOnce /\ SndQueueAccounted /\ DatagramsFit
  OBVIOUS
<1>1. PICK n \in Nat : n = asked /\ n <= MaxByte /\ MaxByte \in Nat
  BY CreditInvNumbers DEF PathInv
<1>2. ServerInv(n) /\ NetInv(n)
  BY <1>1 DEF PathInv
<1>3. Segs(n) \subseteq Server!Ranges
  <2>. SUFFICES ASSUME NEW r \in Segs(n) PROVE r \in Server!Ranges
    OBVIOUS
  <2>1. PICK a \in Nat, b \in Nat : r = [start |-> a, end |-> b] /\ a < b /\ b <= n
    BY DEF Segs
  <2>2. a \in Server!Bytes /\ b \in Server!Bytes
    BY <1>1, <2>1 DEF Server!Bytes
  <2>. QED
    BY <2>1, <2>2 DEF Server!Ranges
<1>4. pendingInts \in Seq(Server!Ranges)
  BY <1>2, <1>3 DEF ServerInv
<1>5. sndQueue \in Seq({Server!Data(r.start, r.end) : r \in Server!Ranges})
  <2>1. DataSegs(n) \subseteq {Server!Data(r.start, r.end) : r \in Server!Ranges}
    BY <1>3 DEF DataSegs
  <2>. QED
    BY <1>2, <2>1 DEF ServerInv
<1>6. owed \in Nat /\ sndQueueBytes \in Nat
  <2>1. Amount(pendingInts) \in Nat
    BY <1>2, DataSegsSized, AmountType DEF ServerInv
  <2>2. Server!Weight(sndQueue) \in Nat
    BY <1>2, WeightIs DEF ServerInv
  <2>. QED
    BY <1>2, <2>1, <2>2 DEF ServerInv
<1>7. ServerTypeOK
  BY <1>2, <1>4, <1>5, <1>6 DEF ServerTypeOK, Server!TypeOK, ServerInv, Server!Bytes
<1>8. EachInterestOnce /\ SndQueueAccounted
  BY <1>2, SameSize DEF ServerInv, EachInterestOnce, Server!EachInterestOnce,
                        SndQueueAccounted, Server!SndQueueAccounted
<1>9. DatagramsFit
  <2>1. \A i \in 1 .. Len(toClient) : toClient[i] \in Grams(n)
    BY <1>2 DEF NetInv
  <2>. QED
    BY <2>1 DEF DatagramsFit, Grams
<1>. QED
  BY <1>7, <1>8, <1>9

LEMMA PathInvStays == PathSpec => []PathInv
<1>1. PathInv /\ [PathNext]_pathVars => PathInv'
  BY NextPathInv DEF PathStepGood
<1>. QED
  BY <1>1, InitPathInv, PTL DEF PathSpec

-----------------------------------------------------------------------------
(* Retries.  Every cut leaves parts: bytes of the interest, transmitted as *)
(* often, and late only if it was.                                         *)
PartOf(y, x) == Span(y) \subseteq Span(x) /\ y.xmit = x.xmit /\ (y.late => x.late)

PartsIn(t, s) == \A y \in Elements(t) : \E x \in Elements(s) : PartOf(y, x)

(* Each byte is still asked for, by an interest transmitted as often.      *)
KeepsCounts(t, s) ==
  \A x \in Elements(s) : \A b \in Span(x) :
    \E y \in Elements(t) : b \in Span(y) /\ y.xmit = x.xmit

LEMMA CutIsPart ==
  ASSUME NEW n \in Nat, NEW x \in Ints(n), NEW r, r.start \in Nat, r.end \in Nat, r.start < r.end
  PROVE  \A y \in Elements(Before(x, r)) \cup Elements(Inside(x, r)) \cup Elements(After(x, r)) :
           PartOf(y, x)
<1>1. PICK a \in Nat, b \in Nat, k \in Nat, l \in BOOLEAN :
        x = [start |-> a, end |-> b, xmit |-> k, late |-> l]
  BY DEF Ints
<1>2. ASSUME NEW c \in Nat, NEW d \in Nat, a <= c, d <= b
      PROVE  PartOf([start |-> c, end |-> d, xmit |-> k, late |-> l], x)
  BY <1>1, <1>2 DEF PartOf, Span
<1>3. ASSUME NEW y \in Elements(Before(x, r)) PROVE PartOf(y, x)
  <2>1. x.start < r.start /\ y = [x EXCEPT !.end = Lower(@, r.start)]
    BY <1>3 DEF Elements, Before
  <2>2. PICK d \in Nat : d = Lower(b, r.start) /\ d <= b
    BY DEF Lower
  <2>3. y = [start |-> a, end |-> d, xmit |-> k, late |-> l]
    BY <1>1, <2>1, <2>2
  <2>. QED
    BY <1>2, <2>2, <2>3
<1>4. ASSUME NEW y \in Elements(Inside(x, r)) PROVE PartOf(y, x)
  <2>1. y = [x EXCEPT !.start = Higher(@, r.start), !.end = Lower(@, r.end)]
    BY <1>4 DEF Elements, Inside
  <2>2. PICK c \in Nat, d \in Nat : c = Higher(a, r.start) /\ a <= c /\ d = Lower(b, r.end) /\ d <= b
    BY DEF Lower, Higher
  <2>3. y = [start |-> c, end |-> d, xmit |-> k, late |-> l]
    BY <1>1, <2>1, <2>2
  <2>. QED
    BY <1>2, <2>2, <2>3
<1>5. ASSUME NEW y \in Elements(After(x, r)) PROVE PartOf(y, x)
  <2>1. y = [x EXCEPT !.start = Higher(@, r.end)]
    BY <1>5 DEF Elements, After
  <2>2. PICK c \in Nat : c = Higher(a, r.end) /\ a <= c
    BY DEF Higher
  <2>3. y = [start |-> c, end |-> b, xmit |-> k, late |-> l]
    BY <1>1, <2>1, <2>2
  <2>. QED
    BY <1>2, <2>2, <2>3
<1>. QED
  BY <1>3, <1>4, <1>5

(* What parseData and updateIntBuf make of an interest are parts of it.    *)
LEMMA PiecesAreParts ==
  ASSUME NEW n \in Nat, NEW x \in Ints(n), NEW r, r.start \in Nat, r.end \in Nat, r.start < r.end
  PROVE  /\ \A y \in Elements(Unanswered(x, r)) : PartOf(y, x)
         /\ \A y \in Elements(RestampParts(x, r)) : PartOf(y, x)
<1>1. Before(x, r) \in Seq(Ints(n)) /\ Inside(x, r) \in Seq(Ints(n)) /\ After(x, r) \in Seq(Ints(n))
  BY IntPieces
<1>2. PICK a, b, c : a = Before(x, r) /\ b = Inside(x, r) /\ c = After(x, r)
  OBVIOUS
<1>3. \A y \in Elements(a) \cup Elements(b) \cup Elements(c) : PartOf(y, x)
  BY <1>2, CutIsPart
<1>4. a \in Seq(Ints(n)) /\ b \in Seq(Ints(n)) /\ c \in Seq(Ints(n))
  BY <1>1, <1>2
<1>5. PICK z : z = IF b = <<>> THEN <<>> ELSE <<[b[1] EXCEPT !.late = FALSE]>>
  OBVIOUS
<1>6. z \in Seq(Ints(n)) /\ \A y \in Elements(z) : PartOf(y, x)
  <2>1. CASE b = <<>>
    BY <1>5, <2>1 DEF Elements
  <2>2. CASE b # <<>>
    <3>1. b[1] \in Ints(n) /\ b[1] \in Elements(b)
      BY <1>4, <2>2 DEF Elements
    <3>2. PICK u : u = b[1]
      OBVIOUS
    <3>3. PICK v : v = [u EXCEPT !.late = FALSE]
      OBVIOUS
    <3>4. v \in Ints(n) /\ v.start = u.start /\ v.end = u.end /\ v.xmit = u.xmit /\ v.late = FALSE
      BY <3>1, <3>2, <3>3 DEF Ints
    <3>5. PartOf(u, x)
      BY <1>3, <3>1, <3>2
    <3>6. PartOf(v, x)
      BY <3>4, <3>5 DEF PartOf, Span
    <3>7. z = <<v>>
      BY <1>5, <2>2, <3>2, <3>3
    <3>. QED
      BY <3>4, <3>6, <3>7 DEF Elements
  <2>. QED
    BY <2>1, <2>2
<1>7. Elements(c \o a) = Elements(c) \cup Elements(a)
  BY <1>4, ElementsJoin
<1>8. Elements((a \o z) \o c) = Elements(a) \cup Elements(z) \cup Elements(c)
  <2>1. a \o z \in Seq(Ints(n))
    BY <1>4, <1>6
  <2>2. Elements(a \o z) = Elements(a) \cup Elements(z)
    BY <1>4, <1>6, ElementsJoin
  <2>3. Elements((a \o z) \o c) = Elements(a \o z) \cup Elements(c)
    BY <1>4, <2>1, ElementsJoin, ZenonT(60)
  <2>. QED
    BY <2>2, <2>3
<1>9. Unanswered(x, r) = c \o a
  BY <1>2 DEF Unanswered
<1>10. RestampParts(x, r) = (a \o z) \o c
  BY <1>2, <1>5 DEF RestampParts
<1>. QED
  BY <1>3, <1>6, <1>7, <1>8, <1>9, <1>10

LEMMA PartsOfAll ==
  ASSUME NEW n \in Nat, NEW s \in Seq(Ints(n)), NEW ps,
         \A i \in 1 .. Len(s) : ps[i] \in Seq(Ints(n)) /\ \A y \in Elements(ps[i]) : PartOf(y, s[i])
  PROVE  PartsIn(Concat(Len(s), ps), s)
<1>1. Elements(Concat(Len(s), ps)) = UNION {Elements(ps[i]) : i \in 1 .. Len(s)}
  <2>1. Len(s) \in Nat /\ \A i \in 1 .. Len(s) : ps[i] \in Seq(Ints(n))
    OBVIOUS
  <2>. QED
    BY <2>1, ElementsConcat, ZenonT(60)
<1>. QED
  BY <1>1 DEF PartsIn, Elements

LEMMA WholeIsPart == ASSUME NEW x PROVE \A y \in Elements(<<x>>) : PartOf(y, x)
BY DEF Elements, PartOf

LEMMA UnansweredParts ==
  ASSUME NEW n \in Nat, NEW buf \in Seq(Ints(n)), NEW r, r.start \in Nat, r.end \in Nat, r.start < r.end
  PROVE  PartsIn(LeftOf(buf, r), buf)
<1>. DEFINE ps == [i \in 1 .. Len(buf) |-> IF i \in Scanned(buf, r) THEN Unanswered(buf[i], r) ELSE <<buf[i]>>]
<1>1. ASSUME NEW i \in 1 .. Len(buf)
      PROVE  ps[i] \in Seq(Ints(n)) /\ \A y \in Elements(ps[i]) : PartOf(y, buf[i])
  <2>1. buf[i] \in Ints(n) /\ <<buf[i]>> \in Seq(Ints(n))
    OBVIOUS
  <2>2. Before(buf[i], r) \in Seq(Ints(n)) /\ After(buf[i], r) \in Seq(Ints(n))
    BY <2>1, IntPieces
  <2>3. Unanswered(buf[i], r) \in Seq(Ints(n))
    BY <2>2 DEF Unanswered
  <2>4. ps[i] = Unanswered(buf[i], r) \/ ps[i] = <<buf[i]>>
    OBVIOUS
  <2>. HIDE DEF ps
  <2>. QED
    BY <2>1, <2>3, <2>4, PiecesAreParts, WholeIsPart
<1>2. LeftOf(buf, r) = Concat(Len(buf), ps)
  BY DEF LeftOf, Recut
<1>. HIDE DEF ps
<1>. QED
  BY <1>1, <1>2, PartsOfAll

LEMMA RestampParting ==
  ASSUME NEW n \in Nat, NEW buf \in Seq(Ints(n)), NEW h, h.start \in Nat, h.end \in Nat, h.start < h.end
  PROVE  PartsIn(Restamp(buf, h), buf) /\ KeepsCounts(Restamp(buf, h), buf)
<1>. DEFINE ps == [i \in 1 .. Len(buf) |-> IF i \in Scanned(buf, h) THEN RestampParts(buf[i], h) ELSE <<buf[i]>>]
<1>1. ASSUME NEW i \in 1 .. Len(buf)
      PROVE  /\ ps[i] \in Seq(Ints(n)) /\ \A y \in Elements(ps[i]) : PartOf(y, buf[i])
             /\ Covered(ps[i]) = Span(buf[i])
  <2>1. buf[i] \in Ints(n) /\ <<buf[i]>> \in Seq(Ints(n))
    OBVIOUS
  <2>2. ps[i] = RestampParts(buf[i], h) \/ ps[i] = <<buf[i]>>
    OBVIOUS
  <2>. HIDE DEF ps
  <2>3. CASE ps[i] = RestampParts(buf[i], h)
    BY <2>1, <2>3, PiecesAreParts, RestampPartsBytes
  <2>4. CASE ps[i] = <<buf[i]>>
    BY <2>1, <2>4, WholeIsPart, CoveredOne
  <2>. QED
    BY <2>2, <2>3, <2>4
<1>2. Restamp(buf, h) = Concat(Len(buf), ps)
  BY DEF Restamp, Recut, RestampParts
<1>. HIDE DEF ps
<1>3. PartsIn(Concat(Len(buf), ps), buf)
  BY <1>1, PartsOfAll
<1>4. Elements(Concat(Len(buf), ps)) = UNION {Elements(ps[i]) : i \in 1 .. Len(buf)}
  <2>1. Len(buf) \in Nat /\ \A i \in 1 .. Len(buf) : ps[i] \in Seq(Ints(n))
    BY <1>1
  <2>. QED
    <3>1. PICK T, fs, m : T = Ints(n) /\ fs = ps /\ m = Len(buf)
      OBVIOUS
    <3>2. m \in Nat /\ \A i \in 1 .. m : fs[i] \in Seq(T)
      BY <2>1, <3>1
    <3>3. Elements(Concat(m, fs)) = UNION {Elements(fs[i]) : i \in 1 .. m}
      BY <3>2, ElementsConcat
    <3>. QED
      BY <3>1, <3>3
<1>5. KeepsCounts(Concat(Len(buf), ps), buf)
  <2>. SUFFICES ASSUME NEW x \in Elements(buf), NEW b \in Span(x)
                PROVE  \E y \in Elements(Concat(Len(buf), ps)) : b \in Span(y) /\ y.xmit = x.xmit
    BY DEF KeepsCounts
  <2>1. PICK i \in 1 .. Len(buf) : x = buf[i]
    BY DEF Elements
  <2>2. b \in UNION {Span(y) : y \in Elements(ps[i])}
    BY <1>1, <2>1, CoveredElements
  <2>3. PICK y \in Elements(ps[i]) : b \in Span(y)
    BY <2>2
  <2>4. y.xmit = x.xmit
    BY <1>1, <2>1, <2>3 DEF PartOf
  <2>5. y \in Elements(Concat(Len(buf), ps))
    BY <1>4, <2>3
  <2>. QED
    BY <2>3, <2>4, <2>5
<1>. QED
  BY <1>2, <1>3, <1>5

(* flushDataHoles restamps parts and loses no count.                       *)
LEMMA FlushDataHolesParts ==
  ASSUME NEW n \in Nat, NEW buf \in Seq(Ints(n)), NEW holes \in Seq(Gaps),
         FlushDataHoles(buf, holes)
  PROVE  intBuf' \in Seq(Ints(n)) /\ PartsIn(intBuf', buf) /\ KeepsCounts(intBuf', buf)
<1>. DEFINE Aged(age) == {i \in 1 .. Len(holes) : holes[i].age = age}
            S == {t \in Seq(Ints(n)) : PartsIn(t, buf) /\ KeepsCounts(t, buf)}
<1>1. intBuf' = RecutAll(buf, Pick(holes, Aged("ripe")), Restamp)
  BY DEF FlushDataHoles
<1>. HIDE DEF Aged
<1>2. PICK rs \in Seq(Gaps) : rs = Pick(holes, Aged("ripe"))
  BY PickType
<1>3. Len(rs) \in Nat /\ \A i \in 1 .. Len(rs) : rs[i].start \in Nat /\ rs[i].end \in Nat /\ rs[i].start < rs[i].end
  <2>1. \A i \in 1 .. Len(rs) : rs[i] \in Gaps
    OBVIOUS
  <2>. QED
    BY <2>1 DEF Gaps
<1>4. ASSUME NEW x \in S, NEW i \in 1 .. Len(rs)
      PROVE  Restamp(x, rs[i]) \in S
  <2>1. x \in Seq(Ints(n)) /\ PartsIn(x, buf) /\ KeepsCounts(x, buf)
    OBVIOUS
  <2>2. rs[i].start \in Nat /\ rs[i].end \in Nat /\ rs[i].start < rs[i].end
    BY <1>3
  <2>3. PICK t : t = Restamp(x, rs[i])
    OBVIOUS
  <2>4. t \in Seq(Ints(n)) /\ PartsIn(t, x) /\ KeepsCounts(t, x)
    BY <2>1, <2>2, <2>3, RestampType, RestampParting
  <2>5. PartsIn(t, buf)
    <3>1. ASSUME NEW y \in Elements(t) PROVE \E z \in Elements(buf) : PartOf(y, z)
      <4>1. PICK w \in Elements(x) : PartOf(y, w)
        BY <2>4 DEF PartsIn
      <4>2. PICK z \in Elements(buf) : PartOf(w, z)
        BY <2>1 DEF PartsIn
      <4>3. PartOf(y, z)
        BY <4>1, <4>2 DEF PartOf
      <4>. QED
        BY <4>3
    <3>. QED
      BY <3>1 DEF PartsIn
  <2>6. KeepsCounts(t, buf)
    <3>1. ASSUME NEW z \in Elements(buf), NEW b \in Span(z)
          PROVE  \E y \in Elements(t) : b \in Span(y) /\ y.xmit = z.xmit
      <4>1. PICK w \in Elements(x) : b \in Span(w) /\ w.xmit = z.xmit
        BY <2>1 DEF KeepsCounts
      <4>2. PICK y \in Elements(t) : b \in Span(y) /\ y.xmit = w.xmit
        BY <2>4, <4>1 DEF KeepsCounts
      <4>. QED
        BY <4>1, <4>2
    <3>. QED
      BY <3>1 DEF KeepsCounts
  <2>. QED
    BY <2>3, <2>4, <2>5, <2>6
<1>5. buf \in S
  BY DEF PartsIn, PartOf, KeepsCounts
<1>. HIDE DEF S
<1>6. RecutAll(buf, rs, Restamp) \in S
  BY <1>3, <1>4, <1>5, RestampAllStays
<1>. QED
  BY <1>1, <1>2, <1>6 DEF S

(* With cost things gone wrong, and the answers to the bytes in ways on    *)
(* their way, an interest was transmitted at most once more; and at most   *)
(* as often, if it is about to be transmitted again or will have to be.    *)
Patient(x, cost, ways) ==
  x.xmit <= cost + 1 /\ (x.late \/ ~ (Span(x) \subseteq ways) => x.xmit <= cost)

AllPatient(s, cost, ways) == \A x \in Elements(s) : Patient(x, cost, ways)

LEMMA PatientParts ==
  ASSUME NEW n \in Nat, NEW s \in Seq(Ints(n)), NEW t, PartsIn(t, s),
         NEW c \in Nat, NEW d \in Nat, c <= d, NEW W, NEW V,
         AllPatient(s, c, W), \A y \in Elements(t) : Span(y) \subseteq W => Span(y) \subseteq V
  PROVE  AllPatient(t, d, V)
<1>. SUFFICES ASSUME NEW y \in Elements(t) PROVE Patient(y, d, V)
  BY DEF AllPatient
<1>1. PICK x \in Elements(s) : PartOf(y, x)
  BY DEF PartsIn
<1>2. Patient(x, c, W) /\ x \in Ints(n)
  BY DEF AllPatient, Elements
<1>3. PICK k \in Nat : k = x.xmit /\ k = y.xmit
  BY <1>1, <1>2 DEF PartOf, Ints
<1>4. k <= d + 1
  BY <1>2, <1>3 DEF Patient
<1>5. ASSUME y.late \/ ~ (Span(y) \subseteq V) PROVE k <= d
  <2>1. x.late \/ ~ (Span(x) \subseteq W)
    BY <1>1, <1>5 DEF PartOf
  <2>2. k <= c
    BY <1>2, <1>3, <2>1 DEF Patient
  <2>. QED
    BY <2>2
<1>. QED
  BY <1>3, <1>4, <1>5 DEF Patient

(* One more thing that goes wrong pays for a transmission of each.         *)
LEMMA PatientAgain ==
  ASSUME NEW n \in Nat, NEW s \in Seq(Ints(n)), NEW c \in Nat, NEW d \in Nat, c + 1 <= d, NEW W, NEW V,
         AllPatient(s, c, W), NEW t, PartsIn(t, s)
  PROVE  AllPatient(t, d, V)
<1>. SUFFICES ASSUME NEW y \in Elements(t) PROVE Patient(y, d, V)
  BY DEF AllPatient
<1>1. PICK x \in Elements(s) : PartOf(y, x)
  BY DEF PartsIn
<1>2. Patient(x, c, W) /\ x \in Ints(n)
  BY DEF AllPatient, Elements
<1>3. PICK k \in Nat : k = x.xmit /\ k = y.xmit
  BY <1>1, <1>2 DEF PartOf, Ints
<1>4. k <= d
  BY <1>2, <1>3 DEF Patient
<1>. QED
  BY <1>3, <1>4 DEF Patient

LEMMA PickElements ==
  ASSUME NEW T, NEW s \in Seq(T), NEW S, NEW i \in 1 .. Len(s), i \in S
  PROVE  Span(s[i]) \subseteq Covered(Pick(s, S))
<1>. DEFINE ss == [k \in 1 .. Len(s) |-> IF k \in S THEN <<s[k]>> ELSE <<>>]
<1>1. Len(s) \in Nat /\ \A k \in 1 .. Len(s) : ss[k] \in Seq(T)
  OBVIOUS
<1>2. ss[i] = <<s[i]>>
  OBVIOUS
<1>3. Pick(s, S) = Concat(Len(s), ss)
  BY DEF Pick
<1>. HIDE DEF ss
<1>4. PICK fs, m : fs = ss /\ m = Len(s)
  OBVIOUS
<1>5. Covered(Concat(m, fs)) = UNION {Covered(fs[k]) : k \in 1 .. m}
  <2>1. m \in Nat /\ \A k \in 1 .. m : fs[k] \in Seq(T)
    BY <1>1, <1>4
  <2>. QED
    BY <2>1, CoveredConcat
<1>6. Covered(fs[i]) = Span(s[i])
  BY <1>2, <1>4, CoveredOne
<1>. QED
  BY <1>3, <1>4, <1>5, <1>6

(* A flush counts a transmission only of what it sends, and sends only     *)
(* what is late or was never sent.                                         *)
LEMMA SentPatient ==
  ASSUME NEW n \in Nat, NEW x \in Ints(n), NEW c \in Nat, NEW W, NEW V, Patient(x, c, W),
         x.xmit = 0 \/ x.late, Span(x) \subseteq V
  PROVE  /\ Patient(Sent(x), c, V)
         /\ Sent(x).start = x.start /\ Sent(x).end = x.end /\ Sent(x).xmit > x.xmit
<1>1. PICK a \in Nat, b \in Nat, k \in Nat, l \in BOOLEAN :
        x = [start |-> a, end |-> b, xmit |-> k, late |-> l]
  BY DEF Ints
<1>2. Sent(x) = [[x EXCEPT !.xmit = x.xmit + 1] EXCEPT !.late = FALSE]
  BY DEF Sent
<1>3. Sent(x) = [start |-> a, end |-> b, xmit |-> k + 1, late |-> FALSE]
  BY <1>1, <1>2
<1>4. k <= c
  BY <1>1 DEF Patient
<1>5. Span(Sent(x)) = Span(x)
  BY <1>1, <1>3 DEF Span
<1>. QED
  BY <1>1, <1>3, <1>4, <1>5 DEF Patient

(* What flush sends of buf is among the interests it is said to send.      *)
LEMMA SentIsFlushed ==
  ASSUME NEW n \in Nat, NEW buf \in Seq(Ints(n)), buf = intBuf \o NewInterests,
         NEW need, NEW sent \in Seq(Ints(n)), IsSent(sent, buf, need), KeepsCounts(intBuf', sent),
         NEW i \in 1 .. Len(buf), i \in need,
         Sent(buf[i]).start = buf[i].start, Sent(buf[i]).end = buf[i].end,
         Sent(buf[i]).xmit > buf[i].xmit
  PROVE  Span(buf[i]) \subseteq Covered(FlushedInterests)
<1>1. sent[i] = Sent(buf[i]) /\ i \in 1 .. Len(sent)
  BY DEF IsSent
<1>2. buf[i].start \in Span(sent[i])
  <2>1. buf[i].start \in Nat /\ buf[i].end \in Nat /\ buf[i].start < buf[i].end
    <3>1. buf[i] \in Ints(n)
      OBVIOUS
    <3>. QED
      BY <3>1 DEF Ints
  <2>2. sent[i].start = buf[i].start /\ sent[i].end = buf[i].end
    BY <1>1
  <2>. QED
    BY <2>1, <2>2, SMTT(60) DEF Span
<1>3. PICK y \in Elements(intBuf') : buf[i].start \in Span(y) /\ y.xmit = sent[i].xmit
  <2>1. sent[i] \in Elements(sent)
    BY <1>1 DEF Elements
  <2>. QED
    BY <1>2, <2>1 DEF KeepsCounts
<1>. DEFINE R == {j \in 1 .. Len(buf) : \E z \in {intBuf'[k] : k \in 1 .. Len(intBuf')} :
                    buf[j].start \in Span(z) /\ z.xmit > buf[j].xmit}
<1>4. FlushedInterests = Pick(buf, R)
  BY DEF FlushedInterests
<1>5. i \in R
  BY <1>1, <1>3 DEF Elements
<1>. HIDE DEF R
<1>. QED
  BY <1>4, <1>5, PickElements

(* A flush keeps the requester patient.                                    *)
LEMMA FlushPatient ==
  ASSUME CreditInv, Flush, NEW c \in Nat, NEW W, AllPatient(intBuf, c, W),
         NEW V, W \subseteq V, Covered(FlushedInterests) \subseteq V
  PROVE  AllPatient(intBuf', c, V) /\ (state' = "dead" => c >= LEOTP_DEADLINK)
<1>1. /\ sendStart \in Nat
      /\ intBuf \in Seq(Ints(sendStart)) /\ NewInterests \in Seq(Ints(sendStart))
      /\ NewInterests \in Seq(Sends(sendStart, {0}))
      /\ dataHoles \in Seq(Gaps)
  BY NewInterestsType, NewInterestsSends
     DEF CreditInv, TypeInv, ByteInv, StreamInv, ListTypes, NumberTypes
<1>2. PICK buf : buf = intBuf \o NewInterests
  OBVIOUS
<1>3. buf \in Seq(Ints(sendStart)) /\ Len(buf) \in Nat
      /\ \A i \in 1 .. Len(buf) : buf[i] \in Ints(sendStart) /\ buf[i] \in Elements(buf)
  <2>1. buf \in Seq(Ints(sendStart))
    BY <1>1, <1>2
  <2>. QED
    BY <2>1 DEF Elements
<1>4. AllPatient(buf, c, W)
  <2>1. Elements(buf) = Elements(intBuf) \cup Elements(NewInterests)
    BY <1>1, <1>2, ElementsJoin
  <2>2. ASSUME NEW x \in Elements(NewInterests) PROVE Patient(x, c, W)
    <3>1. x.xmit = 0
      BY <1>1 DEF Elements, Sends
    <3>. QED
      BY <3>1 DEF Patient
  <2>. QED
    BY <2>1, <2>2 DEF AllPatient
<1>5. CASE FlushDataHoles(buf, dataHoles) /\ UNCHANGED <<intOutputLimit, asked>>
  <2>1. PartsIn(intBuf', buf)
    BY <1>1, <1>3, <1>5, FlushDataHolesParts
  <2>2. AllPatient(intBuf', c, V)
    <3>1. \A y \in Elements(intBuf') : Span(y) \subseteq W => Span(y) \subseteq V
      OBVIOUS
    <3>. QED
      BY <1>1, <1>3, <1>4, <2>1, <3>1, PatientParts
  <2>3. state' # "dead"
    BY <1>5 DEF FlushDataHoles
  <2>. QED
    BY <2>2, <2>3
<1>6. ASSUME NEW newOutput \in NewOutputs, NEW k \in 0 .. Len(buf), NEW need, NEW sent,
             FlushSends(buf, newOutput, k, need, sent)
      PROVE  AllPatient(intBuf', c, V) /\ (state' = "dead" => c >= LEOTP_DEADLINK)
  <2>1. need = NeedSend(buf) \cap 1 .. k /\ IsSent(sent, buf, need)
    BY <1>6 DEF FlushSends
  <2>2. \A i \in need : i \in 1 .. Len(buf) /\ (buf[i].xmit = 0 \/ buf[i].late)
    BY <2>1 DEF NeedSend
  <2>3. ASSUME NEW i \in 1 .. Len(buf) PROVE Patient(buf[i], c, W) /\ Patient(buf[i], c, V)
    <3>1. Patient(buf[i], c, W)
      BY <1>3, <1>4 DEF AllPatient
    <3>. QED
      BY <3>1 DEF Patient
  <2>4. CASE (\E i \in need : LinkDead(buf[i])) /\ state' = "dead" /\ intBuf' = buf
    <3>1. AllPatient(intBuf', c, V)
      BY <2>3, <2>4 DEF AllPatient, Elements
    <3>2. PICK i \in need : LinkDead(buf[i])
      BY <2>4
    <3>3. PICK u \in Nat, d \in Nat : u = buf[i].xmit /\ d = LEOTP_DEADLINK
      BY <1>3, <2>2, RequesterAssumption DEF Ints
    <3>4. u <= c
      BY <2>2, <2>3, <3>3 DEF Patient
    <3>5. u >= d
      BY <3>2, <3>3 DEF LinkDead
    <3>. QED
      BY <3>1, <3>3, <3>4, <3>5
  <2>5. CASE /\ \A i \in need : ~ LinkDead(buf[i])
             /\ FlushDataHoles(sent, RecutAll(dataHoles, Pick(buf, need), DeleteDataHole))
    <3>1. sent \in Seq(Ints(sendStart)) /\ Len(sent) = Len(buf)
          /\ \A i \in 1 .. Len(buf) : i \notin need => sent[i] = buf[i]
      <4>1. sendStart \in Nat /\ buf \in Seq(Ints(sendStart)) /\ IsSent(sent, buf, need)
        BY <1>1, <1>3, <2>1
      <4>. QED
        BY <4>1, SentFields
    <3>2. PICK rs \in Seq(Ints(sendStart)) : rs = Pick(buf, need)
      BY <1>3, PickType
    <3>3. Len(rs) \in Nat /\ \A i \in 1 .. Len(rs) : rs[i].start \in Nat /\ rs[i].end \in Nat
      <4>1. \A i \in 1 .. Len(rs) : rs[i] \in Ints(sendStart)
        OBVIOUS
      <4>. QED
        BY <4>1 DEF Ints
    <3>4. PICK holes : holes = RecutAll(dataHoles, rs, DeleteDataHole)
      OBVIOUS
    <3>5. holes \in Seq(Gaps)
      BY <1>1, <3>3, <3>4, DeleteAllType
    <3>6. FlushDataHoles(sent, holes)
      BY <2>5, <3>2, <3>4
    <3>7. PartsIn(intBuf', sent) /\ KeepsCounts(intBuf', sent)
      BY <1>1, <3>1, <3>5, <3>6, FlushDataHolesParts
    <3>8. ASSUME NEW i \in 1 .. Len(buf) PROVE Patient(sent[i], c, V)
      <4>1. CASE i \in need
        <5>1. sent[i] = Sent(buf[i])
          BY <2>1, <4>1 DEF IsSent
        <5>2. Span(buf[i]) \subseteq Span(buf[i]) /\ buf[i] \in Ints(sendStart) /\ Patient(buf[i], c, W)
              /\ (buf[i].xmit = 0 \/ buf[i].late)
          BY <1>3, <2>2, <2>3, <4>1
        <5>3. /\ Sent(buf[i]).start = buf[i].start /\ Sent(buf[i]).end = buf[i].end
              /\ Sent(buf[i]).xmit > buf[i].xmit
          BY <1>1, <5>2, SentPatient
        <5>4. Span(buf[i]) \subseteq V
          BY <1>1, <1>2, <1>3, <2>1, <3>1, <3>7, <4>1, <5>3, SentIsFlushed
        <5>. QED
          BY <1>1, <5>1, <5>2, <5>4, SentPatient
      <4>2. CASE i \notin need
        BY <2>3, <3>1, <4>2
      <4>. QED
        BY <4>1, <4>2
    <3>9. AllPatient(sent, c, V)
      BY <3>1, <3>8 DEF AllPatient, Elements
    <3>10. AllPatient(intBuf', c, V)
      BY <1>1, <3>1, <3>7, <3>9, PatientParts
    <3>11. state' # "dead"
      BY <3>6 DEF FlushDataHoles
    <3>. QED
      BY <3>10, <3>11
  <2>. QED
    BY <1>6, <2>4, <2>5 DEF FlushSends
<1>. QED
  BY <1>2, <1>5, <1>6, FlushCases

(* A message covers the ranges it asks for.                                *)
LEMMA FlushReaches ==
  ASSUME CreditInv
  PROVE  Covered(FlushedInterests) \subseteq Covered(Ask(FlushedInterests \o FlushedHoles))
<1>1. /\ sendStart \in Nat
      /\ intBuf \in Seq(Ints(sendStart)) /\ NewInterests \in Seq(Ints(sendStart))
      /\ dataHoles \in Seq(Gaps)
  BY NewInterestsType DEF CreditInv, TypeInv, ByteInv, StreamInv, ListTypes, NumberTypes
<1>2. PICK fi \in Seq(Ints(sendStart)) : fi = FlushedInterests
  <2>1. PICK buf : buf = intBuf \o NewInterests
    OBVIOUS
  <2>2. buf \in Seq(Ints(sendStart))
    BY <1>1, <2>1
  <2>3. PICK S : FlushedInterests = Pick(buf, S)
    BY <2>1 DEF FlushedInterests
  <2>. QED
    BY <2>2, <2>3, PickType
<1>3. Len(fi) \in Nat /\ \A i \in 1 .. Len(fi) : fi[i].start \in Nat /\ fi[i].end \in Nat
  <2>1. \A i \in 1 .. Len(fi) : fi[i] \in Ints(sendStart)
    OBVIOUS
  <2>. QED
    BY <2>1 DEF Ints
<1>4. PICK fh \in Seq(Gaps) : fh = FlushedHoles
  <2>1. RecutAll(dataHoles, fi, DeleteDataHole) \in Seq(Gaps)
    BY <1>1, <1>3, DeleteAllType
  <2>. QED
    BY <1>2, <2>1, PickType DEF FlushedHoles
<1>5. PICK T : T = Ints(sendStart) \cup Gaps
  OBVIOUS
<1>6. fi \in Seq(T) /\ fh \in Seq(T)
  BY <1>5
<1>7. PICK s : s = fi \o fh /\ s \in Seq(T)
  <2>1. PICK a \in Seq(T), b \in Seq(T) : a = fi /\ b = fh
    BY <1>6
  <2>2. a \o b \in Seq(T)
    OBVIOUS
  <2>. QED
    BY <2>1, <2>2
<1>8. Covered(fi) \subseteq Covered(s)
  BY <1>7, <1>6, CoveredJoin
<1>9. Covered(Ask(s)) = Covered(s)
  <2>1. /\ Len(s) \in Nat /\ Len(Ask(s)) = Len(s)
        /\ \A i \in 1 .. Len(s) : Ask(s)[i].start = s[i].start /\ Ask(s)[i].end = s[i].end
    BY DEF Ask, Seg
  <2>. QED
    BY <2>1, SameBytes
<1>. QED
  BY <1>2, <1>4, <1>7, <1>8, <1>9

(* The bytes of datagrams.                                                 *)
GramBytes(g) == UNION {Covered(g[i]) : i \in 1 .. Len(g)}

LEMMA GramBytesJoin ==
  ASSUME NEW T, NEW g \in Seq(T), NEW h \in Seq(T)
  PROVE  GramBytes(g \o h) = GramBytes(g) \cup GramBytes(h)
<1>1. PICK s : s = g \o h
  OBVIOUS
<1>2. /\ Len(g) \in Nat /\ Len(h) \in Nat /\ Len(s) = Len(g) + Len(h)
      /\ \A i \in 1 .. Len(g) : s[i] = g[i]
      /\ \A i \in 1 .. Len(h) : s[Len(g) + i] = h[i]
  BY <1>1
<1>3. ASSUME NEW b \in GramBytes(s) PROVE b \in GramBytes(g) \cup GramBytes(h)
  <2>1. PICK i \in 1 .. Len(s) : b \in Covered(s[i])
    BY DEF GramBytes
  <2>2. CASE i \in 1 .. Len(g)
    BY <1>2, <2>1, <2>2 DEF GramBytes
  <2>3. CASE i \notin 1 .. Len(g)
    <3>1. i - Len(g) \in 1 .. Len(h) /\ Len(g) + (i - Len(g)) = i
      BY <1>2, <2>3
    <3>2. s[i] = h[i - Len(g)]
      BY <1>2, <3>1
    <3>. QED
      BY <2>1, <3>1, <3>2 DEF GramBytes
  <2>. QED
    BY <2>2, <2>3
<1>4. ASSUME NEW b \in GramBytes(g) PROVE b \in GramBytes(s)
  <2>1. PICK i \in 1 .. Len(g) : b \in Covered(g[i])
    BY DEF GramBytes
  <2>2. i \in 1 .. Len(s) /\ s[i] = g[i]
    BY <1>2
  <2>. QED
    BY <2>1, <2>2 DEF GramBytes
<1>5. ASSUME NEW b \in GramBytes(h) PROVE b \in GramBytes(s)
  <2>1. PICK i \in 1 .. Len(h) : b \in Covered(h[i])
    BY DEF GramBytes
  <2>2. Len(g) + i \in 1 .. Len(s) /\ s[Len(g) + i] = h[i]
    BY <1>2
  <2>. QED
    BY <2>1, <2>2 DEF GramBytes
<1>. QED
  BY <1>1, <1>3, <1>4, <1>5

(* The first datagram, and the first segment of one.                       *)
LEMMA GramBytesHead ==
  ASSUME NEW T, NEW g \in Seq(T), g # <<>>
  PROVE  GramBytes(g) = Covered(Head(g)) \cup GramBytes(Tail(g))
<1>0. PICK t, m : t = Tail(g) /\ m = Len(t)
  OBVIOUS
<1>1. t \in Seq(T) /\ t = Tail(g) /\ m \in Nat /\ m = Len(t) /\ Len(g) = m + 1 /\ g[1] = Head(g)
  <2>1. Len(g) \in Nat /\ Len(g) # 0 /\ g[1] = Head(g)
    OBVIOUS
  <2>2. t \in Seq(T) /\ Len(t) = Len(g) - 1
    BY <1>0
  <2>. QED
    BY <1>0, <2>1, <2>2
<1>2. \A i \in 1 .. m : t[i] = g[i + 1]
  BY <1>1
<1>3. ASSUME NEW b \in GramBytes(g) PROVE b \in Covered(g[1]) \cup GramBytes(t)
  <2>1. PICK i \in 1 .. m + 1 : b \in Covered(g[i])
    BY <1>1 DEF GramBytes
  <2>2. CASE i # 1
    <3>1. i - 1 \in 1 .. m /\ (i - 1) + 1 = i
      BY <1>1, <2>1, <2>2
    <3>2. t[i - 1] = g[i]
      BY <1>2, <3>1
    <3>. QED
      BY <1>1, <2>1, <3>1, <3>2 DEF GramBytes
  <2>. QED
    BY <2>1, <2>2
<1>4. ASSUME NEW b \in Covered(g[1]) \cup GramBytes(t) PROVE b \in GramBytes(g)
  <2>1. CASE b \in Covered(g[1])
    <3>1. 1 \in 1 .. Len(g)
      BY <1>1
    <3>. QED
      BY <2>1, <3>1 DEF GramBytes
  <2>2. CASE b \in GramBytes(t)
    <3>1. PICK i \in 1 .. m : b \in Covered(t[i])
      BY <1>1, <2>2 DEF GramBytes
    <3>2. i + 1 \in 1 .. Len(g) /\ t[i] = g[i + 1]
      BY <1>1, <1>2
    <3>. QED
      BY <3>1, <3>2 DEF GramBytes
  <2>. QED
    BY <2>1, <2>2
<1>. QED
  BY <1>1, <1>3, <1>4

LEMMA CoveredHead ==
  ASSUME NEW T, NEW s \in Seq(T), s # <<>>
  PROVE  Covered(s) = Span(Head(s)) \cup Covered(Tail(s))
<1>0. PICK t, m : t = Tail(s) /\ m = Len(t)
  OBVIOUS
<1>1. t \in Seq(T) /\ t = Tail(s) /\ m \in Nat /\ m = Len(t) /\ Len(s) = m + 1 /\ s[1] = Head(s)
  <2>1. Len(s) \in Nat /\ Len(s) # 0 /\ s[1] = Head(s)
    OBVIOUS
  <2>2. t \in Seq(T) /\ Len(t) = Len(s) - 1
    BY <1>0
  <2>. QED
    BY <1>0, <2>1, <2>2
<1>2. \A i \in 1 .. m : t[i] = s[i + 1]
  BY <1>1
<1>3. ASSUME NEW b \in Covered(s) PROVE b \in Span(s[1]) \cup Covered(t)
  <2>1. PICK i \in 1 .. m + 1 : b \in Span(s[i])
    BY <1>1 DEF Covered
  <2>2. CASE i # 1
    <3>1. i - 1 \in 1 .. m /\ (i - 1) + 1 = i
      BY <1>1, <2>1, <2>2
    <3>2. t[i - 1] = s[i]
      BY <1>2, <3>1
    <3>. QED
      BY <1>1, <2>1, <3>1, <3>2 DEF Covered
  <2>. QED
    BY <2>1, <2>2
<1>4. ASSUME NEW b \in Span(s[1]) \cup Covered(t) PROVE b \in Covered(s)
  <2>1. CASE b \in Span(s[1])
    <3>1. 1 \in 1 .. Len(s)
      BY <1>1
    <3>. QED
      BY <2>1, <3>1 DEF Covered
  <2>2. CASE b \in Covered(t)
    <3>1. PICK i \in 1 .. m : b \in Span(t[i])
      BY <1>1, <2>2 DEF Covered
    <3>2. i + 1 \in 1 .. Len(s) /\ t[i] = s[i + 1]
      BY <1>1, <1>2
    <3>. QED
      BY <3>1, <3>2 DEF Covered
  <2>. QED
    BY <2>1, <2>2
<1>. QED
  BY <1>1, <1>3, <1>4

(* Packing a segment into datagrams leaves out no byte.                    *)
LEMMA PackedCovers ==
  ASSUME NEW T, NEW g \in Seq(Seq(T)), NEW x \in T
  PROVE  GramBytes(g) \cup Span(x) \subseteq GramBytes(Packed(g, x))
<1>0. PICK o : o = <<x>>
  OBVIOUS
<1>1. o = <<x>> /\ o \in Seq(T) /\ Covered(o) = Span(x)
  BY <1>0, CoveredOne
<1>4. Len(g) \in Nat /\ \A i \in 1 .. Len(g) : g[i] \in Seq(T)
  OBVIOUS
<1>2. CASE Len(g) = 0 \/ Server!NoRoom(g[Len(g)], x)
  <2>1. Packed(g, x) = Append(g, o)
    BY <1>1, <1>2 DEF Packed
  <2>0. PICK t, m, U : t = Append(g, o) /\ m = Len(g) /\ U = Seq(T)
    OBVIOUS
  <2>5. g \in Seq(U) /\ o \in U /\ t = Append(g, o) /\ m = Len(g)
    BY <1>1, <2>0
  <2>2. /\ m \in Nat /\ m = Len(g) /\ t = Append(g, o) /\ Len(t) = m + 1 /\ t[m + 1] = o
        /\ \A i \in 1 .. m : t[i] = g[i]
    BY <2>5
  <2>3. GramBytes(g) \subseteq GramBytes(t)
    <3>1. 1 .. m \subseteq 1 .. Len(t)
      BY <2>2
    <3>. QED
      BY <2>2, <3>1 DEF GramBytes
  <2>4. Span(x) \subseteq GramBytes(t)
    <3>1. m + 1 \in 1 .. Len(t)
      BY <2>2
    <3>. QED
      BY <1>1, <2>2, <3>1 DEF GramBytes
  <2>. QED
    BY <2>1, <2>2, <2>3, <2>4
<1>3. CASE ~ (Len(g) = 0 \/ Server!NoRoom(g[Len(g)], x))
  <2>1. PICK m \in Nat : m = Len(g) /\ m \in 1 .. Len(g)
    BY <1>3, <1>4
  <2>2. PICK d : d = g[m]
    OBVIOUS
  <2>10. d \in Seq(T)
    BY <1>4, <2>1, <2>2
  <2>3. PICK e : e = Append(d, x)
    OBVIOUS
  <2>11. e = d \o o
    BY <1>1, <2>3, <2>10
  <2>4. Covered(e) = Covered(d) \cup Span(x)
    <3>1. o \in Seq(T) /\ d \in Seq(T)
      BY <1>1, <2>10
    <3>2. Covered(d \o o) = Covered(d) \cup Covered(o)
      BY ONLY <3>1, CoveredJoin
    <3>. QED
      BY <1>1, <2>11, <3>2
  <2>5. PICK t : t = [g EXCEPT ![m] = e] /\ Packed(g, x) = t
    BY <1>3, <2>1, <2>2, <2>3 DEF Packed
  <2>6. Len(t) = Len(g) /\ t[m] = e /\ \A i \in 1 .. Len(g) : i # m => t[i] = g[i]
    BY <2>1, <2>5
  <2>7. ASSUME NEW i \in 1 .. Len(g) PROVE Covered(g[i]) \subseteq Covered(t[i])
    BY <2>2, <2>4, <2>6
  <2>8. GramBytes(g) \subseteq GramBytes(t)
    BY <2>6, <2>7 DEF GramBytes
  <2>9. Span(x) \subseteq GramBytes(t)
    BY <2>1, <2>4, <2>6 DEF GramBytes
  <2>. QED
    BY <2>5, <2>8, <2>9
<1>. QED
  BY <1>2, <1>3

LEMMA DatagramsCover ==
  ASSUME NEW n \in Nat, NEW segs \in Seq(DataSegs(n))
  PROVE  Covered(segs) \subseteq GramBytes(Server!Datagrams(segs))
<1>1. PICK f : Packing(n, segs, f) /\ Server!Datagrams(segs) = f[Len(segs)]
  BY DatagramsSteps
<1>2. Len(segs) \in Nat /\ \A i \in 1 .. Len(segs) : segs[i] \in DataSegs(n)
  OBVIOUS
<1>. DEFINE Held(m) == m <= Len(segs) => \A j \in 1 .. m : Span(segs[j]) \subseteq GramBytes(f[m])
            K == {m \in Nat : Held(m)}
<1>3. 0 \in K
  OBVIOUS
<1>4. ASSUME NEW m \in Nat, m \in K PROVE m + 1 \in K
  <2>. SUFFICES ASSUME m + 1 <= Len(segs), NEW j \in 1 .. m + 1
                PROVE  Span(segs[j]) \subseteq GramBytes(f[m + 1])
    OBVIOUS
  <2>1. m + 1 \in 1 .. Len(segs) /\ m \in 0 .. Len(segs) /\ (m + 1) - 1 = m
    BY <1>2
  <2>2. PICK g, x : g = f[m] /\ x = segs[m + 1]
    OBVIOUS
  <2>3. f[m + 1] = Packed(g, x) /\ g \in Seq(Grams(n)) /\ x \in DataSegs(n)
    BY <1>1, <1>2, <2>1, <2>2 DEF Packing
  <2>4. g \in Seq(Seq(DataSegs(n)))
    <3>1. Grams(n) \subseteq Seq(DataSegs(n))
      BY DEF Grams
    <3>2. PICK T, U : T = Grams(n) /\ U = Seq(DataSegs(n))
      OBVIOUS
    <3>3. Seq(T) \subseteq Seq(U)
      BY <3>1, <3>2, SeqMore
    <3>. QED
      BY <2>3, <3>2, <3>3
  <2>5. GramBytes(g) \cup Span(x) \subseteq GramBytes(f[m + 1])
    BY <2>3, <2>4, PackedCovers
  <2>6. CASE j = m + 1
    BY <2>2, <2>5, <2>6
  <2>7. CASE j # m + 1
    <3>1. j \in 1 .. m /\ m <= Len(segs)
      BY <2>1, <2>7
    <3>2. Span(segs[j]) \subseteq GramBytes(g)
      BY <1>4, <2>2, <3>1
    <3>. QED
      BY <2>5, <3>2
  <2>. QED
    BY <2>6, <2>7
<1>. HIDE DEF K
<1>5. Nat \subseteq K
  BY <1>3, <1>4, SetInduction
<1>6. \A j \in 1 .. Len(segs) : Span(segs[j]) \subseteq GramBytes(f[Len(segs)])
  BY <1>2, <1>5, SMTT(60) DEF K
<1>. QED
  BY <1>1, <1>6 DEF Covered

(* The responder queues the whole answer, unless the application provides  *)
(* only the front of it.                                                   *)
LEMMA QueueCovers ==
  ASSUME NEW n \in Nat, ServerInv(n), NEW segs \in Seq(DataSegs(n)), Server!Queue(segs)
  PROVE  Covered(sndQueue') = Covered(sndQueue) \cup Covered(segs)
<1>1. sndQueue' = sndQueue \o segs /\ sndQueue \in Seq(DataSegs(n))
  BY DEF Server!Queue, ServerInv
<1>. QED
  BY <1>1, CoveredJoin

LEMMA ServerAnswers ==
  ASSUME NEW n \in Nat, ServerInv(n), NEW r \in Segs(n), NEW provided \in Nat,
         Server!InputInt(r, provided), ~ (provided < r.end)
  PROVE  Covered(sndQueue) \cup Span(r) \subseteq Covered(sndQueue')
<1>1. PICK a \in Nat, b \in Nat : a = r.start /\ b = r.end /\ a < b /\ b <= n /\ Span(r) = a .. b - 1
  BY DEF Segs, Span
<1>2. PICK e \in Nat : e = Server!ServedEnd(store, r) /\ a <= e /\ e <= b
  BY <1>1, ServedEndIn
<1>3. PICK cached : cached = Server!Cut(a, e)
  OBVIOUS
<1>4. cached \in Seq(DataSegs(n)) /\ Covered(cached) = a .. e - 1
  <2>1. a <= e /\ e <= n
    BY <1>1, <1>2
  <2>2. Server!Cut(a, e) \in Seq(DataSegs(n)) /\ Covered(Server!Cut(a, e)) = a .. e - 1
    BY ONLY n \in Nat, a \in Nat, e \in Nat, <2>1, CutData, SMTT(60)
  <2>. QED
    BY <1>3, <2>2
<1>5. CASE e = b
  <2>1. Server!Queue(cached)
    BY <1>1, <1>2, <1>3, <1>5 DEF Server!InputInt
  <2>2. Covered(sndQueue') = Covered(sndQueue) \cup Covered(cached)
    BY <1>4, <2>1, QueueCovers
  <2>. QED
    BY <1>1, <1>4, <1>5, <2>2
<1>6. CASE e # b
  <2>1. PICK data : data = [start |-> e, end |-> provided]
    OBVIOUS
  <2>2. PICK x : x = [start |-> e, end |-> b]
    OBVIOUS
  <2>3. PICK ints : ints = Append(pendingInts, x)
    OBVIOUS
  <2>4. /\ e < provided /\ provided <= b
        /\ Server!Queue(cached \o Server!Notified(ints, data))
    BY <1>1, <1>2, <1>3, <1>6, <2>1, <2>2, <2>3 DEF Server!InputInt
  <2>5. provided = b
    BY <1>1, <2>4
  <2>6. data.start \in Nat /\ data.end \in Nat /\ data.start < data.end /\ Span(data) = e .. b - 1
        /\ Span(x) = e .. b - 1
    BY <2>1, <2>2, <2>4, <2>5 DEF Span
  <2>7. x \in Segs(n) /\ pendingInts \in Seq(Segs(n))
    BY <1>1, <1>2, <1>6, <2>2 DEF Segs, ServerInv
  <2>8. ints \in Seq(Segs(n)) /\ Span(x) \subseteq Covered(ints)
    <3>1. Covered(Append(pendingInts, x)) = Covered(pendingInts) \cup Span(x)
      BY <2>7, DataSegsSized, AppendBytes
    <3>. QED
      BY <2>3, <2>7, <3>1
  <2>9. PICK ps, ts : ps = Server!Pending(ints, data) /\ ts = Server!Notified(ints, data)
    OBVIOUS
  <2>10. /\ ts \in Seq(DataSegs(n)) /\ Covered(ps) \cup Covered(ts) = Covered(ints)
         /\ Covered(ps) \cap Span(data) = {}
    BY <2>6, <2>8, <2>9, PendingBytes
  <2>11. e .. b - 1 \subseteq Covered(ts)
    BY <2>6, <2>8, <2>10
  <2>12. cached \o ts \in Seq(DataSegs(n)) /\ Covered(cached \o ts) = Covered(cached) \cup Covered(ts)
    BY <1>4, <2>10, CoveredJoin
  <2>13. Covered(sndQueue') = Covered(sndQueue) \cup Covered(cached \o ts)
    BY <2>4, <2>9, <2>12, QueueCovers
  <2>14. a .. b - 1 = (a .. e - 1) \cup (e .. b - 1)
    BY <1>1, <1>2
  <2>. QED
    BY <1>1, <1>4, <2>11, <2>12, <2>13, <2>14
<1>. QED
  BY <1>5, <1>6

Cost == faults + ignored

RetryInv ==
  /\ faults \in Nat /\ ignored \in Nat
  /\ state = "dead" => Cost >= LEOTP_DEADLINK
  /\ AllPatient(intBuf, Cost, OnTheWay)

LEMMA WaysAre ==
  OnTheWay = Covered(toServer) \cup Covered(sndQueue) \cup Covered(datagram) \cup GramBytes(toClient)
BY DEF OnTheWay, InFlight, GramBytes

(* A step that transmits nothing: it leaves the answers on their way, or   *)
(* something goes wrong.                                                   *)
LEMMA RetryStays ==
  ASSUME NEW n \in Nat, intBuf \in Seq(Ints(n)), RetryInv,
         faults' \in Nat, ignored' \in Nat, faults <= faults', ignored <= ignored',
         state' = "dead" => state = "dead", PartsIn(intBuf', intBuf),
         \/ faults + 1 <= faults' \/ ignored + 1 <= ignored'
         \/ \A y \in Elements(intBuf') : Span(y) \subseteq OnTheWay => Span(y) \subseteq OnTheWay'
  PROVE  RetryInv'
<1>6. PICK f, g, h, j : f = faults /\ g = faults' /\ h = ignored /\ j = ignored'
  OBVIOUS
<1>7. f \in Nat /\ g \in Nat /\ h \in Nat /\ j \in Nat /\ f <= g /\ h <= j
  BY <1>6 DEF RetryInv
<1>8. PICK c, d : c = f + h /\ d = g + j
  OBVIOUS
<1>1. /\ c \in Nat /\ d \in Nat /\ c = Cost /\ d = Cost' /\ c <= d
      /\ faults + 1 <= faults' \/ ignored + 1 <= ignored' => c + 1 <= d
  <2>1. c \in Nat /\ d \in Nat /\ c <= d /\ (f + 1 <= g \/ h + 1 <= j => c + 1 <= d)
    BY <1>7, <1>8
  <2>. QED
    BY <1>6, <1>8, <2>1 DEF Cost
<1>2. PICK W, V : W = OnTheWay /\ V = OnTheWay'
  OBVIOUS
<1>3. AllPatient(intBuf, c, W)
  BY <1>1, <1>2 DEF RetryInv
<1>4. AllPatient(intBuf', d, V)
  <2>1. CASE c + 1 <= d
    <3>1. PICK s, t : s = intBuf /\ t = intBuf'
      OBVIOUS
    <3>2. s \in Seq(Ints(n)) /\ AllPatient(s, c, W) /\ PartsIn(t, s)
      BY <1>3, <3>1
    <3>3. AllPatient(t, d, V)
      BY <1>1, <2>1, <3>2, PatientAgain
    <3>. QED
      BY <3>1, <3>3
  <2>2. CASE ~ (c + 1 <= d)
    <3>1. \A y \in Elements(intBuf') : Span(y) \subseteq W => Span(y) \subseteq V
      BY <1>1, <1>2, <2>2
    <3>. QED
      BY <1>1, <1>3, <3>1, PatientParts
  <2>. QED
    BY <2>1, <2>2
<1>5. state' = "dead" => d >= LEOTP_DEADLINK
  <2>1. PICK l \in Nat : l = LEOTP_DEADLINK
    BY RequesterAssumption
  <2>2. state' = "dead" => c >= l
    BY <1>1, <2>1 DEF RetryInv
  <2>. QED
    BY <1>1, <2>1, <2>2
<1>. QED
  BY <1>1, <1>2, <1>4, <1>5 DEF RetryInv

LEMMA SamePartsIn == ASSUME NEW s PROVE PartsIn(s, s)
BY DEF PartsIn, PartOf

(* The answers stay on their way, or something goes wrong.                 *)
LEMMA RetryRests ==
  ASSUME NEW n \in Nat, intBuf \in Seq(Ints(n)), RetryInv, UNCHANGED <<state, intBuf, ignored>>,
         faults' \in Nat, faults <= faults',
         faults + 1 <= faults' \/ OnTheWay \subseteq OnTheWay'
  PROVE  RetryInv'
<1>1. PartsIn(intBuf', intBuf)
  BY SamePartsIn
<1>2. ignored' \in Nat /\ ignored <= ignored'
  BY DEF RetryInv
<1>3. \/ faults + 1 <= faults' \/ ignored + 1 <= ignored'
      \/ \A y \in Elements(intBuf') : Span(y) \subseteq OnTheWay => Span(y) \subseteq OnTheWay'
  OBVIOUS
<1>. QED
  BY <1>1, <1>2, <1>3, RetryStays

LEMMA UpdateRetry ==
  ASSUME PathInv, RetryInv, ClientUpdate
  PROVE  RetryInv'
<1>1. /\ UNCHANGED <<serverVars, toClient, datagram, faults, ignored>> /\ Update(FALSE)
      /\ toServer' = toServer \o Ask(FlushedInterests \o FlushedHoles)
  BY DEF ClientUpdate, ClientUpdateAdding, Update, UpdateAdding, Flush
<1>2. CreditInv /\ Up /\ Flush /\ ServerInv(asked) /\ NetInv(asked) /\ sndQueue' = sndQueue
  BY <1>1 DEF PathInv, Update, UpdateAdding, Flush, serverVars
<1>3. PICK n \in Nat, m \in Nat : n = asked /\ m = asked' /\ n <= m
  <2>1. asked' \in asked .. sendStart
    BY <1>2, FlushTypes DEF CreditInv, TypeInv, ByteInv, StreamInv
  <2>2. asked \in Nat
    BY <1>2, CreditInvNumbers
  <2>3. sendStart \in Nat
    BY <1>2 DEF CreditInv, TypeInv, ByteInv, StreamInv, NumberTypes
  <2>. QED
    BY <2>1, <2>2, <2>3
<1>4. PICK qs : qs = Ask(FlushedInterests \o FlushedHoles)
  OBVIOUS
<1>5. qs \in Seq(Segs(m)) /\ toServer \in Seq(Segs(m))
  <2>1. toServer \in Seq(Segs(n))
    BY <1>2, <1>3 DEF NetInv
  <2>2. qs \in Seq(Segs(m))
    BY <1>2, <1>3, <1>4, FlushAsks
  <2>. QED
    BY <1>3, <2>1, <2>2, SegsGrow
<1>6. Covered(toServer') = Covered(toServer) \cup Covered(qs)
  BY <1>1, <1>4, <1>5, CoveredJoin
<1>7. PICK W, V, c : W = OnTheWay /\ V = OnTheWay' /\ c = Cost
  OBVIOUS
<1>8. V = Covered(toServer') \cup Covered(sndQueue') \cup Covered(datagram') \cup GramBytes(toClient')
  BY <1>7 DEF OnTheWay, InFlight, GramBytes
<1>9. W \subseteq V /\ Covered(qs) \subseteq V
  BY <1>1, <1>2, <1>6, <1>7, <1>8, WaysAre
<1>10. Covered(FlushedInterests) \subseteq V
  BY <1>2, <1>4, <1>9, FlushReaches
<1>11. c \in Nat /\ AllPatient(intBuf, c, W)
  BY <1>7 DEF RetryInv, Cost
<1>12. AllPatient(intBuf', c, V) /\ (state' = "dead" => c >= LEOTP_DEADLINK)
  BY <1>2, <1>9, <1>10, <1>11, FlushPatient
<1>13. faults' \in Nat /\ ignored' \in Nat /\ Cost' = c
  BY <1>1, <1>7 DEF RetryInv, Cost
<1>. QED
  BY <1>7, <1>12, <1>13 DEF RetryInv

LEMMA TimeoutRetry ==
  ASSUME PathInv, RetryInv, ClientTimeout
  PROVE  RetryInv'
<1>1. PICK n \in Nat : intBuf \in Seq(Ints(n))
  BY DEF PathInv, CreditInv, TypeInv, ByteInv, StreamInv, ListTypes, NumberTypes
<1>2. PICK s : s = intBuf
  OBVIOUS
<1>3. s \in Seq(Ints(n)) /\ Len(s) \in Nat /\ \A k \in 1 .. Len(s) : s[k] \in Ints(n)
  BY <1>1, <1>2
<1>4. /\ UNCHANGED <<serverVars, toServer, toClient, datagram, ignored>>
      /\ InterestTimeout
  BY DEF ClientTimeout
<1>5. PICK i \in 1 .. Len(s) : intBuf' = [s EXCEPT ![i].late = TRUE]
  BY <1>2, <1>4 DEF InterestTimeout
<1>6. PICK x, y : x = s[i] /\ y = [x EXCEPT !.late = TRUE]
  OBVIOUS
<1>7. intBuf' = [s EXCEPT ![i] = y]
  BY <1>5, <1>6
<1>8. Len(intBuf') = Len(s) /\ intBuf'[i] = y /\ \A k \in 1 .. Len(s) : k # i => intBuf'[k] = s[k]
  BY <1>3, <1>7
<1>9. PICK j \in 1 .. Len(s) : s[j] # intBuf'[j] /\ Fault(Span(s[j]) \subseteq OnTheWay)
  BY <1>2 DEF ClientTimeout
<1>10. Fault(Span(x) \subseteq OnTheWay)
  BY <1>6, <1>8, <1>9
<1>11. PICK W, V : W = OnTheWay /\ V = OnTheWay'
  OBVIOUS
<1>12. V = W
  BY <1>4, <1>11 DEF OnTheWay, InFlight, serverVars
<1>19. PICK c, d : c = Cost /\ d = Cost'
  OBVIOUS
<1>13. /\ c = Cost /\ d = Cost' /\ c \in Nat /\ d \in Nat /\ c <= d
       /\ Span(x) \subseteq W => c + 1 <= d
  BY <1>4, <1>10, <1>11, <1>19 DEF Cost, RetryInv, Fault
<1>14. AllPatient(s, c, W)
  BY <1>2, <1>11, <1>13 DEF RetryInv
<1>15. ASSUME NEW k \in 1 .. Len(s) PROVE Patient(intBuf'[k], d, W)
  <2>1. PICK u \in Nat : u = s[k].xmit
    BY <1>3 DEF Ints
  <2>2. Patient(s[k], c, W)
    BY <1>14 DEF AllPatient, Elements
  <2>3. CASE k # i
    <3>1. u <= d + 1
      BY <1>13, <2>1, <2>2 DEF Patient
    <3>2. s[k].late \/ ~ (Span(s[k]) \subseteq W) => u <= d
      BY <1>13, <2>1, <2>2 DEF Patient
    <3>. QED
      BY <1>8, <2>1, <2>3, <3>1, <3>2 DEF Patient
  <2>4. CASE k = i
    <3>1. y.xmit = u
      BY <1>3, <1>6, <2>1, <2>4 DEF Ints
    <3>2. u <= d
      <4>1. CASE Span(x) \subseteq W
        <5>1. u <= c + 1
          BY <2>1, <2>2 DEF Patient
        <5>. QED
          BY <1>13, <4>1, <5>1
      <4>2. CASE ~ (Span(x) \subseteq W)
        <5>1. u <= c
          BY <1>6, <2>1, <2>2, <2>4, <4>2 DEF Patient
        <5>. QED
          BY <1>13, <5>1
      <4>. QED
        BY <4>1, <4>2
    <3>3. intBuf'[k] = y
      BY <1>8, <2>4
    <3>4. y.xmit <= d + 1 /\ y.xmit <= d
      BY <1>13, <2>1, <3>1, <3>2
    <3>. QED
      BY <3>3, <3>4 DEF Patient
  <2>. QED
    BY <2>3, <2>4
<1>16. AllPatient(intBuf', d, V)
  BY <1>8, <1>12, <1>15 DEF AllPatient, Elements
<1>17. faults' \in Nat /\ ignored' \in Nat
  BY <1>4, <1>10 DEF RetryInv, Fault
<1>18. state' # "dead"
  BY <1>4 DEF InterestTimeout, Up
<1>. QED
  BY <1>11, <1>13, <1>16, <1>17, <1>18 DEF RetryInv

(* Data is parsed: it leaves its way, and what it answers leaves intBuf,   *)
(* unless parseData passes over an interest in it.                         *)
LEMMA InputRetry ==
  ASSUME PathInv, RetryInv, ClientInput
  PROVE  RetryInv'
<1>1. PICK n \in Nat : n = asked /\ NetInv(n)
  BY CreditInvNumbers DEF PathInv
<1>2. PICK N \in Nat : intBuf \in Seq(Ints(N))
  BY DEF PathInv, CreditInv, TypeInv, ByteInv, StreamInv, ListTypes, NumberTypes
<1>3. UNCHANGED <<serverVars, toServer, faults>>
  BY DEF ClientInput, TakeSegment
<1>4. PICK x \in DataSegs(n) :
        /\ Covered(datagram) \cup GramBytes(toClient)
             = Span(x) \cup Covered(datagram') \cup GramBytes(toClient')
        /\ InputData(Seg(x.start, x.end)) /\ CountIgnored(x)
  <2>1. CASE Unlocked
    <3>1. PICK g, d, x : g = toClient /\ d = Head(g) /\ x = Head(d)
      OBVIOUS
    <3>2. g # <<>> /\ datagram' = Tail(d) /\ toClient' = Tail(g) /\ datagram = <<>>
          /\ InputData(Seg(x.start, x.end)) /\ CountIgnored(x)
      BY <2>1, <3>1 DEF ClientInput, TakeSegment, Unlocked
    <3>3. g \in Seq(Grams(n)) /\ d \in Grams(n)
      BY <1>1, <3>1, <3>2 DEF NetInv
    <3>4. d \in Seq(DataSegs(n)) /\ d # <<>>
      BY <3>3 DEF Grams
    <3>5. x \in DataSegs(n)
      BY <3>1, <3>4
    <3>6. GramBytes(g) = Covered(d) \cup GramBytes(toClient')
      BY <3>1, <3>2, <3>3, GramBytesHead
    <3>7. Covered(d) = Span(x) \cup Covered(datagram')
      BY <3>1, <3>2, <3>4, CoveredHead
    <3>8. Covered(datagram) = {}
      BY <3>2 DEF Covered
    <3>. QED
      BY <3>1, <3>2, <3>5, <3>6, <3>7, <3>8
  <2>2. CASE ~ Unlocked
    <3>1. PICK d, x : d = datagram /\ x = Head(d)
      OBVIOUS
    <3>2. d # <<>> /\ datagram' = Tail(d) /\ toClient' = toClient
          /\ InputData(Seg(x.start, x.end)) /\ CountIgnored(x)
      BY <2>2, <3>1 DEF ClientInput, TakeSegment, Unlocked
    <3>3. d \in Seq(DataSegs(n))
      BY <1>1, <3>1 DEF NetInv
    <3>4. x \in DataSegs(n)
      BY <3>1, <3>2, <3>3
    <3>5. Covered(d) = Span(x) \cup Covered(datagram')
      BY <3>1, <3>2, <3>3, CoveredHead
    <3>. QED
      BY <3>1, <3>2, <3>4, <3>5
  <2>. QED
    BY <2>1, <2>2
<1>5. PICK r : r = Seg(x.start, x.end)
  OBVIOUS
<1>6. r.start \in Nat /\ r.end \in Nat /\ r.start < r.end
  <2>1. x.start \in Nat /\ x.end \in Nat /\ x.start < x.end
    BY DataSegFacts
  <2>. QED
    BY <1>5, <2>1 DEF Seg
<1>7. intBuf' = LeftOf(intBuf, r) /\ state' = state /\ state # "dead"
  BY <1>4, <1>5 DEF InputData, LeftOf, Up
<1>8. PartsIn(intBuf', intBuf)
  <2>1. PICK s : s = intBuf
    OBVIOUS
  <2>2. PartsIn(LeftOf(s, r), s)
    BY <1>2, <1>6, <2>1, UnansweredParts
  <2>. QED
    BY <1>7, <2>1, <2>2
<1>9. faults' = faults /\ faults' \in Nat /\ ignored' \in Nat /\ ignored <= ignored'
  BY <1>3, <1>4 DEF RetryInv, CountIgnored
<1>10. \/ ignored + 1 <= ignored'
       \/ \A y \in Elements(intBuf') : Span(y) \subseteq OnTheWay => Span(y) \subseteq OnTheWay'
  <2>1. CASE Span(x) \cap Covered(intBuf') # {}
    BY <1>4, <2>1 DEF RetryInv, CountIgnored
  <2>2. CASE Span(x) \cap Covered(intBuf') = {}
    <3>1. OnTheWay \subseteq Span(x) \cup OnTheWay'
      <4>1. OnTheWay' = Covered(toServer') \cup Covered(sndQueue') \cup Covered(datagram') \cup GramBytes(toClient')
        BY DEF OnTheWay, InFlight, GramBytes
      <4>2. toServer' = toServer /\ sndQueue' = sndQueue
        BY <1>3 DEF serverVars
      <4>. QED
        BY <1>4, <4>1, <4>2, WaysAre
    <3>2. \A y \in Elements(intBuf') : Span(y) \subseteq Covered(intBuf')
      BY DEF Elements, Covered
    <3>. QED
      BY <2>2, <3>1, <3>2
  <2>. QED
    BY <2>1, <2>2
<1>11. faults <= faults'
  BY <1>9
<1>. QED
  BY <1>2, <1>7, <1>8, <1>9, <1>10, <1>11, RetryStays

LEMMA ServerInputRetry ==
  ASSUME PathInv, RetryInv, ServerInput
  PROVE  RetryInv'
<1>1. PICK n \in Nat : n = asked /\ NetInv(n) /\ ServerInv(n) /\ n <= MaxByte
  BY CreditInvNumbers DEF PathInv
<1>2. PICK N \in Nat : intBuf \in Seq(Ints(N))
  BY DEF PathInv, CreditInv, TypeInv, ByteInv, StreamInv, ListTypes, NumberTypes
<1>3. /\ UNCHANGED <<clientVars, toClient, datagram, ignored>>
      /\ toServer # <<>> /\ toServer' = Tail(toServer)
  BY DEF ServerInput
<1>4. PICK provided \in 0 .. MaxByte :
        Server!InputInt(Head(toServer), provided) /\ Fault(provided < Head(toServer).end)
  BY DEF ServerInput, Bytes
<1>5. toServer \in Seq(Segs(n))
  BY <1>1 DEF NetInv
<1>6. PICK r : r = Head(toServer)
  OBVIOUS
<1>7. r \in Segs(n) /\ Server!InputInt(r, provided) /\ Fault(provided < r.end)
  BY <1>3, <1>4, <1>5, <1>6
<1>8. state' = state /\ intBuf' = intBuf /\ ignored' = ignored
  BY <1>3 DEF clientVars, vars, intVars
<1>9. faults' \in Nat /\ faults <= faults' /\ (provided < r.end => faults + 1 <= faults')
  BY <1>7 DEF Fault, RetryInv
<1>10. CASE ~ (provided < r.end)
  <2>1. provided \in Nat
    BY <1>4, PathNumbersHold DEF PathNumbers
  <2>2. Covered(sndQueue) \cup Span(r) \subseteq Covered(sndQueue')
    BY <1>1, <1>7, <1>10, <2>1, ServerAnswers
  <2>3. Covered(toServer) = Span(r) \cup Covered(toServer')
    BY <1>3, <1>5, <1>6, CoveredHead
  <2>4. OnTheWay' = Covered(toServer') \cup Covered(sndQueue') \cup Covered(datagram') \cup GramBytes(toClient')
    BY DEF OnTheWay, InFlight, GramBytes
  <2>5. OnTheWay \subseteq OnTheWay'
    BY <1>3, <2>2, <2>3, <2>4, WaysAre
  <2>. QED
    BY <1>2, <1>8, <1>9, <2>5, RetryRests
<1>11. CASE provided < r.end
  BY <1>2, <1>8, <1>9, <1>11, RetryRests
<1>. QED
  BY <1>10, <1>11

LEMMA ServerFlushRetry ==
  ASSUME PathInv, RetryInv, ServerFlush
  PROVE  RetryInv'
<1>1. PICK n \in Nat : n = asked /\ NetInv(n) /\ ServerInv(n)
  BY CreditInvNumbers DEF PathInv
<1>2. PICK N \in Nat : intBuf \in Seq(Ints(N))
  BY DEF PathInv, CreditInv, TypeInv, ByteInv, StreamInv, ListTypes, NumberTypes
<1>3. UNCHANGED <<clientVars, toServer, datagram, faults, ignored>>
  BY DEF ServerFlush, ServerFlushAdding
<1>4. PICK newOutput \in DataOutputs, k \in 0 .. Len(sndQueue) :
        /\ Server!FlushData(newOutput, k)
        /\ toClient' = toClient \o Server!Datagrams(SubSeq(sndQueue, 1, k))
  BY DEF ServerFlush, ServerFlushAdding
<1>5. PICK s : s = sndQueue
  OBVIOUS
<1>6. s \in Seq(DataSegs(n)) /\ k \in 0 .. Len(s) /\ toClient \in Seq(Grams(n))
  BY <1>1, <1>4, <1>5 DEF ServerInv, NetInv
<1>7. PICK a, b : a = SubSeq(s, 1, k) /\ b = SubSeq(s, k + 1, Len(s))
  OBVIOUS
<1>8. a \in Seq(DataSegs(n)) /\ Covered(a) \cup Covered(b) = Covered(s)
  BY <1>6, <1>7, DataSegsSized, CutInTwo
<1>9. sndQueue' = b
  BY <1>4, <1>5, <1>7 DEF Server!FlushData
<1>10. PICK gs : gs = Server!Datagrams(a)
  OBVIOUS
<1>11. gs \in Seq(Grams(n)) /\ Covered(a) \subseteq GramBytes(gs)
  BY <1>8, <1>10, DatagramsType, DatagramsCover
<1>12. GramBytes(toClient') = GramBytes(toClient) \cup GramBytes(gs)
  <2>1. toClient' = toClient \o gs
    BY <1>4, <1>5, <1>7, <1>10
  <2>. QED
    BY <1>6, <1>11, <2>1, GramBytesJoin
<1>13. OnTheWay' = Covered(toServer') \cup Covered(sndQueue') \cup Covered(datagram') \cup GramBytes(toClient')
  BY DEF OnTheWay, InFlight, GramBytes
<1>14. OnTheWay \subseteq OnTheWay'
  BY <1>3, <1>5, <1>8, <1>9, <1>11, <1>12, <1>13, WaysAre
<1>15. state' = state /\ intBuf' = intBuf /\ ignored' = ignored
  BY <1>3 DEF clientVars, vars, intVars
<1>16. faults' \in Nat /\ faults <= faults'
  BY <1>3 DEF RetryInv
<1>. QED
  BY <1>2, <1>14, <1>15, <1>16, RetryRests

LEMMA NextRetryInv == PathInv /\ RetryInv /\ [PathNext]_pathVars => RetryInv'
<1>. SUFFICES ASSUME PathInv, RetryInv, [PathNext]_pathVars PROVE RetryInv'
  OBVIOUS
<1>1. PICK N \in Nat : intBuf \in Seq(Ints(N))
  BY DEF PathInv, CreditInv, TypeInv, ByteInv, StreamInv, ListTypes, NumberTypes
<1>2. ASSUME UNCHANGED <<state, intBuf, sndQueue, netVars>>
      PROVE  RetryInv'
  <2>1. OnTheWay' = OnTheWay /\ faults' = faults /\ ignored' = ignored
    BY <1>2 DEF netVars, OnTheWay, InFlight
  <2>2. faults' \in Nat /\ faults <= faults' /\ OnTheWay \subseteq OnTheWay'
    BY <2>1 DEF RetryInv
  <2>3. UNCHANGED <<state, intBuf, ignored>>
    BY <1>2, <2>1
  <2>. QED
    BY <1>1, <2>2, <2>3, RetryRests
<1>3. CASE UNCHANGED pathVars
  BY <1>2, <1>3 DEF pathVars, clientVars, vars, intVars, serverVars
<1>4. CASE Client(Request)
  <2>1. UNCHANGED <<serverVars, netVars>> /\ Request
    BY <1>4 DEF Client
  <2>2. UNCHANGED <<state, intBuf>>
    BY <2>1 DEF Request
  <2>. QED
    BY <1>2, <2>1, <2>2 DEF serverVars
<1>5. CASE Client(Recv)
  <2>1. UNCHANGED <<serverVars, netVars>> /\ Recv
    BY <1>5 DEF Client
  <2>2. UNCHANGED <<state, intBuf>>
    BY <2>1 DEF Recv, intVars
  <2>. QED
    BY <1>2, <2>1, <2>2 DEF serverVars
<1>6. CASE Client(HoleAges)
  <2>1. UNCHANGED <<serverVars, netVars>> /\ HoleAges
    BY <1>6 DEF Client
  <2>2. UNCHANGED <<state, intBuf>>
    BY <2>1 DEF HoleAges, intVars
  <2>. QED
    BY <1>2, <2>1, <2>2 DEF serverVars
<1>7. CASE ServerDrop
  <2>1. Server!DropBlock /\ UNCHANGED <<clientVars, netVars>>
    BY <1>7 DEF ServerDrop
  <2>2. UNCHANGED <<state, intBuf>>
    BY <2>1 DEF clientVars, vars, intVars
  <2>3. sndQueue' = sndQueue
    BY <2>1 DEF Server!DropBlock
  <2>. QED
    BY <1>2, <2>1, <2>2, <2>3
<1>8. CASE Lose
  <2>1. Fault(TRUE) /\ UNCHANGED <<clientVars, ignored>>
    BY <1>8 DEF Lose
  <2>2. faults' \in Nat /\ faults + 1 <= faults' /\ faults <= faults'
    BY <2>1 DEF Fault, RetryInv
  <2>3. UNCHANGED <<state, intBuf, ignored>>
    BY <2>1 DEF clientVars, vars, intVars
  <2>. QED
    BY <1>1, <2>2, <2>3, RetryRests
<1>. QED
  BY <1>3, <1>4, <1>5, <1>6, <1>7, <1>8, UpdateRetry, TimeoutRetry, InputRetry,
     ServerInputRetry, ServerFlushRetry DEF PathNext

LEMMA InitRetryInv == PathInit => RetryInv
<1>. SUFFICES ASSUME PathInit PROVE RetryInv
  OBVIOUS
<1>1. faults = 0 /\ ignored = 0 /\ state = "up" /\ intBuf = <<>>
  BY DEF PathInit, NetInit, Init
<1>2. Elements(intBuf) = {}
  BY <1>1 DEF Elements
<1>. QED
  BY <1>1, <1>2 DEF RetryInv, AllPatient

LEMMA RetryInvMeans == PathInv /\ RetryInv => OneRetryPerFault
<1>. SUFFICES ASSUME PathInv, RetryInv PROVE OneRetryPerFault
  OBVIOUS
<1>1. PICK c \in Nat, l \in Nat : c = faults + ignored /\ c = Cost /\ l = LEOTP_DEADLINK
  BY RequesterAssumption DEF RetryInv, Cost
<1>2. ASSUME NEW i \in 1 .. Len(intBuf) PROVE intBuf[i].xmit <= c + 1
  <2>1. Patient(intBuf[i], c, OnTheWay)
    BY <1>1 DEF RetryInv, AllPatient, Elements
  <2>. QED
    BY <2>1 DEF Patient
<1>3. state = "dead" => c >= l
  BY <1>1 DEF RetryInv
<1>. QED
  BY <1>1, <1>2, <1>3 DEF OneRetryPerFault

-----------------------------------------------------------------------------
(* The theorems.                                                           *)

(* On the path the requester behaves as its own module says: what the      *)
(* responder sends is always an answer to something the requester asked    *)
(* for, so all that is proved of a requester holds here, too (input,       *)
(* flushIntBuf, parseInt, flushData; leotp.cpp:353-456, 1113-1314).        *)
THEOREM ClientIsRequester == PathSpec => Spec
<1>1. PathInit => Init
  BY DEF PathInit
<1>2. PathInv /\ [PathNext]_pathVars => [Next]_vars
  BY NextPathInv DEF PathStepGood
<1>. QED
  BY <1>1, <1>2, PathInvStays, PTL DEF PathSpec, Spec

(* On the path the responder behaves as its own module says: every         *)
(* interest that reaches it asks for bytes of the stream (parseInt;        *)
(* leotp.cpp:353-399).                                                     *)
THEOREM ServerIsResponder == PathSpec => Server!Spec
<1>1. PathInit => Server!Init
  BY DEF PathInit
<1>2. PathInv /\ [PathNext]_pathVars => [Server!Next]_(Server!vars)
  BY NextPathInv DEF PathStepGood
<1>. QED
  BY <1>1, <1>2, PathInvStays, PTL DEF PathSpec, Server!Spec

(* Every variable of the responder keeps its type; its credit never goes   *)
(* below zero (flushData; leotp.cpp:1226-1314).                            *)
THEOREM ServerTypeCorrect == PathSpec => []ServerTypeOK
  BY PathInvStays, PathInvMeans, PTL

(* Each byte of each interest that reaches the responder is queued for     *)
(* sending once or still pending, however the cache and the application    *)
(* share the answer (parseInt and notifyNewData; leotp.cpp:353-399,        *)
(* 415-456).                                                               *)
THEOREM InterestsQueuedOnce == PathSpec => []EachInterestOnce
  BY PathInvStays, PathInvMeans, PTL

(* sndQueueBytes, which the responder tells the requester, is the size of  *)
(* sndQueue with its headers (leotp.cpp:204, 1301, 1478).                  *)
THEOREM ServerQueueAccounted == PathSpec => []SndQueueAccounted
  BY PathInvStays, PathInvMeans, PTL

(* No datagram is empty or longer than LEOTP_MTU, for every segment size   *)
(* and header (flushData; leotp.cpp:1275-1280).                            *)
THEOREM DatagramsAlwaysFit == PathSpec => []DatagramsFit
  BY PathInvStays, PathInvMeans, PTL

(* What the application inserts answers every pending interest that waits  *)
(* for it at once (udp_leotp.cpp:242-246, leotp.cpp:415-456).              *)
THEOREM InsertAnswersWaiting == PathSpec => InsertedAnswersAll
<1>1. InsertedAnswersAll <=>
        [][Server!Covered(pendingInts') \cap (store' \ store) = {}]_(Server!vars)
  BY DEF InsertedAnswersAll, Server!InsertedAnswersAll
<1>2. PathInv /\ [PathNext]_pathVars
        => [Server!Covered(pendingInts') \cap (store' \ store) = {}]_(Server!vars)
  BY NextPathInv, SameCovered DEF PathStepGood
<1>. QED
  BY <1>1, <1>2, PathInvStays, PTL DEF PathSpec

(* With fewer than LEOTP_DEADLINK things gone wrong, datagrams lost, early *)
(* timeouts, short answers or data passed over, no link dies: each of them *)
(* costs an interest at most one more transmission, however often it is    *)
(* cut (flushIntBuf, parseData, parseInt, flushDataHoles;                  *)
(* leotp.cpp:1113-1204, 649-788, 344-456, 612-638).                        *)
THEOREM RetriesOnlyForFaults == PathSpec => []OneRetryPerFault
<1>1. PathSpec => []RetryInv
  BY PathInvStays, NextRetryInv, InitRetryInv, PTL DEF PathSpec
<1>. QED
  BY <1>1, PathInvStays, RetryInvMeans, PTL

(* The requester's promises hold on the path: each byte requested is in    *)
(* one place, and the application gets the stream in order.                *)
THEOREM PathKeepsBytes == PathSpec => []EveryByteOnce /\ StreamSpec
  BY ClientIsRequester, BytesAlwaysOnce, RequesterImplementsStream, PTL
=============================================================================
