---------------------- MODULE LeotpRequesterByteProofs ----------------------
(***************************************************************************)
(* Theorems on the bytes of the requester, for every segment size, window, *)
(* request size and pattern of loss, repetition and reordering: each byte  *)
(* requested is in exactly one place, intBufBytes counts the interests in  *)
(* intBuf, a byte that was answered is never asked for again, the credit   *)
(* is kept, and rcvBufItrs describes rcvBuf.                               *)
(***************************************************************************)
EXTENDS LeotpRequesterProofs

-----------------------------------------------------------------------------
(* The elements of the lists are ranges.                                   *)

LEMMA SegsSized == ASSUME NEW n PROVE Sized(Segs(n)) /\ Sized(Ints(n))
BY DEF Sized, Segs, Ints

LEMMA IntIsRange == ASSUME NEW n, NEW x \in Ints(n) PROVE IsRange(x)
<1>1. x \in [start : Nat, end : Nat, xmit : Nat, late : BOOLEAN] /\ x.start < x.end
  BY DEF Ints
<1>2. x.start \in Nat /\ x.end \in Nat /\ DOMAIN x = {"start", "end", "xmit", "late"}
  BY <1>1
<1>. QED
  BY <1>1, <1>2 DEF IsRange

-----------------------------------------------------------------------------
(* parseData: each interest is split into what stays and what is answered. *)

LEMMA UnansweredBytes ==
  ASSUME NEW n \in Nat, NEW buf \in Seq(Ints(n)), NEW r, r.start \in Nat, r.end \in Nat, r.start < r.end
  PROVE  /\ Amount(Recut(buf, r, LAMBDA x : Unanswered(x, r))) + Amount(Answered(buf, r)) = Amount(buf)
         /\ Covered(Recut(buf, r, LAMBDA x : Unanswered(x, r))) \cup Covered(Answered(buf, r)) = Covered(buf)
<1>. DEFINE ps == [i \in 1 .. Len(buf) |-> IF i \in Scanned(buf, r) THEN Unanswered(buf[i], r) ELSE <<buf[i]>>]
            qs == [i \in 1 .. Len(buf) |-> IF i \in Scanned(buf, r) THEN Inside(buf[i], r) ELSE <<>>]
<1>0. Sized(Ints(n))
  BY SegsSized
<1>1. ASSUME NEW x \in Ints(n)
      PROVE  /\ Unanswered(x, r) \in Seq(Ints(n)) /\ Inside(x, r) \in Seq(Ints(n))
             /\ Amount(Unanswered(x, r)) + Amount(Inside(x, r)) = Size(x)
             /\ Covered(Unanswered(x, r)) \cup Covered(Inside(x, r)) = Span(x)
  <2>1. Before(x, r) \in Seq(Ints(n)) /\ Inside(x, r) \in Seq(Ints(n)) /\ After(x, r) \in Seq(Ints(n))
    BY IntPieces
  <2>2. Amount(Unanswered(x, r)) = Amount(After(x, r)) + Amount(Before(x, r))
    BY <1>0, <2>1, AmountJoin DEF Unanswered
  <2>3. Covered(Unanswered(x, r)) = Covered(After(x, r)) \cup Covered(Before(x, r))
    BY <2>1, CoveredJoin DEF Unanswered
  <2>4. IsRange(x)
    BY IntIsRange
  <2>5. /\ Covered(Before(x, r)) \cup Covered(Inside(x, r)) \cup Covered(After(x, r)) = Span(x)
        /\ Amount(Before(x, r)) + Amount(Inside(x, r)) + Amount(After(x, r)) = Size(x)
    BY <2>4, PartsBytes
  <2>6. Amount(Before(x, r)) \in Int /\ Amount(Inside(x, r)) \in Int /\ Amount(After(x, r)) \in Int
    BY <1>0, <2>1, AmountType
  <2>7. Amount(Unanswered(x, r)) + Amount(Inside(x, r)) = Size(x)
    BY <2>2, <2>5, <2>6
  <2>8. Covered(Unanswered(x, r)) \cup Covered(Inside(x, r)) = Span(x)
    BY <2>3, <2>5
  <2>9. Unanswered(x, r) \in Seq(Ints(n))
    BY <2>1 DEF Unanswered
  <2>. QED
    BY <2>1, <2>7, <2>8, <2>9
<1>2. ASSUME NEW i \in 1 .. Len(buf)
      PROVE  /\ ps[i] \in Seq(Ints(n)) /\ qs[i] \in Seq(Ints(n))
             /\ Amount(ps[i]) + Amount(qs[i]) = Size(buf[i])
             /\ Covered(ps[i]) \cup Covered(qs[i]) = Span(buf[i])
  <2>1. buf[i] \in Ints(n)
    OBVIOUS
  <2>2. CASE i \in Scanned(buf, r)
    <3>1. ps[i] = Unanswered(buf[i], r) /\ qs[i] = Inside(buf[i], r)
      BY <2>2
    <3>. HIDE DEF ps, qs
    <3>. QED
      BY <1>1, <2>1, <3>1
  <2>3. CASE i \notin Scanned(buf, r)
    <3>1. ps[i] = <<buf[i]>> /\ qs[i] = <<>>
      BY <2>3
    <3>2. Amount(<<buf[i]>>) = Size(buf[i]) /\ Covered(<<buf[i]>>) = Span(buf[i]) /\ Size(buf[i]) \in Int
      <4>1. buf[i].start \in Nat /\ buf[i].end \in Nat /\ buf[i].start < buf[i].end
        BY <2>1 DEF Ints
      <4>. QED
        BY <4>1, OneRange DEF Size
    <3>3. Amount(<<>>) = 0 /\ Covered(<<>>) = {}
      BY AmountNone, CoveredNone
    <3>. HIDE DEF ps, qs
    <3>4. <<buf[i]>> \in Seq(Ints(n)) /\ <<>> \in Seq(Ints(n))
      BY <2>1
    <3>. QED
      BY <3>1, <3>2, <3>3, <3>4
  <2>. QED
    BY <2>2, <2>3
<1>3. Recut(buf, r, LAMBDA x : Unanswered(x, r)) = Concat(Len(buf), ps)
  BY DEF Recut
<1>4. Answered(buf, r) = Concat(Len(buf), qs)
  BY DEF Answered
<1>. HIDE DEF ps, qs
<1>5. /\ Amount(Concat(Len(buf), ps)) + Amount(Concat(Len(buf), qs)) = Amount(buf)
      /\ Covered(Concat(Len(buf), ps)) \cup Covered(Concat(Len(buf), qs)) = Covered(buf)
  <2>1. Splits(Ints(n), Ints(n), buf, ps, qs)
    BY <1>2 DEF Splits
  <2>2. Len(buf) \in Nat
    OBVIOUS
  <2>. QED
    BY <1>0, <2>1, <2>2, SplitAmount
<1>. QED
  BY <1>3, <1>4, <1>5

(* updateIntBuf cuts an interest into parts that are the interest.         *)
LEMMA RestampPartsBytes ==
  ASSUME NEW n \in Nat, NEW x \in Ints(n), NEW h, h.start \in Nat, h.end \in Nat, h.start < h.end
  PROVE  /\ RestampParts(x, h) \in Seq(Ints(n))
         /\ Amount(RestampParts(x, h)) = Size(x) /\ Covered(RestampParts(x, h)) = Span(x)
<1>. DEFINE stamped == IF Inside(x, h) = <<>> THEN <<>> ELSE <<[Inside(x, h)[1] EXCEPT !.late = FALSE]>>
<1>0. Sized(Ints(n))
  BY SegsSized
<1>1. /\ stamped \in Seq(Ints(n))
      /\ Amount(stamped) = Amount(Inside(x, h)) /\ Covered(stamped) = Covered(Inside(x, h))
  <2>1. Inside(x, h) \in Seq(Ints(n))
    BY IntPieces
  <2>2. CASE Inside(x, h) = <<>>
    BY <2>2, AmountNone, CoveredNone
  <2>3. CASE Inside(x, h) # <<>>
    <3>1. PICK y \in Ints(n) : Inside(x, h) = <<y>>
      <4>1. Inside(x, h) = <<Inside(x, h)[1]>> /\ Inside(x, h)[1] \in Ints(n)
        BY <2>1, <2>3 DEF Inside
      <4>. QED
        BY <4>1
    <3>2. PICK z : z = [y EXCEPT !.late = FALSE]
      OBVIOUS
    <3>3. z \in Ints(n) /\ z.start = y.start /\ z.end = y.end
      BY <3>2 DEF Ints
    <3>4. stamped = <<z>>
      BY <2>3, <3>1, <3>2
    <3>5. y.start \in Nat /\ y.end \in Nat /\ y.start < y.end
      BY DEF Ints
    <3>6. Amount(<<y>>) = Size(y) /\ Covered(<<y>>) = Span(y)
      BY <3>5, OneRange
    <3>7. Amount(<<z>>) = Size(z) /\ Covered(<<z>>) = Span(z)
      BY <3>3, <3>5, OneRange
    <3>8. Size(y) = Size(z) /\ Span(y) = Span(z)
      BY <3>3 DEF Size, Span
    <3>9. <<z>> \in Seq(Ints(n))
      BY <3>3
    <3>. HIDE DEF stamped
    <3>. QED
      BY <3>1, <3>4, <3>6, <3>7, <3>8, <3>9
  <2>. QED
    BY <2>2, <2>3
<1>. HIDE DEF stamped
<1>2. Before(x, h) \in Seq(Ints(n)) /\ Inside(x, h) \in Seq(Ints(n)) /\ After(x, h) \in Seq(Ints(n))
  BY IntPieces
<1>3. PICK front : front = Before(x, h) \o stamped
  OBVIOUS
<1>4. front \in Seq(Ints(n))
  BY <1>1, <1>2, <1>3
<1>5. Amount(front) = Amount(Before(x, h)) + Amount(stamped)
  BY <1>0, <1>1, <1>2, <1>3, AmountJoin
<1>6. Covered(front) = Covered(Before(x, h)) \cup Covered(stamped)
  BY <1>1, <1>2, <1>3, CoveredJoin
<1>7. RestampParts(x, h) = front \o After(x, h)
  BY <1>3 DEF RestampParts, stamped
<1>8. Amount(RestampParts(x, h)) = Amount(front) + Amount(After(x, h))
  BY <1>0, <1>2, <1>4, <1>7, AmountJoin
<1>9. Covered(RestampParts(x, h)) = Covered(front) \cup Covered(After(x, h))
  BY <1>2, <1>4, <1>7, CoveredJoin
<1>10. IsRange(x)
  BY IntIsRange
<1>11. /\ Covered(Before(x, h)) \cup Covered(Inside(x, h)) \cup Covered(After(x, h)) = Span(x)
       /\ Amount(Before(x, h)) + Amount(Inside(x, h)) + Amount(After(x, h)) = Size(x)
  BY <1>10, PartsBytes
<1>12. Amount(Before(x, h)) \in Int /\ Amount(Inside(x, h)) \in Int /\ Amount(After(x, h)) \in Int
  BY <1>0, <1>2, AmountType
<1>13. Amount(RestampParts(x, h)) = Size(x)
  BY <1>1, <1>5, <1>8, <1>11, <1>12
<1>14. Covered(RestampParts(x, h)) = Span(x)
  BY <1>1, <1>6, <1>9, <1>11
<1>15. RestampParts(x, h) \in Seq(Ints(n))
  BY <1>2, <1>4, <1>7
<1>. QED
  BY <1>13, <1>14, <1>15

(* updateIntBuf cuts interests, and neither loses nor repeats a byte.      *)
LEMMA RestampBytes ==
  ASSUME NEW n \in Nat, NEW buf \in Seq(Ints(n)), NEW h, h.start \in Nat, h.end \in Nat, h.start < h.end
  PROVE  Amount(Restamp(buf, h)) = Amount(buf) /\ Covered(Restamp(buf, h)) = Covered(buf)
<1>. DEFINE ps == [i \in 1 .. Len(buf) |-> IF i \in Scanned(buf, h) THEN RestampParts(buf[i], h) ELSE <<buf[i]>>]
<1>0. Sized(Ints(n))
  BY SegsSized
<1>1. ASSUME NEW i \in 1 .. Len(buf)
      PROVE  /\ ps[i] \in Seq(Ints(n))
             /\ Amount(ps[i]) = Size(buf[i]) /\ Covered(ps[i]) = Span(buf[i])
  <2>1. buf[i] \in Ints(n)
    OBVIOUS
  <2>2. CASE i \in Scanned(buf, h)
    <3>1. ps[i] = RestampParts(buf[i], h)
      BY <2>2
    <3>. HIDE DEF ps
    <3>. QED
      BY <2>1, <3>1, RestampPartsBytes
  <2>3. CASE i \notin Scanned(buf, h)
    <3>1. ps[i] = <<buf[i]>>
      BY <2>3
    <3>. HIDE DEF ps
    <3>2. buf[i].start \in Nat /\ buf[i].end \in Nat /\ buf[i].start < buf[i].end
      BY <2>1 DEF Ints
    <3>3. Amount(<<buf[i]>>) = Size(buf[i]) /\ Covered(<<buf[i]>>) = Span(buf[i])
      BY <3>2, OneRange
    <3>4. <<buf[i]>> \in Seq(Ints(n))
      BY <2>1
    <3>. QED
      BY <3>1, <3>3, <3>4
  <2>. QED
    BY <2>2, <2>3
<1>2. Restamp(buf, h) = Concat(Len(buf), ps)
  BY DEF Restamp, Recut, RestampParts
<1>. HIDE DEF ps
<1>3. Amount(Concat(Len(buf), ps)) = Amount(buf) /\ Covered(Concat(Len(buf), ps)) = Covered(buf)
  BY <1>0, <1>1, PiecesAmount
<1>. QED
  BY <1>2, <1>3

-----------------------------------------------------------------------------
(* parseData: each piece answered is put into rcvBuf once.                 *)

LEMMA InsertBeforeBytes ==
  ASSUME NEW T, Sized(T), NEW s \in Seq(T), NEW i \in 1 .. Len(s) + 1, NEW x \in T
  PROVE  /\ Amount(InsertBefore(s, i, x)) = Amount(s) + Size(x)
         /\ Covered(InsertBefore(s, i, x)) = Covered(s) \cup Span(x)
<1>1. PICK k \in 0 .. Len(s) : k = i - 1 /\ i = k + 1
  <2>1. Len(s) \in Nat /\ i - 1 \in 0 .. Len(s) /\ i = (i - 1) + 1
    OBVIOUS
  <2>. QED
    BY <2>1
<1>2. PICK a : a = SubSeq(s, 1, k)
  OBVIOUS
<1>3. PICK b : b = SubSeq(s, k + 1, Len(s))
  OBVIOUS
<1>4. /\ a \in Seq(T) /\ b \in Seq(T)
      /\ Amount(a) + Amount(b) = Amount(s) /\ Covered(a) \cup Covered(b) = Covered(s)
  BY <1>2, <1>3, CutInTwo
<1>5. PICK o : o = <<x>>
  OBVIOUS
<1>6. o \in Seq(T) /\ Amount(o) = Size(x) /\ Covered(o) = Span(x)
  BY <1>5, AmountOne, CoveredOne
<1>7. PICK c : c = a \o o
  OBVIOUS
<1>8. c \in Seq(T) /\ Amount(c) = Amount(a) + Amount(o)
  BY <1>4, <1>6, <1>7, AmountJoin
<1>9. Covered(c) = Covered(a) \cup Covered(o)
  BY <1>4, <1>6, <1>7, CoveredJoin
<1>10. Amount(c \o b) = Amount(c) + Amount(b)
  BY <1>4, <1>8, AmountJoin
<1>11. Covered(c \o b) = Covered(c) \cup Covered(b)
  BY <1>4, <1>8, CoveredJoin
<1>12. Amount(a) \in Int /\ Amount(b) \in Int /\ Amount(o) \in Int
  BY <1>4, <1>6, AmountType
<1>13. InsertBefore(s, i, x) = c \o b
  BY <1>1, <1>2, <1>3, <1>5, <1>7 DEF InsertBefore
<1>14. Amount(c \o b) = Amount(s) + Size(x)
  BY <1>4, <1>6, <1>8, <1>10, <1>12
<1>15. Covered(c \o b) = Covered(s) \cup Span(x)
  BY <1>4, <1>6, <1>9, <1>11
<1>. QED
  BY <1>13, <1>14, <1>15

LEMMA BufWithBytes ==
  ASSUME NEW T, Sized(T), NEW buf \in Seq(T), NEW m, NEW itrs \in Seq(Runs(m)), NEW p \in T
  PROVE  /\ Amount(BufWith(buf, itrs, p)) = Amount(buf) + Size(p)
         /\ Covered(BufWith(buf, itrs, p)) = Covered(buf) \cup Span(p)
<1>. DEFINE n == NextRun(itrs, p)
            i == Target(buf, itrs[n].itr)
<1>1. i \in 1 .. Len(buf) + 1
  <2>. DEFINE S == {k \in 1 .. Len(buf) + 1 : k <= Len(buf) => buf[k].start = itrs[n].itr}
  <2>1. Len(buf) \in Nat /\ S \subseteq 1 .. Len(buf) + 1 /\ Len(buf) + 1 \in S
    OBVIOUS
  <2>2. i = First(S)
    BY DEF Target
  <2>. HIDE DEF S, i
  <2>. QED
    BY <2>1, <2>2, SearchStops
<1>. HIDE DEF n, i
<1>2. /\ Amount(InsertBefore(buf, i, p)) = Amount(buf) + Size(p)
      /\ Covered(InsertBefore(buf, i, p)) = Covered(buf) \cup Span(p)
  BY <1>1, InsertBeforeBytes
<1>3. /\ Amount(Append(buf, p)) = Amount(buf) + Size(p)
      /\ Covered(Append(buf, p)) = Covered(buf) \cup Span(p)
  BY AppendBytes
<1>4. BufWith(buf, itrs, p) = IF n > Len(itrs) THEN Append(buf, p) ELSE InsertBefore(buf, i, p)
  BY DEF BufWith, n, i
<1>5. CASE n > Len(itrs)
  <2>1. BufWith(buf, itrs, p) = Append(buf, p)
    BY <1>4, <1>5
  <2>. QED
    BY <1>3, <2>1
<1>6. CASE ~ (n > Len(itrs))
  <2>1. BufWith(buf, itrs, p) = InsertBefore(buf, i, p)
    BY <1>4, <1>6
  <2>. QED
    BY <1>2, <2>1
<1>. QED
  BY <1>5, <1>6

LEMMA InsertedBytes ==
  ASSUME NEW n \in Nat, rcvBuf \in Seq(Segs(n)), rcvBufItrs \in Seq(Runs(n)), NEW ps \in Seq(Ints(n))
  PROVE  /\ Amount(Inserted(ps).buf) = Amount(rcvBuf) + Amount(ps)
         /\ Covered(Inserted(ps).buf) = Covered(rcvBuf) \cup Covered(ps)
<1>. DEFINE sizes == [i \in 1 .. Len(ps) |-> IF i \in 1 .. Len(ps) THEN Size(ps[i]) ELSE 0]
            Upto(k) == UNION {Span(ps[i]) : i \in 1 .. k}
<1>1. PICK f : Inserting(n, ps, f) /\ Inserted(ps) = f[Len(ps)]
  BY InsertedSteps
<1>2. Len(ps) \in Nat /\ Sized(Segs(n))
  BY SegsSized
<1>3. f[0].buf = rcvBuf /\ \A k \in 0 .. Len(ps) : f[k].buf \in Seq(Segs(n)) /\ f[k].itrs \in Seq(Runs(n))
  <2>1. PICK S : S = [buf : Seq(Segs(n)), itrs : Seq(Runs(n))]
    OBVIOUS
  <2>2. f[0] = [buf |-> rcvBuf, itrs |-> rcvBufItrs] /\ \A k \in 0 .. Len(ps) : f[k] \in S
    BY <1>1, <2>1 DEF Inserting
  <2>3. \A x \in S : x.buf \in Seq(Segs(n)) /\ x.itrs \in Seq(Runs(n))
    BY <2>1
  <2>. QED
    BY <2>2, <2>3
<1>4. ASSUME NEW i \in 1 .. Len(ps)
      PROVE  /\ Size(ps[i]) \in Int
             /\ Amount(f[i].buf) = Amount(f[i - 1].buf) + Size(ps[i])
             /\ Covered(f[i].buf) = Covered(f[i - 1].buf) \cup Span(ps[i])
  <2>1. ps[i] \in Ints(n) /\ i - 1 \in 0 .. Len(ps)
    BY <1>2
  <2>2. PICK p : p = Seg(ps[i].start, ps[i].end)
    OBVIOUS
  <2>3. p \in Segs(n) /\ Size(p) = Size(ps[i]) /\ Span(p) = Span(ps[i]) /\ Size(ps[i]) \in Int
    BY <2>1, <2>2 DEF Ints, Segs, Seg, Size, Span
  <2>4. f[i].buf = BufWith(f[i - 1].buf, f[i - 1].itrs, p)
    <3>1. f[i] = AfterPiece(f[i - 1], p)
      BY <1>1, <2>2 DEF Inserting
    <3>. QED
      BY <3>1 DEF AfterPiece
  <2>5. f[i - 1].buf \in Seq(Segs(n)) /\ f[i - 1].itrs \in Seq(Runs(n))
    BY <1>3, <2>1
  <2>6. PICK buf \in Seq(Segs(n)), itrs \in Seq(Runs(n)) : buf = f[i - 1].buf /\ itrs = f[i - 1].itrs
    BY <2>5
  <2>7. /\ Amount(BufWith(buf, itrs, p)) = Amount(buf) + Size(p)
        /\ Covered(BufWith(buf, itrs, p)) = Covered(buf) \cup Span(p)
    BY <1>2, <2>3, BufWithBytes
  <2>. QED
    BY <2>3, <2>4, <2>6, <2>7
<1>5. \A k \in 0 .. Len(ps) : Amount(f[k].buf) \in Int
  BY <1>2, <1>3, AmountType
<1>6. Amount(f[Len(ps)].buf) = Amount(rcvBuf) + Amount(ps)
  <2>. DEFINE g == [k \in 0 .. Len(ps) |-> Amount(f[k].buf) - Amount(rcvBuf)]
  <2>1. Amount(rcvBuf) \in Int
    BY <1>2, AmountType
  <2>2. g \in [0 .. Len(ps) -> Int] /\ g[0] = 0
    BY <1>2, <1>3, <1>5, <2>1
  <2>3. \A i \in 1 .. Len(ps) : sizes[i] = Size(ps[i])
    OBVIOUS
  <2>. HIDE DEF sizes
  <2>4. ASSUME NEW i \in 1 .. Len(ps)
        PROVE  g[i] = g[i - 1] + sizes[i]
    <3>1. i \in 0 .. Len(ps) /\ i - 1 \in 0 .. Len(ps)
      BY <1>2
    <3>2. g[i] = Amount(f[i].buf) - Amount(rcvBuf) /\ g[i - 1] = Amount(f[i - 1].buf) - Amount(rcvBuf)
      BY <3>1
    <3>3. Amount(f[i].buf) \in Int /\ Amount(f[i - 1].buf) \in Int
      BY <1>5, <3>1
    <3>. HIDE DEF g
    <3>. QED
      BY <1>4, <2>1, <2>3, <3>2, <3>3
  <2>5. g[Len(ps)] = Amount(f[Len(ps)].buf) - Amount(rcvBuf)
    BY <1>2
  <2>. HIDE DEF g
  <2>6. PartialSums(Len(ps), sizes, g)
    BY <2>2, <2>4 DEF PartialSums
  <2>7. SumOf(Len(ps), sizes) = g[Len(ps)]
    BY <1>2, <2>6, SumIs
  <2>8. Amount(ps) = SumOf(Len(ps), sizes)
    BY DEF Amount, TotalSize, sizes
  <2>9. Len(ps) \in 0 .. Len(ps)
    BY <1>2
  <2>. QED
    BY <1>5, <2>1, <2>5, <2>7, <2>8, <2>9
<1>7. Covered(f[Len(ps)].buf) = Covered(rcvBuf) \cup Covered(ps)
  <2>. DEFINE Agree == {k \in Nat : k <= Len(ps) => Covered(f[k].buf) = Covered(rcvBuf) \cup Upto(k)}
  <2>1. 0 \in Agree
    BY <1>3
  <2>2. ASSUME NEW k \in Nat, k \in Agree
        PROVE  k + 1 \in Agree
    <3>. SUFFICES ASSUME k + 1 <= Len(ps)
                  PROVE  Covered(f[k + 1].buf) = Covered(rcvBuf) \cup Upto(k + 1)
      OBVIOUS
    <3>1. k + 1 \in 1 .. Len(ps) /\ (k + 1) - 1 = k /\ k <= Len(ps)
      BY <1>2
    <3>2. Covered(f[k].buf) = Covered(rcvBuf) \cup Upto(k)
      BY <2>2, <3>1
    <3>3. Covered(f[k + 1].buf) = Covered(f[k].buf) \cup Span(ps[k + 1])
      BY <1>4, <3>1
    <3>4. Upto(k + 1) = Upto(k) \cup Span(ps[k + 1])
      <4>1. 1 .. k + 1 = (1 .. k) \cup {k + 1}
        OBVIOUS
      <4>. QED
        BY <4>1
    <3>. HIDE DEF Upto
    <3>. QED
      BY <3>2, <3>3, <3>4
  <2>. HIDE DEF Agree
  <2>3. Nat \subseteq Agree
    BY <2>1, <2>2, SetInduction
  <2>4. Len(ps) \in Agree
    BY <1>2, <2>3
  <2>5. Covered(f[Len(ps)].buf) = Covered(rcvBuf) \cup Upto(Len(ps))
    BY <1>2, <2>4 DEF Agree
  <2>6. Upto(Len(ps)) = Covered(ps)
    BY DEF Covered
  <2>. QED
    BY <2>5, <2>6
<1>. QED
  BY <1>1, <1>6, <1>7

-----------------------------------------------------------------------------
(* moveToRcvQueue hands segments from one list to the other.               *)

LEMMA MoveBytes ==
  ASSUME NEW n \in Nat, NEW buf \in Seq(Segs(n)), NEW itrs \in Seq(Runs(n)),
         NEW queue \in Seq(Segs(n)), MoveToRcvQueue(buf, itrs, queue)
  PROVE  /\ Amount(rcvBuf') + Amount(rcvQueue') = Amount(buf) + Amount(queue)
         /\ Covered(rcvBuf') \cup Covered(rcvQueue') = Covered(buf) \cup Covered(queue)
<1>1. PICK k \in 0 .. Len(buf) :
        /\ rcvBuf' = SubSeq(buf, k + 1, Len(buf))
        /\ rcvQueue' = queue \o SubSeq(buf, 1, k)
  BY DEF MoveToRcvQueue
<1>2. Sized(Segs(n))
  BY SegsSized
<1>3. PICK moved : moved = SubSeq(buf, 1, k)
  OBVIOUS
<1>4. PICK rest : rest = SubSeq(buf, k + 1, Len(buf))
  OBVIOUS
<1>5. /\ moved \in Seq(Segs(n)) /\ rest \in Seq(Segs(n))
      /\ Amount(moved) + Amount(rest) = Amount(buf)
      /\ Covered(moved) \cup Covered(rest) = Covered(buf)
  BY <1>2, <1>3, <1>4, CutInTwo
<1>6. rcvBuf' = rest /\ rcvQueue' = queue \o moved
  BY <1>1, <1>3, <1>4
<1>7. Amount(queue \o moved) = Amount(queue) + Amount(moved)
  BY <1>2, <1>5, AmountJoin
<1>8. Covered(queue \o moved) = Covered(queue) \cup Covered(moved)
  BY <1>5, CoveredJoin
<1>9. Amount(queue) \in Int /\ Amount(moved) \in Int /\ Amount(rest) \in Int
  BY <1>2, <1>5, AmountType
<1>10. Amount(rest) + Amount(queue \o moved) = Amount(buf) + Amount(queue)
  BY <1>5, <1>7, <1>9
<1>11. Covered(rest) \cup Covered(queue \o moved) = Covered(buf) \cup Covered(queue)
  BY <1>5, <1>8
<1>. QED
  BY <1>6, <1>10, <1>11

-----------------------------------------------------------------------------
(* flush turns the requests into interests, byte for byte.                 *)

LEMMA QueueIsChain ==
  ASSUME StreamInv, intQueue # <<>>
  PROVE  IsChain(intQueue, intQueue[1].start, sendStart)
<1>1. /\ Len(intQueue) \in Nat \ {0}
      /\ \A i \in 1 .. Len(intQueue) : intQueue[i] \in Segs(sendStart)
  BY DEF StreamInv, ListTypes
<1>2. \A i \in 1 .. Len(intQueue) :
        intQueue[i].start \in Nat /\ intQueue[i].end \in Nat /\ intQueue[i].start < intQueue[i].end
  BY <1>1 DEF Segs
<1>. QED
  BY <1>1, <1>2 DEF IsChain, StreamInv, RequestsJoined

LEMMA NewInterestsChain ==
  ASSUME StreamInv, intQueue # <<>>
  PROVE  IsChain(NewInterests, intQueue[1].start, sendStart)
<1>1. PICK first, last : first = intQueue[1].start /\ last = intQueue[Len(intQueue)].end
  OBVIOUS
<1>2. IsChain(intQueue, first, last) /\ last = sendStart
  BY <1>1, QueueIsChain DEF StreamInv, RequestsJoined
<1>3. first \in Nat /\ last \in Nat /\ first < last
  BY <1>2, ChainBytes
<1>4. PICK m \in Nat : m = LEOTP_MSS /\ m > 0
  BY RequesterAssumption
<1>5. PICK c : c = (last - first + m - 1) \div m
  OBVIOUS
<1>6. NewInterests = [i \in 1 .. c |-> [start |-> first + (i - 1) * m,
                                       end   |-> Lower(first + i * m, last),
                                       xmit  |-> 0,
                                       late  |-> FALSE]]
  BY <1>1, <1>4, <1>5 DEF NewInterests
<1>7. c \in Nat
  BY <1>3, <1>4, <1>5, PieceCount
<1>8. IsCut(NewInterests, first, last, m)
  <2>1. Len(NewInterests) = c
    BY <1>6, <1>7
  <2>2. \A i \in 1 .. c : /\ NewInterests[i].start = first + (i - 1) * m
                          /\ NewInterests[i].end = Lower(first + i * m, last)
    BY <1>6
  <2>. QED
    BY <1>5, <2>1, <2>2 DEF IsCut
<1>. QED
  BY <1>1, <1>2, <1>3, <1>4, <1>8, CutChain

LEMMA NewInterestsBytes ==
  ASSUME StreamInv
  PROVE  Amount(NewInterests) = Amount(intQueue) /\ Covered(NewInterests) = Covered(intQueue)
<1>1. CASE intQueue = <<>>
  BY <1>1 DEF NewInterests
<1>2. CASE intQueue # <<>>
  <2>1. IsChain(NewInterests, intQueue[1].start, sendStart) /\ IsChain(intQueue, intQueue[1].start, sendStart)
    BY <1>2, NewInterestsChain, QueueIsChain
  <2>2. /\ Amount(NewInterests) = sendStart - intQueue[1].start
        /\ Covered(NewInterests) = intQueue[1].start .. sendStart - 1
    BY <2>1, ChainBytes
  <2>3. /\ Amount(intQueue) = sendStart - intQueue[1].start
        /\ Covered(intQueue) = intQueue[1].start .. sendStart - 1
    BY <2>1, ChainBytes
  <2>. QED
    BY <2>2, <2>3
<1>. QED
  BY <1>1, <1>2

LEMMA FlushDataHolesBytes ==
  ASSUME NEW n \in Nat, NEW buf \in Seq(Ints(n)), NEW holes \in Seq(Gaps),
         FlushDataHoles(buf, holes)
  PROVE  Amount(intBuf') = Amount(buf) /\ Covered(intBuf') = Covered(buf)
<1>. DEFINE Aged(age) == {i \in 1 .. Len(holes) : holes[i].age = age}
            S == {t \in Seq(Ints(n)) : Amount(t) = Amount(buf) /\ Covered(t) = Covered(buf)}
<1>1. intBuf' = RecutAll(buf, Pick(holes, Aged("ripe")), Restamp)
  BY DEF FlushDataHoles
<1>. HIDE DEF Aged
<1>2. PICK rs \in Seq(Gaps) : rs = Pick(holes, Aged("ripe"))
  BY PickType
<1>3. Len(rs) \in Nat /\ \A i \in 1 .. Len(rs) : rs[i].start \in Nat /\ rs[i].end \in Nat /\ rs[i].start < rs[i].end
  <2>1. \A i \in 1 .. Len(rs) : rs[i] \in Gaps
    OBVIOUS
  <2>. QED
    BY <2>1 DEF Gaps
<1>4. ASSUME NEW x \in S, NEW i \in 1 .. Len(rs)
      PROVE  Restamp(x, rs[i]) \in S
  <2>1. x \in Seq(Ints(n)) /\ Amount(x) = Amount(buf) /\ Covered(x) = Covered(buf)
    OBVIOUS
  <2>2. rs[i].start \in Nat /\ rs[i].end \in Nat /\ rs[i].start < rs[i].end
    BY <1>3
  <2>3. Restamp(x, rs[i]) \in Seq(Ints(n))
    BY <2>1, <2>2, RestampType
  <2>4. Amount(Restamp(x, rs[i])) = Amount(x) /\ Covered(Restamp(x, rs[i])) = Covered(x)
    BY <2>1, <2>2, RestampBytes
  <2>. QED
    BY <2>1, <2>3, <2>4
<1>5. buf \in S
  OBVIOUS
<1>. HIDE DEF S
<1>6. RecutAll(buf, rs, Restamp) \in S
  BY <1>3, <1>4, <1>5, RestampAllStays
<1>. QED
  BY <1>1, <1>2, <1>6 DEF S

IsSent(sent, buf, need) ==
  sent = [i \in 1 .. Len(buf) |-> IF i \in need THEN Sent(buf[i]) ELSE buf[i]]

LEMMA SentBytes ==
  ASSUME NEW n \in Nat, NEW buf \in Seq(Ints(n)), NEW need, NEW sent, IsSent(sent, buf, need)
  PROVE  sent \in Seq(Ints(n)) /\ Amount(sent) = Amount(buf) /\ Covered(sent) = Covered(buf)
<1>1. Len(buf) \in Nat /\ \A i \in 1 .. Len(buf) : buf[i] \in Ints(n)
  OBVIOUS
<1>2. ASSUME NEW x \in Ints(n)
      PROVE  Sent(x) \in Ints(n) /\ Sent(x).start = x.start /\ Sent(x).end = x.end
  <2>1. PICK p \in Nat, q \in Nat, k \in Nat, l \in BOOLEAN :
          x = [start |-> p, end |-> q, xmit |-> k, late |-> l]
    BY DEF Ints
  <2>2. p < q /\ q <= n
    BY <2>1 DEF Ints
  <2>3. Sent(x) = [[x EXCEPT !.xmit = x.xmit + 1] EXCEPT !.late = FALSE]
    BY DEF Sent
  <2>4. Sent(x) = [start |-> p, end |-> q, xmit |-> k + 1, late |-> FALSE]
    BY <2>1, <2>3
  <2>5. Sent(x) \in Ints(n)
    BY <2>2, <2>4 DEF Ints
  <2>. QED
    BY <2>1, <2>4, <2>5
<1>3. ASSUME NEW i \in 1 .. Len(buf)
      PROVE  sent[i] \in Ints(n) /\ sent[i].start = buf[i].start /\ sent[i].end = buf[i].end
  <2>1. sent[i] = IF i \in need THEN Sent(buf[i]) ELSE buf[i]
    BY DEF IsSent
  <2>2. buf[i] \in Ints(n)
    BY <1>1
  <2>3. CASE i \in need
    <3>1. sent[i] = Sent(buf[i])
      BY <2>1, <2>3
    <3>. QED
      BY <1>2, <2>2, <3>1
  <2>4. CASE i \notin need
    <3>1. sent[i] = buf[i]
      BY <2>1, <2>4
    <3>. QED
      BY <2>2, <3>1
  <2>. QED
    BY <2>3, <2>4
<1>4. sent \in [1 .. Len(buf) -> Ints(n)]
  BY <1>3 DEF IsSent
<1>5. sent \in Seq(Ints(n)) /\ Len(sent) = Len(buf)
  BY <1>1, <1>4
<1>6. Amount(sent) = Amount(buf) /\ Covered(sent) = Covered(buf)
  BY <1>1, <1>3, <1>5, SameBytes
<1>. QED
  BY <1>5, <1>6

LEMMA FlushBytes ==
  ASSUME StreamInv, Flush
  PROVE  /\ intQueue' = <<>>
         /\ intBufBytes' = intBufBytes + Amount(intQueue)
         /\ Amount(intBuf') = Amount(intBuf) + Amount(intQueue)
         /\ Covered(intBuf') = Covered(intBuf) \cup Covered(intQueue)
<1>1. sendStart \in Nat /\ intBuf \in Seq(Ints(sendStart)) /\ dataHoles \in Seq(Gaps)
      /\ NewInterests \in Seq(Ints(sendStart)) /\ Sized(Ints(sendStart))
  BY NewInterestsType, SegsSized DEF StreamInv, ListTypes, NumberTypes
<1>2. PICK buf : buf = intBuf \o NewInterests
  OBVIOUS
<1>3. buf \in Seq(Ints(sendStart))
  BY <1>1, <1>2
<1>4. Amount(buf) = Amount(intBuf) + Amount(intQueue)
  <2>1. Amount(buf) = Amount(intBuf) + Amount(NewInterests)
    BY <1>1, <1>2, AmountJoin
  <2>. QED
    BY <2>1, NewInterestsBytes
<1>5. Covered(buf) = Covered(intBuf) \cup Covered(intQueue)
  <2>1. Covered(buf) = Covered(intBuf) \cup Covered(NewInterests)
    BY <1>1, <1>2, CoveredJoin
  <2>. QED
    BY <2>1, NewInterestsBytes
<1>6. PICK bytes : bytes = intBufBytes + TotalSize(NewInterests, 1 .. Len(NewInterests))
  OBVIOUS
<1>7. intQueue' = <<>> /\ intBufBytes' = intBufBytes + Amount(intQueue)
  BY <1>6, NewInterestsBytes DEF Flush, FlushAdding, Amount
<1>8. Amount(intBuf') = Amount(buf) /\ Covered(intBuf') = Covered(buf)
  <2>1. CASE bytes = 0
    <3>1. FlushDataHoles(buf, dataHoles)
      BY <1>2, <1>6, <2>1 DEF Flush, FlushAdding
    <3>. QED
      BY <1>1, <1>3, <3>1, FlushDataHolesBytes
  <2>2. CASE bytes # 0
    <3>. DEFINE need(k) == NeedSend(buf) \cap 1 .. k
                Sents(k) == [i \in 1 .. Len(buf) |-> IF i \in need(k) THEN Sent(buf[i]) ELSE buf[i]]
    <3>1. PICK k \in 0 .. Len(buf) :
            \/ intBuf' = buf
            \/ FlushDataHoles(Sents(k), RecutAll(dataHoles, Pick(buf, need(k)), DeleteDataHole))
      BY <1>2, <1>6, <2>2 DEF Flush, FlushAdding
    <3>. HIDE DEF need
    <3>2. PICK sent : sent = Sents(k)
      OBVIOUS
    <3>3. sent \in Seq(Ints(sendStart)) /\ Amount(sent) = Amount(buf) /\ Covered(sent) = Covered(buf)
      <4>1. IsSent(sent, buf, need(k))
        BY <3>2 DEF IsSent
      <4>. HIDE DEF Sents
      <4>. QED
        BY <1>1, <1>3, <4>1, SentBytes
    <3>. HIDE DEF Sents
    <3>4. PICK holes : holes = RecutAll(dataHoles, Pick(buf, need(k)), DeleteDataHole)
      OBVIOUS
    <3>5. holes \in Seq(Gaps)
      <4>1. PICK rs \in Seq(Ints(sendStart)) : rs = Pick(buf, need(k))
        BY <1>3, PickType
      <4>2. Len(rs) \in Nat /\ \A i \in 1 .. Len(rs) : rs[i].start \in Nat /\ rs[i].end \in Nat
        <5>1. \A i \in 1 .. Len(rs) : rs[i] \in Ints(sendStart)
          OBVIOUS
        <5>. QED
          BY <5>1 DEF Ints
      <4>3. RecutAll(dataHoles, rs, DeleteDataHole) \in Seq(Gaps)
        BY <1>1, <4>2, DeleteAllType
      <4>. QED
        BY <3>4, <4>1, <4>3
    <3>6. CASE FlushDataHoles(sent, holes)
      <4>1. Amount(intBuf') = Amount(sent) /\ Covered(intBuf') = Covered(sent)
        BY <1>1, <3>3, <3>5, <3>6, FlushDataHolesBytes
      <4>. QED
        BY <3>3, <4>1
    <3>. QED
      BY <3>1, <3>2, <3>4, <3>6
  <2>. QED
    BY <2>1, <2>2
<1>. QED
  BY <1>4, <1>5, <1>7, <1>8

-----------------------------------------------------------------------------
(* The inductive invariant: where the bytes are.                           *)

Total == Amount(intQueue) + Amount(intBuf) + Amount(rcvBuf) + Amount(rcvQueue)
           + Cardinality(dropped) + lastRead.end

Everywhere == Outstanding \cup Covered(rcvBuf) \cup Covered(rcvQueue) \cup dropped
                \cup 0 .. lastRead.end - 1

ByteInv ==
  /\ StreamInv
  /\ IsFiniteSet(dropped)
  /\ Everywhere = 0 .. sendStart - 1
  /\ Total = sendStart
  /\ intBufBytes = Amount(intBuf)

LEMMA ByteInvSays == ByteInv => EveryByteOnce /\ IntBufAccounted
BY DEF ByteInv, EveryByteOnce, IntBufAccounted, Everywhere, Total, Amount, SizeOf, Span, Seg

LEMMA AmountTypes ==
  ASSUME StreamInv, IsFiniteSet(dropped)
  PROVE  /\ Amount(intQueue) \in Nat /\ Amount(intBuf) \in Nat /\ Amount(rcvBuf) \in Nat
         /\ Amount(rcvQueue) \in Nat /\ Cardinality(dropped) \in Nat /\ lastRead.end \in Nat
         /\ sendStart \in Nat
<1>1. /\ intQueue \in Seq(Segs(sendStart)) /\ intBuf \in Seq(Ints(sendStart))
      /\ rcvBuf \in Seq(Segs(sendStart)) /\ rcvQueue \in Seq(Segs(sendStart))
      /\ lastRead.end \in Nat /\ sendStart \in Nat
  BY DEF StreamInv, ListTypes, NumberTypes
<1>2. Sized(Segs(sendStart)) /\ Sized(Ints(sendStart))
  BY SegsSized
<1>3. Amount(intQueue) \in Nat
  BY <1>1, <1>2, AmountType
<1>4. Amount(intBuf) \in Nat
  BY <1>1, <1>2, AmountType
<1>5. Amount(rcvBuf) \in Nat
  BY <1>1, <1>2, AmountType
<1>6. Amount(rcvQueue) \in Nat
  BY <1>1, <1>2, AmountType
<1>7. Cardinality(dropped) \in Nat
  BY FS_CardinalityType
<1>. QED
  BY <1>1, <1>3, <1>4, <1>5, <1>6, <1>7

LEMMA InitByteInv == Init => ByteInv
<1>. SUFFICES ASSUME Init PROVE ByteInv
  OBVIOUS
<1>1. StreamInv
  BY InitStreamInv
<1>2. Amount(<<>>) = 0 /\ Covered(<<>>) = {} /\ IsFiniteSet({}) /\ Cardinality({}) = 0
  BY AmountNone, CoveredNone, FS_EmptySet
<1>3. /\ intQueue = <<>> /\ intBuf = <<>> /\ rcvBuf = <<>> /\ rcvQueue = <<>> /\ intBufBytes = 0
      /\ sendStart = 0 /\ dropped = {} /\ lastRead.end = 0
  BY DEF Init, Seg
<1>4. Total = sendStart
  BY <1>2, <1>3 DEF Total
<1>5. Everywhere = 0 .. sendStart - 1
  BY <1>2, <1>3 DEF Everywhere, Outstanding
<1>. QED
  BY <1>1, <1>2, <1>3, <1>4, <1>5 DEF ByteInv

LEMMA RequestBytes == ByteInv /\ Request => ByteInv'
<1>. SUFFICES ASSUME ByteInv, Request PROVE ByteInv'
  OBVIOUS
<1>1. StreamInv /\ StreamInv' /\ IsFiniteSet(dropped)
  BY RequestInv DEF ByteInv
<1>2. PICK new : new = Seg(sendStart, sendStart + REQ_LEN)
  OBVIOUS
<1>3. /\ intQueue' = Append(intQueue, new)
      /\ sendStart' = sendStart + REQ_LEN
      /\ UNCHANGED <<intBuf, intBufBytes, rcvBuf, rcvQueue, lastRead, dropped>>
  BY <1>2 DEF Request, rcvVars, histVars
<1>4. /\ sendStart \in Nat /\ sendStart' \in Nat /\ REQ_LEN \in Nat /\ REQ_LEN > 0
      /\ intQueue \in Seq(Segs(sendStart')) /\ new \in Segs(sendStart')
      /\ new.start = sendStart /\ new.end = sendStart'
  <2>1. sendStart \in Nat /\ REQ_LEN \in Nat /\ REQ_LEN > 0 /\ intQueue \in Seq(Segs(sendStart))
    BY <1>1, RequesterAssumption DEF StreamInv, ListTypes, NumberTypes
  <2>2. sendStart' \in Nat /\ sendStart <= sendStart' /\ sendStart < sendStart'
    BY <1>3, <2>1
  <2>3. Seq(Segs(sendStart)) \subseteq Seq(Segs(sendStart'))
    BY <2>1, <2>2, SegsGrow
  <2>4. new.start = sendStart /\ new.end = sendStart'
    BY <1>2, <1>3 DEF Seg
  <2>5. new \in Segs(sendStart')
    BY <1>2, <1>3, <2>1, <2>2 DEF Seg, Segs
  <2>. QED
    BY <2>1, <2>2, <2>3, <2>4, <2>5
<1>5. Sized(Segs(sendStart'))
  BY SegsSized
<1>6. Size(new) = REQ_LEN /\ Span(new) = sendStart .. sendStart' - 1
  BY <1>3, <1>4 DEF Size, Span
<1>7. /\ Amount(intQueue') = Amount(intQueue) + REQ_LEN
      /\ Covered(intQueue') = Covered(intQueue) \cup (sendStart .. sendStart' - 1)
  BY <1>3, <1>4, <1>5, <1>6, AppendBytes
<1>8. /\ Amount(intBuf') = Amount(intBuf) /\ Amount(rcvBuf') = Amount(rcvBuf)
      /\ Amount(rcvQueue') = Amount(rcvQueue) /\ Cardinality(dropped') = Cardinality(dropped)
      /\ lastRead'.end = lastRead.end
  BY <1>3
<1>9. /\ Amount(intQueue) \in Nat /\ Amount(intBuf) \in Nat /\ Amount(rcvBuf) \in Nat
      /\ Amount(rcvQueue) \in Nat /\ Cardinality(dropped) \in Nat /\ lastRead.end \in Nat
  BY <1>1, AmountTypes
<1>10. Total' = sendStart'
  <2>1. PICK a \in Nat, b \in Nat, c \in Nat, d \in Nat, e \in Nat, f \in Nat :
          /\ a = Amount(intQueue) /\ b = Amount(intBuf) /\ c = Amount(rcvBuf)
          /\ d = Amount(rcvQueue) /\ e = Cardinality(dropped) /\ f = lastRead.end
    BY <1>9
  <2>2. Total' = (a + REQ_LEN) + b + c + d + e + f
    BY <1>7, <1>8, <2>1 DEF Total
  <2>3. a + b + c + d + e + f = sendStart
    BY <2>1 DEF ByteInv, Total
  <2>. QED
    BY <1>3, <1>4, <2>2, <2>3
<1>11. Everywhere' = 0 .. sendStart' - 1
  <2>1. Everywhere' = Everywhere \cup (sendStart .. sendStart' - 1)
    BY <1>3, <1>7 DEF Everywhere, Outstanding
  <2>2. (0 .. sendStart - 1) \cup (sendStart .. sendStart' - 1) = 0 .. sendStart' - 1
    BY <1>3, <1>4
  <2>. QED
    BY <2>1, <2>2 DEF ByteInv
<1>12. IsFiniteSet(dropped') /\ intBufBytes' = Amount(intBuf')
  BY <1>1, <1>3 DEF ByteInv
<1>. QED
  BY <1>1, <1>10, <1>11, <1>12 DEF ByteInv

(* What stays and what is answered, and what rcvBuf hands to rcvQueue,     *)
(* add up.                                                                 *)
LEMMA InputDataBytes ==
  ASSUME ByteInv, NEW r, r.start \in Nat, r.end \in Nat, r.start < r.end,
         r.end <= asked, InputData(r)
  PROVE  ByteInv'
<1>1. StreamInv /\ StreamInv' /\ IsFiniteSet(dropped)
  BY InputDataInv DEF ByteInv
<1>2. /\ sendStart \in Nat /\ intBuf \in Seq(Ints(sendStart)) /\ rcvBuf \in Seq(Segs(sendStart))
      /\ rcvBufItrs \in Seq(Runs(sendStart)) /\ rcvQueue \in Seq(Segs(sendStart)) /\ Sized(Ints(sendStart))
  BY <1>1, SegsSized DEF StreamInv, ListTypes, NumberTypes
<1>3. PICK stay : stay = Recut(intBuf, r, LAMBDA x : Unanswered(x, r))
  OBVIOUS
<1>4. PICK got : got = Answered(intBuf, r)
  OBVIOUS
<1>5. got \in Seq(Ints(sendStart))
  BY <1>2, <1>4, UnansweredType
<1>6. /\ Amount(stay) + Amount(got) = Amount(intBuf)
      /\ Covered(stay) \cup Covered(got) = Covered(intBuf)
  BY <1>2, <1>3, <1>4, UnansweredBytes
<1>7. PICK new : new = Inserted(got)
  OBVIOUS
<1>8. new.buf \in Seq(Segs(sendStart)) /\ new.itrs \in Seq(Runs(sendStart))
  BY <1>2, <1>5, <1>7, InsertedType
<1>9. Amount(new.buf) = Amount(rcvBuf) + Amount(got) /\ Covered(new.buf) = Covered(rcvBuf) \cup Covered(got)
  BY <1>2, <1>5, <1>7, InsertedBytes
<1>10. /\ intBuf' = stay /\ MoveToRcvQueue(new.buf, new.itrs, rcvQueue)
       /\ intBufBytes' = intBufBytes - Amount(got)
       /\ UNCHANGED <<intQueue, sendStart, lastRead, dropped>>
  BY <1>3, <1>4, <1>7 DEF InputData, AnsweredBytes, Amount, appVars, histVars
<1>11. /\ Amount(rcvBuf') + Amount(rcvQueue') = Amount(new.buf) + Amount(rcvQueue)
       /\ Covered(rcvBuf') \cup Covered(rcvQueue') = Covered(new.buf) \cup Covered(rcvQueue)
  BY <1>2, <1>8, <1>10, MoveBytes
<1>12. Amount(intBuf') = Amount(stay) /\ Covered(intBuf') = Covered(stay)
       /\ Amount(intQueue') = Amount(intQueue) /\ Cardinality(dropped') = Cardinality(dropped)
  BY <1>10
<1>13. IsFiniteSet(dropped')
  BY <1>1, <1>10
<1>14. Amount(got) \in Nat
  BY <1>2, <1>5, AmountType
<1>15. Total' = sendStart' /\ intBufBytes' = Amount(intBuf')
  <2>1. PICK a \in Nat, b \in Nat, c \in Nat, d \in Nat, e \in Nat, f \in Nat, g \in Nat :
          /\ a = Amount(intQueue) /\ b = Amount(intBuf) /\ c = Amount(rcvBuf)
          /\ d = Amount(rcvQueue) /\ e = Cardinality(dropped) /\ f = lastRead.end /\ g = Amount(got)
    BY <1>1, <1>14, AmountTypes
  <2>2. PICK b1 \in Nat, c1 \in Nat, d1 \in Nat :
          b1 = Amount(intBuf') /\ c1 = Amount(rcvBuf') /\ d1 = Amount(rcvQueue')
    <3>1. IsFiniteSet(dropped)'
      BY <1>13
    <3>2. (Amount(intBuf) \in Nat /\ Amount(rcvBuf) \in Nat /\ Amount(rcvQueue) \in Nat)'
      BY <1>1, <3>1, AmountTypes, PTL
    <3>. QED
      BY <3>2
  <2>3. b1 + g = b /\ c1 + d1 = c + g + d
    BY <1>6, <1>9, <1>11, <1>12, <2>1, <2>2
  <2>4. a + b + c + d + e + f = sendStart /\ intBufBytes = b
    BY <2>1 DEF ByteInv, Total
  <2>5. Total' = a + b1 + c1 + d1 + e + f
    BY <1>10, <1>12, <2>1, <2>2 DEF Total
  <2>6. Total' = sendStart
    BY <2>3, <2>4, <2>5
  <2>7. intBufBytes' = b1
    BY <1>10, <2>1, <2>3, <2>4
  <2>. QED
    BY <1>10, <2>2, <2>6, <2>7
<1>16. Everywhere' = 0 .. sendStart' - 1
  <2>1. Everywhere' = Covered(intQueue) \cup Covered(stay) \cup (Covered(rcvBuf') \cup Covered(rcvQueue'))
                        \cup dropped \cup 0 .. lastRead.end - 1
    BY <1>10 DEF Everywhere, Outstanding
  <2>2. Everywhere' = Everywhere
    BY <1>6, <1>9, <1>11, <2>1 DEF Everywhere, Outstanding
  <2>. QED
    BY <1>10, <2>2 DEF ByteInv
<1>. QED
  BY <1>1, <1>13, <1>15, <1>16 DEF ByteInv

(* recv hands over what it takes off rcvQueue.                             *)
LEMMA RecvBytes == ByteInv /\ Recv => ByteInv'
<1>. SUFFICES ASSUME ByteInv, Recv PROVE ByteInv'
  OBVIOUS
<1>1. /\ StreamInv /\ StreamInv' /\ IsFiniteSet(dropped)
      /\ lastRead'.end \in lastRead.end + 1 .. sendStart
  BY RecvStep DEF ByteInv
<1>2. /\ sendStart \in Nat /\ rcvBuf \in Seq(Segs(sendStart)) /\ rcvBufItrs \in Seq(Runs(sendStart))
      /\ rcvQueue \in Seq(Segs(sendStart)) /\ Sized(Segs(sendStart)) /\ Len(rcvQueue) \in Nat
  BY <1>1, SegsSized DEF StreamInv, ListTypes, NumberTypes
<1>3. PICK k \in 1 .. Len(rcvQueue) :
        /\ lastRead' = Seg(rcvQueue[1].start, rcvQueue[k].end)
        /\ MoveToRcvQueue(rcvBuf, rcvBufItrs, SubSeq(rcvQueue, k + 1, Len(rcvQueue)))
  BY DEF Recv
<1>4. UNCHANGED <<intQueue, intBuf, intBufBytes, sendStart, dropped>>
  BY DEF Recv, intVars, histVars
<1>5. PICK rest : rest = SubSeq(rcvQueue, k + 1, Len(rcvQueue))
  OBVIOUS
<1>6. PICK moved : moved = SubSeq(rcvQueue, 1, k)
  OBVIOUS
<1>7. /\ moved \in Seq(Segs(sendStart)) /\ rest \in Seq(Segs(sendStart))
      /\ Amount(moved) + Amount(rest) = Amount(rcvQueue)
      /\ Covered(moved) \cup Covered(rest) = Covered(rcvQueue)
  <2>1. k \in 0 .. Len(rcvQueue)
    BY <1>2
  <2>. QED
    BY <1>2, <1>5, <1>6, <2>1, CutInTwo
<1>8. /\ Amount(rcvBuf') + Amount(rcvQueue') = Amount(rcvBuf) + Amount(rest)
      /\ Covered(rcvBuf') \cup Covered(rcvQueue') = Covered(rcvBuf) \cup Covered(rest)
  BY <1>2, <1>3, <1>5, <1>7, MoveBytes
<1>9. IsChain(moved, lastRead.end, lastRead'.end)
  <2>1. /\ \A i \in 1 .. Len(rcvQueue) :
             /\ rcvQueue[i].start < rcvQueue[i].end
             /\ rcvQueue[i].start = IF i = 1 THEN lastRead.end ELSE rcvQueue[i - 1].end
    BY <1>1 DEF StreamInv, QueueInOrder
  <2>2. \A i \in 1 .. Len(rcvQueue) : rcvQueue[i].start \in Nat /\ rcvQueue[i].end \in Nat
    <3>1. \A i \in 1 .. Len(rcvQueue) : rcvQueue[i] \in Segs(sendStart)
      BY <1>2
    <3>. QED
      BY <3>1 DEF Segs
  <2>3. Len(moved) = k /\ \A i \in 1 .. k : moved[i] = rcvQueue[i]
    <3>1. 1 \in Int /\ k \in Int /\ \A j \in 1 .. k : rcvQueue[j] \in Segs(sendStart)
      BY <1>2
    <3>2. /\ Len(moved) = IF 1 <= k THEN k - 1 + 1 ELSE 0
          /\ \A i \in 1 .. k - 1 + 1 : moved[i] = rcvQueue[1 + i - 1]
      BY <1>6, <3>1, SubSeqProperties
    <3>. QED
      BY <1>2, <3>2
  <2>4. 1 \in 1 .. k /\ k \in 1 .. k /\ \A i \in 1 .. k : i \in 1 .. Len(rcvQueue)
    BY <1>2
  <2>5. ASSUME NEW i \in 1 .. k, i > 1
        PROVE  moved[i].start = moved[i - 1].end
    <3>1. i - 1 \in 1 .. k /\ i \in 1 .. Len(rcvQueue) /\ i # 1
      BY <1>2, <2>4, <2>5
    <3>. QED
      BY <2>1, <2>3, <3>1
  <2>6. moved[1].start = lastRead.end /\ moved[k].end = lastRead'.end
    BY <1>3, <2>1, <2>3, <2>4 DEF Seg
  <2>7. \A i \in 1 .. k : moved[i].start \in Nat /\ moved[i].end \in Nat /\ moved[i].start < moved[i].end
    BY <2>1, <2>2, <2>3, <2>4
  <2>8. Len(moved) \in Nat \ {0}
    BY <1>2, <2>3
  <2>. QED
    BY <2>3, <2>5, <2>6, <2>7, <2>8 DEF IsChain
<1>10. Amount(moved) = lastRead'.end - lastRead.end /\ Covered(moved) = lastRead.end .. lastRead'.end - 1
  BY <1>9, ChainBytes
<1>11. IsFiniteSet(dropped') /\ intBufBytes' = Amount(intBuf') /\ Amount(intQueue') = Amount(intQueue)
       /\ Amount(intBuf') = Amount(intBuf) /\ Cardinality(dropped') = Cardinality(dropped)
  BY <1>1, <1>4 DEF ByteInv
<1>12. Total' = sendStart'
  <2>1. PICK a \in Nat, b \in Nat, c \in Nat, d \in Nat, e \in Nat, f \in Nat :
          /\ a = Amount(intQueue) /\ b = Amount(intBuf) /\ c = Amount(rcvBuf)
          /\ d = Amount(rcvQueue) /\ e = Cardinality(dropped) /\ f = lastRead.end
    BY <1>1, AmountTypes
  <2>2. PICK c1 \in Nat, d1 \in Nat, f1 \in Nat :
          c1 = Amount(rcvBuf') /\ d1 = Amount(rcvQueue') /\ f1 = lastRead'.end
    <3>1. IsFiniteSet(dropped)'
      BY <1>11
    <3>2. (Amount(rcvBuf) \in Nat /\ Amount(rcvQueue) \in Nat /\ lastRead.end \in Nat)'
      BY <1>1, <3>1, AmountTypes, PTL
    <3>. QED
      BY <3>2
  <2>3. PICK m \in Nat, n \in Nat : m = Amount(moved) /\ n = Amount(rest)
    BY <1>2, <1>7, AmountType
  <2>4. m = f1 - f /\ m + n = d /\ c1 + d1 = c + n
    BY <1>7, <1>8, <1>10, <2>1, <2>2, <2>3
  <2>5. a + b + c + d + e + f = sendStart
    BY <2>1 DEF ByteInv, Total
  <2>6. Total' = a + b + c1 + d1 + e + f1
    BY <1>11, <2>1, <2>2 DEF Total
  <2>7. Total' = sendStart
    BY <2>4, <2>5, <2>6
  <2>. QED
    BY <1>4, <2>7
<1>13. Everywhere' = 0 .. sendStart' - 1
  <2>1. Everywhere' = Outstanding \cup (Covered(rcvBuf') \cup Covered(rcvQueue')) \cup dropped
                        \cup 0 .. lastRead'.end - 1
    BY <1>4 DEF Everywhere, Outstanding
  <2>2. lastRead.end \in Nat /\ lastRead'.end \in Nat /\ lastRead.end < lastRead'.end
    BY <1>1, <1>2, SMTT(60) DEF StreamInv, NumberTypes
  <2>3. 0 .. lastRead'.end - 1 = (0 .. lastRead.end - 1) \cup (lastRead.end .. lastRead'.end - 1)
    <3>1. PICK a \in Nat, b \in Nat : a = lastRead.end /\ b = lastRead'.end /\ a < b
      BY <2>2
    <3>2. 0 .. b - 1 = (0 .. a - 1) \cup (a .. b - 1)
      BY <3>1
    <3>. QED
      BY <3>1, <3>2
  <2>4. Everywhere' = Everywhere
    BY <1>7, <1>8, <1>10, <2>1, <2>3 DEF Everywhere
  <2>. QED
    BY <1>4, <2>4 DEF ByteInv
<1>. QED
  BY <1>1, <1>11, <1>12, <1>13 DEF ByteInv

(* The bytes of rcvBuf lie in no other list: were one of them elsewhere,   *)
(* the lists would cover fewer bytes than were requested.                  *)
LEMMA RcvBufApart ==
  ASSUME ByteInv
  PROVE  /\ IsFiniteSet(dropped \cup Covered(rcvBuf))
         /\ Cardinality(dropped \cup Covered(rcvBuf)) = Cardinality(dropped) + Amount(rcvBuf)
<1>1. StreamInv /\ IsFiniteSet(dropped)
  BY DEF ByteInv
<1>2. /\ sendStart \in Nat /\ intQueue \in Seq(Segs(sendStart)) /\ intBuf \in Seq(Ints(sendStart))
      /\ rcvBuf \in Seq(Segs(sendStart)) /\ rcvQueue \in Seq(Segs(sendStart)) /\ lastRead.end \in Nat
      /\ Sized(Segs(sendStart)) /\ Sized(Ints(sendStart))
  BY <1>1, SegsSized DEF StreamInv, ListTypes, NumberTypes
<1>3. PICK a \in Nat, b \in Nat, c \in Nat, d \in Nat, e \in Nat, f \in Nat :
        /\ a = Amount(intQueue) /\ b = Amount(intBuf) /\ c = Amount(rcvBuf)
        /\ d = Amount(rcvQueue) /\ e = Cardinality(dropped) /\ f = lastRead.end
  BY <1>1, AmountTypes
<1>4. AtMost(Covered(intQueue), a)
  BY <1>2, <1>3, CoveredAtMost DEF AtMost
<1>5. AtMost(Covered(intBuf), b)
  BY <1>2, <1>3, CoveredAtMost DEF AtMost
<1>6. AtMost(Covered(rcvBuf), c)
  BY <1>2, <1>3, CoveredAtMost DEF AtMost
<1>7. AtMost(Covered(rcvQueue), d)
  BY <1>2, <1>3, CoveredAtMost DEF AtMost
<1>8. AtMost(dropped, e)
  BY <1>1, <1>3 DEF AtMost
<1>9. AtMost(0 .. f - 1, f)
  <2>1. IsFiniteSet(0 .. f - 1) /\ Cardinality(0 .. f - 1) = IF 0 > f - 1 THEN 0 ELSE (f - 1) - 0 + 1
    BY FS_Interval
  <2>. QED
    BY <2>1 DEF AtMost
<1>10. PICK lost : lost = dropped \cup Covered(rcvBuf)
  OBVIOUS
<1>11. AtMost(lost, e + c)
  BY <1>6, <1>8, <1>10, UnionAtMost
<1>12. PICK x \in Nat : x = Cardinality(lost) /\ x <= e + c
  BY <1>11 DEF AtMost
<1>13. AtMost(lost, x)
  BY <1>11, <1>12 DEF AtMost
<1>14. AtMost(Covered(intQueue) \cup Covered(intBuf), a + b)
  BY <1>4, <1>5, UnionAtMost
<1>15. AtMost(Covered(rcvQueue) \cup 0 .. f - 1, d + f)
  BY <1>7, <1>9, UnionAtMost
<1>16. AtMost((Covered(intQueue) \cup Covered(intBuf)) \cup lost, (a + b) + x)
  BY <1>13, <1>14, UnionAtMost
<1>17. AtMost(((Covered(intQueue) \cup Covered(intBuf)) \cup lost) \cup (Covered(rcvQueue) \cup 0 .. f - 1),
              ((a + b) + x) + (d + f))
  BY <1>15, <1>16, UnionAtMost
<1>18. ((Covered(intQueue) \cup Covered(intBuf)) \cup lost) \cup (Covered(rcvQueue) \cup 0 .. f - 1)
         = 0 .. sendStart - 1
  BY <1>3, <1>10 DEF ByteInv, Everywhere, Outstanding
<1>19. Cardinality(0 .. sendStart - 1) = sendStart
  <2>1. Cardinality(0 .. sendStart - 1) = IF 0 > sendStart - 1 THEN 0 ELSE (sendStart - 1) - 0 + 1
    BY <1>2, FS_Interval
  <2>. QED
    BY <1>2, <2>1
<1>20. sendStart <= ((a + b) + x) + (d + f)
  <2>1. AtMost(0 .. sendStart - 1, ((a + b) + x) + (d + f))
    BY <1>17, <1>18
  <2>. QED
    BY <1>19, <2>1 DEF AtMost
<1>21. a + b + c + d + e + f = sendStart
  BY <1>3 DEF ByteInv, Total
<1>22. x = e + c
  <2>1. a + b + c + d + e + f <= ((a + b) + x) + (d + f)
    BY <1>20, <1>21
  <2>2. x <= e + c
    BY <1>12
  <2>. QED
    BY <2>1, <2>2
<1>23. IsFiniteSet(lost)
  BY <1>11 DEF AtMost
<1>. QED
  BY <1>3, <1>10, <1>12, <1>22, <1>23

LEMMA UpdateBytes ==
  ASSUME ByteInv, NEW clear \in BOOLEAN, Update(clear)
  PROVE  ByteInv'
<1>1. StreamInv /\ StreamInv' /\ IsFiniteSet(dropped)
  BY UpdateInv DEF ByteInv
<1>2. /\ UNCHANGED <<rcvQueue, sendStart, lastRead>>
      /\ Flush
      /\ rcvBuf' = (IF clear THEN <<>> ELSE rcvBuf)
      /\ dropped' = dropped \cup (IF clear THEN Covered(rcvBuf) ELSE {})
  BY DEF Update, UpdateAdding, Flush, appVars
<1>3. /\ intQueue' = <<>>
      /\ intBufBytes' = intBufBytes + Amount(intQueue)
      /\ Amount(intBuf') = Amount(intBuf) + Amount(intQueue)
      /\ Covered(intBuf') = Covered(intBuf) \cup Covered(intQueue)
  BY <1>1, <1>2, FlushBytes
<1>4. /\ Amount(intQueue') = 0 /\ Covered(intQueue') = {}
  BY <1>3, AmountNone, CoveredNone
<1>5. /\ IsFiniteSet(dropped')
      /\ Covered(rcvBuf') \cup dropped' = Covered(rcvBuf) \cup dropped
      /\ Amount(rcvBuf') + Cardinality(dropped') = Amount(rcvBuf) + Cardinality(dropped)
      /\ Amount(rcvBuf') \in Nat /\ Cardinality(dropped') \in Nat
  <2>1. Amount(rcvBuf) \in Nat /\ Cardinality(dropped) \in Nat
    BY <1>1, AmountTypes
  <2>2. CASE clear
    <3>1. rcvBuf' = <<>> /\ dropped' = dropped \cup Covered(rcvBuf)
      BY <1>2, <2>2
    <3>2. Amount(rcvBuf') = 0 /\ Covered(rcvBuf') = {}
      BY <3>1, AmountNone, CoveredNone
    <3>3. IsFiniteSet(dropped') /\ Cardinality(dropped') = Cardinality(dropped) + Amount(rcvBuf)
      BY <3>1, RcvBufApart
    <3>. QED
      BY <2>1, <3>1, <3>2, <3>3
  <2>3. CASE ~ clear
    <3>1. rcvBuf' = rcvBuf /\ dropped' = dropped
      BY <1>2, <2>3
    <3>. QED
      BY <1>1, <2>1, <3>1
  <2>. QED
    BY <2>2, <2>3
<1>6. Total' = sendStart' /\ intBufBytes' = Amount(intBuf')
  <2>1. PICK a \in Nat, b \in Nat, c \in Nat, d \in Nat, e \in Nat, f \in Nat :
          /\ a = Amount(intQueue) /\ b = Amount(intBuf) /\ c = Amount(rcvBuf)
          /\ d = Amount(rcvQueue) /\ e = Cardinality(dropped) /\ f = lastRead.end
    BY <1>1, AmountTypes
  <2>2. PICK c1 \in Nat, e1 \in Nat : c1 = Amount(rcvBuf') /\ e1 = Cardinality(dropped')
    BY <1>5
  <2>3. c1 + e1 = c + e
    BY <1>5, <2>1, <2>2
  <2>4. a + b + c + d + e + f = sendStart /\ intBufBytes = b
    BY <2>1 DEF ByteInv, Total
  <2>5. Amount(rcvQueue') = d /\ lastRead'.end = f
    BY <1>2, <2>1
  <2>6. Total' = 0 + (b + a) + c1 + d + e1 + f
    BY <1>3, <1>4, <2>1, <2>2, <2>5 DEF Total
  <2>7. Total' = sendStart
    BY <2>3, <2>4, <2>6
  <2>8. intBufBytes' = Amount(intBuf')
    BY <1>3, <2>1, <2>4
  <2>. QED
    BY <1>2, <2>7, <2>8
<1>7. Everywhere' = 0 .. sendStart' - 1
  <2>1. Everywhere' = (Covered(intBuf) \cup Covered(intQueue)) \cup (Covered(rcvBuf') \cup dropped')
                        \cup Covered(rcvQueue) \cup 0 .. lastRead.end - 1
    BY <1>2, <1>3, <1>4 DEF Everywhere, Outstanding
  <2>2. Everywhere' = Everywhere
    BY <1>5, <2>1 DEF Everywhere, Outstanding
  <2>. QED
    BY <1>2, <2>2 DEF ByteInv
<1>. QED
  BY <1>1, <1>5, <1>6, <1>7 DEF ByteInv

(* The other steps leave the bytes where they are.                         *)
LEMMA RestBytes ==
  ASSUME ByteInv, StreamInv', Amount(intBuf') = Amount(intBuf), Covered(intBuf') = Covered(intBuf),
         UNCHANGED <<intQueue, intBufBytes, rcvBuf, rcvQueue, lastRead, sendStart, dropped>>
  PROVE  ByteInv'
<1>1. Total' = Total
  BY DEF Total
<1>2. Everywhere' = Everywhere
  BY DEF Everywhere, Outstanding
<1>3. IsFiniteSet(dropped') /\ intBufBytes' = Amount(intBuf')
  BY DEF ByteInv
<1>. QED
  BY <1>1, <1>2, <1>3 DEF ByteInv

LEMMA LateBytes ==
  ASSUME StreamInv, NEW i \in 1 .. Len(intBuf), intBuf' = [intBuf EXCEPT ![i].late = TRUE]
  PROVE  Amount(intBuf') = Amount(intBuf) /\ Covered(intBuf') = Covered(intBuf)
<1>1. intBuf \in Seq(Ints(sendStart)) /\ Len(intBuf) \in Nat
  BY DEF StreamInv, ListTypes
<1>2. \A j \in 1 .. Len(intBuf) : intBuf[j] \in [start : Nat, end : Nat, xmit : Nat, late : BOOLEAN]
  BY <1>1 DEF Ints
<1>3. [intBuf[i] EXCEPT !.late = TRUE].start = intBuf[i].start
      /\ [intBuf[i] EXCEPT !.late = TRUE].end = intBuf[i].end
  BY <1>2
<1>4. /\ Len(intBuf') = Len(intBuf)
      /\ \A j \in 1 .. Len(intBuf) :
           intBuf'[j] = IF j = i THEN [intBuf[i] EXCEPT !.late = TRUE] ELSE intBuf[j]
  BY <1>1
<1>5. \A j \in 1 .. Len(intBuf) : intBuf'[j].start = intBuf[j].start /\ intBuf'[j].end = intBuf[j].end
  BY <1>3, <1>4
<1>. QED
  BY <1>1, <1>4, <1>5, SameBytes

LEMMA NextByteInv == ByteInv /\ [Next]_vars => ByteInv'
<1>. SUFFICES ASSUME ByteInv, [Next]_vars PROVE ByteInv'
  OBVIOUS
<1>1. StreamInv /\ StreamInv'
  BY NextInv DEF ByteInv
<1>2. CASE Request
  BY <1>2, RequestBytes
<1>3. CASE Input
  <2>1. PICK s \in 0 .. asked, e \in 0 .. asked :
          s < e /\ (InputData(Seg(s, e)) \/ InputHeader(Seg(s, e)))
    BY <1>3 DEF Input
  <2>2. s \in Nat /\ e \in Nat
    BY <1>1 DEF StreamInv, NumberTypes
  <2>3. PICK r : r = Seg(s, e)
    OBVIOUS
  <2>4. r.start \in Nat /\ r.end \in Nat /\ r.start < r.end /\ r.end <= asked
    BY <2>1, <2>2, <2>3 DEF Seg
  <2>5. CASE InputData(r)
    BY <2>4, <2>5, InputDataBytes
  <2>6. CASE InputHeader(r)
    <3>1. UNCHANGED <<intBuf, intQueue, intBufBytes, rcvBuf, rcvQueue, lastRead, sendStart, dropped>>
      BY <2>6 DEF InputHeader, intVars, rcvVars, appVars, histVars
    <3>. QED
      BY <1>1, <3>1, RestBytes
  <2>. QED
    BY <2>1, <2>3, <2>5, <2>6
<1>4. CASE Recv
  BY <1>4, RecvBytes
<1>5. ASSUME NEW clear \in BOOLEAN, Update(clear)
      PROVE  ByteInv'
  BY <1>5, UpdateBytes
<1>6. CASE InterestTimeout
  <2>1. UNCHANGED <<intQueue, intBufBytes, rcvBuf, rcvQueue, lastRead, sendStart, dropped>>
    BY <1>6 DEF InterestTimeout, rcvVars, appVars, histVars
  <2>2. PICK i \in 1 .. Len(intBuf) : intBuf' = [intBuf EXCEPT ![i].late = TRUE]
    BY <1>6 DEF InterestTimeout
  <2>3. Amount(intBuf') = Amount(intBuf) /\ Covered(intBuf') = Covered(intBuf)
    BY <1>1, <2>2, LateBytes
  <2>. QED
    BY <1>1, <2>1, <2>3, RestBytes
<1>7. CASE HoleAges
  <2>1. UNCHANGED <<intBuf, intQueue, intBufBytes, rcvBuf, rcvQueue, lastRead, sendStart, dropped>>
    BY <1>7 DEF HoleAges, intVars, rcvVars, appVars, histVars
  <2>. QED
    BY <1>1, <2>1, RestBytes
<1>8. CASE UNCHANGED vars
  <2>1. UNCHANGED <<intBuf, intQueue, intBufBytes, rcvBuf, rcvQueue, lastRead, sendStart, dropped>>
    BY <1>8 DEF vars, intVars, rcvVars, appVars, histVars
  <2>. QED
    BY <1>1, <2>1, RestBytes
<1>. QED
  BY <1>2, <1>3, <1>4, <1>5, <1>6, <1>7, <1>8 DEF Next

-----------------------------------------------------------------------------
(* Types and bounds.                                                       *)

Limits ==
  /\ state \in {"up", "dead", "crashed"} /\ measured \in BOOLEAN
  /\ intOutputLimit \in Nat /\ clears \in 0 .. MaxClears /\ sendStart <= MaxByte
  /\ intBuf \in Seq(Sends(sendStart, 0 .. LEOTP_DEADLINK))

TypeInv == ByteInv /\ HolesInv /\ Limits

LEMMA TypeInvSays == TypeInv => TypeOK
<1>. SUFFICES ASSUME TypeInv PROVE TypeOK
  OBVIOUS
<1>1. ListTypes /\ NumberTypes /\ Limits /\ ByteInv /\ HolesInv
  BY DEF TypeInv, ByteInv, StreamInv
<1>2. sendStart \in Nat /\ sendStart <= MaxByte /\ MaxByte \in Nat /\ asked \in 0 .. sendStart
      /\ dataNextRangeStart \in 0 .. asked
  BY <1>1, RequesterAssumption DEF NumberTypes, Limits
<1>3. 0 .. sendStart \subseteq Bytes
  BY <1>2 DEF Bytes
<1>4. Segs(sendStart) \subseteq Ranges /\ Runs(sendStart) \subseteq [start : Bytes, end : Bytes, itr : Bytes]
  BY <1>2, <1>3 DEF Segs, Ranges, Bytes, Runs
<1>5. Sends(sendStart, 0 .. LEOTP_DEADLINK)
        \subseteq [start : Bytes, end : Bytes, xmit : 0 .. LEOTP_DEADLINK, late : BOOLEAN]
  BY <1>2 DEF Sends, Bytes
<1>6. intQueue \in Seq(Ranges) /\ rcvBuf \in Seq(Ranges) /\ rcvQueue \in Seq(Ranges)
      /\ rcvBufItrs \in Seq([start : Bytes, end : Bytes, itr : Bytes])
      /\ intBuf \in Seq([start : Bytes, end : Bytes, xmit : 0 .. LEOTP_DEADLINK, late : BOOLEAN])
  <2>1. Seq(Segs(sendStart)) \subseteq Seq(Ranges)
    BY <1>4, SeqMore
  <2>2. Seq(Runs(sendStart)) \subseteq Seq([start : Bytes, end : Bytes, itr : Bytes])
    BY <1>4, SeqMore
  <2>3. Seq(Sends(sendStart, 0 .. LEOTP_DEADLINK))
          \subseteq Seq([start : Bytes, end : Bytes, xmit : 0 .. LEOTP_DEADLINK, late : BOOLEAN])
    BY <1>5, SeqMore
  <2>. QED
    BY <1>1, <2>1, <2>2, <2>3 DEF ListTypes, Limits
<1>7. dataHoles \in Seq([start : Bytes, end : Bytes, age : Ages])
  <2>1. dataHoles \in Seq(Gaps) /\ Len(dataHoles) \in Nat
        /\ \A i \in 1 .. Len(dataHoles) : dataHoles[i].end <= dataNextRangeStart
    BY <1>1 DEF HolesInv, SortedBelow
  <2>2. ASSUME NEW i \in 1 .. Len(dataHoles)
        PROVE  dataHoles[i] \in [start : Bytes, end : Bytes, age : Ages]
    <3>1. dataHoles[i] \in Gaps /\ dataHoles[i].end <= dataNextRangeStart
      BY <2>1
    <3>. QED
      BY <1>2, <3>1 DEF Gaps, Bytes
  <2>. QED
    BY <2>1, <2>2, SeqOfMembers
<1>8. intBufBytes \in Nat
  BY <1>1, AmountTypes DEF ByteInv
<1>9. dropped \subseteq Bytes
  <2>1. dropped \subseteq 0 .. sendStart - 1
    BY <1>1 DEF ByteInv, Everywhere
  <2>. QED
    BY <1>2, <2>1 DEF Bytes
<1>10. rcvNxt \in Bytes /\ dataNextRangeStart \in Bytes /\ sendStart \in Bytes /\ asked \in Bytes
       /\ lastRead \in Ranges
  BY <1>1, <1>2, <1>3 DEF NumberTypes, Bytes, Ranges
<1>. QED
  BY <1>1, <1>6, <1>7, <1>8, <1>9, <1>10 DEF TypeOK, Limits

(* The interests flushIntBuf looks at, which of them it sends, and what it *)
(* makes of them.                                                          *)
FlushSends(buf, newOutput, k, need, sent) ==
  LET limit == intOutputLimit + IF measured THEN newOutput ELSE 0
      rest  == Rest(limit, buf, need)
  IN /\ need = NeedSend(buf) \cap 1 .. k /\ IsSent(sent, buf, need)
     /\ ScansExactly(buf, limit, k)
     /\ intOutputLimit' = IF measured /\ k = Len(buf) THEN Lower(rest, newOutput) ELSE rest
     /\ asked' = Highest({asked} \cup {buf[i].end : i \in need})
     /\ \/ (\E i \in need : LinkDead(buf[i])) /\ state' = "dead" /\ intBuf' = buf
        \/ /\ \A i \in need : ~ LinkDead(buf[i])
           /\ FlushDataHoles(sent, RecutAll(dataHoles, Pick(buf, need), DeleteDataHole))

LEMMA FlushCases ==
  ASSUME Flush, NEW buf, buf = intBuf \o NewInterests
  PROVE  /\ intQueue' = <<>>
         /\ \/ FlushDataHoles(buf, dataHoles) /\ UNCHANGED <<intOutputLimit, asked>>
            \/ \E newOutput \in NewOutputs, k \in 0 .. Len(buf) : \E need, sent :
                 FlushSends(buf, newOutput, k, need, sent)
<1>1. PICK bytes : bytes = intBufBytes + TotalSize(NewInterests, 1 .. Len(NewInterests))
  OBVIOUS
<1>2. intQueue' = <<>>
  BY DEF Flush, FlushAdding
<1>3. CASE bytes = 0
  BY <1>1, <1>2, <1>3 DEF Flush, FlushAdding
<1>4. CASE bytes # 0
  <2>. DEFINE needs(k) == NeedSend(buf) \cap 1 .. k
              sents(k) == [i \in 1 .. Len(buf) |-> IF i \in needs(k) THEN Sent(buf[i]) ELSE buf[i]]
              limit(o) == intOutputLimit + IF measured THEN o ELSE 0
              rest(o, k) == Rest(limit(o), buf, needs(k))
  <2>1. PICK newOutput \in NewOutputs, k \in 0 .. Len(buf) :
          /\ ScansExactly(buf, limit(newOutput), k)
          /\ intOutputLimit' = IF measured /\ k = Len(buf) THEN Lower(rest(newOutput, k), newOutput)
                               ELSE rest(newOutput, k)
          /\ asked' = Highest({asked} \cup {buf[i].end : i \in needs(k)})
          /\ IF \E i \in needs(k) : LinkDead(buf[i])
             THEN state' = "dead" /\ intBuf' = buf /\ UNCHANGED dataHoles
             ELSE FlushDataHoles(sents(k), RecutAll(dataHoles, Pick(buf, needs(k)), DeleteDataHole))
    BY <1>1, <1>4 DEF Flush, FlushAdding
  <2>2. IsSent(sents(k), buf, needs(k))
    BY DEF IsSent
  <2>. HIDE DEF sents
  <2>3. FlushSends(buf, newOutput, k, needs(k), sents(k))
    BY <2>1, <2>2 DEF FlushSends
  <2>. QED
    BY <1>2, <2>3
<1>. QED
  BY <1>3, <1>4

LEMMA TotalSizeType ==
  ASSUME NEW T, Sized(T), NEW s \in Seq(T), NEW S
  PROVE  TotalSize(s, S) \in Nat
BY PickAmount, PickType, AmountType

LEMMA SentSends ==
  ASSUME NEW n \in Nat, NEW x \in Sends(n, 0 .. LEOTP_DEADLINK), ~ LinkDead(x)
  PROVE  Sent(x) \in Sends(n, 1 .. LEOTP_DEADLINK)
<1>1. x.xmit \in 0 .. LEOTP_DEADLINK /\ LEOTP_DEADLINK \in Nat
  BY RequesterAssumption DEF Sends
<1>2. x.xmit + 1 \in 1 .. LEOTP_DEADLINK
  BY <1>1 DEF LinkDead
<1>3. PICK y : y = [x EXCEPT !.xmit = @ + 1]
  OBVIOUS
<1>4. y \in Sends(n, 1 .. LEOTP_DEADLINK)
  BY <1>2, <1>3 DEF Sends
<1>5. Sent(x) = [y EXCEPT !.late = FALSE]
  BY <1>3 DEF Sent, Sends
<1>. QED
  BY <1>4, <1>5 DEF Sends

(* A flush spends no more than the limit, and transmits no interest more   *)
(* than LEOTP_DEADLINK times.                                              *)
LEMMA FlushLimits ==
  ASSUME TypeInv, Flush
  PROVE  /\ intBuf' \in Seq(Sends(sendStart, 0 .. LEOTP_DEADLINK))
         /\ intOutputLimit' \in Nat /\ state' \in {"up", "dead", "crashed"}
<1>. DEFINE D == 0 .. LEOTP_DEADLINK
<1>1. /\ sendStart \in Nat /\ intBuf \in Seq(Sends(sendStart, D)) /\ dataHoles \in Seq(Gaps)
      /\ intOutputLimit \in Nat /\ measured \in BOOLEAN /\ NewOutputs \subseteq Nat
      /\ LEOTP_DEADLINK \in Nat
  BY RequesterAssumption DEF TypeInv, Limits, ByteInv, StreamInv, ListTypes, NumberTypes
<1>2. NewInterests \in Seq(Sends(sendStart, D))
  <2>1. NewInterests \in Seq(Sends(sendStart, {0}))
    BY NewInterestsSends DEF TypeInv, ByteInv, StreamInv
  <2>2. Seq(Sends(sendStart, {0})) \subseteq Seq(Sends(sendStart, D))
    BY <1>1, SendsMore
  <2>. QED
    BY <2>1, <2>2
<1>3. PICK buf : buf = intBuf \o NewInterests
  OBVIOUS
<1>4. buf \in Seq(Sends(sendStart, D)) /\ Len(buf) \in Nat
      /\ \A i \in 1 .. Len(buf) : buf[i] \in Sends(sendStart, D)
  BY <1>1, <1>2, <1>3
<1>5. Sized(Sends(sendStart, D))
  BY DEF Sized, Sends
<1>. HIDE DEF D
<1>6. CASE FlushDataHoles(buf, dataHoles) /\ UNCHANGED <<intOutputLimit, asked>>
  <2>1. intBuf' \in Seq(Sends(sendStart, D))
    BY <1>1, <1>4, <1>6, FlushDataHolesSends
  <2>2. state' \in {"up", "crashed"}
    BY <1>6 DEF FlushDataHoles
  <2>. QED
    BY <1>1, <1>6, <2>1, <2>2 DEF D
<1>7. ASSUME NEW newOutput \in NewOutputs, NEW k \in 0 .. Len(buf), NEW need, NEW sent,
             FlushSends(buf, newOutput, k, need, sent)
      PROVE  /\ intBuf' \in Seq(Sends(sendStart, D))
             /\ intOutputLimit' \in Nat /\ state' \in {"up", "dead", "crashed"}
  <2>1. PICK limit \in Nat : limit = intOutputLimit + IF measured THEN newOutput ELSE 0
    BY <1>1
  <2>2. PICK total \in Nat : total = TotalSize(buf, need)
    BY <1>4, <1>5, TotalSizeType
  <2>3. total <= limit
    BY <1>7, <2>1, <2>2 DEF FlushSends, ScansExactly
  <2>4. Rest(limit, buf, need) = limit - total
    BY <2>2 DEF Rest
  <2>5. intOutputLimit' \in Nat
    <3>1. intOutputLimit' \in {limit - total, Lower(limit - total, newOutput)}
      BY <1>7, <2>1, <2>4 DEF FlushSends
    <3>2. newOutput \in Nat
      BY <1>1
    <3>. QED
      BY <2>3, <3>1, <3>2 DEF Lower
  <2>6. CASE state' = "dead" /\ intBuf' = buf
    BY <1>4, <2>5, <2>6
  <2>7. CASE /\ \A i \in need : ~ LinkDead(buf[i])
             /\ FlushDataHoles(sent, RecutAll(dataHoles, Pick(buf, need), DeleteDataHole))
    <3>1. sent = [i \in 1 .. Len(buf) |-> IF i \in need THEN Sent(buf[i]) ELSE buf[i]]
      BY <1>7 DEF FlushSends, IsSent
    <3>2. ASSUME NEW i \in 1 .. Len(buf)
          PROVE  (IF i \in need THEN Sent(buf[i]) ELSE buf[i]) \in Sends(sendStart, D)
      <4>1. i \in need => Sent(buf[i]) \in Sends(sendStart, 1 .. LEOTP_DEADLINK)
        BY <1>1, <1>4, <2>7, SentSends DEF D
      <4>2. Sends(sendStart, 1 .. LEOTP_DEADLINK) \subseteq Sends(sendStart, D)
        BY <1>1 DEF Sends, D
      <4>. QED
        BY <1>4, <4>1, <4>2
    <3>3. sent \in Seq(Sends(sendStart, D))
      BY <1>4, <3>1, <3>2
    <3>4. PICK rs \in Seq(Sends(sendStart, D)) : rs = Pick(buf, need)
      BY <1>4, PickType
    <3>5. Len(rs) \in Nat /\ \A i \in 1 .. Len(rs) : rs[i].start \in Nat /\ rs[i].end \in Nat
      <4>1. \A i \in 1 .. Len(rs) : rs[i] \in Sends(sendStart, D)
        OBVIOUS
      <4>. QED
        BY <4>1 DEF Sends
    <3>6. PICK holes : holes = RecutAll(dataHoles, rs, DeleteDataHole)
      OBVIOUS
    <3>7. holes \in Seq(Gaps)
      BY <1>1, <3>5, <3>6, DeleteAllType
    <3>8. FlushDataHoles(sent, holes)
      BY <2>7, <3>4, <3>6
    <3>9. intBuf' \in Seq(Sends(sendStart, D))
      BY <1>1, <3>3, <3>7, <3>8, FlushDataHolesSends
    <3>10. state' \in {"up", "crashed"}
      BY <3>8 DEF FlushDataHoles
    <3>. QED
      BY <2>5, <3>9, <3>10
  <2>. QED
    BY <1>7, <2>6, <2>7 DEF FlushSends
<1>. QED
  BY <1>3, <1>6, <1>7, FlushCases DEF D

LEMMA InitTypeInv == Init => TypeInv
<1>. SUFFICES ASSUME Init PROVE TypeInv
  OBVIOUS
<1>1. intBuf \in Seq(Sends(sendStart, 0 .. LEOTP_DEADLINK))
  BY DEF Init
<1>2. measured \in BOOLEAN /\ state \in {"up", "dead", "crashed"}
  BY DEF Init
<1>3. intOutputLimit \in Nat /\ clears \in 0 .. MaxClears /\ sendStart <= MaxByte
  BY RequesterAssumption DEF Init
<1>4. Limits
  BY <1>1, <1>2, <1>3 DEF Limits
<1>. QED
  BY <1>4, InitByteInv, InitHolesInv DEF TypeInv

LEMMA NextTypeInv == TypeInv /\ [Next]_vars => TypeInv'
<1>. SUFFICES ASSUME TypeInv, [Next]_vars PROVE TypeInv'
  OBVIOUS
<1>. DEFINE D == 0 .. LEOTP_DEADLINK
<1>1. ByteInv' /\ HolesInv' /\ Limits
  BY NextByteInv, NextHolesInv DEF TypeInv
<1>2. sendStart \in Nat /\ asked \in 0 .. sendStart /\ intBuf \in Seq(Sends(sendStart, D))
      /\ MaxByte \in Nat /\ MaxClears \in Nat
  BY RequesterAssumption DEF TypeInv, Limits, ByteInv, StreamInv, NumberTypes
<1>3. (state' = state /\ measured' = measured /\ intOutputLimit' = intOutputLimit /\ clears' = clears
       /\ sendStart' = sendStart /\ intBuf' = intBuf) => Limits'
  BY <1>1 DEF Limits
<1>4. CASE Request
  <2>1. UNCHANGED <<state, measured, intOutputLimit, clears, intBuf>> /\ sendStart <= sendStart'
        /\ sendStart' <= MaxByte /\ sendStart' \in Nat
    BY <1>2, <1>4, RequesterAssumption DEF Request, histVars
  <2>2. Seq(Sends(sendStart, D)) \subseteq Seq(Sends(sendStart', D))
    BY <1>2, <2>1, SendsMore
  <2>. QED
    BY <1>1, <1>2, <2>1, <2>2 DEF TypeInv, Limits
<1>5. CASE Input
  <2>1. PICK s \in 0 .. asked, e \in 0 .. asked :
          s < e /\ (InputData(Seg(s, e)) \/ InputHeader(Seg(s, e)))
    BY <1>5 DEF Input
  <2>2. PICK r : r = Seg(s, e)
    OBVIOUS
  <2>3. r.start \in Nat /\ r.end \in Nat /\ r.start < r.end
    BY <1>2, <2>1, <2>2 DEF Seg
  <2>4. CASE InputData(r)
    <3>1. /\ Recut(intBuf, r, LAMBDA x : Unanswered(x, r)) \in Seq(Sends(sendStart, D))
          /\ Answered(intBuf, r) \in Seq(Sends(sendStart, D))
      <4>1. sendStart \in Nat /\ intBuf \in Seq(Sends(sendStart, D))
        BY <1>2
      <4>. QED
        BY <4>1, <2>3, UnansweredSends
    <3>2. UNCHANGED <<state, intOutputLimit, clears, sendStart>>
          /\ intBuf' = Recut(intBuf, r, LAMBDA x : Unanswered(x, r))
      BY <2>4 DEF InputData, appVars, histVars
    <3>3. measured' \in BOOLEAN
      BY <1>1, <2>4 DEF InputData, Limits
    <3>. QED
      BY <1>1, <3>1, <3>2, <3>3 DEF TypeInv, Limits
  <2>5. CASE InputHeader(r)
    BY <1>1, <1>3, <2>5 DEF TypeInv, InputHeader, intVars, appVars, histVars
  <2>. QED
    BY <2>1, <2>2, <2>4, <2>5
<1>6. CASE Recv
  BY <1>1, <1>3, <1>6 DEF TypeInv, Recv, intVars, histVars
<1>7. ASSUME NEW clear \in BOOLEAN, Update(clear)
      PROVE  TypeInv'
  <2>1. Flush /\ measured' = measured /\ sendStart' = sendStart
    BY <1>7 DEF Update, UpdateAdding, Flush, appVars
  <2>2. clears' \in 0 .. MaxClears
    <3>1. clears \in 0 .. MaxClears
      BY <1>1 DEF Limits
    <3>. QED
      BY <1>2, <1>7, <3>1 DEF Update, UpdateAdding, Flush
  <2>. QED
    BY <1>1, <2>1, <2>2, FlushLimits DEF TypeInv, Limits
<1>8. CASE InterestTimeout
  <2>1. UNCHANGED <<state, measured, intOutputLimit, clears, sendStart>>
    BY <1>8 DEF InterestTimeout, appVars, histVars
  <2>2. PICK i \in 1 .. Len(intBuf) : intBuf' = [intBuf EXCEPT ![i].late = TRUE]
    BY <1>8 DEF InterestTimeout
  <2>3. intBuf[i] \in Sends(sendStart, D)
    BY <1>2
  <2>4. [intBuf[i] EXCEPT !.late = TRUE] \in Sends(sendStart, D)
    BY <2>3 DEF Sends
  <2>5. intBuf' \in Seq(Sends(sendStart, D))
    BY <1>2, <2>2, <2>4
  <2>. QED
    BY <1>1, <2>1, <2>5 DEF TypeInv, Limits
<1>9. CASE HoleAges
  BY <1>1, <1>3, <1>9 DEF TypeInv, HoleAges, intVars, appVars, histVars
<1>10. CASE UNCHANGED vars
  BY <1>1, <1>3, <1>10 DEF TypeInv, vars, intVars, appVars, histVars
<1>. QED
  BY <1>4, <1>5, <1>6, <1>7, <1>8, <1>9, <1>10 DEF Next

-----------------------------------------------------------------------------
(* The credit.                                                             *)

(* Of the interests buf, those behind the m-th were never sent: they ask   *)
(* for the bytes from n to e, one behind the other; the others ask for     *)
(* bytes below n.                                                          *)
UnsentFrom(buf, m, n, e) ==
  /\ m \in 0 .. Len(buf)
  /\ \A i \in 1 .. m : buf[i].end <= n
  /\ \A i \in m + 1 .. Len(buf) :
       buf[i].xmit = 0 /\ buf[i].start = IF i = m + 1 THEN n ELSE buf[i - 1].end
  /\ e = IF m = Len(buf) THEN n ELSE buf[Len(buf)].end

LEMMA UnsentOrder ==
  ASSUME NEW N \in Nat, NEW buf \in Seq(Ints(N)), NEW m, NEW n \in Nat, NEW e, UnsentFrom(buf, m, n, e)
  PROVE  \A i, j \in m + 1 .. Len(buf) :
           /\ n <= buf[i].start /\ buf[i].start < buf[i].end
           /\ i < j => buf[i].end <= buf[j].start
<1>1. /\ Len(buf) \in Nat /\ m \in 0 .. Len(buf)
      /\ \A i \in 1 .. Len(buf) : buf[i] \in Ints(N)
  BY DEF UnsentFrom
<1>2. \A i \in 1 .. Len(buf) : buf[i].start \in Nat /\ buf[i].end \in Nat /\ buf[i].start < buf[i].end
  BY <1>1 DEF Ints
<1>3. PICK l \in Nat : l = Len(buf) - m
  BY <1>1
<1>. DEFINE c == [i \in 1 .. l |-> buf[m + i]]
<1>4. \A i \in 1 .. l : c[i].start \in Nat /\ c[i].end \in Nat /\ c[i].start < c[i].end
  BY <1>1, <1>2, <1>3
<1>5. ASSUME NEW i \in 1 .. l, i > 1
      PROVE  c[i].start = c[i - 1].end
  <2>1. m + i \in m + 1 .. Len(buf) /\ m + i # m + 1 /\ (m + i) - 1 = m + (i - 1) /\ i - 1 \in 1 .. l
    BY <1>1, <1>3, <1>5
  <2>2. buf[m + i].start = buf[(m + i) - 1].end
    BY <2>1 DEF UnsentFrom
  <2>. QED
    BY <2>1, <2>2
<1>6. ASSUME NEW i \in m + 1 .. Len(buf)
      PROVE  i - m \in 1 .. l /\ c[i - m] = buf[i]
  BY <1>1, <1>3
<1>7. l > 0 => c[1].start = n
  <2>. SUFFICES ASSUME l > 0 PROVE c[1].start = n
    OBVIOUS
  <2>1. m + 1 \in m + 1 .. Len(buf) /\ 1 \in 1 .. l
    BY <1>1, <1>3
  <2>. QED
    BY <2>1 DEF UnsentFrom
<1>. HIDE DEF c
<1>8. \A i, j \in 1 .. l : i < j => c[i].end <= c[j].start
  BY <1>4, <1>5, ChainOrdered
<1>9. \A i \in 1 .. l : n <= c[i].start
  <2>. TAKE i \in 1 .. l
  <2>1. 1 \in 1 .. l /\ l > 0
    BY <1>3
  <2>2. CASE i = 1
    BY <1>7, <2>1, <2>2
  <2>3. CASE 1 < i
    <3>1. c[1].end <= c[i].start
      BY <1>8, <2>1, <2>3
    <3>. QED
      BY <1>4, <1>7, <2>1, <3>1
  <2>. QED
    BY <2>2, <2>3
<1>. QED
  <2>. TAKE i \in m + 1 .. Len(buf), j \in m + 1 .. Len(buf)
  <2>1. i - m \in 1 .. l /\ c[i - m] = buf[i] /\ j - m \in 1 .. l /\ c[j - m] = buf[j]
    BY <1>6
  <2>2. i < j => i - m < j - m
    BY <1>1
  <2>3. n <= buf[i].start
    BY <1>9, <2>1
  <2>4. i < j => buf[i].end <= buf[j].start
    BY <1>8, <2>1, <2>2
  <2>5. buf[i].start < buf[i].end
    BY <1>4, <2>1
  <2>. QED
    BY <2>3, <2>4, <2>5

(* Other interests below n may take the place of the first m.              *)
LEMMA UnsentJoin ==
  ASSUME NEW N \in Nat, NEW buf \in Seq(Ints(N)), NEW m, NEW n \in Nat, NEW e,
         UnsentFrom(buf, m, n, e), NEW front \in Seq(Ints(n))
  PROVE  UnsentFrom(front \o SubSeq(buf, m + 1, Len(buf)), Len(front), n, e)
<1>1. Len(buf) \in Nat /\ m \in 0 .. Len(buf) /\ Len(front) \in Nat
  BY DEF UnsentFrom
<1>2. PICK tail : tail = SubSeq(buf, m + 1, Len(buf))
  OBVIOUS
<1>3. tail \in Seq(Ints(N)) /\ Len(tail) = Len(buf) - m
      /\ \A i \in 1 .. Len(buf) - m : tail[i] = buf[m + i]
  BY <1>1, <1>2
<1>4. PICK new : new = front \o tail
  OBVIOUS
<1>5. PICK f \in Nat, l \in Nat : f = Len(front) /\ l = Len(buf) - m
  BY <1>1
<1>6. Len(new) = f + l
  <2>1. PICK T : T = Ints(n) \cup Ints(N)
    OBVIOUS
  <2>2. front \in Seq(T) /\ tail \in Seq(T)
    BY <1>3, <2>1, SeqMore
  <2>3. Len(new) = Len(front) + Len(tail)
    BY <1>4, <2>2
  <2>. QED
    BY <1>3, <1>5, <2>3
<1>7. \A i \in 1 .. f : new[i] = front[i]
  BY <1>3, <1>4, <1>5
<1>8. \A i \in 1 .. l : new[f + i] = buf[m + i]
  BY <1>3, <1>4, <1>5
<1>9. \A i \in 1 .. f : new[i].end <= n
  <2>1. \A i \in 1 .. f : front[i] \in Ints(n)
    BY <1>5
  <2>. QED
    BY <1>7, <2>1 DEF Ints
<1>10. ASSUME NEW i \in f + 1 .. Len(new)
       PROVE  new[i].xmit = 0 /\ new[i].start = IF i = f + 1 THEN n ELSE new[i - 1].end
  <2>1. PICK k \in 1 .. l : k = i - f
    BY <1>6
  <2>2. i = f + k /\ m + k \in m + 1 .. Len(buf)
    BY <1>1, <1>5, <2>1
  <2>3. new[i] = buf[m + k]
    BY <1>8, <2>2
  <2>4. buf[m + k].xmit = 0 /\ buf[m + k].start = IF m + k = m + 1 THEN n ELSE buf[(m + k) - 1].end
    BY <2>2 DEF UnsentFrom
  <2>5. CASE k = 1
    BY <1>1, <2>2, <2>3, <2>4, <2>5
  <2>6. CASE k # 1
    <3>1. k - 1 \in 1 .. l /\ i - 1 = f + (k - 1) /\ (m + k) - 1 = m + (k - 1) /\ i # f + 1 /\ m + k # m + 1
      BY <1>1, <2>2, <2>6
    <3>2. new[i - 1] = buf[(m + k) - 1]
      BY <1>8, <3>1
    <3>. QED
      BY <2>3, <2>4, <3>1, <3>2
  <2>. QED
    BY <2>5, <2>6
<1>11. e = IF f = Len(new) THEN n ELSE new[Len(new)].end
  <2>1. CASE l = 0
    <3>1. m = Len(buf) /\ f = Len(new)
      BY <1>1, <1>5, <1>6, <2>1
    <3>. QED
      BY <3>1 DEF UnsentFrom
  <2>2. CASE l # 0
    <3>1. m # Len(buf) /\ f # Len(new) /\ l \in 1 .. l /\ f + l = Len(new) /\ m + l = Len(buf)
      BY <1>1, <1>5, <1>6, <2>2
    <3>2. new[Len(new)] = buf[Len(buf)]
      BY <1>8, <3>1
    <3>. QED
      BY <3>1, <3>2 DEF UnsentFrom
  <2>. QED
    BY <2>1, <2>2
<1>12. f \in 0 .. Len(new)
  BY <1>5, <1>6
<1>. QED
  BY <1>2, <1>4, <1>5, <1>9, <1>10, <1>11, <1>12 DEF UnsentFrom

(* Cutting a list below n leaves the rear of the list as it is.            *)
LEMMA RestampTail ==
  ASSUME NEW N \in Nat, NEW a \in Seq(Ints(N)), NEW b \in Seq(Ints(N)),
         NEW h, h.start \in Nat, h.end \in Nat, h.start < h.end,
         Behind(b, h)
  PROVE  Restamp(a \o b, h) = Restamp(a, h) \o b
<1>. DEFINE P == [x \in Ints(N) |-> RestampParts(x, h)]
<1>1. P \in [Ints(N) -> Seq(Ints(N))]
  <2>1. ASSUME NEW x \in Ints(N) PROVE RestampParts(x, h) \in Seq(Ints(N))
    <3>1. x \in Sends(N, Nat) /\ Ints(N) = Sends(N, Nat)
      BY IntsAreSends
    <3>. QED
      BY <3>1, RestampPartsType
  <2>. QED
    BY <2>1
<1>2. ASSUME NEW s \in Seq(Ints(N)) PROVE Restamp(s, h) = RecutBy(P, s, h)
  <2>1. \A i \in 1 .. Len(s) : P[s[i]] = RestampParts(s[i], h)
    OBVIOUS
  <2>. HIDE DEF P
  <2>. QED
    BY <2>1 DEF Restamp, Recut, RecutBy, RestampParts
<1>3. a \o b \in Seq(Ints(N)) /\ Sized(Ints(N))
  BY SegsSized
<1>. HIDE DEF P
<1>4. RecutBy(P, a \o b, h) = RecutBy(P, a, h) \o b
  BY <1>1, <1>3, RecutTail, SMTT(60)
<1>. QED
  BY <1>2, <1>3, <1>4

LeftOf(buf, r) == Recut(buf, r, LAMBDA x : Unanswered(x, r))

LEMMA UnansweredTail ==
  ASSUME NEW N \in Nat, NEW a \in Seq(Ints(N)), NEW b \in Seq(Ints(N)),
         NEW r, r.start \in Nat, r.end \in Nat, r.start < r.end,
         Behind(b, r)
  PROVE  LeftOf(a \o b, r) = LeftOf(a, r) \o b
<1>. DEFINE P == [x \in Ints(N) |-> Unanswered(x, r)]
<1>1. P \in [Ints(N) -> Seq(Ints(N))]
  <2>1. ASSUME NEW x \in Ints(N) PROVE Unanswered(x, r) \in Seq(Ints(N))
    <3>1. Before(x, r) \in Seq(Ints(N)) /\ After(x, r) \in Seq(Ints(N))
      BY IntPieces
    <3>. QED
      BY <3>1 DEF Unanswered
  <2>. QED
    BY <2>1
<1>2. ASSUME NEW s \in Seq(Ints(N)) PROVE LeftOf(s, r) = RecutBy(P, s, r)
  <2>1. \A i \in 1 .. Len(s) : P[s[i]] = Unanswered(s[i], r)
    OBVIOUS
  <2>. HIDE DEF P
  <2>. QED
    BY <2>1 DEF LeftOf, Recut, RecutBy
<1>3. a \o b \in Seq(Ints(N)) /\ Sized(Ints(N))
  BY SegsSized
<1>. HIDE DEF P
<1>4. RecutBy(P, a \o b, r) = RecutBy(P, a, r) \o b
  BY <1>1, <1>3, RecutTail
<1>5. LeftOf(a \o b, r) = RecutBy(P, a \o b, r)
  BY <1>2, <1>3
<1>6. LeftOf(a, r) = RecutBy(P, a, r)
  BY <1>2
<1>. QED
  BY <1>4, <1>5, <1>6

(* The two parts of a list of interests.                                   *)
UnsentParts(N, buf, m, n, a, b) ==
  /\ a \in Seq(Ints(n)) /\ a \in Seq(Ints(N)) /\ b \in Seq(Ints(N))
  /\ buf = a \o b /\ b = SubSeq(buf, m + 1, Len(buf))
  /\ \A i \in 1 .. Len(b) : b[i].start \in Nat /\ n <= b[i].start

LEMMA UnsentSplit ==
  ASSUME NEW N \in Nat, NEW buf \in Seq(Ints(N)), NEW m, NEW n \in Nat, NEW e, UnsentFrom(buf, m, n, e)
  PROVE  \E a, b : UnsentParts(N, buf, m, n, a, b)
<1>1. Len(buf) \in Nat /\ m \in 0 .. Len(buf) /\ \A i \in 1 .. Len(buf) : buf[i] \in Ints(N)
  BY DEF UnsentFrom
<1>2. PICK a : a = SubSeq(buf, 1, m)
  OBVIOUS
<1>3. PICK b : b = SubSeq(buf, m + 1, Len(buf))
  OBVIOUS
<1>4. a \in Seq(Ints(N)) /\ Len(a) = m /\ \A i \in 1 .. m : a[i] = buf[i]
  BY <1>1, <1>2
<1>5. b \in Seq(Ints(N)) /\ Len(b) = Len(buf) - m /\ \A i \in 1 .. Len(b) : b[i] = buf[m + i]
  BY <1>1, <1>3
<1>6. a \in Seq(Ints(n))
  <2>1. ASSUME NEW i \in 1 .. Len(a) PROVE a[i] \in Ints(n)
    <3>1. a[i] = buf[i] /\ buf[i] \in Ints(N) /\ buf[i].end <= n
      BY <1>1, <1>4 DEF UnsentFrom
    <3>. QED
      BY <3>1 DEF Ints
  <2>. QED
    BY <1>4, <2>1, SeqOfMembers
<1>7. buf = a \o b
  <2>1. buf = SubSeq(buf, 1, Len(buf))
    BY SubSeqFull
  <2>2. SubSeq(buf, 1, m) \o SubSeq(buf, m + 1, Len(buf)) = SubSeq(buf, 1, Len(buf))
    <3>1. 1 \in 1 .. Len(buf) + 1 /\ m \in 1 - 1 .. Len(buf) /\ Len(buf) \in m .. Len(buf)
      BY <1>1
    <3>. QED
      BY <3>1, ConcatAdjacentSubSeq
  <2>. QED
    BY <1>2, <1>3, <2>1, <2>2
<1>8. \A i \in 1 .. Len(b) : b[i].start \in Nat /\ n <= b[i].start
  <2>1. \A i \in 1 .. Len(b) : m + i \in m + 1 .. Len(buf) /\ m + i \in 1 .. Len(buf)
    BY <1>1, <1>5
  <2>2. \A i \in m + 1 .. Len(buf) : n <= buf[i].start
    BY UnsentOrder
  <2>3. \A i \in 1 .. Len(buf) : buf[i].start \in Nat
    BY <1>1 DEF Ints
  <2>. QED
    BY <1>5, <2>1, <2>2, <2>3
<1>. QED
  BY <1>3, <1>4, <1>5, <1>6, <1>7, <1>8 DEF UnsentParts

LEMMA RestampUnsent ==
  ASSUME NEW N \in Nat, NEW buf \in Seq(Ints(N)), NEW m, NEW n \in Nat, NEW e, UnsentFrom(buf, m, n, e),
         NEW h, h.start \in Nat, h.end \in Nat, h.start < h.end, h.end <= n
  PROVE  \E l : UnsentFrom(Restamp(buf, h), l, n, e)
<1>0. PICK a, b : UnsentParts(N, buf, m, n, a, b)
  BY UnsentSplit
<1>1. /\ a \in Seq(Ints(n)) /\ b \in Seq(Ints(N)) /\ a \in Seq(Ints(N))
      /\ buf = a \o b /\ b = SubSeq(buf, m + 1, Len(buf))
      /\ \A i \in 1 .. Len(b) : n <= b[i].start
  BY <1>0 DEF UnsentParts
<1>2. Behind(b, h)
  <2>1. ASSUME NEW i \in 1 .. Len(b)
        PROVE  h.end <= b[i].start
    <3>1. b[i].start \in Nat /\ n <= b[i].start
      BY <1>0 DEF UnsentParts
    <3>. QED
      BY <3>1
  <2>. QED
    BY <2>1 DEF Behind
<1>3. Restamp(buf, h) = Restamp(a, h) \o b
  BY <1>1, <1>2, RestampTail, ZenonT(60)
<1>4. Restamp(a, h) \in Seq(Ints(n))
  BY <1>1, RestampType
<1>5. UnsentFrom(Restamp(a, h) \o SubSeq(buf, m + 1, Len(buf)), Len(Restamp(a, h)), n, e)
  BY <1>4, UnsentJoin
<1>. QED
  BY <1>1, <1>3, <1>5

LEMMA UnansweredUnsent ==
  ASSUME NEW N \in Nat, NEW buf \in Seq(Ints(N)), NEW m, NEW n \in Nat, NEW e, UnsentFrom(buf, m, n, e),
         NEW r, r.start \in Nat, r.end \in Nat, r.start < r.end, r.end <= n
  PROVE  \E l : UnsentFrom(LeftOf(buf, r), l, n, e)
<1>0. PICK a, b : UnsentParts(N, buf, m, n, a, b)
  BY UnsentSplit
<1>1. /\ a \in Seq(Ints(n)) /\ b \in Seq(Ints(N)) /\ a \in Seq(Ints(N))
      /\ buf = a \o b /\ b = SubSeq(buf, m + 1, Len(buf))
      /\ \A i \in 1 .. Len(b) : n <= b[i].start
  BY <1>0 DEF UnsentParts
<1>2. Behind(b, r)
  <2>1. ASSUME NEW i \in 1 .. Len(b)
        PROVE  r.end <= b[i].start
    <3>1. b[i].start \in Nat /\ n <= b[i].start
      BY <1>0 DEF UnsentParts
    <3>. QED
      BY <3>1
  <2>. QED
    BY <2>1 DEF Behind
<1>3. LeftOf(buf, r) = LeftOf(a, r) \o b
  BY <1>1, <1>2, UnansweredTail, ZenonT(60)
<1>4. LeftOf(a, r) \in Seq(Ints(n))
  <2>1. /\ Recut(a, r, LAMBDA x : Unanswered(x, r)) \in Seq(Ints(n))
        /\ Answered(a, r) \in Seq(Ints(n))
    BY <1>1, UnansweredType
  <2>. QED
    BY <2>1 DEF LeftOf
<1>5. UnsentFrom(LeftOf(a, r) \o SubSeq(buf, m + 1, Len(buf)), Len(LeftOf(a, r)), n, e)
  BY <1>4, UnsentJoin
<1>. QED
  BY <1>1, <1>3, <1>5

(* flushDataHoles restamps only interests that were sent.                  *)
LEMMA FlushDataHolesUnsent ==
  ASSUME NEW N \in Nat, NEW buf \in Seq(Ints(N)), NEW m, NEW n \in Nat, NEW e, UnsentFrom(buf, m, n, e),
         NEW d \in 0 .. n, NEW holes \in SortedBelow(Gaps, d), FlushDataHoles(buf, holes)
  PROVE  \E l : UnsentFrom(intBuf', l, n, e)
<1>. DEFINE Aged(age) == {i \in 1 .. Len(holes) : holes[i].age = age}
            S == {t \in Seq(Ints(N)) : \E l : UnsentFrom(t, l, n, e)}
<1>1. intBuf' = RecutAll(buf, Pick(holes, Aged("ripe")), Restamp)
  BY DEF FlushDataHoles
<1>. HIDE DEF Aged
<1>2. PICK rs \in SortedBelow(Gaps, d) : rs = Pick(holes, Aged("ripe"))
  BY GapsSized, PickSorted
<1>3. Len(rs) \in Nat
      /\ \A i \in 1 .. Len(rs) : rs[i].start \in Nat /\ rs[i].end \in Nat /\ rs[i].start < rs[i].end
                                 /\ rs[i].end <= n
  <2>1. rs \in Seq(Gaps) /\ \A i \in 1 .. Len(rs) : rs[i] \in Gaps /\ rs[i].end <= d
    BY DEF SortedBelow
  <2>. QED
    BY <2>1, SMTT(60) DEF Gaps
<1>4. ASSUME NEW x \in S, NEW i \in 1 .. Len(rs)
      PROVE  Restamp(x, rs[i]) \in S
  <2>1. PICK l : UnsentFrom(x, l, n, e)
    OBVIOUS
  <2>2. x \in Seq(Ints(N))
    OBVIOUS
  <2>3. PICK h : h = rs[i]
    OBVIOUS
  <2>4. h.start \in Nat /\ h.end \in Nat /\ h.start < h.end /\ h.end <= n
    BY <1>3, <2>3
  <2>5. Restamp(x, h) \in Seq(Ints(N))
    BY <2>2, <2>4, RestampType
  <2>6. \E k : UnsentFrom(Restamp(x, h), k, n, e)
    BY <2>1, <2>2, <2>4, RestampUnsent
  <2>. QED
    BY <2>3, <2>5, <2>6
<1>5. buf \in S
  OBVIOUS
<1>. HIDE DEF S
<1>6. RecutAll(buf, rs, Restamp) \in S
  BY <1>3, <1>4, <1>5, RestampAllStays
<1>. QED
  BY <1>1, <1>2, <1>6 DEF S

(* Where the bytes start for which flushIntQueue has made no interests.    *)
UnsentEnd == IF intQueue = <<>> THEN sendStart ELSE intQueue[1].start

LEMMA NewUnsent ==
  ASSUME StreamInv, NEW m, UnsentFrom(intBuf, m, asked, UnsentEnd)
  PROVE  UnsentFrom(intBuf \o NewInterests, m, asked, sendStart)
<1>1. CASE intQueue = <<>>
  <2>1. NewInterests = <<>> /\ UnsentEnd = sendStart
    BY <1>1 DEF NewInterests, UnsentEnd
  <2>2. intBuf \o <<>> = intBuf
    BY ConcatEmptySeq DEF StreamInv, ListTypes
  <2>. QED
    BY <2>1, <2>2
<1>2. CASE intQueue # <<>>
  <2>1. PICK new : new = NewInterests
    OBVIOUS
  <2>2. IsChain(new, UnsentEnd, sendStart)
    BY <1>2, <2>1, NewInterestsChain DEF UnsentEnd
  <2>3. /\ sendStart \in Nat /\ intBuf \in Seq(Ints(sendStart))
        /\ new \in Seq(Sends(sendStart, {0})) /\ new \in Seq(Ints(sendStart))
    BY <2>1, NewInterestsSends, NewInterestsType DEF StreamInv, ListTypes, NumberTypes
  <2>4. \A i \in 1 .. Len(new) : new[i].xmit = 0
    <3>1. \A i \in 1 .. Len(new) : new[i] \in Sends(sendStart, {0})
      BY <2>3
    <3>. QED
      BY <3>1 DEF Sends
  <2>5. PICK buf : buf = intBuf \o new
    OBVIOUS
  <2>6. PICK f \in Nat, l \in Nat : f = Len(intBuf) /\ l = Len(new) /\ l > 0
    BY <2>2, <2>3, SMTT(60) DEF IsChain
  <2>7. /\ Len(buf) = f + l
        /\ \A i \in 1 .. f : buf[i] = intBuf[i]
        /\ \A i \in 1 .. l : buf[f + i] = new[i]
    BY <2>3, <2>5, <2>6
  <2>8. m \in 0 .. f /\ UnsentEnd = IF m = f THEN asked ELSE intBuf[f].end
    BY <2>6 DEF UnsentFrom
  <2>9. \A i \in 1 .. m : buf[i].end <= asked
    BY <2>6, <2>7, <2>8 DEF UnsentFrom
  <2>10. ASSUME NEW i \in m + 1 .. f + l
         PROVE  buf[i].xmit = 0 /\ buf[i].start = IF i = m + 1 THEN asked ELSE buf[i - 1].end
    <3>1. CASE i <= f
      <4>1. i \in m + 1 .. Len(intBuf) /\ i \in 1 .. f /\ (i # m + 1 => i - 1 \in 1 .. f)
        BY <2>6, <2>8, <3>1
      <4>2. intBuf[i].xmit = 0 /\ intBuf[i].start = IF i = m + 1 THEN asked ELSE intBuf[i - 1].end
        BY <4>1 DEF UnsentFrom
      <4>. QED
        BY <2>7, <4>1, <4>2
    <3>2. CASE i = f + 1
      <4>1. 1 \in 1 .. l /\ i = f + 1 /\ new[1].start = UnsentEnd
        BY <2>2, <2>6, <3>2 DEF IsChain
      <4>2. buf[i] = new[1]
        BY <2>7, <4>1
      <4>3. i # m + 1 => m # f /\ f \in 1 .. f /\ i - 1 = f
        BY <2>8, <3>2
      <4>4. i = m + 1 => m = f
        BY <2>8, <3>2
      <4>. QED
        BY <2>4, <2>6, <2>7, <2>8, <4>1, <4>2, <4>3, <4>4
    <3>3. CASE i > f + 1
      <4>1. PICK k \in 1 .. l : k = i - f /\ i = f + k /\ k > 1
        BY <2>6, <2>8, <3>3, SMTT(60)
      <4>2. k - 1 \in 1 .. l /\ i - 1 = f + (k - 1) /\ i # m + 1
        BY <2>6, <2>8, <3>3, <4>1
      <4>3. buf[i] = new[k] /\ buf[i - 1] = new[k - 1]
        BY <2>7, <4>1, <4>2
      <4>4. new[k].start = new[k - 1].end
        BY <2>2, <2>6, <4>1 DEF IsChain
      <4>. QED
        BY <2>4, <2>6, <4>1, <4>2, <4>3, <4>4
    <3>. QED
      BY <2>6, <2>8, <3>1, <3>2, <3>3
  <2>11. m # f + l /\ buf[f + l].end = sendStart
    <3>1. l \in 1 .. l /\ m # f + l
      BY <2>6, <2>8
    <3>2. buf[f + l] = new[l] /\ new[l].end = sendStart
      BY <2>2, <2>6, <2>7, <3>1 DEF IsChain
    <3>. QED
      BY <3>1, <3>2
  <2>12. m \in 0 .. Len(buf)
    BY <2>6, <2>7, <2>8
  <2>. QED
    BY <2>1, <2>5, <2>7, <2>9, <2>10, <2>11, <2>12 DEF UnsentFrom
<1>. QED
  BY <1>1, <1>2

LEMMA SentFields ==
  ASSUME NEW n \in Nat, NEW buf \in Seq(Ints(n)), NEW need, NEW sent, IsSent(sent, buf, need)
  PROVE  /\ sent \in Seq(Ints(n)) /\ Len(sent) = Len(buf)
         /\ \A i \in 1 .. Len(buf) :
              /\ sent[i].start = buf[i].start /\ sent[i].end = buf[i].end
              /\ i \notin need => sent[i] = buf[i]
<1>1. sent \in Seq(Ints(n)) /\ Len(buf) \in Nat
  BY SentBytes
<1>2. Len(sent) = Len(buf)
  BY <1>1 DEF IsSent
<1>3. ASSUME NEW i \in 1 .. Len(buf)
      PROVE  /\ sent[i].start = buf[i].start /\ sent[i].end = buf[i].end
             /\ i \notin need => sent[i] = buf[i]
  <2>1. sent[i] = IF i \in need THEN Sent(buf[i]) ELSE buf[i]
    BY DEF IsSent
  <2>2. buf[i] \in Ints(n)
    OBVIOUS
  <2>3. Sent(buf[i]).start = buf[i].start /\ Sent(buf[i]).end = buf[i].end
    BY <2>2 DEF Sent, Ints
  <2>. QED
    BY <2>1, <2>3
<1>. QED
  BY <1>1, <1>2, <1>3

SendsUnsent(buf, n, k, need, sent, n2) ==
  /\ k \in 0 .. Len(buf) /\ need = NeedSend(buf) \cap 1 .. k
  /\ IsSent(sent, buf, need)
  /\ n2 = Highest({n} \cup {buf[i].end : i \in need})

(* Of the interests never sent, those a flush scans are all sent: together *)
(* they have as many bytes as asked advances by.                           *)
LEMMA SentUnsent ==
  ASSUME NEW N \in Nat, NEW buf \in Seq(Ints(N)), NEW m, NEW n \in Nat, NEW e, UnsentFrom(buf, m, n, e),
         NEW k, NEW need, NEW sent, NEW n2, SendsUnsent(buf, n, k, need, sent, n2)
  PROVE  /\ n2 \in Nat /\ n <= n2
         /\ n2 - n <= TotalSize(buf, need)
         /\ UnsentFrom(sent, Higher(m, k), n2, e)
<1>0. /\ k \in 0 .. Len(buf) /\ need = NeedSend(buf) \cap 1 .. k
      /\ IsSent(sent, buf, need) /\ n2 = Highest({n} \cup {buf[i].end : i \in need})
  BY DEF SendsUnsent
<1>1. /\ Len(buf) \in Nat /\ m \in 0 .. Len(buf) /\ m \in Nat /\ k \in Nat /\ k \in 0 .. Len(buf)
      /\ \A i \in 1 .. Len(buf) : buf[i] \in Ints(N)
  BY <1>0 DEF UnsentFrom
<1>2. \A i \in 1 .. Len(buf) :
        buf[i].start \in Nat /\ buf[i].end \in Nat /\ buf[i].start < buf[i].end /\ Size(buf[i]) \in Nat
  BY <1>1, SMTT(60) DEF Ints, Size
<1>3. need \subseteq 1 .. k /\ need \subseteq 1 .. Len(buf) /\ m + 1 .. k \subseteq need
  <2>1. ASSUME NEW i \in m + 1 .. k
        PROVE  i \in need
    <3>1. i \in 1 .. Len(buf) /\ i \in 1 .. k /\ i \in m + 1 .. Len(buf)
      BY <1>1
    <3>2. buf[i].xmit = 0
      BY <3>1 DEF UnsentFrom
    <3>3. i \in NeedSend(buf)
      BY <3>1, <3>2 DEF NeedSend
    <3>. QED
      BY <1>0, <3>1, <3>3
  <2>2. need \subseteq 1 .. k
    BY <1>0
  <2>3. need \subseteq NeedSend(buf) /\ NeedSend(buf) \subseteq 1 .. Len(buf)
    BY <1>0 DEF NeedSend
  <2>. QED
    BY <2>1, <2>2, <2>3
<1>4. \A i \in 1 .. m : buf[i].end <= n
  BY DEF UnsentFrom
<1>5. PICK E : E = {n} \cup {buf[i].end : i \in need}
  OBVIOUS
<1>6. /\ sent \in Seq(Ints(N)) /\ Len(sent) = Len(buf)
      /\ \A i \in 1 .. Len(buf) :
           /\ sent[i].start = buf[i].start /\ sent[i].end = buf[i].end
           /\ i \notin need => sent[i] = buf[i]
  BY <1>0, SentFields
<1>7. CASE k <= m
  <2>1. n2 = n
    <3>1. \A y \in E : y <= n
      BY <1>1, <1>3, <1>4, <1>5, <1>7
    <3>2. n \in E /\ E \subseteq Nat
      BY <1>2, <1>3, <1>5
    <3>3. n2 \in E /\ \A y \in E : y <= n2
      <4>1. \A x \in E : (\A y \in E : y <= x) => n2 \in E /\ \A y \in E : y <= n2
        BY <1>0, <1>5 DEF Highest
      <4>. QED
        BY <3>1, <3>2, <4>1
    <3>4. n2 \in Nat /\ n2 <= n /\ n <= n2
      BY <3>1, <3>2, <3>3
    <3>. QED
      BY <3>4
  <2>2. TotalSize(buf, need) \in Nat
    BY SegsSized, TotalSizeType
  <2>3. Higher(m, k) = m
    BY <1>1, <1>7 DEF Higher
  <2>4. \A i \in m + 1 .. Len(buf) : i \in 1 .. Len(buf) /\ i \notin need
    BY <1>1, <1>3, <1>7
  <2>5. UnsentFrom(sent, m, n, e)
    <3>1. \A i \in 1 .. m : sent[i].end <= n
      BY <1>1, <1>4, <1>6
    <3>2. ASSUME NEW i \in m + 1 .. Len(sent)
          PROVE  sent[i].xmit = 0 /\ sent[i].start = IF i = m + 1 THEN n ELSE sent[i - 1].end
      <4>1. i \in m + 1 .. Len(buf) /\ sent[i] = buf[i] /\ (i # m + 1 => i - 1 \in 1 .. Len(buf))
        BY <1>1, <1>6, <2>4
      <4>2. buf[i].xmit = 0 /\ buf[i].start = IF i = m + 1 THEN n ELSE buf[i - 1].end
        BY <4>1 DEF UnsentFrom
      <4>. QED
        BY <1>6, <4>1, <4>2
    <3>3. e = IF m = Len(sent) THEN n ELSE sent[Len(sent)].end
      <4>1. m # Len(buf) => Len(buf) \in 1 .. Len(buf)
        BY <1>1
      <4>. QED
        BY <1>6, <4>1 DEF UnsentFrom
    <3>. QED
      BY <1>1, <1>6, <3>1, <3>2, <3>3 DEF UnsentFrom
  <2>. QED
    BY <2>1, <2>2, <2>3, <2>5
<1>8. CASE k > m
  <2>1. k \in m + 1 .. Len(buf) /\ k \in 1 .. Len(buf) /\ k \in need
    BY <1>1, <1>3, <1>8
  <2>2. \A i, j \in m + 1 .. Len(buf) :
           /\ n <= buf[i].start /\ buf[i].start < buf[i].end
           /\ i < j => buf[i].end <= buf[j].start
    BY UnsentOrder
  <2>3. PICK z \in Nat : z = buf[k].end
    BY <1>2, <2>1
  <2>4. n < z
    BY <1>2, <2>1, <2>2, <2>3
  <2>5. \A i \in 1 .. k : buf[i].end <= z
    <3>. TAKE i \in 1 .. k
    <3>1. CASE i <= m
      <4>1. i \in 1 .. m /\ i \in 1 .. Len(buf)
        BY <1>1, <3>1
      <4>. QED
        BY <1>2, <1>4, <2>4, <4>1
    <3>2. CASE i > m /\ i < k
      <4>1. i \in m + 1 .. Len(buf) /\ i \in 1 .. Len(buf)
        BY <1>1, <3>2
      <4>2. buf[i].end <= buf[k].start /\ buf[k].start < buf[k].end
        BY <2>1, <2>2, <3>2, <4>1
      <4>. QED
        BY <1>2, <2>1, <2>3, <4>1, <4>2, SMTT(60)
    <3>3. CASE i = k
      BY <2>3, <3>3
    <3>. QED
      BY <1>1, <3>1, <3>2, <3>3
  <2>6. n2 = z
    <3>1. z \in E /\ \A y \in E : y <= z
      BY <1>3, <1>5, <2>1, <2>3, <2>4, <2>5
    <3>2. E \subseteq Nat
      BY <1>2, <1>3, <1>5
    <3>3. n2 \in E /\ \A y \in E : y <= n2
      <4>1. \A x \in E : (\A y \in E : y <= x) => n2 \in E /\ \A y \in E : y <= n2
        BY <1>0, <1>5 DEF Highest
      <4>. QED
        BY <3>1, <4>1
    <3>. QED
      BY <3>1, <3>2, <3>3
  <2>7. z - n <= TotalSize(buf, need)
    <3>. DEFINE xs == [i \in 1 .. Len(buf) |-> IF i \in m + 1 .. k THEN Size(buf[i]) ELSE 0]
                ys == [i \in 1 .. Len(buf) |-> IF i \in need THEN Size(buf[i]) ELSE 0]
                g  == [i \in 0 .. Len(buf) |-> IF i <= m THEN 0 ELSE
                                               IF i <= k THEN buf[i].end - n ELSE z - n]
    <3>1. \A i \in 1 .. Len(buf) : xs[i] \in Int /\ ys[i] \in Int /\ xs[i] <= ys[i]
      <4>. TAKE i \in 1 .. Len(buf)
      <4>1. Size(buf[i]) \in Nat
        BY <1>2
      <4>2. i \in m + 1 .. k => i \in need
        BY <1>3
      <4>. QED
        BY <4>1, <4>2
    <3>2. PartialSums(Len(buf), xs, g)
      <4>1. g \in [0 .. Len(buf) -> Int]
        <5>1. ASSUME NEW i \in 0 .. Len(buf)
              PROVE  (IF i <= m THEN 0 ELSE IF i <= k THEN buf[i].end - n ELSE z - n) \in Int
          <6>1. i > m => buf[i].end \in Nat
            <7>1. i > m => i \in 1 .. Len(buf)
              BY <1>1
            <7>. QED
              BY <1>2, <7>1
          <6>. QED
            BY <1>1, <6>1
        <5>. QED
          BY <5>1
      <4>2. g[0] = 0
        BY <1>1
      <4>3. ASSUME NEW i \in 1 .. Len(buf)
            PROVE  g[i] = g[i - 1] + xs[i]
        <5>1. i - 1 \in 0 .. Len(buf) /\ i \in 0 .. Len(buf) /\ (i > 1 => i - 1 \in 1 .. Len(buf))
          BY <1>1
        <5>2. buf[i].start \in Nat /\ buf[i].end \in Nat /\ Size(buf[i]) = buf[i].end - buf[i].start
          BY <1>2 DEF Size
        <5>3. CASE i <= m
          BY <1>1, <5>1, <5>3
        <5>4. CASE i = m + 1
          <6>1. buf[i].start = n /\ i \in m + 1 .. k
            BY <1>1, <1>8, <5>4 DEF UnsentFrom
          <6>2. g[i] = buf[i].end - n /\ g[i - 1] = 0 /\ xs[i] = Size(buf[i])
            BY <1>1, <1>8, <5>1, <5>4, <6>1
          <6>. QED
            BY <5>2, <6>1, <6>2
        <5>5. CASE i > m + 1 /\ i <= k
          <6>1. i \in m + 1 .. Len(buf) /\ i \in m + 1 .. k /\ i # m + 1
            BY <1>1, <5>5
          <6>2. buf[i].start = buf[i - 1].end
            BY <6>1 DEF UnsentFrom
          <6>3. buf[i - 1].end \in Nat
            BY <1>1, <1>2, <5>1, <5>5
          <6>4. g[i] = buf[i].end - n /\ g[i - 1] = buf[i - 1].end - n /\ xs[i] = Size(buf[i])
            BY <1>1, <5>1, <5>5, <6>1
          <6>. QED
            BY <5>2, <6>2, <6>3, <6>4
        <5>6. CASE i > k
          <6>1. g[i] = z - n /\ xs[i] = 0
            BY <1>1, <1>8, <5>1, <5>6
          <6>2. CASE i = k + 1
            <7>1. i - 1 = k
              BY <1>1, <6>2
            <7>2. g[k] = z - n
              BY <1>1, <1>8, <2>1, <2>3
            <7>. QED
              BY <2>3, <6>1, <7>1, <7>2
          <6>3. CASE i # k + 1
            <7>1. g[i - 1] = z - n
              BY <1>1, <1>8, <5>1, <5>6, <6>3
            <7>. QED
              BY <2>3, <6>1, <7>1
          <6>. QED
            BY <6>2, <6>3
        <5>. QED
          BY <1>1, <5>3, <5>4, <5>5, <5>6
      <4>. HIDE DEF g, xs
      <4>. QED
        BY <4>1, <4>2, <4>3 DEF PartialSums
    <3>3. g[Len(buf)] = z - n
      <4>1. Len(buf) \in 0 .. Len(buf) /\ Len(buf) > m
        BY <1>1, <2>1
      <4>2. Len(buf) <= k => Len(buf) = k
        BY <1>1
      <4>. QED
        BY <1>1, <2>3, <4>1, <4>2
    <3>. HIDE DEF g, xs, ys
    <3>4. SumOf(Len(buf), xs) = z - n
      BY <1>1, <3>2, <3>3, SumIs
    <3>5. SumOf(Len(buf), xs) <= SumOf(Len(buf), ys)
      BY <1>1, <3>1, SumAtMost
    <3>6. TotalSize(buf, need) = SumOf(Len(buf), ys)
      BY DEF TotalSize, ys
    <3>. QED
      BY <3>4, <3>5, <3>6
  <2>8. Higher(m, k) = k
    BY <1>1, <1>8 DEF Higher
  <2>9. UnsentFrom(sent, k, z, e)
    <3>1. \A i \in 1 .. k : sent[i].end <= z
      BY <1>1, <1>6, <2>5, SMTT(60)
    <3>2. ASSUME NEW i \in k + 1 .. Len(sent)
          PROVE  sent[i].xmit = 0 /\ sent[i].start = IF i = k + 1 THEN z ELSE sent[i - 1].end
      <4>0. i \in k + 1 .. Len(buf)
        BY <1>6
      <4>1. /\ i \in m + 1 .. Len(buf) /\ i \in 1 .. Len(buf) /\ i - 1 \in 1 .. Len(buf)
            /\ i # m + 1 /\ i \notin need /\ (i = k + 1 => i - 1 = k)
        <5>1. i \in m + 1 .. Len(buf) /\ i \in 1 .. Len(buf) /\ i # m + 1 /\ (i = k + 1 => i - 1 = k)
          BY <1>1, <1>8, <4>0
        <5>2. i - 1 \in 1 .. Len(buf)
          BY <1>1, <1>8, <4>0
        <5>3. i \notin 1 .. k
          BY <1>1, <4>0
        <5>. QED
          BY <1>3, <5>1, <5>2, <5>3
      <4>2. sent[i] = buf[i]
        BY <1>6, <4>1
      <4>3. buf[i].xmit = 0 /\ buf[i].start = buf[i - 1].end
        BY <4>1 DEF UnsentFrom
      <4>. QED
        BY <1>6, <2>3, <4>1, <4>2, <4>3
    <3>3. e = IF k = Len(sent) THEN z ELSE sent[Len(sent)].end
      <4>1. m # Len(buf) /\ Len(buf) \in 1 .. Len(buf)
        BY <1>1, <2>1
      <4>. QED
        BY <1>6, <2>3, <4>1 DEF UnsentFrom
    <3>. QED
      BY <1>1, <1>6, <3>1, <3>2, <3>3 DEF UnsentFrom
  <2>. QED
    BY <2>3, <2>4, <2>6, <2>7, <2>8, <2>9
<1>. QED
  BY <1>1, <1>7, <1>8

(* While the requester runs, the interests it never sent are the last of   *)
(* intBuf, and ask for what lies between asked and intQueue.               *)
UnsentKept == Up => \E m : UnsentFrom(intBuf, m, asked, UnsentEnd)

CreditInv == TypeInv /\ UnsentKept /\ CreditKept

LEMMA FlushCredit ==
  ASSUME CreditInv, Up, Flush
  PROVE  /\ ~ measured => asked' + intOutputLimit' <= LEOTP_SNDQ_MAX
         /\ state' = "up" => \E l : UnsentFrom(intBuf', l, asked', sendStart)
<1>1. /\ sendStart \in Nat /\ asked \in 0 .. sendStart /\ asked \in Nat /\ intOutputLimit \in Nat
      /\ intBuf \in Seq(Ints(sendStart)) /\ NewInterests \in Seq(Ints(sendStart))
      /\ dataNextRangeStart \in Nat /\ dataNextRangeStart <= asked
      /\ dataHoles \in SortedBelow(Gaps, dataNextRangeStart)
  BY NewInterestsType DEF CreditInv, TypeInv, Limits, ByteInv, HolesInv, StreamInv, ListTypes, NumberTypes
<1>2. LEOTP_SNDQ_MAX \in Nat /\ (~ measured => asked + intOutputLimit <= LEOTP_SNDQ_MAX)
  BY RequesterAssumption DEF CreditInv, CreditKept
<1>3. PICK buf : buf = intBuf \o NewInterests
  OBVIOUS
<1>4. buf \in Seq(Ints(sendStart)) /\ Len(buf) \in Nat
      /\ \A i \in 1 .. Len(buf) : buf[i] \in Ints(sendStart)
  BY <1>1, <1>3
<1>5. PICK m : UnsentFrom(buf, m, asked, sendStart)
  BY <1>3, NewUnsent DEF CreditInv, UnsentKept, TypeInv, ByteInv
<1>6. CASE FlushDataHoles(buf, dataHoles) /\ UNCHANGED <<intOutputLimit, asked>>
  <2>1. dataNextRangeStart \in 0 .. asked
    BY <1>1
  <2>2. \E l : UnsentFrom(intBuf', l, asked, sendStart)
    BY <1>1, <1>4, <1>5, <1>6, <2>1, FlushDataHolesUnsent
  <2>. QED
    BY <1>2, <1>6, <2>2
<1>7. ASSUME NEW newOutput \in NewOutputs, NEW k \in 0 .. Len(buf), NEW need, NEW sent,
             FlushSends(buf, newOutput, k, need, sent)
      PROVE  /\ ~ measured => asked' + intOutputLimit' <= LEOTP_SNDQ_MAX
             /\ state' = "up" => \E l : UnsentFrom(intBuf', l, asked', sendStart)
  <2>1. need = NeedSend(buf) \cap 1 .. k /\ IsSent(sent, buf, need)
        /\ asked' = Highest({asked} \cup {buf[i].end : i \in need})
    BY <1>7 DEF FlushSends
  <2>2. /\ asked' \in Nat /\ asked <= asked'
        /\ asked' - asked <= TotalSize(buf, need)
        /\ UnsentFrom(sent, Higher(m, k), asked', sendStart)
    <3>1. PICK n2 : n2 = asked'
      OBVIOUS
    <3>2. SendsUnsent(buf, asked, k, need, sent, n2)
      BY <2>1, <3>1 DEF SendsUnsent
    <3>4. /\ n2 \in Nat /\ asked <= n2
          /\ n2 - asked <= TotalSize(buf, need)
          /\ UnsentFrom(sent, Higher(m, k), n2, sendStart)
      BY <1>1, <1>4, <1>5, <3>2, SentUnsent
    <3>. QED
      BY <3>1, <3>4
  <2>3. ~ measured => asked' + intOutputLimit' <= LEOTP_SNDQ_MAX
    <3>. SUFFICES ASSUME ~ measured PROVE asked' + intOutputLimit' <= LEOTP_SNDQ_MAX
      OBVIOUS
    <3>1. PICK total \in Nat : total = TotalSize(buf, need)
      BY <1>4, SegsSized, TotalSizeType
    <3>2. PICK limit : limit = intOutputLimit + IF measured THEN newOutput ELSE 0
      OBVIOUS
    <3>3. limit = intOutputLimit
      BY <1>1, <3>2
    <3>4. intOutputLimit' = Rest(limit, buf, need)
      BY <1>7, <3>2 DEF FlushSends
    <3>5. intOutputLimit' = intOutputLimit - total
      BY <3>1, <3>3, <3>4 DEF Rest
    <3>6. PICK a \in Nat : a = asked' /\ a - asked <= total
      BY <2>2, <3>1
    <3>7. PICK b \in Nat, c \in Nat, d \in Nat : b = intOutputLimit /\ c = asked /\ d = LEOTP_SNDQ_MAX
      BY <1>1, <1>2
    <3>8. c + b <= d /\ a - c <= total
      BY <1>2, <3>6, <3>7
    <3>9. a + (b - total) <= d
      BY <3>1, <3>8
    <3>. QED
      BY <3>5, <3>6, <3>7, <3>9
  <2>4. ASSUME state' = "up"
        PROVE  \E l : UnsentFrom(intBuf', l, asked', sendStart)
    <3>1. FlushDataHoles(sent, RecutAll(dataHoles, Pick(buf, need), DeleteDataHole))
      BY <1>7, <2>4 DEF FlushSends
    <3>2. sent \in Seq(Ints(sendStart))
      BY <1>1, <1>4, <2>1, SentBytes
    <3>3. PICK rs \in Seq(Ints(sendStart)) : rs = Pick(buf, need)
      BY <1>4, PickType
    <3>4. Len(rs) \in Nat
          /\ \A i \in 1 .. Len(rs) : rs[i].start \in Nat /\ rs[i].end \in Nat /\ rs[i].start < rs[i].end
      <4>1. \A i \in 1 .. Len(rs) : rs[i] \in Ints(sendStart)
        OBVIOUS
      <4>. QED
        BY <4>1 DEF Ints
    <3>5. PICK holes : holes = RecutAll(dataHoles, rs, DeleteDataHole)
      OBVIOUS
    <3>6. holes \in SortedBelow(Gaps, dataNextRangeStart)
      BY <1>1, <3>4, <3>5, DeleteAllSorted
    <3>7. FlushDataHoles(sent, holes)
      BY <3>1, <3>3, <3>5
    <3>8. dataNextRangeStart \in 0 .. asked'
      BY <1>1, <2>2
    <3>. QED
      BY <1>1, <2>2, <3>2, <3>6, <3>7, <3>8, FlushDataHolesUnsent
  <2>. QED
    BY <2>3, <2>4
<1>. QED
  BY <1>3, <1>6, <1>7, FlushCases

LEMMA InitCreditInv == Init => CreditInv
<1>. SUFFICES ASSUME Init PROVE CreditInv
  OBVIOUS
<1>1. TypeInv
  BY InitTypeInv
<1>2. CreditKept
  BY RequesterAssumption DEF Init, CreditKept
<1>3. UnsentFrom(intBuf, 0, asked, UnsentEnd)
  <2>1. intBuf = <<>> /\ Len(intBuf) = 0 /\ asked = 0 /\ UnsentEnd = 0
    BY DEF Init, UnsentEnd
  <2>. QED
    BY <2>1 DEF UnsentFrom
<1>. QED
  BY <1>1, <1>2, <1>3 DEF CreditInv, UnsentKept

LEMMA NextCreditInv == CreditInv /\ [Next]_vars => CreditInv'
<1>. SUFFICES ASSUME CreditInv, [Next]_vars PROVE CreditInv'
  OBVIOUS
<1>1. TypeInv' /\ TypeInv /\ CreditKept /\ UnsentKept
  BY NextTypeInv DEF CreditInv
<1>2. sendStart \in Nat /\ asked \in 0 .. sendStart /\ asked \in Nat /\ intBuf \in Seq(Ints(sendStart))
      /\ intQueue \in Seq(Segs(sendStart))
  BY <1>1 DEF TypeInv, ByteInv, StreamInv, ListTypes, NumberTypes
<1>3. UNCHANGED <<measured, asked, intOutputLimit>> => CreditKept'
  BY <1>1 DEF CreditKept
<1>4. UNCHANGED <<state, intBuf, asked, intQueue, sendStart>> => UnsentKept'
  BY <1>1 DEF UnsentKept, Up, UnsentEnd
<1>5. CASE Request
  <2>1. UNCHANGED <<state, intBuf, asked, measured, intOutputLimit>>
    BY <1>5 DEF Request, histVars
  <2>2. UnsentEnd' = UnsentEnd
    <3>1. intQueue' = Append(intQueue, Seg(sendStart, sendStart + REQ_LEN))
      BY <1>5 DEF Request
    <3>2. intQueue' # <<>> /\ intQueue'[1] = IF intQueue = <<>> THEN Seg(sendStart, sendStart + REQ_LEN)
                                             ELSE intQueue[1]
      BY <1>2, <3>1
    <3>. QED
      BY <3>2 DEF UnsentEnd, Seg
  <2>3. UnsentKept'
    BY <1>1, <2>1, <2>2 DEF UnsentKept, Up
  <2>. QED
    BY <1>1, <1>3, <2>1, <2>3 DEF CreditInv
<1>6. CASE Input
  <2>1. PICK s \in 0 .. asked, e \in 0 .. asked :
          s < e /\ (InputData(Seg(s, e)) \/ InputHeader(Seg(s, e)))
    BY <1>6 DEF Input
  <2>2. PICK r : r = Seg(s, e)
    OBVIOUS
  <2>3. r.start \in Nat /\ r.end \in Nat /\ r.start < r.end /\ r.end <= asked
    BY <1>2, <2>1, <2>2 DEF Seg
  <2>4. CASE InputData(r)
    <3>1. Up /\ UNCHANGED <<state, intQueue, intOutputLimit, sendStart, asked>>
          /\ intBuf' = LeftOf(intBuf, r)
      BY <2>4 DEF InputData, appVars, histVars, LeftOf
    <3>2. measured' = measured \/ measured' = TRUE
      <4>1. measured \in BOOLEAN
        BY <1>1 DEF TypeInv, Limits
      <4>2. measured' \in {measured, measured \/ Completed(r) # {}}
        BY <2>4 DEF InputData
      <4>. QED
        BY <4>1, <4>2
    <3>3. CreditKept'
      BY <1>1, <3>1, <3>2 DEF CreditKept
    <3>4. PICK m : UnsentFrom(intBuf, m, asked, UnsentEnd)
      BY <1>1, <3>1 DEF UnsentKept
    <3>5. PICK l : UnsentFrom(LeftOf(intBuf, r), l, asked, UnsentEnd)
      BY <1>2, <2>3, <3>4, UnansweredUnsent
    <3>6. UnsentEnd' = UnsentEnd
      BY <3>1 DEF UnsentEnd
    <3>7. UnsentKept'
      BY <3>1, <3>5, <3>6 DEF UnsentKept
    <3>. QED
      BY <1>1, <3>3, <3>7 DEF CreditInv
  <2>5. CASE InputHeader(r)
    BY <1>1, <1>3, <1>4, <2>5 DEF CreditInv, InputHeader, intVars, appVars, histVars
  <2>. QED
    BY <2>1, <2>2, <2>4, <2>5
<1>7. CASE Recv
  BY <1>1, <1>3, <1>4, <1>7 DEF CreditInv, Recv, intVars, histVars
<1>8. ASSUME NEW clear \in BOOLEAN, Update(clear)
      PROVE  CreditInv'
  <2>1. Flush /\ Up /\ measured' = measured /\ sendStart' = sendStart
    BY <1>8 DEF Update, UpdateAdding, Flush, appVars
  <2>2. intQueue' = <<>>
    BY <2>1 DEF Flush, FlushAdding
  <2>3. UnsentEnd' = sendStart
    BY <2>1, <2>2 DEF UnsentEnd
  <2>4. CreditKept' /\ UnsentKept'
    BY <2>1, <2>3, FlushCredit DEF CreditKept, UnsentKept, Up
  <2>. QED
    BY <1>1, <2>4 DEF CreditInv
<1>9. CASE InterestTimeout
  <2>1. UNCHANGED <<state, intQueue, measured, intOutputLimit, sendStart, asked>>
    BY <1>9 DEF InterestTimeout, appVars, histVars
  <2>2. PICK i \in 1 .. Len(intBuf) : intBuf' = [intBuf EXCEPT ![i].late = TRUE]
    BY <1>9 DEF InterestTimeout
  <2>3. Len(intBuf') = Len(intBuf) /\ Len(intBuf) \in Nat
        /\ \A j \in 1 .. Len(intBuf) : /\ intBuf'[j].start = intBuf[j].start
                                       /\ intBuf'[j].end = intBuf[j].end
                                       /\ intBuf'[j].xmit = intBuf[j].xmit
    <3>1. Len(intBuf') = Len(intBuf) /\ Len(intBuf) \in Nat
      BY <1>2, <2>2
    <3>2. ASSUME NEW j \in 1 .. Len(intBuf)
          PROVE  /\ intBuf'[j].start = intBuf[j].start
                 /\ intBuf'[j].end = intBuf[j].end
                 /\ intBuf'[j].xmit = intBuf[j].xmit
      <4>1. intBuf[j] \in Ints(sendStart)
        BY <1>2
      <4>2. intBuf'[j] = IF j = i THEN [intBuf[i] EXCEPT !.late = TRUE] ELSE intBuf[j]
        BY <1>2, <2>2
      <4>. QED
        BY <4>1, <4>2 DEF Ints
    <3>. QED
      BY <3>1, <3>2
  <2>4. UnsentEnd' = UnsentEnd
    BY <2>1 DEF UnsentEnd
  <2>5. UnsentKept'
    <3>. SUFFICES ASSUME Up PROVE \E m : UnsentFrom(intBuf', m, asked, UnsentEnd)
      BY <2>1, <2>4 DEF UnsentKept, Up
    <3>1. PICK m : UnsentFrom(intBuf, m, asked, UnsentEnd)
      BY <1>1 DEF UnsentKept
    <3>2. m \in 0 .. Len(intBuf)
      BY <3>1 DEF UnsentFrom
    <3>3. \A j \in m + 1 .. Len(intBuf) : j \in 1 .. Len(intBuf) /\ (j # m + 1 => j - 1 \in 1 .. Len(intBuf))
      BY <2>3, <3>2
    <3>4. \A j \in 1 .. m : j \in 1 .. Len(intBuf)
      BY <2>3, <3>2
    <3>5. m # Len(intBuf) => Len(intBuf) \in 1 .. Len(intBuf)
      BY <2>3, <3>2
    <3>6. PICK buf : buf = intBuf'
      OBVIOUS
    <3>7. Len(buf) = Len(intBuf)
          /\ \A j \in 1 .. Len(intBuf) : /\ buf[j].start = intBuf[j].start
                                         /\ buf[j].end = intBuf[j].end
                                         /\ buf[j].xmit = intBuf[j].xmit
      BY <2>3, <3>6
    <3>8. \A j \in 1 .. m : buf[j].end <= asked
      BY <3>1, <3>4, <3>7 DEF UnsentFrom
    <3>9. ASSUME NEW j \in m + 1 .. Len(intBuf)
          PROVE  buf[j].xmit = 0 /\ buf[j].start = IF j = m + 1 THEN asked ELSE buf[j - 1].end
      <4>1. intBuf[j].xmit = 0 /\ intBuf[j].start = IF j = m + 1 THEN asked ELSE intBuf[j - 1].end
        BY <3>1 DEF UnsentFrom
      <4>. QED
        BY <3>3, <3>7, <4>1
    <3>10. UnsentEnd = IF m = Len(intBuf) THEN asked ELSE buf[Len(intBuf)].end
      BY <3>1, <3>5, <3>7 DEF UnsentFrom
    <3>11. UnsentFrom(buf, m, asked, UnsentEnd)
      BY <3>2, <3>7, <3>8, <3>9, <3>10 DEF UnsentFrom
    <3>. QED
      BY <3>6, <3>11
  <2>. QED
    BY <1>1, <1>3, <2>1, <2>5 DEF CreditInv
<1>10. CASE HoleAges
  BY <1>1, <1>3, <1>4, <1>10 DEF CreditInv, HoleAges, intVars, appVars, histVars
<1>11. CASE UNCHANGED vars
  BY <1>1, <1>3, <1>4, <1>11 DEF CreditInv, vars, intVars, appVars, histVars
<1>. QED
  BY <1>5, <1>6, <1>7, <1>8, <1>9, <1>10, <1>11 DEF Next

-----------------------------------------------------------------------------
(* The runs of rcvBufItrs.                                                 *)

(* Two sets that together have as many members as their bounds allow share *)
(* none.                                                                   *)
LEMMA FullUnion ==
  ASSUME NEW S, NEW T, NEW m, NEW n, AtMost(S, m), AtMost(T, n), Cardinality(S \cup T) = m + n
  PROVE  S \cap T = {} /\ Cardinality(S) = m /\ Cardinality(T) = n
<1>1. /\ IsFiniteSet(S \cup T) /\ IsFiniteSet(S \cap T)
      /\ Cardinality(S \cup T) = Cardinality(S) + Cardinality(T) - Cardinality(S \cap T)
  BY FS_Union, FS_Intersection DEF AtMost
<1>2. PICK a \in Nat, b \in Nat, c \in Nat :
        a = Cardinality(S) /\ b = Cardinality(T) /\ c = Cardinality(S \cap T)
  BY <1>1, FS_CardinalityType DEF AtMost
<1>3. m \in Nat /\ n \in Nat /\ a <= m /\ b <= n
  BY <1>2 DEF AtMost
<1>4. a + b - c = m + n
  BY <1>1, <1>2
<1>5. a = m /\ b = n /\ c = 0
  BY <1>3, <1>4
<1>. QED
  BY <1>1, <1>2, <1>5, FS_EmptySet

(* The ranges of a list that covers as many bytes as it counts are         *)
(* disjoint.                                                               *)
LEMMA FullList ==
  ASSUME NEW T, Sized(T), NEW s \in Seq(T), Cardinality(Covered(s)) = Amount(s)
  PROVE  \A i, j \in 1 .. Len(s) : i < j => Span(s[i]) \cap Span(s[j]) = {}
<1>. SUFFICES ASSUME NEW i \in 1 .. Len(s), NEW j \in 1 .. Len(s), i < j
              PROVE  Span(s[i]) \cap Span(s[j]) = {}
  OBVIOUS
<1>1. PICK a : a = SubSeq(s, 1, i)
  OBVIOUS
<1>2. PICK b : b = SubSeq(s, i + 1, Len(s))
  OBVIOUS
<1>3. i \in 0 .. Len(s) /\ Len(s) \in Nat
  OBVIOUS
<1>4. /\ a \in Seq(T) /\ b \in Seq(T)
      /\ Amount(a) + Amount(b) = Amount(s) /\ Covered(a) \cup Covered(b) = Covered(s)
  BY <1>1, <1>2, <1>3, CutInTwo
<1>5. AtMost(Covered(a), Amount(a)) /\ AtMost(Covered(b), Amount(b))
  BY <1>4, CoveredAtMost, AmountType DEF AtMost
<1>6. Covered(a) \cap Covered(b) = {}
  BY <1>4, <1>5, FullUnion
<1>7. i \in 1 .. Len(a) /\ a[i] = s[i]
  BY <1>1, <1>3
<1>8. j - i \in 1 .. Len(b) /\ b[j - i] = s[j]
  BY <1>2, <1>3
<1>9. Span(s[i]) \subseteq Covered(a)
  BY <1>7 DEF Covered
<1>10. Span(s[j]) \subseteq Covered(b)
  BY <1>8 DEF Covered
<1>. QED
  BY <1>6, <1>9, <1>10

(* Some of the bytes of intBuf, got, are about to go to rcvBuf, and stay   *)
(* does not.                                                               *)
Taken(stay, got) ==
  /\ stay \in Seq(Ints(sendStart)) /\ got \in Seq(Ints(sendStart))
  /\ Amount(stay) + Amount(got) = Amount(intBuf)
  /\ Covered(stay) \cup Covered(got) = Covered(intBuf)

(* rcvQueue and what was handed over are the bytes below rcvNxt.           *)
LEMMA BelowNxt ==
  ASSUME StreamInv
  PROVE  /\ Covered(rcvQueue) \cup 0 .. lastRead.end - 1 = 0 .. rcvNxt - 1
         /\ Amount(rcvQueue) + lastRead.end = rcvNxt
<1>1. /\ rcvQueue \in Seq(Segs(sendStart)) /\ lastRead.end \in Nat /\ rcvNxt \in Nat
      /\ Sized(Segs(sendStart)) /\ QueueInOrder
  BY SegsSized DEF StreamInv, ListTypes, NumberTypes
<1>2. CASE rcvQueue = <<>>
  BY <1>1, <1>2, AmountNone, CoveredNone DEF QueueInOrder
<1>3. CASE rcvQueue # <<>>
  <2>1. IsChain(rcvQueue, lastRead.end, rcvNxt)
    BY <1>1, <1>3 DEF IsChain, QueueInOrder, Sized
  <2>2. lastRead.end < rcvNxt /\ Amount(rcvQueue) = rcvNxt - lastRead.end
        /\ Covered(rcvQueue) = lastRead.end .. rcvNxt - 1
    BY <2>1, ChainBytes
  <2>. QED
    BY <1>1, <2>2
<1>. QED
  BY <1>2, <1>3

(* The bytes of rcvBuf, and those about to join them, are disjoint and     *)
(* none of them is below rcvNxt: otherwise the lists would cover fewer     *)
(* bytes than were requested.                                              *)
LEMMA BufApart ==
  ASSUME ByteInv, NEW stay, NEW got, Taken(stay, got), NEW all, all = rcvBuf \o got
  PROVE  /\ \A i, j \in 1 .. Len(all) : i < j => Span(all[i]) \cap Span(all[j]) = {}
         /\ Covered(all) \cap 0 .. rcvNxt - 1 = {}
<1>. DEFINE n == sendStart
            T == Segs(n) \cup Ints(n)
            rest == (Covered(intQueue) \cup Covered(stay)) \cup dropped
<1>1. StreamInv /\ IsFiniteSet(dropped)
  BY DEF ByteInv
<1>2. /\ n \in Nat /\ intQueue \in Seq(Segs(n)) /\ rcvBuf \in Seq(Segs(n)) /\ rcvQueue \in Seq(Segs(n))
      /\ rcvNxt \in Nat /\ Sized(Segs(n)) /\ Sized(Ints(n))
      /\ stay \in Seq(Ints(n)) /\ got \in Seq(Ints(n))
  BY <1>1, SegsSized DEF StreamInv, ListTypes, NumberTypes, Taken
<1>3. Sized(T) /\ rcvBuf \in Seq(T) /\ got \in Seq(T) /\ all \in Seq(T)
  BY <1>2 DEF Sized
<1>4. Amount(all) = Amount(rcvBuf) + Amount(got) /\ Covered(all) = Covered(rcvBuf) \cup Covered(got)
  BY <1>3, AmountJoin, CoveredJoin
<1>5. PICK a \in Nat, b \in Nat, c \in Nat, d \in Nat, e \in Nat, f \in Nat :
        /\ a = Amount(intQueue) /\ b = Amount(intBuf) /\ c = Amount(rcvBuf)
        /\ d = Amount(rcvQueue) /\ e = Cardinality(dropped) /\ f = lastRead.end
  BY <1>1, AmountTypes
<1>6. PICK b1 \in Nat, g \in Nat : b1 = Amount(stay) /\ g = Amount(got)
  BY <1>2, AmountType
<1>7. b1 + g = b /\ Amount(all) = c + g
  BY <1>4, <1>5, <1>6 DEF Taken
<1>8. AtMost(Covered(all), c + g)
  <2>1. /\ IsFiniteSet(Covered(all)) /\ Cardinality(Covered(all)) \in Nat
        /\ Cardinality(Covered(all)) <= Amount(all)
    <3>. HIDE DEF T
    <3>. QED
      BY <1>3, CoveredAtMost
  <2>. QED
    <3>1. PICK q \in Nat : q = c + g
      OBVIOUS
    <3>2. Amount(all) = q
      BY <1>7, <3>1
    <3>3. AtMost(Covered(all), q)
      BY <2>1, <3>2 DEF AtMost
    <3>. QED
      BY <3>1, <3>3
<1>9. AtMost(Covered(intQueue), a)
  BY <1>2, <1>5, CoveredAtMost DEF AtMost
<1>10. AtMost(Covered(stay), b1)
  BY <1>2, <1>6, CoveredAtMost DEF AtMost
<1>11. AtMost(dropped, e)
  BY <1>1, <1>5 DEF AtMost
<1>12. AtMost(0 .. rcvNxt - 1, rcvNxt)
  <2>1. PICK l \in Int, m \in Int : l = 0 /\ m = rcvNxt - 1
    BY <1>2
  <2>2. IsFiniteSet(l .. m) /\ Cardinality(l .. m) = IF l > m THEN 0 ELSE m - l + 1
    BY FS_Interval
  <2>. QED
    BY <1>2, <2>1, <2>2 DEF AtMost
<1>13. AtMost(rest, (a + b1) + e)
  BY <1>9, <1>10, <1>11, UnionAtMost
<1>14. AtMost(rest \cup 0 .. rcvNxt - 1, ((a + b1) + e) + rcvNxt)
  BY <1>12, <1>13, UnionAtMost
<1>15. d + f = rcvNxt /\ Covered(rcvQueue) \cup 0 .. f - 1 = 0 .. rcvNxt - 1
  BY <1>1, <1>5, BelowNxt
<1>16. Covered(all) \cup (rest \cup 0 .. rcvNxt - 1) = 0 .. n - 1
  BY <1>4, <1>5, <1>15 DEF ByteInv, Everywhere, Outstanding, Taken
<1>17. Cardinality(0 .. n - 1) = n
  <2>1. Cardinality(0 .. n - 1) = IF 0 > n - 1 THEN 0 ELSE (n - 1) - 0 + 1
    BY <1>2, FS_Interval
  <2>. QED
    BY <1>2, <2>1
<1>18. (c + g) + (((a + b1) + e) + rcvNxt) = n
  <2>1. a + b + c + d + e + f = n
    BY <1>5 DEF ByteInv, Total
  <2>. QED
    BY <1>2, <1>7, <1>15, <2>1
<1>. HIDE DEF rest, n, T
<1>19. Covered(all) \cap (rest \cup 0 .. rcvNxt - 1) = {} /\ Cardinality(Covered(all)) = c + g
  <2>1. PICK R : R = rest \cup 0 .. rcvNxt - 1
    OBVIOUS
  <2>2. PICK q : q = ((a + b1) + e) + rcvNxt
    OBVIOUS
  <2>3. AtMost(R, q) /\ Cardinality(Covered(all) \cup R) = (c + g) + q
    BY <1>14, <1>16, <1>17, <1>18, <2>1, <2>2
  <2>. QED
    BY <1>8, <2>1, <2>3, FullUnion, ZenonT(60)
<1>20. Cardinality(Covered(all)) = Amount(all)
  BY <1>7, <1>19
<1>. QED
  BY <1>3, <1>19, <1>20, FullList

(* All of rcvBuf is at or behind rcvNxt.                                   *)
BufAhead == Covered(rcvBuf) \cap 0 .. rcvNxt - 1 = {}

LEMMA BufIsAhead == ByteInv => BufAhead
<1>. SUFFICES ASSUME ByteInv PROVE BufAhead
  OBVIOUS
<1>1. intBuf \in Seq(Ints(sendStart)) /\ Sized(Ints(sendStart)) /\ rcvBuf \in Seq(Segs(sendStart))
  BY SegsSized DEF ByteInv, StreamInv, ListTypes, NumberTypes
<1>2. Amount(intBuf) \in Nat /\ Amount(<<>>) = 0 /\ Covered(<<>>) = {}
  BY <1>1, AmountType, AmountNone, CoveredNone
<1>3. Taken(intBuf, <<>>)
  <2>1. <<>> \in Seq(Ints(sendStart))
    OBVIOUS
  <2>. QED
    BY <1>1, <1>2, <2>1 DEF Taken
<1>4. rcvBuf \o <<>> = rcvBuf
  BY <1>1
<1>. QED
  BY <1>3, <1>4, BufApart DEF BufAhead

(* The run r is at or behind next; if behind, its iterator is valid.       *)
RunIn(r, buf, next) ==
  /\ next <= r.start /\ r.start < r.end
  /\ r.start > next => \E x \in Elements(buf) : x.start = r.itr /\ Span(x) \subseteq Span(r)

Spaced(itrs) == \A i, j \in 1 .. Len(itrs) : i < j => itrs[i].end < itrs[j].start

(* itrs has the runs of buf, of which all is at or behind next.            *)
RunsOf(buf, itrs, next) ==
  /\ Covered(itrs) = Covered(buf)
  /\ \A i \in 1 .. Len(itrs) : RunIn(itrs[i], buf, next)
  /\ Spaced(itrs)

RunsInv == RunsOf(rcvBuf, rcvBufItrs, rcvNxt)

LEMMA RunsInvSays == StreamInv /\ RunsInv => RunsDescribeBuf
<1>. SUFFICES ASSUME StreamInv, RunsInv PROVE RunsDescribeBuf
  OBVIOUS
<1>1. Len(rcvBufItrs) \in Nat
  BY DEF StreamInv, ListTypes
<1>2. Covered(rcvBufItrs) = Covered(rcvBuf)
  BY DEF RunsInv, RunsOf
<1>3. ASSUME NEW i \in 1 .. Len(rcvBufItrs) - 1
      PROVE  rcvBufItrs[i].end < rcvBufItrs[i + 1].start
  <2>1. i \in 1 .. Len(rcvBufItrs) /\ i + 1 \in 1 .. Len(rcvBufItrs) /\ i < i + 1
    BY <1>1
  <2>. QED
    BY <2>1 DEF RunsInv, RunsOf, Spaced
<1>4. ASSUME NEW i \in 1 .. Len(rcvBufItrs), rcvBufItrs[i].start > rcvNxt
      PROVE  \E j \in 1 .. Len(rcvBuf) : /\ rcvBuf[j].start = rcvBufItrs[i].itr
                                         /\ Span(rcvBuf[j]) \subseteq Span(rcvBufItrs[i])
  <2>1. RunIn(rcvBufItrs[i], rcvBuf, rcvNxt)
    BY DEF RunsInv, RunsOf
  <2>2. PICK x \in Elements(rcvBuf) : x.start = rcvBufItrs[i].itr /\ Span(x) \subseteq Span(rcvBufItrs[i])
    BY <1>4, <2>1 DEF RunIn
  <2>. QED
    BY <2>2 DEF Elements
<1>. QED
  BY <1>2, <1>3, <1>4 DEF RunsDescribeBuf

LEMMA SpanJoin ==
  ASSUME NEW x, NEW y, NEW z, x.start \in Nat, x.end \in Nat, y.end \in Nat, x.start <= x.end,
         x.end = y.start, y.start <= y.end, z.start = x.start, z.end = y.end
  PROVE  Span(z) = Span(x) \cup Span(y) /\ Span(y) \subseteq Span(z)
<1>1. PICK a \in Nat, b \in Nat, c \in Nat : a = x.start /\ b = x.end /\ c = y.end
  OBVIOUS
<1>2. a .. c - 1 = (a .. b - 1) \cup (b .. c - 1)
  BY <1>1
<1>. QED
  BY <1>1, <1>2 DEF Span

(* A run may grow, and so may rcvBuf.                                      *)
LEMMA RunGrows ==
  ASSUME NEW n \in Nat, NEW r \in Runs(n), NEW t \in Runs(n), NEW buf, NEW more, NEW next \in Nat,
         RunIn(r, buf, next), Elements(buf) \subseteq Elements(more),
         t.itr = r.itr, next <= t.start, t.start <= r.start, r.end <= t.end
  PROVE  RunIn(t, more, next)
<1>1. /\ r.start \in Nat /\ r.end \in Nat /\ t.start \in Nat /\ t.end \in Nat
  BY DEF Runs
<1>2. t.start < t.end
  BY <1>1 DEF RunIn
<1>3. Span(r) \subseteq Span(t)
  BY <1>1 DEF Span
<1>4. ASSUME t.start > next
      PROVE  \E x \in Elements(more) : x.start = t.itr /\ Span(x) \subseteq Span(t)
  <2>1. r.start > next
    BY <1>1, <1>4
  <2>2. PICK x \in Elements(buf) : x.start = r.itr /\ Span(x) \subseteq Span(r)
    BY <2>1 DEF RunIn
  <2>. QED
    BY <1>3, <2>2
<1>. QED
  BY <1>2, <1>4 DEF RunIn

(* Where a piece goes.                                                     *)
LEMMA NextRunIs ==
  ASSUME NEW itrs, Len(itrs) \in Nat, NEW p, NEW n, n = NextRun(itrs, p)
  PROVE  /\ n \in 1 .. Len(itrs) + 1
         /\ n <= Len(itrs) => itrs[n].start >= p.end
         /\ \A j \in 1 .. n - 1 : ~ (itrs[j].start >= p.end)
<1>. DEFINE S == {k \in 1 .. Len(itrs) + 1 : k <= Len(itrs) => itrs[k].start >= p.end}
<1>1. S \subseteq 1 .. Len(itrs) + 1 /\ Len(itrs) + 1 \in S /\ S \subseteq Nat /\ S # {}
  OBVIOUS
<1>2. n = First(S)
  BY DEF NextRun
<1>3. n \in 1 .. Len(itrs) + 1 /\ n \in S /\ \A j \in S : n <= j
  <2>. HIDE DEF S
  <2>. QED
    BY <1>1, <1>2, FirstIsLeast
<1>4. ASSUME NEW j \in 1 .. n - 1, itrs[j].start >= p.end PROVE FALSE
  <2>1. j \in 1 .. Len(itrs) /\ j < n
    BY <1>3
  <2>2. j \in S
    BY <1>4, <2>1
  <2>. QED
    BY <1>3, <2>1, <2>2
<1>. QED
  BY <1>3, <1>4

LEMMA JoinIs ==
  ASSUME NEW T, NEW a \in Seq(T), NEW b \in Seq(T), NEW t, t = a \o b
  PROVE  /\ Len(t) = Len(a) + Len(b)
         /\ \A i \in 1 .. Len(a) + Len(b) : t[i] = IF i <= Len(a) THEN a[i] ELSE b[i - Len(a)]
<1>1. Len(a \o b) = Len(a) + Len(b)
  OBVIOUS
<1>2. ASSUME NEW i \in 1 .. Len(a) + Len(b)
      PROVE  (a \o b)[i] = IF i <= Len(a) THEN a[i] ELSE b[i - Len(a)]
  OBVIOUS
<1>. QED
  BY <1>1, <1>2, Zenon

LEMMA InsertBeforeIs ==
  ASSUME NEW T, NEW s \in Seq(T), NEW k \in 1 .. Len(s) + 1, NEW x, NEW t, t = InsertBefore(s, k, x)
  PROVE  /\ Len(t) = Len(s) + 1
         /\ \A i \in 1 .. Len(s) + 1 : t[i] = IF i < k THEN s[i] ELSE IF i = k THEN x ELSE s[i - 1]
<1>1. Len(s) \in Nat
  OBVIOUS
<1>. DEFINE a == SubSeq(s, 1, k - 1)
            b == SubSeq(s, k, Len(s))
<1>2. /\ a \in Seq(T) /\ Len(a) = k - 1 /\ \A i \in 1 .. k - 1 : a[i] = s[i]
  BY <1>1
<1>3. /\ b \in Seq(T) /\ Len(b) = Len(s) - k + 1 /\ \A i \in 1 .. Len(s) - k + 1 : b[i] = s[k + i - 1]
  BY <1>1
<1>4. t = (a \o <<x>>) \o b
  BY DEF InsertBefore
<1>. HIDE DEF a, b
<1>5. PICK c : c = a \o <<x>>
  OBVIOUS
<1>6. c \in Seq(T \cup {x}) /\ Len(c) = k /\ (\A i \in 1 .. k - 1 : c[i] = s[i]) /\ c[k] = x
  BY <1>1, <1>2, <1>5
<1>7. b \in Seq(T \cup {x}) /\ t = c \o b
  BY <1>3, <1>4, <1>5
<1>8. Len(t) = Len(c) + Len(b) /\ \A i \in 1 .. Len(c) + Len(b) : t[i] = IF i <= Len(c) THEN c[i] ELSE b[i - Len(c)]
  <2>1. c \in Seq(T \cup {x}) /\ b \in Seq(T \cup {x})
    BY ONLY <1>6, <1>7, Zenon
  <2>. QED
    BY ONLY <1>7, <2>1, JoinIs, ZenonT(60)
<1>9. Len(c) + Len(b) = Len(s) + 1
  BY <1>1, <1>3, <1>6
<1>10. ASSUME NEW i \in 1 .. Len(s) + 1
      PROVE  t[i] = IF i < k THEN s[i] ELSE IF i = k THEN x ELSE s[i - 1]
  <2>1. CASE i <= k
    BY <1>6, <1>8, <1>9, <2>1
  <2>2. CASE i > k
    <3>1. i - k \in 1 .. Len(s) - k + 1 /\ k + (i - k) - 1 = i - 1
      BY <1>1, <2>2
    <3>2. b[i - k] = s[i - 1]
      BY <1>3, <3>1
    <3>3. t[i] = b[i - k]
      BY <1>6, <1>8, <1>9, <2>2
    <3>. QED
      BY <2>2, <3>2, <3>3
  <2>. QED
    BY <1>1, <2>1, <2>2
<1>. QED
  BY <1>8, <1>9, <1>10

LEMMA RemoveFromIs ==
  ASSUME NEW T, NEW s \in Seq(T), NEW k \in 1 .. Len(s), NEW t, t = RemoveFrom(s, k)
  PROVE  /\ Len(t) = Len(s) - 1
         /\ \A i \in 1 .. Len(s) - 1 : t[i] = IF i < k THEN s[i] ELSE s[i + 1]
<1>1. Len(s) \in Nat
  OBVIOUS
<1>. DEFINE a == SubSeq(s, 1, k - 1)
            b == SubSeq(s, k + 1, Len(s))
<1>2. /\ a \in Seq(T) /\ Len(a) = k - 1 /\ \A i \in 1 .. k - 1 : a[i] = s[i]
  BY <1>1
<1>3. /\ b \in Seq(T) /\ Len(b) = Len(s) - k /\ \A i \in 1 .. Len(s) - k : b[i] = s[k + i]
  BY <1>1
<1>4. t = a \o b
  BY DEF RemoveFrom
<1>. HIDE DEF a, b
<1>5. Len(t) = Len(a) + Len(b) /\ \A i \in 1 .. Len(a) + Len(b) : t[i] = IF i <= Len(a) THEN a[i] ELSE b[i - Len(a)]
  <2>1. a \in Seq(T) /\ b \in Seq(T)
    BY ONLY <1>2, <1>3, Zenon
  <2>. QED
    BY ONLY <1>4, <2>1, JoinIs, Zenon
<1>6. Len(a) + Len(b) = Len(s) - 1
  BY <1>1, <1>2, <1>3
<1>7. ASSUME NEW i \in 1 .. Len(s) - 1
      PROVE  t[i] = IF i < k THEN s[i] ELSE s[i + 1]
  <2>1. CASE i < k
    <3>1. i <= Len(a) /\ i \in 1 .. k - 1
      BY <1>1, <1>2, <2>1
    <3>. QED
      BY <1>2, <1>5, <1>6, <2>1, <3>1
  <2>2. CASE i >= k
    <3>1. i - (k - 1) \in 1 .. Len(s) - k /\ k + (i - (k - 1)) = i + 1
      BY <1>1, <2>2
    <3>2. b[i - (k - 1)] = s[i + 1]
      BY <1>3, <3>1
    <3>3. t[i] = b[i - (k - 1)]
      BY <1>1, <1>2, <1>5, <1>6, <2>2
    <3>. QED
      BY <2>2, <3>2, <3>3
  <2>. QED
    BY <1>1, <2>1, <2>2
<1>. QED
  BY <1>5, <1>6, <1>7

(* The iterator of a run says where rcvBuf gets the piece, and no piece is *)
(* lost on the way.                                                        *)
LEMMA BufWithElements ==
  ASSUME NEW T, NEW buf \in Seq(T), NEW itrs, NEW p \in T
  PROVE  Elements(BufWith(buf, itrs, p)) = Elements(buf) \cup {p}
<1>. DEFINE n == NextRun(itrs, p)
            i == Target(buf, itrs[n].itr)
<1>1. i \in 1 .. Len(buf) + 1
  <2>. DEFINE S == {k \in 1 .. Len(buf) + 1 : k <= Len(buf) => buf[k].start = itrs[n].itr}
  <2>1. Len(buf) \in Nat /\ S \subseteq 1 .. Len(buf) + 1 /\ Len(buf) + 1 \in S
    OBVIOUS
  <2>2. i = First(S)
    BY DEF Target
  <2>. HIDE DEF S, i
  <2>. QED
    BY <2>1, <2>2, SearchStops
<1>2. PICK t : t = BufWith(buf, itrs, p)
  OBVIOUS
<1>3. t = IF n > Len(itrs) THEN Append(buf, p) ELSE InsertBefore(buf, i, p)
  BY <1>2 DEF BufWith
<1>. HIDE DEF n, i
<1>4. \E k \in 1 .. Len(buf) + 1 :
        /\ Len(t) = Len(buf) + 1
        /\ \A j \in 1 .. Len(buf) + 1 : t[j] = IF j < k THEN buf[j] ELSE IF j = k THEN p ELSE buf[j - 1]
  <2>1. CASE n > Len(itrs)
    <3>1. t = Append(buf, p)
      BY <1>3, <2>1
    <3>2. Len(buf) \in Nat /\ Len(t) = Len(buf) + 1 /\ t[Len(buf) + 1] = p
          /\ \A j \in 1 .. Len(buf) : t[j] = buf[j]
      BY <3>1
    <3>3. PICK k : k = Len(buf) + 1
      OBVIOUS
    <3>4. ASSUME NEW j \in 1 .. Len(buf) + 1
          PROVE  t[j] = IF j < k THEN buf[j] ELSE IF j = k THEN p ELSE buf[j - 1]
      <4>1. CASE j = k
        BY <3>2, <3>3, <4>1
      <4>2. CASE j # k
        <5>1. j < k /\ j \in 1 .. Len(buf)
          BY <3>2, <3>3, <4>2
        <5>. QED
          BY <3>2, <5>1
      <4>. QED
        BY <4>1, <4>2
    <3>5. k \in 1 .. Len(buf) + 1
      BY <3>2, <3>3
    <3>. QED
      BY <3>2, <3>4, <3>5
  <2>2. CASE ~ (n > Len(itrs))
    <3>1. t = InsertBefore(buf, i, p)
      BY <1>3, <2>2
    <3>. QED
      BY <1>1, <3>1, InsertBeforeIs, SMTT(60)
  <2>. QED
    BY <2>1, <2>2
<1>5. PICK k \in 1 .. Len(buf) + 1 :
        /\ Len(t) = Len(buf) + 1
        /\ \A j \in 1 .. Len(buf) + 1 : t[j] = IF j < k THEN buf[j] ELSE IF j = k THEN p ELSE buf[j - 1]
  BY <1>4
<1>6. Len(buf) \in Nat
  OBVIOUS
<1>7. ASSUME NEW j \in 1 .. Len(t) PROVE t[j] \in Elements(buf) \cup {p}
  <2>1. CASE j < k
    <3>1. j \in 1 .. Len(buf) /\ t[j] = buf[j]
      BY <1>5, <1>6, <2>1
    <3>. QED
      BY <3>1 DEF Elements
  <2>2. CASE j = k
    BY <1>5, <2>2
  <2>3. CASE j > k
    <3>1. j - 1 \in 1 .. Len(buf) /\ t[j] = buf[j - 1]
      BY <1>5, <1>6, <2>3
    <3>. QED
      BY <3>1 DEF Elements
  <2>. QED
    BY <1>5, <1>6, <2>1, <2>2, <2>3
<1>8. ASSUME NEW j \in 1 .. Len(buf) PROVE buf[j] \in Elements(t)
  <2>1. CASE j < k
    <3>1. j \in 1 .. Len(t) /\ t[j] = buf[j]
      BY <1>5, <1>6, <2>1
    <3>. QED
      BY <3>1 DEF Elements
  <2>2. CASE j >= k
    <3>1. j + 1 \in 1 .. Len(t) /\ t[j + 1] = buf[j]
      BY <1>5, <1>6, <2>2
    <3>. QED
      BY <3>1 DEF Elements
  <2>. QED
    BY <1>6, <2>1, <2>2
<1>9. p \in Elements(t)
  <2>1. k \in 1 .. Len(t) /\ t[k] = p
    BY <1>5, <1>6
  <2>. QED
    BY <2>1 DEF Elements
<1>10. Elements(t) \subseteq Elements(buf) \cup {p}
  BY <1>7 DEF Elements
<1>11. Elements(buf) \subseteq Elements(t)
  <2>. SUFFICES ASSUME NEW x \in Elements(buf) PROVE x \in Elements(t)
    OBVIOUS
  <2>1. PICK j \in 1 .. Len(buf) : x = buf[j]
    BY DEF Elements
  <2>. QED
    BY <1>8, <2>1
<1>. QED
  BY <1>2, <1>9, <1>10, <1>11

(* One run of the list grows by the bytes X.                               *)
GrowsBy(s, t, k, X) ==
  /\ Len(t) = Len(s) /\ k \in 1 .. Len(s)
  /\ \A i \in 1 .. Len(s) : i # k => t[i] = s[i]
  /\ Span(t[k]) = Span(s[k]) \cup X

LEMMA CoveredGrows ==
  ASSUME NEW s, NEW t, NEW k, NEW X, GrowsBy(s, t, k, X)
  PROVE  Covered(t) = Covered(s) \cup X
<1>. USE DEF GrowsBy
<1>1. ASSUME NEW b \in Covered(t) PROVE b \in Covered(s) \cup X
  <2>1. PICK i \in 1 .. Len(s) : b \in Span(t[i])
    BY DEF Covered
  <2>. QED
    BY <2>1 DEF Covered
<1>2. ASSUME NEW b \in Covered(s) PROVE b \in Covered(t)
  <2>1. PICK i \in 1 .. Len(s) : b \in Span(s[i])
    BY DEF Covered
  <2>2. b \in Span(t[i])
    BY <2>1
  <2>. QED
    BY <2>2 DEF Covered
<1>3. X \subseteq Covered(t)
  BY DEF Covered
<1>. QED
  BY <1>1, <1>2, <1>3

(* A run that lies in the one before it may go.                            *)
LEMMA CoveredWithout ==
  ASSUME NEW T, NEW s \in Seq(T), NEW k \in 2 .. Len(s), Span(s[k]) \subseteq Span(s[k - 1]),
         NEW t, t = RemoveFrom(s, k)
  PROVE  Covered(t) = Covered(s)
<1>1. k \in 1 .. Len(s) /\ k - 1 \in 1 .. Len(s) - 1 /\ k - 1 < k /\ Len(s) \in Nat
  OBVIOUS
<1>2. /\ Len(t) = Len(s) - 1
      /\ \A i \in 1 .. Len(s) - 1 : t[i] = IF i < k THEN s[i] ELSE s[i + 1]
  BY <1>1, RemoveFromIs
<1>3. ASSUME NEW b \in Covered(t) PROVE b \in Covered(s)
  <2>1. PICK i \in 1 .. Len(s) - 1 : b \in Span(t[i])
    BY <1>2 DEF Covered
  <2>2. PICK j \in 1 .. Len(s) : t[i] = s[j]
    <3>1. i \in 1 .. Len(s) /\ i + 1 \in 1 .. Len(s)
      BY <1>1
    <3>. QED
      BY <1>2, <3>1
  <2>. QED
    BY <2>1, <2>2 DEF Covered
<1>4. ASSUME NEW b \in Covered(s) PROVE b \in Covered(t)
  <2>1. PICK i \in 1 .. Len(s) : b \in Span(s[i])
    BY DEF Covered
  <2>2. \E j \in 1 .. Len(s) - 1 : b \in Span(t[j])
    <3>1. CASE i < k
      <4>1. i \in 1 .. Len(s) - 1
        BY <1>1, <3>1
      <4>. QED
        BY <1>2, <2>1, <3>1, <4>1
    <3>2. CASE i = k
      <4>1. t[k - 1] = s[k - 1]
        BY <1>1, <1>2
      <4>. QED
        BY <1>1, <2>1, <3>2, <4>1
    <3>3. CASE i > k
      <4>1. i - 1 \in 1 .. Len(s) - 1 /\ ~ (i - 1 < k) /\ (i - 1) + 1 = i
        BY <1>1, <3>3
      <4>2. t[i - 1] = s[i]
        BY <1>2, <4>1
      <4>. QED
        BY <2>1, <4>1, <4>2
    <3>. QED
      BY <1>1, <3>1, <3>2, <3>3
  <2>. QED
    BY <1>2, <2>2 DEF Covered
<1>. QED
  BY <1>3, <1>4

(* Where a piece goes that none of the runs has.                           *)
LEMMA RunsAround ==
  ASSUME NEW n \in Nat, NEW itrs \in Seq(Runs(n)), NEW buf, NEW next \in Nat, RunsOf(buf, itrs, next),
         NEW p \in Segs(n), Span(p) \cap Covered(buf) = {}, NEW k, k = NextRun(itrs, p)
  PROVE  /\ k \in 1 .. Len(itrs) + 1
         /\ \A j \in k .. Len(itrs) : p.end <= itrs[j].start
         /\ \A j \in 1 .. k - 1 : itrs[j].end <= p.start
<1>1. /\ Len(itrs) \in Nat /\ p.start \in Nat /\ p.end \in Nat /\ p.start < p.end
      /\ \A j \in 1 .. Len(itrs) : itrs[j].start \in Nat /\ itrs[j].end \in Nat
  <2>1. p.start \in Nat /\ p.end \in Nat /\ p.start < p.end
    BY DEF Segs
  <2>2. Len(itrs) \in Nat /\ \A j \in 1 .. Len(itrs) : itrs[j] \in Runs(n)
    OBVIOUS
  <2>3. \A x \in Runs(n) : x.start \in Nat /\ x.end \in Nat
    BY DEF Runs
  <2>. QED
    BY <2>1, <2>2, <2>3
<1>2. /\ k \in 1 .. Len(itrs) + 1
      /\ k <= Len(itrs) => itrs[k].start >= p.end
      /\ \A j \in 1 .. k - 1 : ~ (itrs[j].start >= p.end)
  BY <1>1, NextRunIs
<1>3. /\ Covered(itrs) = Covered(buf)
      /\ \A i \in 1 .. Len(itrs) : itrs[i].start < itrs[i].end
      /\ \A i, j \in 1 .. Len(itrs) : i < j => itrs[i].end < itrs[j].start
  BY DEF RunsOf, RunIn, Spaced
<1>4. ASSUME NEW j \in k .. Len(itrs) PROVE p.end <= itrs[j].start
  <2>1. k \in 1 .. Len(itrs) /\ j \in 1 .. Len(itrs) /\ p.end <= itrs[k].start
    BY <1>1, <1>2
  <2>2. CASE j = k
    BY <2>1, <2>2
  <2>3. CASE j # k
    <3>1. itrs[k].start < itrs[k].end /\ itrs[k].end < itrs[j].start
      BY <1>2, <1>3, <2>1, <2>3
    <3>. QED
      BY <1>1, <2>1, <3>1, SMTT(60)
  <2>. QED
    BY <2>2, <2>3
<1>5. ASSUME NEW j \in 1 .. k - 1, ~ (itrs[j].end <= p.start) PROVE FALSE
  <2>1. j \in 1 .. Len(itrs) /\ itrs[j].start < p.end
    BY <1>1, <1>2, SMTT(60)
  <2>2. PICK b : b = Higher(itrs[j].start, p.start)
    OBVIOUS
  <2>3. b \in Span(itrs[j]) /\ b \in Span(p)
    BY <1>1, <1>3, <1>5, <2>1, <2>2, SMTT(60) DEF Higher, Span
  <2>4. b \in Covered(itrs)
    BY <2>1, <2>3 DEF Covered
  <2>. QED
    BY <1>3, <2>3, <2>4
<1>. QED
  BY <1>2, <1>4, <1>5

(* parseData: whichever way the piece p joins the runs, they still         *)
(* describe rcvBuf.                                                        *)
PieceOf(n, buf, itrs, next, p, k) ==
  /\ n \in Nat /\ next \in Nat /\ itrs \in Seq(Runs(n)) /\ p \in Segs(n)
  /\ RunsOf(buf, itrs, next) /\ next <= p.start
  /\ k \in 1 .. Len(itrs) + 1
  /\ \A j \in k .. Len(itrs) : p.end <= itrs[j].start
  /\ \A j \in 1 .. k - 1 : itrs[j].end <= p.start

LEMMA PieceTypes ==
  ASSUME NEW n, NEW buf, NEW itrs, NEW next, NEW p, NEW k, PieceOf(n, buf, itrs, next, p, k)
  PROVE  /\ n \in Nat /\ next \in Nat /\ itrs \in Seq(Runs(n)) /\ p \in Segs(n)
         /\ Len(itrs) \in Nat /\ k \in 1 .. Len(itrs) + 1
         /\ p.start \in Nat /\ p.end \in Nat /\ p.start < p.end /\ p.end <= n
         /\ \A j \in 1 .. Len(itrs) :
              /\ itrs[j] \in Runs(n) /\ itrs[j].start \in Nat /\ itrs[j].end \in Nat
              /\ itrs[j].start < itrs[j].end /\ RunIn(itrs[j], buf, next)
         /\ \A i, j \in 1 .. Len(itrs) : i < j => itrs[i].end < itrs[j].start
<1>1. itrs \in Seq(Runs(n)) /\ p \in Segs(n) /\ n \in Nat /\ next \in Nat /\ k \in 1 .. Len(itrs) + 1
  BY DEF PieceOf
<1>2. Len(itrs) \in Nat /\ \A j \in 1 .. Len(itrs) : itrs[j] \in Runs(n)
  BY <1>1
<1>3. \A j \in 1 .. Len(itrs) : itrs[j].start \in Nat /\ itrs[j].end \in Nat
  BY <1>1, <1>2, SMTT(60) DEF Runs
<1>4. p.start \in Nat /\ p.end \in Nat /\ p.start < p.end /\ p.end <= n
  BY <1>1 DEF Segs
<1>5. RunsOf(buf, itrs, next)
  BY DEF PieceOf
<1>6. \A j \in 1 .. Len(itrs) : RunIn(itrs[j], buf, next)
  BY <1>5 DEF RunsOf
<1>7. \A j \in 1 .. Len(itrs) : itrs[j].start < itrs[j].end
  BY <1>6 DEF RunIn
<1>8. \A i, j \in 1 .. Len(itrs) : i < j => itrs[i].end < itrs[j].start
  BY <1>5 DEF RunsOf, Spaced
<1>. QED
  BY <1>1, <1>2, <1>3, <1>4, <1>6, <1>7, <1>8

(* A run that now ends at e, or starts at b, in the list of runs.          *)
IsRunEnd(t, itrs, j, e) == t = [itrs EXCEPT ![j].end = e]

LEMMA RunEnds ==
  ASSUME NEW n \in Nat, NEW itrs \in Seq(Runs(n)), NEW j \in 1 .. Len(itrs), NEW e \in 0 .. n,
         NEW t, IsRunEnd(t, itrs, j, e)
  PROVE  /\ t \in Seq(Runs(n)) /\ Len(t) = Len(itrs)
         /\ \A i \in 1 .. Len(itrs) : i # j => t[i] = itrs[i]
         /\ t[j].start = itrs[j].start /\ t[j].end = e /\ t[j].itr = itrs[j].itr
<1>1. PICK x : x = [itrs[j] EXCEPT !.end = e]
  OBVIOUS
<1>2. itrs[j] \in Runs(n)
  OBVIOUS
<1>3. x \in Runs(n) /\ x.start = itrs[j].start /\ x.end = e /\ x.itr = itrs[j].itr
  BY <1>1, <1>2 DEF Runs
<1>4. t = [itrs EXCEPT ![j] = x]
  BY <1>1 DEF IsRunEnd
<1>5. t \in Seq(Runs(n)) /\ Len(t) = Len(itrs) /\ t[j] = x
      /\ \A i \in 1 .. Len(itrs) : i # j => t[i] = itrs[i]
  BY <1>3, <1>4
<1>. QED
  BY <1>3, <1>5

IsRunStart(t, itrs, j, b) == t = [itrs EXCEPT ![j].start = b]

LEMMA RunStarts ==
  ASSUME NEW n \in Nat, NEW itrs \in Seq(Runs(n)), NEW j \in 1 .. Len(itrs), NEW b \in 0 .. n,
         NEW t, IsRunStart(t, itrs, j, b)
  PROVE  /\ t \in Seq(Runs(n)) /\ Len(t) = Len(itrs)
         /\ \A i \in 1 .. Len(itrs) : i # j => t[i] = itrs[i]
         /\ t[j].start = b /\ t[j].end = itrs[j].end /\ t[j].itr = itrs[j].itr
<1>1. PICK x : x = [itrs[j] EXCEPT !.start = b]
  OBVIOUS
<1>2. itrs[j] \in Runs(n)
  OBVIOUS
<1>3. x \in Runs(n) /\ x.start = b /\ x.end = itrs[j].end /\ x.itr = itrs[j].itr
  BY <1>1, <1>2 DEF Runs
<1>4. t = [itrs EXCEPT ![j] = x]
  BY <1>1 DEF IsRunStart
<1>5. t \in Seq(Runs(n)) /\ Len(t) = Len(itrs) /\ t[j] = x
      /\ \A i \in 1 .. Len(itrs) : i # j => t[i] = itrs[i]
  BY <1>3, <1>4
<1>. QED
  BY <1>3, <1>5

(* The piece continues the run before it, and not to the next one.         *)
LEMMA PieceExtendsUp ==
  ASSUME NEW n, NEW buf, NEW itrs, NEW next, NEW p, NEW k, PieceOf(n, buf, itrs, next, p, k),
         NEW more, Elements(buf) \subseteq Elements(more), Covered(more) = Covered(buf) \cup Span(p),
         k > 1, itrs[k - 1].end = p.start, ~ (k <= Len(itrs) /\ itrs[k].start = p.end),
         NEW t, IsRunEnd(t, itrs, k - 1, p.end)
  PROVE  RunsOf(more, t, next)
<1>. DEFINE j == k - 1
<1>1. /\ n \in Nat /\ next \in Nat /\ itrs \in Seq(Runs(n)) /\ p \in Segs(n)
      /\ Len(itrs) \in Nat /\ k \in 1 .. Len(itrs) + 1
      /\ p.start \in Nat /\ p.end \in Nat /\ p.start < p.end /\ p.end <= n
  BY PieceTypes
<1>2. \A i \in 1 .. Len(itrs) :
        /\ itrs[i] \in Runs(n) /\ itrs[i].start \in Nat /\ itrs[i].end \in Nat
        /\ itrs[i].start < itrs[i].end /\ RunIn(itrs[i], buf, next)
  BY PieceTypes
<1>3. \A h, i \in 1 .. Len(itrs) : h < i => itrs[h].end < itrs[i].start
  BY PieceTypes
<1>4. j \in 1 .. Len(itrs) /\ p.end \in 0 .. n /\ j \in Nat
  BY <1>1
<1>5. /\ t \in Seq(Runs(n)) /\ Len(t) = Len(itrs)
      /\ \A i \in 1 .. Len(itrs) : i # j => t[i] = itrs[i]
      /\ t[j].start = itrs[j].start /\ t[j].end = p.end /\ t[j].itr = itrs[j].itr
  <2>. HIDE DEF j
  <2>1. IsRunEnd(t, itrs, j, p.end)
    BY DEF j
  <2>. QED
    BY <1>1, <1>4, <2>1, RunEnds
<1>6. \A i \in k .. Len(itrs) : p.end < itrs[i].start
  <2>. SUFFICES ASSUME NEW i \in k .. Len(itrs) PROVE p.end < itrs[i].start
    OBVIOUS
  <2>1. p.end <= itrs[i].start /\ p.end <= itrs[k].start
    BY <1>1 DEF PieceOf
  <2>2. i \in 1 .. Len(itrs) /\ k \in 1 .. Len(itrs) /\ k <= i
    BY <1>1
  <2>3. p.end < itrs[k].start
    BY <1>1, <1>2, <2>1, <2>2
  <2>. QED
    <3>1. CASE i = k
      BY <2>3, <3>1
    <3>2. CASE i # k
      <4>1. itrs[k].end < itrs[i].start /\ itrs[k].start < itrs[k].end
        BY <1>1, <1>2, <1>3, <2>2, <3>2, SMTT(60)
      <4>2. itrs[k].end \in Nat /\ itrs[k].start \in Nat /\ itrs[i].start \in Nat
        BY <1>2, <2>2
      <4>3. PICK a \in Nat, b \in Nat, c \in Nat, d \in Nat :
              a = p.end /\ b = itrs[k].start /\ c = itrs[k].end /\ d = itrs[i].start
        BY <1>1, <4>2
      <4>4. a < b /\ b < c /\ c < d
        BY <2>3, <4>1, <4>3
      <4>5. a < d
        BY <4>4
      <4>. QED
        BY <4>3, <4>5
    <3>. QED
      BY <3>1, <3>2
<1>7. itrs[j].end = p.start
  OBVIOUS
<1>. HIDE DEF j
<1>8. Covered(t) = Covered(more)
  <2>1. Span(t[j]) = Span(itrs[j]) \cup Span(p)
    <3>1. itrs[j].start < itrs[j].end /\ itrs[j].start \in Nat /\ itrs[j].end \in Nat
      BY <1>2, <1>4
    <3>2. itrs[j].start <= itrs[j].end /\ p.start <= p.end
      BY <1>1, <3>1, SMTT(60)
    <3>. QED
      BY <1>1, <1>5, <1>7, <3>1, <3>2, SpanJoin
  <2>2. Covered(t) = Covered(itrs) \cup Span(p)
    <3>1. PICK X : X = Span(p)
      OBVIOUS
    <3>2. GrowsBy(itrs, t, j, X)
      BY <1>4, <1>5, <2>1, <3>1 DEF GrowsBy
    <3>. QED
      BY <3>1, <3>2, CoveredGrows
  <2>. QED
    BY <2>2 DEF PieceOf, RunsOf
<1>9. ASSUME NEW i \in 1 .. Len(t) PROVE RunIn(t[i], more, next)
  <2>1. i \in 1 .. Len(itrs) /\ t[i] \in Runs(n) /\ itrs[i] \in Runs(n) /\ RunIn(itrs[i], buf, next)
    BY <1>2, <1>5
  <2>2. t[i].itr = itrs[i].itr /\ t[i].start = itrs[i].start /\ itrs[i].end <= t[i].end
    BY <1>1, <1>2, <1>5, <1>7, <2>1, SMTT(60)
  <2>3. next <= t[i].start /\ t[i].start <= itrs[i].start
    BY <1>1, <1>2, <2>1, <2>2 DEF RunIn
  <2>. QED
    BY <1>1, <2>1, <2>2, <2>3, RunGrows
<1>10. ASSUME NEW h \in 1 .. Len(t), NEW i \in 1 .. Len(t), h < i PROVE t[h].end < t[i].start
  <2>1. itrs[h].end < itrs[i].start /\ t[i].start = itrs[i].start
    BY <1>3, <1>5, <1>10
  <2>2. CASE h # j
    BY <1>5, <2>1, <2>2
  <2>3. CASE h = j
    <3>1. i \in k .. Len(itrs)
      BY <1>1, <1>5, <1>10, <2>3 DEF j
    <3>. QED
      BY <1>5, <1>6, <2>1, <2>3, <3>1
  <2>. QED
    BY <2>2, <2>3
<1>. QED
  BY <1>8, <1>9, <1>10 DEF RunsOf, Spaced

(* The next run continues the piece, which continues none.                 *)
LEMMA PieceExtendsDown ==
  ASSUME NEW n, NEW buf, NEW itrs, NEW next, NEW p, NEW k, PieceOf(n, buf, itrs, next, p, k),
         NEW more, Elements(buf) \subseteq Elements(more), Covered(more) = Covered(buf) \cup Span(p),
         k <= Len(itrs), itrs[k].start = p.end, ~ (k > 1 /\ itrs[k - 1].end = p.start),
         NEW t, IsRunStart(t, itrs, k, p.start)
  PROVE  RunsOf(more, t, next)
<1>1. /\ n \in Nat /\ next \in Nat /\ itrs \in Seq(Runs(n)) /\ p \in Segs(n)
      /\ Len(itrs) \in Nat /\ k \in 1 .. Len(itrs) + 1
      /\ p.start \in Nat /\ p.end \in Nat /\ p.start < p.end /\ p.end <= n
  BY PieceTypes
<1>2. \A i \in 1 .. Len(itrs) :
        /\ itrs[i] \in Runs(n) /\ itrs[i].start \in Nat /\ itrs[i].end \in Nat
        /\ itrs[i].start < itrs[i].end /\ RunIn(itrs[i], buf, next)
  BY PieceTypes
<1>3. \A h, i \in 1 .. Len(itrs) : h < i => itrs[h].end < itrs[i].start
  BY PieceTypes
<1>4. k \in 1 .. Len(itrs) /\ p.start \in 0 .. n
  BY <1>1
<1>5. /\ t \in Seq(Runs(n)) /\ Len(t) = Len(itrs)
      /\ \A i \in 1 .. Len(itrs) : i # k => t[i] = itrs[i]
      /\ t[k].start = p.start /\ t[k].end = itrs[k].end /\ t[k].itr = itrs[k].itr
  BY <1>1, <1>4, RunStarts
<1>6. \A i \in 1 .. k - 1 : itrs[i].end < p.start
  <2>. SUFFICES ASSUME NEW i \in 1 .. k - 1 PROVE itrs[i].end < p.start
    OBVIOUS
  <2>1. k > 1 /\ i \in 1 .. Len(itrs) /\ k - 1 \in 1 .. k - 1 /\ k - 1 \in 1 .. Len(itrs)
    BY <1>1
  <2>2. itrs[i].end <= p.start /\ itrs[k - 1].end <= p.start /\ itrs[k - 1].end # p.start
    BY <2>1 DEF PieceOf
  <2>3. CASE i = k - 1
    BY <1>1, <1>2, <2>1, <2>2, <2>3
  <2>4. CASE i # k - 1
    <3>1. i < k - 1
      BY <1>1, <2>4
    <3>2. itrs[i].end < itrs[k - 1].start
      BY <1>3, <2>1, <3>1
    <3>3. itrs[k - 1].start < itrs[k - 1].end
      BY <1>2, <2>1
    <3>. QED
      BY <1>1, <1>2, <2>1, <2>2, <3>2, <3>3, SMTT(60)
  <2>. QED
    BY <2>3, <2>4
<1>7. Covered(t) = Covered(more)
  <2>1. Span(t[k]) = Span(itrs[k]) \cup Span(p)
    <3>1. itrs[k].start < itrs[k].end /\ itrs[k].end \in Nat /\ itrs[k].start \in Nat
      BY <1>2, <1>4
    <3>2. itrs[k].start <= itrs[k].end /\ p.start <= p.end
      BY <1>1, <3>1
    <3>3. Span(t[k]) = Span(p) \cup Span(itrs[k])
      BY <1>1, <1>5, <3>1, <3>2, SpanJoin
    <3>. QED
      BY <3>3
  <2>2. Covered(t) = Covered(itrs) \cup Span(p)
    <3>1. PICK X : X = Span(p)
      OBVIOUS
    <3>2. GrowsBy(itrs, t, k, X)
      BY <1>4, <1>5, <2>1, <3>1 DEF GrowsBy
    <3>. QED
      BY <3>1, <3>2, CoveredGrows
  <2>. QED
    BY <2>2 DEF PieceOf, RunsOf
<1>8. ASSUME NEW i \in 1 .. Len(t) PROVE RunIn(t[i], more, next)
  <2>1. i \in 1 .. Len(itrs) /\ t[i] \in Runs(n) /\ itrs[i] \in Runs(n) /\ RunIn(itrs[i], buf, next)
    BY <1>2, <1>5
  <2>2. t[i].itr = itrs[i].itr /\ t[i].end = itrs[i].end /\ t[i].start <= itrs[i].start
    BY <1>1, <1>2, <1>5, <2>1, SMTT(60)
  <2>3. next <= t[i].start
    <3>1. next <= p.start
      BY DEF PieceOf
    <3>2. next <= itrs[i].start
      BY <2>1 DEF RunIn
    <3>. QED
      BY <1>5, <2>1, <3>1, <3>2
  <2>4. itrs[i].end <= t[i].end
    BY <1>2, <2>1, <2>2
  <2>. QED
    BY <1>1, <2>1, <2>2, <2>3, <2>4, RunGrows
<1>9. ASSUME NEW h \in 1 .. Len(t), NEW i \in 1 .. Len(t), h < i PROVE t[h].end < t[i].start
  <2>1. itrs[h].end < itrs[i].start /\ t[h].end = itrs[h].end
    BY <1>3, <1>5, <1>9
  <2>2. CASE i # k
    BY <1>5, <2>1, <2>2
  <2>3. CASE i = k
    <3>1. h \in 1 .. k - 1
      BY <1>1, <1>5, <1>9, <2>3
    <3>. QED
      BY <1>5, <1>6, <2>1, <2>3, <3>1
  <2>. QED
    BY <2>2, <2>3
<1>. QED
  BY <1>7, <1>8, <1>9 DEF RunsOf, Spaced

(* The piece closes the gap between two runs.                              *)
LEMMA PieceJoins ==
  ASSUME NEW n, NEW buf, NEW itrs, NEW next, NEW p, NEW k, PieceOf(n, buf, itrs, next, p, k),
         NEW more, Elements(buf) \subseteq Elements(more), Covered(more) = Covered(buf) \cup Span(p),
         k > 1, itrs[k - 1].end = p.start, k <= Len(itrs), itrs[k].start = p.end,
         NEW u, IsRunEnd(u, itrs, k - 1, itrs[k].end), NEW t, t = RemoveFrom(u, k)
  PROVE  RunsOf(more, t, next)
<1>. DEFINE j == k - 1
<1>1. /\ n \in Nat /\ next \in Nat /\ itrs \in Seq(Runs(n)) /\ p \in Segs(n)
      /\ Len(itrs) \in Nat /\ k \in 1 .. Len(itrs) + 1
      /\ p.start \in Nat /\ p.end \in Nat /\ p.start < p.end /\ p.end <= n
  BY PieceTypes
<1>2. \A i \in 1 .. Len(itrs) :
        /\ itrs[i] \in Runs(n) /\ itrs[i].start \in Nat /\ itrs[i].end \in Nat
        /\ itrs[i].start < itrs[i].end /\ RunIn(itrs[i], buf, next)
  BY PieceTypes
<1>3. \A h, i \in 1 .. Len(itrs) : h < i => itrs[h].end < itrs[i].start
  BY PieceTypes
<1>4. /\ j \in 1 .. Len(itrs) /\ j \in Nat /\ k \in 2 .. Len(itrs) /\ k \in 1 .. Len(itrs) /\ j < k
  BY <1>1
<1>5. itrs[k].end \in 0 .. n
  <2>1. itrs[k] \in Runs(n)
    BY <1>2, <1>4
  <2>. QED
    BY <2>1 DEF Runs
<1>6. /\ u \in Seq(Runs(n)) /\ Len(u) = Len(itrs)
      /\ \A i \in 1 .. Len(itrs) : i # j => u[i] = itrs[i]
      /\ u[j].start = itrs[j].start /\ u[j].end = itrs[k].end /\ u[j].itr = itrs[j].itr
  <2>. HIDE DEF j
  <2>1. IsRunEnd(u, itrs, j, itrs[k].end)
    BY DEF j
  <2>. QED
    BY <1>1, <1>4, <1>5, <2>1, RunEnds, SMTT(60)
<1>7. itrs[j].end = p.start
  OBVIOUS
<1>8. Span(u[k]) \subseteq Span(u[k - 1]) /\ Span(u[j]) = Span(itrs[j]) \cup (Span(p) \cup Span(itrs[k]))
  <2>1. /\ itrs[j].start < itrs[j].end /\ itrs[j].start \in Nat /\ itrs[k].start < itrs[k].end
        /\ itrs[k].end \in Nat
    BY <1>2, <1>4
  <2>2. u[k] = itrs[k]
    BY <1>4, <1>6
  <2>3. PICK w : w = [start |-> itrs[j].start, end |-> p.end]
    OBVIOUS
  <2>4. itrs[j].start <= itrs[j].end /\ p.start <= p.end /\ itrs[j].end \in Nat
    BY <1>1, <1>2, <1>4, <2>1
  <2>5. w.start = itrs[j].start /\ w.end = p.end
    BY <2>3
  <2>6. Span(w) = Span(itrs[j]) \cup Span(p)
    BY <1>1, <1>7, <2>1, <2>4, <2>5, SpanJoin
  <2>7. w.start \in Nat /\ w.end \in Nat /\ w.start <= w.end
    BY <1>1, <1>7, <2>1, <2>5
  <2>8. w.end = itrs[k].start /\ itrs[k].start <= itrs[k].end
    BY <1>1, <2>1, <2>5
  <2>9. Span(u[j]) = Span(w) \cup Span(itrs[k]) /\ Span(itrs[k]) \subseteq Span(u[j])
    BY <1>6, <2>1, <2>5, <2>7, <2>8, SpanJoin, SMTT(60)
  <2>. QED
    BY <2>2, <2>6, <2>9
<1>. HIDE DEF j
<1>9. Covered(t) = Covered(more)
  <2>1. PICK X : X = Span(p) \cup Span(itrs[k])
    OBVIOUS
  <2>2. GrowsBy(itrs, u, j, X)
    BY <1>4, <1>6, <1>8, <2>1 DEF GrowsBy
  <2>3. Covered(u) = Covered(itrs) \cup X
    BY <2>2, CoveredGrows
  <2>4. Span(itrs[k]) \subseteq Covered(itrs)
    BY <1>4 DEF Covered
  <2>5. Covered(t) = Covered(u)
    BY <1>4, <1>6, <1>8, CoveredWithout
  <2>. QED
    BY <2>1, <2>3, <2>4, <2>5 DEF PieceOf, RunsOf
<1>10. Len(t) = Len(itrs) - 1 /\ \A i \in 1 .. Len(itrs) - 1 : t[i] = IF i < k THEN u[i] ELSE u[i + 1]
  <2>1. k \in 1 .. Len(u) /\ u \in Seq(Runs(n))
    BY <1>4, <1>6
  <2>2. Len(t) = Len(u) - 1 /\ \A i \in 1 .. Len(u) - 1 : t[i] = IF i < k THEN u[i] ELSE u[i + 1]
    BY <2>1, RemoveFromIs, ZenonT(60)
  <2>. QED
    BY <1>6, <2>2
(* The run t[i] takes the place of a run that is no longer.                *)
<1>11. ASSUME NEW i \in 1 .. Len(t)
       PROVE  \E g, h \in 1 .. Len(itrs) :
                /\ g = (IF i < k THEN i ELSE i + 1) /\ h = (IF i < j THEN i ELSE i + 1)
                /\ t[i] \in Runs(n) /\ t[i].start = itrs[g].start /\ t[i].itr = itrs[g].itr
                /\ t[i].end = itrs[h].end
  <2>1. i \in 1 .. Len(itrs) /\ i + 1 \in 1 .. Len(itrs) /\ i \in 1 .. Len(itrs) - 1 /\ k = j + 1
    BY <1>1, <1>10, SMTT(60) DEF j
  <2>2. CASE i < j
    <3>1. i < k /\ i # j
      BY <1>4, <2>1, <2>2
    <3>2. t[i] = itrs[i]
      BY <1>6, <1>10, <2>1, <3>1
    <3>. QED
      BY <1>2, <2>1, <2>2, <3>1, <3>2
  <2>3. CASE i = j
    <3>1. i < k /\ t[i] = u[j] /\ i + 1 = k /\ ~ (i < j)
      BY <1>4, <1>10, <2>1, <2>3
    <3>2. u[j] \in Runs(n)
      BY <1>4, <1>6
    <3>. QED
      BY <1>6, <2>1, <2>3, <3>1, <3>2
  <2>4. CASE i > j
    <3>1. ~ (i < k) /\ ~ (i < j) /\ i + 1 # j
      BY <1>4, <2>1, <2>4
    <3>2. t[i] = itrs[i + 1]
      BY <1>6, <1>10, <2>1, <3>1
    <3>. QED
      BY <1>2, <2>1, <3>1, <3>2
  <2>. QED
    BY <1>4, <2>1, <2>2, <2>3, <2>4
<1>12. ASSUME NEW i \in 1 .. Len(t) PROVE RunIn(t[i], more, next)
  <2>1. PICK g \in 1 .. Len(itrs), h \in 1 .. Len(itrs) :
          /\ g = (IF i < k THEN i ELSE i + 1) /\ h = (IF i < j THEN i ELSE i + 1)
          /\ t[i] \in Runs(n) /\ t[i].start = itrs[g].start /\ t[i].itr = itrs[g].itr
          /\ t[i].end = itrs[h].end
    BY <1>11
  <2>2. itrs[g].end <= t[i].end
    <3>1. g <= h /\ itrs[g].end \in Nat /\ itrs[h].end \in Nat /\ itrs[h].start \in Nat
          /\ itrs[h].start < itrs[h].end
      BY <1>2, <1>4, <2>1, SMTT(60)
    <3>2. CASE g = h
      BY <2>1, <3>1, <3>2
    <3>3. CASE g # h
      <4>1. itrs[g].end < itrs[h].start
        BY <1>3, <3>1, <3>3
      <4>. QED
        BY <2>1, <3>1, <4>1
    <3>. QED
      BY <3>2, <3>3
  <2>3. /\ itrs[g] \in Runs(n) /\ RunIn(itrs[g], buf, next) /\ t[i].start <= itrs[g].start
        /\ next <= itrs[g].start
    <3>1. itrs[g] \in Runs(n) /\ RunIn(itrs[g], buf, next) /\ itrs[g].start \in Nat
      BY <1>2
    <3>2. next <= itrs[g].start
      BY <3>1 DEF RunIn
    <3>. QED
      BY <2>1, <3>1, <3>2
  <2>. QED
    BY <1>1, <2>1, <2>2, <2>3, RunGrows
<1>13. ASSUME NEW a \in 1 .. Len(t), NEW b \in 1 .. Len(t), a < b PROVE t[a].end < t[b].start
  <2>1. PICK h \in 1 .. Len(itrs) : h = (IF a < j THEN a ELSE a + 1) /\ t[a].end = itrs[h].end
    BY <1>11
  <2>2. PICK g \in 1 .. Len(itrs) : g = (IF b < k THEN b ELSE b + 1) /\ t[b].start = itrs[g].start
    BY <1>11
  <2>3. h < g
    BY <1>4, <1>10, <1>13, <2>1, <2>2 DEF j
  <2>. QED
    BY <1>3, <2>1, <2>2, <2>3
<1>. QED
  BY <1>9, <1>12, <1>13 DEF RunsOf, Spaced

(* The piece is a run of its own.                                          *)
LEMMA PieceAlone ==
  ASSUME NEW n, NEW buf, NEW itrs, NEW next, NEW p, NEW k, PieceOf(n, buf, itrs, next, p, k),
         NEW more, Elements(more) = Elements(buf) \cup {p}, Covered(more) = Covered(buf) \cup Span(p),
         ~ (k > 1 /\ itrs[k - 1].end = p.start), ~ (k <= Len(itrs) /\ itrs[k].start = p.end),
         NEW x, x = [start |-> p.start, end |-> p.end, itr |-> p.start],
         NEW t, t = InsertBefore(itrs, k, x)
  PROVE  RunsOf(more, t, next)
<1>1. /\ n \in Nat /\ next \in Nat /\ itrs \in Seq(Runs(n)) /\ p \in Segs(n)
      /\ Len(itrs) \in Nat /\ k \in 1 .. Len(itrs) + 1
      /\ p.start \in Nat /\ p.end \in Nat /\ p.start < p.end /\ p.end <= n
  BY PieceTypes
<1>2. \A i \in 1 .. Len(itrs) :
        /\ itrs[i] \in Runs(n) /\ itrs[i].start \in Nat /\ itrs[i].end \in Nat
        /\ itrs[i].start < itrs[i].end /\ RunIn(itrs[i], buf, next)
  BY PieceTypes
<1>3. \A h, i \in 1 .. Len(itrs) : h < i => itrs[h].end < itrs[i].start
  BY PieceTypes
<1>4. \A i \in 1 .. k - 1 : itrs[i].end < p.start
  <2>. SUFFICES ASSUME NEW i \in 1 .. k - 1 PROVE itrs[i].end < p.start
    OBVIOUS
  <2>1. k > 1 /\ i \in 1 .. Len(itrs) /\ k - 1 \in 1 .. k - 1 /\ k - 1 \in 1 .. Len(itrs)
    BY <1>1, SMTT(60)
  <2>2. itrs[i].end <= p.start /\ itrs[k - 1].end <= p.start /\ itrs[k - 1].end # p.start
    BY <2>1 DEF PieceOf
  <2>3. CASE i = k - 1
    BY <1>1, <1>2, <2>1, <2>2, <2>3
  <2>4. CASE i # k - 1
    <3>1. i < k - 1
      BY <1>1, <2>4
    <3>2. itrs[i].end < itrs[k - 1].start
      BY <1>3, <2>1, <3>1
    <3>3. itrs[k - 1].start < itrs[k - 1].end
      BY <1>2, <2>1
    <3>. QED
      BY <1>1, <1>2, <2>1, <2>2, <3>2, <3>3, SMTT(60)
  <2>. QED
    BY <2>3, <2>4
<1>5. \A i \in k .. Len(itrs) : p.end < itrs[i].start
  <2>. SUFFICES ASSUME NEW i \in k .. Len(itrs) PROVE p.end < itrs[i].start
    OBVIOUS
  <2>1. p.end <= itrs[i].start /\ p.end <= itrs[k].start
    BY <1>1 DEF PieceOf
  <2>2. i \in 1 .. Len(itrs) /\ k \in 1 .. Len(itrs) /\ k <= i
    BY <1>1
  <2>3. p.end < itrs[k].start
    BY <1>1, <1>2, <2>1, <2>2
  <2>4. CASE i = k
    BY <2>3, <2>4
  <2>5. CASE i # k
    <3>1. itrs[k].end < itrs[i].start /\ itrs[k].start < itrs[k].end
      BY <1>1, <1>2, <1>3, <2>2, <2>5, SMTT(60)
    <3>2. PICK a \in Nat, b \in Nat, c \in Nat, d \in Nat :
            a = p.end /\ b = itrs[k].start /\ c = itrs[k].end /\ d = itrs[i].start
      BY <1>1, <1>2, <2>2
    <3>3. a < b /\ b < c /\ c < d
      BY <2>3, <3>1, <3>2
    <3>4. a < d
      BY <3>3
    <3>. QED
      BY <3>2, <3>4
  <2>. QED
    BY <2>4, <2>5
<1>6. x.start = p.start /\ x.end = p.end /\ x.itr = p.start /\ Span(x) = Span(p)
  BY DEF Span
<1>7. /\ Len(t) = Len(itrs) + 1
      /\ \A i \in 1 .. Len(itrs) + 1 : t[i] = IF i < k THEN itrs[i] ELSE IF i = k THEN x ELSE itrs[i - 1]
  BY <1>1, InsertBeforeIs
<1>8. \A i \in 1 .. Len(itrs) + 1 :
        /\ i < k => i \in 1 .. Len(itrs) /\ i \in 1 .. k - 1 /\ t[i] = itrs[i]
        /\ i = k => t[i] = x
        /\ i > k => i - 1 \in 1 .. Len(itrs) /\ i - 1 \in k .. Len(itrs) /\ t[i] = itrs[i - 1]
  BY <1>1, <1>7, SMTT(60)
<1>9. Covered(t) = Covered(more)
  <2>1. Covered(itrs) = Covered(buf)
    BY DEF PieceOf, RunsOf
  <2>2. ASSUME NEW b \in Covered(t) PROVE b \in Covered(itrs) \cup Span(p)
    <3>1. PICK i \in 1 .. Len(itrs) + 1 : b \in Span(t[i])
      BY <1>7 DEF Covered
    <3>2. CASE i = k
      BY <1>6, <1>8, <3>1, <3>2
    <3>3. CASE i # k
      <4>1. PICK h \in 1 .. Len(itrs) : t[i] = itrs[h]
        BY <1>1, <1>8, <3>3, SMTT(60)
      <4>. QED
        BY <3>1, <4>1 DEF Covered
    <3>. QED
      BY <3>2, <3>3
  <2>3. ASSUME NEW b \in Covered(itrs) PROVE b \in Covered(t)
    <3>1. PICK i \in 1 .. Len(itrs) : b \in Span(itrs[i])
      BY DEF Covered
    <3>2. PICK h \in 1 .. Len(t) : t[h] = itrs[i]
      <4>1. CASE i < k
        <5>1. i \in 1 .. Len(itrs) + 1
          BY <1>1
        <5>. QED
          BY <1>7, <1>8, <4>1, <5>1
      <4>2. CASE i >= k
        <5>1. i + 1 \in 1 .. Len(itrs) + 1 /\ i + 1 > k /\ (i + 1) - 1 = i
          BY <1>1, <4>2
        <5>2. t[i + 1] = itrs[i]
          BY <1>8, <5>1
        <5>. QED
          BY <1>7, <5>1, <5>2
      <4>. QED
        BY <1>1, <4>1, <4>2, SMTT(60)
    <3>. QED
      BY <3>1, <3>2 DEF Covered
  <2>4. Span(p) \subseteq Covered(t)
    <3>1. k \in 1 .. Len(t) /\ t[k] = x
      BY <1>1, <1>7, <1>8
    <3>. QED
      BY <1>6, <3>1 DEF Covered
  <2>. QED
    BY <2>1, <2>2, <2>3, <2>4
<1>10. RunIn(x, more, next)
  <2>1. next <= x.start /\ x.start < x.end
    BY <1>1, <1>6 DEF PieceOf
  <2>2. p \in Elements(more) /\ p.start = x.itr /\ Span(p) \subseteq Span(x)
    BY <1>6
  <2>. QED
    BY <2>1, <2>2 DEF RunIn
<1>11. \A i \in 1 .. Len(itrs) : RunIn(itrs[i], more, next)
  BY <1>2 DEF RunIn
<1>12. ASSUME NEW i \in 1 .. Len(t) PROVE RunIn(t[i], more, next)
  <2>1. CASE i = k
    BY <1>7, <1>8, <1>10, <2>1
  <2>2. CASE i # k
    <3>1. PICK h \in 1 .. Len(itrs) : t[i] = itrs[h]
      BY <1>1, <1>7, <1>8, <2>2, SMTT(60)
    <3>. QED
      BY <1>11, <3>1
  <2>. QED
    BY <2>1, <2>2
<1>13. ASSUME NEW a \in 1 .. Len(t), NEW b \in 1 .. Len(t), a < b PROVE t[a].end < t[b].start
  <2>1. a \in 1 .. Len(itrs) + 1 /\ b \in 1 .. Len(itrs) + 1
    BY <1>7
  <2>2. CASE a < k /\ b < k
    BY <1>3, <1>8, <1>13, <2>1, <2>2
  <2>3. CASE a < k /\ b = k
    BY <1>4, <1>6, <1>8, <2>1, <2>3
  <2>4. CASE a < k /\ b > k
    <3>1. a < b - 1
      BY <1>1, <2>1, <2>4
    <3>. QED
      BY <1>3, <1>8, <2>1, <2>4, <3>1
  <2>5. CASE a = k
    <3>1. b > k
      BY <1>13, <2>5
    <3>. QED
      BY <1>5, <1>6, <1>8, <2>1, <2>5, <3>1
  <2>6. CASE a > k
    <3>1. b > k /\ a - 1 < b - 1
      BY <1>1, <1>13, <2>1, <2>6
    <3>. QED
      BY <1>3, <1>8, <2>1, <2>6, <3>1
  <2>. QED
    BY <1>1, <2>1, <2>2, <2>3, <2>4, <2>5, <2>6
<1>. QED
  BY <1>9, <1>12, <1>13 DEF RunsOf, Spaced

LEMMA PieceRuns ==
  ASSUME NEW n \in Nat, NEW buf \in Seq(Segs(n)), NEW itrs \in Seq(Runs(n)), NEW next \in Nat,
         RunsOf(buf, itrs, next), NEW p \in Segs(n), Span(p) \cap Covered(buf) = {}, next <= p.start
  PROVE  RunsOf(BufWith(buf, itrs, p), ItrsWith(itrs, p), next)
<1>1. PICK more : more = BufWith(buf, itrs, p)
  OBVIOUS
<1>2. PICK k : k = NextRun(itrs, p)
  OBVIOUS
<1>3. PICK t : t = ItrsWith(itrs, p)
  OBVIOUS
<1>4. /\ k \in 1 .. Len(itrs) + 1
      /\ \A j \in k .. Len(itrs) : p.end <= itrs[j].start
      /\ \A j \in 1 .. k - 1 : itrs[j].end <= p.start
  BY <1>2, RunsAround
<1>5. PieceOf(n, buf, itrs, next, p, k)
  BY <1>4 DEF PieceOf
<1>6. Elements(more) = Elements(buf) \cup {p}
  BY <1>1, BufWithElements
<1>7. Elements(buf) \subseteq Elements(more)
  BY <1>6
<1>8. Covered(more) = Covered(buf) \cup Span(p)
  BY <1>1, SegsSized, BufWithBytes
<1>. DEFINE prevCont == k > 1 /\ itrs[k - 1].end = p.start
            nextCont == k <= Len(itrs) /\ itrs[k].start = p.end
<1>9. CASE prevCont /\ nextCont
  <2>1. PICK u : u = [itrs EXCEPT ![k - 1].end = itrs[k].end]
    OBVIOUS
  <2>2. t = RemoveFrom(u, k)
    BY <1>2, <1>3, <1>9, <2>1 DEF ItrsWith
  <2>3. IsRunEnd(u, itrs, k - 1, itrs[k].end)
    BY <2>1 DEF IsRunEnd
  <2>4. RunsOf(more, t, next)
    BY <1>5, <1>7, <1>8, <1>9, <2>2, <2>3, PieceJoins
  <2>. QED
    BY <1>1, <1>3, <2>4
<1>10. CASE prevCont /\ ~ nextCont
  <2>1. t = [itrs EXCEPT ![k - 1].end = p.end]
    BY <1>2, <1>3, <1>10 DEF ItrsWith
  <2>2. IsRunEnd(t, itrs, k - 1, p.end)
    BY <2>1 DEF IsRunEnd
  <2>3. RunsOf(more, t, next)
    BY <1>5, <1>7, <1>8, <1>10, <2>2, PieceExtendsUp
  <2>. QED
    BY <1>1, <1>3, <2>3
<1>11. CASE ~ prevCont /\ nextCont
  <2>1. t = [itrs EXCEPT ![k].start = p.start]
    BY <1>2, <1>3, <1>11 DEF ItrsWith
  <2>2. IsRunStart(t, itrs, k, p.start)
    BY <2>1 DEF IsRunStart
  <2>3. RunsOf(more, t, next)
    BY <1>5, <1>7, <1>8, <1>11, <2>2, PieceExtendsDown
  <2>. QED
    BY <1>1, <1>3, <2>3
<1>12. CASE ~ prevCont /\ ~ nextCont
  <2>1. PICK x : x = [start |-> p.start, end |-> p.end, itr |-> p.start]
    OBVIOUS
  <2>2. t = InsertBefore(itrs, k, x)
    BY <1>2, <1>3, <1>12, <2>1 DEF ItrsWith
  <2>3. RunsOf(more, t, next)
    BY <1>5, <1>6, <1>8, <1>12, <2>1, <2>2, PieceAlone
  <2>. QED
    BY <1>1, <1>3, <2>3
<1>. QED
  BY <1>9, <1>10, <1>11, <1>12

(* parseData puts the pieces of one packet into rcvBuf one after the other.*)
LEMMA InsertedRuns ==
  ASSUME NEW n \in Nat, rcvBuf \in Seq(Segs(n)), rcvBufItrs \in Seq(Runs(n)), NEW ps \in Seq(Ints(n)),
         NEW next \in Nat, RunsOf(rcvBuf, rcvBufItrs, next),
         \A i \in 1 .. Len(ps) : next <= ps[i].start /\ Span(ps[i]) \cap Covered(rcvBuf) = {},
         \A i, j \in 1 .. Len(ps) : i < j => Span(ps[i]) \cap Span(ps[j]) = {}
  PROVE  RunsOf(Inserted(ps).buf, Inserted(ps).itrs, next)
<1>1. PICK f : Inserting(n, ps, f) /\ Inserted(ps) = f[Len(ps)]
  BY InsertedSteps
<1>2. Len(ps) \in Nat
  OBVIOUS
<1>3. /\ f[0].buf = rcvBuf /\ f[0].itrs = rcvBufItrs
      /\ \A k \in 0 .. Len(ps) : f[k].buf \in Seq(Segs(n)) /\ f[k].itrs \in Seq(Runs(n))
  <2>1. PICK S : S = [buf : Seq(Segs(n)), itrs : Seq(Runs(n))]
    OBVIOUS
  <2>2. f[0] = [buf |-> rcvBuf, itrs |-> rcvBufItrs] /\ \A k \in 0 .. Len(ps) : f[k] \in S
    BY <1>1, <2>1 DEF Inserting
  <2>3. \A x \in S : x.buf \in Seq(Segs(n)) /\ x.itrs \in Seq(Runs(n))
    BY <2>1
  <2>. QED
    BY <2>2, <2>3
<1>. DEFINE S == {k \in Nat : k <= Len(ps) =>
                   /\ RunsOf(f[k].buf, f[k].itrs, next)
                   /\ \A j \in 1 .. Len(ps) : k < j => Span(ps[j]) \cap Covered(f[k].buf) = {}}
<1>4. 0 \in S
  BY <1>2, <1>3
<1>5. ASSUME NEW k \in Nat, k \in S PROVE k + 1 \in S
  <2>. SUFFICES ASSUME k + 1 <= Len(ps)
                PROVE  /\ RunsOf(f[k + 1].buf, f[k + 1].itrs, next)
                       /\ \A j \in 1 .. Len(ps) : k + 1 < j => Span(ps[j]) \cap Covered(f[k + 1].buf) = {}
    OBVIOUS
  <2>1. /\ k \in 0 .. Len(ps) /\ k + 1 \in 1 .. Len(ps) /\ k <= Len(ps) /\ k < k + 1 /\ (k + 1) - 1 = k
    BY <1>2
  <2>2. /\ RunsOf(f[k].buf, f[k].itrs, next)
        /\ \A j \in 1 .. Len(ps) : k < j => Span(ps[j]) \cap Covered(f[k].buf) = {}
    BY <1>5, <2>1
  <2>. HIDE DEF S
  <2>3. ps[k + 1] \in Ints(n)
    BY <2>1
  <2>4. PICK p : p = Seg(ps[k + 1].start, ps[k + 1].end)
    OBVIOUS
  <2>5. p \in Segs(n) /\ p.start = ps[k + 1].start /\ Span(p) = Span(ps[k + 1])
    BY <2>3, <2>4 DEF Ints, Segs, Seg, Span
  <2>6. PICK buf \in Seq(Segs(n)), itrs \in Seq(Runs(n)) : buf = f[k].buf /\ itrs = f[k].itrs
    BY <1>3, <2>1
  <2>7. f[k + 1].buf = BufWith(buf, itrs, p) /\ f[k + 1].itrs = ItrsWith(itrs, p)
    <3>1. f[k + 1] = AfterPiece(f[(k + 1) - 1], p)
      BY <1>1, <2>1, <2>4 DEF Inserting
    <3>. QED
      BY <2>1, <2>6, <3>1 DEF AfterPiece
  <2>8. RunsOf(buf, itrs, next) /\ Span(p) \cap Covered(buf) = {} /\ next <= p.start
    BY <2>1, <2>2, <2>5, <2>6
  <2>9. RunsOf(BufWith(buf, itrs, p), ItrsWith(itrs, p), next)
    BY <2>5, <2>8, PieceRuns
  <2>10. Covered(BufWith(buf, itrs, p)) = Covered(buf) \cup Span(p)
    BY <2>5, SegsSized, BufWithBytes
  <2>11. ASSUME NEW j \in 1 .. Len(ps), k + 1 < j
         PROVE  Span(ps[j]) \cap Covered(f[k + 1].buf) = {}
    <3>1. k < j
      BY <2>11
    <3>2. Span(ps[j]) \cap Covered(buf) = {}
      BY <2>2, <2>6, <3>1
    <3>3. Span(ps[k + 1]) \cap Span(ps[j]) = {}
      BY <2>1, <2>11
    <3>. QED
      BY <2>5, <2>7, <2>10, <3>2, <3>3
  <2>. QED
    BY <2>7, <2>9, <2>11
<1>6. Len(ps) \in S
  <2>. HIDE DEF S
  <2>. QED
    BY <1>2, <1>4, <1>5, SetInduction
<1>. QED
  BY <1>1, <1>2, <1>6

(* t has the runs of itrs behind next, from the m-th on; the first is cut. *)
RunsBehind(itrs, next, t, m) ==
  /\ m \in 1 .. Len(itrs) + 1
  /\ Len(t) = Len(itrs) - m + 1
  /\ m <= Len(itrs) => itrs[m].end > next
  /\ \A j \in 1 .. m - 1 : itrs[j].end <= next
  /\ \A i \in 1 .. Len(itrs) - m + 1 :
       /\ t[i].end = itrs[m + i - 1].end /\ t[i].itr = itrs[m + i - 1].itr
       /\ t[i].start = IF i = 1 THEN Higher(itrs[m].start, next) ELSE itrs[m + i - 1].start

LEMMA RunsFromIs ==
  ASSUME NEW n \in Nat, NEW itrs \in Seq(Runs(n)), NEW next \in 0 .. n, NEW t, t = RunsFrom(itrs, next)
  PROVE  \E m : RunsBehind(itrs, next, t, m)
<1>. DEFINE S    == {l \in 1 .. Len(itrs) + 1 : l <= Len(itrs) => itrs[l].end > next}
            m    == First(S)
            rest == SubSeq(itrs, m, Len(itrs))
<1>1. Len(itrs) \in Nat /\ S \subseteq 1 .. Len(itrs) + 1 /\ Len(itrs) + 1 \in S /\ S \subseteq Nat /\ S # {}
  OBVIOUS
<1>2. m \in 1 .. Len(itrs) + 1 /\ m \in S /\ \A j \in S : m <= j
  <2>. HIDE DEF S
  <2>. QED
    BY <1>1, FirstIsLeast
<1>3. t = IF rest = <<>> THEN rest ELSE [rest EXCEPT ![1].start = Higher(@, next)]
  BY DEF RunsFrom
<1>4. m <= Len(itrs) => itrs[m].end > next
  <2>. HIDE DEF m
  <2>. QED
    BY <1>2
<1>5. ASSUME NEW j \in 1 .. m - 1 PROVE itrs[j].end <= next
  <2>. HIDE DEF m
  <2>1. j \in 1 .. Len(itrs) /\ ~ (m <= j) /\ j \in 1 .. Len(itrs) + 1
    BY <1>1, <1>2
  <2>2. j \notin S
    BY <1>2, <2>1
  <2>3. ~ (itrs[j].end > next)
    BY <2>1, <2>2
  <2>4. itrs[j] \in Runs(n)
    BY <2>1
  <2>5. itrs[j].end \in Nat
    BY <2>4 DEF Runs
  <2>. QED
    BY <2>3, <2>5
<1>6. /\ rest \in Seq(Runs(n)) /\ Len(rest) = Len(itrs) - m + 1
      /\ \A i \in 1 .. Len(itrs) - m + 1 : rest[i] = itrs[m + i - 1]
  <2>. HIDE DEF m, S
  <2>1. m \in Int /\ Len(itrs) \in Int /\ \A j \in m .. Len(itrs) : itrs[j] \in Runs(n)
    BY <1>1, <1>2
  <2>2. /\ rest \in Seq(Runs(n))
        /\ Len(rest) = IF m <= Len(itrs) THEN Len(itrs) - m + 1 ELSE 0
        /\ \A i \in 1 .. Len(itrs) - m + 1 : rest[i] = itrs[m + i - 1]
    BY <2>1, SubSeqProperties
  <2>. HIDE DEF rest
  <2>3. Len(rest) = Len(itrs) - m + 1
    BY <1>1, <1>2, <2>2, SMTT(60)
  <2>. QED
    BY <2>2, <2>3
<1>. HIDE DEF m, rest, S
<1>7. /\ Len(t) = Len(rest)
      /\ \A i \in 1 .. Len(rest) :
           /\ t[i].end = rest[i].end /\ t[i].itr = rest[i].itr
           /\ t[i].start = IF i = 1 THEN Higher(rest[1].start, next) ELSE rest[i].start
  <2>1. CASE rest = <<>>
    BY <1>3, <1>6, <2>1
  <2>2. CASE rest # <<>>
    <3>1. Len(rest) \in Nat /\ 1 \in 1 .. Len(rest) /\ rest[1] \in Runs(n)
      BY <1>6, <2>2
    <3>2. PICK b : b = Higher(rest[1].start, next)
      OBVIOUS
    <3>3. b \in 0 .. n
      BY <3>1, <3>2 DEF Runs, Higher
    <3>4. IsRunStart(t, rest, 1, b)
      BY <1>3, <2>2, <3>2 DEF IsRunStart
    <3>5. /\ Len(t) = Len(rest)
          /\ \A i \in 1 .. Len(rest) : i # 1 => t[i] = rest[i]
          /\ t[1].start = b /\ t[1].end = rest[1].end /\ t[1].itr = rest[1].itr
      BY <1>6, <3>1, <3>3, <3>4, RunStarts
    <3>. QED
      BY <3>2, <3>5
  <2>. QED
    BY <2>1, <2>2
<1>8. ASSUME NEW i \in 1 .. Len(itrs) - m + 1
      PROVE  /\ t[i].end = itrs[m + i - 1].end /\ t[i].itr = itrs[m + i - 1].itr
             /\ t[i].start = IF i = 1 THEN Higher(itrs[m].start, next) ELSE itrs[m + i - 1].start
  <2>1. i \in 1 .. Len(rest) /\ 1 \in 1 .. Len(itrs) - m + 1 /\ rest[i] = itrs[m + i - 1]
    BY <1>1, <1>2, <1>6
  <2>2. rest[1] = itrs[m]
    <3>1. rest[1] = itrs[m + 1 - 1] /\ m + 1 - 1 = m
      BY <1>2, <1>6, <2>1
    <3>. QED
      BY <3>1
  <2>. QED
    BY <1>7, <2>1, <2>2
<1>9. Len(t) = Len(itrs) - m + 1
  BY <1>6, <1>7
<1>10. RunsBehind(itrs, next, t, m)
  BY <1>2, <1>4, <1>5, <1>8, <1>9 DEF RunsBehind
<1>. QED
  BY <1>10

(* moveToRcvQueue takes the segments below the new rcvNxt off both lists.  *)
LEMMA MoveRuns ==
  ASSUME NEW n \in Nat, NEW buf \in Seq(Segs(n)), NEW itrs \in Seq(Runs(n)), NEW queue,
         rcvNxt \in 0 .. n, RunsOf(buf, itrs, rcvNxt), MoveToRcvQueue(buf, itrs, queue),
         NEW next, next = rcvNxt', NEW left, left = rcvBuf',
         Covered(left) \cap 0 .. next - 1 = {}
  PROVE  RunsOf(left, RunsFrom(itrs, next), next)
<1>1. PICK k \in 0 .. Len(buf) :
        /\ MovesExactly(buf, rcvNxt, Room(queue), k)
        /\ left = SubSeq(buf, k + 1, Len(buf))
        /\ next = IF k = 0 THEN rcvNxt ELSE buf[k].end
  BY DEF MoveToRcvQueue
<1>2. PICK gone : gone = SubSeq(buf, 1, k)
  OBVIOUS
<1>3. /\ gone \in Seq(Segs(n)) /\ left \in Seq(Segs(n))
      /\ Covered(gone) \cup Covered(left) = Covered(buf)
  BY <1>1, <1>2, SegsSized, CutInTwo
<1>4. /\ Len(buf) \in Nat /\ k \in Nat
      /\ \A i \in 1 .. Len(buf) : buf[i].start \in Nat /\ buf[i].end \in 0 .. n /\ buf[i].start < buf[i].end
  <2>1. \A i \in 1 .. Len(buf) : buf[i] \in Segs(n)
    OBVIOUS
  <2>2. \A x \in Segs(n) : x.start \in Nat /\ x.end \in 0 .. n /\ x.start < x.end
    BY DEF Segs
  <2>. QED
    BY <2>1, <2>2
<1>5. /\ Len(gone) = k /\ (\A i \in 1 .. k : gone[i] = buf[i])
      /\ Len(left) = Len(buf) - k /\ (\A i \in 1 .. Len(buf) - k : left[i] = buf[k + i])
  BY <1>1, <1>2, <1>4
<1>6. \A i \in 1 .. k : buf[i].start = IF i = 1 THEN rcvNxt ELSE buf[i - 1].end
  BY <1>1 DEF MovesExactly, Continues
<1>7. /\ next \in 0 .. n /\ rcvNxt <= next
      /\ \A i \in 1 .. k : buf[i].end <= next
  <2>1. CASE k = 0
    BY <1>1, <1>4, <2>1
  <2>2. CASE k # 0
    <3>1. k \in 1 .. Len(buf) /\ 1 \in 1 .. k /\ 1 \in 1 .. Len(buf) /\ next = buf[k].end
      BY <1>1, <1>4, <2>2
    <3>2. \A i \in 1 .. k : buf[i].start \in Nat /\ buf[i].end \in Nat /\ buf[i].start < buf[i].end
      <4>1. \A i \in 1 .. k : i \in 1 .. Len(buf)
        BY <1>4, <3>1
      <4>. QED
        BY <1>4, <4>1
    <3>3. \A i \in 1 .. k : i > 1 => buf[i].start = buf[i - 1].end
      BY <1>6
    <3>4. \A i, j \in 1 .. k : i < j => buf[i].end <= buf[j].start
      BY <1>4, <3>2, <3>3, ChainOrdered
    <3>5. \A i \in 1 .. k : buf[i].end <= next
      <4>. SUFFICES ASSUME NEW i \in 1 .. k PROVE buf[i].end <= next
        OBVIOUS
      <4>1. CASE i = k
        BY <3>1, <3>2, <4>1
      <4>2. CASE i # k
        <5>1. k \in 1 .. k /\ i < k
          BY <1>4, <3>1, <4>2
        <5>2. buf[i].end <= buf[k].start /\ buf[k].start < buf[k].end
          BY <3>2, <3>4, <5>1
        <5>. QED
          BY <3>1, <3>2, <5>1, <5>2
      <4>. QED
        BY <4>1, <4>2
    <3>6. buf[1].start = rcvNxt
      BY <1>6, <3>1
    <3>7. rcvNxt <= next
      BY <3>1, <3>2, <3>5, <3>6
    <3>. QED
      BY <1>4, <3>1, <3>5, <3>7
  <2>. QED
    BY <2>1, <2>2
<1>8. next \in Nat /\ rcvNxt \in Nat
  BY <1>7
<1>9. ASSUME NEW b \in Covered(gone) PROVE b < next
  <2>1. PICK i \in 1 .. k : b \in Span(buf[i])
    BY <1>5 DEF Covered
  <2>2. i \in 1 .. Len(buf) /\ buf[i].end <= next
    BY <1>4, <1>7, <2>1
  <2>. QED
    BY <1>4, <1>8, <2>1, <2>2 DEF Span
<1>10. ASSUME NEW b \in Covered(left) PROVE b \in Nat /\ b >= next
  <2>1. PICK i \in 1 .. Len(left) : b \in Span(left[i])
    BY DEF Covered
  <2>2. left[i] \in Segs(n)
    BY <1>3
  <2>3. b \in Nat
    BY <2>1, <2>2 DEF Segs, Span
  <2>4. b \notin 0 .. next - 1
    OBVIOUS
  <2>. QED
    BY <1>8, <2>3, <2>4
<1>11. PICK t : t = RunsFrom(itrs, next)
  OBVIOUS
<1>12. PICK m \in 1 .. Len(itrs) + 1 :
        /\ Len(t) = Len(itrs) - m + 1
        /\ m <= Len(itrs) => itrs[m].end > next
        /\ \A j \in 1 .. m - 1 : itrs[j].end <= next
        /\ \A i \in 1 .. Len(itrs) - m + 1 :
             /\ t[i].end = itrs[m + i - 1].end /\ t[i].itr = itrs[m + i - 1].itr
             /\ t[i].start = IF i = 1 THEN Higher(itrs[m].start, next) ELSE itrs[m + i - 1].start
  <2>1. PICK m : RunsBehind(itrs, next, t, m)
    BY <1>7, <1>11, RunsFromIs
  <2>. QED
    BY <2>1 DEF RunsBehind
<1>13. /\ Len(itrs) \in Nat
       /\ \A i \in 1 .. Len(itrs) : /\ itrs[i].start \in Nat /\ itrs[i].end \in Nat
                                     /\ itrs[i].start < itrs[i].end
  <2>1. Len(itrs) \in Nat /\ \A i \in 1 .. Len(itrs) : itrs[i] \in Runs(n)
    OBVIOUS
  <2>2. \A x \in Runs(n) : x.start \in Nat /\ x.end \in Nat
    BY DEF Runs
  <2>. QED
    BY <2>1, <2>2 DEF RunsOf, RunIn
<1>14. /\ Covered(itrs) = Covered(buf)
       /\ \A i \in 1 .. Len(itrs) : RunIn(itrs[i], buf, rcvNxt)
       /\ \A i, j \in 1 .. Len(itrs) : i < j => itrs[i].end < itrs[j].start
  BY DEF RunsOf, Spaced
(* The i-th run left is the one at m + i - 1.                              *)
<1>15. ASSUME NEW i \in 1 .. Len(t)
       PROVE  \E g \in m .. Len(itrs) :
                /\ g = m + i - 1 /\ g \in 1 .. Len(itrs)
                /\ t[i].end = itrs[g].end /\ t[i].itr = itrs[g].itr
                /\ t[i].start = Higher(itrs[g].start, next) /\ itrs[g].end > next
                /\ t[i].start \in Nat
  <2>1. PICK g : g = m + i - 1
    OBVIOUS
  <2>2. g \in m .. Len(itrs) /\ g \in 1 .. Len(itrs) /\ m \in 1 .. Len(itrs) /\ i \in 1 .. Len(itrs) - m + 1
    <3>1. PICK l : l = Len(itrs)
      OBVIOUS
    <3>2. l \in Nat /\ m \in 1 .. l + 1 /\ i \in Nat /\ i >= 1 /\ i <= l - m + 1
      BY <1>12, <1>13, <3>1
    <3>3. g \in m .. l /\ g \in 1 .. l /\ m \in 1 .. l /\ i \in 1 .. l - m + 1
      BY ONLY <2>1, <3>2
    <3>. QED
      BY <3>1, <3>3
  <2>3. /\ t[i].end = itrs[g].end /\ t[i].itr = itrs[g].itr
        /\ t[i].start = IF i = 1 THEN Higher(itrs[m].start, next) ELSE itrs[g].start
    BY <1>12, <2>1, <2>2
  <2>4. CASE i = 1
    <3>1. g = m
      BY <1>12, <2>1, <2>4
    <3>. QED
      BY <1>8, <1>12, <1>13, <2>1, <2>2, <2>3, <2>4, <3>1 DEF Higher
  <2>5. CASE i # 1
    <3>1. m < g
      BY <1>12, <1>13, <2>1, <2>5
    <3>2. itrs[m].end > next /\ itrs[m].end < itrs[g].start
      BY <1>12, <1>14, <2>2, <3>1
    <3>3. itrs[g].start > next /\ itrs[g].end > next /\ itrs[g].start \in Nat
      BY <1>8, <1>13, <2>2, <3>2, SMTT(60)
    <3>4. Higher(itrs[g].start, next) = itrs[g].start
      BY <1>8, <3>3 DEF Higher
    <3>. QED
      BY <2>1, <2>2, <2>3, <2>5, <3>3, <3>4
  <2>. QED
    BY <2>4, <2>5
<1>16. Covered(t) = Covered(left)
  <2>1. ASSUME NEW b \in Covered(t) PROVE b \in Covered(left)
    <3>1. PICK i \in 1 .. Len(t) : b \in Span(t[i])
      BY DEF Covered
    <3>2. PICK g \in 1 .. Len(itrs) : /\ t[i].end = itrs[g].end /\ t[i].start = Higher(itrs[g].start, next)
      BY <1>15
    <3>3. b \in Span(itrs[g]) /\ ~ (b < next)
      BY <1>8, <1>13, <3>1, <3>2, SMTT(60) DEF Span, Higher
    <3>4. b \in Covered(buf)
      BY <1>14, <3>3 DEF Covered
    <3>. QED
      BY <1>3, <1>9, <3>3, <3>4
  <2>2. ASSUME NEW b \in Covered(left) PROVE b \in Covered(t)
    <3>1. b \in Covered(itrs) /\ b \in Nat /\ b >= next
      BY <1>3, <1>10, <1>14
    <3>2. PICK g \in 1 .. Len(itrs) : b \in Span(itrs[g])
      BY <3>1 DEF Covered
    <3>3. itrs[g].end > next
      BY <1>8, <1>13, <3>1, <3>2, SMTT(60) DEF Span
    <3>4. ~ (g \in 1 .. m - 1)
      BY <1>8, <1>12, <1>13, <3>2, <3>3
    <3>5. g - m + 1 \in 1 .. Len(t) /\ m + (g - m + 1) - 1 = g
      BY <1>12, <1>13, <3>2, <3>4
    <3>6. PICK i \in 1 .. Len(t) : m + i - 1 = g
      BY <3>5
    <3>7. t[i].end = itrs[g].end /\ t[i].start = Higher(itrs[g].start, next)
      BY <1>15, <3>6
    <3>8. b \in Span(t[i])
      BY <1>8, <1>13, <3>1, <3>2, <3>7 DEF Span, Higher
    <3>. QED
      BY <3>8 DEF Covered
  <2>. QED
    BY <2>1, <2>2
<1>17. ASSUME NEW i \in 1 .. Len(t) PROVE RunIn(t[i], left, next)
  <2>1. PICK g \in 1 .. Len(itrs) :
          /\ t[i].end = itrs[g].end /\ t[i].itr = itrs[g].itr
          /\ t[i].start = Higher(itrs[g].start, next) /\ itrs[g].end > next
          /\ t[i].start \in Nat
    BY <1>15
  <2>2. next <= t[i].start /\ t[i].start < t[i].end
    BY <1>8, <1>13, <2>1, SMTT(60) DEF Higher
  <2>3. ASSUME t[i].start > next
        PROVE  \E x \in Elements(left) : x.start = t[i].itr /\ Span(x) \subseteq Span(t[i])
    <3>1. t[i].start = itrs[g].start /\ itrs[g].start > next
      BY <1>8, <1>13, <2>1, <2>3 DEF Higher
    <3>2. itrs[g].start > rcvNxt
      BY <1>7, <1>8, <1>13, <3>1
    <3>3. RunIn(itrs[g], buf, rcvNxt)
      BY <1>14
    <3>4. PICK x \in Elements(buf) : x.start = itrs[g].itr /\ Span(x) \subseteq Span(itrs[g])
      BY <3>2, <3>3 DEF RunIn
    <3>5. Span(t[i]) = Span(itrs[g])
      BY <2>1, <3>1 DEF Span
    <3>6. PICK j \in 1 .. Len(buf) : x = buf[j]
      BY DEF Elements
    <3>7. x.start \in Span(x) /\ x.start \in Nat /\ x.end \in Nat /\ x.start < x.end
      BY <1>4, <3>6, SMTT(60) DEF Span
    <3>8. x.start >= itrs[g].start
      BY <1>13, <3>4, <3>7, SMTT(60) DEF Span
    <3>9. x.end > next
      BY <1>8, <1>13, <3>1, <3>7, <3>8, SMTT(60)
    <3>10. ~ (j \in 1 .. k)
      BY <1>7, <1>8, <3>6, <3>7, <3>9, SMTT(60)
    <3>11. j - k \in 1 .. Len(buf) - k /\ k + (j - k) = j
      BY <1>4, <3>10
    <3>12. left[j - k] = x /\ j - k \in 1 .. Len(left)
      BY <1>5, <3>6, <3>11
    <3>13. x \in Elements(left)
      BY <3>12 DEF Elements
    <3>. QED
      BY <2>1, <3>4, <3>5, <3>13
  <2>. QED
    BY <2>2, <2>3 DEF RunIn
<1>18. ASSUME NEW a \in 1 .. Len(t), NEW b \in 1 .. Len(t), a < b PROVE t[a].end < t[b].start
  <2>1. PICK g \in 1 .. Len(itrs) : g = m + a - 1 /\ t[a].end = itrs[g].end
    BY <1>15
  <2>2. PICK h \in 1 .. Len(itrs) : h = m + b - 1 /\ t[b].start = Higher(itrs[h].start, next)
    BY <1>15
  <2>3. g < h
    BY <1>12, <1>18, <2>1, <2>2
  <2>4. itrs[g].end < itrs[h].start /\ itrs[g].end \in Nat /\ itrs[h].start \in Nat
    BY <1>13, <1>14, <2>3
  <2>5. itrs[h].start <= t[b].start /\ t[b].start \in Nat
    <3>1. PICK x \in Nat : x = itrs[h].start
      BY <2>4
    <3>2. x <= Higher(x, next) /\ Higher(x, next) \in Nat
      BY <1>8 DEF Higher
    <3>. QED
      BY <2>2, <3>1, <3>2
  <2>6. PICK x \in Nat, y \in Nat, z \in Nat : x = itrs[g].end /\ y = itrs[h].start /\ z = t[b].start
    BY <2>4, <2>5
  <2>7. x < y /\ y <= z
    BY <2>4, <2>5, <2>6
  <2>8. x < z
    BY <2>7
  <2>. QED
    BY <2>1, <2>6, <2>8
<1>. QED
  BY <1>11, <1>16, <1>17, <1>18 DEF RunsOf, Spaced

LEMMA MovedRuns ==
  ASSUME NEW n \in Nat, NEW buf \in Seq(Segs(n)), NEW itrs \in Seq(Runs(n)), NEW queue,
         rcvNxt \in 0 .. n, RunsOf(buf, itrs, rcvNxt), MoveToRcvQueue(buf, itrs, queue), BufAhead'
  PROVE  RunsInv'
<1>1. PICK next : next = rcvNxt'
  OBVIOUS
<1>2. PICK left : left = rcvBuf'
  OBVIOUS
<1>3. Covered(left) \cap 0 .. next - 1 = {}
  BY <1>1, <1>2 DEF BufAhead
<1>4. RunsOf(left, RunsFrom(itrs, next), next)
  BY <1>1, <1>2, <1>3, MoveRuns
<1>5. rcvBufItrs' = RunsFrom(itrs, next)
  BY <1>1 DEF MoveToRcvQueue
<1>. QED
  BY <1>1, <1>2, <1>4, <1>5 DEF RunsInv

LEMMA InitRunsInv == Init => RunsInv
<1>. SUFFICES ASSUME Init PROVE RunsInv
  OBVIOUS
<1>1. rcvBuf = <<>> /\ rcvBufItrs = <<>>
  BY DEF Init
<1>. QED
  BY <1>1 DEF RunsInv, RunsOf, Spaced

(* The data of a packet joins the runs, and moveToRcvQueue cuts them.      *)
LEMMA InputDataRuns ==
  ASSUME ByteInv, RunsInv, BufAhead', NEW r, r.start \in Nat, r.end \in Nat, r.start < r.end, InputData(r)
  PROVE  RunsInv'
<1>. DEFINE stay == Recut(intBuf, r, LAMBDA x : Unanswered(x, r))
<1>1. PICK got : got = Answered(intBuf, r)
  OBVIOUS
<1>2. PICK n \in Nat : n = sendStart
  BY DEF ByteInv, StreamInv, NumberTypes
<1>3. /\ intBuf \in Seq(Ints(n)) /\ rcvBuf \in Seq(Segs(n)) /\ rcvBufItrs \in Seq(Runs(n))
      /\ rcvNxt \in 0 .. n /\ rcvNxt \in Nat
  BY <1>2 DEF ByteInv, StreamInv, ListTypes, NumberTypes
<1>4. /\ stay \in Seq(Ints(n)) /\ got \in Seq(Ints(n))
  <2>1. stay \in Seq(Ints(n)) /\ Answered(intBuf, r) \in Seq(Ints(n))
    BY <1>3, UnansweredType
  <2>. QED
    BY <1>1, <2>1
<1>5. /\ Amount(stay) + Amount(got) = Amount(intBuf)
      /\ Covered(stay) \cup Covered(got) = Covered(intBuf)
  BY <1>1, <1>3, UnansweredBytes
<1>. HIDE DEF stay
<1>6. Taken(stay, got)
  BY <1>2, <1>4, <1>5 DEF Taken
<1>7. PICK all : all = rcvBuf \o got
  OBVIOUS
<1>8. /\ \A i, j \in 1 .. Len(all) : i < j => Span(all[i]) \cap Span(all[j]) = {}
      /\ Covered(all) \cap 0 .. rcvNxt - 1 = {}
  BY <1>6, <1>7, BufApart
<1>9. /\ Len(rcvBuf) \in Nat /\ Len(got) \in Nat /\ Len(all) = Len(rcvBuf) + Len(got)
      /\ \A i \in 1 .. Len(rcvBuf) : all[i] = rcvBuf[i]
      /\ \A i \in 1 .. Len(got) : all[Len(rcvBuf) + i] = got[i]
  BY <1>3, <1>4, <1>7, SMTT(60)
<1>10. ASSUME NEW i \in 1 .. Len(got)
       PROVE  rcvNxt <= got[i].start /\ Span(got[i]) \cap Covered(rcvBuf) = {}
  <2>1. Len(rcvBuf) + i \in 1 .. Len(all) /\ all[Len(rcvBuf) + i] = got[i]
    BY <1>9
  <2>2. got[i].start \in Span(got[i]) /\ got[i].start \in Nat
    <3>1. got[i] \in Ints(n)
      BY <1>4
    <3>. QED
      BY <3>1 DEF Ints, Span
  <2>3. got[i].start \in Covered(all)
    BY <2>1, <2>2 DEF Covered
  <2>4. got[i].start \notin 0 .. rcvNxt - 1
    BY <1>8, <2>3
  <2>5. ASSUME NEW b \in Span(got[i]), b \in Covered(rcvBuf) PROVE FALSE
    <3>1. PICK j \in 1 .. Len(rcvBuf) : b \in Span(rcvBuf[j])
      BY <2>5 DEF Covered
    <3>2. j \in 1 .. Len(all) /\ j < Len(rcvBuf) + i /\ all[j] = rcvBuf[j]
      BY <1>9
    <3>3. Span(all[j]) \cap Span(all[Len(rcvBuf) + i]) = {}
      BY <1>8, <2>1, <3>2
    <3>. QED
      BY <2>1, <3>1, <3>2, <3>3
  <2>. QED
    BY <1>3, <2>2, <2>4, <2>5
<1>11. ASSUME NEW i \in 1 .. Len(got), NEW j \in 1 .. Len(got), i < j
       PROVE  Span(got[i]) \cap Span(got[j]) = {}
  <2>0. Len(rcvBuf) + i \in 1 .. Len(all) /\ Len(rcvBuf) + j \in 1 .. Len(all)
    BY <1>9
  <2>1. PICK g \in 1 .. Len(all), h \in 1 .. Len(all) : g = Len(rcvBuf) + i /\ h = Len(rcvBuf) + j
    BY <2>0
  <2>2. g < h /\ all[g] = got[i] /\ all[h] = got[j]
    BY <1>9, <1>11, <2>1
  <2>. QED
    BY <1>8, <2>2
<1>12. RunsOf(rcvBuf, rcvBufItrs, rcvNxt)
  BY DEF RunsInv
<1>13. PICK new : new = Inserted(got)
  OBVIOUS
<1>14. RunsOf(new.buf, new.itrs, rcvNxt)
  BY <1>3, <1>4, <1>10, <1>11, <1>12, <1>13, InsertedRuns
<1>15. new.buf \in Seq(Segs(n)) /\ new.itrs \in Seq(Runs(n))
  BY <1>3, <1>4, <1>13, InsertedType
<1>16. MoveToRcvQueue(new.buf, new.itrs, rcvQueue)
  BY <1>1, <1>13 DEF InputData
<1>17. PICK buf \in Seq(Segs(n)), itrs \in Seq(Runs(n)) : buf = new.buf /\ itrs = new.itrs
  BY <1>15
<1>18. RunsOf(buf, itrs, rcvNxt) /\ MoveToRcvQueue(buf, itrs, rcvQueue)
  BY <1>14, <1>16, <1>17
<1>. QED
  BY <1>3, <1>18, MovedRuns

(* The other steps leave rcvBuf and its runs as they are, or clear both.   *)
LEMMA NextRunsInv ==
  ASSUME ByteInv, RunsInv, BufAhead', [Next]_vars
  PROVE  RunsInv'
<1>1. CASE Request
  BY <1>1 DEF Request, rcvVars, RunsInv
<1>2. CASE Input
  <2>1. PICK s \in 0 .. asked, e \in 0 .. asked :
          s < e /\ (InputData(Seg(s, e)) \/ InputHeader(Seg(s, e)))
    BY <1>2 DEF Input
  <2>2. s \in Nat /\ e \in Nat
    BY DEF ByteInv, StreamInv, NumberTypes
  <2>3. PICK r : r = Seg(s, e)
    OBVIOUS
  <2>4. r.start \in Nat /\ r.end \in Nat /\ r.start < r.end
    BY <2>1, <2>2, <2>3 DEF Seg
  <2>5. CASE InputData(r)
    BY <2>4, <2>5, InputDataRuns
  <2>6. CASE InputHeader(r)
    BY <2>6 DEF InputHeader, rcvVars, RunsInv
  <2>. QED
    BY <2>1, <2>3, <2>5, <2>6
<1>3. CASE Recv
  <2>1. PICK n \in Nat : n = sendStart
    BY DEF ByteInv, StreamInv, NumberTypes
  <2>2. rcvBuf \in Seq(Segs(n)) /\ rcvBufItrs \in Seq(Runs(n)) /\ rcvNxt \in 0 .. n
    BY <2>1 DEF ByteInv, StreamInv, ListTypes, NumberTypes
  <2>3. PICK queue : MoveToRcvQueue(rcvBuf, rcvBufItrs, queue)
    BY <1>3 DEF Recv
  <2>. QED
    BY <2>2, <2>3, MovedRuns DEF RunsInv
<1>4. ASSUME NEW clear \in BOOLEAN, Update(clear)
      PROVE  RunsInv'
  <2>1. /\ rcvBuf' = IF clear THEN <<>> ELSE rcvBuf
        /\ rcvBufItrs' = IF clear THEN <<>> ELSE rcvBufItrs
        /\ rcvNxt' = rcvNxt
    BY <1>4 DEF Update, UpdateAdding, Flush
  <2>2. CASE clear
    <3>1. rcvBuf' = <<>> /\ rcvBufItrs' = <<>>
      BY <2>1, <2>2
    <3>. QED
      BY <3>1 DEF RunsInv, RunsOf, Spaced
  <2>3. CASE ~ clear
    BY <2>1, <2>3 DEF RunsInv
  <2>. QED
    BY <2>2, <2>3
<1>5. CASE InterestTimeout
  BY <1>5 DEF InterestTimeout, rcvVars, RunsInv
<1>6. CASE HoleAges
  BY <1>6 DEF HoleAges, rcvVars, RunsInv
<1>7. CASE UNCHANGED vars
  BY <1>7 DEF vars, rcvVars, RunsInv
<1>. QED
  BY <1>1, <1>2, <1>3, <1>4, <1>5, <1>6, <1>7 DEF Next

-----------------------------------------------------------------------------
(* The theorems.                                                           *)

(* In every reachable state the lists of the requester and the application *)
(* share out the bytes requested, and intBufBytes is the size of intBuf.   *)
THEOREM ByteInvariant == Spec => []ByteInv
  BY InitByteInv, NextByteInv, PTL DEF Spec

(* Every byte requested is in exactly one place: in intQueue or intBuf, in *)
(* rcvBuf or rcvQueue, handed to the application, or dropped by the        *)
(* statistics of update (parseData, moveToRcvQueue, recv, update;          *)
(* leotp.cpp:651-788, 815-857, 121-167, 1371-1412).                        *)
THEOREM BytesAlwaysOnce == Spec => []EveryByteOnce
  BY ByteInvariant, ByteInvSays, PTL

(* intBufBytes, on which request and flushIntBuf decide, is always the     *)
(* size of the interests in intBuf (leotp.cpp:760, 1079).                  *)
THEOREM IntBufAlwaysAccounted == Spec => []IntBufAccounted
  BY ByteInvariant, ByteInvSays, PTL

(* No step makes a byte outstanding again that was answered: only request  *)
(* adds bytes, and only new ones (parseData, updateIntBuf, flushIntQueue). *)
THEOREM AnsweredNeverReturns == Spec => AnsweredStays
<1>1. ByteInv /\ [Next]_vars => [Outstanding' \subseteq Outstanding \cup (sendStart .. sendStart' - 1)]_vars
  <2>. SUFFICES ASSUME ByteInv, Next
                PROVE  Outstanding' \subseteq Outstanding \cup (sendStart .. sendStart' - 1)
    OBVIOUS
  <2>1. StreamInv /\ StreamInv'
    BY NextInv DEF ByteInv
  <2>2. CASE Request
    <3>1. intQueue' = Append(intQueue, Seg(sendStart, sendStart')) /\ intBuf' = intBuf
      BY <2>2 DEF Request
    <3>2. Seg(sendStart, sendStart') \in Segs(sendStart') /\ intQueue \in Seq(Segs(sendStart'))
      <4>1. sendStart \in Nat /\ sendStart' \in Nat /\ sendStart < sendStart' /\ intQueue \in Seq(Segs(sendStart))
        BY <2>1, <2>2, RequesterAssumption DEF Request, StreamInv, ListTypes, NumberTypes
      <4>. QED
        BY <4>1, SegsGrow DEF Seg, Segs
    <3>3. Covered(intQueue') = Covered(intQueue) \cup Span(Seg(sendStart, sendStart'))
      BY <3>1, <3>2, SegsSized, AppendBytes
    <3>. QED
      BY <3>1, <3>3 DEF Outstanding, Span, Seg
  <2>3. CASE Input
    <3>1. PICK s \in 0 .. asked, e \in 0 .. asked :
            s < e /\ (InputData(Seg(s, e)) \/ InputHeader(Seg(s, e)))
      BY <2>3 DEF Input
    <3>2. s \in Nat /\ e \in Nat
      BY <2>1 DEF StreamInv, NumberTypes
    <3>3. PICK r : r = Seg(s, e)
      OBVIOUS
    <3>4. r.start \in Nat /\ r.end \in Nat /\ r.start < r.end
      BY <3>1, <3>2, <3>3 DEF Seg
    <3>5. CASE InputData(r)
      <4>1. intQueue' = intQueue /\ intBuf' = Recut(intBuf, r, LAMBDA x : Unanswered(x, r))
        BY <3>5 DEF InputData
      <4>2. sendStart \in Nat /\ intBuf \in Seq(Ints(sendStart))
        BY <2>1 DEF StreamInv, ListTypes, NumberTypes
      <4>3. Covered(Recut(intBuf, r, LAMBDA x : Unanswered(x, r))) \cup Covered(Answered(intBuf, r))
              = Covered(intBuf)
        BY <3>4, <4>2, UnansweredBytes
      <4>4. Covered(intBuf') \subseteq Covered(intBuf)
        BY <4>1, <4>3
      <4>. QED
        BY <4>1, <4>4 DEF Outstanding
    <3>6. CASE InputHeader(r)
      BY <3>6 DEF InputHeader, intVars, Outstanding
    <3>. QED
      BY <3>1, <3>3, <3>5, <3>6
  <2>4. CASE Recv
    BY <2>4 DEF Recv, intVars, Outstanding
  <2>5. ASSUME NEW clear \in BOOLEAN, Update(clear)
        PROVE  Outstanding' \subseteq Outstanding
    <3>1. Flush
      BY <2>5 DEF Update, UpdateAdding, Flush
    <3>2. intQueue' = <<>> /\ Covered(intBuf') = Covered(intBuf) \cup Covered(intQueue)
      BY <2>1, <3>1, FlushBytes
    <3>. QED
      BY <3>2, CoveredNone DEF Outstanding
  <2>6. CASE InterestTimeout
    <3>1. intQueue' = intQueue
      BY <2>6 DEF InterestTimeout
    <3>2. PICK i \in 1 .. Len(intBuf) : intBuf' = [intBuf EXCEPT ![i].late = TRUE]
      BY <2>6 DEF InterestTimeout
    <3>3. Covered(intBuf') = Covered(intBuf)
      BY <2>1, <3>2, LateBytes
    <3>. QED
      BY <3>1, <3>3 DEF Outstanding
  <2>7. CASE HoleAges
    BY <2>7 DEF HoleAges, intVars, Outstanding
  <2>. QED
    BY <2>2, <2>3, <2>4, <2>5, <2>6, <2>7 DEF Next
<1>. QED
  BY <1>1, ByteInvariant, PTL DEF Spec, AnsweredStays

(* Every variable keeps its type and bounds: what flush may send never     *)
(* goes below zero, no interest is transmitted more than LEOTP_DEADLINK    *)
(* times, and no list leaves the bytes that were requested.                *)
THEOREM RequesterTypeCorrect == Spec => []TypeOK
  BY InitTypeInv, NextTypeInv, TypeInvSays, PTL DEF Spec

(* Until the first RTT sample the requester never asks for more than the   *)
(* initial credit, and interests it sends again are paid from it, too      *)
(* (flushIntBuf; leotp.cpp:1096-1102, 1152-1166).                          *)
THEOREM CreditAlwaysKept == Spec => []CreditKept
<1>2. CreditInv => CreditKept
  BY DEF CreditInv
<1>. QED
  BY <1>2, InitCreditInv, NextCreditInv, PTL DEF Spec

(* Whatever order data arrives in, and although rcvBuf may then be out of  *)
(* order, rcvBufItrs has the maximal runs of rcvBuf, and the iterator that *)
(* parseData inserts before points into the run it stands for              *)
(* (leotp.cpp:686-748, 815-857).                                           *)
THEOREM RunsAlwaysDescribe == Spec => []RunsDescribeBuf
<1>1. Spec => []ByteInv
  BY ByteInvariant
<1>2. ByteInv => BufAhead /\ StreamInv
  BY BufIsAhead DEF ByteInv
<1>3. Init => RunsInv
  BY InitRunsInv
<1>4. ByteInv /\ BufAhead' /\ RunsInv /\ [Next]_vars => RunsInv'
  BY NextRunsInv
<1>5. StreamInv /\ RunsInv => RunsDescribeBuf
  BY RunsInvSays
<1>. QED
  BY <1>1, <1>2, <1>3, <1>4, <1>5, PTL DEF Spec
=============================================================================
