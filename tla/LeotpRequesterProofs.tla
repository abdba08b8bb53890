------------------------ MODULE LeotpRequesterProofs ------------------------
(***************************************************************************)
(* Theorems on the requester, for every segment size, window, request size *)
(* and pattern of loss, repetition and reordering: rcvQueue is in order,   *)
(* and the application is handed the bytes it asked for, each once and in  *)
(* order (the requester implements LeotpStream).                           *)
(***************************************************************************)
EXTENDS LeotpRequester, LeotpHolesProofs

-----------------------------------------------------------------------------
(* The inductive invariant.  Only non-empty ranges below n = sendStart are *)
(* ever in the lists that become segments.  Sends(n, V) are the interests  *)
(* that were sent a number of times in V.                                  *)

Segs(n)  == {r \in [start : Nat, end : Nat] : r.start < r.end /\ r.end <= n}
Ints(n)  == {x \in [start : Nat, end : Nat, xmit : Nat, late : BOOLEAN] :
               x.start < x.end /\ x.end <= n}
Sends(n, V) == {x \in [start : Nat, end : Nat, xmit : V, late : BOOLEAN] :
                  x.start < x.end /\ x.end <= n}
Runs(n)  == [start : 0 .. n, end : 0 .. n, itr : 0 .. n]

ListTypes ==
  /\ intQueue \in Seq(Segs(sendStart))
  /\ intBuf \in Seq(Ints(sendStart))
  /\ rcvBuf \in Seq(Segs(sendStart))
  /\ rcvQueue \in Seq(Segs(sendStart))
  /\ rcvBufItrs \in Seq(Runs(sendStart))
  /\ dataHoles \in Seq(Gaps)

NumberTypes ==
  /\ sendStart \in Nat /\ asked \in 0 .. sendStart
  /\ dataNextRangeStart \in 0 .. asked /\ rcvNxt \in 0 .. sendStart
  /\ lastRead \in [start : 0 .. sendStart, end : 0 .. sendStart]

(* The requests in intQueue are one run of bytes up to sendStart.          *)
RequestsJoined ==
  /\ \A i \in 1 .. Len(intQueue) : i > 1 => intQueue[i].start = intQueue[i - 1].end
  /\ intQueue # <<>> => intQueue[Len(intQueue)].end = sendStart

StreamInv == ListTypes /\ NumberTypes /\ RequestsJoined /\ QueueInOrder

-----------------------------------------------------------------------------
(* Pieces of a range.                                                      *)

LEMMA SendPieces ==
  ASSUME NEW n \in Nat, NEW V, NEW x \in Sends(n, V), NEW r, r.start \in Nat, r.end \in Nat, r.start < r.end
  PROVE  /\ Before(x, r) \in Seq(Sends(n, V))
         /\ Inside(x, r) \in Seq(Sends(n, V))
         /\ After(x, r) \in Seq(Sends(n, V))
<1>1. x.start < r.start => [x EXCEPT !.end = Lower(@, r.start)] \in Sends(n, V)
  BY DEF Sends, Lower
<1>2. Overlap(x, r) => [x EXCEPT !.start = Higher(@, r.start), !.end = Lower(@, r.end)] \in Sends(n, V)
  <2>. SUFFICES ASSUME Overlap(x, r)
                PROVE  [x EXCEPT !.start = Higher(@, r.start), !.end = Lower(@, r.end)] \in Sends(n, V)
    OBVIOUS
  <2>1. /\ x \in [start : Nat, end : Nat, xmit : V, late : BOOLEAN]
        /\ x.start < x.end /\ x.end <= n /\ x.start \in Nat /\ x.end \in Nat
    BY DEF Sends
  <2>2. /\ Higher(x.start, r.start) \in Nat /\ Lower(x.end, r.end) \in Nat
        /\ Lower(x.end, r.end) <= n
    BY <2>1 DEF Higher, Lower
  <2>3. Higher(x.start, r.start) < Lower(x.end, r.end)
    BY <2>1 DEF Higher, Lower, Overlap
  <2>. QED
    BY <2>1, <2>2, <2>3 DEF Sends
<1>3. x.end > r.end => [x EXCEPT !.start = Higher(@, r.end)] \in Sends(n, V)
  BY DEF Sends, Higher
<1>. QED
  BY <1>1, <1>2, <1>3 DEF Before, Inside, After

(* parseData: what stays of the interests, and what moves to rcvBuf.       *)
LEMMA UnansweredSends ==
  ASSUME NEW n \in Nat, NEW V, NEW buf \in Seq(Sends(n, V)), NEW r, r.start \in Nat, r.end \in Nat, r.start < r.end
  PROVE  /\ Recut(buf, r, LAMBDA x : Unanswered(x, r)) \in Seq(Sends(n, V))
         /\ Answered(buf, r) \in Seq(Sends(n, V))
<1>. DEFINE us == [i \in 1 .. Len(buf) |-> IF i \in Scanned(buf, r) THEN Unanswered(buf[i], r) ELSE <<buf[i]>>]
            ps == [i \in 1 .. Len(buf) |-> IF i \in Scanned(buf, r) THEN Inside(buf[i], r) ELSE <<>>]
<1>1. ASSUME NEW i \in 1 .. Len(buf)
      PROVE  /\ buf[i] \in Sends(n, V)
             /\ Unanswered(buf[i], r) \in Seq(Sends(n, V))
             /\ Inside(buf[i], r) \in Seq(Sends(n, V))
  <2>1. buf[i] \in Sends(n, V)
    OBVIOUS
  <2>2. Before(buf[i], r) \in Seq(Sends(n, V)) /\ Inside(buf[i], r) \in Seq(Sends(n, V))
        /\ After(buf[i], r) \in Seq(Sends(n, V))
    BY <2>1, SendPieces
  <2>. QED
    BY <2>1, <2>2 DEF Unanswered
<1>2. us \in [1 .. Len(buf) -> Seq(Sends(n, V))]
  BY <1>1
<1>3. ps \in [1 .. Len(buf) -> Seq(Sends(n, V))]
  BY <1>1
<1>. HIDE DEF us, ps
<1>4. Concat(Len(buf), us) \in Seq(Sends(n, V))
  BY <1>2, ConcatType
<1>5. Concat(Len(buf), ps) \in Seq(Sends(n, V))
  BY <1>3, ConcatType
<1>. QED
  BY <1>4, <1>5 DEF Recut, Answered, us, ps

(* updateIntBuf.                                                           *)
RestampParts(x, h) ==
  Before(x, h) \o (IF Inside(x, h) = <<>> THEN <<>>
                   ELSE <<[Inside(x, h)[1] EXCEPT !.late = FALSE]>>) \o After(x, h)

LEMMA RestampPartsType ==
  ASSUME NEW n \in Nat, NEW V, NEW x \in Sends(n, V), NEW h, h.start \in Nat, h.end \in Nat, h.start < h.end
  PROVE  RestampParts(x, h) \in Seq(Sends(n, V))
<1>1. Before(x, h) \in Seq(Sends(n, V)) /\ Inside(x, h) \in Seq(Sends(n, V))
      /\ After(x, h) \in Seq(Sends(n, V))
  BY SendPieces
<1>2. Inside(x, h) # <<>> => [Inside(x, h)[1] EXCEPT !.late = FALSE] \in Sends(n, V)
  <2>1. Inside(x, h) # <<>> => Inside(x, h)[1] \in Sends(n, V)
    BY <1>1
  <2>. QED
    BY <2>1 DEF Sends
<1>. QED
  BY <1>1, <1>2 DEF RestampParts

LEMMA RestampSends ==
  ASSUME NEW n \in Nat, NEW V, NEW buf \in Seq(Sends(n, V)), NEW h, h.start \in Nat, h.end \in Nat, h.start < h.end
  PROVE  Restamp(buf, h) \in Seq(Sends(n, V))
<1>. DEFINE ps == [i \in 1 .. Len(buf) |-> IF i \in Scanned(buf, h) THEN RestampParts(buf[i], h) ELSE <<buf[i]>>]
<1>1. ASSUME NEW i \in 1 .. Len(buf)
      PROVE  buf[i] \in Sends(n, V) /\ RestampParts(buf[i], h) \in Seq(Sends(n, V))
  <2>1. buf[i] \in Sends(n, V)
    OBVIOUS
  <2>. QED
    BY <2>1, RestampPartsType
<1>2. ps \in [1 .. Len(buf) -> Seq(Sends(n, V))]
  BY <1>1
<1>. HIDE DEF ps
<1>3. Concat(Len(buf), ps) \in Seq(Sends(n, V))
  BY <1>2, ConcatType
<1>. QED
  BY <1>3 DEF Restamp, Recut, ps, RestampParts

(* The same of all interests.                                              *)
LEMMA IntsAreSends == ASSUME NEW n PROVE Ints(n) = Sends(n, Nat)
BY DEF Ints, Sends

LEMMA IntPieces ==
  ASSUME NEW n \in Nat, NEW x \in Ints(n), NEW r, r.start \in Nat, r.end \in Nat, r.start < r.end
  PROVE  /\ Before(x, r) \in Seq(Ints(n))
         /\ Inside(x, r) \in Seq(Ints(n))
         /\ After(x, r) \in Seq(Ints(n))
BY IntsAreSends, SendPieces

LEMMA UnansweredType ==
  ASSUME NEW n \in Nat, NEW buf \in Seq(Ints(n)), NEW r, r.start \in Nat, r.end \in Nat, r.start < r.end
  PROVE  /\ Recut(buf, r, LAMBDA x : Unanswered(x, r)) \in Seq(Ints(n))
         /\ Answered(buf, r) \in Seq(Ints(n))
<1>1. Ints(n) = Sends(n, Nat)
  BY IntsAreSends
<1>2. buf \in Seq(Sends(n, Nat))
  BY <1>1
<1>3. /\ Recut(buf, r, LAMBDA x : Unanswered(x, r)) \in Seq(Sends(n, Nat))
      /\ Answered(buf, r) \in Seq(Sends(n, Nat))
  BY <1>2, UnansweredSends
<1>. QED
  BY <1>1, <1>3

LEMMA RestampType ==
  ASSUME NEW n \in Nat, NEW buf \in Seq(Ints(n)), NEW h, h.start \in Nat, h.end \in Nat, h.start < h.end
  PROVE  Restamp(buf, h) \in Seq(Ints(n))
BY IntsAreSends, RestampSends

-----------------------------------------------------------------------------
(* rcvBuf and rcvBufItrs.                                                  *)

LEMMA InsertBeforeType ==
  ASSUME NEW T, NEW s \in Seq(T), NEW i \in 1 .. Len(s) + 1, NEW x \in T
  PROVE  InsertBefore(s, i, x) \in Seq(T)
<1>1. Len(s) \in Nat /\ \A j \in 1 .. Len(s) : s[j] \in T
  OBVIOUS
<1>2. SubSeq(s, 1, i - 1) \in Seq(T)
  <2>1. i - 1 \in Int /\ \A j \in 1 .. i - 1 : s[j] \in T
    BY <1>1
  <2>. QED
    BY <2>1, SubSeqProperties
<1>3. SubSeq(s, i, Len(s)) \in Seq(T)
  <2>1. i \in Int /\ Len(s) \in Int /\ \A j \in i .. Len(s) : s[j] \in T
    BY <1>1
  <2>. QED
    BY <2>1, SubSeqProperties
<1>4. <<x>> \in Seq(T)
  OBVIOUS
<1>. QED
  BY <1>2, <1>3, <1>4 DEF InsertBefore

LEMMA RemoveFromType ==
  ASSUME NEW T, NEW s \in Seq(T), NEW i \in 1 .. Len(s)
  PROVE  RemoveFrom(s, i) \in Seq(T)
<1>1. Len(s) \in Nat /\ \A j \in 1 .. Len(s) : s[j] \in T
  OBVIOUS
<1>2. SubSeq(s, 1, i - 1) \in Seq(T)
  <2>1. i - 1 \in Int /\ \A j \in 1 .. i - 1 : s[j] \in T
    BY <1>1
  <2>. QED
    BY <2>1, SubSeqProperties
<1>3. SubSeq(s, i + 1, Len(s)) \in Seq(T)
  <2>1. i + 1 \in Int /\ Len(s) \in Int /\ \A j \in i + 1 .. Len(s) : s[j] \in T
    BY <1>1
  <2>. QED
    BY <2>1, SubSeqProperties
<1>. QED
  BY <1>2, <1>3 DEF RemoveFrom

LEMMA BufWithType ==
  ASSUME NEW T, NEW m, NEW buf \in Seq(T), NEW itrs \in Seq(Runs(m)), NEW p \in T
  PROVE  BufWith(buf, itrs, p) \in Seq(T)
<1>. DEFINE n == NextRun(itrs, p)
            i == Target(buf, itrs[n].itr)
<1>1. i \in 1 .. Len(buf) + 1
  <2>. DEFINE S == {k \in 1 .. Len(buf) + 1 : k <= Len(buf) => buf[k].start = itrs[n].itr}
  <2>1. Len(buf) \in Nat /\ S \subseteq 1 .. Len(buf) + 1 /\ Len(buf) + 1 \in S
    OBVIOUS
  <2>2. i = First(S)
    BY DEF Target
  <2>. HIDE DEF S, i
  <2>. QED
    BY <2>1, <2>2, SearchStops
<1>. HIDE DEF n, i
<1>2. InsertBefore(buf, i, p) \in Seq(T)
  BY <1>1, InsertBeforeType
<1>. QED
  BY <1>2 DEF BufWith, n, i

LEMMA ItrsWithType ==
  ASSUME NEW m \in Nat, NEW itrs \in Seq(Runs(m)), NEW p, p.start \in 0 .. m, p.end \in 0 .. m
  PROVE  ItrsWith(itrs, p) \in Seq(Runs(m))
<1>. DEFINE n        == NextRun(itrs, p)
            prevCont == n > 1 /\ itrs[n - 1].end = p.start
            nextCont == n <= Len(itrs) /\ itrs[n].start = p.end
            new      == [start |-> p.start, end |-> p.end, itr |-> p.start]
<1>1. Len(itrs) \in Nat /\ n \in 1 .. Len(itrs) + 1
  <2>. DEFINE S == {k \in 1 .. Len(itrs) + 1 : k <= Len(itrs) => itrs[k].start >= p.end}
  <2>1. Len(itrs) \in Nat /\ S \subseteq 1 .. Len(itrs) + 1 /\ Len(itrs) + 1 \in S
    OBVIOUS
  <2>2. n = First(S)
    BY DEF NextRun
  <2>. HIDE DEF S, n
  <2>. QED
    BY <2>1, <2>2, SearchStops
<1>. HIDE DEF n
<1>2. new \in Runs(m)
  BY DEF Runs
<1>3. InsertBefore(itrs, n, new) \in Seq(Runs(m))
  BY <1>1, <1>2, InsertBeforeType
<1>4. ASSUME prevCont
      PROVE  n - 1 \in 1 .. Len(itrs) /\ [itrs EXCEPT ![n - 1].end = p.end] \in Seq(Runs(m))
  <2>1. n - 1 \in 1 .. Len(itrs) /\ itrs[n - 1] \in Runs(m)
    BY <1>1, <1>4
  <2>2. [itrs[n - 1] EXCEPT !.end = p.end] \in Runs(m)
    BY <2>1 DEF Runs
  <2>. QED
    BY <2>1, <2>2
<1>5. ASSUME nextCont
      PROVE  n \in 1 .. Len(itrs) /\ itrs[n].end \in 0 .. m /\ [itrs EXCEPT ![n].start = p.start] \in Seq(Runs(m))
  <2>1. n \in 1 .. Len(itrs) /\ itrs[n] \in Runs(m)
    BY <1>1, <1>5
  <2>2. [itrs[n] EXCEPT !.start = p.start] \in Runs(m) /\ itrs[n].end \in 0 .. m
    BY <2>1 DEF Runs
  <2>. QED
    BY <2>1, <2>2
<1>6. ASSUME prevCont, nextCont
      PROVE  RemoveFrom([itrs EXCEPT ![n - 1].end = itrs[n].end], n) \in Seq(Runs(m))
  <2>1. n - 1 \in 1 .. Len(itrs) /\ n \in 1 .. Len(itrs) /\ itrs[n - 1] \in Runs(m) /\ itrs[n].end \in 0 .. m
    BY <1>4, <1>5, <1>6
  <2>2. [itrs[n - 1] EXCEPT !.end = itrs[n].end] \in Runs(m)
    BY <2>1 DEF Runs
  <2>3. /\ [itrs EXCEPT ![n - 1].end = itrs[n].end] \in Seq(Runs(m))
        /\ Len([itrs EXCEPT ![n - 1].end = itrs[n].end]) = Len(itrs)
    BY <2>1, <2>2
  <2>. QED
    BY <2>1, <2>3, RemoveFromType
<1>. QED
  BY <1>3, <1>4, <1>5, <1>6 DEF ItrsWith, n

(* What parseData makes of rcvBuf and rcvBufItrs.                          *)
AfterPiece(x, p) == [buf |-> BufWith(x.buf, x.itrs, p), itrs |-> ItrsWith(x.itrs, p)]

(* f has the lists after each of the pieces ps.                            *)
Inserting(n, ps, f) ==
  /\ f \in [0 .. Len(ps) -> [buf : Seq(Segs(n)), itrs : Seq(Runs(n))]]
  /\ f[0] = [buf |-> rcvBuf, itrs |-> rcvBufItrs]
  /\ \A i \in 1 .. Len(ps) : f[i] = AfterPiece(f[i - 1], Seg(ps[i].start, ps[i].end))

LEMMA InsertedSteps ==
  ASSUME NEW n \in Nat, rcvBuf \in Seq(Segs(n)), rcvBufItrs \in Seq(Runs(n)),
         NEW ps \in Seq(Ints(n))
  PROVE  \E f : Inserting(n, ps, f) /\ Inserted(ps) = f[Len(ps)]
<1>. DEFINE S == [buf : Seq(Segs(n)), itrs : Seq(Runs(n))]
            a == [buf |-> rcvBuf, itrs |-> rcvBufItrs]
            Next1(x, i) == LET p == Seg(ps[i].start, ps[i].end)
                           IN [buf |-> BufWith(x.buf, x.itrs, p), itrs |-> ItrsWith(x.itrs, p)]
            Step(f, i) == IF i = 0 THEN a ELSE Next1(f[i - 1], i)
            f == CHOOSE f : f = [i \in 0 .. Len(ps) |-> Step(f, i)]
            G == [q \in S \X Nat |-> IF q[2] \in 1 .. Len(ps) THEN Next1(q[1], q[2]) ELSE a]
<1>1. a \in S /\ Len(ps) \in Nat
  OBVIOUS
<1>2. ASSUME NEW x \in S, NEW i \in 1 .. Len(ps)
      PROVE  Next1(x, i) \in S
  <2>1. ps[i] \in Ints(n)
    OBVIOUS
  <2>2. Seg(ps[i].start, ps[i].end) \in Segs(n)
    BY <2>1 DEF Ints, Segs, Seg
  <2>3. Seg(ps[i].start, ps[i].end).start \in 0 .. n /\ Seg(ps[i].start, ps[i].end).end \in 0 .. n
    BY <2>2 DEF Segs
  <2>4. x.buf \in Seq(Segs(n)) /\ x.itrs \in Seq(Runs(n))
    OBVIOUS
  <2>5. BufWith(x.buf, x.itrs, Seg(ps[i].start, ps[i].end)) \in Seq(Segs(n))
    BY <2>2, <2>4, BufWithType
  <2>6. ItrsWith(x.itrs, Seg(ps[i].start, ps[i].end)) \in Seq(Runs(n))
    BY <2>3, <2>4, ItrsWithType
  <2>. QED
    BY <2>5, <2>6
<1>. HIDE DEF S, a, Next1
<1>3. G \in [S \X Nat -> S]
  BY <1>1, <1>2
<1>4. ASSUME NEW x \in S, NEW i \in 1 .. Len(ps)
      PROVE  G[<<x, i>>] = Next1(x, i)
  <2>1. <<x, i>> \in S \X Nat
    OBVIOUS
  <2>. QED
    BY <2>1
<1>. HIDE DEF G
<1>5. PICK h \in [0 .. Len(ps) -> S] :
        h[0] = a /\ \A i \in 1 .. Len(ps) : h[i] = G[<<h[i - 1], i>>]
  <2>1. Solvable(Len(ps), S, a, G)
    BY <1>1, <1>3, RecursionExists
  <2>. QED
    BY <2>1 DEF Solvable
<1>6. h = [i \in 0 .. Len(ps) |-> Step(h, i)]
  <2>1. ASSUME NEW i \in 0 .. Len(ps)
        PROVE  h[i] = Step(h, i)
    <3>1. CASE i = 0
      BY <1>5, <3>1
    <3>2. CASE i # 0
      <4>1. i \in 1 .. Len(ps) /\ i - 1 \in 0 .. Len(ps)
        BY <1>1, <3>2
      <4>2. h[i - 1] \in S
        BY <1>5, <4>1
      <4>. QED
        BY <1>4, <1>5, <3>2, <4>1, <4>2
    <3>. QED
      BY <3>1, <3>2
  <2>. HIDE DEF Step
  <2>. QED
    BY <2>1
<1>7. f = [i \in 0 .. Len(ps) |-> Step(f, i)]
  <2>. HIDE DEF Step
  <2>. QED
    BY <1>6
<1>8. \A i \in 0 .. Len(ps) : f[i] = Step(f, i)
  <2>. HIDE DEF f, Step
  <2>. QED
    BY <1>7
<1>. HIDE DEF f
<1>9. f[0] = a /\ \A i \in 1 .. Len(ps) : f[i] = Next1(f[i - 1], i)
  BY <1>1, <1>8
<1>10. ASSUME NEW k \in 0 .. Len(ps)
       PROVE  f[k] \in S
  <2>1. k \in Nat /\ \A i \in 1 .. k : i \in 1 .. Len(ps)
    BY <1>1
  <2>2. ASSUME NEW i \in 1 .. k, f[i - 1] \in S
        PROVE  f[i] \in S
    <3>1. i \in 1 .. Len(ps)
      BY <2>1
    <3>2. f[i] = Next1(f[i - 1], i)
      BY <1>9, <3>1
    <3>. QED
      BY <1>2, <2>2, <3>1, <3>2
  <2>. QED
    BY <1>1, <1>9, <2>1, <2>2, RecursionStays
<1>11. f = [i \in 0 .. Len(ps) |-> f[i]]
  <2>. HIDE DEF Step
  <2>1. f = [i \in 0 .. Len(ps) |-> Step(f, i)]
    BY <1>7
  <2>2. [i \in 0 .. Len(ps) |-> Step(f, i)] = [i \in 0 .. Len(ps) |-> f[i]]
    BY <1>8
  <2>. QED
    BY <2>1, <2>2
<1>12. f \in [0 .. Len(ps) -> S]
  BY <1>10, <1>11
<1>13. Inserting(n, ps, f)
  BY <1>9, <1>12 DEF Inserting, AfterPiece, Next1, a, S
<1>14. Inserted(ps) = f[Len(ps)]
  BY DEF Inserted, a, Next1, f
<1>. QED
  BY <1>13, <1>14

LEMMA InsertedType ==
  ASSUME NEW n \in Nat, rcvBuf \in Seq(Segs(n)), rcvBufItrs \in Seq(Runs(n)),
         NEW ps \in Seq(Ints(n))
  PROVE  Inserted(ps).buf \in Seq(Segs(n)) /\ Inserted(ps).itrs \in Seq(Runs(n))
<1>1. PICK f : Inserting(n, ps, f) /\ Inserted(ps) = f[Len(ps)]
  BY InsertedSteps
<1>2. Len(ps) \in 0 .. Len(ps)
  OBVIOUS
<1>. QED
  BY <1>1, <1>2 DEF Inserting

-----------------------------------------------------------------------------
(* moveToRcvQueue.                                                         *)

(* queue is a chain of segments from last to next.                         *)
InOrder(queue, last, next) ==
  /\ \A i \in 1 .. Len(queue) :
       /\ queue[i].start < queue[i].end
       /\ queue[i].start = IF i = 1 THEN last ELSE queue[i - 1].end
  /\ next = IF queue = <<>> THEN last ELSE queue[Len(queue)].end

LEMMA RunsFromType ==
  ASSUME NEW n \in Nat, NEW itrs \in Seq(Runs(n)), NEW next \in 0 .. n
  PROVE  RunsFrom(itrs, next) \in Seq(Runs(n))
<1>. DEFINE S    == {m \in 1 .. Len(itrs) + 1 : m <= Len(itrs) => itrs[m].end > next}
            m    == First(S)
            rest == SubSeq(itrs, m, Len(itrs))
<1>1. Len(itrs) \in Nat /\ S \subseteq 1 .. Len(itrs) + 1 /\ Len(itrs) + 1 \in S
  OBVIOUS
<1>2. m \in 1 .. Len(itrs) + 1
  <2>. HIDE DEF S
  <2>. QED
    BY <1>1, SearchStops
<1>3. rest \in Seq(Runs(n))
  <2>. HIDE DEF m
  <2>1. m \in Int /\ Len(itrs) \in Int /\ \A j \in m .. Len(itrs) : itrs[j] \in Runs(n)
    BY <1>1, <1>2
  <2>. QED
    BY <2>1, SubSeqProperties
<1>. HIDE DEF m, rest, S
<1>4. rest # <<>> => [rest EXCEPT ![1].start = Higher(@, next)] \in Seq(Runs(n))
  <2>. SUFFICES ASSUME rest # <<>> PROVE [rest EXCEPT ![1].start = Higher(@, next)] \in Seq(Runs(n))
    OBVIOUS
  <2>1. rest[1] \in Runs(n)
    BY <1>3
  <2>2. [rest[1] EXCEPT !.start = Higher(@, next)] \in Runs(n)
    BY <2>1 DEF Runs, Higher
  <2>. QED
    BY <1>3, <2>2
<1>. QED
  BY <1>3, <1>4 DEF RunsFrom, rest, m, S

(* Moving segments from rcvBuf keeps rcvQueue a chain up to rcvNxt.        *)
LEMMA MoveKeeps ==
  ASSUME NEW n \in Nat, NEW buf \in Seq(Segs(n)), NEW itrs \in Seq(Runs(n)),
         NEW queue \in Seq(Segs(n)), NEW last \in Nat, rcvNxt \in 0 .. n,
         InOrder(queue, last, rcvNxt), MoveToRcvQueue(buf, itrs, queue)
  PROVE  /\ rcvBuf' \in Seq(Segs(n)) /\ rcvQueue' \in Seq(Segs(n))
         /\ rcvBufItrs' \in Seq(Runs(n)) /\ rcvNxt' \in 0 .. n
         /\ InOrder(rcvQueue', last, rcvNxt')
<1>1. PICK k \in 0 .. Len(buf) :
        /\ MovesExactly(buf, rcvNxt, Room(queue), k)
        /\ rcvBuf' = SubSeq(buf, k + 1, Len(buf))
        /\ rcvQueue' = queue \o SubSeq(buf, 1, k)
        /\ rcvNxt' = IF k = 0 THEN rcvNxt ELSE buf[k].end
        /\ rcvBufItrs' = RunsFrom(itrs, rcvNxt')
  BY DEF MoveToRcvQueue
<1>2. Len(buf) \in Nat /\ k \in Nat /\ Len(queue) \in Nat
      /\ \A j \in 1 .. Len(buf) : buf[j] \in Segs(n)
  OBVIOUS
<1>3. rcvBuf' \in Seq(Segs(n))
  <2>1. k + 1 \in Int /\ Len(buf) \in Int /\ \A j \in k + 1 .. Len(buf) : buf[j] \in Segs(n)
    BY <1>2
  <2>. QED
    BY <1>1, <2>1, SubSeqProperties
<1>. DEFINE moved == SubSeq(buf, 1, k)
<1>4. /\ moved \in Seq(Segs(n)) /\ Len(moved) = k
      /\ \A i \in 1 .. k : moved[i] = buf[i]
  <2>1. 1 \in Int /\ k \in Int /\ \A j \in 1 .. k : buf[j] \in Segs(n)
    BY <1>2
  <2>2. /\ moved \in Seq(Segs(n))
        /\ Len(moved) = IF 1 <= k THEN k - 1 + 1 ELSE 0
        /\ \A i \in 1 .. k - 1 + 1 : moved[i] = buf[1 + i - 1]
    BY <2>1, SubSeqProperties
  <2>. HIDE DEF moved
  <2>. QED
    BY <1>2, <2>2
<1>. HIDE DEF moved
<1>5. /\ rcvQueue' = queue \o moved
      /\ rcvQueue' \in Seq(Segs(n)) /\ Len(rcvQueue') = Len(queue) + k
      /\ \A i \in 1 .. Len(queue) : rcvQueue'[i] = queue[i]
      /\ \A i \in 1 .. k : rcvQueue'[Len(queue) + i] = buf[i]
  BY <1>1, <1>2, <1>4, SMTT(60) DEF moved
<1>6. rcvNxt' \in 0 .. n
  <2>1. CASE k = 0
    BY <1>1, <2>1
  <2>2. CASE k # 0
    <3>1. k \in 1 .. Len(buf)
      BY <2>2
    <3>2. buf[k].end \in 0 .. n
      BY <1>2, <3>1 DEF Segs
    <3>. QED
      BY <1>1, <2>2, <3>2
  <2>. QED
    BY <2>1, <2>2
<1>7. rcvBufItrs' \in Seq(Runs(n))
  BY <1>1, <1>6, RunsFromType
<1>8. \A i \in 1 .. k : /\ buf[i].start < buf[i].end
                        /\ buf[i].start = IF i = 1 THEN rcvNxt ELSE buf[i - 1].end
  BY <1>1, <1>2, SMTT(60) DEF MovesExactly, Continues, Segs
<1>9. \A i \in 1 .. Len(queue) : /\ queue[i].start < queue[i].end
                                 /\ queue[i].start = IF i = 1 THEN last ELSE queue[i - 1].end
  BY DEF InOrder
<1>10. rcvNxt = IF Len(queue) = 0 THEN last ELSE queue[Len(queue)].end
  BY DEF InOrder
<1>11. ASSUME NEW i \in 1 .. Len(rcvQueue')
       PROVE  /\ rcvQueue'[i].start < rcvQueue'[i].end
              /\ rcvQueue'[i].start = IF i = 1 THEN last ELSE rcvQueue'[i - 1].end
  <2>1. CASE i \in 1 .. Len(queue)
    <3>1. i # 1 => i - 1 \in 1 .. Len(queue)
      BY <2>1
    <3>. QED
      BY <1>5, <1>9, <2>1, <3>1
  <2>2. CASE i = Len(queue) + 1
    <3>1. 1 \in 1 .. k /\ i \in Nat
      BY <1>2, <1>5, <2>2
    <3>2. rcvQueue'[i] = buf[1] /\ buf[1].start = rcvNxt /\ buf[1].start < buf[1].end
      BY <1>5, <1>8, <2>2, <3>1
    <3>3. CASE Len(queue) = 0
      BY <1>10, <2>2, <3>2, <3>3
    <3>4. CASE Len(queue) # 0
      <4>1. i - 1 = Len(queue) /\ Len(queue) \in 1 .. Len(queue) /\ i # 1
        BY <1>2, <2>2, <3>4
      <4>. QED
        BY <1>5, <1>10, <3>2, <3>4, <4>1
    <3>. QED
      BY <3>3, <3>4
  <2>3. CASE i > Len(queue) + 1
    <3>. DEFINE j == i - Len(queue)
    <3>1. j \in 1 .. k /\ j - 1 \in 1 .. k /\ i = Len(queue) + j /\ i - 1 = Len(queue) + (j - 1)
          /\ j # 1 /\ i # 1
      BY <1>2, <1>5, <2>3
    <3>. HIDE DEF j
    <3>2. rcvQueue'[i] = buf[j] /\ rcvQueue'[i - 1] = buf[j - 1]
      BY <1>5, <3>1
    <3>. QED
      BY <1>8, <3>1, <3>2
  <2>4. i \in 1 .. Len(queue) \/ i = Len(queue) + 1 \/ i > Len(queue) + 1
    <3>1. Len(queue) \in Nat /\ Len(rcvQueue') \in Nat
      BY <1>2, <1>5
    <3>2. i \in Nat /\ i >= 1
      BY <3>1
    <3>. QED
      BY <3>1, <3>2
  <2>. QED
    BY <2>1, <2>2, <2>3, <2>4
<1>12. rcvNxt' = IF rcvQueue' = <<>> THEN last ELSE rcvQueue'[Len(rcvQueue')].end
  <2>1. rcvQueue' = <<>> <=> Len(rcvQueue') = 0
    BY <1>5
  <2>2. CASE k = 0
    <3>1. rcvQueue'[Len(rcvQueue')] = queue[Len(queue)] \/ Len(queue) = 0
      BY <1>2, <1>5, <2>2
    <3>. QED
      BY <1>1, <1>2, <1>5, <1>10, <2>1, <2>2, <3>1
  <2>3. CASE k # 0
    <3>1. k \in 1 .. k /\ Len(rcvQueue') = Len(queue) + k /\ Len(rcvQueue') # 0
      BY <1>2, <1>5, <2>3
    <3>2. rcvQueue'[Len(rcvQueue')] = buf[k]
      BY <1>5, <3>1
    <3>. QED
      BY <1>1, <2>1, <2>3, <3>1, <3>2
  <2>. QED
    BY <2>2, <2>3
<1>13. InOrder(rcvQueue', last, rcvNxt')
  BY <1>11, <1>12 DEF InOrder
<1>. QED
  BY <1>3, <1>5, <1>6, <1>7, <1>13

-----------------------------------------------------------------------------
(* flush.                                                                  *)

(* flushIntQueue: every interest it makes asks for requested bytes.        *)
LEMMA NewInterestsSends ==
  ASSUME ListTypes, NumberTypes, RequestsJoined
  PROVE  NewInterests \in Seq(Sends(sendStart, {0}))
<1>1. CASE intQueue = <<>>
  BY <1>1 DEF NewInterests
<1>2. CASE intQueue # <<>>
  <2>. DEFINE first == intQueue[1].start
              last  == intQueue[Len(intQueue)].end
              c     == (last - first + LEOTP_MSS - 1) \div LEOTP_MSS
              Item(i) == [start |-> first + (i - 1) * LEOTP_MSS,
                          end   |-> Lower(first + i * LEOTP_MSS, last),
                          xmit  |-> 0,
                          late  |-> FALSE]
  <2>1. /\ Len(intQueue) \in Nat /\ Len(intQueue) > 0 /\ sendStart \in Nat
        /\ \A i \in 1 .. Len(intQueue) : intQueue[i] \in Segs(sendStart)
    BY <1>2 DEF ListTypes, NumberTypes
  <2>2. \A i \in 1 .. Len(intQueue) : intQueue[i].start \in Nat /\ intQueue[i].end \in Nat
                                      /\ intQueue[i].start < intQueue[i].end
    BY <2>1 DEF Segs
  <2>3. \A i, j \in 1 .. Len(intQueue) : i < j => intQueue[i].end <= intQueue[j].start
    BY <2>1, <2>2, ChainOrdered DEF RequestsJoined
  <2>4. first \in Nat /\ last \in Nat /\ first < last /\ last <= sendStart
    <3>1. 1 \in 1 .. Len(intQueue) /\ Len(intQueue) \in 1 .. Len(intQueue)
      BY <2>1
    <3>2. last <= sendStart
      BY <2>1, <3>1 DEF Segs
    <3>3. CASE Len(intQueue) = 1
      BY <2>2, <3>1, <3>2, <3>3
    <3>4. CASE 1 < Len(intQueue)
      <4>1. intQueue[1].end <= intQueue[Len(intQueue)].start
        BY <2>3, <3>1, <3>4
      <4>. QED
        BY <2>2, <3>1, <3>2, <4>1
    <3>5. PICK m \in Nat : m = Len(intQueue)
      BY <2>1
    <3>6. m = 1 \/ 1 < m
      BY <2>1, <3>5
    <3>. QED
      BY <3>3, <3>4, <3>5, <3>6
  <2>. HIDE DEF first, last
  <2>5. c \in Nat /\ last - first \in Nat /\ LEOTP_MSS \in Nat \ {0}
    BY <2>4, RequesterAssumption
  <2>. DEFINE d == last - first
  <2>6. ASSUME NEW i \in 1 .. c
        PROVE  Item(i) \in Sends(sendStart, {0})
    <3>1. i \in 1 .. (d + LEOTP_MSS - 1) \div LEOTP_MSS /\ d \in Nat
      BY <2>5
    <3>. HIDE DEF d
    <3>2. /\ (i - 1) * LEOTP_MSS \in Nat /\ (i - 1) * LEOTP_MSS < d
          /\ i * LEOTP_MSS \in Nat /\ i * LEOTP_MSS = (i - 1) * LEOTP_MSS + LEOTP_MSS
      BY <2>5, <3>1, PieceStarts
    <3>. DEFINE a == (i - 1) * LEOTP_MSS
                b == i * LEOTP_MSS
    <3>3. a \in Nat /\ a < last - first /\ b = a + LEOTP_MSS
      BY <3>2 DEF d
    <3>4. Item(i) = [start |-> first + a, end |-> Lower(first + b, last), xmit |-> 0, late |-> FALSE]
      OBVIOUS
    <3>. HIDE DEF a, b, Item
    <3>5. /\ first + a \in Nat /\ Lower(first + b, last) \in Nat
          /\ first + a < Lower(first + b, last) /\ Lower(first + b, last) <= sendStart
      BY <2>1, <2>4, <2>5, <3>3 DEF Lower
    <3>. QED
      BY <3>4, <3>5 DEF Sends
  <2>7. NewInterests = [i \in 1 .. c |-> Item(i)]
    BY <1>2 DEF NewInterests, first, last
  <2>. HIDE DEF c, Item
  <2>. QED
    BY <2>5, <2>6, <2>7
<1>. QED
  BY <1>1, <1>2

(* More counts and higher bounds allow more interests.                     *)
LEMMA SendsMore ==
  ASSUME NEW m \in Nat, NEW n \in Nat, m <= n, NEW V, NEW W, V \subseteq W
  PROVE  Seq(Sends(m, V)) \subseteq Seq(Sends(n, W))
<1>1. Sends(m, V) \subseteq Sends(n, W)
  BY DEF Sends
<1>. QED
  BY <1>1

LEMMA NewInterestsType ==
  ASSUME ListTypes, NumberTypes, RequestsJoined
  PROVE  NewInterests \in Seq(Ints(sendStart))
<1>1. sendStart \in Nat /\ {0} \subseteq Nat
  BY DEF NumberTypes
<1>2. Seq(Sends(sendStart, {0})) \subseteq Seq(Sends(sendStart, Nat))
  BY <1>1, SendsMore
<1>. QED
  BY <1>2, NewInterestsSends, IntsAreSends

(* Every ripe hole restamps the interests in turn: what each keeps, all    *)
(* keep.                                                                   *)
LEMMA RestampAllStays ==
  ASSUME NEW S, NEW s \in S, NEW rs, Len(rs) \in Nat,
         \A x \in S : \A i \in 1 .. Len(rs) : Restamp(x, rs[i]) \in S
  PROVE  RecutAll(s, rs, Restamp) \in S
<1>. DEFINE Step(f, i) == IF i = 0 THEN s ELSE Restamp(f[i - 1], rs[i])
            f == CHOOSE f : f = [i \in 0 .. Len(rs) |-> Step(f, i)]
            G == [q \in S \X Nat |-> IF q[2] \in 1 .. Len(rs) THEN Restamp(q[1], rs[q[2]]) ELSE s]
<1>1. G \in [S \X Nat -> S]
  OBVIOUS
<1>2. ASSUME NEW x \in S, NEW i \in 1 .. Len(rs)
      PROVE  G[<<x, i>>] = Restamp(x, rs[i])
  <2>1. <<x, i>> \in S \X Nat
    OBVIOUS
  <2>. QED
    BY <2>1
<1>. HIDE DEF G
<1>3. PICK h \in [0 .. Len(rs) -> S] :
        h[0] = s /\ \A i \in 1 .. Len(rs) : h[i] = G[<<h[i - 1], i>>]
  <2>1. Solvable(Len(rs), S, s, G)
    BY <1>1, RecursionExists
  <2>. QED
    BY <2>1 DEF Solvable
<1>4. h = [i \in 0 .. Len(rs) |-> Step(h, i)]
  <2>1. ASSUME NEW i \in 0 .. Len(rs)
        PROVE  h[i] = Step(h, i)
    <3>1. CASE i = 0
      BY <1>3, <3>1
    <3>2. CASE i # 0
      <4>1. i \in 1 .. Len(rs) /\ i - 1 \in 0 .. Len(rs)
        BY <3>2
      <4>2. h[i - 1] \in S
        BY <1>3, <4>1
      <4>. QED
        BY <1>2, <1>3, <3>2, <4>1, <4>2
    <3>. QED
      BY <3>1, <3>2
  <2>. HIDE DEF Step
  <2>. QED
    BY <2>1
<1>5. f = [i \in 0 .. Len(rs) |-> Step(f, i)]
  <2>. HIDE DEF Step
  <2>. QED
    BY <1>4
<1>6. f[Len(rs)] \in S
  <2>. HIDE DEF f
  <2>1. f[0] \in S
    BY <1>5
  <2>2. ASSUME NEW i \in 1 .. Len(rs), f[i - 1] \in S
        PROVE  f[i] \in S
    <3>1. f[i] = Restamp(f[i - 1], rs[i])
      BY <1>5
    <3>. QED
      BY <2>2, <3>1
  <2>. QED
    BY <2>1, <2>2, RecursionStays
<1>7. RecutAll(s, rs, Restamp) = f[Len(rs)]
  BY DEF RecutAll
<1>. QED
  BY <1>6, <1>7

LEMMA RestampAllSends ==
  ASSUME NEW n \in Nat, NEW V, NEW s \in Seq(Sends(n, V)), NEW rs,
         Len(rs) \in Nat, \A i \in 1 .. Len(rs) : rs[i].start \in Nat /\ rs[i].end \in Nat /\ rs[i].start < rs[i].end
  PROVE  RecutAll(s, rs, Restamp) \in Seq(Sends(n, V))
<1>1. \A x \in Seq(Sends(n, V)) : \A i \in 1 .. Len(rs) : Restamp(x, rs[i]) \in Seq(Sends(n, V))
  BY RestampSends
<1>. QED
  BY <1>1, RestampAllStays

LEMMA FlushDataHolesSends ==
  ASSUME NEW n \in Nat, NEW V, NEW buf \in Seq(Sends(n, V)), NEW holes \in Seq(Gaps),
         FlushDataHoles(buf, holes)
  PROVE  intBuf' \in Seq(Sends(n, V)) /\ dataHoles' \in Seq(Gaps)
<1>. DEFINE Aged(age) == {i \in 1 .. Len(holes) : holes[i].age = age}
<1>1. intBuf' = RecutAll(buf, Pick(holes, Aged("ripe")), Restamp)
      /\ dataHoles' = Pick(holes, Aged("young"))
  BY DEF FlushDataHoles
<1>. HIDE DEF Aged
<1>2. PICK rs \in Seq(Gaps) : rs = Pick(holes, Aged("ripe"))
  BY PickType
<1>3. Len(rs) \in Nat /\ \A i \in 1 .. Len(rs) : rs[i].start \in Nat /\ rs[i].end \in Nat /\ rs[i].start < rs[i].end
  <2>1. \A i \in 1 .. Len(rs) : rs[i] \in Gaps
    OBVIOUS
  <2>. QED
    BY <2>1 DEF Gaps
<1>4. RecutAll(buf, rs, Restamp) \in Seq(Sends(n, V))
  BY <1>3, RestampAllSends
<1>. QED
  BY <1>1, <1>2, <1>4, PickType

LEMMA FlushDataHolesType ==
  ASSUME NEW n \in Nat, NEW buf \in Seq(Ints(n)), NEW holes \in Seq(Gaps),
         FlushDataHoles(buf, holes)
  PROVE  intBuf' \in Seq(Ints(n)) /\ dataHoles' \in Seq(Gaps)
BY IntsAreSends, FlushDataHolesSends

LEMMA HighestIs ==
  ASSUME NEW m \in Nat, NEW S, S \subseteq 0 .. m, S # {}
  PROVE  Highest(S) \in S /\ \A y \in S : y <= Highest(S)
BY HighestExists DEF Highest

(* flush keeps the types of intBuf and dataHoles, and asks for no byte     *)
(* that was not requested.                                                 *)
LEMMA FlushTypes ==
  ASSUME ListTypes, NumberTypes, RequestsJoined, Flush
  PROVE  /\ intQueue' = <<>> /\ intBuf' \in Seq(Ints(sendStart))
         /\ dataHoles' \in Seq(Gaps) /\ asked' \in asked .. sendStart
<1>. DEFINE buf   == intBuf \o NewInterests
            bytes == intBufBytes + TotalSize(NewInterests, 1 .. Len(NewInterests))
<1>1. sendStart \in Nat /\ asked \in 0 .. sendStart /\ buf \in Seq(Ints(sendStart))
      /\ dataHoles \in Seq(Gaps)
  BY NewInterestsType DEF ListTypes, NumberTypes
<1>2. intQueue' = <<>>
  BY DEF Flush, FlushAdding
<1>3. CASE bytes = 0
  <2>1. FlushDataHoles(buf, dataHoles) /\ asked' = asked
    BY <1>3 DEF Flush, FlushAdding
  <2>. HIDE DEF buf
  <2>2. intBuf' \in Seq(Ints(sendStart)) /\ dataHoles' \in Seq(Gaps)
    BY <1>1, <2>1, FlushDataHolesType
  <2>. QED
    BY <1>1, <1>2, <2>1, <2>2
<1>4. CASE bytes # 0
  <2>. DEFINE need(k) == NeedSend(buf) \cap 1 .. k
              sent(k) == [i \in 1 .. Len(buf) |-> IF i \in need(k) THEN Sent(buf[i]) ELSE buf[i]]
  <2>1. PICK k \in 0 .. Len(buf) :
          /\ asked' = Highest({asked} \cup {buf[i].end : i \in need(k)})
          /\ \/ intBuf' = buf /\ dataHoles' = dataHoles
             \/ FlushDataHoles(sent(k), RecutAll(dataHoles, Pick(buf, need(k)), DeleteDataHole))
    BY <1>4 DEF Flush, FlushAdding
  <2>. HIDE DEF buf
  <2>2. \A i \in 1 .. Len(buf) : buf[i] \in Ints(sendStart)
    BY <1>1
  <2>3. need(k) \subseteq 1 .. Len(buf)
    BY <1>1 DEF NeedSend
  <2>. HIDE DEF need
  <2>4. sent(k) \in Seq(Ints(sendStart))
    <3>1. \A i \in 1 .. Len(buf) : Sent(buf[i]) \in Ints(sendStart)
      <4>1. ASSUME NEW x \in Ints(sendStart)
            PROVE  Sent(x) \in Ints(sendStart)
        <5>1. [x EXCEPT !.xmit = @ + 1] \in Ints(sendStart)
          BY DEF Ints
        <5>2. \A y \in Ints(sendStart) : [y EXCEPT !.late = FALSE] \in Ints(sendStart)
          BY DEF Ints
        <5>3. Sent(x) = [[x EXCEPT !.xmit = @ + 1] EXCEPT !.late = FALSE]
          BY DEF Sent, Ints
        <5>. QED
          BY <5>1, <5>2, <5>3
      <4>. QED
        BY <2>2, <4>1
    <3>. QED
      BY <1>1, <2>2, <3>1
  <2>. HIDE DEF sent
  <2>5. RecutAll(dataHoles, Pick(buf, need(k)), DeleteDataHole) \in Seq(Gaps)
    <3>1. PICK rs \in Seq(Ints(sendStart)) : rs = Pick(buf, need(k))
      BY <1>1, PickType
    <3>2. Len(rs) \in Nat /\ \A i \in 1 .. Len(rs) : rs[i].start \in Nat /\ rs[i].end \in Nat
      <4>1. \A i \in 1 .. Len(rs) : rs[i] \in Ints(sendStart)
        OBVIOUS
      <4>. QED
        BY <4>1 DEF Ints
    <3>3. RecutAll(dataHoles, rs, DeleteDataHole) \in Seq(Gaps)
      BY <1>1, <3>2, DeleteAllType
    <3>. QED
      BY <3>1, <3>3
  <2>6. intBuf' \in Seq(Ints(sendStart)) /\ dataHoles' \in Seq(Gaps)
    <3>1. CASE FlushDataHoles(sent(k), RecutAll(dataHoles, Pick(buf, need(k)), DeleteDataHole))
      BY <1>1, <2>4, <2>5, <3>1, FlushDataHolesType
    <3>. QED
      BY <1>1, <2>1, <3>1
  <2>7. asked' \in asked .. sendStart
    <3>. DEFINE E == {asked} \cup {buf[i].end : i \in need(k)}
    <3>1. E \subseteq 0 .. sendStart /\ asked \in E
      BY <1>1, <2>2, <2>3, SMTT(60) DEF Ints
    <3>. HIDE DEF E
    <3>2. Highest(E) \in E /\ \A y \in E : y <= Highest(E)
      BY <1>1, <3>1, HighestIs
    <3>. QED
      BY <1>1, <2>1, <3>1, <3>2 DEF E
  <2>. QED
    BY <1>2, <2>6, <2>7
<1>. QED
  BY <1>3, <1>4

-----------------------------------------------------------------------------
(* Every step keeps the invariant.                                         *)

LEMMA InitStreamInv == Init => StreamInv
<1>. SUFFICES ASSUME Init PROVE StreamInv
  OBVIOUS
<1>1. ListTypes
  BY DEF Init, ListTypes
<1>2. NumberTypes
  BY DEF Init, NumberTypes, Seg
<1>3. RequestsJoined /\ QueueInOrder
  BY DEF Init, RequestsJoined, QueueInOrder, Seg
<1>. QED
  BY <1>1, <1>2, <1>3 DEF StreamInv

(* The sets only grow when more is requested.                              *)
LEMMA SegsGrow ==
  ASSUME NEW m \in Nat, NEW n \in Nat, m <= n
  PROVE  /\ Seq(Segs(m)) \subseteq Seq(Segs(n)) /\ Seq(Ints(m)) \subseteq Seq(Ints(n))
         /\ Seq(Runs(m)) \subseteq Seq(Runs(n))
<1>1. Segs(m) \subseteq Segs(n) /\ Ints(m) \subseteq Ints(n) /\ Runs(m) \subseteq Runs(n)
  BY DEF Segs, Ints, Runs
<1>. QED
  BY <1>1

LEMMA RequestInv == StreamInv /\ Request => StreamInv'
<1>. SUFFICES ASSUME StreamInv, Request PROVE StreamInv'
  OBVIOUS
<1>. DEFINE new == Seg(sendStart, sendStart + REQ_LEN)
<1>1. /\ intQueue' = Append(intQueue, new)
      /\ sendStart' = sendStart + REQ_LEN
      /\ UNCHANGED <<intBuf, rcvBuf, rcvBufItrs, rcvNxt, rcvQueue, dataHoles, dataNextRangeStart,
                     lastRead, asked>>
  BY DEF Request, rcvVars, holeVars, histVars
<1>2. sendStart \in Nat /\ sendStart' \in Nat /\ sendStart < sendStart' /\ asked \in 0 .. sendStart
  BY <1>1, RequesterAssumption DEF StreamInv, NumberTypes
<1>3. /\ Seq(Segs(sendStart)) \subseteq Seq(Segs(sendStart')) /\ Seq(Ints(sendStart)) \subseteq Seq(Ints(sendStart'))
      /\ Seq(Runs(sendStart)) \subseteq Seq(Runs(sendStart'))
  BY <1>2, SegsGrow
<1>4. new \in Segs(sendStart') /\ new.start = sendStart /\ new.end = sendStart'
  BY <1>1, <1>2 DEF Seg, Segs
<1>. HIDE DEF new
<1>5. /\ intQueue \in Seq(Segs(sendStart')) /\ Len(intQueue) \in Nat
      /\ Len(intQueue') = Len(intQueue) + 1
      /\ intQueue'[Len(intQueue) + 1] = new
      /\ \A i \in 1 .. Len(intQueue) : intQueue'[i] = intQueue[i]
  BY <1>1, <1>3, <1>4 DEF StreamInv, ListTypes
<1>6. ListTypes'
  BY <1>1, <1>3, <1>4, <1>5 DEF StreamInv, ListTypes
<1>7. NumberTypes'
  BY <1>1, <1>2 DEF StreamInv, NumberTypes
<1>8. RequestsJoined'
  <2>1. ASSUME NEW i \in 1 .. Len(intQueue'), i > 1
        PROVE  intQueue'[i].start = intQueue'[i - 1].end
    <3>1. CASE i \in 1 .. Len(intQueue)
      <4>1. i - 1 \in 1 .. Len(intQueue)
        BY <2>1, <3>1
      <4>. QED
        BY <1>5, <2>1, <3>1, <4>1 DEF StreamInv, RequestsJoined
    <3>2. CASE i = Len(intQueue) + 1
      <4>1. i - 1 = Len(intQueue) /\ Len(intQueue) \in 1 .. Len(intQueue) /\ intQueue # <<>>
        BY <1>5, <2>1, <3>2
      <4>. QED
        BY <1>4, <1>5, <3>2, <4>1 DEF StreamInv, RequestsJoined
    <3>. QED
      BY <1>5, <3>1, <3>2
  <2>2. intQueue'[Len(intQueue')].end = sendStart'
    BY <1>4, <1>5
  <2>. QED
    BY <2>1, <2>2 DEF RequestsJoined
<1>9. QueueInOrder'
  BY <1>1 DEF StreamInv, QueueInOrder
<1>. QED
  BY <1>6, <1>7, <1>8, <1>9 DEF StreamInv

LEMMA UpdateInv ==
  ASSUME StreamInv, NEW clear \in BOOLEAN, Update(clear)
  PROVE  StreamInv'
<1>1. Flush /\ UNCHANGED <<rcvNxt, rcvQueue, dataNextRangeStart, sendStart, lastRead>>
  BY DEF Update, UpdateAdding, Flush, appVars
<1>2. rcvBuf' \in Seq(Segs(sendStart)) /\ rcvBufItrs' \in Seq(Runs(sendStart))
  BY DEF Update, UpdateAdding, Flush, StreamInv, ListTypes
<1>3. /\ intQueue' = <<>> /\ intBuf' \in Seq(Ints(sendStart))
      /\ dataHoles' \in Seq(Gaps) /\ asked' \in asked .. sendStart
  BY <1>1, FlushTypes DEF StreamInv
<1>4. ListTypes'
  BY <1>1, <1>2, <1>3 DEF StreamInv, ListTypes
<1>5. NumberTypes'
  BY <1>1, <1>3 DEF StreamInv, NumberTypes
<1>6. RequestsJoined'
  BY <1>3 DEF RequestsJoined
<1>7. QueueInOrder'
  BY <1>1 DEF StreamInv, QueueInOrder
<1>. QED
  BY <1>4, <1>5, <1>6, <1>7 DEF StreamInv

LEMMA InputDataInv ==
  ASSUME StreamInv, NEW r, r.start \in Nat, r.end \in Nat, r.start < r.end,
         r.end <= asked, InputData(r)
  PROVE  StreamInv'
<1>1. sendStart \in Nat /\ intBuf \in Seq(Ints(sendStart)) /\ rcvBuf \in Seq(Segs(sendStart))
      /\ rcvBufItrs \in Seq(Runs(sendStart)) /\ rcvQueue \in Seq(Segs(sendStart)) /\ rcvNxt \in 0 .. sendStart
      /\ dataHoles \in Seq(Gaps) /\ dataNextRangeStart \in 0 .. asked /\ asked \in Nat /\ lastRead.end \in Nat
      /\ InOrder(rcvQueue, lastRead.end, rcvNxt)
  BY DEF StreamInv, ListTypes, NumberTypes, QueueInOrder, InOrder
<1>2. UNCHANGED <<intQueue, sendStart, lastRead, asked>>
  BY DEF InputData, appVars, histVars
<1>3. dataHoles' \in Seq(Gaps) /\ dataNextRangeStart' \in 0 .. asked
  BY <1>1, HolesAfterType DEF InputData, NextAfter
<1>4. intBuf' \in Seq(Ints(sendStart)) /\ Answered(intBuf, r) \in Seq(Ints(sendStart))
  <2>1. Recut(intBuf, r, LAMBDA x : Unanswered(x, r)) \in Seq(Ints(sendStart))
        /\ Answered(intBuf, r) \in Seq(Ints(sendStart))
    BY <1>1, UnansweredType
  <2>2. intBuf' = Recut(intBuf, r, LAMBDA x : Unanswered(x, r))
    BY DEF InputData
  <2>. QED
    BY <2>1, <2>2
<1>5. PICK new : new = Inserted(Answered(intBuf, r))
  OBVIOUS
<1>6. new.buf \in Seq(Segs(sendStart)) /\ new.itrs \in Seq(Runs(sendStart))
  BY <1>1, <1>4, <1>5, InsertedType
<1>7. MoveToRcvQueue(new.buf, new.itrs, rcvQueue)
  BY <1>5 DEF InputData
<1>8. /\ rcvBuf' \in Seq(Segs(sendStart)) /\ rcvQueue' \in Seq(Segs(sendStart))
      /\ rcvBufItrs' \in Seq(Runs(sendStart)) /\ rcvNxt' \in 0 .. sendStart
      /\ InOrder(rcvQueue', lastRead.end, rcvNxt')
  BY <1>1, <1>6, <1>7, MoveKeeps
<1>9. ListTypes' /\ NumberTypes'
  BY <1>2, <1>3, <1>4, <1>8 DEF StreamInv, ListTypes, NumberTypes
<1>10. RequestsJoined'
  BY <1>2 DEF StreamInv, RequestsJoined
<1>11. QueueInOrder'
  BY <1>2, <1>8 DEF QueueInOrder, InOrder
<1>. QED
  BY <1>9, <1>10, <1>11 DEF StreamInv

LEMMA InputHeaderInv ==
  ASSUME StreamInv, NEW r, r.start \in Nat, r.end \in Nat, r.end <= asked, InputHeader(r)
  PROVE  StreamInv'
<1>1. dataHoles' \in Seq(Gaps) /\ dataNextRangeStart' \in 0 .. asked
  BY HolesAfterType DEF InputHeader, NextAfter, StreamInv, ListTypes, NumberTypes
<1>2. UNCHANGED <<intQueue, intBuf, rcvBuf, rcvBufItrs, rcvNxt, rcvQueue, sendStart, lastRead, asked>>
  BY DEF InputHeader, intVars, rcvVars, appVars, histVars
<1>. QED
  BY <1>1, <1>2 DEF StreamInv, ListTypes, NumberTypes, RequestsJoined, QueueInOrder

(* recv hands over a non-empty run that starts where the last one ended.   *)
LEMMA RecvStep ==
  ASSUME StreamInv, Recv
  PROVE  /\ StreamInv'
         /\ sendStart' = sendStart
         /\ lastRead'.end \in lastRead.end + 1 .. sendStart
         /\ lastRead' = [start |-> lastRead.end, end |-> lastRead'.end]
<1>1. PICK k \in 1 .. Len(rcvQueue) :
        /\ lastRead' = Seg(rcvQueue[1].start, rcvQueue[k].end)
        /\ MoveToRcvQueue(rcvBuf, rcvBufItrs, SubSeq(rcvQueue, k + 1, Len(rcvQueue)))
  BY DEF Recv
<1>2. UNCHANGED <<intQueue, intBuf, dataHoles, dataNextRangeStart, sendStart, asked>>
  BY DEF Recv, intVars, holeVars, histVars
<1>3. sendStart \in Nat /\ rcvBuf \in Seq(Segs(sendStart)) /\ lastRead.end \in 0 .. sendStart
      /\ rcvBufItrs \in Seq(Runs(sendStart)) /\ rcvQueue \in Seq(Segs(sendStart)) /\ rcvNxt \in 0 .. sendStart
      /\ Len(rcvQueue) \in Nat /\ k \in Nat
  BY DEF StreamInv, ListTypes, NumberTypes
<1>4. /\ \A i \in 1 .. Len(rcvQueue) :
           /\ rcvQueue[i].start < rcvQueue[i].end
           /\ rcvQueue[i].start = IF i = 1 THEN lastRead.end ELSE rcvQueue[i - 1].end
      /\ rcvNxt = IF rcvQueue = <<>> THEN lastRead.end ELSE rcvQueue[Len(rcvQueue)].end
  BY DEF StreamInv, QueueInOrder
<1>5. \A i \in 1 .. Len(rcvQueue) : rcvQueue[i].start \in Nat /\ rcvQueue[i].end \in Nat
                                    /\ rcvQueue[i].end <= sendStart
  <2>1. \A i \in 1 .. Len(rcvQueue) : rcvQueue[i] \in Segs(sendStart)
    BY <1>3
  <2>. QED
    BY <2>1 DEF Segs
<1>6. \A i, j \in 1 .. Len(rcvQueue) : i < j => rcvQueue[i].end <= rcvQueue[j].start
  <2>1. \A i \in 1 .. Len(rcvQueue) : i > 1 => rcvQueue[i].start = rcvQueue[i - 1].end
    BY <1>4
  <2>. QED
    BY <1>3, <1>4, <1>5, <2>1, ChainOrdered
<1>7. PICK last \in Nat : last = rcvQueue[k].end
  BY <1>5
<1>8. rcvQueue[1].start = lastRead.end /\ lastRead.end < last /\ last <= sendStart
  <2>1. 1 \in 1 .. Len(rcvQueue)
    BY <1>3
  <2>2. rcvQueue[1].start = lastRead.end
    BY <1>4, <2>1
  <2>3. CASE k = 1
    BY <1>4, <1>5, <1>7, <2>1, <2>2, <2>3
  <2>4. CASE 1 < k
    <3>1. rcvQueue[1].end <= rcvQueue[k].start
      BY <1>6, <2>1, <2>4
    <3>. QED
      BY <1>4, <1>5, <1>7, <2>1, <2>2, <3>1
  <2>5. k = 1 \/ 1 < k
    BY <1>3
  <2>. QED
    BY <2>3, <2>4, <2>5
<1>9. lastRead' = [start |-> lastRead.end, end |-> last]
  BY <1>1, <1>7, <1>8 DEF Seg
<1>10. PICK rest : rest = SubSeq(rcvQueue, k + 1, Len(rcvQueue))
  OBVIOUS
<1>11. /\ rest \in Seq(Segs(sendStart))
       /\ Len(rest) = IF k + 1 <= Len(rcvQueue) THEN Len(rcvQueue) - (k + 1) + 1 ELSE 0
       /\ \A i \in 1 .. Len(rcvQueue) - (k + 1) + 1 : rest[i] = rcvQueue[k + 1 + i - 1]
  <2>1. k + 1 \in Int /\ Len(rcvQueue) \in Int /\ \A i \in k + 1 .. Len(rcvQueue) : rcvQueue[i] \in Segs(sendStart)
    BY <1>3
  <2>. QED
    BY <1>10, <2>1, SubSeqProperties
<1>12. Len(rest) = Len(rcvQueue) - k /\ \A i \in 1 .. Len(rest) : rest[i] = rcvQueue[k + i]
  BY <1>3, <1>11, SMTT(60)
<1>13. InOrder(rest, last, rcvNxt)
  <2>1. ASSUME NEW i \in 1 .. Len(rest)
        PROVE  /\ rest[i].start < rest[i].end
               /\ rest[i].start = IF i = 1 THEN last ELSE rest[i - 1].end
    <3>1. k + i \in 1 .. Len(rcvQueue) /\ k + i # 1 /\ i \in Nat /\ (k + i) - 1 = k + (i - 1)
      BY <1>3, <1>12
    <3>2. rest[i] = rcvQueue[k + i] /\ rcvQueue[k + i].start = rcvQueue[k + (i - 1)].end
          /\ rcvQueue[k + i].start < rcvQueue[k + i].end
      BY <1>4, <1>12, <3>1
    <3>3. CASE i = 1
      BY <1>3, <1>7, <3>2, <3>3
    <3>4. CASE i # 1
      <4>1. i - 1 \in 1 .. Len(rest)
        BY <1>3, <1>12, <3>1, <3>4
      <4>2. rest[i - 1] = rcvQueue[k + (i - 1)]
        BY <1>12, <4>1
      <4>. QED
        BY <3>2, <3>4, <4>2
    <3>. QED
      BY <3>3, <3>4
  <2>2. rcvNxt = IF rest = <<>> THEN last ELSE rest[Len(rest)].end
    <3>1. rcvNxt = rcvQueue[Len(rcvQueue)].end
      BY <1>3, <1>4
    <3>2. CASE Len(rest) = 0
      <4>1. k = Len(rcvQueue) /\ rest = <<>>
        BY <1>3, <1>11, <1>12, <3>2
      <4>. QED
        BY <1>7, <3>1, <4>1
    <3>3. CASE Len(rest) > 0
      <4>1. Len(rest) \in 1 .. Len(rest) /\ k + Len(rest) = Len(rcvQueue) /\ rest # <<>>
        BY <1>3, <1>11, <1>12, <3>3
      <4>2. rest[Len(rest)] = rcvQueue[Len(rcvQueue)]
        BY <1>12, <4>1
      <4>. QED
        BY <3>1, <4>1, <4>2
    <3>. QED
      BY <1>3, <1>11, <1>12, <3>2, <3>3
  <2>. QED
    BY <2>1, <2>2 DEF InOrder
<1>14. MoveToRcvQueue(rcvBuf, rcvBufItrs, rest)
  BY <1>1, <1>10
<1>15. /\ rcvBuf' \in Seq(Segs(sendStart)) /\ rcvQueue' \in Seq(Segs(sendStart))
       /\ rcvBufItrs' \in Seq(Runs(sendStart)) /\ rcvNxt' \in 0 .. sendStart
       /\ InOrder(rcvQueue', last, rcvNxt')
  BY <1>3, <1>11, <1>13, <1>14, MoveKeeps
<1>16. lastRead' \in [start : 0 .. sendStart, end : 0 .. sendStart] /\ lastRead'.end = last
  BY <1>3, <1>8, <1>9
<1>17. ListTypes' /\ NumberTypes'
  BY <1>2, <1>15, <1>16 DEF StreamInv, ListTypes, NumberTypes
<1>18. RequestsJoined'
  BY <1>2 DEF StreamInv, RequestsJoined
<1>19. QueueInOrder'
  BY <1>15, <1>16 DEF QueueInOrder, InOrder
<1>20. StreamInv'
  BY <1>17, <1>18, <1>19 DEF StreamInv
<1>21. last \in lastRead.end + 1 .. sendStart
  BY <1>3, <1>8
<1>. QED
  BY <1>2, <1>9, <1>16, <1>20, <1>21

LEMMA TimeoutInv == StreamInv /\ InterestTimeout => StreamInv'
<1>. SUFFICES ASSUME StreamInv, InterestTimeout PROVE StreamInv'
  OBVIOUS
<1>1. UNCHANGED <<intQueue, rcvBuf, rcvBufItrs, rcvNxt, rcvQueue, dataHoles, dataNextRangeStart,
                  sendStart, lastRead, asked>>
  BY DEF InterestTimeout, rcvVars, holeVars, appVars, histVars
<1>2. intBuf' \in Seq(Ints(sendStart))
  <2>1. PICK i \in 1 .. Len(intBuf) : intBuf' = [intBuf EXCEPT ![i].late = TRUE]
    BY DEF InterestTimeout
  <2>2. intBuf \in Seq(Ints(sendStart)) /\ intBuf[i] \in Ints(sendStart)
    BY DEF StreamInv, ListTypes
  <2>3. [intBuf[i] EXCEPT !.late = TRUE] \in Ints(sendStart)
    BY <2>2 DEF Ints
  <2>. QED
    BY <2>1, <2>2, <2>3
<1>. QED
  BY <1>1, <1>2 DEF StreamInv, ListTypes, NumberTypes, RequestsJoined, QueueInOrder

LEMMA HoleAgesInv == StreamInv /\ HoleAges => StreamInv'
<1>. SUFFICES ASSUME StreamInv, HoleAges PROVE StreamInv'
  OBVIOUS
<1>1. UNCHANGED <<intQueue, intBuf, rcvBuf, rcvBufItrs, rcvNxt, rcvQueue, dataNextRangeStart,
                  sendStart, lastRead, asked>>
  BY DEF HoleAges, intVars, rcvVars, appVars, histVars
<1>2. dataHoles' \in Seq(Gaps)
  <2>1. PICK i \in 1 .. Len(dataHoles) :
          dataHoles[i].age # "stale" /\ dataHoles' = [dataHoles EXCEPT ![i].age = Older[@]]
    BY DEF HoleAges
  <2>2. dataHoles \in Seq(Gaps) /\ dataHoles[i] \in Gaps
    BY DEF StreamInv, ListTypes
  <2>3. Older[dataHoles[i].age] \in Ages
    BY <2>1, <2>2 DEF Gaps, Ages, Older
  <2>4. [dataHoles[i] EXCEPT !.age = Older[@]] \in Gaps
    BY <2>2, <2>3 DEF Gaps
  <2>. QED
    BY <2>1, <2>2, <2>4
<1>. QED
  BY <1>1, <1>2 DEF StreamInv, ListTypes, NumberTypes, RequestsJoined, QueueInOrder

LEMMA NextInv == StreamInv /\ [Next]_vars => StreamInv'
<1>. SUFFICES ASSUME StreamInv, [Next]_vars PROVE StreamInv'
  OBVIOUS
<1>1. CASE Request
  BY <1>1, RequestInv
<1>2. CASE Input
  <2>1. PICK s \in 0 .. asked, e \in 0 .. asked :
          s < e /\ (InputData(Seg(s, e)) \/ InputHeader(Seg(s, e)))
    BY <1>2 DEF Input
  <2>2. s \in Nat /\ e \in Nat
    BY DEF StreamInv, NumberTypes
  <2>3. PICK r : r = Seg(s, e)
    OBVIOUS
  <2>4. r.start \in Nat /\ r.end \in Nat /\ r.start < r.end /\ r.end <= asked
    BY <2>1, <2>2, <2>3 DEF Seg
  <2>. QED
    BY <2>1, <2>3, <2>4, InputDataInv, InputHeaderInv
<1>3. CASE Recv
  BY <1>3, RecvStep
<1>4. ASSUME NEW clear \in BOOLEAN, Update(clear)
      PROVE  StreamInv'
  BY <1>4, UpdateInv
<1>5. CASE InterestTimeout
  BY <1>5, TimeoutInv
<1>6. CASE HoleAges
  BY <1>6, HoleAgesInv
<1>7. CASE UNCHANGED vars
  BY <1>7 DEF vars, intVars, rcvVars, holeVars, appVars, histVars,
     StreamInv, ListTypes, NumberTypes, RequestsJoined, QueueInOrder
<1>. QED
  BY <1>1, <1>2, <1>3, <1>4, <1>5, <1>6, <1>7 DEF Next

-----------------------------------------------------------------------------
(* The holes stay in order.                                                *)

HolesInv == StreamInv /\ dataHoles \in SortedBelow(Gaps, dataNextRangeStart)

LEMMA HolesInvSays == HolesInv => HolesInOrder
<1>. SUFFICES ASSUME HolesInv PROVE HolesInOrder
  OBVIOUS
<1>1. \A i \in 1 .. Len(dataHoles) : dataHoles[i] \in Gaps
  BY DEF HolesInv, SortedBelow
<1>. QED
  BY <1>1 DEF HolesInv, HolesInOrder, SortedBelow, NonEmpty, Gaps

LEMMA InitHolesInv == Init => HolesInv
<1>1. \A t : t = <<>> => 1 .. Len(t) = {} /\ 1 .. Len(t) - 1 = {}
  OBVIOUS
<1>. QED
  BY <1>1, InitStreamInv DEF Init, HolesInv, SortedBelow, Sorted

LEMMA FlushDataHolesSorted ==
  ASSUME NEW n \in Nat, NEW buf, NEW holes \in SortedBelow(Gaps, n), FlushDataHoles(buf, holes)
  PROVE  dataHoles' \in SortedBelow(Gaps, n)
<1>1. \E S : dataHoles' = Pick(holes, S)
  BY DEF FlushDataHoles
<1>. QED
  BY <1>1, GapsSized, PickSorted

(* Sending interests deletes parts of holes; flush keeps the young ones.   *)
LEMMA FlushSorted ==
  ASSUME HolesInv, Flush
  PROVE  dataHoles' \in SortedBelow(Gaps, dataNextRangeStart)
<1>1. sendStart \in Nat /\ dataNextRangeStart \in Nat
      /\ dataHoles \in SortedBelow(Gaps, dataNextRangeStart)
      /\ intBuf \in Seq(Ints(sendStart)) /\ NewInterests \in Seq(Ints(sendStart))
  BY NewInterestsType DEF HolesInv, StreamInv, ListTypes, NumberTypes
<1>2. PICK buf : buf = intBuf \o NewInterests
  OBVIOUS
<1>3. buf \in Seq(Ints(sendStart))
  BY <1>1, <1>2
<1>4. PICK bytes : bytes = intBufBytes + TotalSize(NewInterests, 1 .. Len(NewInterests))
  OBVIOUS
<1>5. CASE bytes = 0
  <2>1. FlushDataHoles(buf, dataHoles)
    BY <1>2, <1>4, <1>5 DEF Flush, FlushAdding
  <2>. QED
    BY <1>1, <2>1, FlushDataHolesSorted
<1>6. CASE bytes # 0
  <2>. DEFINE need(k) == NeedSend(buf) \cap 1 .. k
              Sents(k) == [i \in 1 .. Len(buf) |-> IF i \in need(k) THEN Sent(buf[i]) ELSE buf[i]]
  <2>1. PICK k \in 0 .. Len(buf) :
          \/ dataHoles' = dataHoles
          \/ FlushDataHoles(Sents(k), RecutAll(dataHoles, Pick(buf, need(k)), DeleteDataHole))
    BY <1>2, <1>4, <1>6 DEF Flush, FlushAdding
  <2>. HIDE DEF need, Sents
  <2>2. PICK holes : holes = RecutAll(dataHoles, Pick(buf, need(k)), DeleteDataHole)
    OBVIOUS
  <2>3. PICK rs \in Seq(Ints(sendStart)) : rs = Pick(buf, need(k))
    BY <1>3, PickType
  <2>4. Len(rs) \in Nat /\ \A i \in 1 .. Len(rs) : rs[i].start \in Nat /\ rs[i].end \in Nat /\ rs[i].start < rs[i].end
    <3>1. \A i \in 1 .. Len(rs) : rs[i] \in Ints(sendStart)
      OBVIOUS
    <3>. QED
      BY <3>1 DEF Ints
  <2>5. holes \in SortedBelow(Gaps, dataNextRangeStart)
    <3>1. RecutAll(dataHoles, rs, DeleteDataHole) \in SortedBelow(Gaps, dataNextRangeStart)
      BY <1>1, <2>4, DeleteAllSorted
    <3>. QED
      BY <2>2, <2>3, <3>1
  <2>6. CASE FlushDataHoles(Sents(k), holes)
    BY <1>1, <2>5, <2>6, FlushDataHolesSorted
  <2>. QED
    BY <1>1, <2>1, <2>2, <2>6
<1>. QED
  BY <1>5, <1>6

LEMMA NextHolesInv == HolesInv /\ [Next]_vars => HolesInv'
<1>. SUFFICES ASSUME HolesInv, [Next]_vars PROVE HolesInv'
  OBVIOUS
<1>1. StreamInv /\ StreamInv'
  BY NextInv DEF HolesInv
<1>2. dataNextRangeStart \in Nat /\ dataHoles \in SortedBelow(Gaps, dataNextRangeStart)
  BY DEF HolesInv, StreamInv, NumberTypes
<1>3. UNCHANGED holeVars => HolesInv'
  BY <1>1, <1>2 DEF HolesInv, holeVars
<1>4. CASE Input
  <2>1. PICK s \in 0 .. asked, e \in 0 .. asked :
          s < e /\ (InputData(Seg(s, e)) \/ InputHeader(Seg(s, e)))
    BY <1>4 DEF Input
  <2>2. PICK r : r = Seg(s, e)
    OBVIOUS
  <2>3. r.start \in Nat /\ r.end \in Nat /\ r.start < r.end
    BY <1>1, <2>1, <2>2 DEF Seg, StreamInv, NumberTypes
  <2>4. dataHoles' = HolesAfter(dataHoles, dataNextRangeStart, r)
        /\ dataNextRangeStart' = NextAfter(dataNextRangeStart, r)
    BY <2>1, <2>2 DEF InputData, InputHeader
  <2>. QED
    BY <1>1, <1>2, <2>3, <2>4, HolesAfterSorted DEF HolesInv
<1>5. ASSUME NEW clear \in BOOLEAN, Update(clear)
      PROVE  HolesInv'
  <2>1. Flush /\ dataNextRangeStart' = dataNextRangeStart
    BY <1>5 DEF Update, UpdateAdding, Flush
  <2>. QED
    BY <1>1, <2>1, FlushSorted DEF HolesInv
<1>6. CASE HoleAges
  <2>1. dataNextRangeStart' = dataNextRangeStart
    BY <1>6 DEF HoleAges
  <2>2. PICK i \in 1 .. Len(dataHoles) : dataHoles' = [dataHoles EXCEPT ![i].age = Older[@]]
    BY <1>6 DEF HoleAges
  <2>3. dataHoles \in Seq(Gaps) /\ dataHoles' \in Seq(Gaps)
    BY <1>1 DEF StreamInv, ListTypes
  <2>4. Len(dataHoles') = Len(dataHoles)
        /\ \A j \in 1 .. Len(dataHoles) : dataHoles'[j].start = dataHoles[j].start
                                          /\ dataHoles'[j].end = dataHoles[j].end
    <3>1. \A j \in 1 .. Len(dataHoles) : dataHoles[j] \in [start : Nat, end : Nat, age : Ages]
      BY <2>3 DEF Gaps
    <3>2. Len(dataHoles') = Len(dataHoles)
      BY <2>2, <2>3
    <3>3. \A j \in 1 .. Len(dataHoles) :
            dataHoles'[j] = IF j = i THEN [dataHoles[j] EXCEPT !.age = Older[@]] ELSE dataHoles[j]
      BY <2>2, <2>3
    <3>. QED
      BY <3>1, <3>2, <3>3
  <2>. QED
    BY <1>1, <1>2, <2>1, <2>3, <2>4, AgedSorted DEF HolesInv
<1>7. CASE Request
  BY <1>3, <1>7 DEF Request
<1>8. CASE Recv
  BY <1>3, <1>8 DEF Recv
<1>9. CASE InterestTimeout
  BY <1>3, <1>9 DEF InterestTimeout
<1>10. CASE UNCHANGED vars
  BY <1>3, <1>10 DEF vars
<1>. QED
  BY <1>4, <1>5, <1>6, <1>7, <1>8, <1>9, <1>10 DEF Next

-----------------------------------------------------------------------------
(* The theorems.                                                           *)

(* In every reachable state the lists hold non-empty requested ranges and  *)
(* rcvQueue is a chain.                                                    *)
THEOREM StreamInvariant == Spec => []StreamInv
  BY InitStreamInv, NextInv, PTL DEF Spec

(* rcvQueue is always the contiguous stream between what recv returned     *)
(* last and rcvNxt, in whatever order and however often data arrives       *)
(* (moveToRcvQueue and recv, leotp.cpp:815-857, 121-167).                  *)
THEOREM QueueAlwaysInOrder == Spec => []QueueInOrder
  BY StreamInvariant, PTL DEF StreamInv

(* The requester implements the abstract stream: the application gets the  *)
(* bytes it asked for, in order, none twice and none it did not ask for    *)
(* (recv, leotp.cpp:121-167).                                              *)
THEOREM RequesterImplementsStream == Spec => StreamSpec
<1>1. Init => Stream!Init
  BY DEF Init, Stream!Init, Seg
<1>2. StreamInv /\ [Next]_vars => [Stream!Next]_(Stream!vars)
  <2>. SUFFICES ASSUME StreamInv, [Next]_vars PROVE Stream!Next \/ UNCHANGED Stream!vars
    OBVIOUS
  <2>1. CASE Request
    <3>1. sendStart' \in Nat /\ sendStart' > sendStart /\ lastRead' = lastRead
      BY <2>1, RequesterAssumption DEF Request, StreamInv, NumberTypes
    <3>. QED
      BY <3>1 DEF Stream!Next, Stream!Ask
  <2>2. CASE Recv
    BY <2>2, RecvStep DEF Stream!Next, Stream!Hand
  <2>3. ASSUME UNCHANGED <<sendStart, lastRead>>
        PROVE  UNCHANGED Stream!vars
    BY <2>3 DEF Stream!vars
  <2>4. CASE Input
    BY <2>3, <2>4 DEF Input, InputData, InputHeader, appVars
  <2>5. ASSUME NEW clear \in BOOLEAN, Update(clear)
        PROVE  UNCHANGED Stream!vars
    BY <2>3, <2>5 DEF Update, UpdateAdding, Flush, appVars
  <2>6. CASE InterestTimeout \/ HoleAges
    BY <2>3, <2>6 DEF InterestTimeout, HoleAges, appVars
  <2>7. CASE UNCHANGED vars
    BY <2>3, <2>7 DEF vars, appVars
  <2>. QED
    BY <2>1, <2>2, <2>4, <2>5, <2>6, <2>7 DEF Next
<1>. QED
  BY <1>1, <1>2, StreamInvariant, PTL DEF Spec, StreamSpec, Stream!Spec

(* The holes are always disjoint, in order and below the mark, whatever    *)
(* packets arrive late or again, so the break of deleteDataHole leaves out *)
(* nothing (leotp.cpp:484-518, 586-608).                                   *)
THEOREM HolesAlwaysInOrder == Spec => []HolesInOrder
  BY InitHolesInv, NextHolesInv, HolesInvSays, PTL DEF Spec
=============================================================================
