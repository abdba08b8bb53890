------------------------- MODULE LeotpMidnodeProofs -------------------------
(***************************************************************************)
(* Proofs about a midnode.  The data it receives for its cache waits in    *)
(* rcvBuf, where update may discard it, only if rcvQueue is full, and from *)
(* rcvQueue it reaches the cache.  Every byte of an interest or a hole is  *)
(* served, forwarded or waiting, sndQueueBytes is the size of sndQueue,    *)
(* and the next node sees no gap this node has announced.                  *)
(***************************************************************************)
EXTENDS LeotpMidnode, LeotpHolesProofs

-----------------------------------------------------------------------------
(* The lists hold segments.                                                *)
DataTypes == rcvBuf \in Seq(Segs) /\ rcvQueue \in Seq(Segs) /\ taken \in Seq(Segs)

WaitInv == DataTypes /\ WaitsOnlyForRoom

(* What a list covers, a longer one covers; a list of one its element; a   *)
(* list its head and its tail.                                             *)
LEMMA CoveredLonger ==
  ASSUME NEW T, NEW s \in Seq(T), NEW t \in Seq(T)
  PROVE  Covered(s) \subseteq Covered(s \o t)
BY CoveredJoin

LEMMA CoveredSplit ==
  ASSUME NEW T, NEW s \in Seq(T), s # <<>>
  PROVE  Covered(s) \subseteq Covered(Tail(s)) \cup Covered(<<Head(s)>>)
<1>1. Covered(<<Head(s)>>) = Span(s[1])
  BY DEF Covered
<1>2. \A i \in 1 .. Len(s) : i = 1 \/ (i - 1 \in 1 .. Len(Tail(s)) /\ Tail(s)[i - 1] = s[i])
  OBVIOUS
<1>. QED
  BY <1>1, <1>2 DEF Covered

-----------------------------------------------------------------------------
(* moveToRcvQueue leaves rcvBuf empty or rcvQueue full, keeps the types,   *)
(* and takes nothing from rcvQueue.                                        *)
LEMMA MoveSettles ==
  ASSUME NEW buf \in Seq(Segs), NEW queue \in Seq(Segs), MoveToRcvQueue(buf, queue)
  PROVE  /\ rcvBuf' \in Seq(Segs) /\ rcvQueue' \in Seq(Segs)
         /\ rcvBuf' # <<>> => Len(rcvQueue') >= LEOTP_WND_RCV
         /\ Covered(queue) \subseteq Covered(rcvQueue')
<1>1. CASE Len(queue) < LEOTP_WND_RCV
  <2>1. rcvQueue' = queue \o buf /\ rcvBuf' = <<>>
    BY <1>1 DEF MoveToRcvQueue, QueueAfter, BufAfter
  <2>2. Covered(queue) \subseteq Covered(queue \o buf)
    BY CoveredLonger
  <2>3. queue \o buf \in Seq(Segs) /\ <<>> \in Seq(Segs)
    OBVIOUS
  <2>. QED
    BY <2>1, <2>2, <2>3
<1>2. CASE ~ (Len(queue) < LEOTP_WND_RCV)
  <2>1. rcvQueue' = queue /\ rcvBuf' = buf
    BY <1>2 DEF MoveToRcvQueue, QueueAfter, BufAfter
  <2>2. Len(queue) >= LEOTP_WND_RCV
    BY <1>2, MidnodeAssumption
  <2>. QED
    BY <2>1, <2>2
<1>. QED
  BY <1>1, <1>2

(* What is on its way to the cache stays on its way, or is there.          *)
ReachesCache ==
  /\ Covered(rcvQueue) \subseteq Covered(rcvQueue') \cup Covered(taken')
  /\ FullBlocks(store \cup Covered(taken)) = {}
       => Covered(taken) \subseteq Covered(taken') \cup store'

LEMMA InputPushStep ==
  ASSUME WaitInv, NEW seg \in Segs, InputPush(seg)
  PROVE  WaitInv' /\ ReachesCache
<1>. DEFINE buf == IF seg.len = 0 THEN rcvBuf ELSE Append(rcvBuf, seg)
<1>1. buf \in Seq(Segs) /\ rcvQueue \in Seq(Segs) /\ taken \in Seq(Segs)
  BY DEF WaitInv, DataTypes
<1>2. MoveToRcvQueue(buf, rcvQueue) /\ taken' = taken
  BY DEF InputPush, appVars
<1>. HIDE DEF buf
<1>3. /\ rcvBuf' \in Seq(Segs) /\ rcvQueue' \in Seq(Segs)
      /\ rcvBuf' # <<>> => Len(rcvQueue') >= LEOTP_WND_RCV
      /\ Covered(rcvQueue) \subseteq Covered(rcvQueue')
  BY <1>1, <1>2, MoveSettles
<1>. QED
  BY <1>1, <1>2, <1>3 DEF WaitInv, DataTypes, WaitsOnlyForRoom, ReachesCache

LEMMA RecvStep ==
  ASSUME WaitInv, Recv
  PROVE  WaitInv' /\ ReachesCache
<1>1. /\ rcvBuf \in Seq(Segs) /\ rcvQueue \in Seq(Segs) /\ rcvQueue # <<>>
      /\ taken = <<>> /\ taken' = <<Head(rcvQueue)>>
      /\ MoveToRcvQueue(rcvBuf, Tail(rcvQueue))
  BY DEF WaitInv, DataTypes, Recv
<1>2. Tail(rcvQueue) \in Seq(Segs) /\ taken' \in Seq(Segs)
  BY <1>1
<1>3. /\ rcvBuf' \in Seq(Segs) /\ rcvQueue' \in Seq(Segs)
      /\ rcvBuf' # <<>> => Len(rcvQueue') >= LEOTP_WND_RCV
      /\ Covered(Tail(rcvQueue)) \subseteq Covered(rcvQueue')
  BY <1>1, <1>2, MoveSettles
<1>4. Covered(rcvQueue) \subseteq Covered(Tail(rcvQueue)) \cup Covered(taken')
  BY <1>1, CoveredSplit
<1>5. WaitInv'
  BY <1>2, <1>3 DEF WaitInv, DataTypes, WaitsOnlyForRoom
<1>6. Covered(taken) = {}
  BY <1>1, CoveredNone
<1>. QED
  BY <1>3, <1>4, <1>5, <1>6 DEF ReachesCache

LEMMA StoreTakenStep ==
  ASSUME WaitInv, StoreTaken
  PROVE  WaitInv' /\ ReachesCache
<1>1. /\ rcvBuf' = rcvBuf /\ rcvQueue' = rcvQueue /\ taken' = <<>>
      /\ FullBlocks(store \cup Covered(taken)) = {} => store' = store \cup Covered(taken)
  BY DEF StoreTaken, rcvVars
<1>2. <<>> \in Seq(Segs)
  OBVIOUS
<1>. QED
  BY <1>1, <1>2 DEF WaitInv, DataTypes, WaitsOnlyForRoom, ReachesCache

LEMMA UpdateStep ==
  ASSUME WaitInv, NEW clear \in BOOLEAN, Update(clear)
  PROVE  WaitInv' /\ ReachesCache
<1>1. rcvQueue' = rcvQueue /\ taken' = taken /\ rcvBuf' \in {<<>>, rcvBuf}
  BY DEF Update, appVars
<1>2. <<>> \in Seq(Segs)
  OBVIOUS
<1>. QED
  BY <1>1, <1>2 DEF WaitInv, DataTypes, WaitsOnlyForRoom, ReachesCache

LEMMA WaitInvNext ==
  ASSUME WaitInv, [Next]_vars
  PROVE  WaitInv' /\ ReachesCache
<1>. DEFINE Same == rcvBuf' = rcvBuf /\ rcvQueue' = rcvQueue /\ taken' = taken
<1>1. Same => WaitInv' /\ ReachesCache
  BY DEF WaitInv, DataTypes, WaitsOnlyForRoom, ReachesCache
<1>2. ASSUME NEW r \in Ranges, InputInt(r) PROVE Same
  BY <1>2 DEF InputInt, rcvVars, appVars
<1>2a. CASE ReadPiece
  BY <1>1, <1>2a DEF ReadPiece, rcvVars, appVars
<1>2b. CASE FlushData
  BY <1>1, <1>2b DEF FlushData, rcvVars, appVars
<1>3. CASE DropBlock
  BY <1>1, <1>3 DEF DropBlock, rcvVars
<1>4. CASE HoleAges
  BY <1>1, <1>4 DEF HoleAges, rcvVars, appVars
<1>5. CASE UNCHANGED vars
  BY <1>1, <1>5 DEF vars, rcvVars, appVars
<1>. QED
  BY <1>1, <1>2, <1>2a, <1>2b, <1>3, <1>4, <1>5, InputPushStep, RecvStep, StoreTakenStep,
     UpdateStep DEF Next

-----------------------------------------------------------------------------
(* Data waits in rcvBuf only while rcvQueue holds LEOTP_WND_RCV segments,  *)
(* for every window, segment size and order of packets (leotp.cpp:820-831, *)
(* 1346).                                                                  *)
THEOREM DataWaitsOnlyForRoom == Spec => []WaitsOnlyForRoom
<1>1. Init => WaitInv
  BY DEF Init, WaitInv, DataTypes, WaitsOnlyForRoom
<1>2. WaitInv /\ [Next]_vars => WaitInv'
  BY WaitInvNext
<1>3. WaitInv => WaitsOnlyForRoom
  BY DEF WaitInv
<1>. QED
  BY <1>1, <1>2, <1>3, PTL DEF Spec

(* What the application may take from a midnode reaches the cache, unless  *)
(* a block is full (appmid.cpp:20-26).                                     *)
THEOREM QueueAlwaysReachesCache == Spec => QueuedReachesCache
<1>1. Init => WaitInv
  BY DEF Init, WaitInv, DataTypes, WaitsOnlyForRoom
<1>2. WaitInv /\ [Next]_vars => WaitInv'
  BY WaitInvNext
<1>3. WaitInv /\ [Next]_vars => [ReachesCache]_vars
  BY WaitInvNext
<1>4. [ReachesCache]_vars
        <=> [/\ Covered(rcvQueue) \subseteq Covered(rcvQueue') \cup Covered(taken')
             /\ FullBlocks(store \cup Covered(taken)) = {}
                  => Covered(taken) \subseteq Covered(taken') \cup store']_vars
  BY DEF ReachesCache
<1>. QED
  BY <1>1, <1>2, <1>3, <1>4, PTL DEF Spec, QueuedReachesCache

-----------------------------------------------------------------------------
(* Segments and ranges of the stream.                                      *)
SegFn == [x \in Segs |-> LEOTP_OVERHEAD + x.len]

LEMMA SegFacts ==
  /\ Sized(Segs) /\ Sized(Ranges)
  /\ \A x \in Segs : x.len \in Nat /\ x.start \in Bytes /\ x.end \in Bytes
  /\ \A x \in Ranges : x.start \in Bytes /\ x.end \in Bytes
<1>1. MaxByte \in Nat /\ LEOTP_MSS \in Nat
  BY MidnodeAssumption
<1>2. \A x \in Ranges : x.start \in Bytes /\ x.end \in Bytes /\ x.start < x.end
  BY DEF Ranges
<1>3. \A x \in Bytes : x \in Nat
  BY <1>1 DEF Bytes
<1>4. ASSUME NEW x \in Segs
      PROVE  x.len \in Nat /\ x.start \in Bytes /\ x.end \in Bytes /\ x.start < x.end
  <2>1. PICK r \in Ranges : x = Data(r.start, r.end) \/ x = Header(r.start, r.end)
    BY DEF Segs
  <2>2. r.start \in Nat /\ r.end \in Nat /\ r.start < r.end /\ r.start \in Bytes /\ r.end \in Bytes
    BY <1>2, <1>3
  <2>. QED
    BY <2>1, <2>2 DEF Data, Header
<1>. QED
  BY <1>2, <1>3, <1>4 DEF Sized

LEMMA SegFnType == SegFn \in [Segs -> Nat] /\ SegFn \in [Segs -> Int]
<1>1. \A x \in Segs : LEOTP_OVERHEAD + x.len \in Nat /\ LEOTP_OVERHEAD + x.len \in Int
  BY SegFacts, MidnodeAssumption
<1>. QED
  BY <1>1 DEF SegFn

LEMMA WeightIs ==
  ASSUME NEW s \in Seq(Segs)
  PROVE  Weight(s) = WeightOf(SegFn, s) /\ Weight(s) \in Nat
<1>1. \A i \in 1 .. Len(s) : SegFn[s[i]] = LEOTP_OVERHEAD + s[i].len
  BY DEF SegFn
<1>2. Weight(s) = WeightOf(SegFn, s)
  BY <1>1 DEF Weight, WeightOf
<1>. QED
  BY <1>2, SegFnType, WeightNat

LEMMA WeightsJoin ==
  ASSUME NEW s \in Seq(Segs), NEW t \in Seq(Segs)
  PROVE  Weight(s \o t) = Weight(s) + Weight(t)
<1>1. s \o t \in Seq(Segs)
  OBVIOUS
<1>2. WeightOf(SegFn, s \o t) = WeightOf(SegFn, s) + WeightOf(SegFn, t)
  BY SegFnType, WeightJoin
<1>. QED
  BY <1>1, <1>2, WeightIs

(* sendData cuts the bytes from s to e into segments of the stream.        *)
LEMMA CutSegs ==
  ASSUME NEW s \in Bytes, NEW e \in Bytes, s <= e
  PROVE  /\ Cut(s, e) \in Seq(Segs) /\ Amount(Cut(s, e)) = e - s
         /\ Covered(Cut(s, e)) = s .. e - 1
<1>1. s \in Nat /\ e \in Nat /\ MaxByte \in Nat /\ e <= MaxByte
  BY MidnodeAssumption DEF Bytes
<1>2. PICK m \in Nat : m = LEOTP_MSS /\ m > 0
  BY MidnodeAssumption
<1>3. PICK c : c = (e - s + m - 1) \div m
  OBVIOUS
<1>4. c \in Nat /\ (c = 0 <=> s = e)
  BY <1>1, <1>2, <1>3, PieceCount
<1>5. PICK t : t = Cut(s, e)
  OBVIOUS
<1>6. t = [i \in 1 .. c |-> Data(s + (i - 1) * m, Lower(s + i * m, e))]
  BY <1>2, <1>3, <1>5 DEF Cut
<1>7. Len(t) = c
  BY <1>4, <1>6
<1>8. CASE s = e
  <2>1. t = <<>>
    BY <1>4, <1>6, <1>8
  <2>2. s .. e - 1 = {} /\ e - s = 0
    BY <1>1, <1>8
  <2>3. t \in Seq(Segs) /\ Amount(t) = 0 /\ Covered(t) = {}
    BY <2>1, AmountNone, CoveredNone
  <2>. QED
    BY <1>5, <2>2, <2>3
<1>9. CASE s < e
  <2>1. ASSUME NEW i \in 1 .. c
        PROVE  /\ t[i].start = s + (i - 1) * m /\ t[i].end = Lower(s + i * m, e)
               /\ t[i] = Data(t[i].start, t[i].end)
    <3>1. PICK a, b : a = s + (i - 1) * m /\ b = Lower(s + i * m, e)
      OBVIOUS
    <3>2. t[i] = Data(a, b)
      BY <1>6, <3>1
    <3>3. t[i].start = a /\ t[i].end = b
      BY <3>2 DEF Data
    <3>. QED
      BY <3>1, <3>2, <3>3
  <2>2. IsCut(t, s, e, m)
    BY <1>3, <1>7, <2>1 DEF IsCut
  <2>3. IsChain(t, s, e) /\ \A i \in 1 .. Len(t) : Size(t[i]) <= m
    BY <1>1, <1>2, <1>9, <2>2, CutChain
  <2>4. Amount(t) = e - s /\ Covered(t) = s .. e - 1
    BY <2>3, ChainBytes
  <2>5. ASSUME NEW i \in 1 .. c
        PROVE  t[i] \in Segs
    <3>1. PICK a \in Nat, b \in Nat : a = t[i].start /\ b = t[i].end /\ a < b /\ b - a <= m
      BY <1>7, <2>3 DEF IsChain, Size
    <3>2. b <= e
      <4>1. \A x : b = Lower(x, e) => b = e \/ (b = x /\ x < e)
        BY DEF Lower
      <4>2. b = Lower(s + i * m, e)
        BY <2>1, <3>1
      <4>. QED
        BY <1>1, <4>1, <4>2
    <3>3. t[i] = Data(a, b)
      BY <2>1, <3>1
    <3>4. [start |-> a, end |-> b] \in Ranges
      BY <1>1, <3>1, <3>2 DEF Ranges, Bytes
    <3>. QED
      BY <1>2, <3>1, <3>3, <3>4 DEF Segs, Size
  <2>6. t \in Seq(Segs)
    BY <1>4, <1>6, <1>7, <2>5
  <2>. QED
    BY <1>5, <2>4, <2>6
<1>. QED
  BY <1>1, <1>8, <1>9

-----------------------------------------------------------------------------
(* A read of parseInt: what the cache serves, what is still to be read and *)
(* what is requested.                                                      *)

LEMMA ServedEndIn ==
  ASSUME NEW bytes, NEW r, r.start \in Nat, r.end \in Nat, r.start < r.end
  PROVE  ServedEnd(bytes, r) \in r.start .. r.end
<1>. DEFINE S == {b \in r.start .. r.end : b = r.end \/ b \notin bytes}
<1>1. S \subseteq Nat /\ r.end \in S
  OBVIOUS
<1>. HIDE DEF S
<1>2. First(S) \in S
  BY <1>1, FirstIsLeast
<1>. QED
  BY <1>2 DEF S, ServedEnd

LEMMA ReadSplits ==
  ASSUME NEW r \in Ranges, NEW e, e = ServedEnd(store, FirstPiece(r))
  PROVE  /\ Cut(r.start, e) \in Seq(Segs)
         /\ StillToRead(r, e) \in Seq(Ranges) /\ Missing(r, e) \in Seq(Ranges)
         /\ Amount(Cut(r.start, e)) + Amount(StillToRead(r, e)) + Amount(Missing(r, e)) = Size(r)
<1>1. PICK a \in Bytes, c \in Bytes : a = r.start /\ c = r.end /\ a < c
  BY DEF Ranges
<1>2. MaxByte \in Nat /\ a \in Nat /\ c \in Nat /\ c <= MaxByte /\ LEOTP_MSS \in Nat /\ LEOTP_MSS > 0
  BY MidnodeAssumption DEF Bytes
<1>3. PICK p \in Nat : FirstPiece(r).start = a /\ FirstPiece(r).end = p /\ a < p /\ p <= c
  <2>1. PICK p : p = Lower(a + LEOTP_MSS, c)
    OBVIOUS
  <2>2. p \in Nat /\ a < p /\ p <= c
    BY <1>1, <1>2, <2>1 DEF Lower
  <2>3. FirstPiece(r).start = a /\ FirstPiece(r).end = p
    BY <1>1, <2>1 DEF FirstPiece
  <2>. QED
    BY <2>2, <2>3
<1>4. e \in a .. p
  BY <1>2, <1>3, ServedEndIn
<1>5. e \in Bytes /\ e \in Nat /\ a <= e
  BY <1>2, <1>3, <1>4 DEF Bytes
<1>6. Cut(a, e) \in Seq(Segs) /\ Amount(Cut(a, e)) = e - a
  BY <1>5, CutSegs
<1>7. Size(r) = c - a
  BY <1>1 DEF Size
<1>8. <<>> \in Seq(Ranges) /\ Amount(<<>>) = 0
  BY AmountNone
<1>9. CASE e = c
  <2>1. StillToRead(r, e) = <<>> /\ Missing(r, e) = <<>>
    BY <1>1, <1>2, <1>3, <1>4, <1>9 DEF StillToRead, Missing
  <2>. QED
    BY <1>1, <1>2, <1>6, <1>7, <1>8, <1>9, <2>1
<1>10. CASE e # c
  <2>1. PICK x : x = [start |-> e, end |-> c]
    OBVIOUS
  <2>2. e < c
    BY <1>2, <1>3, <1>4, <1>10
  <2>3. <<x>> \in Seq(Ranges) /\ Amount(<<x>>) = c - e
    <3>1. x \in Ranges /\ Size(x) = c - e
      BY <1>5, <2>1, <2>2 DEF Ranges, Size
    <3>2. <<x>> \in Seq(Ranges)
      BY <3>1
    <3>3. Amount(<<x>>) = Size(x)
      BY <3>1, SegFacts, AmountOne
    <3>. QED
      BY <3>1, <3>2, <3>3
  <2>4. \/ StillToRead(r, e) = <<x>> /\ Missing(r, e) = <<>>
        \/ StillToRead(r, e) = <<>> /\ Missing(r, e) = <<x>>
    BY <1>1, <1>3, <1>4, <2>1, <2>2 DEF StillToRead, Missing
  <2>5. (e - a) + (c - e) = c - a /\ (e - a) + (c - e) + 0 = c - a /\ (e - a) + 0 + (c - e) = c - a
    BY <1>2, <1>5
  <2>. QED
    BY <1>1, <1>6, <1>7, <1>8, <2>3, <2>4, <2>5
<1>. QED
  BY <1>9, <1>10

(* A list of no bytes is empty.                                            *)
LEMMA NoBytes ==
  ASSUME NEW T, Sized(T), NEW s \in Seq(T), Amount(s) = 0
  PROVE  s = <<>>
<1>. SUFFICES ASSUME s # <<>> PROVE FALSE
  OBVIOUS
<1>1. Len(s) \in Nat /\ 1 \in 0 .. Len(s) /\ s[1] \in T
  OBVIOUS
<1>2. PICK a, b : a = SubSeq(s, 1, 1) /\ b = SubSeq(s, 1 + 1, Len(s))
  OBVIOUS
<1>3. a \in Seq(T) /\ b \in Seq(T) /\ Amount(a) + Amount(b) = Amount(s)
  BY <1>1, <1>2, CutInTwo
<1>4. a = <<s[1]>>
  <2>1. Len(a) = 1 /\ a[1] = s[1]
    BY <1>1, <1>2
  <2>2. a = [i \in 1 .. 1 |-> a[i]]
    BY <1>3, <2>1
  <2>. QED
    BY <2>1, <2>2
<1>5. Amount(a) = Size(s[1]) /\ Size(s[1]) \in Nat /\ Size(s[1]) > 0
  <2>1. s[1].start \in Nat /\ s[1].end \in Nat /\ s[1].start < s[1].end
    BY <1>1 DEF Sized
  <2>. QED
    BY <1>1, <1>4, <2>1, AmountOne DEF Size
<1>6. Amount(b) \in Nat
  BY <1>3, AmountType
<1>. QED
  BY <1>3, <1>5, <1>6

-----------------------------------------------------------------------------
(* flushIntQueue.                                                          *)

(* A range in interests of at most LEOTP_MSS bytes.                        *)
PiecesOf(r) ==
  [i \in 1 .. (Size(r) + LEOTP_MSS - 1) \div LEOTP_MSS |->
     [start |-> r.start + (i - 1) * LEOTP_MSS,
      end   |-> Lower(r.start + i * LEOTP_MSS, r.end)]]

LEMMA PiecesRanges ==
  ASSUME NEW r \in Ranges
  PROVE  PiecesOf(r) \in Seq(Ranges) /\ Amount(PiecesOf(r)) = Size(r)
<1>1. PICK s \in Nat, e \in Nat : s = r.start /\ e = r.end /\ s < e /\ e <= MaxByte
  BY MidnodeAssumption DEF Ranges, Bytes
<1>2. PICK m \in Nat : m = LEOTP_MSS /\ m > 0
  BY MidnodeAssumption
<1>3. PICK c : c = (e - s + m - 1) \div m
  OBVIOUS
<1>4. c \in Nat
  BY <1>1, <1>2, <1>3, PieceCount
<1>5. PICK t : t = PiecesOf(r)
  OBVIOUS
<1>6. t = [i \in 1 .. c |-> [start |-> s + (i - 1) * m, end |-> Lower(s + i * m, e)]]
  BY <1>1, <1>2, <1>3, <1>5 DEF PiecesOf, Size
<1>7. Len(t) = c
  BY <1>4, <1>6
<1>8. \A i \in 1 .. c : /\ t[i].start = s + (i - 1) * m /\ t[i].end = Lower(s + i * m, e)
                        /\ t[i] = [start |-> t[i].start, end |-> t[i].end]
  BY <1>6
<1>9. IsCut(t, s, e, m)
  BY <1>3, <1>7, <1>8 DEF IsCut
<1>10. IsChain(t, s, e)
  BY <1>1, <1>2, <1>9, CutChain
<1>11. ASSUME NEW i \in 1 .. c
       PROVE  t[i] \in Ranges
  <2>1. PICK a \in Nat, b \in Nat : a = t[i].start /\ b = t[i].end /\ a < b
    BY <1>7, <1>10 DEF IsChain
  <2>2. b <= e
    <3>1. \A x : b = Lower(x, e) => b = e \/ (b = x /\ x < e)
      BY DEF Lower
    <3>2. b = Lower(s + i * m, e)
      BY <1>8, <2>1
    <3>. QED
      BY <1>1, <3>1, <3>2
  <2>3. t[i] = [start |-> a, end |-> b]
    BY <1>8, <2>1
  <2>. QED
    BY <1>1, <2>1, <2>2, <2>3, MidnodeAssumption DEF Ranges, Bytes
<1>12. t \in Seq(Ranges)
  <2>1. t = [i \in 1 .. c |-> t[i]]
    BY <1>6
  <2>. QED
    BY <1>4, <1>11, <2>1
<1>. QED
  BY <1>1, <1>5, <1>10, <1>12, ChainBytes DEF Size

(* The interests so far, with those for one more range.                    *)
Extended(done, r) ==
  LET n     == Len(done)
      joins == n > 0 /\ done[n].end = r.start /\ Size(done[n]) < LEOTP_MSS
  IN IF joins
     THEN SubSeq(done, 1, n - 1) \o PiecesOf([done[n] EXCEPT !.end = r.end])
     ELSE done \o PiecesOf(r)

LEMMA ExtendedBytes ==
  ASSUME NEW done \in Seq(Ranges), NEW r \in Ranges
  PROVE  Extended(done, r) \in Seq(Ranges) /\ Amount(Extended(done, r)) = Amount(done) + Size(r)
<1>1. Sized(Ranges)
  BY SegFacts
<1>2. Len(done) \in Nat
  OBVIOUS
<1>. DEFINE joins == Len(done) > 0 /\ done[Len(done)].end = r.start /\ Size(done[Len(done)]) < LEOTP_MSS
<1>3. CASE joins
  <2>1. PICK n \in Nat : n = Len(done) /\ n > 0
    BY <1>2, <1>3
  <2>2. PICK x : x = done[n]
    OBVIOUS
  <2>3. x \in Ranges /\ x.end = r.start
    BY <1>3, <2>1, <2>2
  <2>4. PICK y : y = [x EXCEPT !.end = r.end]
    OBVIOUS
  <2>5. PICK a \in Bytes, b \in Bytes, c \in Bytes :
          a = x.start /\ b = r.start /\ c = r.end /\ a < b /\ b < c
    BY <2>3 DEF Ranges
  <2>6. a \in Nat /\ b \in Nat /\ c \in Nat
    BY MidnodeAssumption DEF Bytes
  <2>7. y = [start |-> a, end |-> c]
    <3>1. x = [start |-> x.start, end |-> x.end]
      BY <2>3 DEF Ranges
    <3>. QED
      BY <2>4, <2>5, <3>1
  <2>8. y \in Ranges
    BY <2>5, <2>6, <2>7 DEF Ranges
  <2>9. Size(y) = c - a /\ Size(x) = b - a /\ Size(r) = c - b
    BY <2>3, <2>5, <2>7 DEF Size
  <2>10. PICK p, q : p = SubSeq(done, 1, n - 1) /\ q = SubSeq(done, n - 1 + 1, Len(done))
    OBVIOUS
  <2>11. p \in Seq(Ranges) /\ q \in Seq(Ranges) /\ Amount(p) + Amount(q) = Amount(done)
    <3>1. n - 1 \in 0 .. Len(done)
      BY <2>1
    <3>. QED
      BY <1>1, <2>10, <3>1, CutInTwo
  <2>12. q = <<x>>
    <3>1. Len(q) = 1 /\ q[1] = x
      BY <2>1, <2>2, <2>10
    <3>2. q = [i \in 1 .. 1 |-> q[i]]
      BY <2>11, <3>1
    <3>. QED
      BY <3>1, <3>2
  <2>13. Amount(q) = Size(x)
    BY <1>1, <2>3, <2>12, AmountOne
  <2>14. PICK t : t = PiecesOf(y)
    OBVIOUS
  <2>15. t \in Seq(Ranges) /\ Amount(t) = Size(y)
    BY <2>8, <2>14, PiecesRanges
  <2>16. p \o t \in Seq(Ranges) /\ Amount(p \o t) = Amount(p) + Amount(t)
    BY <1>1, <2>11, <2>15, AmountJoin
  <2>17. Extended(done, r) = p \o t
    BY <1>3, <2>1, <2>2, <2>4, <2>10, <2>14 DEF Extended
  <2>18. Amount(p) \in Int
    BY <1>1, <2>11, AmountType
  <2>19. Amount(done) = Amount(p) + (b - a)
    BY <2>9, <2>11, <2>13
  <2>. QED
    BY <2>6, <2>9, <2>15, <2>16, <2>17, <2>18, <2>19
<1>4. CASE ~ joins
  <2>1. PICK t : t = PiecesOf(r)
    OBVIOUS
  <2>2. t \in Seq(Ranges) /\ Amount(t) = Size(r)
    BY <2>1, PiecesRanges
  <2>3. done \o t \in Seq(Ranges) /\ Amount(done \o t) = Amount(done) + Amount(t)
    BY <1>1, <2>2, AmountJoin
  <2>4. Extended(done, r) = done \o t
    BY <1>4, <2>1 DEF Extended
  <2>. QED
    BY <2>2, <2>3, <2>4
<1>. QED
  BY <1>3, <1>4

(* The interests made of a list of ranges ask for its bytes.               *)
LEMMA InterestsBytes ==
  ASSUME NEW rs \in Seq(Ranges)
  PROVE  Interests(rs) \in Seq(Ranges) /\ Amount(Interests(rs)) = Amount(rs)
<1>. DEFINE S == Seq(Ranges)
            Step(f, i) == IF i = 0 THEN <<>> ELSE Extended(f[i - 1], rs[i])
            f == CHOOSE f : f = [i \in 0 .. Len(rs) |-> Step(f, i)]
            G == [q \in S \X Nat |-> IF q[2] \in 1 .. Len(rs) THEN Extended(q[1], rs[q[2]]) ELSE <<>>]
<1>0. Len(rs) \in Nat /\ <<>> \in S
  OBVIOUS
<1>1. ASSUME NEW x \in S, NEW i \in 1 .. Len(rs)
      PROVE  Extended(x, rs[i]) \in S /\ Amount(Extended(x, rs[i])) = Amount(x) + Size(rs[i])
  BY ExtendedBytes
<1>2. G \in [S \X Nat -> S]
  <2>. HIDE DEF S
  <2>. QED
    BY <1>0, <1>1
<1>3. ASSUME NEW x \in S, NEW i \in 1 .. Len(rs)
      PROVE  G[<<x, i>>] = Extended(x, rs[i])
  <2>1. <<x, i>> \in S \X Nat
    OBVIOUS
  <2>. QED
    BY <2>1
<1>. HIDE DEF G, S
<1>4. PICK h \in [0 .. Len(rs) -> S] :
        h[0] = <<>> /\ \A i \in 1 .. Len(rs) : h[i] = G[<<h[i - 1], i>>]
  <2>1. Solvable(Len(rs), S, <<>>, G)
    BY <1>0, <1>2, RecursionExists
  <2>. QED
    BY <2>1 DEF Solvable
<1>5. ASSUME NEW i \in 1 .. Len(rs)
      PROVE  i - 1 \in 0 .. Len(rs) /\ h[i - 1] \in S /\ h[i] = Extended(h[i - 1], rs[i])
  <2>1. i - 1 \in 0 .. Len(rs)
    OBVIOUS
  <2>2. h[i - 1] \in S
    BY <1>4, <2>1
  <2>. QED
    BY <1>3, <1>4, <2>1, <2>2
<1>6. h = [i \in 0 .. Len(rs) |-> Step(h, i)]
  <2>1. ASSUME NEW i \in 0 .. Len(rs)
        PROVE  h[i] = Step(h, i)
    <3>1. CASE i = 0
      BY <1>4, <3>1
    <3>2. CASE i # 0
      <4>1. i \in 1 .. Len(rs)
        BY <3>2
      <4>. QED
        BY <1>5, <3>2, <4>1
    <3>. QED
      BY <3>1, <3>2
  <2>. HIDE DEF Step
  <2>. QED
    BY <1>4, <2>1
<1>7. f = [i \in 0 .. Len(rs) |-> Step(f, i)]
  <2>. HIDE DEF Step
  <2>. QED
    BY <1>6
<1>8. Interests(rs) = f[Len(rs)]
  BY DEF Interests, Extended, PiecesOf
<1>9. f[0] = <<>> /\ \A i \in 1 .. Len(rs) : f[i] = Extended(f[i - 1], rs[i])
  <2>. HIDE DEF f
  <2>. QED
    BY <1>0, <1>7
<1>. HIDE DEF f
<1>10. f \in [0 .. Len(rs) -> S]
  <2>1. ASSUME NEW i \in 1 .. Len(rs), f[i - 1] \in S
        PROVE  f[i] \in S
    BY <1>1, <1>9, <2>1
  <2>2. ASSUME NEW n \in 0 .. Len(rs)
        PROVE  f[n] \in S
    <3>1. n \in Nat /\ \A i \in 1 .. n : i \in 1 .. Len(rs)
      BY <1>0
    <3>2. f[0] \in S
      BY <1>0, <1>9
    <3>. QED
      BY <2>1, <3>1, <3>2, RecursionStays
  <2>. QED
    BY <1>7, <2>2
<1>11. Interests(rs) \in S
  BY <1>0, <1>8, <1>10
<1>. DEFINE g == [k \in 0 .. Len(rs) |-> Amount(f[k])]
            ns == [i \in 1 .. Len(rs) |-> IF i \in 1 .. Len(rs) THEN Size(rs[i]) ELSE 0]
<1>12. PartialSums(Len(rs), ns, g)
  <2>1. ASSUME NEW k \in 0 .. Len(rs)
        PROVE  Amount(f[k]) \in Int
    BY <1>10, SegFacts, AmountType DEF S
  <2>2. g[0] = 0
    <3>1. g[0] = Amount(f[0])
      BY <1>0
    <3>. QED
      BY <1>9, <3>1, AmountNone
  <2>3. ASSUME NEW i \in 1 .. Len(rs)
        PROVE  g[i] = g[i - 1] + ns[i]
    <3>1. i - 1 \in 0 .. Len(rs) /\ i \in 0 .. Len(rs)
      BY <1>0
    <3>2. f[i - 1] \in S
      BY <1>10, <3>1
    <3>3. Amount(f[i]) = Amount(f[i - 1]) + Size(rs[i])
      BY <1>1, <1>9, <3>2
    <3>. QED
      BY <3>1, <3>3
  <2>. QED
    BY <2>1, <2>2, <2>3 DEF PartialSums
<1>13. g[Len(rs)] = Amount(f[Len(rs)])
  BY <1>0
<1>14. SumOf(Len(rs), ns) = Amount(rs)
  BY DEF Amount, TotalSize
<1>. HIDE DEF g, ns
<1>15. SumOf(Len(rs), ns) = g[Len(rs)]
  BY <1>0, <1>12, SumIs
<1>. QED
  BY <1>8, <1>11, <1>13, <1>14, <1>15 DEF S

-----------------------------------------------------------------------------
(* The invariant: requests, holes, segments to be sent, and the rest.      *)
IntInv ==
  /\ intBuf = <<>> /\ intBufBytes = 0
  /\ intQueue \in Seq(Ranges) /\ reading \in Seq(Ranges) /\ flushing \in BOOLEAN
  /\ owed = Amount(intQueue) + Amount(reading)

HoleInv == dataNextRangeStart \in Bytes /\ dataHoles \in SortedBelow(Gaps, dataNextRangeStart)

SndInv == sndQueue \in Seq(Segs) /\ sndQueueBytes = Weight(sndQueue) /\ dataOutputLimit \in Nat

RestInv == state \in {"up", "crashed"} /\ store \subseteq Bytes /\ inputs \in 0 .. MaxInputs

MidInv == IntInv /\ HoleInv /\ SndInv /\ RestInv

LEMMA InputIntInv ==
  ASSUME MidInv, NEW r \in Ranges, InputInt(r)
  PROVE  MidInv'
<1>1. IntInv'
  <2>1. /\ intBuf = <<>> /\ intBufBytes = 0 /\ intQueue \in Seq(Ranges) /\ flushing \in BOOLEAN
        /\ owed = Amount(intQueue) + Amount(reading) /\ reading = <<>>
    BY DEF MidInv, IntInv, InputInt, Unlocked
  <2>2. <<r>> \in Seq(Ranges) /\ Amount(<<r>>) = Size(r) /\ Amount(<<>>) = 0
    BY SegFacts, AmountOne, AmountNone
  <2>3. Amount(intQueue) \in Int
    BY <2>1, SegFacts, AmountType
  <2>4. owed' = owed + Size(r) /\ reading' = <<r>>
    BY DEF InputInt
  <2>5. owed = Amount(intQueue)
    BY <2>1, <2>2, <2>3
  <2>6. owed' = Amount(intQueue) + Amount(<<r>>)
    BY <2>2, <2>4, <2>5
  <2>. QED
    BY <2>1, <2>2, <2>4, <2>6 DEF IntInv, InputInt
<1>2. HoleInv' /\ SndInv'
  BY DEF MidInv, HoleInv, SndInv, InputInt, holeVars, sndVars
<1>3. RestInv'
  <2>1. MaxInputs \in Nat
    BY MidnodeAssumption
  <2>. QED
    BY <2>1 DEF MidInv, RestInv, InputInt, appVars
<1>. QED
  BY <1>1, <1>2, <1>3 DEF MidInv

LEMMA ReadPieceInv ==
  ASSUME MidInv, ReadPiece
  PROVE  MidInv'
<1>1. /\ intBuf = <<>> /\ intBufBytes = 0 /\ intQueue \in Seq(Ranges) /\ reading \in Seq(Ranges)
      /\ flushing \in BOOLEAN /\ owed = Amount(intQueue) + Amount(reading) /\ reading # <<>>
  BY DEF MidInv, IntInv, ReadPiece
<1>2. Sized(Ranges) /\ LEOTP_INTB_MAX \in Nat /\ 0 < LEOTP_INTB_MAX
  BY SegFacts, MidnodeAssumption
<1>3. PICK r, rest : r = Head(reading) /\ rest = Tail(reading)
  OBVIOUS
<1>4. r \in Ranges /\ rest \in Seq(Ranges) /\ reading = <<r>> \o rest
  BY <1>1, <1>3
<1>5. Amount(reading) = Size(r) + Amount(rest)
  <2>1. <<r>> \in Seq(Ranges) /\ Amount(<<r>>) = Size(r)
    BY <1>2, <1>4, AmountOne
  <2>2. Amount(<<r>> \o rest) = Amount(<<r>>) + Amount(rest)
    BY <1>2, <1>4, <2>1, AmountJoin
  <2>. QED
    BY <1>4, <2>1, <2>2
<1>6. PICK e : e = ServedEnd(store, FirstPiece(r))
  OBVIOUS
<1>7. PICK p, q, m : p = Cut(r.start, e) /\ q = StillToRead(r, e) /\ m = Missing(r, e)
  OBVIOUS
<1>8. /\ p \in Seq(Segs) /\ q \in Seq(Ranges) /\ m \in Seq(Ranges)
      /\ Amount(p) + Amount(q) + Amount(m) = Size(r)
  BY <1>4, <1>6, <1>7, ReadSplits
<1>9. /\ sndQueue' = sndQueue \o p /\ sndQueueBytes' = sndQueueBytes + Weight(p)
      /\ reading' = q \o rest /\ intQueue' = intQueue \o m /\ owed' = owed - Amount(p)
  <2>1. /\ sndQueue' = sndQueue \o p /\ sndQueueBytes' = Enqueued(sndQueueBytes, p)
        /\ reading' = q \o rest /\ intQueue' = intQueue \o Requested(m) /\ owed' = owed - SizeOf(p)
    BY <1>3, <1>6, <1>7 DEF ReadPiece
  <2>2. Requested(m) = m
    BY <1>1, <1>2 DEF Requested
  <2>. QED
    BY <2>1, <2>2 DEF Enqueued, SizeOf, Amount
<1>10. IntInv'
  <2>1. q \o rest \in Seq(Ranges) /\ Amount(q \o rest) = Amount(q) + Amount(rest)
    BY <1>2, <1>4, <1>8, AmountJoin
  <2>2. intQueue \o m \in Seq(Ranges) /\ Amount(intQueue \o m) = Amount(intQueue) + Amount(m)
    BY <1>1, <1>2, <1>8, AmountJoin
  <2>3. /\ Amount(p) \in Int /\ Amount(q) \in Int /\ Amount(m) \in Int /\ Amount(rest) \in Int
        /\ Amount(intQueue) \in Int
    BY <1>1, <1>4, <1>8, SegFacts, AmountType
  <2>4. owed' = Amount(intQueue \o m) + Amount(q \o rest)
    <3>1. PICK np \in Int, nq \in Int, nm \in Int, nr \in Int, ni \in Int :
            /\ np = Amount(p) /\ nq = Amount(q) /\ nm = Amount(m) /\ nr = Amount(rest)
            /\ ni = Amount(intQueue)
      BY <2>3
    <3>2. owed = ni + (np + nq + nm + nr)
      BY <1>1, <1>5, <1>8, <3>1
    <3>3. owed' = owed - np
      BY <1>9, <3>1
    <3>4. owed' = (ni + nm) + (nq + nr)
      BY <3>2, <3>3
    <3>. QED
      BY <2>1, <2>2, <3>1, <3>4
  <2>5. owed' = Amount(intQueue') + Amount(reading')
    BY <1>9, <2>4
  <2>6. intBuf' = <<>> /\ intBufBytes' = 0 /\ flushing' \in BOOLEAN
    BY <1>1 DEF ReadPiece
  <2>. QED
    BY <1>9, <2>1, <2>2, <2>5, <2>6 DEF IntInv
<1>11. SndInv'
  <2>1. sndQueue \in Seq(Segs) /\ sndQueueBytes = Weight(sndQueue) /\ dataOutputLimit \in Nat
    BY DEF MidInv, SndInv
  <2>2. sndQueue \o p \in Seq(Segs) /\ Weight(sndQueue \o p) = Weight(sndQueue) + Weight(p)
    BY <1>8, <2>1, WeightsJoin
  <2>3. dataOutputLimit' = dataOutputLimit
    BY DEF ReadPiece
  <2>. QED
    BY <1>9, <2>1, <2>2, <2>3 DEF SndInv
<1>12. HoleInv' /\ RestInv'
  BY DEF MidInv, HoleInv, RestInv, ReadPiece, holeVars, appVars
<1>. QED
  BY <1>10, <1>11, <1>12 DEF MidInv

(* What is queued for the next node when data arrives.                     *)
LEMMA QueuedSegs ==
  ASSUME NEW next \in Bytes, NEW seg \in Segs
  PROVE  Announce(next, seg) \in Seq(Segs) /\ Append(Announce(next, seg), seg) \in Seq(Segs)
<1>1. seg.start \in Bytes /\ next \in Nat /\ seg.start \in Nat
  BY SegFacts, MidnodeAssumption DEF Bytes
<1>2. CASE IsHole(next, seg)
  <2>1. PICK x : x = Header(next, seg.start)
    OBVIOUS
  <2>2. PICK r : r = [start |-> next, end |-> seg.start]
    OBVIOUS
  <2>3. r \in Ranges /\ r.start = next /\ r.end = seg.start
    BY <1>1, <1>2, <2>2 DEF Ranges, IsHole
  <2>4. x \in Segs
    BY <2>1, <2>3 DEF Segs
  <2>5. Announce(next, seg) = <<x>>
    BY <1>2, <2>1 DEF Announce
  <2>. QED
    BY <2>4, <2>5
<1>3. CASE ~ IsHole(next, seg)
  <2>1. Announce(next, seg) = <<>>
    BY <1>3 DEF Announce
  <2>. QED
    BY <2>1
<1>. QED
  BY <1>2, <1>3

LEMMA InputPushInv ==
  ASSUME MidInv, NEW seg \in Segs, InputPush(seg)
  PROVE  MidInv'
<1>1. seg.start \in Bytes /\ seg.end \in Bytes /\ Sized(Segs)
  BY SegFacts
<1>2. PICK a \in Nat, b \in Nat : a = seg.start /\ b = seg.end /\ a < b
  BY <1>1 DEF Sized
<1>3. PICK p : p = Append(Announce(dataNextRangeStart, seg), seg)
  OBVIOUS
<1>4. p \in Seq(Segs)
  BY <1>3, QueuedSegs DEF MidInv, HoleInv
<1>5. SndInv'
  <2>1. sndQueue \in Seq(Segs) /\ sndQueueBytes = Weight(sndQueue) /\ dataOutputLimit \in Nat
    BY DEF MidInv, SndInv
  <2>2. /\ sndQueue' = sndQueue \o p /\ sndQueueBytes' = sndQueueBytes + Weight(p)
        /\ dataOutputLimit' = dataOutputLimit
    BY <1>3 DEF InputPush, Enqueued
  <2>3. sndQueue \o p \in Seq(Segs)
    BY <1>4, <2>1
  <2>4. Weight(sndQueue \o p) = Weight(sndQueue) + Weight(p)
    BY <1>4, <2>1, WeightsJoin
  <2>. QED
    BY <2>1, <2>2, <2>3, <2>4 DEF SndInv
<1>6. HoleInv'
  <2>1. dataNextRangeStart \in Bytes /\ dataHoles \in SortedBelow(Gaps, dataNextRangeStart)
    BY DEF MidInv, HoleInv
  <2>2. dataNextRangeStart \in Nat
    BY <2>1, MidnodeAssumption DEF Bytes
  <2>3. HolesAfter(dataHoles, dataNextRangeStart, seg)
          \in SortedBelow(Gaps, NextAfter(dataNextRangeStart, seg))
    BY <1>2, <2>1, <2>2, HolesAfterSorted
  <2>4. NextAfter(dataNextRangeStart, seg) \in Bytes
    BY <1>1, <2>1 DEF NextAfter
  <2>5. /\ dataHoles' = HolesAfter(dataHoles, dataNextRangeStart, seg)
        /\ dataNextRangeStart' = NextAfter(dataNextRangeStart, seg)
    BY DEF InputPush
  <2>. QED
    BY <2>3, <2>4, <2>5 DEF HoleInv
<1>7. IntInv'
  BY DEF MidInv, IntInv, InputPush, intVars, lockVars
<1>8. RestInv'
  <2>1. MaxInputs \in Nat
    BY MidnodeAssumption
  <2>. QED
    BY <2>1 DEF MidInv, RestInv, InputPush, appVars
<1>. QED
  BY <1>5, <1>6, <1>7, <1>8 DEF MidInv

LEMMA StoreTakenInv ==
  ASSUME MidInv, DataTypes, StoreTaken
  PROVE  MidInv'
<1>1. Covered(taken) \subseteq Bytes
  <2>1. ASSUME NEW i \in 1 .. Len(taken)
        PROVE  Span(taken[i]) \subseteq Bytes
    <3>1. taken[i] \in Segs
      BY DEF DataTypes
    <3>2. taken[i].start \in Bytes /\ taken[i].end \in Bytes
      BY <3>1, SegFacts
    <3>. QED
      BY <3>2, MidnodeAssumption DEF Bytes, Span
  <2>. QED
    BY <2>1 DEF Covered
<1>2. store' \subseteq store \cup Covered(taken)
  BY DEF StoreTaken
<1>3. RestInv'
  BY <1>1, <1>2 DEF MidInv, RestInv, StoreTaken
<1>. QED
  BY <1>3 DEF MidInv, IntInv, HoleInv, SndInv, StoreTaken, intVars, holeVars, sndVars, lockVars

LEMMA HoleAgesInv ==
  ASSUME MidInv, HoleAges
  PROVE  MidInv'
<1>1. dataNextRangeStart \in Bytes /\ dataHoles \in SortedBelow(Gaps, dataNextRangeStart)
  BY DEF MidInv, HoleInv
<1>2. dataHoles \in Seq(Gaps) /\ dataNextRangeStart \in Nat
  BY <1>1, MidnodeAssumption DEF SortedBelow, Bytes
<1>3. PICK k \in 1 .. Len(dataHoles) :
        /\ dataHoles[k].age # "stale"
        /\ dataHoles' = [dataHoles EXCEPT ![k].age = Older[@]]
  BY DEF HoleAges
<1>4. dataHoles[k] \in Gaps
  BY <1>2
<1>5. PICK g : g = Older[dataHoles[k].age]
  OBVIOUS
<1>6. g \in Ages
  BY <1>3, <1>4, <1>5 DEF Gaps, Ages, Older
<1>7. Len(dataHoles') = Len(dataHoles)
  BY <1>2, <1>3
<1>8. ASSUME NEW i \in 1 .. Len(dataHoles)
      PROVE  /\ dataHoles'[i] \in Gaps
             /\ dataHoles'[i].start = dataHoles[i].start /\ dataHoles'[i].end = dataHoles[i].end
  <2>1. dataHoles[i] \in Gaps
    BY <1>2
  <2>2. dataHoles'[i] = IF i = k THEN [dataHoles[i] EXCEPT !.age = g] ELSE dataHoles[i]
    BY <1>2, <1>3, <1>5
  <2>. QED
    BY <1>6, <2>1, <2>2 DEF Gaps
<1>9. dataHoles' \in Seq(Gaps)
  <2>1. PICK h : h = [dataHoles[k] EXCEPT !.age = g]
    OBVIOUS
  <2>2. h \in Gaps
    BY <1>4, <1>6, <2>1 DEF Gaps
  <2>3. dataHoles' = [dataHoles EXCEPT ![k] = h]
    BY <1>3, <1>5, <2>1
  <2>. QED
    BY <1>2, <2>2, <2>3
<1>10. dataHoles' \in SortedBelow(Gaps, dataNextRangeStart)
  BY <1>1, <1>2, <1>7, <1>8, <1>9, AgedSorted
<1>11. HoleInv'
  BY <1>1, <1>10 DEF HoleInv, HoleAges
<1>. QED
  BY <1>11 DEF MidInv, IntInv, SndInv, RestInv, HoleAges, intVars, sndVars, lockVars, appVars

(* Cutting a queue behind its first k segments splits its weight.          *)
LEMMA WeightCut ==
  ASSUME NEW s \in Seq(Segs), NEW k \in 0 .. Len(s)
  PROVE  /\ SubSeq(s, 1, k) \in Seq(Segs) /\ SubSeq(s, k + 1, Len(s)) \in Seq(Segs)
         /\ Weight(s) = Weight(SubSeq(s, 1, k)) + Weight(SubSeq(s, k + 1, Len(s)))
<1>1. Sized(Segs)
  BY SegFacts
<1>2. PICK a, b : a = SubSeq(s, 1, k) /\ b = SubSeq(s, k + 1, Len(s))
  OBVIOUS
<1>3. a \in Seq(Segs) /\ b \in Seq(Segs)
  BY <1>1, <1>2, CutInTwo
<1>4. s = a \o b
  <2>1. 1 \in 1 .. Len(s) + 1 /\ k \in 1 - 1 .. Len(s) /\ Len(s) \in k .. Len(s)
    OBVIOUS
  <2>2. a \o b = SubSeq(s, 1, Len(s))
    BY <1>2, <2>1, ConcatAdjacentSubSeq
  <2>. QED
    BY <2>2, SubSeqFull
<1>5. Weight(a \o b) = Weight(a) + Weight(b)
  BY <1>3, WeightsJoin
<1>. QED
  BY <1>2, <1>3, <1>4, <1>5

(* flushData: what is left of the credit and of the queue.                 *)
LEMMA CreditNat ==
  ASSUME NEW queue \in Seq(Segs), NEW k \in 0 .. Len(queue), NEW credit \in Nat, NEW new \in Nat,
         SendsExactly(queue, credit, k)
  PROVE  CreditAfter(queue, credit, new, k) \in Nat
<1>1. PICK w : w = Weight(SubSeq(queue, 1, k))
  OBVIOUS
<1>2. w \in Nat
  BY <1>1, WeightCut, WeightIs
<1>3. w <= credit
  BY <1>1 DEF SendsExactly
<1>4. credit - w \in Nat /\ Lower(credit - w, new) \in Nat
  BY <1>2, <1>3 DEF Lower
<1>. QED
  BY <1>1, <1>4 DEF CreditAfter

LEMMA FlushDataInv ==
  ASSUME MidInv, FlushData
  PROVE  MidInv'
<1>1. sndQueue \in Seq(Segs) /\ sndQueueBytes = Weight(sndQueue) /\ dataOutputLimit \in Nat
  BY DEF MidInv, SndInv
<1>2. PICK newOutput \in NewOutputs, k \in 0 .. Len(sndQueue) :
        /\ SendsExactly(sndQueue, dataOutputLimit + newOutput, k)
        /\ dataOutputLimit' = CreditAfter(sndQueue, dataOutputLimit + newOutput, newOutput, k)
        /\ sndQueue' = SubSeq(sndQueue, k + 1, Len(sndQueue))
        /\ sndQueueBytes' = sndQueueBytes - Weight(SubSeq(sndQueue, 1, k))
  BY DEF FlushData
<1>3. newOutput \in Nat /\ dataOutputLimit + newOutput \in Nat
  BY <1>1, MidnodeAssumption
<1>4. dataOutputLimit' \in Nat
  BY <1>1, <1>2, <1>3, CreditNat
<1>5. PICK a, b : a = SubSeq(sndQueue, 1, k) /\ b = SubSeq(sndQueue, k + 1, Len(sndQueue))
  OBVIOUS
<1>6. a \in Seq(Segs) /\ b \in Seq(Segs) /\ Weight(sndQueue) = Weight(a) + Weight(b)
  BY <1>1, <1>5, WeightCut
<1>7. Weight(a) \in Nat /\ Weight(b) \in Nat
  BY <1>6, WeightIs
<1>8. sndQueueBytes' = Weight(b) /\ sndQueue' = b
  BY <1>1, <1>2, <1>5, <1>6, <1>7
<1>9. SndInv'
  BY <1>4, <1>6, <1>8 DEF SndInv
<1>10. IntInv' /\ HoleInv' /\ RestInv'
  BY DEF MidInv, IntInv, HoleInv, RestInv, FlushData, intVars, holeVars, appVars
<1>. QED
  BY <1>9, <1>10 DEF MidInv

(* The holes that are read as ranges lie in the stream.                    *)
LEMMA RangedHoles ==
  ASSUME NEW mark \in Bytes, NEW holes \in SortedBelow(Gaps, mark)
  PROVE  Ranged(holes) \in Seq(Ranges)
<1>1. holes \in Seq(Gaps) /\ Len(holes) \in Nat /\ MaxByte \in Nat /\ mark \in Nat /\ mark <= MaxByte
  BY MidnodeAssumption DEF SortedBelow, Bytes
<1>2. ASSUME NEW i \in 1 .. Len(holes)
      PROVE  [start |-> holes[i].start, end |-> holes[i].end] \in Ranges
  <2>1. holes[i] \in Gaps /\ holes[i].end <= mark
    BY <1>1 DEF SortedBelow
  <2>2. holes[i].start \in Nat /\ holes[i].end \in Nat /\ holes[i].start < holes[i].end
    BY <2>1 DEF Gaps
  <2>. QED
    BY <1>1, <2>1, <2>2 DEF Ranges, Bytes
<1>. QED
  BY <1>1, <1>2 DEF Ranged

LEMMA UpdateInv ==
  ASSUME MidInv, NEW clear \in BOOLEAN, Update(clear)
  PROVE  MidInv'
<1>1. /\ intBuf = <<>> /\ intBufBytes = 0 /\ intQueue \in Seq(Ranges) /\ reading = <<>>
      /\ owed = Amount(intQueue) + Amount(reading)
      /\ dataNextRangeStart \in Bytes /\ dataHoles \in SortedBelow(Gaps, dataNextRangeStart)
  BY DEF MidInv, IntInv, HoleInv, Update, Unlocked
<1>2. dataNextRangeStart \in Nat
  BY <1>1, MidnodeAssumption DEF Bytes
<1>3. PICK new : new = Interests(intQueue)
  OBVIOUS
<1>4. new \in Seq(Ranges) /\ Amount(new) = Amount(intQueue)
  BY <1>1, <1>3, InterestsBytes
<1>5. Amount(new) \in Nat /\ (Amount(new) = 0 => new = <<>>)
  BY <1>4, SegFacts, AmountType, NoBytes
<1>. DEFINE bytes == intBufBytes + SizeOf(new)
            sent == IF bytes = 0 THEN <<>> ELSE intBuf \o new
<1>6. bytes = Amount(new)
  BY <1>1, <1>5 DEF SizeOf, Amount
<1>7. intBuf \o new = new
  BY <1>1, <1>4
<1>8. sent = new
  BY <1>5, <1>6, <1>7
<1>9. intBufBytes' = 0 /\ intBuf' = <<>>
  <2>1. intBufBytes' = bytes - SizeOf(sent)
    BY <1>3 DEF Update, Flush, BytesAfter
  <2>2. intBuf' = IF bytes = 0 THEN intBuf \o new ELSE <<>>
    BY <1>3 DEF Update, Flush
  <2>3. SizeOf(sent) = Amount(new)
    BY <1>8 DEF SizeOf, Amount
  <2>. HIDE DEF bytes, sent
  <2>4. intBufBytes' = 0
    BY <1>5, <1>6, <2>1, <2>3
  <2>5. intBuf' = <<>>
    BY <1>5, <1>6, <1>7, <2>2
  <2>. QED
    BY <2>4, <2>5
<1>10. PICK holes : holes = RecutAll(dataHoles, sent, DeleteDataHole)
  OBVIOUS
<1>11. holes \in SortedBelow(Gaps, dataNextRangeStart)
  <2>1. \A i \in 1 .. Len(new) : new[i].start \in Nat /\ new[i].end \in Nat /\ new[i].start < new[i].end
    BY <1>4, SegFacts DEF Sized
  <2>2. Len(new) \in Nat
    BY <1>4
  <2>3. holes = RecutAll(dataHoles, new, DeleteDataHole)
    BY <1>8, <1>10
  <2>. QED
    BY <1>1, <1>2, <2>1, <2>2, <2>3, DeleteAllSorted
<1>. DEFINE Aged(age) == {i \in 1 .. Len(holes) : holes[i].age = age}
<1>12. PICK ripe, young : ripe = Pick(holes, Aged("ripe")) /\ young = Pick(holes, Aged("young"))
  OBVIOUS
<1>13. /\ ripe \in SortedBelow(Gaps, dataNextRangeStart)
       /\ young \in SortedBelow(Gaps, dataNextRangeStart)
  <2>. HIDE DEF Aged
  <2>. QED
    BY <1>2, <1>11, <1>12, GapsSized, PickSorted
<1>14. PICK read : read = Ranged(ripe)
  OBVIOUS
<1>15. read \in Seq(Ranges) /\ Amount(read) \in Int
  <2>1. read \in Seq(Ranges)
    BY <1>1, <1>13, <1>14, RangedHoles
  <2>. QED
    BY <2>1, SegFacts, AmountType
<1>16. /\ dataHoles' = young /\ state' \in {"up", "crashed"} /\ intQueue' = <<>>
       /\ reading' = read /\ flushing' = TRUE
       /\ owed' = owed - SizeOf(sent) + SizeOf(read)
  <2>1. dataHoles' = young
    BY <1>3, <1>10, <1>12 DEF Update, Flush
  <2>2. state' \in {"up", "crashed"}
    BY SMTT(60) DEF Update, Flush
  <2>3. reading' = read
    BY <1>3, <1>10, <1>12, <1>14 DEF Update, Flush
  <2>4. owed' = owed - SizeOf(sent) + SizeOf(read)
    BY <1>3, <1>10, <1>12, <1>14 DEF Update, Flush
  <2>5. intQueue' = <<>> /\ flushing' = TRUE
    BY DEF Update, Flush
  <2>. QED
    BY <2>1, <2>2, <2>3, <2>4, <2>5
<1>. HIDE DEF bytes, sent, Aged
<1>17. IntInv'
  <2>1. Amount(<<>>) = 0 /\ <<>> \in Seq(Ranges)
    BY AmountNone
  <2>2. owed' = owed - Amount(new) + Amount(read)
    BY <1>8, <1>16 DEF SizeOf, Amount
  <2>3. owed = Amount(new)
    BY <1>1, <1>4, <1>5, <2>1
  <2>4. owed' = Amount(<<>>) + Amount(read)
    BY <1>5, <1>15, <2>1, <2>2, <2>3
  <2>. QED
    BY <1>9, <1>15, <1>16, <2>1, <2>4 DEF IntInv
<1>18. HoleInv'
  BY <1>1, <1>13, <1>16 DEF HoleInv, Update
<1>19. SndInv'
  BY DEF MidInv, SndInv, Update, sndVars
<1>20. RestInv'
  BY <1>16 DEF MidInv, RestInv, Update, appVars
<1>. QED
  BY <1>17, <1>18, <1>19, <1>20 DEF MidInv

-----------------------------------------------------------------------------
LEMMA InitMidInv == Init => MidInv
<1>. SUFFICES ASSUME Init PROVE MidInv
  OBVIOUS
<1>1. /\ state = "up" /\ intQueue = <<>> /\ intBuf = <<>> /\ intBufBytes = 0 /\ dataHoles = <<>>
      /\ dataNextRangeStart = 0 /\ sndQueue = <<>> /\ sndQueueBytes = 0
      /\ dataOutputLimit = LEOTP_MSS /\ store = {} /\ owed = 0 /\ inputs = 0
      /\ reading = <<>> /\ flushing = FALSE
  BY DEF Init
<1>2. MaxByte \in Nat /\ MaxInputs \in Nat /\ LEOTP_MSS \in Nat
  BY MidnodeAssumption
<1>3. <<>> \in Seq(Ranges) /\ <<>> \in Seq(Gaps) /\ <<>> \in Seq(Segs)
  OBVIOUS
<1>4. IntInv
  <2>1. Amount(<<>>) = 0
    BY AmountNone
  <2>2. owed = Amount(intQueue) + Amount(reading)
    BY <1>1, <2>1
  <2>. QED
    BY <1>1, <1>3, <2>2 DEF IntInv
<1>5. HoleInv
  BY <1>1, <1>2, <1>3 DEF HoleInv, SortedBelow, Sorted, Bytes
<1>6. SndInv
  <2>1. Weight(<<>>) = 0
    BY <1>3, WeightIs, WeightEmpty
  <2>. QED
    BY <1>1, <1>2, <1>3, <2>1 DEF SndInv
<1>7. RestInv
  BY <1>1, <1>2 DEF RestInv
<1>. QED
  BY <1>4, <1>5, <1>6, <1>7 DEF MidInv

LEMMA NextMidInv ==
  ASSUME MidInv, DataTypes, [Next]_vars
  PROVE  MidInv'
<1>1. CASE Recv
  BY <1>1 DEF MidInv, IntInv, HoleInv, SndInv, RestInv, Recv, intVars, holeVars, sndVars, lockVars
<1>2. CASE DropBlock
  <2>1. store' \subseteq store
    BY <1>2 DEF DropBlock
  <2>2. RestInv'
    BY <1>2, <2>1 DEF MidInv, RestInv, DropBlock
  <2>. QED
    BY <1>2, <2>2 DEF MidInv, IntInv, HoleInv, SndInv, DropBlock, intVars, holeVars, sndVars, lockVars
<1>3. CASE UNCHANGED vars
  BY <1>3 DEF MidInv, IntInv, HoleInv, SndInv, RestInv, vars, intVars, holeVars, sndVars, lockVars,
               appVars
<1>4. CASE StoreTaken
  BY <1>4, StoreTakenInv
<1>5. CASE HoleAges
  BY <1>5, HoleAgesInv
<1>. QED
  BY <1>1, <1>2, <1>3, <1>4, <1>5, InputIntInv, ReadPieceInv, InputPushInv, UpdateInv,
     FlushDataInv DEF Next

LEMMA MidInvMeans ==
  ASSUME MidInv, DataTypes
  PROVE  TypeOK /\ NeverRefuses /\ NothingForgotten /\ SndQueueAccounted
<1>1. /\ intBuf = <<>> /\ intBufBytes = 0 /\ intQueue \in Seq(Ranges)
      /\ reading \in Seq(Ranges) /\ flushing \in BOOLEAN
      /\ owed = Amount(intQueue) + Amount(reading)
      /\ dataNextRangeStart \in Bytes /\ dataHoles \in SortedBelow(Gaps, dataNextRangeStart)
      /\ sndQueue \in Seq(Segs) /\ sndQueueBytes = Weight(sndQueue) /\ dataOutputLimit \in Nat
      /\ state \in {"up", "crashed"} /\ store \subseteq Bytes /\ inputs \in 0 .. MaxInputs
  BY DEF MidInv, IntInv, HoleInv, SndInv, RestInv
<1>2. owed \in Nat
  <2>1. Amount(intQueue) \in Nat /\ Amount(reading) \in Nat
    BY <1>1, SegFacts, AmountType
  <2>. QED
    BY <1>1, <2>1
<1>3. sndQueueBytes \in Nat
  BY <1>1, WeightIs
<1>4. dataHoles \in Seq([start : Bytes, end : Bytes, age : Ages])
  <2>1. dataHoles \in Seq(Gaps) /\ \A i \in 1 .. Len(dataHoles) : dataHoles[i].end <= dataNextRangeStart
    BY <1>1 DEF SortedBelow
  <2>2. MaxByte \in Nat /\ dataNextRangeStart \in Nat /\ dataNextRangeStart <= MaxByte
    BY <1>1, MidnodeAssumption DEF Bytes
  <2>3. ASSUME NEW i \in 1 .. Len(dataHoles)
        PROVE  dataHoles[i] \in [start : Bytes, end : Bytes, age : Ages]
    <3>1. PICK h : h = dataHoles[i]
      OBVIOUS
    <3>2. h \in Gaps /\ h.end <= dataNextRangeStart
      BY <2>1, <3>1
    <3>3. h.start \in Nat /\ h.end \in Nat /\ h.start < h.end /\ h.age \in Ages
          /\ h = [start |-> h.start, end |-> h.end, age |-> h.age]
      BY <3>2 DEF Gaps
    <3>4. h.start \in Bytes /\ h.end \in Bytes
      BY <2>2, <3>2, <3>3 DEF Bytes
    <3>. QED
      BY <3>1, <3>3, <3>4
  <2>. QED
    BY <2>1, <2>3, SeqOfMembers
<1>5. TypeOK
  <2>1. <<>> \in Seq(Ranges) /\ 0 \in Nat
    OBVIOUS
  <2>. QED
    BY <1>1, <1>2, <1>3, <1>4, <2>1 DEF TypeOK, DataTypes
<1>6. NeverRefuses
  BY <1>1 DEF NeverRefuses
<1>7. NothingForgotten
  BY <1>1 DEF NothingForgotten, SizeOf, Amount
<1>8. SndQueueAccounted
  BY <1>1 DEF SndQueueAccounted
<1>. QED
  BY <1>5, <1>6, <1>7, <1>8

-----------------------------------------------------------------------------
AllInv == WaitInv /\ MidInv

LEMMA AllInvKept ==
  /\ Init => AllInv
  /\ AllInv /\ [Next]_vars => AllInv'
<1>1. Init => WaitInv
  BY DEF Init, WaitInv, DataTypes, WaitsOnlyForRoom
<1>2. WaitInv => DataTypes
  BY DEF WaitInv
<1>. QED
  BY <1>1, <1>2, InitMidInv, WaitInvNext, NextMidInv DEF AllInv

LEMMA AllInvMeans == AllInv => TypeOK /\ NeverRefuses /\ NothingForgotten /\ SndQueueAccounted
BY MidInvMeans DEF AllInv, WaitInv

(* The variables of a midnode keep their types: no count of bytes and no   *)
(* credit falls below zero, and no hole or segment leaves the stream       *)
(* (leotp.cpp:459-471, 1029-1202, 1273-1313).                              *)
THEOREM MidnodeTypeCorrect == Spec => []TypeOK
BY AllInvKept, AllInvMeans, PTL DEF Spec

(* Each flush empties intBuf, so request never refuses a midnode, for      *)
(* every LEOTP_INTB_MAX (leotp.cpp:221, 409, 1199-1202).                   *)
THEOREM MidnodeNeverRefuses == Spec => []NeverRefuses
BY AllInvKept, AllInvMeans, PTL DEF Spec

(* Every byte of an interest and of a ripe hole is served from the cache,  *)
(* forwarded, in intQueue or still to be read, whatever is inserted into   *)
(* the cache or dropped between two reads (leotp.cpp:340-413, 1029-1202).  *)
THEOREM NothingEverForgotten == Spec => []NothingForgotten
BY AllInvKept, AllInvMeans, PTL DEF Spec

(* sndQueueBytes is the size of sndQueue, headers included, whatever is    *)
(* served, announced or sent in part (leotp.cpp:204, 470, 800, 1301).      *)
THEOREM SndQueueAlwaysAccounted == Spec => []SndQueueAccounted
BY AllInvKept, AllInvMeans, PTL DEF Spec

-----------------------------------------------------------------------------
(* The mark of the next node after each of the segments new, if it starts  *)
(* as d.                                                                   *)
Marks(d, new) ==
  LET next[i \in 0 .. Len(new)] == IF i = 0 THEN d ELSE NextAfter(next[i - 1], new[i])
  IN next

LEMMA MarksStep ==
  ASSUME NEW d \in Nat, NEW new \in Seq(Segs)
  PROVE  /\ Marks(d, new)[0] = d
         /\ \A i \in 1 .. Len(new) : Marks(d, new)[i] = NextAfter(Marks(d, new)[i - 1], new[i])
<1>. DEFINE Step(f, i) == IF i = 0 THEN d ELSE NextAfter(f[i - 1], new[i])
            f == CHOOSE f : f = [i \in 0 .. Len(new) |-> Step(f, i)]
            G == [q \in Nat \X Nat |-> IF q[2] \in 1 .. Len(new) THEN NextAfter(q[1], new[q[2]]) ELSE d]
<1>1. Len(new) \in Nat
  OBVIOUS
<1>2. ASSUME NEW x \in Nat, NEW i \in 1 .. Len(new)
      PROVE  NextAfter(x, new[i]) \in Nat
  <2>1. new[i].end \in Nat
    BY SegFacts DEF Sized
  <2>. QED
    BY <2>1 DEF NextAfter
<1>3. G \in [Nat \X Nat -> Nat]
  BY <1>2
<1>4. ASSUME NEW x \in Nat, NEW i \in 1 .. Len(new)
      PROVE  G[<<x, i>>] = NextAfter(x, new[i])
  <2>1. <<x, i>> \in Nat \X Nat
    OBVIOUS
  <2>. QED
    BY <2>1
<1>. HIDE DEF G
<1>5. PICK h \in [0 .. Len(new) -> Nat] :
        h[0] = d /\ \A i \in 1 .. Len(new) : h[i] = G[<<h[i - 1], i>>]
  <2>1. Solvable(Len(new), Nat, d, G)
    BY <1>1, <1>3, RecursionExists
  <2>. QED
    BY <2>1 DEF Solvable
<1>6. h = [i \in 0 .. Len(new) |-> Step(h, i)]
  <2>1. ASSUME NEW i \in 0 .. Len(new)
        PROVE  h[i] = Step(h, i)
    <3>1. CASE i = 0
      BY <1>5, <3>1
    <3>2. CASE i # 0
      <4>1. i \in 1 .. Len(new) /\ i - 1 \in 0 .. Len(new)
        BY <3>2
      <4>2. h[i - 1] \in Nat
        BY <1>5, <4>1
      <4>. QED
        BY <1>4, <1>5, <3>2, <4>1, <4>2
    <3>. QED
      BY <3>1, <3>2
  <2>. HIDE DEF Step
  <2>. QED
    BY <1>5, <2>1
<1>7. f = [i \in 0 .. Len(new) |-> Step(f, i)]
  <2>. HIDE DEF Step
  <2>. QED
    BY <1>6
<1>8. Marks(d, new) = f
  BY DEF Marks
<1>. HIDE DEF f
<1>. QED
  BY <1>1, <1>7, <1>8

(* The next node meets no hole in new and ends with the mark e.            *)
SeesNoHole(d, new, e) ==
  /\ \A i \in 1 .. Len(new) : ~ IsHole(Marks(d, new)[i - 1], new[i])
  /\ Marks(d, new)[Len(new)] = e

(* What parseData queues, a header for the gap first, leads the next node  *)
(* to the same mark.                                                       *)
LEMMA QueuedLeadsOn ==
  ASSUME NEW d \in Bytes, NEW seg \in Segs, ~ (seg.start < d)
  PROVE  SeesNoHole(d, Append(Announce(d, seg), seg), seg.end)
<1>1. seg.start \in Nat /\ seg.end \in Nat /\ d \in Nat
  BY SegFacts, MidnodeAssumption DEF Bytes, Sized
<1>2. PICK new : new = Append(Announce(d, seg), seg)
  OBVIOUS
<1>3. new \in Seq(Segs)
  BY <1>2, QueuedSegs
<1>4. /\ Marks(d, new)[0] = d
      /\ \A i \in 1 .. Len(new) : Marks(d, new)[i] = NextAfter(Marks(d, new)[i - 1], new[i])
  BY <1>1, <1>3, MarksStep
<1>5. CASE IsHole(d, seg)
  <2>1. PICK x : x = Header(d, seg.start)
    OBVIOUS
  <2>2. x.start = d /\ x.end = seg.start
    BY <2>1 DEF Header
  <2>3. PICK a : a = Announce(d, seg)
    OBVIOUS
  <2>3a. a = <<x>> /\ a \in Seq(Segs)
    BY <1>5, <2>1, <2>3, QueuedSegs DEF Announce
  <2>3b. Len(a) = 1 /\ a[1] = x
    BY <2>3a
  <2>4. Len(new) = 2 /\ new[1] = x /\ new[2] = seg
    BY <1>2, <2>3, <2>3a, <2>3b
  <2>5. Marks(d, new)[1] = seg.start
    <3>1. Marks(d, new)[1] = NextAfter(d, x)
      BY <1>4, <2>4
    <3>. QED
      BY <1>1, <2>2, <3>1 DEF NextAfter
  <2>6. Marks(d, new)[2] = seg.end
    <3>1. Marks(d, new)[2] = NextAfter(seg.start, seg)
      BY <1>4, <2>4, <2>5
    <3>. QED
      BY <1>1, <3>1 DEF NextAfter
  <2>7. ~ IsHole(d, x) /\ ~ IsHole(seg.start, seg)
    BY <1>1, <2>2 DEF IsHole
  <2>8. ASSUME NEW i \in 1 .. Len(new)
        PROVE  ~ IsHole(Marks(d, new)[i - 1], new[i])
    <3>1. (i = 1 /\ i - 1 = 0) \/ (i = 2 /\ i - 1 = 1)
      BY <2>4
    <3>. QED
      BY <1>4, <2>4, <2>5, <2>7, <3>1
  <2>. QED
    BY <1>2, <2>4, <2>6, <2>8 DEF SeesNoHole
<1>6. CASE ~ IsHole(d, seg)
  <2>1. new = <<seg>>
    BY <1>2, <1>6 DEF Announce
  <2>2. Len(new) = 1 /\ new[1] = seg
    BY <2>1
  <2>3. Marks(d, new)[1] = seg.end
    <3>1. Marks(d, new)[1] = NextAfter(d, seg)
      BY <1>4, <2>2
    <3>. QED
      BY <3>1 DEF NextAfter
  <2>4. ASSUME NEW i \in 1 .. Len(new)
        PROVE  ~ IsHole(Marks(d, new)[i - 1], new[i])
    <3>1. i = 1 /\ i - 1 = 0
      BY <2>2
    <3>. QED
      BY <1>4, <1>6, <2>2, <3>1
  <2>. QED
    BY <1>2, <2>2, <2>3, <2>4 DEF SeesNoHole
<1>. QED
  BY <1>5, <1>6

(* Whenever the mark moves, the next node follows.                         *)
NextNodeFollows ==
  dataNextRangeStart' # dataNextRangeStart =>
    SeesNoHole(dataNextRangeStart, SubSeq(sndQueue', Len(sndQueue) + 1, Len(sndQueue')),
               dataNextRangeStart')

LEMMA NextNodeStep ==
  ASSUME AllInv, [Next]_vars
  PROVE  NextNodeFollows
<1>. SUFFICES ASSUME dataNextRangeStart' # dataNextRangeStart
              PROVE  SeesNoHole(dataNextRangeStart, SubSeq(sndQueue', Len(sndQueue) + 1, Len(sndQueue')),
                                dataNextRangeStart')
  BY DEF NextNodeFollows
<1>1. ~ UNCHANGED dataNextRangeStart
  OBVIOUS
<1>2. PICK seg \in Segs : InputPush(seg)
  <2>1. (\A r \in Ranges : ~ InputInt(r)) /\ ~ ReadPiece
    BY <1>1 DEF InputInt, ReadPiece, holeVars
  <2>2. ~ Recv
    BY <1>1 DEF Recv, holeVars
  <2>3. ~ StoreTaken
    BY <1>1 DEF StoreTaken, holeVars
  <2>4. ~ DropBlock
    BY <1>1 DEF DropBlock, holeVars
  <2>5. (\A clear \in BOOLEAN : ~ Update(clear)) /\ ~ FlushData
    BY <1>1 DEF Update, FlushData, holeVars
  <2>6. ~ HoleAges
    BY <1>1 DEF HoleAges
  <2>7. ~ UNCHANGED vars
    BY <1>1 DEF vars, holeVars
  <2>. QED
    BY <2>1, <2>2, <2>3, <2>4, <2>5, <2>6, <2>7 DEF Next
<1>3. PICK p : p = Append(Announce(dataNextRangeStart, seg), seg)
  OBVIOUS
<1>4. /\ dataNextRangeStart \in Bytes /\ sndQueue \in Seq(Segs) /\ p \in Seq(Segs)
  BY <1>3, QueuedSegs DEF AllInv, MidInv, HoleInv, SndInv
<1>5. sndQueue' = sndQueue \o p /\ dataNextRangeStart' = NextAfter(dataNextRangeStart, seg)
  BY <1>2, <1>3 DEF InputPush
<1>6. ~ (seg.start < dataNextRangeStart) /\ dataNextRangeStart' = seg.end
  BY <1>5 DEF NextAfter
<1>7. SubSeq(sndQueue', Len(sndQueue) + 1, Len(sndQueue')) = p
  <2>1. PICK s : s = sndQueue
    OBVIOUS
  <2>2. PICK t : t = SubSeq(s \o p, Len(s) + 1, Len(s \o p))
    OBVIOUS
  <2>3. s \in Seq(Segs) /\ s \o p \in Seq(Segs) /\ Len(s \o p) = Len(s) + Len(p)
    BY <1>4, <2>1
  <2>4. Len(s) \in Nat /\ Len(p) \in Nat
    BY <1>4, <2>3
  <2>5. t \in Seq(Segs) /\ Len(t) = Len(p)
    BY <2>2, <2>3, <2>4
  <2>6. \A i \in 1 .. Len(p) : t[i] = p[i]
    BY <1>4, <2>2, <2>3, <2>4
  <2>7. t = p
    BY <1>4, <2>5, <2>6, SeqEqual
  <2>. QED
    BY <1>5, <2>1, <2>2, <2>7
<1>. QED
  BY <1>3, <1>4, <1>6, <1>7, QueuedLeadsOn

(* Whatever arrives, the next node expects the same data next as this one  *)
(* and takes no announced gap for a hole of its own (leotp.cpp:591-609,    *)
(* 459-471).                                                               *)
THEOREM NextNodeAlwaysFollows == Spec => NextNodeSeesNoHole
<1>1. AllInv /\ [Next]_vars => [NextNodeFollows]_vars
  BY NextNodeStep
<1>2. [NextNodeFollows]_vars
        <=> [dataNextRangeStart' # dataNextRangeStart =>
               LET new == SubSeq(sndQueue', Len(sndQueue) + 1, Len(sndQueue'))
                   next[i \in 0 .. Len(new)] ==
                     IF i = 0 THEN dataNextRangeStart ELSE NextAfter(next[i - 1], new[i])
               IN /\ \A i \in 1 .. Len(new) : ~ IsHole(next[i - 1], new[i])
                  /\ next[Len(new)] = dataNextRangeStart']_vars
  BY DEF NextNodeFollows, SeesNoHole, Marks
<1>. QED
  BY AllInvKept, <1>1, <1>2, PTL DEF Spec, NextNodeSeesNoHole
=============================================================================
