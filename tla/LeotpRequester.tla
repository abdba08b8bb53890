--------------------------- MODULE LeotpRequester ---------------------------
(***************************************************************************)
(* The LeotpTransCB of a requester (leotp.cpp, role LEOTP_ROLE_REQUESTER)  *)
(* with the application that drives it (appclient.cpp) and the network     *)
(* that answers it.                                                        *)
(*                                                                         *)
(* The application asks for consecutive byte ranges; an interest goes from *)
(* intQueue to intBuf and from there to the network; data that meets an    *)
(* interest in intBuf goes to rcvBuf, where it is put in order, then to    *)
(* rcvQueue, and recv hands it to the application.                         *)
(*                                                                         *)
(* Every operation runs under the mutex of its LeotpSess (udp_leotp.cpp),  *)
(* so an action is a whole operation; the application's two threads, the   *)
(* socket thread and the update thread interleave.                         *)
(*                                                                         *)
(* A byte is its offset in the stream.  Of time, only what the code asks   *)
(* of a clock is kept: whether the timeout of an interest has passed (late)*)
(* and how old a hole is (age).                                            *)
(***************************************************************************)
EXTENDS LeotpHoles, FiniteSets

CONSTANTS
  LEOTP_MSS,       (* bytes of data in a segment, and of an interest       *)
  LEOTP_WND_RCV,   (* segments rcvQueue holds before rcvBuf has to wait    *)
  LEOTP_DEADLINK,  (* transmissions of an interest before the link is dead *)
  LEOTP_SNDQ_MAX,  (* bytes of interests that may be sent without an RTT   *)
  LEOTP_INTB_MAX,  (* bytes in intBuf from which request is refused        *)
  REQ_LEN,         (* bytes the application asks for in one request        *)
  MaxBufSize,      (* bytes the application takes in one recv              *)
  NewOutputs,      (* what a flush may add to intOutputLimit               *)
  MaxByte,         (* bound: bytes the application asks for                *)
  MaxClears        (* bound: whole seconds in which rcvBuf was not empty   *)

ASSUME RequesterAssumption ==
  /\ LEOTP_MSS \in Nat \ {0}
  /\ LEOTP_WND_RCV \in Nat \ {0}
  /\ LEOTP_DEADLINK \in Nat \ {0}
  /\ LEOTP_SNDQ_MAX \in Nat
  /\ LEOTP_INTB_MAX \in Nat \ {0}
  /\ MaxHole \in Nat
  /\ REQ_LEN \in Nat \ {0}
  /\ MaxBufSize \in Nat /\ MaxBufSize >= LEOTP_MSS
  /\ NewOutputs \subseteq Nat
  /\ MaxByte \in Nat
  /\ MaxClears \in Nat

VARIABLES
  state,               (* of the process: "up", "dead" or "crashed"        *)
  intQueue,            (* ranges requested, not yet made into interests    *)
  intBuf,              (* interests not yet answered                       *)
  intBufBytes,         (* the bytes they ask for, as the code counts them  *)
  intOutputLimit,      (* bytes of interests that may be sent              *)
  measured,            (* srtt # 0                                         *)
  rcvBuf,              (* segments received, not yet in order              *)
  rcvBufItrs,          (* the runs of rcvBuf                               *)
  rcvNxt,              (* the next byte rcvQueue waits for                 *)
  rcvQueue,            (* segments in order, for recv                      *)
  dataHoles,           (* gaps seen in the incoming data                   *)
  dataNextRangeStart,  (* where the next data is expected to start         *)
  sendStart,           (* application: the next byte to request            *)
  lastRead,            (* application: the range recv returned last        *)
  asked,               (* history: interests were sent for [0, asked)      *)
  dropped,             (* history: bytes update() threw away               *)
  clears               (* history: how often it did                        *)

intVars  == <<intQueue, intBuf, intBufBytes, intOutputLimit, measured>>
rcvVars  == <<rcvBuf, rcvBufItrs, rcvNxt, rcvQueue>>
holeVars == <<dataHoles, dataNextRangeStart>>
appVars  == <<sendStart, lastRead>>
histVars == <<asked, dropped, clears>>
vars     == <<state, intVars, rcvVars, holeVars, appVars, histVars>>

-----------------------------------------------------------------------------
Bytes  == 0 .. MaxByte
Ranges == [start : Bytes, end : Bytes]
Seg(s, e) == [start |-> s, end |-> e]

Up == state = "up"

-----------------------------------------------------------------------------
(* Application: request_func calls request, which refuses while intBuf is  *)
(* full; the next request starts where this one ended.                     *)
Request ==
  /\ Up
  /\ intBufBytes < LEOTP_INTB_MAX
  /\ sendStart + REQ_LEN <= MaxByte
  /\ intQueue' = Append(intQueue, Seg(sendStart, sendStart + REQ_LEN))
  /\ sendStart' = sendStart + REQ_LEN
  /\ UNCHANGED <<state, intBuf, intBufBytes, intOutputLimit, measured, rcvVars, holeVars,
                 lastRead, histVars>>

-----------------------------------------------------------------------------
(* moveToRcvQueue: the segments at the head of rcvBuf that continue rcvNxt *)
(* move to rcvQueue while it has room; then the runs behind rcvNxt go.     *)

(* Mutant: a gap before the segment goes unnoticed.                        *)
ContinuesOverGap(buf, next, i) == buf[i].start >= IF i = 1 THEN next ELSE buf[i - 1].end

Continues(buf, next, i) == buf[i].start = IF i = 1 THEN next ELSE buf[i - 1].end

(* Mutant: rcvQueue is full one segment early.                             *)
RoomTight(queue) == Higher(LEOTP_WND_RCV - 1 - Len(queue), 0)

Room(queue) == Higher(LEOTP_WND_RCV - Len(queue), 0)

(* Mutant: if the head continues rcvNxt, all of rcvBuf moves.              *)
MovesAll(buf, next, room, k) ==
  k = IF Len(buf) > 0 /\ room > 0 /\ Continues(buf, next, 1) THEN Len(buf) ELSE 0

MovesExactly(buf, next, room, k) ==
  /\ k <= room
  /\ \A i \in 1 .. k : Continues(buf, next, i)
  /\ k < Len(buf) /\ k < room => ~ Continues(buf, next, k + 1)

(* The runs that end behind next, the first of them cut at next.           *)
RunsFrom(itrs, next) ==
  LET m    == First({m \in 1 .. Len(itrs) + 1 : m <= Len(itrs) => itrs[m].end > next})
      rest == SubSeq(itrs, m, Len(itrs))
  IN IF rest = <<>> THEN rest ELSE [rest EXCEPT ![1].start = Higher(@, next)]

MoveToRcvQueue(buf, itrs, queue) ==
  \E k \in 0 .. Len(buf) :
    /\ MovesExactly(buf, rcvNxt, Room(queue), k)
    /\ rcvBuf' = SubSeq(buf, k + 1, Len(buf))
    /\ rcvQueue' = queue \o SubSeq(buf, 1, k)
    /\ rcvNxt' = IF k = 0 THEN rcvNxt ELSE buf[k].end
    /\ rcvBufItrs' = RunsFrom(itrs, rcvNxt')

-----------------------------------------------------------------------------
(* parseData: each piece of an interest that the data answers is put into  *)
(* rcvBuf with the help of rcvBufItrs.  A run of rcvBufItrs is             *)
(* [start, end, itr]; itr is the segment of rcvBuf an iterator points at,  *)
(* known by its first byte.                                                *)

InsertBefore(s, i, x) == SubSeq(s, 1, i - 1) \o <<x>> \o SubSeq(s, i, Len(s))
RemoveFrom(s, i)      == SubSeq(s, 1, i - 1) \o SubSeq(s, i + 1, Len(s))

(* The index of the first run at or behind the piece, or one past the end. *)
NextRun(itrs, p) ==
  First({i \in 1 .. Len(itrs) + 1 : i <= Len(itrs) => itrs[i].start >= p.end})

(* The index in rcvBuf an iterator points at.                              *)
Target(buf, itr) == First({i \in 1 .. Len(buf) + 1 : i <= Len(buf) => buf[i].start = itr})

BufWith(buf, itrs, p) ==
  LET n == NextRun(itrs, p)
  IN IF n > Len(itrs) THEN Append(buf, p)
     ELSE InsertBefore(buf, Target(buf, itrs[n].itr), p)

(* Mutant: a piece that joins two runs extends the first and leaves the    *)
(* second in the list.                                                     *)
ItrsWithoutErase(itrs, p) ==
  LET n == NextRun(itrs, p)
  IN IF n > 1 /\ itrs[n - 1].end = p.start THEN [itrs EXCEPT ![n - 1].end = p.end]
     ELSE InsertBefore(itrs, n, [start |-> p.start, end |-> p.end, itr |-> p.start])

(* A run that is extended downwards keeps the iterator it had.             *)
ItrsWith(itrs, p) ==
  LET n        == NextRun(itrs, p)
      prevCont == n > 1 /\ itrs[n - 1].end = p.start
      nextCont == n <= Len(itrs) /\ itrs[n].start = p.end
  IN CASE prevCont /\ nextCont   -> RemoveFrom([itrs EXCEPT ![n - 1].end = itrs[n].end], n)
       [] prevCont /\ ~ nextCont -> [itrs EXCEPT ![n - 1].end = p.end]
       [] ~ prevCont /\ nextCont -> [itrs EXCEPT ![n].start = p.start]
       [] OTHER -> InsertBefore(itrs, n, [start |-> p.start, end |-> p.end, itr |-> p.start])

(* rcvBuf and rcvBufItrs after the pieces ps.                              *)
Inserted(ps) ==
  LET f[i \in 0 .. Len(ps)] ==
        IF i = 0 THEN [buf |-> rcvBuf, itrs |-> rcvBufItrs]
        ELSE LET p == Seg(ps[i].start, ps[i].end)
             IN [buf  |-> BufWith(f[i - 1].buf, f[i - 1].itrs, p),
                 itrs |-> ItrsWith(f[i - 1].itrs, p)]
  IN f[Len(ps)]

(* Mutant: only the front part is kept.                                    *)
UnansweredFront(x, r) == Before(x, r)

(* What stays of an interest; of two parts, the rear one comes first.      *)
Unanswered(x, r) == After(x, r) \o Before(x, r)

(* The data r answers an interest completely: its age is a sample of RTT.  *)
Completed(r) == {i \in Scanned(intBuf, r) :
                   Overlap(intBuf[i], r) /\ r.start <= intBuf[i].start /\ intBuf[i].end <= r.end}

(* Mutant: only interests that leave intBuf are subtracted.                *)
CompletedBytes(r) == TotalSize(intBuf, Completed(r))

AnsweredBytes(r) == LET got == Answered(intBuf, r) IN TotalSize(got, 1 .. Len(got))

(* input, data: updateRTT ignores a sample below a millisecond.            *)
InputData(r) ==
  LET new == Inserted(Answered(intBuf, r))
  IN /\ Up
     /\ dataHoles' = HolesAfter(dataHoles, dataNextRangeStart, r)
     /\ dataNextRangeStart' = NextAfter(dataNextRangeStart, r)
     /\ intBuf' = Recut(intBuf, r, LAMBDA x : Unanswered(x, r))
     /\ intBufBytes' = intBufBytes - AnsweredBytes(r)
     /\ measured' \in {measured, measured \/ Completed(r) # {}}
     /\ MoveToRcvQueue(new.buf, new.itrs, rcvQueue)
     /\ UNCHANGED <<state, intQueue, intOutputLimit, appVars, histVars>>

(* input, data header: a midnode found the hole r; only detectDataHole     *)
(* looks at it.                                                            *)
InputHeader(r) ==
  /\ Up
  /\ dataHoles' = HolesAfter(dataHoles, dataNextRangeStart, r)
  /\ dataNextRangeStart' = NextAfter(dataNextRangeStart, r)
  /\ UNCHANGED <<state, intVars, rcvVars, appVars, histVars>>

-----------------------------------------------------------------------------
(* recv: the segments at the head of rcvQueue that are contiguous and fit  *)
(* into the buffer, then moveToRcvQueue.                                   *)

Fits(k) == rcvQueue[k].end - rcvQueue[1].start <= MaxBufSize
Joined(k) == k > 1 => rcvQueue[k].start = rcvQueue[k - 1].end

Recv ==
  /\ Up
  /\ rcvQueue # <<>>
  /\ \E k \in 1 .. Len(rcvQueue) :
       /\ \A i \in 1 .. k : Fits(i) /\ Joined(i)
       /\ k < Len(rcvQueue) => ~ (Fits(k + 1) /\ Joined(k + 1))
       /\ lastRead' = Seg(rcvQueue[1].start, rcvQueue[k].end)
       /\ MoveToRcvQueue(rcvBuf, rcvBufItrs, SubSeq(rcvQueue, k + 1, Len(rcvQueue)))
  /\ UNCHANGED <<state, intVars, holeVars, sendStart, histVars>>

-----------------------------------------------------------------------------
(* update: the statistics of a second discard rcvBuf; then flush.          *)

(* flushIntQueue: the queue is one run of bytes (request_func), cut into   *)
(* interests of LEOTP_INT_RANGE_LIMIT = LEOTP_MSS bytes.                   *)
NewInterests ==
  IF intQueue = <<>> THEN <<>>
  ELSE LET first == intQueue[1].start
           last  == intQueue[Len(intQueue)].end
       IN [i \in 1 .. (last - first + LEOTP_MSS - 1) \div LEOTP_MSS |->
             [start |-> first + (i - 1) * LEOTP_MSS,
              end   |-> Lower(first + i * LEOTP_MSS, last),
              xmit  |-> 0,
              late  |-> FALSE]]

NeedSend(buf) == {i \in 1 .. Len(buf) : buf[i].xmit = 0 \/ buf[i].late}

(* flushIntBuf scans the interests 1 .. k: it stops at the first that needs*)
(* sending and exceeds the limit.                                          *)
ScansExactly(buf, limit, k) ==
  /\ TotalSize(buf, NeedSend(buf) \cap 1 .. k) <= limit
  /\ k < Len(buf) => /\ k + 1 \in NeedSend(buf)
                     /\ TotalSize(buf, NeedSend(buf) \cap 1 .. k + 1) > limit

(* Mutant: the transmission is not counted.                                *)
SentUncounted(x) == [x EXCEPT !.late = FALSE]

Sent(x) == [x EXCEPT !.xmit = @ + 1, !.late = FALSE]

(* Mutant: the last transmission is allowed once more.                     *)
LinkDeadLate(x) == x.xmit > LEOTP_DEADLINK

LinkDead(x) == x.xmit >= LEOTP_DEADLINK

(* Mutant: the limit is tested but not used up.                            *)
RestUnspent(limit, buf, need) == limit

Rest(limit, buf, need) == limit - TotalSize(buf, need)

(* Mutant: the hole becomes an interest of its own.                        *)
RestampHole(buf, h) ==
  Append(buf, [start |-> h.start, end |-> h.end, xmit |-> 1, late |-> FALSE])

(* updateIntBuf: the part of an interest in the hole gets a new time stamp.*)
Restamp(buf, h) ==
  Recut(buf, h, LAMBDA x :
    Before(x, h) \o (IF Inside(x, h) = <<>> THEN <<>>
                     ELSE <<[Inside(x, h)[1] EXCEPT !.late = FALSE]>>) \o After(x, h))

Highest(S) == CHOOSE x \in S : \A y \in S : y <= x

(* flushDataHoles: a ripe hole is asked for once more, restamped and       *)
(* erased.  A stale hole is erased, then used and erased again: undefined  *)
(* behaviour, which corrupts the heap and ends in a crash.                 *)
FlushDataHoles(buf, holes) ==
  LET Aged(age) == {i \in 1 .. Len(holes) : holes[i].age = age}
  IN /\ intBuf' = RecutAll(buf, Pick(holes, Aged("ripe")), Restamp)
     /\ dataHoles' = Pick(holes, Aged("young"))
     /\ state' = IF Aged("stale") = {} THEN "up" ELSE "crashed"

FlushAdding(outputs) ==
  LET buf    == intBuf \o NewInterests
      bytes  == intBufBytes + TotalSize(NewInterests, 1 .. Len(NewInterests))
  IN /\ intQueue' = <<>>
     /\ intBufBytes' = bytes
     /\ IF bytes = 0
        THEN FlushDataHoles(buf, dataHoles) /\ UNCHANGED <<intOutputLimit, asked>>
        ELSE \E newOutput \in outputs, k \in 0 .. Len(buf) :
               LET limit == intOutputLimit + IF measured THEN newOutput ELSE 0
                   need  == NeedSend(buf) \cap 1 .. k
                   rest  == Rest(limit, buf, need)
                   sent  == [i \in 1 .. Len(buf) |-> IF i \in need THEN Sent(buf[i]) ELSE buf[i]]
               IN /\ ScansExactly(buf, limit, k)
                  /\ intOutputLimit' = IF measured /\ k = Len(buf) THEN Lower(rest, newOutput) ELSE rest
                  /\ asked' = Highest({asked} \cup {buf[i].end : i \in need})
                  /\ IF \E i \in need : LinkDead(buf[i])
                     THEN state' = "dead" /\ intBuf' = buf /\ UNCHANGED dataHoles
                     ELSE FlushDataHoles(sent, RecutAll(dataHoles, Pick(buf, need), DeleteDataHole))

Flush == FlushAdding(NewOutputs)

UpdateAdding(clear, outputs) ==
  /\ Up
  /\ clear => clears < MaxClears /\ rcvBuf # <<>>
  /\ clears' = clears + IF clear THEN 1 ELSE 0
  /\ dropped' = dropped \cup IF clear THEN Covered(rcvBuf) ELSE {}
  /\ rcvBuf' = IF clear THEN <<>> ELSE rcvBuf
  /\ rcvBufItrs' = IF clear THEN <<>> ELSE rcvBufItrs
  /\ FlushAdding(outputs)
  /\ UNCHANGED <<measured, rcvNxt, rcvQueue, dataNextRangeStart, appVars>>

Update(clear) == UpdateAdding(clear, NewOutputs)

-----------------------------------------------------------------------------
(* Time.                                                                   *)

(* The retransmission timeout of an interest passes.                       *)
InterestTimeout ==
  /\ Up
  /\ \E i \in 1 .. Len(intBuf) :
       /\ intBuf[i].xmit > 0 /\ ~ intBuf[i].late
       /\ intBuf' = [intBuf EXCEPT ![i].late = TRUE]
  /\ UNCHANGED <<state, intQueue, intBufBytes, intOutputLimit, measured, rcvVars, holeVars,
                 appVars, histVars>>

(* A hole gets older; it becomes stale if no update came in time.          *)
Older == [young |-> "ripe", ripe |-> "stale"]

HoleAges ==
  /\ Up
  /\ \E i \in 1 .. Len(dataHoles) :
       /\ dataHoles[i].age # "stale"
       /\ dataHoles' = [dataHoles EXCEPT ![i].age = Older[@]]
  /\ UNCHANGED <<state, intVars, rcvVars, dataNextRangeStart, appVars, histVars>>

-----------------------------------------------------------------------------
Init ==
  /\ state = "up"
  /\ intQueue = <<>> /\ intBuf = <<>> /\ intBufBytes = 0
  /\ intOutputLimit = LEOTP_SNDQ_MAX
  /\ measured = FALSE
  /\ rcvBuf = <<>> /\ rcvBufItrs = <<>> /\ rcvNxt = 0 /\ rcvQueue = <<>>
  /\ dataHoles = <<>> /\ dataNextRangeStart = 0
  /\ sendStart = 0 /\ lastRead = Seg(0, 0)
  /\ asked = 0 /\ dropped = {} /\ clears = 0

(* The network delivers data for what was asked for, in pieces of at most  *)
(* LEOTP_MSS bytes, late, repeatedly, in any order, or not at all.         *)
Input == \E s \in 0 .. asked, e \in 0 .. asked :
           /\ s < e
           /\ \/ e - s <= LEOTP_MSS /\ InputData(Seg(s, e))
              \/ InputHeader(Seg(s, e))

Next ==
  \/ Request
  \/ Input
  \/ Recv
  \/ \E clear \in BOOLEAN : Update(clear)
  \/ InterestTimeout
  \/ HoleAges

Spec == Init /\ [][Next]_vars

(* TransUpdateLoop calls update for ever, the application's loop calls     *)
(* recvData for ever, and timeouts pass.  The network owes nothing.  A     *)
(* flush in the millisecond of the last one adds no credit, but time       *)
(* passes: again and again one adds some.                                  *)
FairSpec ==
  /\ Spec
  /\ WF_vars(\E clear \in BOOLEAN : UpdateAdding(clear, NewOutputs \ {0}))
  /\ WF_vars(Recv)
  /\ WF_vars(InterestTimeout)

-----------------------------------------------------------------------------
(* Properties.                                                             *)

TypeOK ==
  /\ state \in {"up", "dead", "crashed"}
  /\ intQueue \in Seq(Ranges)
  /\ intBuf \in Seq([start : Bytes, end : Bytes, xmit : 0 .. LEOTP_DEADLINK, late : BOOLEAN])
  /\ intBufBytes \in Nat /\ intOutputLimit \in Nat /\ measured \in BOOLEAN
  /\ rcvBuf \in Seq(Ranges) /\ rcvQueue \in Seq(Ranges)
  /\ rcvBufItrs \in Seq([start : Bytes, end : Bytes, itr : Bytes])
  /\ rcvNxt \in Bytes
  /\ dataHoles \in Seq([start : Bytes, end : Bytes, age : Ages])
  /\ dataNextRangeStart \in Bytes
  /\ sendStart \in Bytes /\ lastRead \in Ranges
  /\ asked \in Bytes /\ dropped \subseteq Bytes /\ clears \in 0 .. MaxClears

Outstanding == Covered(intQueue) \cup Covered(intBuf)
SizeOf(s)   == TotalSize(s, 1 .. Len(s))

(* Every byte requested is in exactly one place: asked for, received,      *)
(* handed over or dropped by update(); cutting interests and segments      *)
(* neither loses nor duplicates a byte (parseData, leotp.cpp:651-788).     *)
EveryByteOnce ==
  /\ Outstanding \cup Covered(rcvBuf) \cup Covered(rcvQueue) \cup dropped
       \cup Span(Seg(0, lastRead.end)) = Span(Seg(0, sendStart))
  /\ SizeOf(intQueue) + SizeOf(intBuf) + SizeOf(rcvBuf) + SizeOf(rcvQueue)
       + Cardinality(dropped) + lastRead.end = sendStart

(* intBufBytes, on which request and flushIntBuf decide, is the size of    *)
(* the interests in intBuf (leotp.cpp:760, 1079).                          *)
IntBufAccounted == intBufBytes = SizeOf(intBuf)

(* rcvQueue is the contiguous stream between what recv returned last and   *)
(* rcvNxt (leotp.cpp:815-845, 147-161).                                    *)
QueueInOrder ==
  /\ \A i \in 1 .. Len(rcvQueue) :
       /\ rcvQueue[i].start < rcvQueue[i].end
       /\ rcvQueue[i].start = IF i = 1 THEN lastRead.end ELSE rcvQueue[i - 1].end
  /\ rcvNxt = IF rcvQueue = <<>> THEN lastRead.end ELSE rcvQueue[Len(rcvQueue)].end

(* The runs of rcvBufItrs are the maximal runs of bytes in rcvBuf, in      *)
(* order, and the iterator of a run behind rcvNxt points at a segment of   *)
(* rcvBuf in that run, so that inserting before it is defined              *)
(* (leotp.cpp:686-748).                                                    *)
RunsDescribeBuf ==
  /\ Covered(rcvBufItrs) = Covered(rcvBuf)
  /\ \A i \in 1 .. Len(rcvBufItrs) - 1 : rcvBufItrs[i].end < rcvBufItrs[i + 1].start
  /\ \A i \in 1 .. Len(rcvBufItrs) :
       rcvBufItrs[i].start > rcvNxt =>
         \E j \in 1 .. Len(rcvBuf) : /\ rcvBuf[j].start = rcvBufItrs[i].itr
                                     /\ Span(rcvBuf[j]) \subseteq Span(rcvBufItrs[i])

(* The holes are disjoint, in order and behind nothing that is still       *)
(* expected, which the break of deleteDataHole relies on                   *)
(* (leotp.cpp:484-518, 586-608).                                           *)
HolesInOrder ==
  /\ NonEmpty(dataHoles) /\ Sorted(dataHoles)
  /\ \A i \in 1 .. Len(dataHoles) : dataHoles[i].end <= dataNextRangeStart

(* Until the first RTT sample, no more than the initial credit is asked    *)
(* for (leotp.cpp:1096-1102, 1152-1166).                                   *)
CreditKept == ~ measured => asked + intOutputLimit <= LEOTP_SNDQ_MAX

(* A byte that was answered is never asked for again.                      *)
AnsweredStays ==
  [][Outstanding' \subseteq Outstanding \cup (sendStart .. sendStart' - 1)]_vars

(* The requester implements the abstract stream: recv hands over the bytes *)
(* requested, each once and in order.                                      *)
Stream     == INSTANCE LeotpStream WITH requested <- sendStart
StreamSpec == Stream!Spec

(* With an RTT sample, each byte asked for is answered, or the interest is *)
(* sent LEOTP_DEADLINK times and the link declared dead: timeouts and      *)
(* credit never leave an interest behind (leotp.cpp:1113-1204).            *)
AnsweredOrDead ==
  \A b \in 0 .. MaxByte - 1 : measured /\ b \in Outstanding ~> b \notin Outstanding \/ ~ Up

(* A segment that continues rcvNxt reaches the application, although       *)
(* rcvQueue may be full when it arrives (leotp.cpp:121-167, 815-845).      *)
ReadyIsRead ==
  \A b \in 0 .. MaxByte - 1 :
    rcvBuf # <<>> /\ rcvBuf[1].start = rcvNxt /\ b \in Span(rcvBuf[1])
      ~> lastRead.end > b \/ ~ Up

-----------------------------------------------------------------------------
(* Expectations of the repository that the code does not meet.             *)

(* What was received is kept until it is in order: "move available data    *)
(* from rcvBuf -> rcvQueue" (leotp.cpp:814).                               *)
ReceivedIsKept ==
  Outstanding \cup Covered(rcvBuf) \cup Covered(rcvQueue)
    \cup Span(Seg(0, lastRead.end)) = Span(Seg(0, sendStart))

(* "reordering in requester: queueing in order of interest"                *)
(* (leotp.cpp:812).                                                        *)
RcvBufInOrder == Sorted(rcvBuf)

(* The "RTO mechanism" (leotp.cpp:1129) sends an unanswered interest       *)
(* again, with or without an RTT sample.                                   *)
RetriedWithoutRtt ==
  \A b \in 0 .. MaxByte - 1 : b \in Outstanding ~> b \notin Outstanding \/ ~ Up

(* LEOTP_SNHOLE_TIMEOUT, "ms to delete a hole" (leotp.h:67): an old hole   *)
(* is deleted, and nothing worse happens.                                  *)
StaleHolesDeleted == state # "crashed"
=============================================================================
