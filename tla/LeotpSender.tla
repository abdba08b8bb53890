---------------------------- MODULE LeotpSender -----------------------------
(***************************************************************************)
(* The sending side of a responder or a midnode: what parseInt reads from  *)
(* the cache, sendData's cut into segments, and flushData's credit and     *)
(* datagrams (leotp.cpp:172-208, 353-376, 1226-1314).                      *)
(*                                                                         *)
(* A segment is [start, end, len]; a data header has len = 0.              *)
(***************************************************************************)
EXTENDS ByteRange

CONSTANTS
  LEOTP_MSS,       (* bytes of data in a segment                           *)
  LEOTP_OVERHEAD   (* bytes of the header of a segment                     *)

LEOTP_MTU == LEOTP_MSS + LEOTP_OVERHEAD

Data(s, e)   == [start |-> s, end |-> e, len |-> e - s]
Header(s, e) == [start |-> s, end |-> e, len |-> 0]

(* The bytes of segments, as sndQueueBytes and dataOutputLimit count them. *)
Weight(segs) == SumOf(Len(segs), [i \in 1 .. Len(segs) |-> LEOTP_OVERHEAD + segs[i].len])

(* Mutant: the headers of the segments are not counted.                    *)
EnqueuedData(bytes, segs) == bytes + SumOf(Len(segs), [i \in 1 .. Len(segs) |-> segs[i].len])

(* sndQueueBytes after segments are appended to sndQueue.                  *)
Enqueued(bytes, segs) == bytes + Weight(segs)

(* Mutant: a last segment shorter than LEOTP_MSS is left out.              *)
CutWhole(s, e) ==
  [i \in 1 .. (e - s) \div LEOTP_MSS |-> Data(s + (i - 1) * LEOTP_MSS, s + i * LEOTP_MSS)]

(* sendData: the bytes from s to e in segments of LEOTP_MSS.               *)
Cut(s, e) ==
  [i \in 1 .. (e - s + LEOTP_MSS - 1) \div LEOTP_MSS |->
     Data(s + (i - 1) * LEOTP_MSS, Lower(s + i * LEOTP_MSS, e))]

(* Mutant: the headers are not charged.                                    *)
SendsUncharged(queue, credit, k) ==
  LET size(n) == SumOf(n, [i \in 1 .. n |-> queue[i].len])
  IN size(k) <= credit /\ (k < Len(queue) => size(k + 1) > credit)

(* flushData sends the segments 1 .. k: it stops at the first that exceeds *)
(* the credit.                                                             *)
SendsExactly(queue, credit, k) ==
  /\ Weight(SubSeq(queue, 1, k)) <= credit
  /\ k < Len(queue) => Weight(SubSeq(queue, 1, k + 1)) > credit

(* Mutant: credit is never saved up for a segment larger than a flush adds.*)
CreditCapped(queue, credit, newOutput, k) ==
  Lower(credit - Weight(SubSeq(queue, 1, k)), newOutput)

(* What is left is kept while segments wait, and otherwise capped.         *)
CreditAfter(queue, credit, newOutput, k) ==
  LET rest == credit - Weight(SubSeq(queue, 1, k))
  IN IF k = Len(queue) THEN Lower(rest, newOutput) ELSE rest

(* Mutant: the header of the segment to be added is not counted.           *)
NoRoomForData(datagram, seg) == Weight(datagram) + seg.len > LEOTP_MTU

NoRoom(datagram, seg) == Weight(datagram) + Weight(<<seg>>) > LEOTP_MTU

(* The segments, packed in order into datagrams.                           *)
Datagrams(segs) ==
  LET f[i \in 0 .. Len(segs)] ==
        IF i = 0 THEN <<>>
        ELSE LET n == Len(f[i - 1])
             IN IF n = 0 \/ NoRoom(f[i - 1][n], segs[i])
                THEN Append(f[i - 1], <<segs[i]>>)
                ELSE [f[i - 1] EXCEPT ![n] = Append(@, segs[i])]
  IN f[Len(segs)]
=============================================================================
