--------------------------- MODULE LeotpResponder ---------------------------
(***************************************************************************)
(* The LeotpTransCB of a responder (leotp.cpp, role LEOTP_ROLE_RESPONDER)  *)
(* with the application that provides the data (appserver.cpp).            *)
(*                                                                         *)
(* An interest is answered from the cache as far as the cache goes; the    *)
(* rest becomes a pending interest, and the application is called at once, *)
(* under the mutex.  What it inserts answers every pending interest that   *)
(* meets it.  flushData sends the segments at the rate the next node       *)
(* allows.                                                                 *)
(***************************************************************************)
EXTENDS LeotpSender

CONSTANTS
  NewOutputs,      (* what a flush may add to dataOutputLimit              *)
  BLOCK_LEN,       (* bytes of a block of the cache                        *)
  MaxByte          (* bound: bytes of the stream                           *)

VARIABLES
  store,               (* the bytes in the cache                           *)
  pendingInts,         (* interests not yet answered                       *)
  sndQueue,            (* segments for the requester                       *)
  sndQueueBytes,       (* their bytes, as the code counts them             *)
  dataOutputLimit,     (* bytes of segments that may be sent               *)
  owed                 (* history: bytes of interests accepted, less those *)
                       (* queued                                           *)

vars == <<store, pendingInts, sndQueue, sndQueueBytes, dataOutputLimit, owed>>

-----------------------------------------------------------------------------
Bytes  == 0 .. MaxByte
Ranges == {r \in [start : Bytes, end : Bytes] : r.start < r.end}

SizeOf(s) == TotalSize(s, 1 .. Len(s))

-----------------------------------------------------------------------------
(* Mutant: of an interest only the front stays.                            *)
FrontPending(x, r) == Before(x, r)

(* notifyNewData: what stays of a pending interest, and what is sent.      *)
StillPending(x, r) == Before(x, r) \o After(x, r)

(* Mutant: only the interest of the callback is answered.                  *)
PendingNewest(ints, r) == SubSeq(ints, 1, Len(ints) - 1) \o StillPending(ints[Len(ints)], r)

Pending(ints, r) == Concat(Len(ints), [i \in 1 .. Len(ints) |-> StillPending(ints[i], r)])

Notified(ints, r) ==
  Concat(Len(ints), [i \in 1 .. Len(ints) |->
    IF Overlap(ints[i], r)
    THEN Cut(Higher(ints[i].start, r.start), Lower(ints[i].end, r.end)) ELSE <<>>])

Queue(segs) ==
  /\ sndQueue' = sndQueue \o segs
  /\ sndQueueBytes' = Enqueued(sndQueueBytes, segs)

(* input, interest: parseInt.  It is read from the cache in one step: an   *)
(* interest is no longer than LEOTP_MSS, only a hole may be.  (LeotpMidnode*)
(* has a step for each read.)  The callback onUnsatInt inserts the missing *)
(* bytes up to provided: provideData of appserver inserts all of them, up  *)
(* to r.end; another application may have only the front of them yet.      *)
InputInt(r, provided) ==
  LET sentEnd == ServedEnd(store, r)
      cached  == Cut(r.start, sentEnd)
      data    == [start |-> sentEnd, end |-> provided]
      ints    == Append(pendingInts, [start |-> sentEnd, end |-> r.end])
  IN /\ IF sentEnd = r.end
        THEN provided = r.end /\ Queue(cached) /\ UNCHANGED <<store, pendingInts>>
        ELSE /\ sentEnd < provided /\ provided <= r.end
             /\ store' = store \cup Span(data)
             /\ pendingInts' = Pending(ints, data)
             /\ Queue(cached \o Notified(ints, data))
     /\ owed' = owed + Size(r) - (SizeOf(sndQueue') - SizeOf(sndQueue))
     /\ UNCHANGED dataOutputLimit

(* flushData sends the first k segments.                                   *)
FlushData(newOutput, k) ==
  LET credit == dataOutputLimit + newOutput
  IN /\ k \in 0 .. Len(sndQueue)
     /\ SendsExactly(sndQueue, credit, k)
     /\ dataOutputLimit' = CreditAfter(sndQueue, credit, newOutput, k)
     /\ sndQueue' = SubSeq(sndQueue, k + 1, Len(sndQueue))
     /\ sndQueueBytes' = sndQueueBytes - Weight(SubSeq(sndQueue, 1, k))
     /\ UNCHANGED <<store, pendingInts, owed>>

(* All sessions share the cache: an insert of another one drops a block.   *)
DropBlock ==
  /\ \E b \in store : store' = {c \in store : c \div BLOCK_LEN # b \div BLOCK_LEN}
  /\ UNCHANGED <<pendingInts, sndQueue, sndQueueBytes, dataOutputLimit, owed>>

Init ==
  /\ store = {} /\ pendingInts = <<>>
  /\ sndQueue = <<>> /\ sndQueueBytes = 0 /\ dataOutputLimit = LEOTP_MSS
  /\ owed = 0

Next ==
  \/ \E r \in Ranges, provided \in Bytes : InputInt(r, provided)
  \/ \E newOutput \in NewOutputs, k \in 0 .. Len(sndQueue) : FlushData(newOutput, k)
  \/ DropBlock

Spec == Init /\ [][Next]_vars

-----------------------------------------------------------------------------
(* Properties.                                                             *)

TypeOK ==
  /\ store \subseteq Bytes
  /\ pendingInts \in Seq(Ranges)
  /\ sndQueue \in Seq({Data(r.start, r.end) : r \in Ranges})
  /\ sndQueueBytes \in Nat /\ dataOutputLimit \in Nat /\ owed \in Nat

(* Each byte of each interest is queued once or still pending: neither the *)
(* cut of pending interests nor an answer from two sources, the cache and  *)
(* the application, loses or repeats one (leotp.cpp:353-399, 415-456).     *)
EachInterestOnce == owed = SizeOf(pendingInts)

(* What the application inserts answers at once whoever waits for it, not  *)
(* only the interest it was asked about (udp_leotp.cpp:242-246).           *)
InsertedAnswersAll == [][Covered(pendingInts') \cap (store' \ store) = {}]_vars

(* sndQueueBytes, the deviation told to the requester, is the size of      *)
(* sndQueue (leotp.cpp:204, 1301, 1478).                                   *)
SndQueueAccounted == sndQueueBytes = Weight(sndQueue)
=============================================================================
