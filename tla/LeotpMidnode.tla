---------------------------- MODULE LeotpMidnode ----------------------------
(***************************************************************************)
(* The LeotpTransCB of a midnode (leotp.cpp, role LEOTP_ROLE_MIDNODE) with *)
(* the application that fills its cache (appmid.cpp).                      *)
(*                                                                         *)
(* An interest from the requester is answered from the cache as far as the *)
(* cache goes; the rest waits in intQueue and is forwarded by the next     *)
(* flush.  Data from the responder is queued for the requester and copied  *)
(* to rcvBuf; the application takes it from rcvQueue and puts it into the  *)
(* cache.  A gap in the data becomes a hole: the midnode tells the         *)
(* requester's side with a data header and asks for the bytes itself.      *)
(*                                                                         *)
(* As in LeotpRequester an action is an operation under the mutex of the   *)
(* LeotpSess, with two exceptions.  The application inserts into the cache *)
(* outside that mutex (StoreTaken).  And an operation that reads the cache *)
(* takes a step for each read (ReadPiece): it keeps the mutex, but between *)
(* two reads inserts change the cache, which has a mutex of its own.       *)
(* The segments of one datagram are separate inputs: between two of them   *)
(* the model lets other operations run, which the mutex excludes.          *)
(***************************************************************************)
EXTENDS LeotpSender, LeotpHoles, FiniteSets

CONSTANTS
  LEOTP_WND_RCV,   (* segments in rcvQueue from which rcvBuf has to wait   *)
  LEOTP_INTB_MAX,  (* bytes in intBuf from which request is refused        *)
  NewOutputs,      (* what a flush may add to dataOutputLimit              *)
  BLOCK_LEN,       (* bytes of a block of the cache                        *)
  BLOCK_SEG_NUM,   (* pieces of a block that can be described              *)
  MaxByte,         (* bound: bytes of the stream                           *)
  MaxInputs        (* bound: interests and segments that arrive            *)

ASSUME MidnodeAssumption ==
  /\ LEOTP_MSS \in Nat \ {0} /\ LEOTP_OVERHEAD \in Nat \ {0}
  /\ LEOTP_WND_RCV \in Nat \ {0} /\ LEOTP_INTB_MAX \in Nat \ {0}
  /\ MaxHole \in Nat /\ BLOCK_LEN \in Nat \ {0} /\ BLOCK_SEG_NUM \in Nat \ {0}
  /\ NewOutputs \subseteq Nat
  /\ MaxByte \in Nat /\ MaxInputs \in Nat

VARIABLES
  state,               (* of the process: "up" or "crashed"                *)
  intQueue,            (* ranges to be forwarded                           *)
  intBuf,              (* interests made of them                           *)
  intBufBytes,         (* the bytes they ask for, as the code counts them  *)
  dataHoles,           (* gaps seen in the incoming data                   *)
  dataNextRangeStart,  (* where the next data is expected to start         *)
  sndQueue,            (* segments for the requester                       *)
  sndQueueBytes,       (* their bytes, as the code counts them             *)
  dataOutputLimit,     (* bytes of segments that may be sent               *)
  rcvBuf,              (* data received, while rcvQueue is full            *)
  rcvQueue,            (* data received, for the application               *)
  reading,             (* ranges that parseInt has still to read           *)
  flushing,            (* flush has still to call flushData                *)
  taken,               (* application: what recv returned, not yet stored  *)
  store,               (* the bytes the cache says it has                  *)
  owed,                (* history: bytes of interests and holes accepted,  *)
                       (* less those served or forwarded                   *)
  inputs               (* history: interests and segments that arrived     *)

intVars  == <<intQueue, intBuf, intBufBytes, owed>>
holeVars == <<dataHoles, dataNextRangeStart>>
sndVars  == <<sndQueue, sndQueueBytes, dataOutputLimit>>
rcvVars  == <<rcvBuf, rcvQueue>>
lockVars == <<reading, flushing>>
appVars  == <<taken, store>>
vars     == <<state, intVars, holeVars, sndVars, rcvVars, lockVars, appVars, inputs>>

-----------------------------------------------------------------------------
Bytes  == 0 .. MaxByte
Ranges == {r \in [start : Bytes, end : Bytes] : r.start < r.end}
Segs   == {Data(r.start, r.end) : r \in {x \in Ranges : Size(x) <= LEOTP_MSS}}
            \cup {Header(r.start, r.end) : r \in Ranges}

SizeOf(s) == TotalSize(s, 1 .. Len(s))

Up       == state = "up"
Unlocked == reading = <<>> /\ ~ flushing

-----------------------------------------------------------------------------
(* input, interest: parseInt will read its bytes.                          *)
InputInt(r) ==
  /\ Up /\ Unlocked /\ inputs < MaxInputs
  /\ inputs' = inputs + 1
  /\ reading' = <<r>>
  /\ owed' = owed + Size(r)
  /\ UNCHANGED <<state, intQueue, intBuf, intBufBytes, holeVars, sndVars, rcvVars,
                 flushing, appVars>>

(* The next read of parseInt: the first segment of the range r.            *)
FirstPiece(r) == [start |-> r.start, end |-> Lower(r.start + LEOTP_MSS, r.end)]

(* What is still to be read of r, if the read returns the bytes up to e.   *)
StillToRead(r, e) ==
  IF e = FirstPiece(r).end /\ e < r.end THEN <<[start |-> e, end |-> r.end]>> ELSE <<>>

(* Mutant: the rest goes to the end of the segment, not of the interest.   *)
MissingInSegment(r, e) ==
  IF e < FirstPiece(r).end THEN <<[start |-> e, end |-> FirstPiece(r).end]>> ELSE <<>>

(* A short read ends the loop, and what is left of r is requested.         *)
Missing(r, e) ==
  IF e < FirstPiece(r).end THEN <<[start |-> e, end |-> r.end]>> ELSE <<>>

(* request refuses while intBuf is full.                                   *)
Requested(ranges) == IF intBufBytes < LEOTP_INTB_MAX THEN ranges ELSE <<>>

(* parseInt: one read, whose bytes go to sndQueue.                         *)
ReadPiece ==
  LET r      == Head(reading)
      e      == ServedEnd(store, FirstPiece(r))
      served == Cut(r.start, e)
  IN /\ Up /\ reading # <<>>
     /\ sndQueue' = sndQueue \o served
     /\ sndQueueBytes' = Enqueued(sndQueueBytes, served)
     /\ reading' = StillToRead(r, e) \o Tail(reading)
     /\ intQueue' = intQueue \o Requested(Missing(r, e))
     /\ owed' = owed - SizeOf(served)
     /\ UNCHANGED <<state, intBuf, intBufBytes, holeVars, dataOutputLimit, rcvVars,
                    flushing, appVars, inputs>>

-----------------------------------------------------------------------------
(* moveToRcvQueue: all of rcvBuf moves, or nothing.                        *)

(* Mutant: rcvQueue becomes what rcvBuf was.                               *)
QueueReplaced(buf, queue) ==
  IF buf # <<>> /\ Len(queue) < LEOTP_WND_RCV THEN buf ELSE queue

QueueAfter(buf, queue) == IF Len(queue) < LEOTP_WND_RCV THEN queue \o buf ELSE queue

BufAfter(buf, queue)   == IF Len(queue) < LEOTP_WND_RCV THEN <<>> ELSE buf

MoveToRcvQueue(buf, queue) ==
  /\ rcvQueue' = QueueAfter(buf, queue)
  /\ rcvBuf' = BufAfter(buf, queue)

(* Mutant: the header of a hole is left out when the data itself follows.  *)
AnnounceNothing(next, seg) == <<>>

(* detectDataHole: the header of a new hole.                               *)
Announce(next, seg) == IF IsHole(next, seg) THEN <<Header(next, seg.start)>> ELSE <<>>

(* input, data or data header.  parseData queues it for the requester and, *)
(* if it is data, keeps a copy for the cache.                              *)
InputPush(seg) ==
  LET queued == Append(Announce(dataNextRangeStart, seg), seg)
  IN /\ Up /\ Unlocked /\ inputs < MaxInputs
     /\ inputs' = inputs + 1
     /\ dataHoles' = HolesAfter(dataHoles, dataNextRangeStart, seg)
     /\ dataNextRangeStart' = NextAfter(dataNextRangeStart, seg)
     /\ sndQueue' = sndQueue \o queued
     /\ sndQueueBytes' = Enqueued(sndQueueBytes, queued)
     /\ MoveToRcvQueue(IF seg.len = 0 THEN rcvBuf ELSE Append(rcvBuf, seg), rcvQueue)
     /\ UNCHANGED <<state, intVars, dataOutputLimit, lockVars, appVars>>

-----------------------------------------------------------------------------
(* The application: recv takes one segment, then moveToRcvQueue.           *)

(* Mutant: recv does not call moveToRcvQueue.                              *)
TakeOnly ==
  /\ Up /\ Unlocked /\ taken = <<>> /\ rcvQueue # <<>>
  /\ taken' = <<Head(rcvQueue)>>
  /\ rcvQueue' = Tail(rcvQueue)
  /\ UNCHANGED <<state, intVars, holeVars, sndVars, rcvBuf, lockVars, store, inputs>>

Recv ==
  /\ Up /\ Unlocked /\ taken = <<>> /\ rcvQueue # <<>>
  /\ taken' = <<Head(rcvQueue)>>
  /\ MoveToRcvQueue(rcvBuf, Tail(rcvQueue))
  /\ UNCHANGED <<state, intVars, holeVars, sndVars, lockVars, store, inputs>>

(* The pieces of the bytes S in the block k, each as long as it can be,    *)
(* and the blocks with more pieces than can be described.                  *)
PiecesIn(S, k) ==
  LET in == {b \in S : b \div BLOCK_LEN = k}
  IN {r \in Ranges : Span(r) \subseteq in /\ r.start - 1 \notin in /\ r.end \notin in}

FullBlocks(S) ==
  {k \in {b \div BLOCK_LEN : b \in S} : Cardinality(PiecesIn(S, k)) > BLOCK_SEG_NUM}

(* Cache::insert, after recvData has released the mutex.  In a full block  *)
(* another piece gives way, and nothing is inserted behind that block.     *)
StoreTaken ==
  LET all  == store \cup Covered(taken)
      full == FullBlocks(all)
  IN /\ Up /\ taken # <<>>
     /\ \/ full = {} /\ store' = all
        \/ \E k \in full : \E r \in PiecesIn(all, k) :
             /\ \A other \in full : k <= other
             /\ Span(r) \cap Covered(taken) = {}
             /\ store' = {b \in all : b \in store \/ b \div BLOCK_LEN <= k} \ Span(r)
     /\ taken' = <<>>
     /\ UNCHANGED <<state, intVars, holeVars, sndVars, rcvVars, lockVars, inputs>>

(* All sessions share the cache: an insert of another one drops a block.   *)
DropBlock ==
  /\ Up
  /\ \E b \in store : store' = {c \in store : c \div BLOCK_LEN # b \div BLOCK_LEN}
  /\ UNCHANGED <<state, intVars, holeVars, sndVars, rcvVars, lockVars, taken, inputs>>

-----------------------------------------------------------------------------
(* update: the statistics of a second discard rcvBuf; then flush.          *)

(* flushIntQueue: a range that continues the last interest fills it up to  *)
(* LEOTP_INT_RANGE_LIMIT = LEOTP_MSS first.                                *)
Interests(ranges) ==
  LET Pieces(r) == [i \in 1 .. (Size(r) + LEOTP_MSS - 1) \div LEOTP_MSS |->
                      [start |-> r.start + (i - 1) * LEOTP_MSS,
                       end   |-> Lower(r.start + i * LEOTP_MSS, r.end)]]
      f[i \in 0 .. Len(ranges)] ==
        IF i = 0 THEN <<>>
        ELSE LET done  == f[i - 1]
                 n     == Len(done)
                 joins == n > 0 /\ done[n].end = ranges[i].start /\ Size(done[n]) < LEOTP_MSS
             IN IF joins
                THEN SubSeq(done, 1, n - 1) \o Pieces([done[n] EXCEPT !.end = ranges[i].end])
                ELSE done \o Pieces(ranges[i])
  IN f[Len(ranges)]

(* Mutant: only interests that are sent again are subtracted.              *)
BytesNotSubtracted(bytes, sent) == bytes

(* flushIntBuf of a midnode sends and forgets each interest.               *)
BytesAfter(bytes, sent) == bytes - SizeOf(sent)

(* A hole as a range.                                                      *)
Ranged(holes) == [i \in 1 .. Len(holes) |-> [start |-> holes[i].start, end |-> holes[i].end]]

(* flushIntQueue and flushIntBuf; of flushDataHoles the choice of the holes*)
(* that parseInt has to read.                                              *)
Flush ==
  LET new   == Interests(intQueue)
      bytes == intBufBytes + SizeOf(new)
      buf   == intBuf \o new
      sent  == IF bytes = 0 THEN <<>> ELSE buf
  IN /\ intQueue' = <<>>
     /\ intBuf' = IF bytes = 0 THEN buf ELSE <<>>
     /\ intBufBytes' = BytesAfter(bytes, sent)
     /\ \E holes \in {RecutAll(dataHoles, sent, DeleteDataHole)} :
          LET Aged(age) == {i \in 1 .. Len(holes) : holes[i].age = age}
              ripe      == Ranged(Pick(holes, Aged("ripe")))
          IN /\ dataHoles' = Pick(holes, Aged("young"))
             /\ state' = IF Aged("stale") = {} THEN "up" ELSE "crashed"
             /\ reading' = ripe
             /\ owed' = owed - SizeOf(sent) + SizeOf(ripe)
     /\ flushing' = TRUE

Update(clear) ==
  /\ Up /\ Unlocked
  /\ clear => rcvBuf # <<>>
  /\ rcvBuf' = IF clear THEN <<>> ELSE rcvBuf
  /\ Flush
  /\ UNCHANGED <<dataNextRangeStart, sndVars, rcvQueue, appVars, inputs>>

(* flushData ends the flush, when the holes have been read.                *)
FlushData ==
  /\ Up /\ flushing /\ reading = <<>>
  /\ \E newOutput \in NewOutputs, k \in 0 .. Len(sndQueue) :
       LET credit == dataOutputLimit + newOutput
       IN /\ SendsExactly(sndQueue, credit, k)
          /\ dataOutputLimit' = CreditAfter(sndQueue, credit, newOutput, k)
          /\ sndQueue' = SubSeq(sndQueue, k + 1, Len(sndQueue))
          /\ sndQueueBytes' = sndQueueBytes - Weight(SubSeq(sndQueue, 1, k))
  /\ flushing' = FALSE
  /\ UNCHANGED <<state, intVars, holeVars, rcvVars, reading, appVars, inputs>>

(* A hole gets older; it becomes stale if no update came in time.          *)
Older == [young |-> "ripe", ripe |-> "stale"]

HoleAges ==
  /\ Up
  /\ \E i \in 1 .. Len(dataHoles) :
       /\ dataHoles[i].age # "stale"
       /\ dataHoles' = [dataHoles EXCEPT ![i].age = Older[@]]
  /\ UNCHANGED <<state, intVars, dataNextRangeStart, sndVars, rcvVars, lockVars, appVars, inputs>>

-----------------------------------------------------------------------------
Init ==
  /\ state = "up"
  /\ intQueue = <<>> /\ intBuf = <<>> /\ intBufBytes = 0
  /\ dataHoles = <<>> /\ dataNextRangeStart = 0
  /\ sndQueue = <<>> /\ sndQueueBytes = 0 /\ dataOutputLimit = LEOTP_MSS
  /\ rcvBuf = <<>> /\ rcvQueue = <<>>
  /\ reading = <<>> /\ flushing = FALSE
  /\ taken = <<>> /\ store = {}
  /\ owed = 0 /\ inputs = 0

Next ==
  \/ \E r \in Ranges : InputInt(r)
  \/ ReadPiece
  \/ \E seg \in Segs : InputPush(seg)
  \/ Recv
  \/ StoreTaken
  \/ DropBlock
  \/ \E clear \in BOOLEAN : Update(clear)
  \/ FlushData
  \/ HoleAges

Spec == Init /\ [][Next]_vars

-----------------------------------------------------------------------------
(* Properties.                                                             *)

TypeOK ==
  /\ state \in {"up", "crashed"}
  /\ intQueue \in Seq(Ranges) /\ intBuf \in Seq(Ranges) /\ intBufBytes \in Nat
  /\ dataHoles \in Seq([start : Bytes, end : Bytes, age : Ages])
  /\ dataNextRangeStart \in Bytes
  /\ sndQueue \in Seq(Segs) /\ sndQueueBytes \in Nat /\ dataOutputLimit \in Nat
  /\ rcvBuf \in Seq(Segs) /\ rcvQueue \in Seq(Segs) /\ taken \in Seq(Segs)
  /\ reading \in Seq(Ranges) /\ flushing \in BOOLEAN
  /\ store \subseteq Bytes
  /\ owed \in Nat /\ inputs \in 0 .. MaxInputs

(* Each flush empties intBuf and leaves intBufBytes at 0, so request never *)
(* refuses a midnode, whose parseInt ignores the result (leotp.cpp:409,    *)
(* 221, 1199-1202).                                                        *)
NeverRefuses == intBuf = <<>> /\ intBufBytes = 0

(* No byte of an interest or of a hole is forgotten, whatever happens to   *)
(* the cache between two reads: what was not served or forwarded is in     *)
(* intQueue or still to be read (leotp.cpp:340-413, 1029-1202).            *)
NothingForgotten == owed = SizeOf(intQueue) + SizeOf(reading)

(* sndQueueBytes, from which the send rate asked of the next node and the  *)
(* deviation told to the requester are computed, is the size of sndQueue   *)
(* (leotp.cpp:204, 470, 800, 1301).                                        *)
SndQueueAccounted == sndQueueBytes = Weight(sndQueue)

(* Data waits in rcvBuf, where update would discard it, only while the     *)
(* application is LEOTP_WND_RCV segments behind (leotp.cpp:820-831, 1346). *)
WaitsOnlyForRoom == rcvBuf # <<>> => Len(rcvQueue) >= LEOTP_WND_RCV

(* The next node, which runs the same detectDataHole on what this one      *)
(* queues, expects the same data next and takes no gap for a hole that     *)
(* this node has announced (leotp.cpp:591-609, 459-471).                   *)
NextNodeSeesNoHole ==
  [][dataNextRangeStart' # dataNextRangeStart =>
       LET new == SubSeq(sndQueue', Len(sndQueue) + 1, Len(sndQueue'))
           next[i \in 0 .. Len(new)] ==
             IF i = 0 THEN dataNextRangeStart ELSE NextAfter(next[i - 1], new[i])
       IN /\ \A i \in 1 .. Len(new) : ~ IsHole(next[i - 1], new[i])
          /\ next[Len(new)] = dataNextRangeStart']_vars

(* What the application may take reaches the cache, although it is put     *)
(* there outside the mutex: only rcvBuf can be discarded                   *)
(* (appmid.cpp:20-26, leotp.cpp:129-166).  What it has taken does so if no *)
(* block is full (the run cache_overflow).                                 *)
QueuedReachesCache ==
  [][/\ Covered(rcvQueue) \subseteq Covered(rcvQueue') \cup Covered(taken')
     /\ FullBlocks(store \cup Covered(taken)) = {}
          => Covered(taken) \subseteq Covered(taken') \cup store']_vars
=============================================================================
