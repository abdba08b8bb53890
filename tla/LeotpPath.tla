----------------------------- MODULE LeotpPath ------------------------------
(***************************************************************************)
(* A requester and a responder connected by a network: the interests that  *)
(* a flush of the requester sends reach the responder, and the datagrams   *)
(* that a flush of the responder sends reach the requester.                *)
(*                                                                         *)
(* The network keeps the order.  What goes wrong is bounded by MaxFaults:  *)
(* a lost datagram, a timeout that passes although the answer is on its    *)
(* way, an application that answers only the front of a range.  Any other  *)
(* timeout passes for a reason.  (The modules of the two ends are also     *)
(* checked against networks that reorder and repeat.)                      *)
(***************************************************************************)
EXTENDS LeotpRequester

CONSTANTS
  LEOTP_OVERHEAD,  (* bytes of the header of a segment                     *)
  DataOutputs,     (* what a flush may add to the responder's credit       *)
  BLOCK_LEN,       (* bytes of a block of the responder's cache            *)
  MaxFaults        (* bound: things that go wrong                          *)

ASSUME PathAssumption ==
  /\ LEOTP_OVERHEAD \in Nat \ {0} /\ BLOCK_LEN \in Nat \ {0}
  /\ DataOutputs \subseteq Nat
  /\ MaxFaults \in Nat

VARIABLES
  store, pendingInts, sndQueue, sndQueueBytes, dataOutputLimit, owed,
  toServer,        (* interests on their way                               *)
  toClient,        (* datagrams on their way                               *)
  datagram,        (* segments input of the requester has still to take    *)
  faults,          (* things that went wrong so far                        *)
  ignored          (* history: segments the requester should have taken    *)

Server == INSTANCE LeotpResponder WITH NewOutputs <- DataOutputs

clientVars == vars
serverVars == <<store, pendingInts, sndQueue, sndQueueBytes, dataOutputLimit, owed>>
netVars    == <<toServer, toClient, datagram, faults, ignored>>
pathVars   == <<clientVars, serverVars, netVars>>

-----------------------------------------------------------------------------
(* The interests a flush sends: those of intBuf and flushIntQueue whose    *)
(* transmission it counts, then the ripe holes it has not just asked for.  *)
FlushedInterests ==
  LET buf == intBuf \o NewInterests
      Asks(x) == \E y \in {intBuf'[j] : j \in 1 .. Len(intBuf')} :
                   x.start \in Span(y) /\ y.xmit > x.xmit
  IN Pick(buf, {i \in 1 .. Len(buf) : Asks(buf[i])})

FlushedHoles ==
  LET holes == RecutAll(dataHoles, FlushedInterests, DeleteDataHole)
  IN Pick(holes, {i \in 1 .. Len(holes) : holes[i].age = "ripe"})

Ask(s) == [i \in 1 .. Len(s) |-> Seg(s[i].start, s[i].end)]

(* An operation of the requester excludes the others until it is done.     *)
Unlocked == datagram = <<>>

ClientUpdateAdding(outputs) ==
  /\ Unlocked
  /\ UNCHANGED <<serverVars, toClient, datagram, faults, ignored>>
  /\ UpdateAdding(FALSE, outputs)
  /\ toServer' = toServer \o Ask(FlushedInterests \o FlushedHoles)

ClientUpdate == ClientUpdateAdding(NewOutputs)

Client(Action) == Unlocked /\ UNCHANGED <<serverVars, netVars>> /\ Action

(* parseData passed over an interest in the segment, since the loop ended  *)
(* at an interest behind it: a cut in the middle leaves intBuf unsorted.   *)
CountIgnored(seg) ==
  ignored' = ignored + IF Span(seg) \cap Covered(intBuf') # {} THEN 1 ELSE 0

(* input takes the segments of a datagram one by one, under the mutex.     *)
TakeSegment ==
  /\ Up
  /\ UNCHANGED <<toServer, faults>>
  /\ \/ Unlocked /\ toClient # <<>> /\ datagram' = Tail(Head(toClient)) /\ toClient' = Tail(toClient)
     \/ ~ Unlocked /\ datagram' = Tail(datagram) /\ UNCHANGED toClient

ClientInput ==
  /\ UNCHANGED serverVars
  /\ TakeSegment
  /\ LET seg == Head(IF Unlocked THEN Head(toClient) ELSE datagram)
     IN InputData(Seg(seg.start, seg.end)) /\ CountIgnored(seg)

-----------------------------------------------------------------------------
(* What goes wrong.                                                        *)

Fault(happens) ==
  /\ faults' = faults + IF happens THEN 1 ELSE 0
  /\ faults' <= MaxFaults

InFlight == Covered(datagram) \cup UNION {Covered(toClient[i]) : i \in 1 .. Len(toClient)}

(* The bytes whose answer will come if nothing goes wrong.                 *)
OnTheWay == Covered(toServer) \cup Covered(sndQueue) \cup InFlight

(* A timeout is early if the answer of the interest is on its way.         *)
ClientTimeout ==
  /\ UNCHANGED <<serverVars, toServer, toClient, datagram, ignored>>
  /\ Unlocked
  /\ InterestTimeout
  /\ \E i \in 1 .. Len(intBuf) :
       /\ intBuf[i] # intBuf'[i]
       /\ Fault(Span(intBuf[i]) \subseteq OnTheWay)

Lose ==
  /\ Fault(TRUE)
  /\ \/ toServer # <<>> /\ toServer' = Tail(toServer) /\ UNCHANGED toClient
     \/ toClient # <<>> /\ toClient' = Tail(toClient) /\ UNCHANGED toServer
  /\ UNCHANGED <<clientVars, serverVars, datagram, ignored>>

-----------------------------------------------------------------------------
ServerInput ==
  /\ UNCHANGED <<clientVars, toClient, datagram, ignored>>
  /\ toServer # <<>>
  /\ \E provided \in Bytes :
       /\ Server!InputInt(Head(toServer), provided)
       /\ Fault(provided < Head(toServer).end)
  /\ toServer' = Tail(toServer)

ServerFlushAdding(outputs) ==
  /\ UNCHANGED <<clientVars, toServer, datagram, faults, ignored>>
  /\ \E newOutput \in outputs, k \in 0 .. Len(sndQueue) :
       /\ Server!FlushData(newOutput, k)
       /\ toClient' = toClient \o Server!Datagrams(SubSeq(sndQueue, 1, k))

ServerFlush == ServerFlushAdding(DataOutputs)

ServerDrop == Server!DropBlock /\ UNCHANGED <<clientVars, netVars>>

-----------------------------------------------------------------------------
NetInit ==
  /\ toServer = <<>> /\ toClient = <<>> /\ datagram = <<>>
  /\ faults = 0 /\ ignored = 0

PathInit == Init /\ Server!Init /\ NetInit

PathNext ==
  \/ Client(Request)
  \/ ClientUpdate
  \/ Client(Recv)
  \/ ClientTimeout
  \/ Client(HoleAges)
  \/ ClientInput
  \/ ServerInput
  \/ ServerFlush
  \/ ServerDrop
  \/ Lose

PathSpec == PathInit /\ [][PathNext]_pathVars

(* The threads of both ends run for ever, timeouts pass, and what is not   *)
(* lost arrives.  Two flushes may fall in one millisecond, and then the    *)
(* credit does not grow; since time passes, again and again it does.       *)
(* TakeSegment is ClientInput as far as the network sees it, and can be    *)
(* taken whenever that can.                                                *)
PathFairSpec ==
  /\ PathSpec
  /\ WF_pathVars(ServerInput)
  /\ WF_pathVars(ServerFlushAdding(DataOutputs \ {0}))
  /\ WF_<<toClient, datagram>>(TakeSegment)
  /\ WF_pathVars(Client(Recv))
  /\ WF_pathVars(ClientTimeout)
  /\ WF_pathVars(ClientUpdateAdding(NewOutputs \ {0}))

-----------------------------------------------------------------------------
(* Properties.                                                             *)

(* Each fault, and each answer that parseData passes over, costs an        *)
(* interest at most one more transmission, so that fewer than              *)
(* LEOTP_DEADLINK of them never end in a dead link: the responder, the     *)
(* cuts of interests and the holes lose no request (leotp.cpp:1113-1204,   *)
(* 344-413, 415-456, 649-788).                                             *)
OneRetryPerFault ==
  /\ \A i \in 1 .. Len(intBuf) : intBuf[i].xmit <= faults + ignored + 1
  /\ faults + ignored < LEOTP_DEADLINK => state # "dead"

(* A datagram holds at least a segment and is no longer than LEOTP_MTU     *)
(* (leotp.cpp:1275-1280).                                                  *)
DatagramsFit ==
  \A i \in 1 .. Len(toClient) :
    toClient[i] # <<>> /\ Server!Weight(toClient[i]) <= Server!LEOTP_MTU

(* The responder keeps its promises on this path.                          *)
ServerTypeOK       == Server!TypeOK
SndQueueAccounted  == Server!SndQueueAccounted
EachInterestOnce   == Server!EachInterestOnce
InsertedAnswersAll == Server!InsertedAnswersAll

(* All the application requests is handed to it, at any rate the next node *)
(* asks for, unless a stale hole crashes the process (the run hole).       *)
Delivered == sendStart > 0 ~> lastRead.end = sendStart \/ state = "crashed"
=============================================================================
