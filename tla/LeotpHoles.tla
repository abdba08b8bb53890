----------------------------- MODULE LeotpHoles -----------------------------
(***************************************************************************)
(* Data holes: gaps in the incoming data, after which a requester or a     *)
(* midnode asks for the missing bytes again (leotp.cpp:473-638).           *)
(*                                                                         *)
(* A hole is [start, end, age]: "young" below LEOTP_HOLE_WAIT, "ripe" from *)
(* LEOTP_HOLE_WAIT, "stale" from LEOTP_SNHOLE_TIMEOUT milliseconds on.     *)
(***************************************************************************)
EXTENDS ByteRange

CONSTANT MaxHole  (* a longer gap is abnormal (100*LEOTP_MSS)              *)

Ages == {"young", "ripe", "stale"}

DeleteDataHole(holes, r) == Recut(holes, r, LAMBDA h : Before(h, r) \o After(h, r))

(* A gap from next to the start of r becomes a hole, unless it is abnormal.*)
IsHole(next, r) == r.start > next /\ next # 0 /\ r.start - next <= MaxHole

(* detectDataHole: the holes and dataNextRangeStart after the packet r.    *)
HolesAfter(holes, next, r) ==
  IF r.start < next THEN DeleteDataHole(holes, r)
  ELSE IF IsHole(next, r)
  THEN Append(holes, [start |-> next, end |-> r.start, age |-> "young"])
  ELSE holes

(* Mutant: a retransmitted packet moves the mark back.                     *)
NextAfterAlways(next, r) == r.end

NextAfter(next, r) == IF r.start < next THEN next ELSE r.end
=============================================================================
