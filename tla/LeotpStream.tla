---------------------------- MODULE LeotpStream -----------------------------
(***************************************************************************)
(* What a requester promises its application: the bytes it asked for, each *)
(* exactly once and in order, whatever the network loses, repeats or       *)
(* reorders.                                                               *)
(***************************************************************************)
EXTENDS Integers

VARIABLES
  requested,  (* the application asked for the bytes [0, requested)        *)
  lastRead    (* the range [start, end) it was handed last                 *)

vars == <<requested, lastRead>>

Init == requested = 0 /\ lastRead = [start |-> 0, end |-> 0]

Ask ==
  /\ requested' \in Nat
  /\ requested' > requested
  /\ UNCHANGED lastRead

(* The next bytes of the stream, as many as are there.                     *)
Hand ==
  /\ lastRead'.end \in lastRead.end + 1 .. requested
  /\ lastRead' = [start |-> lastRead.end, end |-> lastRead'.end]
  /\ UNCHANGED requested

Next == Ask \/ Hand

Spec == Init /\ [][Next]_vars
=============================================================================
