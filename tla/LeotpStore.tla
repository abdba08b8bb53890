----------------------------- MODULE LeotpStore -----------------------------
(***************************************************************************)
(* What a cache promises its users: a set of bytes of each name, to which  *)
(* an insert adds its bytes block by block and from which a read returns   *)
(* the longest prefix there is.  A whole block is dropped only to make     *)
(* room for a block that is not there, and only if the cache is full; part *)
(* of a block only if it is in more pieces than the cache can describe.    *)
(* There are no range tables, no list of uses and no data.                 *)
(***************************************************************************)
EXTENDS ByteRange, FiniteSets

CONSTANTS
  Names,          (* session names                                         *)
  BLOCK_LEN,      (* bytes in a block                                      *)
  BLOCK_SEG_NUM,  (* pieces of a block that can be described               *)
  MAX_BLOCK_NUM   (* blocks of a full cache                                *)

VARIABLES
  held,    (* the bytes of each name                                       *)
  phase,   (* of the running call: "idle", "insert", "read" or "done"      *)
  call,    (* its operation, name and range                                *)
  rest,    (* insert: the bytes still to be added                          *)
  served   (* read: the number of bytes returned                           *)

vars == <<held, phase, call, rest, served>>

NoCall == [op |-> "none"]
Calls  == [op : {"insert", "read"}, name : Names, start : Nat, end : Nat]

BlockOf(b)    == (b \div BLOCK_LEN) * BLOCK_LEN
InBlock(S, k) == {b \in S : BlockOf(b) = k}
HeldBlocks    == UNION {{<<name, BlockOf(b)>> : b \in held[name]} : name \in Names}

(* The pieces of S in the block k, each as long as it can be.              *)
Pieces(S, k) ==
  {r \in [start : k .. k + BLOCK_LEN, end : k .. k + BLOCK_LEN] :
     /\ r.start < r.end
     /\ Span(r) \subseteq S
     /\ r.start = k \/ r.start - 1 \notin S
     /\ r.end = k + BLOCK_LEN \/ r.end \notin S}

-----------------------------------------------------------------------------
Init ==
  /\ held = [name \in Names |-> {}]
  /\ phase = "idle"
  /\ call = NoCall
  /\ rest = {}
  /\ served = 0

Call ==
  /\ phase = "idle"
  /\ call' \in Calls
  /\ call'.start < call'.end
  /\ phase' = call'.op
  /\ rest' = IF call'.op = "insert" THEN Span(call') ELSE {}
  /\ UNCHANGED <<held, served>>

(* The bytes of the next block are added.  If the block is not there and   *)
(* the cache is full, some block goes.                                     *)
Add ==
  LET block == BlockOf(First(rest))
      part  == InBlock(rest, block)
      With(h)       == [h EXCEPT ![call.name] = @ \cup part]
      Without(h, k) == [h EXCEPT ![k[1]] = @ \ InBlock(@, k[2])]
      room  == <<call.name, block>> \in HeldBlocks \/ Cardinality(HeldBlocks) < MAX_BLOCK_NUM
  IN /\ phase = "insert"
     /\ rest # {}
     /\ rest' = rest \ part
     /\ \/ room /\ held' = With(held)
        \/ ~ room /\ \E k \in HeldBlocks : held' = With(Without(held, k))
     /\ UNCHANGED <<phase, call, served>>

InsertDone ==
  /\ phase = "insert"
  /\ rest = {}
  /\ phase' = "done"
  /\ UNCHANGED <<held, call, rest, served>>

(* A block the insert added to is in too many pieces: one that was there   *)
(* before is forgotten, and what the insert has not added yet is given up. *)
InsertGivesUp ==
  /\ phase = "insert"
  /\ \E b \in Span(call) \ rest :
       LET pieces == Pieces(held[call.name], BlockOf(b))
       IN /\ Cardinality(pieces) > BLOCK_SEG_NUM
          /\ \E r \in pieces :
               /\ Span(r) \cap Span(call) = {}
               /\ held' = [held EXCEPT ![call.name] = @ \ Span(r)]
  /\ phase' = "done"
  /\ rest' = {}
  /\ UNCHANGED <<call, served>>

ReadDone ==
  /\ phase = "read"
  /\ served' = ServedEnd(held[call.name], call) - call.start
  /\ phase' = "done"
  /\ UNCHANGED <<held, call, rest>>

Return ==
  /\ phase = "done"
  /\ phase' = "idle"
  /\ call' = NoCall
  /\ served' = 0
  /\ UNCHANGED <<held, rest>>

Next == Call \/ Add \/ InsertDone \/ InsertGivesUp \/ ReadDone \/ Return

Spec == Init /\ [][Next]_vars
=============================================================================
