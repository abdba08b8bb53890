----------------------------- MODULE LeotpCache -----------------------------
(***************************************************************************)
(* The in-network cache of a LEOTP node (cache.cpp, cache.h, ByteMap.h).   *)
(*                                                                         *)
(* The stream of a session name is cut into blocks of BLOCK_LEN bytes.  A  *)
(* block holds its bytes and a table of at most BLOCK_SEG_NUM byte ranges  *)
(* it claims to hold; blocks are dropped in least-recently-used order.     *)
(*                                                                         *)
(* insert and read run under the mutex Cache::lock.  A step of this module *)
(* is one iteration of a loop of the call that holds the mutex: pc is      *)
(* "idle" while the mutex is free.                                         *)
(*                                                                         *)
(* The contents of a byte never change (a name and an offset identify the  *)
(* content), so the data of a block is the set of offsets memcpy wrote.    *)
(***************************************************************************)
EXTENDS ByteRange, FiniteSets

CONSTANTS
  Names,          (* session names (the nameChars of a LeotpSess)          *)
  BLOCK_LEN,      (* bytes in a block                                      *)
  BLOCK_SEG_NUM,  (* slots in the range table of a block                   *)
  MAX_BLOCK_NUM,  (* blocks the cache keeps                                *)
  MaxByte         (* bound: the offsets in use, below 2^32 - BLOCK_LEN     *)

ASSUME CacheAssumption ==
  /\ BLOCK_LEN \in Nat \ {0}
  /\ BLOCK_SEG_NUM \in Nat \ {0}
  /\ MAX_BLOCK_NUM \in Nat \ {0}
  /\ MaxByte \in Nat

VARIABLES
  dataMap,     (* key |-> block                                            *)
  lruList,     (* the keys, least recently used first                      *)
  pc,          (* where the call that holds the mutex is                   *)
  arg,         (* its arguments                                            *)
  blockStart,  (* its loop variable                                        *)
  newRange,    (* insert: newRangeStart, newRangeEnd                       *)
  readlen      (* read: bytes copied out so far                            *)

vars == <<dataMap, lruList, pc, arg, blockStart, newRange, readlen>>

-----------------------------------------------------------------------------
(* Ranges, blocks and keys.                                                *)

Bytes  == 0 .. MaxByte
Slots  == 0 .. BLOCK_SEG_NUM - 1
Ranges == [start : Bytes, end : Bytes]

(* ranges[i*2] == 0 && ranges[i*2+1] == 0 marks a free slot.               *)
Free   == [start |-> 0, end |-> 0]
Keys   == Names \X Bytes
Blocks == [ranges : [Slots -> Ranges], lastPos : Slots \cup {-1}, data : SUBSET Bytes]
Args   == [op : {"insert", "read"}, name : Names, start : Bytes, end : Bytes]
NoCall == [op |-> "none"]

BlockOf(b) == (b \div BLOCK_LEN) * BLOCK_LEN
Key        == <<arg.name, blockStart>>
Used(b)    == {i \in Slots : b.ranges[i] # Free}
Claimed(b) == UNION {Span(b.ranges[i]) : i \in Used(b)}

(* Mutant: the range is not cut at dataEnd.                                *)
WriteRangeUncut == [start |-> Higher(arg.start, blockStart), end |-> blockStart + BLOCK_LEN]

(* The part of the call's range that lies in the current block.            *)
WriteRange == [start |-> Higher(arg.start, blockStart),
               end   |-> Lower(blockStart + BLOCK_LEN, arg.end)]

Drop(f, k)   == [x \in DOMAIN f \ {k} |-> f[x]]
Put(f, k, v) == [x \in DOMAIN f \cup {k} |-> IF x = k THEN v ELSE f[x]]

-----------------------------------------------------------------------------
(* Cache::insert                                                           *)

Insert(name, start, end) ==
  /\ pc = "idle"
  /\ arg' = [op |-> "insert", name |-> name, start |-> start, end |-> end]
  /\ blockStart' = BlockOf(start)
  /\ pc' = "insert"
  /\ UNCHANGED <<dataMap, lruList, newRange, readlen>>

(* blockStart += BLOCK_LEN, after the memcpy of the current block.         *)
NextBlock ==
  /\ blockStart' = blockStart + BLOCK_LEN
  /\ pc' = "insert"

(* Mutant: a block is dropped although there is room for one more.         *)
LruFullEarly == Len(lruList) + 1 >= MAX_BLOCK_NUM

(* Mutant: the size is tested before the new node is pushed.               *)
LruFullBeforePush == Len(lruList) > MAX_BLOCK_NUM

(* lruList.size() > MAX_BLOCK_NUM, once the new node is in the list.       *)
LruFull == Len(lruList) + 1 > MAX_BLOCK_NUM

(* ret == -1: addBlock, which may drop the least recently used block.      *)
AddBlock ==
  LET fresh == [ranges  |-> [i \in Slots |-> IF i = 0 THEN WriteRange ELSE Free],
                lastPos |-> -1,
                data    |-> Span(WriteRange)]
  IN /\ dataMap' = Put(IF LruFull THEN Drop(dataMap, Head(lruList)) ELSE dataMap, Key, fresh)
     /\ lruList' = Append(IF LruFull THEN Tail(lruList) ELSE lruList, Key)

InsertNewBlock ==
  /\ pc = "insert"
  /\ blockStart < arg.end
  /\ Key \notin DOMAIN dataMap
  /\ AddBlock
  /\ NextBlock
  /\ UNCHANGED <<arg, newRange, readlen>>

InsertOldBlock ==
  /\ pc = "insert"
  /\ blockStart < arg.end
  /\ Key \in DOMAIN dataMap
  /\ newRange' = WriteRange
  /\ pc' = "union"
  /\ UNCHANGED <<dataMap, lruList, arg, blockStart, readlen>>

(* Mutant: ranges that only touch are not united.                          *)
HasUnionStrict(new, r) ==
  \/ new.start < r.start /\ new.end > r.start
  \/ new.end > r.end /\ new.start < r.end

(* Mutant: only the start is compared.                                     *)
IsSubsetByStart(new, r) == new.start >= r.start

(* The two tests of the union loop, on a slot that is in use.              *)
HasUnion(new, r) ==
  \/ new.start < r.start /\ new.end >= r.start
  \/ new.end > r.end /\ new.start <= r.end
IsSubset(new, r) == new.start >= r.start /\ new.end <= r.end

Touched(b) == {i \in Used(b) : HasUnion(newRange, b.ranges[i]) \/ IsSubset(newRange, b.ranges[i])}

(* Mutant: the end of the absorbed range is forgotten.                     *)
HullByStart(new, r) == [start |-> Lower(new.start, r.start), end |-> new.end]

(* Mutant: the absorbed slot stays in use.                                 *)
ReleaseNothing(b, i) == b

(* newRange grows over the absorbed range, whose slot becomes free.        *)
Hull(new, r) == [start |-> Lower(new.start, r.start), end |-> Higher(new.end, r.end)]
Release(b, i) == [b EXCEPT !.ranges[i] = Free]

(* One round of while(1): the first touched slot is absorbed and freed.    *)
UnionAbsorb ==
  LET b == dataMap[Key]
      i == First(Touched(b))
      r == b.ranges[i]
  IN /\ pc = "union"
     /\ Touched(b) # {}
     /\ HasUnion(newRange, r)
     /\ newRange' = Hull(newRange, r)
     /\ dataMap' = [dataMap EXCEPT ![Key] = Release(@, i)]
     /\ UNCHANGED <<lruList, pc, arg, blockStart, readlen>>

Memcpy(b) == [b EXCEPT !.data = @ \cup Span(WriteRange)]

(* isSubset: the table stays, the bytes are copied again.                  *)
UnionSubset ==
  LET b == dataMap[Key]
      i == First(Touched(b))
  IN /\ pc = "union"
     /\ Touched(b) # {}
     /\ ~ HasUnion(newRange, b.ranges[i])
     /\ dataMap' = [dataMap EXCEPT ![Key] = Memcpy(@)]
     /\ NextBlock
     /\ UNCHANGED <<lruList, arg, newRange, readlen>>

(* Mutant: the slot is taken and the bytes are not copied.                 *)
PlaceOnly(b) == [b EXCEPT !.ranges[First(Slots \ Used(b))] = newRange]

(* The first free slot takes the union, and the bytes are copied.          *)
Place(b) == Memcpy([b EXCEPT !.ranges[First(Slots \ Used(b))] = newRange])

(* The union is complete and there is a free slot for it.                  *)
UnionPlace ==
  LET b == dataMap[Key]
  IN /\ pc = "union"
     /\ Touched(b) = {}
     /\ Used(b) # Slots
     /\ dataMap' = [dataMap EXCEPT ![Key] = Place(@)]
     /\ NextBlock
     /\ UNCHANGED <<lruList, arg, newRange, readlen>>

(* Every slot is in use: the slot after lastPos is overwritten, and insert *)
(* returns 0 before the memcpy and before the remaining blocks.            *)
UnionOverflow ==
  LET b   == dataMap[Key]
      pos == (b.lastPos + 1) % BLOCK_SEG_NUM
  IN /\ pc = "union"
     /\ Touched(b) = {}
     /\ Used(b) = Slots
     /\ dataMap' = [dataMap EXCEPT ![Key].lastPos = pos, ![Key].ranges[pos] = newRange]
     /\ pc' = "return"
     /\ UNCHANGED <<lruList, arg, blockStart, newRange, readlen>>

InsertEnd ==
  /\ pc = "insert"
  /\ blockStart >= arg.end
  /\ pc' = "return"
  /\ UNCHANGED <<dataMap, lruList, arg, blockStart, newRange, readlen>>

-----------------------------------------------------------------------------
(* Cache::read                                                             *)

Read(name, start, end) ==
  /\ pc = "idle"
  /\ arg' = [op |-> "read", name |-> name, start |-> start, end |-> end]
  /\ blockStart' = BlockOf(start)
  /\ pc' = "read"
  /\ UNCHANGED <<dataMap, lruList, newRange, readlen>>

ReadStart   == Higher(arg.start, blockStart)
Covering(b) == {i \in Used(b) : b.ranges[i].start <= ReadStart /\ b.ranges[i].end > ReadStart}

(* updateLRU: splice the i-th node to the end of the list.                 *)
MoveToEnd(s, i) == [j \in 1 .. Len(s) |-> IF j < i THEN s[j]
                                         ELSE IF j < Len(s) THEN s[j + 1] ELSE s[i]]

(* Mutant: the loop goes on behind a hole.                                 *)
ReadsOn(readEnd) == FALSE

(* The request is not complete and an empty segment is encountered.        *)
StopsShort(readEnd) == arg.end > readEnd /\ readEnd < blockStart + BLOCK_LEN

(* Some slot covers readStart: copy, updateLRU, then go on or break.       *)
ReadBlock ==
  LET b       == dataMap[Key]
      readEnd == Lower(b.ranges[First(Covering(b))].end, arg.end)
  IN /\ pc = "read"
     /\ blockStart < arg.end
     /\ Key \in DOMAIN dataMap
     /\ Covering(b) # {}
     /\ readlen' = readlen + (readEnd - ReadStart)
     /\ \E i \in 1 .. Len(lruList) :
          lruList[i] = Key /\ lruList' = MoveToEnd(lruList, i)
     /\ IF StopsShort(readEnd)
        THEN pc' = "return" /\ UNCHANGED blockStart
        ELSE pc' = "read" /\ blockStart' = blockStart + BLOCK_LEN
     /\ UNCHANGED <<dataMap, arg, newRange>>

(* The loop ends, or no block, or no satisfying range.                     *)
ReadEnd ==
  /\ pc = "read"
  /\ \/ blockStart >= arg.end
     \/ ~ (Key \in DOMAIN dataMap /\ Covering(dataMap[Key]) # {})
  /\ pc' = "return"
  /\ UNCHANGED <<dataMap, lruList, arg, blockStart, newRange, readlen>>

-----------------------------------------------------------------------------
(* lock.unlock() and return; the locals of the call are forgotten.         *)
Return ==
  /\ pc = "return"
  /\ pc' = "idle"
  /\ arg' = NoCall
  /\ blockStart' = 0
  /\ newRange' = Free
  /\ readlen' = 0
  /\ UNCHANGED <<dataMap, lruList>>

Init ==
  /\ dataMap = [k \in {} |-> {}]
  /\ lruList = <<>>
  /\ pc = "idle"
  /\ arg = NoCall
  /\ blockStart = 0
  /\ newRange = Free
  /\ readlen = 0

(* Callers pass non-empty ranges: a segment's data, or an interest.        *)
Next ==
  \/ \E name \in Names, start \in Bytes, end \in Bytes :
       start < end /\ (Insert(name, start, end) \/ Read(name, start, end))
  \/ InsertNewBlock
  \/ InsertOldBlock
  \/ UnionAbsorb
  \/ UnionSubset
  \/ UnionPlace
  \/ UnionOverflow
  \/ InsertEnd
  \/ ReadBlock
  \/ ReadEnd
  \/ Return

Spec == Init /\ [][Next]_vars

(* The thread that holds the mutex runs on.                                *)
CallSteps == InsertNewBlock \/ InsertOldBlock \/ UnionAbsorb \/ UnionSubset \/ UnionPlace
             \/ UnionOverflow \/ InsertEnd \/ ReadBlock \/ ReadEnd \/ Return
FairSpec == Spec /\ WF_vars(CallSteps)

-----------------------------------------------------------------------------
(* Properties.                                                             *)

TypeOK ==
  /\ DOMAIN dataMap \subseteq Keys
  /\ \A k \in DOMAIN dataMap : dataMap[k] \in Blocks
  /\ lruList \in Seq(Keys)
  /\ pc \in {"idle", "insert", "union", "read", "return"}
  /\ IF pc = "idle" THEN arg = NoCall ELSE arg \in Args /\ arg.start < arg.end
  /\ blockStart \in Nat
  /\ newRange \in Ranges
  /\ readlen \in 0 .. MaxByte

(* The LRU list holds every key of the map once and no other, within the   *)
(* capacity (addBlock, dropBlock and updateLRU, cache.cpp:26-55): an       *)
(* iterator kept in a Node or a Block always points at a live partner.     *)
LruAgrees ==
  /\ Len(lruList) <= MAX_BLOCK_NUM
  /\ {lruList[i] : i \in 1 .. Len(lruList)} = DOMAIN dataMap
  /\ \A i, j \in 1 .. Len(lruList) : lruList[i] = lruList[j] => i = j

Apart(r1, r2) == r1.end < r2.start \/ r2.end < r1.start

(* The ranges of a block lie in the block, are not empty, and never        *)
(* overlap or touch, so that read finds the longest run in one slot        *)
(* (the union loop, cache.cpp:78-112).                                     *)
RangesSeparated ==
  \A k \in DOMAIN dataMap :
    LET b == dataMap[k]
    IN /\ \A i \in Used(b) : /\ k[2] <= b.ranges[i].start
                             /\ b.ranges[i].start < b.ranges[i].end
                             /\ b.ranges[i].end <= k[2] + BLOCK_LEN
       /\ \A i, j \in Used(b) : i # j => Apart(b.ranges[i], b.ranges[j])

Has(name, x) ==
  LET k == <<name, BlockOf(x)>> IN k \in DOMAIN dataMap /\ x \in Claimed(dataMap[k])

(* read returns exactly the longest prefix of the request that the blocks  *)
(* claim to hold, across slots and across blocks (cache.cpp:140-176).      *)
ReadIsLongestPrefix ==
  pc = "return" /\ arg.op = "read" =>
    /\ arg.start + readlen <= arg.end
    /\ \A x \in arg.start .. arg.start + readlen - 1 : Has(arg.name, x)
    /\ arg.start + readlen < arg.end => ~ Has(arg.name, arg.start + readlen)

(* An insert that was not cut short leaves each of its bytes claimed and   *)
(* written, unless its block was dropped to make room for a later block of *)
(* the same call; the last block is always there.                          *)
InsertCompletes ==
  pc = "return" /\ arg.op = "insert" /\ blockStart >= arg.end =>
    \A x \in Span(arg) :
      LET k == <<arg.name, BlockOf(x)>>
      IN IF k \in DOMAIN dataMap
         THEN x \in Claimed(dataMap[k]) \cap dataMap[k].data
         ELSE BlockOf(x) # BlockOf(arg.end - 1)

(* A block claims bytes nobody wrote to it only if its range table has     *)
(* overflowed: lastPos is -1 until then (cache.cpp:113-120).               *)
GarbageOnlyAfterOverflow ==
  \A k \in DOMAIN dataMap :
    dataMap[k].lastPos = -1 => Claimed(dataMap[k]) \subseteq dataMap[k].data

(* What a block claims, with the range the union loop holds in its locals. *)
Held(k) ==
  Claimed(dataMap[k]) \cup IF pc = "union" /\ Key = k THEN Span(newRange) ELSE {}

(* No step takes a byte away from a block that stays, but for an overflow: *)
(* absorbing slots one at a time never loses a range (cache.cpp:86-93).    *)
ClaimsOnlyGrow ==
  [][pc # "union" \/ pc' # "return" =>
       \A k \in DOMAIN dataMap \cap DOMAIN dataMap' : Held(k) \subseteq Held(k)']_vars

(* Every insert and every read returns and frees the mutex: the while(1)   *)
(* of the union and the block loops end (cache.cpp:63-125, 140-176).       *)
CallReturns == pc # "idle" ~> pc = "idle"

(* insert returned 0, which udp_leotp.cpp:244 takes for success: the bytes *)
(* a kept block claims of the inserted range are the inserted bytes.       *)
InsertStores ==
  pc = "return" /\ arg.op = "insert" =>
    \A x \in Span(arg) : Has(arg.name, x) => x \in dataMap[<<arg.name, BlockOf(x)>>].data

(* What the blocks claim to hold, as a set of bytes of each name.          *)
HeldOf(name) == UNION {Held(k) : k \in {q \in DOMAIN dataMap : q[1] = name}}
HeldBytes    == [name \in Names |-> HeldOf(name)]

(* The bytes of the argument that the block loop has still before it.      *)
Ahead ==
  CASE pc = "insert" -> {b \in Span(arg) : b >= blockStart}
    [] pc = "union"  -> {b \in Span(arg) : b >= blockStart + BLOCK_LEN}
    [] OTHER         -> {}

Returned == IF pc = "return" THEN readlen ELSE 0

Phase ==
  CASE pc = "union"  -> "insert"
    [] pc = "return" -> "done"
    [] OTHER         -> pc

Store == INSTANCE LeotpStore WITH
  held <- HeldBytes, phase <- Phase, call <- arg, rest <- Ahead, served <- Returned

(* To its users the cache is a set of bytes: an insert adds its bytes, a   *)
(* read returns the longest prefix, a block is dropped only to make room   *)
(* in a full cache, and part of one only if its table is full, whatever    *)
(* the union loop does with the slots and the read loop with the blocks    *)
(* (cache.cpp:26-178).  The bytes are those a block claims, which after an *)
(* overflow it may not have been given (InsertStores).                     *)
StoreSpec == Store!Spec
=============================================================================
