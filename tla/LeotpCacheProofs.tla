-------------------------- MODULE LeotpCacheProofs --------------------------
(***************************************************************************)
(* Theorems on the cache, for every block length, table size, capacity and *)
(* set of names: its type, the agreement of map and LRU list, the shape of *)
(* the range tables, what they claim, what a read returns and an insert    *)
(* leaves, and that the cache implements LeotpStore.                       *)
(***************************************************************************)
EXTENDS LeotpCache, ByteRangeProofs

-----------------------------------------------------------------------------
(* The inductive invariant.                                                *)

(* Where a call is: the current block overlaps the call's range, or ends   *)
(* the loop; a read has copied everything up to the current block.         *)
CallInRange ==
  /\ pc \in {"insert", "union", "read"} => arg.start < blockStart + BLOCK_LEN
  /\ pc = "read" => readlen = IF blockStart <= arg.start THEN 0
                              ELSE Lower(blockStart, arg.end) - arg.start
  /\ pc \in {"idle", "insert", "union"} => readlen = 0

(* The union loop works on a block of the map; newRange lies in the block  *)
(* and holds what the call writes there, and, until the table overflows,   *)
(* nothing else but written bytes.                                         *)
UnionInBlock ==
  pc = "union" =>
    /\ blockStart < arg.end
    /\ Key \in DOMAIN dataMap
    /\ blockStart <= newRange.start /\ newRange.start <= WriteRange.start
    /\ WriteRange.end <= newRange.end /\ newRange.end <= blockStart + BLOCK_LEN
    /\ dataMap[Key].lastPos = -1 => Span(newRange) \subseteq dataMap[Key].data \cup Span(WriteRange)

CacheInv ==
  /\ TypeOK
  /\ LruAgrees
  /\ RangesSeparated
  /\ GarbageOnlyAfterOverflow
  /\ CallInRange
  /\ UnionInBlock

-----------------------------------------------------------------------------
(* Arithmetic of blocks and slots.                                         *)

LEMMA BlockOfBounds ==
  ASSUME NEW b \in Nat
  PROVE  BlockOf(b) \in Nat /\ BlockOf(b) <= b /\ b < BlockOf(b) + BLOCK_LEN
<1>1. BLOCK_LEN \in Nat /\ BLOCK_LEN > 0
  BY CacheAssumption
<1>. DEFINE q == b \div BLOCK_LEN
            r == b % BLOCK_LEN
<1>2. q \in Nat /\ r \in 0 .. BLOCK_LEN - 1 /\ b = q * BLOCK_LEN + r
  BY <1>1
<1>3. q * BLOCK_LEN \in Nat
  BY <1>1, <1>2
<1>. QED
  BY <1>1, <1>2, <1>3 DEF BlockOf

LEMMA NextSlot ==
  ASSUME NEW p \in Slots \cup {-1}
  PROVE  (p + 1) % BLOCK_SEG_NUM \in Slots
  BY CacheAssumption DEF Slots

(* The slots are naturals, so First picks the lowest of a set of them.     *)
LEMMA FirstSlot ==
  ASSUME NEW S, S \subseteq Slots, S # {}
  PROVE  First(S) \in S
<1>1. S \subseteq Nat
  BY CacheAssumption DEF Slots
<1>. QED
  BY <1>1, FirstIsLeast

(* The part of the call's range in the current block is not empty.         *)
LEMMA WriteRangeInBlock ==
  ASSUME arg \in Args, arg.start < arg.end, blockStart \in Nat,
         blockStart < arg.end, arg.start < blockStart + BLOCK_LEN
  PROVE  /\ WriteRange \in Ranges
         /\ blockStart <= WriteRange.start
         /\ WriteRange.start < WriteRange.end
         /\ WriteRange.end <= blockStart + BLOCK_LEN
         /\ Span(WriteRange) \subseteq Bytes
         /\ Key \in Keys
  BY CacheAssumption DEF WriteRange, Ranges, Bytes, Args, Higher, Lower, Span, Key, Keys

-----------------------------------------------------------------------------
(* The actions that leave dataMap and lruList alone.                       *)

LEMMA InitInv == Init => CacheInv
<1>. SUFFICES ASSUME Init PROVE CacheInv
  OBVIOUS
<1>1. DOMAIN dataMap = {} /\ lruList = <<>> /\ Len(lruList) = 0
  BY DEF Init
<1>2. TypeOK
  BY <1>1, CacheAssumption DEF Init, TypeOK, Free, Ranges, Bytes
<1>3. LruAgrees /\ RangesSeparated /\ GarbageOnlyAfterOverflow
  BY <1>1, CacheAssumption DEF LruAgrees, RangesSeparated, GarbageOnlyAfterOverflow
<1>4. CallInRange /\ UnionInBlock
  BY DEF Init, CallInRange, UnionInBlock
<1>. QED
  BY <1>2, <1>3, <1>4 DEF CacheInv

(* What the invariant says of the map alone is kept with the map.          *)
LEMMA SameMap ==
  ASSUME CacheInv, UNCHANGED <<dataMap, lruList>>
  PROVE  LruAgrees' /\ RangesSeparated' /\ GarbageOnlyAfterOverflow'
<1>1. LruAgrees'
  BY DEF CacheInv, LruAgrees
<1>2. RangesSeparated'
  BY DEF CacheInv, RangesSeparated, Used, Apart
<1>3. GarbageOnlyAfterOverflow'
  BY DEF CacheInv, GarbageOnlyAfterOverflow, Claimed, Used, Span
<1>. QED
  BY <1>1, <1>2, <1>3

LEMMA CallInv ==
  ASSUME CacheInv, NEW name \in Names, NEW start \in Bytes, NEW end \in Bytes, start < end,
         Insert(name, start, end) \/ Read(name, start, end)
  PROVE  CacheInv'
<1>. USE DEF CacheInv
<1>1. LruAgrees' /\ RangesSeparated' /\ GarbageOnlyAfterOverflow'
  BY SameMap DEF Insert, Read
<1>2. start \in Nat /\ BlockOf(start) \in Nat /\ BlockOf(start) <= start
      /\ start < BlockOf(start) + BLOCK_LEN
  BY BlockOfBounds, CacheAssumption DEF Bytes
<1>3. TypeOK'
  BY <1>2 DEF Insert, Read, TypeOK, Args
<1>4. CallInRange'
  BY <1>2 DEF Insert, Read, CallInRange
<1>5. UnionInBlock'
  BY DEF Insert, Read, UnionInBlock
<1>. QED
  BY <1>1, <1>3, <1>4, <1>5

LEMMA OldBlockInv == CacheInv /\ InsertOldBlock => CacheInv'
<1>. SUFFICES ASSUME CacheInv, InsertOldBlock PROVE CacheInv'
  OBVIOUS
<1>. USE DEF CacheInv
<1>1. LruAgrees' /\ RangesSeparated' /\ GarbageOnlyAfterOverflow'
  BY SameMap DEF InsertOldBlock
<1>2. arg \in Args /\ arg.start < arg.end /\ blockStart \in Nat /\ blockStart < arg.end
      /\ arg.start < blockStart + BLOCK_LEN
  BY DEF InsertOldBlock, TypeOK, CallInRange
<1>3. /\ WriteRange \in Ranges
      /\ blockStart <= WriteRange.start
      /\ WriteRange.start < WriteRange.end
      /\ WriteRange.end <= blockStart + BLOCK_LEN
  BY <1>2, WriteRangeInBlock
<1>4. TypeOK'
  BY <1>2, <1>3 DEF InsertOldBlock, TypeOK
<1>5. CallInRange'
  BY DEF InsertOldBlock, CallInRange
<1>6. WriteRange' = WriteRange /\ Key' = Key
  BY DEF InsertOldBlock, WriteRange, Key
<1>7. WriteRange.start \in Nat /\ WriteRange.end \in Nat
  BY <1>3, CacheAssumption DEF Ranges, Bytes
<1>8. Span(newRange)' = Span(WriteRange)
  BY DEF InsertOldBlock, Span
<1>9. UnionInBlock'
  BY <1>2, <1>3, <1>6, <1>7, <1>8 DEF InsertOldBlock, UnionInBlock
<1>. QED
  BY <1>1, <1>4, <1>5, <1>9

LEMMA InsertEndInv == CacheInv /\ InsertEnd => CacheInv'
<1>. SUFFICES ASSUME CacheInv, InsertEnd PROVE CacheInv'
  OBVIOUS
<1>. USE DEF CacheInv, InsertEnd
<1>1. LruAgrees' /\ RangesSeparated' /\ GarbageOnlyAfterOverflow'
  BY SameMap
<1>2. TypeOK'
  BY DEF TypeOK
<1>3. CallInRange' /\ UnionInBlock'
  BY DEF CallInRange, UnionInBlock
<1>. QED
  BY <1>1, <1>2, <1>3

LEMMA ReadEndInv == CacheInv /\ ReadEnd => CacheInv'
<1>. SUFFICES ASSUME CacheInv, ReadEnd PROVE CacheInv'
  OBVIOUS
<1>. USE DEF CacheInv, ReadEnd
<1>1. LruAgrees' /\ RangesSeparated' /\ GarbageOnlyAfterOverflow'
  BY SameMap
<1>2. TypeOK'
  BY DEF TypeOK
<1>3. CallInRange' /\ UnionInBlock'
  BY DEF CallInRange, UnionInBlock
<1>. QED
  BY <1>1, <1>2, <1>3

LEMMA ReturnInv == CacheInv /\ Return => CacheInv'
<1>. SUFFICES ASSUME CacheInv, Return PROVE CacheInv'
  OBVIOUS
<1>. USE DEF CacheInv, Return
<1>1. LruAgrees' /\ RangesSeparated' /\ GarbageOnlyAfterOverflow'
  BY SameMap
<1>2. TypeOK'
  BY CacheAssumption DEF TypeOK, Free, Ranges, Bytes
<1>3. CallInRange' /\ UnionInBlock'
  BY DEF CallInRange, UnionInBlock
<1>. QED
  BY <1>1, <1>2, <1>3

-----------------------------------------------------------------------------
(* addBlock: room is made by dropping the least recently used block.       *)

Kept    == IF LruFull THEN Drop(dataMap, Head(lruList)) ELSE dataMap
KeptLru == IF LruFull THEN Tail(lruList) ELSE lruList
Fresh   == [ranges  |-> [i \in Slots |-> IF i = 0 THEN WriteRange ELSE Free],
            lastPos |-> -1,
            data    |-> Span(WriteRange)]

LEMMA KeptAgrees ==
  ASSUME TypeOK, LruAgrees
  PROVE  /\ KeptLru \in Seq(Keys)
         /\ Len(KeptLru) < MAX_BLOCK_NUM
         /\ {KeptLru[i] : i \in 1 .. Len(KeptLru)} = DOMAIN Kept
         /\ \A i, j \in 1 .. Len(KeptLru) : KeptLru[i] = KeptLru[j] => i = j
         /\ DOMAIN Kept \subseteq DOMAIN dataMap
         /\ \A k \in DOMAIN Kept : Kept[k] = dataMap[k]
<1>1. /\ lruList \in Seq(Keys) /\ Len(lruList) \in Nat /\ Len(lruList) <= MAX_BLOCK_NUM
      /\ {lruList[i] : i \in 1 .. Len(lruList)} = DOMAIN dataMap
      /\ \A i, j \in 1 .. Len(lruList) : lruList[i] = lruList[j] => i = j
      /\ MAX_BLOCK_NUM \in Nat /\ MAX_BLOCK_NUM > 0
  BY CacheAssumption DEF TypeOK, LruAgrees
<1>2. CASE ~ LruFull
  <2>1. KeptLru = lruList /\ Kept = dataMap
    BY <1>2 DEF KeptLru, Kept
  <2>2. Len(lruList) < MAX_BLOCK_NUM
    BY <1>1, <1>2 DEF LruFull
  <2>. QED
    BY <1>1, <2>1, <2>2
<1>3. CASE LruFull
  <2>1. KeptLru = Tail(lruList) /\ Kept = [x \in DOMAIN dataMap \ {Head(lruList)} |-> dataMap[x]]
    BY <1>3 DEF KeptLru, Kept, Drop
  <2>2. Len(lruList) = MAX_BLOCK_NUM /\ lruList # <<>>
    BY <1>1, <1>3 DEF LruFull
  <2>3. /\ Head(lruList) = lruList[1]
        /\ Tail(lruList) \in Seq(Keys)
        /\ Len(Tail(lruList)) = Len(lruList) - 1
        /\ \A i \in 1 .. Len(lruList) - 1 : Tail(lruList)[i] = lruList[i + 1]
    BY <1>1, <2>2
  <2>4. \A i, j \in 1 .. Len(KeptLru) : KeptLru[i] = KeptLru[j] => i = j
    BY <1>1, <2>1, <2>3
  <2>5. {KeptLru[i] : i \in 1 .. Len(KeptLru)} = DOMAIN Kept
    <3>1. ASSUME NEW i \in 1 .. Len(KeptLru)
          PROVE  KeptLru[i] \in DOMAIN Kept
      <4>1. i + 1 \in 1 .. Len(lruList) /\ 1 \in 1 .. Len(lruList) /\ i + 1 # 1
        BY <1>1, <2>1, <2>2, <2>3
      <4>2. lruList[i + 1] # lruList[1] /\ lruList[i + 1] \in DOMAIN dataMap
        BY <1>1, <4>1
      <4>. QED
        BY <2>1, <2>3, <4>1, <4>2
    <3>2. ASSUME NEW k \in DOMAIN Kept
          PROVE  \E i \in 1 .. Len(KeptLru) : k = KeptLru[i]
      <4>1. k \in DOMAIN dataMap /\ k # lruList[1]
        BY <2>1, <2>3
      <4>2. PICK j \in 1 .. Len(lruList) : k = lruList[j]
        BY <1>1, <4>1
      <4>3. j - 1 \in 1 .. Len(KeptLru) /\ KeptLru[j - 1] = lruList[j]
        BY <1>1, <2>1, <2>3, <4>1, <4>2
      <4>. QED
        BY <4>2, <4>3
    <3>. QED
      BY <3>1, <3>2
  <2>. QED
    BY <1>1, <2>1, <2>2, <2>3, <2>4, <2>5
<1>. QED
  BY <1>2, <1>3

LEMMA NewBlockInv == CacheInv /\ InsertNewBlock => CacheInv'
<1>. SUFFICES ASSUME CacheInv, InsertNewBlock PROVE CacheInv'
  OBVIOUS
<1>1. arg \in Args /\ arg.start < arg.end /\ blockStart \in Nat /\ blockStart < arg.end
      /\ arg.start < blockStart + BLOCK_LEN /\ BLOCK_LEN \in Nat /\ BLOCK_LEN > 0
      /\ arg.start \in Nat
  BY CacheAssumption DEF InsertNewBlock, CacheInv, TypeOK, CallInRange, Args, Bytes
<1>2. /\ WriteRange \in Ranges
      /\ blockStart <= WriteRange.start
      /\ WriteRange.start < WriteRange.end
      /\ WriteRange.end <= blockStart + BLOCK_LEN
      /\ Span(WriteRange) \subseteq Bytes
      /\ Key \in Keys
  BY <1>1, WriteRangeInBlock
<1>3. /\ KeptLru \in Seq(Keys)
      /\ Len(KeptLru) < MAX_BLOCK_NUM
      /\ {KeptLru[i] : i \in 1 .. Len(KeptLru)} = DOMAIN Kept
      /\ \A i, j \in 1 .. Len(KeptLru) : KeptLru[i] = KeptLru[j] => i = j
      /\ DOMAIN Kept \subseteq DOMAIN dataMap
      /\ \A k \in DOMAIN Kept : Kept[k] = dataMap[k]
  BY KeptAgrees DEF CacheInv
<1>4. /\ dataMap' = [x \in DOMAIN Kept \cup {Key} |-> IF x = Key THEN Fresh ELSE Kept[x]]
      /\ lruList' = Append(KeptLru, Key)
      /\ Key \notin DOMAIN Kept
  BY <1>3 DEF InsertNewBlock, AddBlock, Kept, KeptLru, Fresh, Put
<1>5. Fresh \in Blocks
  BY <1>2, CacheAssumption DEF Fresh, Blocks, Ranges, Bytes, Free
<1>6. TypeOK'
  <2>1. DOMAIN dataMap' \subseteq Keys
    BY <1>2, <1>3, <1>4 DEF CacheInv, TypeOK
  <2>2. \A k \in DOMAIN dataMap' : dataMap'[k] \in Blocks
    BY <1>3, <1>4, <1>5 DEF CacheInv, TypeOK
  <2>3. lruList' \in Seq(Keys)
    BY <1>2, <1>3, <1>4
  <2>4. blockStart' \in Nat
    BY <1>1 DEF InsertNewBlock, NextBlock
  <2>. QED
    BY <2>1, <2>2, <2>3, <2>4 DEF InsertNewBlock, NextBlock, CacheInv, TypeOK
<1>7. LruAgrees'
  <2>1. Len(lruList') = Len(KeptLru) + 1
    BY <1>3, <1>4
  <2>2. lruList'[Len(lruList')] = Key /\ \A i \in 1 .. Len(KeptLru) : lruList'[i] = KeptLru[i]
    BY <1>2, <1>3, <1>4
  <2>3. \A i \in 1 .. Len(KeptLru) : KeptLru[i] # Key
    BY <1>3, <1>4
  <2>4. Len(KeptLru) \in Nat /\ MAX_BLOCK_NUM \in Nat
    BY <1>3, CacheAssumption
  <2>5. \A i, j \in 1 .. Len(lruList') : lruList'[i] = lruList'[j] => i = j
    <3>1. \A i \in 1 .. Len(lruList') : i \in 1 .. Len(KeptLru) \/ i = Len(lruList')
      BY <2>1, <2>4
    <3>. QED
      BY <1>3, <2>2, <2>3, <3>1
  <2>6. {lruList'[i] : i \in 1 .. Len(lruList')} = DOMAIN dataMap'
    <3>1. DOMAIN dataMap' = DOMAIN Kept \cup {Key}
      BY <1>4
    <3>2. 1 .. Len(lruList') = 1 .. Len(KeptLru) \cup {Len(lruList')}
      BY <2>1, <2>4
    <3>. QED
      BY <1>3, <2>2, <3>1, <3>2
  <2>. QED
    BY <1>3, <2>1, <2>4, <2>5, <2>6 DEF LruAgrees
<1>8. \A k \in DOMAIN dataMap' : k # Key => k \in DOMAIN dataMap /\ dataMap'[k] = dataMap[k]
  BY <1>3, <1>4
<1>9. dataMap'[Key] = Fresh /\ Key = <<arg.name, blockStart>> /\ Key[2] = blockStart
  BY <1>4 DEF Key
<1>10. Used(Fresh) \subseteq {0} /\ Fresh.ranges \in [Slots -> Ranges] /\ \A i \in Used(Fresh) : Fresh.ranges[i] = WriteRange
  BY <1>5 DEF Used, Fresh, Blocks
<1>11. RangesSeparated'
  <2>. SUFFICES ASSUME NEW k \in DOMAIN dataMap'
                PROVE  /\ \A i \in Used(dataMap'[k]) :
                            /\ k[2] <= dataMap'[k].ranges[i].start
                            /\ dataMap'[k].ranges[i].start < dataMap'[k].ranges[i].end
                            /\ dataMap'[k].ranges[i].end <= k[2] + BLOCK_LEN
                       /\ \A i, j \in Used(dataMap'[k]) :
                            i # j => Apart(dataMap'[k].ranges[i], dataMap'[k].ranges[j])
    BY DEF RangesSeparated, Used, Apart
  <2>1. CASE k = Key
    BY <1>2, <1>9, <1>10, <2>1
  <2>2. CASE k # Key
    BY <1>8, <2>2 DEF CacheInv, RangesSeparated
  <2>. QED
    BY <2>1, <2>2
<1>12. GarbageOnlyAfterOverflow'
  <2>. SUFFICES ASSUME NEW k \in DOMAIN dataMap', dataMap'[k].lastPos = -1
                PROVE  Claimed(dataMap'[k]) \subseteq dataMap'[k].data
    BY DEF GarbageOnlyAfterOverflow, Claimed, Used, Span
  <2>1. CASE k = Key
    <3>1. Claimed(Fresh) \subseteq Span(WriteRange)
      BY <1>10 DEF Claimed
    <3>. QED
      BY <1>9, <2>1, <3>1 DEF Fresh
  <2>2. CASE k # Key
    BY <1>8, <2>2 DEF CacheInv, GarbageOnlyAfterOverflow
  <2>. QED
    BY <2>1, <2>2
<1>13. CallInRange' /\ UnionInBlock'
  BY <1>1 DEF InsertNewBlock, NextBlock, CacheInv, CallInRange, UnionInBlock
<1>. QED
  BY <1>6, <1>7, <1>11, <1>12, <1>13 DEF CacheInv

-----------------------------------------------------------------------------
(* The union loop changes one block and no key.                            *)

Separated(k, b) ==
  /\ \A i \in Used(b) : /\ k[2] <= b.ranges[i].start
                        /\ b.ranges[i].start < b.ranges[i].end
                        /\ b.ranges[i].end <= k[2] + BLOCK_LEN
  /\ \A i, j \in Used(b) : i # j => Apart(b.ranges[i], b.ranges[j])

Written(b) == b.lastPos = -1 => Claimed(b) \subseteq b.data

LEMMA OneBlock ==
  ASSUME CacheInv, NEW c, c \in Blocks, Separated(Key, c), Written(c),
         Key \in DOMAIN dataMap, dataMap' = [dataMap EXCEPT ![Key] = c],
         UNCHANGED lruList
  PROVE  /\ DOMAIN dataMap' = DOMAIN dataMap
         /\ \A k \in DOMAIN dataMap' : dataMap'[k] \in Blocks
         /\ LruAgrees' /\ RangesSeparated' /\ GarbageOnlyAfterOverflow'
<1>1. /\ DOMAIN dataMap' = DOMAIN dataMap
      /\ \A k \in DOMAIN dataMap' : dataMap'[k] = IF k = Key THEN c ELSE dataMap[k]
  OBVIOUS
<1>2. \A k \in DOMAIN dataMap' : dataMap'[k] \in Blocks
  BY <1>1 DEF CacheInv, TypeOK
<1>3. LruAgrees'
  BY <1>1 DEF CacheInv, LruAgrees
<1>4. \A k \in DOMAIN dataMap' : Separated(k, dataMap'[k]) /\ Written(dataMap'[k])
  BY <1>1 DEF CacheInv, RangesSeparated, GarbageOnlyAfterOverflow, Separated, Written
<1>5. RangesSeparated'
  BY <1>4 DEF RangesSeparated, Separated, Used, Apart
<1>6. GarbageOnlyAfterOverflow'
  BY <1>4 DEF GarbageOnlyAfterOverflow, Written, Claimed, Used, Span
<1>. QED
  BY <1>1, <1>2, <1>3, <1>5, <1>6

(* What is known in the union loop.                                        *)
LEMMA InUnion ==
  ASSUME CacheInv, pc = "union"
  PROVE  /\ Key \in DOMAIN dataMap /\ Key \in Keys /\ Key[2] = blockStart
         /\ dataMap[Key] \in Blocks
         /\ Used(dataMap[Key]) \subseteq Slots
         /\ Touched(dataMap[Key]) \subseteq Used(dataMap[Key])
         /\ \A i \in Slots : dataMap[Key].ranges[i] \in Ranges
         /\ Separated(Key, dataMap[Key]) /\ Written(dataMap[Key])
         /\ arg \in Args /\ arg.start < arg.end /\ arg.start \in Nat /\ arg.end \in Nat
         /\ blockStart \in Nat /\ BLOCK_LEN \in Nat /\ BLOCK_LEN > 0
         /\ blockStart < arg.end /\ arg.start < blockStart + BLOCK_LEN
         /\ WriteRange \in Ranges
         /\ blockStart <= WriteRange.start
         /\ WriteRange.start < WriteRange.end
         /\ WriteRange.end <= blockStart + BLOCK_LEN
         /\ Span(WriteRange) \subseteq Bytes
         /\ newRange \in Ranges
         /\ blockStart <= newRange.start
         /\ newRange.start <= WriteRange.start
         /\ WriteRange.end <= newRange.end
         /\ newRange.start < newRange.end
         /\ newRange.end <= blockStart + BLOCK_LEN
<1>1. /\ Key \in DOMAIN dataMap
      /\ dataMap[Key] \in Blocks
      /\ arg \in Args /\ arg.start < arg.end /\ arg.start \in Nat /\ arg.end \in Nat
      /\ blockStart \in Nat /\ BLOCK_LEN \in Nat /\ BLOCK_LEN > 0
      /\ blockStart < arg.end /\ arg.start < blockStart + BLOCK_LEN
      /\ newRange \in Ranges
      /\ blockStart <= newRange.start
      /\ newRange.start <= WriteRange.start
      /\ WriteRange.end <= newRange.end
      /\ newRange.end <= blockStart + BLOCK_LEN
  BY CacheAssumption DEF CacheInv, TypeOK, CallInRange, UnionInBlock, Args, Bytes
<1>2. /\ WriteRange \in Ranges
      /\ blockStart <= WriteRange.start
      /\ WriteRange.start < WriteRange.end
      /\ WriteRange.end <= blockStart + BLOCK_LEN
      /\ Span(WriteRange) \subseteq Bytes
      /\ Key \in Keys
  BY <1>1, WriteRangeInBlock
<1>3. newRange.start < newRange.end
  BY <1>1, <1>2, CacheAssumption DEF Ranges, Bytes
<1>4. Separated(Key, dataMap[Key]) /\ Written(dataMap[Key])
  BY <1>1 DEF CacheInv, RangesSeparated, GarbageOnlyAfterOverflow, Separated, Written
<1>5. /\ Used(dataMap[Key]) \subseteq Slots
      /\ Touched(dataMap[Key]) \subseteq Used(dataMap[Key])
      /\ Key[2] = blockStart
  BY DEF Used, Touched, Key
<1>6. \A i \in Slots : dataMap[Key].ranges[i] \in Ranges
  BY <1>1 DEF Blocks
<1>. QED
  BY <1>1, <1>2, <1>3, <1>4, <1>5, <1>6

(* Releasing a slot keeps a block separated and its claims written.        *)
LEMMA ReleaseKeeps ==
  ASSUME NEW k, NEW b \in Blocks, NEW i \in Slots, Separated(k, b), Written(b)
  PROVE  /\ Release(b, i) \in Blocks
         /\ Used(Release(b, i)) = Used(b) \ {i}
         /\ \A j \in Used(b) \ {i} : Release(b, i).ranges[j] = b.ranges[j]
         /\ Release(b, i).lastPos = b.lastPos /\ Release(b, i).data = b.data
         /\ Claimed(Release(b, i)) \subseteq Claimed(b)
         /\ Claimed(b) \subseteq Claimed(Release(b, i)) \cup Span(b.ranges[i])
         /\ Separated(k, Release(b, i)) /\ Written(Release(b, i))
<1>. DEFINE c == Release(b, i)
<1>1. /\ c.ranges = [b.ranges EXCEPT ![i] = Free]
      /\ c.lastPos = b.lastPos /\ c.data = b.data
  BY DEF Release, Blocks
<1>2. Free \in Ranges
  BY CacheAssumption DEF Free, Ranges, Bytes
<1>3. c \in Blocks
  BY <1>1, <1>2 DEF Release, Blocks
<1>4. \A j \in Slots : c.ranges[j] = IF j = i THEN Free ELSE b.ranges[j]
  BY <1>1 DEF Blocks
<1>. HIDE DEF c
<1>5. Used(c) = Used(b) \ {i}
  BY <1>4 DEF Used
<1>6. \A j \in Used(b) \ {i} : c.ranges[j] = b.ranges[j]
  BY <1>4 DEF Used
<1>7. Claimed(c) \subseteq Claimed(b) /\ Claimed(b) \subseteq Claimed(c) \cup Span(b.ranges[i])
  BY <1>5, <1>6 DEF Claimed
<1>8. Separated(k, c)
  BY <1>5, <1>6 DEF Separated
<1>9. Written(c)
  BY <1>1, <1>7 DEF Written
<1>. QED
  BY <1>1, <1>3, <1>5, <1>6, <1>7, <1>8, <1>9 DEF c

(* The hull of two touching ranges is their union.                         *)
LEMMA HullIsUnion ==
  ASSUME NEW n \in Ranges, NEW r \in Ranges, HasUnion(n, r)
  PROVE  /\ Hull(n, r) \in Ranges
         /\ Span(Hull(n, r)) = Span(n) \cup Span(r)
  BY CacheAssumption DEF HasUnion, Hull, Span, Ranges, Bytes, Lower, Higher

LEMMA AbsorbInv == CacheInv /\ UnionAbsorb => CacheInv'
<1>. SUFFICES ASSUME CacheInv, UnionAbsorb PROVE CacheInv'
  OBVIOUS
<1>. DEFINE b == dataMap[Key]
            i == First(Touched(b))
            r == b.ranges[i]
<1>1. pc = "union" /\ Touched(b) # {} /\ HasUnion(newRange, r) /\ newRange' = Hull(newRange, r)
      /\ dataMap' = [dataMap EXCEPT ![Key] = Release(b, i)]
      /\ UNCHANGED <<lruList, pc, arg, blockStart, readlen>>
  BY DEF UnionAbsorb
<1>2. i \in Touched(b) /\ i \in Used(b) /\ i \in Slots /\ r \in Ranges
  <2>1. Touched(b) \subseteq Used(b) /\ Used(b) \subseteq Slots /\ \A j \in Slots : b.ranges[j] \in Ranges
    BY <1>1, InUnion
  <2>2. i \in Touched(b)
    BY <1>1, <2>1, FirstSlot
  <2>. QED
    BY <2>1, <2>2
<1>. HIDE DEF i
<1>3. /\ Release(b, i) \in Blocks
      /\ Release(b, i).lastPos = b.lastPos /\ Release(b, i).data = b.data
      /\ Separated(Key, Release(b, i)) /\ Written(Release(b, i))
  BY <1>1, <1>2, InUnion, ReleaseKeeps
<1>4. Key \in DOMAIN dataMap
  BY <1>1, InUnion
<1>5. /\ DOMAIN dataMap' = DOMAIN dataMap
      /\ \A k \in DOMAIN dataMap' : dataMap'[k] \in Blocks
      /\ LruAgrees' /\ RangesSeparated' /\ GarbageOnlyAfterOverflow'
  BY <1>1, <1>3, <1>4, OneBlock
<1>6. /\ Hull(newRange, r) \in Ranges
      /\ Span(Hull(newRange, r)) = Span(newRange) \cup Span(r)
  BY <1>1, <1>2, InUnion, HullIsUnion
<1>7. TypeOK'
  BY <1>1, <1>5, <1>6 DEF CacheInv, TypeOK
<1>8. CallInRange'
  BY <1>1 DEF CacheInv, CallInRange
<1>9. Key' = Key /\ WriteRange' = WriteRange /\ dataMap'[Key] = Release(b, i)
  BY <1>1, <1>4 DEF Key, WriteRange
<1>10. blockStart <= r.start /\ r.end <= blockStart + BLOCK_LEN
  BY <1>1, <1>2, InUnion DEF Separated
<1>11. b.lastPos = -1 => Span(r) \subseteq b.data
  BY <1>1, <1>2, InUnion DEF Written, Claimed
<1>12. UnionInBlock'
  <2>1. /\ blockStart < arg.end
        /\ newRange \in Ranges /\ r \in Ranges /\ WriteRange \in Ranges
        /\ blockStart <= newRange.start /\ newRange.start <= WriteRange.start
        /\ WriteRange.end <= newRange.end /\ newRange.end <= blockStart + BLOCK_LEN
        /\ blockStart \in Nat /\ BLOCK_LEN \in Nat
    BY <1>1, <1>2, InUnion
  <2>2. /\ blockStart <= Hull(newRange, r).start /\ Hull(newRange, r).start <= WriteRange.start
        /\ WriteRange.end <= Hull(newRange, r).end
        /\ Hull(newRange, r).end <= blockStart + BLOCK_LEN
    BY <1>10, <2>1, CacheAssumption DEF Hull, Ranges, Bytes, Lower, Higher
  <2>3. b.lastPos = -1 => Span(newRange) \subseteq b.data \cup Span(WriteRange)
    BY <1>1 DEF CacheInv, UnionInBlock
  <2>4. Span(newRange)' = Span(Hull(newRange, r)) /\ Span(WriteRange)' = Span(WriteRange)
    BY <1>1, <1>9 DEF Span
  <2>5. dataMap'[Key'].lastPos = -1 =>
          Span(newRange)' \subseteq dataMap'[Key'].data \cup Span(WriteRange)'
    BY <1>3, <1>6, <1>9, <1>11, <2>3, <2>4
  <2>. QED
    BY <1>1, <1>4, <1>5, <1>9, <2>1, <2>2, <2>5 DEF UnionInBlock
<1>. QED
  BY <1>5, <1>7, <1>8, <1>12 DEF CacheInv

(* A step that leaves the union loop for the next block.                   *)
LEMMA UnionDone ==
  ASSUME CacheInv, pc = "union", NextBlock, NEW c, c \in Blocks,
         Separated(Key, c), Written(c), dataMap' = [dataMap EXCEPT ![Key] = c],
         UNCHANGED <<lruList, arg, newRange, readlen>>
  PROVE  CacheInv'
<1>1. Key \in DOMAIN dataMap
  BY InUnion
<1>2. /\ DOMAIN dataMap' = DOMAIN dataMap
      /\ \A k \in DOMAIN dataMap' : dataMap'[k] \in Blocks
      /\ LruAgrees' /\ RangesSeparated' /\ GarbageOnlyAfterOverflow'
  BY <1>1, OneBlock
<1>3. /\ blockStart \in Nat /\ BLOCK_LEN \in Nat /\ BLOCK_LEN > 0 /\ arg.start \in Nat
      /\ arg.start < blockStart + BLOCK_LEN
  BY InUnion
<1>4. TypeOK'
  BY <1>2, <1>3 DEF NextBlock, CacheInv, TypeOK
<1>5. CallInRange' /\ UnionInBlock'
  BY <1>3 DEF NextBlock, CacheInv, CallInRange, UnionInBlock
<1>. QED
  BY <1>2, <1>4, <1>5 DEF CacheInv

LEMMA MemcpyKeeps ==
  ASSUME NEW k, NEW b \in Blocks, Separated(k, b), Written(b), Span(WriteRange) \subseteq Bytes
  PROVE  Memcpy(b) \in Blocks /\ Separated(k, Memcpy(b)) /\ Written(Memcpy(b))
<1>1. /\ Memcpy(b) \in Blocks
      /\ Memcpy(b).ranges = b.ranges /\ Memcpy(b).lastPos = b.lastPos
      /\ Memcpy(b).data = b.data \cup Span(WriteRange)
  BY DEF Memcpy, Blocks
<1>. QED
  BY <1>1 DEF Separated, Written, Claimed, Used

LEMMA SubsetInv == CacheInv /\ UnionSubset => CacheInv'
<1>. SUFFICES ASSUME CacheInv, UnionSubset PROVE CacheInv'
  OBVIOUS
<1>1. pc = "union" /\ NextBlock /\ UNCHANGED <<lruList, arg, newRange, readlen>>
      /\ dataMap' = [dataMap EXCEPT ![Key] = Memcpy(dataMap[Key])]
  BY DEF UnionSubset
<1>2. /\ dataMap[Key] \in Blocks /\ Separated(Key, dataMap[Key]) /\ Written(dataMap[Key])
      /\ Span(WriteRange) \subseteq Bytes
  BY <1>1, InUnion
<1>3. /\ Memcpy(dataMap[Key]) \in Blocks
      /\ Separated(Key, Memcpy(dataMap[Key])) /\ Written(Memcpy(dataMap[Key]))
  BY <1>2, MemcpyKeeps
<1>. QED
  BY <1>1, <1>3, UnionDone

(* A range that the union loop passes over neither overlaps nor touches.   *)
LEMMA PassedOver ==
  ASSUME NEW n \in Ranges, NEW r \in Ranges, n.start < n.end, r.start < r.end,
         ~ HasUnion(n, r), ~ IsSubset(n, r)
  PROVE  Apart(n, r) /\ Apart(r, n)
  BY CacheAssumption DEF HasUnion, IsSubset, Apart, Ranges, Bytes

(* Putting newRange into any slot keeps the block separated.               *)
LEMMA SlotTakesRange ==
  ASSUME CacheInv, pc = "union", Touched(dataMap[Key]) = {}, NEW p \in Slots,
         NEW c \in Blocks, c.ranges = [dataMap[Key].ranges EXCEPT ![p] = newRange]
  PROVE  /\ Separated(Key, c)
         /\ Claimed(c) \subseteq Claimed(dataMap[Key]) \cup Span(newRange)
         /\ p \notin Used(dataMap[Key]) => Claimed(dataMap[Key]) \cup Span(newRange) \subseteq Claimed(c)
<1>. DEFINE b == dataMap[Key]
<1>1. /\ b \in Blocks /\ Key[2] = blockStart /\ Separated(Key, b)
      /\ newRange \in Ranges /\ newRange.start < newRange.end
      /\ blockStart <= newRange.start /\ newRange.end <= blockStart + BLOCK_LEN
      /\ \A j \in Slots : b.ranges[j] \in Ranges
      /\ Used(b) \subseteq Slots
  BY InUnion
<1>2. \A j \in Slots : c.ranges[j] = IF j = p THEN newRange ELSE b.ranges[j]
  BY <1>1 DEF Blocks
<1>3. newRange # Free
  BY <1>1 DEF Free
<1>4. \A j \in Used(b) : /\ Apart(newRange, b.ranges[j]) /\ Apart(b.ranges[j], newRange)
  <2>. TAKE j \in Used(b)
  <2>1. b.ranges[j] \in Ranges /\ b.ranges[j].start < b.ranges[j].end
    BY <1>1 DEF Separated
  <2>2. ~ HasUnion(newRange, b.ranges[j]) /\ ~ IsSubset(newRange, b.ranges[j])
    BY DEF Touched
  <2>. QED
    BY <1>1, <2>1, <2>2, PassedOver
<1>5. Used(c) = Used(b) \cup {p}
  BY <1>2, <1>3 DEF Used
<1>6. c.ranges[p] = newRange /\ \A j \in Used(c) \ {p} : j \in Used(b) /\ c.ranges[j] = b.ranges[j]
  BY <1>1, <1>2, <1>5
<1>7. Separated(Key, c)
  <2>1. \A j \in Used(c) : /\ Key[2] <= c.ranges[j].start
                           /\ c.ranges[j].start < c.ranges[j].end
                           /\ c.ranges[j].end <= Key[2] + BLOCK_LEN
    BY <1>1, <1>6 DEF Separated
  <2>2. \A i, j \in Used(c) : i # j => Apart(c.ranges[i], c.ranges[j])
    BY <1>1, <1>4, <1>6 DEF Separated
  <2>. QED
    BY <2>1, <2>2 DEF Separated
<1>8. Claimed(c) \subseteq Claimed(b) \cup Span(newRange)
  BY <1>6 DEF Claimed
<1>9. ASSUME p \notin Used(b)
      PROVE  Claimed(b) \cup Span(newRange) \subseteq Claimed(c)
  BY <1>5, <1>6, <1>9 DEF Claimed
<1>. QED
  BY <1>7, <1>8, <1>9

(* What Place makes of the block.                                          *)
LEMMA PlaceKeeps ==
  ASSUME CacheInv, pc = "union", Touched(dataMap[Key]) = {}, Used(dataMap[Key]) # Slots
  PROVE  /\ Place(dataMap[Key]) \in Blocks
         /\ Separated(Key, Place(dataMap[Key])) /\ Written(Place(dataMap[Key]))
         /\ Claimed(Place(dataMap[Key])) = Claimed(dataMap[Key]) \cup Span(newRange)
<1>. DEFINE b == dataMap[Key]
            p == First(Slots \ Used(b))
            c == Place(b)
<1>1. p \in Slots /\ p \notin Used(b)
  <2>1. Slots \ Used(b) # {} /\ Slots \ Used(b) \subseteq Slots
    BY InUnion
  <2>. QED
    BY <2>1, FirstSlot
<1>2. b \in Blocks /\ newRange \in Ranges /\ Span(WriteRange) \subseteq Bytes /\ Written(b)
  BY InUnion
<1>3. /\ c \in Blocks
      /\ c.ranges = [b.ranges EXCEPT ![p] = newRange]
      /\ c.lastPos = b.lastPos
      /\ c.data = b.data \cup Span(WriteRange)
  <2>. HIDE DEF p
  <2>. QED
    BY <1>1, <1>2 DEF Place, Memcpy, Blocks, p
<1>. HIDE DEF p, c
<1>4. /\ Separated(Key, c)
      /\ Claimed(c) \subseteq Claimed(b) \cup Span(newRange)
      /\ Claimed(b) \cup Span(newRange) \subseteq Claimed(c)
  BY <1>1, <1>3, SlotTakesRange
<1>5. b.lastPos = -1 => Span(newRange) \subseteq b.data \cup Span(WriteRange)
  BY DEF CacheInv, UnionInBlock
<1>6. Written(c)
  BY <1>2, <1>3, <1>4, <1>5 DEF Written
<1>. QED
  BY <1>3, <1>4, <1>6 DEF c

LEMMA PlaceInv == CacheInv /\ UnionPlace => CacheInv'
<1>. SUFFICES ASSUME CacheInv, UnionPlace PROVE CacheInv'
  OBVIOUS
<1>1. pc = "union" /\ Touched(dataMap[Key]) = {} /\ Used(dataMap[Key]) # Slots
      /\ NextBlock /\ UNCHANGED <<lruList, arg, newRange, readlen>>
      /\ dataMap' = [dataMap EXCEPT ![Key] = Place(dataMap[Key])]
  BY DEF UnionPlace
<1>2. /\ Place(dataMap[Key]) \in Blocks
      /\ Separated(Key, Place(dataMap[Key])) /\ Written(Place(dataMap[Key]))
  BY <1>1, PlaceKeeps
<1>. QED
  BY <1>1, <1>2, UnionDone

LEMMA OverflowInv == CacheInv /\ UnionOverflow => CacheInv'
<1>. SUFFICES ASSUME CacheInv, UnionOverflow PROVE CacheInv'
  OBVIOUS
<1>. DEFINE b   == dataMap[Key]
            pos == (b.lastPos + 1) % BLOCK_SEG_NUM
            c   == [b EXCEPT !.lastPos = pos, !.ranges[pos] = newRange]
<1>1. /\ pc = "union" /\ Touched(b) = {}
      /\ dataMap' = [dataMap EXCEPT ![Key].lastPos = pos, ![Key].ranges[pos] = newRange]
      /\ pc' = "return"
      /\ UNCHANGED <<lruList, arg, blockStart, newRange, readlen>>
  BY DEF UnionOverflow
<1>2. Key \in DOMAIN dataMap /\ b \in Blocks /\ newRange \in Ranges
  BY <1>1, InUnion
<1>3. pos \in Slots
  BY <1>2, NextSlot DEF Blocks
<1>. HIDE DEF pos
<1>4. dataMap' = [dataMap EXCEPT ![Key] = c]
  BY <1>1, <1>2
<1>5. /\ c \in Blocks
      /\ c.ranges = [b.ranges EXCEPT ![pos] = newRange]
      /\ c.lastPos = pos
  BY <1>2, <1>3 DEF Blocks
<1>. HIDE DEF c
<1>6. Separated(Key, c)
  BY <1>1, <1>3, <1>5, SlotTakesRange
<1>7. Written(c)
  BY <1>3, <1>5, CacheAssumption DEF Written, Slots
<1>8. /\ DOMAIN dataMap' = DOMAIN dataMap
      /\ \A k \in DOMAIN dataMap' : dataMap'[k] \in Blocks
      /\ LruAgrees' /\ RangesSeparated' /\ GarbageOnlyAfterOverflow'
  BY <1>1, <1>2, <1>4, <1>5, <1>6, <1>7, OneBlock
<1>9. TypeOK'
  BY <1>1, <1>8 DEF CacheInv, TypeOK
<1>10. CallInRange' /\ UnionInBlock'
  BY <1>1 DEF CallInRange, UnionInBlock
<1>. QED
  BY <1>8, <1>9, <1>10 DEF CacheInv

-----------------------------------------------------------------------------
(* updateLRU and the read of a block.                                      *)

LEMMA MoveToEndPermutes ==
  ASSUME NEW T, NEW s \in Seq(T), NEW n \in 1 .. Len(s),
         \A i, j \in 1 .. Len(s) : s[i] = s[j] => i = j
  PROVE  /\ MoveToEnd(s, n) \in Seq(T)
         /\ Len(MoveToEnd(s, n)) = Len(s)
         /\ {MoveToEnd(s, n)[i] : i \in 1 .. Len(s)} = {s[i] : i \in 1 .. Len(s)}
         /\ \A i, j \in 1 .. Len(s) : MoveToEnd(s, n)[i] = MoveToEnd(s, n)[j] => i = j
<1>. DEFINE m == MoveToEnd(s, n)
            From(j) == IF j < n THEN j ELSE IF j < Len(s) THEN j + 1 ELSE n
            To(j)   == IF j < n THEN j ELSE IF j = n THEN Len(s) ELSE j - 1
<1>1. Len(s) \in Nat /\ n \in Nat
  OBVIOUS
<1>2. \A j \in 1 .. Len(s) : From(j) \in 1 .. Len(s) /\ To(j) \in 1 .. Len(s)
                             /\ From(To(j)) = j
  BY <1>1
<1>3. \A i, j \in 1 .. Len(s) : From(i) = From(j) => i = j
  BY <1>1
<1>4. m = [j \in 1 .. Len(s) |-> s[From(j)]]
  BY DEF MoveToEnd
<1>5. \A j \in 1 .. Len(s) : m[j] = s[From(j)]
  BY <1>4
<1>6. \A j \in 1 .. Len(s) : s[From(j)] \in T
  BY <1>2
<1>. HIDE DEF From, To
<1>7. m \in Seq(T) /\ Len(m) = Len(s)
  BY <1>1, <1>4, <1>6
<1>. HIDE DEF m
<1>8. {m[i] : i \in 1 .. Len(s)} = {s[i] : i \in 1 .. Len(s)}
  <2>1. ASSUME NEW i \in 1 .. Len(s)
        PROVE  m[i] \in {s[j] : j \in 1 .. Len(s)}
    <3>1. From(i) \in 1 .. Len(s) /\ m[i] = s[From(i)]
      BY <1>2, <1>5
    <3>. QED
      BY <3>1
  <2>2. ASSUME NEW i \in 1 .. Len(s)
        PROVE  s[i] \in {m[j] : j \in 1 .. Len(s)}
    <3>1. To(i) \in 1 .. Len(s) /\ From(To(i)) = i
      BY <1>2
    <3>2. m[To(i)] = s[i]
      BY <1>5, <3>1
    <3>. QED
      BY <3>1, <3>2
  <2>. DEFINE new == {m[i] : i \in 1 .. Len(s)}
              old == {s[i] : i \in 1 .. Len(s)}
  <2>3. new \subseteq old
    BY <2>1
  <2>4. old \subseteq new
    BY <2>2
  <2>. HIDE DEF new, old
  <2>5. new = old
    BY <2>3, <2>4
  <2>. QED
    BY <2>5 DEF new, old
<1>9. ASSUME NEW i \in 1 .. Len(s), NEW j \in 1 .. Len(s), m[i] = m[j]
      PROVE  i = j
  <2>1. From(i) \in 1 .. Len(s) /\ From(j) \in 1 .. Len(s)
    BY <1>2
  <2>2. s[From(i)] = s[From(j)]
    BY <1>5, <1>9
  <2>3. From(i) = From(j)
    BY <2>1, <2>2
  <2>. QED
    BY <1>3, <2>3
<1>. QED
  BY <1>7, <1>8, <1>9 DEF m

(* The range the read of a block copies from.                              *)
LEMMA InRead ==
  ASSUME CacheInv, pc = "read", blockStart < arg.end, Key \in DOMAIN dataMap,
         Covering(dataMap[Key]) # {}
  PROVE  LET r == dataMap[Key].ranges[First(Covering(dataMap[Key]))]
         IN /\ First(Covering(dataMap[Key])) \in Used(dataMap[Key])
            /\ r.start \in Nat /\ r.end \in Nat
            /\ r.start <= ReadStart /\ ReadStart < r.end
            /\ r.end <= blockStart + BLOCK_LEN
            /\ ReadStart \in Nat /\ arg.start <= ReadStart /\ ReadStart < arg.end
            /\ arg.start + readlen = ReadStart
            /\ arg \in Args /\ arg.start \in Nat /\ arg.end \in Nat /\ arg.end <= MaxByte
            /\ blockStart \in Nat /\ BLOCK_LEN \in Nat
<1>. DEFINE b == dataMap[Key]
            i == First(Covering(b))
            r == b.ranges[i]
<1>1. /\ b \in Blocks /\ arg \in Args /\ arg.start < arg.end /\ blockStart \in Nat
      /\ arg.start \in Nat /\ arg.end \in Nat /\ arg.end <= MaxByte /\ BLOCK_LEN \in Nat
      /\ readlen \in Nat
  BY CacheAssumption DEF CacheInv, TypeOK, Args, Bytes
<1>2. Separated(Key, b) /\ Key[2] = blockStart
  BY DEF CacheInv, RangesSeparated, Separated, Key
<1>3. i \in Covering(b)
  <2>1. Covering(b) \subseteq Slots
    BY DEF Covering, Used
  <2>. QED
    BY <2>1, FirstSlot
<1>. HIDE DEF i
<1>4. i \in Used(b) /\ r.start <= ReadStart /\ r.end > ReadStart /\ i \in Slots
  BY <1>3 DEF Covering, Used
<1>5. r.start \in Nat /\ r.end \in Nat
  BY <1>1, <1>4 DEF Blocks, Ranges, Bytes
<1>6. r.end <= blockStart + BLOCK_LEN
  BY <1>2, <1>4 DEF Separated
<1>7. /\ ReadStart \in Nat /\ arg.start <= ReadStart /\ ReadStart < arg.end
      /\ arg.start + readlen = ReadStart
  BY <1>1 DEF ReadStart, Higher, Lower, CacheInv, CallInRange
<1>. QED
  BY <1>1, <1>4, <1>5, <1>6, <1>7 DEF i

LEMMA ReadBlockInv == CacheInv /\ ReadBlock => CacheInv'
<1>. SUFFICES ASSUME CacheInv, ReadBlock PROVE CacheInv'
  OBVIOUS
<1>. DEFINE r       == dataMap[Key].ranges[First(Covering(dataMap[Key]))]
            readEnd == Lower(r.end, arg.end)
<1>1. /\ pc = "read" /\ blockStart < arg.end /\ Key \in DOMAIN dataMap
      /\ Covering(dataMap[Key]) # {}
      /\ readlen' = readlen + (readEnd - ReadStart)
      /\ UNCHANGED <<dataMap, arg, newRange>>
  BY DEF ReadBlock
<1>2. PICK n \in 1 .. Len(lruList) : lruList[n] = Key /\ lruList' = MoveToEnd(lruList, n)
  BY DEF ReadBlock
<1>3. /\ r.start \in Nat /\ r.end \in Nat
      /\ r.start <= ReadStart /\ ReadStart < r.end
      /\ r.end <= blockStart + BLOCK_LEN
      /\ ReadStart \in Nat /\ arg.start <= ReadStart /\ ReadStart < arg.end
      /\ arg.start + readlen = ReadStart
      /\ arg \in Args /\ arg.start \in Nat /\ arg.end \in Nat /\ arg.end <= MaxByte
      /\ blockStart \in Nat /\ BLOCK_LEN \in Nat
  BY <1>1, InRead
<1>4. lruList \in Seq(Keys) /\ \A i, j \in 1 .. Len(lruList) : lruList[i] = lruList[j] => i = j
  BY DEF CacheInv, TypeOK, LruAgrees
<1>5. /\ lruList' \in Seq(Keys)
      /\ Len(lruList') = Len(lruList)
      /\ {lruList'[i] : i \in 1 .. Len(lruList)} = {lruList[i] : i \in 1 .. Len(lruList)}
      /\ \A i, j \in 1 .. Len(lruList) : lruList'[i] = lruList'[j] => i = j
  <2>1. /\ MoveToEnd(lruList, n) \in Seq(Keys)
        /\ Len(MoveToEnd(lruList, n)) = Len(lruList)
        /\ {MoveToEnd(lruList, n)[i] : i \in 1 .. Len(lruList)} = {lruList[i] : i \in 1 .. Len(lruList)}
        /\ \A i, j \in 1 .. Len(lruList) :
             MoveToEnd(lruList, n)[i] = MoveToEnd(lruList, n)[j] => i = j
    BY <1>4, MoveToEndPermutes
  <2>. QED
    BY <1>2, <2>1
<1>6. LruAgrees'
  BY <1>1, <1>5 DEF CacheInv, LruAgrees
<1>7. RangesSeparated'
  BY <1>1 DEF CacheInv, RangesSeparated, Used, Apart
<1>8. GarbageOnlyAfterOverflow'
  BY <1>1 DEF CacheInv, GarbageOnlyAfterOverflow, Claimed, Used, Span
<1>. HIDE DEF r
<1>9. /\ arg.start + readlen' = readEnd
      /\ ReadStart < readEnd /\ readEnd <= arg.end /\ readEnd <= blockStart + BLOCK_LEN
      /\ readEnd \in Nat
  <2>1. readlen \in Nat
    BY CacheAssumption DEF CacheInv, TypeOK
  <2>2. /\ ReadStart < readEnd /\ readEnd <= arg.end /\ readEnd <= blockStart + BLOCK_LEN
        /\ readEnd \in Nat
    BY <1>3 DEF Lower
  <2>3. readlen' = readlen + (readEnd - ReadStart)
    BY <1>1
  <2>. HIDE DEF readEnd
  <2>4. arg.start + readlen' = readEnd
    BY <1>3, <2>1, <2>2, <2>3, SMTT(60)
  <2>. QED
    BY <2>2, <2>4
<1>. HIDE DEF readEnd
<1>10. readlen' \in 0 .. MaxByte /\ readlen' = readEnd - arg.start
  <2>1. readlen \in Nat /\ MaxByte \in Nat
    BY CacheAssumption DEF CacheInv, TypeOK
  <2>2. readlen' \in Int
    BY <1>1, <1>3, <1>9, <2>1
  <2>3. readlen' = readEnd - arg.start
    BY <1>3, <1>9, <2>2
  <2>4. arg.start \in Nat /\ readEnd \in Nat /\ arg.start < readEnd /\ readEnd <= MaxByte
    BY <1>3, <1>9, <2>1, SMTT(60)
  <2>5. readEnd - arg.start \in 0 .. MaxByte
    BY <2>1, <2>4
  <2>. QED
    BY <2>3, <2>5
<1>11. \/ StopsShort(readEnd) /\ pc' = "return" /\ blockStart' = blockStart
       \/ ~ StopsShort(readEnd) /\ pc' = "read" /\ blockStart' = blockStart + BLOCK_LEN
  BY DEF ReadBlock, readEnd, r
<1>12. TypeOK'
  BY <1>1, <1>3, <1>5, <1>10, <1>11, SMTT(60) DEF CacheInv, TypeOK
<1>13. CallInRange'
  <2>1. CASE StopsShort(readEnd)
    BY <1>11, <2>1 DEF CallInRange
  <2>2. CASE ~ StopsShort(readEnd)
    <3>1. arg.start < blockStart + BLOCK_LEN /\ arg' = arg /\ readEnd = Lower(blockStart + BLOCK_LEN, arg.end)
      BY <1>1, <1>3, <1>9, <2>2, SMTT(60) DEF StopsShort, Lower
    <3>2. BLOCK_LEN > 0
      BY CacheAssumption
    <3>. QED
      BY <1>3, <1>10, <1>11, <2>2, <3>1, <3>2 DEF CallInRange
  <2>. QED
    BY <2>1, <2>2
<1>14. UnionInBlock'
  BY <1>11 DEF UnionInBlock
<1>. QED
  BY <1>6, <1>7, <1>8, <1>12, <1>13, <1>14 DEF CacheInv

-----------------------------------------------------------------------------
(* The theorems.                                                           *)

LEMMA StutterInv == CacheInv /\ UNCHANGED vars => CacheInv'
<1>. SUFFICES ASSUME CacheInv, UNCHANGED vars PROVE CacheInv'
  OBVIOUS
<1>. USE DEF CacheInv, vars
<1>1. LruAgrees' /\ RangesSeparated' /\ GarbageOnlyAfterOverflow'
  BY SameMap
<1>2. TypeOK'
  BY DEF TypeOK
<1>3. Key' = Key /\ WriteRange' = WriteRange /\ Span(newRange)' = Span(newRange)
      /\ Span(WriteRange)' = Span(WriteRange)
  BY DEF Key, WriteRange, Span
<1>4. CallInRange' /\ UnionInBlock'
  BY <1>3 DEF CallInRange, UnionInBlock
<1>. QED
  BY <1>1, <1>2, <1>4

(* Every step of Cache::insert and Cache::read keeps the invariant.        *)
THEOREM CacheInvariant == Spec => []CacheInv
<1>1. Init => CacheInv
  BY InitInv
<1>2. CacheInv /\ [Next]_vars => CacheInv'
  <2>. SUFFICES ASSUME CacheInv, [Next]_vars PROVE CacheInv'
    OBVIOUS
  <2>1. ASSUME NEW name \in Names, NEW start \in Bytes, NEW end \in Bytes, start < end,
               Insert(name, start, end) \/ Read(name, start, end)
        PROVE  CacheInv'
    BY <2>1, CallInv
  <2>2. CASE InsertNewBlock
    BY <2>2, NewBlockInv
  <2>3. CASE InsertOldBlock
    BY <2>3, OldBlockInv
  <2>4. CASE UnionAbsorb
    BY <2>4, AbsorbInv
  <2>5. CASE UnionSubset
    BY <2>5, SubsetInv
  <2>6. CASE UnionPlace
    BY <2>6, PlaceInv
  <2>7. CASE UnionOverflow
    BY <2>7, OverflowInv
  <2>8. CASE InsertEnd
    BY <2>8, InsertEndInv
  <2>9. CASE ReadBlock
    BY <2>9, ReadBlockInv
  <2>10. CASE ReadEnd
    BY <2>10, ReadEndInv
  <2>11. CASE Return
    BY <2>11, ReturnInv
  <2>12. CASE UNCHANGED vars
    BY <2>12, StutterInv
  <2>. QED
    BY <2>1, <2>2, <2>3, <2>4, <2>5, <2>6, <2>7, <2>8, <2>9, <2>10, <2>11, <2>12 DEF Next
<1>. QED
  BY <1>1, <1>2, PTL DEF Spec

(* The variables of the cache keep their types: offsets, slots and lengths *)
(* stay in range in insert and read (cache.cpp:57-179).                    *)
THEOREM CacheTypeCorrect == Spec => []TypeOK
  BY CacheInvariant, PTL DEF CacheInv

(* Map and LRU list always hold the same keys, each once, within the       *)
(* capacity (addBlock, dropBlock, updateLRU, cache.cpp:26-55).             *)
THEOREM LruAlwaysAgrees == Spec => []LruAgrees
  BY CacheInvariant, PTL DEF CacheInv

(* The ranges of every block are disjoint, not adjacent, and lie within    *)
(* the block, however inserts overlap (cache.cpp:76-120).                  *)
THEOREM RangesAlwaysSeparated == Spec => []RangesSeparated
  BY CacheInvariant, PTL DEF CacheInv

(* Until its range table overflows, a block claims only bytes that were    *)
(* copied into it (cache.cpp:76-124).                                      *)
THEOREM ClaimsAreWritten == Spec => []GarbageOnlyAfterOverflow
  BY CacheInvariant, PTL DEF CacheInv

(* No step but an overflow and the drop of a block takes a claimed byte    *)
(* away (cache.cpp:76-112).                                                *)
THEOREM ClaimsAreKept == Spec => ClaimsOnlyGrow
<1>. DEFINE Grow == pc # "union" \/ pc' # "return" =>
                      \A k \in DOMAIN dataMap \cap DOMAIN dataMap' : Held(k) \subseteq Held(k)'
<1>1. CacheInv /\ [Next]_vars => [Grow]_vars
  <2>. SUFFICES ASSUME CacheInv, Next, pc # "union" \/ pc' # "return",
                       NEW k \in DOMAIN dataMap \cap DOMAIN dataMap'
                PROVE  Held(k) \subseteq Held(k)'
    OBVIOUS
  <2>1. ASSUME pc # "union", dataMap'[k] = dataMap[k]
        PROVE  Held(k) \subseteq Held(k)'
    BY <2>1 DEF Held, Claimed, Used, Span
  <2>2. CASE UNCHANGED dataMap /\ pc # "union"
    BY <2>1, <2>2
  <2>3. CASE InsertNewBlock
    <3>1. pc # "union" /\ k # Key
      BY <2>3 DEF InsertNewBlock
    <3>2. dataMap' = Put(Kept, Key, Fresh) /\ k \in DOMAIN Kept
      BY <2>3, <3>1 DEF InsertNewBlock, AddBlock, Kept, Fresh, Put
    <3>3. dataMap'[k] = dataMap[k]
      BY <3>1, <3>2, KeptAgrees DEF Put, CacheInv
    <3>. QED
      BY <2>1, <3>1, <3>3
  <2>. DEFINE b == dataMap[Key]
  <2>4. ASSUME pc = "union", NEW c, dataMap' = [dataMap EXCEPT ![Key] = c], pc' = "insert",
               Claimed(b) \cup Span(newRange) \subseteq Claimed(c)
        PROVE  Held(k) \subseteq Held(k)'
    <3>1. Held(k)' = Claimed(dataMap'[k])
      BY <2>4 DEF Held, Claimed, Used, Span
    <3>. QED
      BY <2>4, <3>1 DEF Held
  <2>5. CASE UnionAbsorb
    <3>. DEFINE i == First(Touched(b))
                r == b.ranges[i]
    <3>1. pc = "union" /\ Touched(b) # {} /\ HasUnion(newRange, r) /\ newRange' = Hull(newRange, r)
          /\ dataMap' = [dataMap EXCEPT ![Key] = Release(b, i)]
          /\ UNCHANGED <<pc, arg, blockStart>>
      BY <2>5 DEF UnionAbsorb
    <3>2. i \in Slots /\ r \in Ranges
      <4>1. Touched(b) \subseteq Slots /\ \A j \in Slots : b.ranges[j] \in Ranges
        BY <3>1, InUnion
      <4>. QED
        BY <3>1, <4>1, FirstSlot
    <3>. HIDE DEF i
    <3>3. Claimed(b) \subseteq Claimed(Release(b, i)) \cup Span(r)
      BY <3>1, <3>2, InUnion, ReleaseKeeps
    <3>4. Span(Hull(newRange, r)) = Span(newRange) \cup Span(r)
      BY <3>1, <3>2, InUnion, HullIsUnion
    <3>5. Key' = Key /\ pc' = "union" /\ Span(newRange)' = Span(Hull(newRange, r))
      BY <3>1 DEF Key, Span
    <3>6. Held(k)' = Claimed(dataMap'[k]) \cup IF Key = k THEN Span(newRange)' ELSE {}
      BY <3>5 DEF Held, Claimed, Used, Span
    <3>7. CASE k = Key
      <4>1. dataMap'[k] = Release(b, i)
        BY <3>1, <3>7
      <4>. QED
        BY <3>1, <3>3, <3>4, <3>5, <3>6, <3>7, <4>1 DEF Held
    <3>8. CASE k # Key
      BY <3>1, <3>6, <3>8 DEF Held
    <3>. QED
      BY <3>7, <3>8
  <2>6. CASE UnionSubset
    <3>. DEFINE i == First(Touched(b))
    <3>1. pc = "union" /\ pc' = "insert" /\ Touched(b) # {} /\ ~ HasUnion(newRange, b.ranges[i])
          /\ dataMap' = [dataMap EXCEPT ![Key] = Memcpy(b)]
      BY <2>6 DEF UnionSubset, NextBlock
    <3>2. i \in Touched(b) /\ i \in Slots /\ b \in Blocks /\ b.ranges[i] \in Ranges /\ newRange \in Ranges
      <4>1. Touched(b) \subseteq Slots /\ b \in Blocks /\ newRange \in Ranges
            /\ \A j \in Slots : b.ranges[j] \in Ranges
        BY <3>1, InUnion
      <4>. QED
        BY <3>1, <4>1, FirstSlot
    <3>. HIDE DEF i
    <3>3. i \in Used(b) /\ IsSubset(newRange, b.ranges[i])
      BY <3>1, <3>2 DEF Touched
    <3>4. Span(newRange) \subseteq Span(b.ranges[i])
      BY <3>2, <3>3, CacheAssumption DEF IsSubset, Span, Ranges, Bytes
    <3>5. Span(newRange) \subseteq Claimed(b)
      BY <3>3, <3>4 DEF Claimed
    <3>6. Claimed(Memcpy(b)) = Claimed(b)
      BY <3>2 DEF Memcpy, Claimed, Used, Blocks
    <3>. QED
      BY <2>4, <3>1, <3>5, <3>6
  <2>7. CASE UnionPlace
    <3>1. pc = "union" /\ Touched(b) = {} /\ Used(b) # Slots /\ pc' = "insert"
          /\ dataMap' = [dataMap EXCEPT ![Key] = Place(b)]
      BY <2>7 DEF UnionPlace, NextBlock
    <3>2. Claimed(b) \cup Span(newRange) \subseteq Claimed(Place(b))
      BY <3>1, PlaceKeeps
    <3>. QED
      BY <2>4, <3>1, <3>2
  <2>8. CASE UnionOverflow
    BY <2>8 DEF UnionOverflow
  <2>. QED
    BY <2>2, <2>3, <2>5, <2>6, <2>7, <2>8
    DEF Next, Insert, Read, InsertOldBlock, InsertEnd, ReadBlock, ReadEnd, Return
<1>. QED
  BY <1>1, CacheInvariant, PTL DEF Spec, ClaimsOnlyGrow

-----------------------------------------------------------------------------
(* read returns the longest prefix.                                        *)

(* The loop variable of a call is the first byte of a block.               *)
Aligned == \E q \in Nat : blockStart = q * BLOCK_LEN

(* While a read runs, all that it copied is claimed.                       *)
PrefixClaimed ==
  pc = "read" => \A x \in arg.start .. arg.start + readlen - 1 : Has(arg.name, x)

OpOfCall ==
  /\ pc \in {"insert", "union"} => arg.op = "insert"
  /\ pc = "read" => arg.op = "read"

ReadInv == Aligned /\ PrefixClaimed /\ OpOfCall /\ ReadIsLongestPrefix

LEMMA BlockOfMultiple ==
  ASSUME NEW q \in Nat, NEW x \in Nat, q * BLOCK_LEN <= x, x < q * BLOCK_LEN + BLOCK_LEN
  PROVE  BlockOf(x) = q * BLOCK_LEN
<1>. DEFINE p == x \div BLOCK_LEN
<1>1. BLOCK_LEN \in Nat /\ BLOCK_LEN > 0
  BY CacheAssumption
<1>2. p \in Nat /\ p * BLOCK_LEN \in Nat /\ q * BLOCK_LEN \in Nat
      /\ p * BLOCK_LEN <= x /\ x < p * BLOCK_LEN + BLOCK_LEN
  BY <1>1, BlockOfBounds DEF BlockOf
<1>3. /\ (p + 1) * BLOCK_LEN = p * BLOCK_LEN + BLOCK_LEN
      /\ (q + 1) * BLOCK_LEN = q * BLOCK_LEN + BLOCK_LEN
  BY <1>1, <1>2
<1>. HIDE DEF p
<1>4. ~ (p < q)
  <2>. SUFFICES ASSUME p < q PROVE FALSE
    OBVIOUS
  <2>1. (p + 1) * BLOCK_LEN <= q * BLOCK_LEN
    BY <1>1, <1>2
  <2>. QED
    BY <1>1, <1>2, <1>3, <2>1
<1>5. ~ (q < p)
  <2>. SUFFICES ASSUME q < p PROVE FALSE
    OBVIOUS
  <2>1. (q + 1) * BLOCK_LEN <= p * BLOCK_LEN
    BY <1>1, <1>2
  <2>. QED
    BY <1>1, <1>2, <1>3, <2>1
<1>6. p = q
  BY <1>2, <1>4, <1>5
<1>. QED
  BY <1>6 DEF BlockOf, p

LEMMA BlockOfInBlock ==
  ASSUME Aligned, NEW x \in Nat, blockStart <= x, x < blockStart + BLOCK_LEN
  PROVE  BlockOf(x) = blockStart
BY BlockOfMultiple DEF Aligned

LEMMA AlignedKept ==
  /\ \A b \in Nat : blockStart' = BlockOf(b) => Aligned'
  /\ Aligned /\ blockStart' = blockStart + BLOCK_LEN => Aligned'
  /\ Aligned /\ blockStart' = blockStart => Aligned'
  /\ blockStart' = 0 => Aligned'
<1>1. BLOCK_LEN \in Nat /\ BLOCK_LEN > 0
  BY CacheAssumption
<1>2. ASSUME NEW b \in Nat, blockStart' = BlockOf(b) PROVE Aligned'
  <2>1. b \div BLOCK_LEN \in Nat
    BY <1>1
  <2>. QED
    BY <1>2, <2>1 DEF BlockOf, Aligned
<1>3. ASSUME Aligned, blockStart' = blockStart + BLOCK_LEN PROVE Aligned'
  <2>1. PICK q \in Nat : blockStart = q * BLOCK_LEN
    BY <1>3 DEF Aligned
  <2>2. blockStart' = (q + 1) * BLOCK_LEN /\ q + 1 \in Nat
    BY <1>1, <1>3, <2>1
  <2>. QED
    BY <2>2 DEF Aligned
<1>4. ASSUME blockStart' = 0 PROVE Aligned'
  <2>1. 0 * BLOCK_LEN = 0
    BY <1>1
  <2>. QED
    BY <1>4, <2>1 DEF Aligned
<1>. QED
  BY <1>2, <1>3, <1>4 DEF Aligned

(* A byte of the current block is there if some slot in use holds it.      *)
LEMMA HasInBlock ==
  ASSUME Aligned, NEW x \in Nat, blockStart <= x, x < blockStart + BLOCK_LEN
  PROVE  Has(arg.name, x) <=>
           Key \in DOMAIN dataMap /\ \E i \in Used(dataMap[Key]) : x \in Span(dataMap[Key].ranges[i])
  BY BlockOfInBlock DEF Has, Key, Claimed

LEMMA ReadBlockPrefix == CacheInv /\ ReadInv /\ ReadBlock => ReadInv'
<1>. SUFFICES ASSUME CacheInv, ReadInv, ReadBlock PROVE ReadInv'
  OBVIOUS
<1>. DEFINE b       == dataMap[Key]
            i       == First(Covering(b))
            r       == b.ranges[i]
            readEnd == Lower(r.end, arg.end)
<1>1. /\ pc = "read" /\ blockStart < arg.end /\ Key \in DOMAIN dataMap
      /\ Covering(b) # {}
      /\ readlen' = readlen + (readEnd - ReadStart)
      /\ UNCHANGED <<dataMap, arg>>
      /\ \/ StopsShort(readEnd) /\ pc' = "return" /\ blockStart' = blockStart
         \/ ~ StopsShort(readEnd) /\ pc' = "read" /\ blockStart' = blockStart + BLOCK_LEN
  BY DEF ReadBlock
<1>2. /\ i \in Used(b)
      /\ r.start \in Nat /\ r.end \in Nat
      /\ r.start <= ReadStart /\ ReadStart < r.end
      /\ r.end <= blockStart + BLOCK_LEN
      /\ ReadStart \in Nat /\ arg.start <= ReadStart /\ ReadStart < arg.end
      /\ arg.start + readlen = ReadStart
      /\ arg.start \in Nat /\ arg.end \in Nat
      /\ blockStart \in Nat /\ BLOCK_LEN \in Nat
  BY <1>1, InRead
<1>3. readlen \in Nat /\ blockStart <= ReadStart
  BY <1>2, CacheAssumption DEF CacheInv, TypeOK, ReadStart, Higher
<1>4. /\ ReadStart < readEnd /\ readEnd <= arg.end /\ readEnd <= r.end /\ readEnd \in Nat
      /\ readEnd < arg.end => readEnd = r.end
  BY <1>2 DEF Lower
<1>5. Separated(Key, b)
  BY <1>1 DEF CacheInv, RangesSeparated, Separated
<1>6. \A j \in Used(b) : b.ranges[j].start \in Nat /\ b.ranges[j].end \in Nat
  BY <1>1, CacheAssumption DEF CacheInv, TypeOK, Blocks, Ranges, Bytes, Used
<1>. HIDE DEF i, readEnd
<1>7. arg.start + readlen' = readEnd /\ readlen' \in Nat
  BY <1>1, <1>2, <1>3, <1>4
<1>8. ASSUME NEW x \in arg.start .. readEnd - 1
      PROVE  Has(arg.name, x)
  <2>1. x \in Nat
    BY <1>2, <1>4
  <2>2. CASE x < ReadStart
    <3>1. x \in arg.start .. arg.start + readlen - 1
      BY <1>2, <1>3, <1>4, <2>1, <2>2
    <3>. QED
      BY <1>1, <3>1 DEF ReadInv, PrefixClaimed
  <2>3. CASE x >= ReadStart
    <3>1. blockStart <= x /\ x < blockStart + BLOCK_LEN /\ x \in Span(r)
      BY <1>2, <1>3, <1>4, <2>1, <2>3 DEF Span
    <3>. QED
      BY <1>1, <1>2, <2>1, <3>1, HasInBlock DEF ReadInv
  <2>. QED
    BY <1>2, <2>1, <2>2, <2>3
<1>9. ASSUME StopsShort(readEnd)
      PROVE  readEnd < arg.end /\ ~ Has(arg.name, readEnd)
  <2>1. readEnd < arg.end /\ readEnd < blockStart + BLOCK_LEN /\ blockStart <= readEnd /\ readEnd = r.end
    BY <1>2, <1>3, <1>4, <1>9 DEF StopsShort
  <2>2. ASSUME NEW j \in Used(b), readEnd \in Span(b.ranges[j])
        PROVE  FALSE
    <3>1. b.ranges[j].start <= readEnd /\ readEnd < b.ranges[j].end
      BY <1>6, <2>2, <1>4 DEF Span
    <3>2. j # i
      BY <1>2, <1>4, <2>1, <3>1
    <3>3. Apart(r, b.ranges[j])
      BY <1>2, <1>5, <3>2 DEF Separated
    <3>. QED
      BY <1>2, <1>4, <1>6, <2>1, <3>1, <3>3 DEF Apart
  <2>. QED
    BY <1>4, <2>1, <2>2, HasInBlock DEF ReadInv
<1>10. Aligned'
  BY <1>1, AlignedKept DEF ReadInv
<1>11. PrefixClaimed'
  <2>1. arg'.start + readlen' - 1 = readEnd - 1 /\ arg' = arg
    BY <1>1, <1>2, <1>7
  <2>. QED
    BY <1>1, <1>8, <2>1 DEF PrefixClaimed, Has, Claimed, Used, Span, BlockOf
<1>12. OpOfCall'
  BY <1>1 DEF ReadInv, OpOfCall
<1>13. ReadIsLongestPrefix'
  <2>. SUFFICES ASSUME pc' = "return" PROVE ReadIsLongestPrefix'
    BY DEF ReadIsLongestPrefix
  <2>1. PICK e : e = readEnd
    OBVIOUS
  <2>2. e <= arg.end /\ ~ Has(arg.name, e) /\ \A x \in arg.start .. e - 1 : Has(arg.name, x)
    BY <1>1, <1>4, <1>8, <1>9, <2>1
  <2>3. arg'.start + readlen' = e /\ arg' = arg /\ dataMap' = dataMap
    BY <1>1, <1>2, <1>7, <2>1
  <2>4. ~ Has(arg.name, e)'
    BY <2>2, <2>3, ZenonT(90) DEF Has, Claimed, Used, Span, BlockOf
  <2>5. ~ Has(arg.name, arg.start + readlen)'
    BY <2>3, <2>4 DEF Has
  <2>6. (arg.start + readlen <= arg.end)'
    BY <2>2, <2>3
  <2>7. (\A x \in arg.start .. arg.start + readlen - 1 : Has(arg.name, x))'
    <3>1. arg'.start = arg.start /\ arg'.start + readlen' - 1 = e - 1
      BY <1>2, <1>4, <1>7, <2>1, <2>3
    <3>. QED
      BY <2>2, <2>3, <3>1, ZenonT(40) DEF Has, Claimed, Used, Span, BlockOf
  <2>. QED
    BY <2>5, <2>6, <2>7 DEF ReadIsLongestPrefix
<1>. QED
  BY <1>10, <1>11, <1>12, <1>13 DEF ReadInv

LEMMA ReadEndPrefix == CacheInv /\ ReadInv /\ ReadEnd => ReadInv'
<1>. SUFFICES ASSUME CacheInv, ReadInv, ReadEnd PROVE ReadInv'
  OBVIOUS
<1>1. /\ pc = "read" /\ pc' = "return"
      /\ \/ blockStart >= arg.end
         \/ ~ (Key \in DOMAIN dataMap /\ Covering(dataMap[Key]) # {})
      /\ UNCHANGED <<dataMap, arg, blockStart, readlen>>
  BY DEF ReadEnd
<1>2. /\ arg.start \in Nat /\ arg.end \in Nat /\ arg.start < arg.end
      /\ blockStart \in Nat /\ readlen \in Nat /\ BLOCK_LEN \in Nat
      /\ arg.start < blockStart + BLOCK_LEN
      /\ readlen = IF blockStart <= arg.start THEN 0 ELSE Lower(blockStart, arg.end) - arg.start
  BY <1>1, CacheAssumption DEF CacheInv, TypeOK, Args, Bytes, CallInRange
<1>3. arg.start + readlen <= arg.end
  BY <1>2 DEF Lower
<1>4. ASSUME arg.start + readlen < arg.end
      PROVE  ~ Has(arg.name, arg.start + readlen)
  <2>1. /\ blockStart < arg.end /\ arg.start + readlen = ReadStart
        /\ ReadStart \in Nat /\ blockStart <= ReadStart /\ ReadStart < blockStart + BLOCK_LEN
    BY <1>2, <1>4, CacheAssumption DEF Lower, Higher, ReadStart
  <2>2. ASSUME Key \in DOMAIN dataMap, NEW j \in Used(dataMap[Key]),
               ReadStart \in Span(dataMap[Key].ranges[j])
        PROVE  FALSE
    <3>1. dataMap[Key].ranges[j].start \in Nat /\ dataMap[Key].ranges[j].end \in Nat
      BY <2>2, CacheAssumption DEF CacheInv, TypeOK, Blocks, Ranges, Bytes, Used
    <3>2. j \in Covering(dataMap[Key])
      BY <2>1, <2>2, <3>1 DEF Covering, Span
    <3>. QED
      BY <1>1, <1>2, <2>1, <2>2, <3>2
  <2>. QED
    BY <2>1, <2>2, HasInBlock DEF ReadInv
<1>5. \A x : Has(arg.name, x)' <=> Has(arg.name, x)
  BY <1>1 DEF Has, Claimed, Used, Span, BlockOf
<1>6. Aligned' /\ PrefixClaimed' /\ OpOfCall'
  BY <1>1, AlignedKept DEF ReadInv, PrefixClaimed, OpOfCall
<1>7. ReadIsLongestPrefix'
  <2>1. \A x \in arg.start .. arg.start + readlen - 1 : Has(arg.name, x)
    BY <1>1 DEF ReadInv, PrefixClaimed
  <2>2. arg' = arg /\ readlen' = readlen
    BY <1>1
  <2>. QED
    BY <1>3, <1>4, <1>5, <2>1, <2>2 DEF ReadIsLongestPrefix
<1>. QED
  BY <1>6, <1>7 DEF ReadInv

LEMMA ReadInvInit == Init => ReadInv
<1>. SUFFICES ASSUME Init PROVE ReadInv
  OBVIOUS
<1>1. 0 * BLOCK_LEN = 0
  BY CacheAssumption
<1>. QED
  BY <1>1 DEF Init, ReadInv, Aligned, PrefixClaimed, OpOfCall, ReadIsLongestPrefix

LEMMA ReadInvNext == CacheInv /\ ReadInv /\ [Next]_vars => ReadInv'
<1>. SUFFICES ASSUME CacheInv, ReadInv, [Next]_vars PROVE ReadInv'
  OBVIOUS
<1>1. ASSUME NEW name \in Names, NEW start \in Bytes, NEW end \in Bytes,
             Insert(name, start, end) \/ Read(name, start, end)
      PROVE  ReadInv'
  <2>1. start \in Nat /\ blockStart' = BlockOf(start)
    BY <1>1, CacheAssumption DEF Bytes, Insert, Read
  <2>2. Aligned'
    BY <2>1, AlignedKept
  <2>3. PrefixClaimed'
    BY <1>1, <2>1 DEF Insert, Read, PrefixClaimed, CacheInv, CallInRange
  <2>. QED
    BY <1>1, <2>2, <2>3 DEF Insert, Read, ReadInv, OpOfCall, ReadIsLongestPrefix
<1>2. CASE InsertNewBlock \/ UnionSubset \/ UnionPlace
  BY <1>2, AlignedKept DEF InsertNewBlock, UnionSubset, UnionPlace, NextBlock, ReadInv,
     PrefixClaimed, OpOfCall, ReadIsLongestPrefix
<1>3. CASE InsertOldBlock \/ UnionAbsorb \/ UnionOverflow \/ InsertEnd
  BY <1>3, AlignedKept DEF InsertOldBlock, UnionAbsorb, UnionOverflow, InsertEnd, ReadInv,
     PrefixClaimed, OpOfCall, ReadIsLongestPrefix
<1>4. CASE ReadBlock
  BY <1>4, ReadBlockPrefix
<1>5. CASE ReadEnd
  BY <1>5, ReadEndPrefix
<1>6. CASE Return
  BY <1>6, AlignedKept DEF Return, ReadInv, PrefixClaimed, OpOfCall, ReadIsLongestPrefix
<1>7. CASE UNCHANGED vars
  <2>1. \A name, x : Has(name, x)' <=> Has(name, x)
    BY <1>7 DEF vars, Has, Claimed, Used, Span, BlockOf
  <2>. QED
    BY <1>7, <2>1, AlignedKept DEF vars, ReadInv, PrefixClaimed, OpOfCall, ReadIsLongestPrefix
<1>. QED
  BY <1>1, <1>2, <1>3, <1>4, <1>5, <1>6, <1>7 DEF Next

(* Where a call is in its blocks, and what a read has found so far.        *)
THEOREM ReadInvariant == Spec => []ReadInv
<1>. QED
  BY ReadInvInit, ReadInvNext, CacheInvariant, PTL DEF Spec

(* read returns exactly the longest prefix of the request that the cache   *)
(* claims to hold, whatever the order of the inserts (cache.cpp:131-179).  *)
THEOREM ReadReturnsLongestPrefix == Spec => []ReadIsLongestPrefix
<1>1. ReadInv => ReadIsLongestPrefix
  BY DEF ReadInv
<1>. QED
  BY <1>1, ReadInvariant, PTL

-----------------------------------------------------------------------------
(* insert leaves what it inserts.                                          *)

(* The insert that runs was not cut short by an overflow.                  *)
Inserting ==
  \/ pc \in {"insert", "union"}
  \/ pc = "return" /\ arg.op = "insert" /\ blockStart >= arg.end

(* The bytes before the current block are claimed and written, unless      *)
(* their block was dropped; the last block was not.                        *)
BytesInserted ==
  Inserting =>
    \A x \in Span(arg) : x < blockStart =>
      LET k == <<arg.name, BlockOf(x)>>
      IN IF k \in DOMAIN dataMap
         THEN x \in Claimed(dataMap[k]) \cap dataMap[k].data
         ELSE BlockOf(x) + BLOCK_LEN # blockStart

(* The loop stops with the first block behind the range.                   *)
StopsBehind == Inserting => blockStart < arg.end + BLOCK_LEN

InsertInv == StopsBehind /\ BytesInserted

LEMMA CallNumbers ==
  ASSUME CacheInv, pc # "idle"
  PROVE  /\ arg.start \in Nat /\ arg.end \in Nat /\ arg.start < arg.end
         /\ blockStart \in Nat /\ BLOCK_LEN \in Nat /\ BLOCK_LEN > 0
BY CacheAssumption DEF CacheInv, TypeOK, Args, Bytes

LEMMA SpanOfCall ==
  ASSUME CacheInv, pc # "idle", NEW x \in Span(arg)
  PROVE  x \in Nat /\ arg.start <= x /\ x < arg.end
BY CallNumbers DEF Span

(* A byte before the current block is in another block.                    *)
LEMMA EarlierBlock ==
  ASSUME CacheInv, pc # "idle", NEW x \in Span(arg), x < blockStart
  PROVE  BlockOf(x) # blockStart /\ <<arg.name, BlockOf(x)>> # Key
<1>1. x \in Nat /\ blockStart \in Nat
  BY SpanOfCall, CallNumbers
<1>2. BlockOf(x) \in Nat /\ BlockOf(x) <= x
  BY <1>1, BlockOfBounds
<1>3. BlockOf(x) # blockStart
  BY <1>1, <1>2
<1>. QED
  BY <1>3 DEF Key

(* A step inside a block touches no other one.                             *)
LEMMA InsideBlock ==
  ASSUME CacheInv, BytesInserted, Inserting, UNCHANGED <<arg, blockStart>>,
         DOMAIN dataMap' = DOMAIN dataMap,
         \A k \in DOMAIN dataMap : k # Key => dataMap'[k] = dataMap[k]
  PROVE  BytesInserted'
<1>1. pc # "idle"
  BY DEF Inserting
<1>2. ASSUME NEW x \in Span(arg), x < blockStart
      PROVE  LET k == <<arg.name, BlockOf(x)>>
             IN IF k \in DOMAIN dataMap'
                THEN x \in Claimed(dataMap'[k]) \cap dataMap'[k].data
                ELSE BlockOf(x) + BLOCK_LEN # blockStart
  <2>1. PICK k : k = <<arg.name, BlockOf(x)>>
    OBVIOUS
  <2>2. k # Key
    BY <1>1, <1>2, <2>1, EarlierBlock
  <2>3. k \in DOMAIN dataMap => dataMap'[k] = dataMap[k]
    BY <2>2
  <2>4. IF k \in DOMAIN dataMap THEN x \in Claimed(dataMap[k]) \cap dataMap[k].data
        ELSE BlockOf(x) + BLOCK_LEN # blockStart
    BY <1>2, <2>1 DEF BytesInserted
  <2>. QED
    BY <2>1, <2>3, <2>4
<1>3. arg' = arg /\ blockStart' = blockStart
  OBVIOUS
<1>. QED
  BY <1>2, <1>3 DEF BytesInserted, Span, BlockOf, Claimed, Used

(* A step that completes a block: its bytes are claimed and written, and   *)
(* no other block changes, but some may be dropped.                        *)
LEMMA BlockCompleted ==
  ASSUME CacheInv, ReadInv, InsertInv, pc \in {"insert", "union"}, blockStart < arg.end,
         arg' = arg, NextBlock,
         Key \in DOMAIN dataMap',
         Span(WriteRange) \subseteq Claimed(dataMap'[Key]) \cap dataMap'[Key].data,
         \A k \in DOMAIN dataMap' \ {Key} : k \in DOMAIN dataMap /\ dataMap'[k] = dataMap[k]
  PROVE  InsertInv'
<1>1. /\ arg.start \in Nat /\ arg.end \in Nat /\ arg.start < arg.end
      /\ blockStart \in Nat /\ BLOCK_LEN \in Nat /\ BLOCK_LEN > 0
  BY CallNumbers
<1>2. blockStart' = blockStart + BLOCK_LEN
  BY DEF NextBlock
<1>3. StopsBehind'
  <2>1. blockStart + BLOCK_LEN < arg.end + BLOCK_LEN
    BY <1>1
  <2>. QED
    BY <1>2, <2>1 DEF StopsBehind
<1>4. ASSUME NEW x \in Span(arg), x < blockStart + BLOCK_LEN
      PROVE  LET k == <<arg.name, BlockOf(x)>>
             IN IF k \in DOMAIN dataMap'
                THEN x \in Claimed(dataMap'[k]) \cap dataMap'[k].data
                ELSE BlockOf(x) + BLOCK_LEN # blockStart + BLOCK_LEN
  <2>1. PICK k : k = <<arg.name, BlockOf(x)>>
    OBVIOUS
  <2>2. x \in Nat /\ arg.start <= x /\ x < arg.end /\ BlockOf(x) \in Nat
    BY SpanOfCall, BlockOfBounds
  <2>3. CASE x < blockStart
    <3>1. k # Key /\ BlockOf(x) # blockStart
      BY <2>1, <2>3, EarlierBlock
    <3>2. k \in DOMAIN dataMap' => k \in DOMAIN dataMap /\ dataMap'[k] = dataMap[k]
      BY <3>1
    <3>3. k \in DOMAIN dataMap => x \in Claimed(dataMap[k]) \cap dataMap[k].data
      <4>1. Inserting /\ BytesInserted
        BY DEF InsertInv, Inserting
      <4>. QED
        BY <2>1, <2>3, <4>1 DEF BytesInserted
    <3>4. BlockOf(x) + BLOCK_LEN # blockStart + BLOCK_LEN
      BY <1>1, <2>2, <3>1
    <3>. QED
      BY <2>1, <3>2, <3>3, <3>4
  <2>4. CASE x >= blockStart
    <3>1. BlockOf(x) = blockStart
      BY <1>4, <2>2, <2>4, BlockOfInBlock DEF ReadInv
    <3>2. k = Key
      BY <2>1, <3>1 DEF Key
    <3>3. x \in Span(WriteRange)
      BY <1>1, <1>4, <2>2, <2>4 DEF Span, WriteRange, Higher, Lower
    <3>. QED
      BY <2>1, <3>2, <3>3
  <2>. QED
    BY <1>1, <2>2, <2>3, <2>4
<1>5. BytesInserted'
  BY <1>2, <1>4 DEF BytesInserted, Span, BlockOf, Claimed, Used
<1>. QED
  BY <1>3, <1>5 DEF InsertInv

LEMMA NewBlockInserts == CacheInv /\ ReadInv /\ InsertInv /\ InsertNewBlock => InsertInv'
<1>. SUFFICES ASSUME CacheInv, ReadInv, InsertInv, InsertNewBlock PROVE InsertInv'
  OBVIOUS
<1>1. /\ pc = "insert" /\ blockStart < arg.end /\ arg' = arg /\ NextBlock
      /\ dataMap' = Put(Kept, Key, Fresh)
  BY DEF InsertNewBlock, AddBlock, Kept, Fresh
<1>2. /\ DOMAIN Kept \subseteq DOMAIN dataMap
      /\ \A k \in DOMAIN Kept : Kept[k] = dataMap[k]
  BY KeptAgrees DEF CacheInv
<1>3. DOMAIN dataMap' = DOMAIN Kept \cup {Key} /\ dataMap'[Key] = Fresh
  BY <1>1 DEF Put
<1>4. \A k \in DOMAIN dataMap' \ {Key} : k \in DOMAIN dataMap /\ dataMap'[k] = dataMap[k]
  BY <1>1, <1>2, <1>3 DEF Put
<1>5. Span(WriteRange) \subseteq Claimed(Fresh) \cap Fresh.data
  <2>1. arg \in Args /\ arg.start < arg.end /\ blockStart \in Nat /\ arg.start < blockStart + BLOCK_LEN
    BY <1>1 DEF CacheInv, TypeOK, CallInRange
  <2>2. WriteRange.start < WriteRange.end /\ WriteRange \in Ranges
    BY <1>1, <2>1, WriteRangeInBlock
  <2>3. 0 \in Slots
    BY CacheAssumption DEF Slots
  <2>4. WriteRange # Free
    BY <2>2, CacheAssumption DEF Free, Ranges, Bytes
  <2>5. Fresh.ranges[0] = WriteRange /\ Fresh.data = Span(WriteRange)
    BY <2>3 DEF Fresh
  <2>. QED
    BY <2>3, <2>4, <2>5 DEF Claimed, Used
<1>. QED
  BY <1>1, <1>3, <1>4, <1>5, BlockCompleted

LEMMA SubsetInserts == CacheInv /\ ReadInv /\ InsertInv /\ UnionSubset => InsertInv'
<1>. SUFFICES ASSUME CacheInv, ReadInv, InsertInv, UnionSubset PROVE InsertInv'
  OBVIOUS
<1>. DEFINE b == dataMap[Key]
            i == First(Touched(b))
<1>1. /\ pc = "union" /\ Touched(b) # {} /\ ~ HasUnion(newRange, b.ranges[i])
      /\ dataMap' = [dataMap EXCEPT ![Key] = Memcpy(b)] /\ NextBlock /\ arg' = arg
  BY DEF UnionSubset
<1>2. /\ Key \in DOMAIN dataMap /\ Used(b) \subseteq Slots /\ Touched(b) \subseteq Used(b)
      /\ \A j \in Slots : b.ranges[j] \in Ranges
      /\ blockStart < arg.end /\ WriteRange \in Ranges /\ newRange \in Ranges
      /\ newRange.start <= WriteRange.start /\ WriteRange.end <= newRange.end
      /\ b \in Blocks
  BY <1>1, InUnion
<1>3. i \in Touched(b) /\ i \in Slots
  BY <1>1, <1>2, FirstSlot
<1>4. IsSubset(newRange, b.ranges[i]) /\ i \in Used(b)
  BY <1>1, <1>2, <1>3 DEF Touched
<1>. HIDE DEF i
<1>5. Span(WriteRange) \subseteq Span(b.ranges[i])
  <2>1. b.ranges[i] \in Ranges /\ MaxByte \in Nat
    BY <1>2, <1>3, CacheAssumption
  <2>. QED
    BY <1>2, <1>4, <2>1 DEF IsSubset, Span, Ranges, Bytes
<1>6. Memcpy(b).ranges = b.ranges /\ Span(WriteRange) \subseteq Memcpy(b).data
  BY <1>2 DEF Memcpy, Blocks
<1>7. Span(WriteRange) \subseteq Claimed(Memcpy(b)) \cap Memcpy(b).data
  BY <1>3, <1>4, <1>5, <1>6 DEF Claimed, Used
<1>8. dataMap'[Key] = Memcpy(b) /\ DOMAIN dataMap' = DOMAIN dataMap
      /\ \A k \in DOMAIN dataMap : k # Key => dataMap'[k] = dataMap[k]
  BY <1>1, <1>2
<1>. QED
  BY <1>1, <1>2, <1>7, <1>8, BlockCompleted

LEMMA PlaceInserts == CacheInv /\ ReadInv /\ InsertInv /\ UnionPlace => InsertInv'
<1>. SUFFICES ASSUME CacheInv, ReadInv, InsertInv, UnionPlace PROVE InsertInv'
  OBVIOUS
<1>. DEFINE b == dataMap[Key]
<1>1. /\ pc = "union" /\ Touched(b) = {} /\ Used(b) # Slots
      /\ dataMap' = [dataMap EXCEPT ![Key] = Place(b)] /\ NextBlock /\ arg' = arg
  BY DEF UnionPlace
<1>2. /\ Key \in DOMAIN dataMap /\ blockStart < arg.end
      /\ WriteRange \in Ranges /\ newRange \in Ranges /\ b \in Blocks
      /\ newRange.start <= WriteRange.start /\ WriteRange.end <= newRange.end
  BY <1>1, InUnion
<1>3. Span(WriteRange) \subseteq Span(newRange)
  BY <1>2, CacheAssumption DEF Span, Ranges, Bytes
<1>4. Span(newRange) \subseteq Claimed(Place(b))
  BY <1>1, PlaceKeeps
<1>5. Span(WriteRange) \subseteq Place(b).data
  BY <1>2 DEF Place, Memcpy, Blocks
<1>6. dataMap'[Key] = Place(b) /\ DOMAIN dataMap' = DOMAIN dataMap
      /\ \A k \in DOMAIN dataMap : k # Key => dataMap'[k] = dataMap[k]
  BY <1>1, <1>2
<1>. QED
  BY <1>1, <1>2, <1>3, <1>4, <1>5, <1>6, BlockCompleted

(* The last block of the range is the one before the loop's end.           *)
LEMMA BlockBefore ==
  ASSUME Aligned, NEW x \in Nat, x < blockStart, blockStart <= x + BLOCK_LEN
  PROVE  BlockOf(x) + BLOCK_LEN = blockStart
<1>1. PICK q \in Nat : blockStart = q * BLOCK_LEN
  BY DEF Aligned
<1>2. BLOCK_LEN \in Nat /\ BLOCK_LEN > 0
  BY CacheAssumption
<1>3. q # 0
  <2>1. 0 * BLOCK_LEN = 0
    BY <1>2
  <2>. QED
    BY <1>1, <2>1
<1>4. PICK p \in Nat : q = p + 1
  <2>1. q - 1 \in Nat /\ q = (q - 1) + 1
    BY <1>3
  <2>. QED
    BY <2>1
<1>5. p * BLOCK_LEN \in Nat /\ blockStart = p * BLOCK_LEN + BLOCK_LEN
  BY <1>1, <1>2, <1>4
<1>6. BlockOf(x) = p * BLOCK_LEN
  <2>1. p * BLOCK_LEN <= x /\ x < p * BLOCK_LEN + BLOCK_LEN
    BY <1>2, <1>5
  <2>. QED
    BY <2>1, BlockOfMultiple
<1>. QED
  BY <1>5, <1>6

LEMMA InsertInvInit == Init => InsertInv
BY DEF Init, InsertInv, StopsBehind, BytesInserted, Inserting, NoCall

LEMMA InsertInvNext == CacheInv /\ ReadInv /\ InsertInv /\ [Next]_vars => InsertInv'
<1>. SUFFICES ASSUME CacheInv, ReadInv, InsertInv, [Next]_vars PROVE InsertInv'
  OBVIOUS
<1>1. ASSUME NEW name \in Names, NEW start \in Bytes, NEW end \in Bytes, start < end,
             Insert(name, start, end)
      PROVE  InsertInv'
  <2>1. /\ start \in Nat /\ end \in Nat /\ BLOCK_LEN \in Nat /\ BLOCK_LEN > 0
        /\ arg'.start = start /\ arg'.end = end /\ blockStart' = BlockOf(start)
    BY <1>1, CacheAssumption DEF Insert, Bytes
  <2>2. BlockOf(start) \in Nat /\ BlockOf(start) <= start
    BY <2>1, BlockOfBounds
  <2>3. StopsBehind'
    BY <1>1, <2>1, <2>2 DEF StopsBehind
  <2>4. ~ \E x \in Span(arg)' : x < blockStart'
    BY <2>1, <2>2 DEF Span
  <2>5. BytesInserted'
    BY <2>4 DEF BytesInserted
  <2>. QED
    BY <2>3, <2>5 DEF InsertInv
<1>2. ASSUME NEW name \in Names, NEW start \in Bytes, NEW end \in Bytes,
             Read(name, start, end)
      PROVE  InsertInv'
  BY <1>2 DEF Read, InsertInv, StopsBehind, BytesInserted, Inserting
<1>3. CASE InsertOldBlock \/ UnionAbsorb \/ InsertEnd
  <2>1. /\ Inserting /\ UNCHANGED <<arg, blockStart>>
        /\ \/ dataMap' = dataMap
           \/ dataMap' = [dataMap EXCEPT ![Key] = Release(@, First(Touched(dataMap[Key])))]
    <3>1. CASE InsertOldBlock
      BY <3>1 DEF InsertOldBlock, Inserting
    <3>2. CASE UnionAbsorb
      BY <3>2 DEF UnionAbsorb, Inserting
    <3>3. CASE InsertEnd
      BY <3>3 DEF InsertEnd, Inserting
    <3>. QED
      BY <1>3, <3>1, <3>2, <3>3
  <2>2. /\ DOMAIN dataMap' = DOMAIN dataMap
        /\ \A k \in DOMAIN dataMap : k # Key => dataMap'[k] = dataMap[k]
    BY <2>1
  <2>3. BytesInserted'
    BY <2>1, <2>2, InsideBlock DEF InsertInv
  <2>. QED
    BY <2>1, <2>3 DEF InsertInv, StopsBehind
<1>4. CASE InsertNewBlock
  BY <1>4, NewBlockInserts
<1>5. CASE UnionSubset
  BY <1>5, SubsetInserts
<1>6. CASE UnionPlace
  BY <1>6, PlaceInserts
<1>7. CASE UnionOverflow
  <2>1. ~ Inserting'
    <3>1. blockStart < arg.end /\ blockStart \in Nat /\ arg.end \in Nat
      BY <1>7, InUnion DEF UnionOverflow
    <3>. QED
      BY <1>7, <3>1 DEF UnionOverflow, Inserting
  <2>. QED
    BY <2>1 DEF InsertInv, StopsBehind, BytesInserted
<1>8. CASE ReadBlock \/ ReadEnd \/ Return
  <2>1. ~ Inserting'
    <3>1. pc = "read" => arg.op = "read"
      BY DEF ReadInv, OpOfCall
    <3>. QED
      BY <1>8, <3>1 DEF ReadBlock, ReadEnd, Return, Inserting
  <2>. QED
    BY <2>1 DEF InsertInv, StopsBehind, BytesInserted
<1>9. CASE UNCHANGED vars
  <2>1. Inserting' => Inserting
    BY <1>9 DEF vars, Inserting
  <2>2. CASE ~ Inserting
    BY <2>1, <2>2 DEF InsertInv, StopsBehind, BytesInserted
  <2>3. CASE Inserting
    BY <1>9, <2>3, InsideBlock DEF vars, InsertInv, StopsBehind
  <2>. QED
    BY <2>2, <2>3
<1>. QED
  BY <1>1, <1>2, <1>3, <1>4, <1>5, <1>6, <1>7, <1>8, <1>9 DEF Next

(* An insert that was not cut short leaves each of its bytes claimed and   *)
(* written, unless its block was dropped for a later one of the same call, *)
(* and the last block is always there (cache.cpp:57-129).                  *)
THEOREM InsertAlwaysCompletes == Spec => []InsertCompletes
<1>1. CacheInv /\ ReadInv /\ InsertInv => InsertCompletes
  <2>. SUFFICES ASSUME CacheInv, ReadInv, InsertInv,
                       pc = "return", arg.op = "insert", blockStart >= arg.end,
                       NEW x \in Span(arg)
                PROVE  LET k == <<arg.name, BlockOf(x)>>
                       IN IF k \in DOMAIN dataMap
                          THEN x \in Claimed(dataMap[k]) \cap dataMap[k].data
                          ELSE BlockOf(x) # BlockOf(arg.end - 1)
    BY DEF InsertCompletes
  <2>1. /\ arg.start \in Nat /\ arg.end \in Nat /\ arg.start < arg.end
        /\ blockStart \in Nat /\ BLOCK_LEN \in Nat /\ BLOCK_LEN > 0
        /\ x \in Nat /\ x < arg.end /\ BlockOf(x) \in Nat
    BY CallNumbers, SpanOfCall, BlockOfBounds
  <2>2. blockStart < arg.end + BLOCK_LEN
    BY DEF InsertInv, StopsBehind, Inserting
  <2>3. BlockOf(arg.end - 1) + BLOCK_LEN = blockStart
    BY <2>1, <2>2, BlockBefore DEF ReadInv
  <2>4. LET k == <<arg.name, BlockOf(x)>>
        IN IF k \in DOMAIN dataMap
           THEN x \in Claimed(dataMap[k]) \cap dataMap[k].data
           ELSE BlockOf(x) + BLOCK_LEN # blockStart
    BY <2>1 DEF InsertInv, BytesInserted, Inserting
  <2>. QED
    BY <2>3, <2>4
<1>. QED
  BY <1>1, InsertInvInit, InsertInvNext, CacheInvariant, ReadInvariant, PTL DEF Spec

-----------------------------------------------------------------------------
(* The cache implements LeotpStore.                                        *)

(* The operators of the instance are those of this module.                 *)
LEMMA SameOperators ==
  /\ \A r : Store!Span(r) = Span(r)
  /\ \A S : Store!First(S) = First(S)
  /\ \A b : Store!BlockOf(b) = BlockOf(b)
  /\ \A S, r : Store!ServedEnd(S, r) = ServedEnd(S, r)
  /\ \A S : Store!Cardinality(S) = Cardinality(S)
<1>1. \A r : Store!Span(r) = Span(r)
  BY DEF Store!Span, Span
<1>2. \A S : Store!First(S) = First(S)
  BY DEF Store!First, First
<1>3. \A b : Store!BlockOf(b) = BlockOf(b)
  BY DEF Store!BlockOf, BlockOf
<1>4. \A S, r : Store!ServedEnd(S, r) = ServedEnd(S, r)
  BY <1>2 DEF Store!ServedEnd, ServedEnd
<1>5. \A S : Store!Cardinality(S) = Cardinality(S)
  BY DEF Store!Cardinality, Cardinality
<1>. QED
  BY <1>1, <1>2, <1>3, <1>4, <1>5

(* Every block of the map starts at a block boundary and holds a byte, so  *)
(* that the blocks of the map can be told from the bytes they hold.        *)
StoreInv ==
  \A k \in DOMAIN dataMap : BlockOf(k[2]) = k[2] /\ Held(k) # {}

LEMMA KeyParts ==
  ASSUME TypeOK, NEW k \in DOMAIN dataMap
  PROVE  k[1] \in Names /\ k[2] \in Nat /\ k = <<k[1], k[2]>> /\ dataMap[k] \in Blocks
<1>1. k \in Keys /\ dataMap[k] \in Blocks
  BY DEF TypeOK
<1>2. k[1] \in Names /\ k[2] \in Bytes /\ k = <<k[1], k[2]>>
  BY <1>1 DEF Keys
<1>. QED
  BY <1>1, <1>2, CacheAssumption DEF Bytes

(* What a block holds lies in the block.                                   *)
LEMMA HeldInBlock ==
  ASSUME CacheInv, NEW k \in DOMAIN dataMap, BlockOf(k[2]) = k[2], NEW x \in Held(k)
  PROVE  x \in Nat /\ BlockOf(x) = k[2] /\ k = <<k[1], BlockOf(x)>>
<1>1. /\ k[2] \in Nat /\ k = <<k[1], k[2]>> /\ dataMap[k] \in Blocks
      /\ BLOCK_LEN \in Nat /\ BLOCK_LEN > 0
  BY KeyParts, CacheAssumption DEF CacheInv
<1>2. \E r \in Ranges : x \in Span(r) /\ k[2] <= r.start /\ r.end <= k[2] + BLOCK_LEN
  <2>1. CASE pc = "union" /\ Key = k /\ x \in Span(newRange)
    <3>1. newRange \in Ranges /\ blockStart <= newRange.start /\ newRange.end <= blockStart + BLOCK_LEN
      BY <2>1, InUnion
    <3>. QED
      BY <2>1, <3>1 DEF Key
  <2>2. CASE x \in Claimed(dataMap[k])
    <3>1. PICK i \in Used(dataMap[k]) : x \in Span(dataMap[k].ranges[i])
      BY <2>2 DEF Claimed
    <3>2. dataMap[k].ranges[i] \in Ranges
      BY <1>1 DEF Used, Blocks
    <3>3. k[2] <= dataMap[k].ranges[i].start /\ dataMap[k].ranges[i].end <= k[2] + BLOCK_LEN
      BY DEF CacheInv, RangesSeparated
    <3>. QED
      BY <3>1, <3>2, <3>3
  <2>. QED
    BY <2>1, <2>2 DEF Held
<1>3. x \in Nat /\ k[2] <= x /\ x < k[2] + BLOCK_LEN
  BY <1>1, <1>2, CacheAssumption DEF Ranges, Bytes, Span
<1>4. PICK q \in Nat : k[2] = q * BLOCK_LEN
  <2>1. k[2] \div BLOCK_LEN \in Nat
    BY <1>1
  <2>. QED
    BY <2>1 DEF BlockOf
<1>5. BlockOf(x) = k[2]
  BY <1>3, <1>4, BlockOfMultiple
<1>. QED
  BY <1>1, <1>3, <1>5

(* A name holds a byte if the byte's block is there and holds it.          *)
LEMMA HeldByBlock ==
  ASSUME CacheInv, StoreInv, NEW name, NEW x
  PROVE  x \in HeldOf(name) <=>
           <<name, BlockOf(x)>> \in DOMAIN dataMap /\ x \in Held(<<name, BlockOf(x)>>)
<1>1. x \in HeldOf(name) <=> \E k \in DOMAIN dataMap : k[1] = name /\ x \in Held(k)
  BY DEF HeldOf
<1>2. ASSUME NEW k \in DOMAIN dataMap, k[1] = name, x \in Held(k)
      PROVE  k = <<name, BlockOf(x)>>
  BY <1>2, HeldInBlock DEF StoreInv
<1>3. <<name, BlockOf(x)>>[1] = name
  OBVIOUS
<1>. QED
  BY <1>1, <1>2, <1>3

(* The blocks a byte is held of are the keys of the map.                   *)
LEMMA BlocksAreKeys ==
  ASSUME CacheInv, StoreInv
  PROVE  Store!HeldBlocks = DOMAIN dataMap
<1>1. ASSUME NEW k \in DOMAIN dataMap PROVE k \in Store!HeldBlocks
  <2>1. k[1] \in Names /\ k = <<k[1], k[2]>>
    BY KeyParts DEF CacheInv
  <2>2. PICK x \in Held(k) : k = <<k[1], BlockOf(x)>>
    BY HeldInBlock DEF StoreInv
  <2>3. x \in HeldOf(k[1]) /\ HeldBytes[k[1]] = HeldOf(k[1])
    BY <2>1 DEF HeldOf, HeldBytes
  <2>4. <<k[1], Store!BlockOf(x)>> \in {<<k[1], Store!BlockOf(b)>> : b \in HeldBytes[k[1]]}
    BY <2>3
  <2>. QED
    BY <2>1, <2>2, <2>4, SameOperators DEF Store!HeldBlocks
<1>2. ASSUME NEW k \in Store!HeldBlocks PROVE k \in DOMAIN dataMap
  <2>1. PICK name \in Names : k \in {<<name, Store!BlockOf(b)>> : b \in HeldBytes[name]}
    BY <1>2 DEF Store!HeldBlocks
  <2>2. PICK b \in HeldOf(name) : k = <<name, BlockOf(b)>>
    BY <2>1, SameOperators DEF HeldBytes
  <2>. QED
    BY <2>2, HeldByBlock
<1>. QED
  BY <1>1, <1>2

(* The list of uses counts the blocks.                                     *)
LEMMA BlockCount ==
  ASSUME TypeOK, LruAgrees
  PROVE  Cardinality(DOMAIN dataMap) = Len(lruList)
<1>1. /\ lruList \in Seq(Keys) /\ Len(lruList) \in Nat
      /\ {lruList[i] : i \in 1 .. Len(lruList)} = DOMAIN dataMap
      /\ \A i, j \in 1 .. Len(lruList) : lruList[i] = lruList[j] => i = j
  BY DEF TypeOK, LruAgrees
<1>. DEFINE S == 1 .. Len(lruList)
            f == [i \in S |-> lruList[i]]
<1>2. f \in [S -> DOMAIN dataMap]
  BY <1>1
<1>3. \A i, j \in S : f[i] = f[j] => i = j
  BY <1>1
<1>4. \A k \in DOMAIN dataMap : \E i \in S : f[i] = k
  BY <1>1
<1>. HIDE DEF f
<1>5. f \in Bijection(S, DOMAIN dataMap)
  BY <1>2, <1>3, <1>4 DEF Bijection, Injection, Surjection, IsInjective
<1>6. ExistsBijection(S, DOMAIN dataMap)
  BY <1>5 DEF ExistsBijection
<1>7. IsFiniteSet(S) /\ Cardinality(S) = Len(lruList)
  <2>1. /\ IsFiniteSet(1 .. Len(lruList))
        /\ Cardinality(1 .. Len(lruList)) = IF 1 > Len(lruList) THEN 0 ELSE Len(lruList) - 1 + 1
    BY <1>1, FS_Interval, SMTT(60)
  <2>. QED
    BY <1>1, <2>1
<1>. HIDE DEF S
<1>. QED
  BY <1>6, <1>7, FS_Bijection

(* A step after which each block of the map holds what it held leaves the  *)
(* store as it is.                                                         *)
LEMMA SameHeld ==
  ASSUME StoreInv, DOMAIN dataMap' = DOMAIN dataMap,
         \A k \in DOMAIN dataMap : Held(k)' = Held(k)
  PROVE  StoreInv' /\ HeldBytes' = HeldBytes
<1>1. StoreInv'
  <2>. SUFFICES ASSUME NEW k \in DOMAIN dataMap' PROVE (BlockOf(k[2]) = k[2] /\ Held(k) # {})'
    BY DEF StoreInv
  <2>. QED
    BY DEF StoreInv, BlockOf
<1>2. ASSUME NEW name PROVE HeldOf(name)' = HeldOf(name)
  BY DEF HeldOf
<1>. QED
  BY <1>1, <1>2 DEF HeldBytes

(* The slots and the locals of the call are all that Held looks at.        *)
LEMMA SameHeldWithMap ==
  ASSUME UNCHANGED dataMap, pc # "union", pc' # "union"
  PROVE  \A k \in DOMAIN dataMap : Held(k)' = Held(k)
BY DEF Held, Claimed, Used, Span

-----------------------------------------------------------------------------
(* What each step of an insert makes of the bytes that are held.           *)

LEMMA OldBlockHeld ==
  ASSUME CacheInv, InsertOldBlock
  PROVE  /\ dataMap' = dataMap /\ Key \in DOMAIN dataMap
         /\ \A k \in DOMAIN dataMap :
              Held(k)' = IF k = Key THEN Held(k) \cup Span(WriteRange) ELSE Held(k)
<1>1. /\ pc = "insert" /\ pc' = "union" /\ Key \in DOMAIN dataMap
      /\ dataMap' = dataMap /\ newRange' = WriteRange
      /\ arg' = arg /\ blockStart' = blockStart
  BY DEF InsertOldBlock
<1>2. Key' = Key /\ Span(newRange)' = Span(WriteRange)
  BY <1>1 DEF Key, Span
<1>3. ASSUME NEW k \in DOMAIN dataMap PROVE Claimed(dataMap[k])' = Claimed(dataMap[k])
  BY <1>1 DEF Claimed, Used, Span
<1>4. ASSUME NEW k \in DOMAIN dataMap
      PROVE  Held(k)' = IF k = Key THEN Held(k) \cup Span(WriteRange) ELSE Held(k)
  BY <1>1, <1>2, <1>3 DEF Held
<1>. QED
  BY <1>1, <1>4

(* A step of the union loop that leaves the block c, of which the claims   *)
(* and the locals are known, leaves the other blocks alone.                *)
LEMMA UnionHeld ==
  ASSUME CacheInv, pc = "union", NEW c, dataMap' = [dataMap EXCEPT ![Key] = c],
         UNCHANGED arg, pc' = "union" => blockStart' = blockStart
  PROVE  /\ DOMAIN dataMap' = DOMAIN dataMap /\ Key \in DOMAIN dataMap
         /\ Held(Key) = Claimed(dataMap[Key]) \cup Span(newRange)
         /\ \A k \in DOMAIN dataMap :
              Held(k)' = IF k = Key
                         THEN Claimed(c) \cup IF pc' = "union" THEN Span(newRange') ELSE {}
                         ELSE Held(k)
<1>1. Key \in DOMAIN dataMap
  BY InUnion
<1>2. DOMAIN dataMap' = DOMAIN dataMap /\ dataMap'[Key] = c
      /\ \A k \in DOMAIN dataMap : k # Key => dataMap'[k] = dataMap[k]
  BY <1>1
<1>3. pc' = "union" => Key' = Key
  BY DEF Key
<1>4. PICK key : key = Key
  OBVIOUS
<1>5. /\ Claimed(dataMap[key])' = Claimed(c) /\ Span(newRange)' = Span(newRange')
      /\ \A k \in DOMAIN dataMap : k # key => Claimed(dataMap[k])' = Claimed(dataMap[k])
  BY <1>2, <1>4 DEF Claimed, Used, Span
<1>6. Held(key) = Claimed(dataMap[Key]) \cup Span(newRange)
  BY <1>4 DEF Held
<1>7. Held(key)' = Claimed(c) \cup IF pc' = "union" THEN Span(newRange') ELSE {}
  BY <1>3, <1>4, <1>5 DEF Held
<1>8. \A k \in DOMAIN dataMap : k # Key => Held(k)' = Held(k)
  BY <1>3, <1>4, <1>5 DEF Held
<1>. QED
  BY <1>1, <1>2, <1>4, <1>6, <1>7, <1>8

(* Absorbing a slot, finding the range in a slot and placing it keep what  *)
(* is held: the union loop only changes who holds it.                      *)
LEMMA AbsorbHeld ==
  ASSUME CacheInv, UnionAbsorb
  PROVE  DOMAIN dataMap' = DOMAIN dataMap /\ \A k \in DOMAIN dataMap : Held(k)' = Held(k)
<1>. DEFINE b == dataMap[Key]
            i == First(Touched(b))
            r == b.ranges[i]
            c == Release(b, i)
<1>1. /\ pc = "union" /\ pc' = "union" /\ Touched(b) # {} /\ HasUnion(newRange, r)
      /\ newRange' = Hull(newRange, r) /\ dataMap' = [dataMap EXCEPT ![Key] = c]
      /\ arg' = arg /\ blockStart' = blockStart
  BY DEF UnionAbsorb
<1>2. /\ Touched(b) \subseteq Used(b) /\ Used(b) \subseteq Slots /\ b \in Blocks
      /\ newRange \in Ranges /\ Separated(Key, b) /\ Written(b)
      /\ \A j \in Slots : b.ranges[j] \in Ranges
  BY <1>1, InUnion
<1>3. i \in Used(b) /\ i \in Slots /\ r \in Ranges
  BY <1>1, <1>2, FirstSlot
<1>. HIDE DEF i
<1>4. Claimed(c) \subseteq Claimed(b) /\ Claimed(b) \subseteq Claimed(c) \cup Span(r)
  BY <1>2, <1>3, ReleaseKeeps
<1>5. Span(newRange') = Span(newRange) \cup Span(r)
  BY <1>1, <1>2, <1>3, HullIsUnion
<1>6. Span(r) \subseteq Claimed(b)
  BY <1>3 DEF Claimed
<1>. HIDE DEF c, r, b
<1>7. /\ DOMAIN dataMap' = DOMAIN dataMap
      /\ Held(Key) = Claimed(b) \cup Span(newRange)
      /\ \A k \in DOMAIN dataMap : Held(k)' = IF k = Key THEN Claimed(c) \cup Span(newRange') ELSE Held(k)
  <2>1. UNCHANGED arg /\ (pc' = "union" => blockStart' = blockStart)
    BY <1>1
  <2>. QED
    BY <1>1, <2>1, UnionHeld DEF b
<1>. QED
  BY <1>4, <1>5, <1>6, <1>7

LEMMA SubsetHeld ==
  ASSUME CacheInv, UnionSubset
  PROVE  DOMAIN dataMap' = DOMAIN dataMap /\ \A k \in DOMAIN dataMap : Held(k)' = Held(k)
<1>. DEFINE b == dataMap[Key]
            i == First(Touched(b))
<1>1. /\ pc = "union" /\ pc' = "insert" /\ Touched(b) # {} /\ ~ HasUnion(newRange, b.ranges[i])
      /\ dataMap' = [dataMap EXCEPT ![Key] = Memcpy(b)] /\ arg' = arg
  BY DEF UnionSubset, NextBlock
<1>2. /\ Touched(b) \subseteq Used(b) /\ Used(b) \subseteq Slots /\ b \in Blocks
      /\ newRange \in Ranges /\ \A j \in Slots : b.ranges[j] \in Ranges
  BY <1>1, InUnion
<1>3. i \in Touched(b) /\ i \in Slots
  BY <1>1, <1>2, FirstSlot
<1>4. IsSubset(newRange, b.ranges[i]) /\ i \in Used(b)
  BY <1>1, <1>2, <1>3 DEF Touched
<1>. HIDE DEF i
<1>5. Span(newRange) \subseteq Span(b.ranges[i])
  <2>1. b.ranges[i] \in Ranges /\ MaxByte \in Nat
    BY <1>2, <1>3, CacheAssumption
  <2>. QED
    BY <1>2, <1>4, <2>1 DEF IsSubset, Span, Ranges, Bytes
<1>6. Span(newRange) \subseteq Claimed(b)
  BY <1>4, <1>5 DEF Claimed
<1>7. Claimed(Memcpy(b)) = Claimed(b)
  BY <1>2 DEF Memcpy, Claimed, Used, Blocks
<1>. HIDE DEF b
<1>8. /\ DOMAIN dataMap' = DOMAIN dataMap
      /\ Held(Key) = Claimed(b) \cup Span(newRange)
      /\ \A k \in DOMAIN dataMap : Held(k)' = IF k = Key THEN Claimed(Memcpy(b)) ELSE Held(k)
  BY <1>1, UnionHeld DEF b
<1>. QED
  BY <1>6, <1>7, <1>8

LEMMA PlaceHeld ==
  ASSUME CacheInv, UnionPlace
  PROVE  DOMAIN dataMap' = DOMAIN dataMap /\ \A k \in DOMAIN dataMap : Held(k)' = Held(k)
<1>1. /\ pc = "union" /\ pc' = "insert" /\ arg' = arg
      /\ Touched(dataMap[Key]) = {} /\ Used(dataMap[Key]) # Slots
      /\ dataMap' = [dataMap EXCEPT ![Key] = Place(dataMap[Key])]
  BY DEF UnionPlace, NextBlock
<1>2. Claimed(Place(dataMap[Key])) = Claimed(dataMap[Key]) \cup Span(newRange)
  BY <1>1, PlaceKeeps
<1>3. /\ DOMAIN dataMap' = DOMAIN dataMap
      /\ Held(Key) = Claimed(dataMap[Key]) \cup Span(newRange)
      /\ \A k \in DOMAIN dataMap :
           Held(k)' = IF k = Key THEN Claimed(Place(dataMap[Key])) ELSE Held(k)
  BY <1>1, UnionHeld
<1>. QED
  BY <1>2, <1>3

(* The slot that an overflow overwrites is all that is lost: no other slot *)
(* and not newRange has a byte of it.                                      *)
LEMMA OverflowHeld ==
  ASSUME CacheInv, UnionOverflow
  PROVE  LET b   == dataMap[Key]
             old == b.ranges[(b.lastPos + 1) % BLOCK_SEG_NUM]
         IN /\ DOMAIN dataMap' = DOMAIN dataMap /\ Key \in DOMAIN dataMap
            /\ (b.lastPos + 1) % BLOCK_SEG_NUM \in Slots
            /\ Used(b) = Slots
            /\ \A i \in Slots : Apart(newRange, b.ranges[i]) /\ Apart(b.ranges[i], newRange)
            /\ Held(Key) = Claimed(b) \cup Span(newRange)
            /\ \A k \in DOMAIN dataMap :
                 Held(k)' = IF k = Key THEN Held(k) \ Span(old) ELSE Held(k)
<1>. DEFINE b   == dataMap[Key]
            pos == (b.lastPos + 1) % BLOCK_SEG_NUM
            c   == [b EXCEPT !.lastPos = pos, !.ranges[pos] = newRange]
<1>1. /\ pc = "union" /\ pc' = "return" /\ Touched(b) = {} /\ Used(b) = Slots
      /\ dataMap' = [dataMap EXCEPT ![Key].lastPos = pos, ![Key].ranges[pos] = newRange]
      /\ arg' = arg
  BY DEF UnionOverflow
<1>2. /\ Key \in DOMAIN dataMap /\ b \in Blocks /\ Separated(Key, b)
      /\ newRange \in Ranges /\ newRange.start < newRange.end
      /\ \A j \in Slots : b.ranges[j] \in Ranges
  BY <1>1, InUnion
<1>3. dataMap' = [dataMap EXCEPT ![Key] = c]
  BY <1>1, <1>2
<1>4. pos \in Slots
  BY <1>2, NextSlot DEF Blocks
<1>5. c.ranges = [b.ranges EXCEPT ![pos] = newRange]
  BY <1>2, <1>4 DEF Blocks
<1>. HIDE DEF c, pos
<1>6. \A j \in Slots : c.ranges[j] = IF j = pos THEN newRange ELSE b.ranges[j]
  BY <1>2, <1>4, <1>5 DEF Blocks
<1>7. \A j \in Slots : /\ Apart(newRange, b.ranges[j]) /\ Apart(b.ranges[j], newRange)
                       /\ b.ranges[j].start < b.ranges[j].end
  <2>. TAKE j \in Slots
  <2>1. b.ranges[j] \in Ranges /\ b.ranges[j].start < b.ranges[j].end
    BY <1>1, <1>2 DEF Separated
  <2>2. ~ HasUnion(newRange, b.ranges[j]) /\ ~ IsSubset(newRange, b.ranges[j])
    BY <1>1 DEF Touched
  <2>. QED
    BY <1>2, <2>1, <2>2, PassedOver
<1>8. \A i, j \in Slots : i # j => Apart(b.ranges[i], b.ranges[j])
  BY <1>1, <1>2 DEF Separated
<1>9. Used(c) = Slots
  <2>1. newRange # Free
    BY <1>2 DEF Free
  <2>. QED
    BY <1>1, <1>6, <2>1 DEF Used
<1>10. \A r1, r2 \in Ranges : Apart(r1, r2) => Span(r1) \cap Span(r2) = {}
  BY CacheAssumption DEF Apart, Span, Ranges, Bytes
<1>11. Claimed(c) = (Claimed(b) \cup Span(newRange)) \ Span(b.ranges[pos])
  <2>1. Claimed(b) = UNION {Span(b.ranges[j]) : j \in Slots}
    BY <1>1 DEF Claimed
  <2>2. Claimed(c) = UNION {Span(c.ranges[j]) : j \in Slots}
    BY <1>9 DEF Claimed
  <2>3. \A j \in Slots : j # pos => Span(b.ranges[j]) \cap Span(b.ranges[pos]) = {}
    BY <1>2, <1>4, <1>8, <1>10
  <2>4. Span(newRange) \cap Span(b.ranges[pos]) = {}
    BY <1>2, <1>4, <1>7, <1>10
  <2>5. ASSUME NEW x \in Claimed(c) PROVE x \in (Claimed(b) \cup Span(newRange)) \ Span(b.ranges[pos])
    <3>1. PICK j \in Slots : x \in Span(c.ranges[j])
      BY <2>2
    <3>2. CASE j = pos
      BY <1>6, <2>4, <3>1, <3>2
    <3>3. CASE j # pos
      BY <1>6, <2>1, <2>3, <3>1, <3>3
    <3>. QED
      BY <3>2, <3>3
  <2>6. ASSUME NEW x \in (Claimed(b) \cup Span(newRange)) \ Span(b.ranges[pos]) PROVE x \in Claimed(c)
    <3>1. CASE x \in Span(newRange)
      BY <1>4, <1>6, <2>2, <3>1
    <3>2. CASE x \in Claimed(b)
      <4>1. PICK j \in Slots : x \in Span(b.ranges[j])
        BY <2>1, <3>2
      <4>2. j # pos
        BY <4>1
      <4>. QED
        BY <1>6, <2>2, <4>1, <4>2
    <3>. QED
      BY <3>1, <3>2
  <2>. QED
    BY <2>5, <2>6
<1>. HIDE DEF b
<1>12. /\ DOMAIN dataMap' = DOMAIN dataMap
       /\ Held(Key) = Claimed(b) \cup Span(newRange)
       /\ \A k \in DOMAIN dataMap : Held(k)' = IF k = Key THEN Claimed(c) ELSE Held(k)
  <2>1. pc' # "union"
    BY <1>1
  <2>. QED
    BY <1>1, <1>3, <2>1, UnionHeld, ZenonT(60) DEF b
<1>13. \A k \in DOMAIN dataMap : Held(k)' = IF k = Key THEN Held(k) \ Span(b.ranges[pos]) ELSE Held(k)
  BY <1>11, <1>12
<1>. QED
  BY <1>1, <1>2, <1>4, <1>7, <1>12, <1>13 DEF b, pos

LEMMA NewBlockHeld ==
  ASSUME CacheInv, InsertNewBlock
  PROVE  /\ DOMAIN dataMap' = DOMAIN Kept \cup {Key} /\ Key \notin DOMAIN Kept
         /\ DOMAIN Kept = IF LruFull THEN DOMAIN dataMap \ {Head(lruList)} ELSE DOMAIN dataMap
         /\ \A k \in DOMAIN dataMap' :
              Held(k)' = IF k = Key THEN Span(WriteRange) ELSE Held(k)
<1>1. /\ pc = "insert" /\ pc' = "insert" /\ Key \notin DOMAIN dataMap /\ blockStart < arg.end
      /\ dataMap' = Put(Kept, Key, Fresh)
  BY DEF InsertNewBlock, NextBlock, AddBlock, Kept, Fresh
<1>2. DOMAIN Kept \subseteq DOMAIN dataMap /\ \A k \in DOMAIN Kept : Kept[k] = dataMap[k]
  BY KeptAgrees DEF CacheInv
<1>3. DOMAIN Kept = IF LruFull THEN DOMAIN dataMap \ {Head(lruList)} ELSE DOMAIN dataMap
  BY DEF Kept, Drop
<1>4. /\ DOMAIN dataMap' = DOMAIN Kept \cup {Key}
      /\ \A k \in DOMAIN dataMap' : dataMap'[k] = IF k = Key THEN Fresh ELSE dataMap[k]
  BY <1>1, <1>2 DEF Put
<1>5. Claimed(Fresh) = Span(WriteRange)
  <2>1. WriteRange # Free /\ 0 \in Slots
    <3>1. arg \in Args /\ arg.start < arg.end /\ blockStart \in Nat /\ arg.start < blockStart + BLOCK_LEN
      BY <1>1 DEF CacheInv, TypeOK, CallInRange
    <3>2. WriteRange.start < WriteRange.end /\ WriteRange \in Ranges
      BY <1>1, <3>1, WriteRangeInBlock
    <3>. QED
      BY <3>2, CacheAssumption DEF Free, Ranges, Bytes, Slots
  <2>2. Used(Fresh) = {0} /\ Fresh.ranges[0] = WriteRange
    BY <2>1 DEF Used, Fresh
  <2>. QED
    BY <2>2 DEF Claimed
<1>6. PICK key, w : key = Key /\ w = Span(WriteRange)
  OBVIOUS
<1>7. ASSUME NEW k \in DOMAIN dataMap' PROVE Held(k)' = IF k = key THEN w ELSE Held(k)
  <2>1. Held(k)' = Claimed(dataMap'[k])
    BY <1>1 DEF Held, Claimed, Used, Span
  <2>2. k # key => Held(k) = Claimed(dataMap[k])
    BY <1>1 DEF Held
  <2>. QED
    BY <1>4, <1>5, <1>6, <2>1, <2>2
<1>. QED
  BY <1>1, <1>2, <1>3, <1>4, <1>6, <1>7

-----------------------------------------------------------------------------
(* Each step of the cache is a step of the store, or none, and keeps       *)
(* StoreInv.                                                               *)

LEMMA InitMaps == Init => StoreInv /\ Store!Init
<1>. SUFFICES ASSUME Init PROVE StoreInv /\ Store!Init
  OBVIOUS
<1>1. DOMAIN dataMap = {} /\ pc = "idle" /\ arg = NoCall
  BY DEF Init
<1>2. StoreInv
  BY <1>1 DEF StoreInv
<1>3. HeldBytes = [name \in Names |-> {}]
  BY <1>1 DEF HeldBytes, HeldOf
<1>4. Phase = "idle" /\ Ahead = {} /\ Returned = 0 /\ arg = Store!NoCall
  BY <1>1 DEF Phase, Ahead, Returned, NoCall, Store!NoCall
<1>. QED
  BY <1>2, <1>3, <1>4 DEF Store!Init

LEMMA CallMaps ==
  ASSUME CacheInv, StoreInv, NEW name \in Names, NEW start \in Bytes, NEW end \in Bytes,
         start < end, Insert(name, start, end) \/ Read(name, start, end)
  PROVE  StoreInv' /\ Store!Call
<1>1. pc = "idle" /\ pc' \in {"insert", "read"} /\ dataMap' = dataMap
      /\ arg' = [op |-> pc', name |-> name, start |-> start, end |-> end]
      /\ blockStart' = BlockOf(start)
  BY DEF Insert, Read
<1>2. start \in Nat /\ end \in Nat /\ BlockOf(start) \in Nat /\ BlockOf(start) <= start
  BY BlockOfBounds, CacheAssumption DEF Bytes
<1>3. StoreInv' /\ HeldBytes' = HeldBytes
  BY <1>1, SameHeld, SameHeldWithMap
<1>4. Phase = "idle" /\ Phase' = arg'.op /\ Returned' = 0 /\ Returned = 0
  BY <1>1 DEF Phase, Returned
<1>5. arg' \in Store!Calls /\ arg'.start < arg'.end
  BY <1>1, <1>2 DEF Store!Calls
<1>6. Ahead' = IF arg'.op = "insert" THEN Span(arg') ELSE {}
  <2>1. CASE pc' = "read"
    BY <1>1, <2>1 DEF Ahead
  <2>2. CASE pc' = "insert"
    <3>1. Ahead' = {b \in Span(arg)' : b >= blockStart'}
      BY <2>2 DEF Ahead
    <3>2. Span(arg)' = start .. end - 1 /\ Span(arg') = start .. end - 1
      BY <1>1 DEF Span
    <3>3. \A b \in start .. end - 1 : b >= blockStart'
      BY <1>1, <1>2
    <3>. QED
      BY <1>1, <2>2, <3>1, <3>2, <3>3
  <2>. QED
    BY <1>1, <2>1, <2>2
<1>. QED
  BY <1>3, <1>4, <1>5, <1>6, SameOperators DEF Store!Call

(* The bytes of the argument that lie in the current block are the first   *)
(* of those still ahead.                                                   *)
LEMMA AheadInBlock ==
  ASSUME CacheInv, ReadInv, pc = "insert", blockStart < arg.end
  PROVE  /\ Ahead # {}
         /\ BlockOf(First(Ahead)) = blockStart
         /\ {b \in Ahead : BlockOf(b) = blockStart} = Span(WriteRange)
         /\ Ahead \ Span(WriteRange) = {b \in Span(arg) : b >= blockStart + BLOCK_LEN}
         /\ Span(WriteRange) # {}
         /\ WriteRange \in Ranges
<1>1. /\ arg.start \in Nat /\ arg.end \in Nat /\ arg.start < arg.end
      /\ blockStart \in Nat /\ BLOCK_LEN \in Nat /\ BLOCK_LEN > 0
      /\ arg.start < blockStart + BLOCK_LEN
      /\ arg \in Args
  BY CacheAssumption DEF CacheInv, TypeOK, Args, Bytes, CallInRange
<1>2. Aligned
  BY DEF ReadInv
<1>3. Ahead = {b \in Span(arg) : b >= blockStart}
  BY DEF Ahead
<1>4. \A b : b \in Ahead <=> b \in Nat /\ arg.start <= b /\ b < arg.end /\ blockStart <= b
  BY <1>1, <1>3 DEF Span
<1>5. WriteRange \in Ranges
  BY <1>1, WriteRangeInBlock
<1>6. \A b : b \in Span(WriteRange) <=>
               /\ b \in Nat /\ arg.start <= b /\ blockStart <= b
               /\ b < arg.end /\ b < blockStart + BLOCK_LEN
  BY <1>1 DEF Span, WriteRange, Lower, Higher
<1>7. PICK m : m = Higher(arg.start, blockStart)
  OBVIOUS
<1>8. m \in Ahead /\ m \in Span(WriteRange) /\ \A b \in Ahead : m <= b
  BY <1>1, <1>4, <1>6, <1>7 DEF Higher
<1>9. First(Ahead) \in Ahead /\ First(Ahead) <= m
  BY <1>4, <1>8, FirstIsLeast
<1>10. First(Ahead) < blockStart + BLOCK_LEN
  BY <1>1, <1>4, <1>6, <1>8, <1>9
<1>11. BlockOf(First(Ahead)) = blockStart
  BY <1>2, <1>4, <1>9, <1>10, BlockOfInBlock
<1>12. ASSUME NEW b \in Ahead PROVE BlockOf(b) = blockStart <=> b \in Span(WriteRange)
  <2>1. b \in Nat /\ BlockOf(b) \in Nat /\ BlockOf(b) <= b /\ b < BlockOf(b) + BLOCK_LEN
    BY <1>4, BlockOfBounds
  <2>2. b \in Span(WriteRange) => BlockOf(b) = blockStart
    BY <1>2, <1>6, BlockOfInBlock
  <2>. QED
    BY <1>4, <1>6, <2>1, <2>2
<1>13. \A b \in Span(WriteRange) : b \in Ahead
  BY <1>4, <1>6
<1>14. {b \in Ahead : BlockOf(b) = blockStart} = Span(WriteRange)
  BY <1>12, <1>13
<1>15. \A b : b \in Ahead \ Span(WriteRange) <=> b \in Span(arg) /\ b >= blockStart + BLOCK_LEN
  <2>1. \A b : b \in Span(arg) <=> b \in Nat /\ arg.start <= b /\ b < arg.end
    BY <1>1 DEF Span
  <2>. QED
    BY <1>1, <1>4, <1>6, <2>1
<1>16. Ahead \ Span(WriteRange) = {b \in Span(arg) : b >= blockStart + BLOCK_LEN}
  BY <1>15
<1>. QED
  BY <1>5, <1>8, <1>11, <1>14, <1>16

LEMMA OldBlockMaps ==
  ASSUME CacheInv, ReadInv, StoreInv, InsertOldBlock
  PROVE  StoreInv' /\ Store!Add
<1>. DEFINE part == Span(WriteRange)
<1>1. /\ pc = "insert" /\ pc' = "union" /\ blockStart < arg.end
      /\ arg' = arg /\ blockStart' = blockStart
  BY DEF InsertOldBlock
<1>2. /\ dataMap' = dataMap /\ Key \in DOMAIN dataMap
      /\ \A k \in DOMAIN dataMap : Held(k)' = IF k = Key THEN Held(k) \cup part ELSE Held(k)
  BY OldBlockHeld
<1>3. StoreInv'
  <2>. SUFFICES ASSUME NEW k \in DOMAIN dataMap' PROVE (BlockOf(k[2]) = k[2] /\ Held(k) # {})'
    BY DEF StoreInv
  <2>1. BlockOf(k[2]) = k[2] /\ Held(k) # {} /\ Held(k) \subseteq Held(k)'
    BY <1>2 DEF StoreInv
  <2>. QED
    BY <2>1 DEF BlockOf
<1>4. /\ Ahead # {} /\ BlockOf(First(Ahead)) = blockStart
      /\ {b \in Ahead : BlockOf(b) = blockStart} = part
      /\ Ahead \ part = {b \in Span(arg) : b >= blockStart + BLOCK_LEN}
  BY <1>1, AheadInBlock
<1>. HIDE DEF part
<1>5. ASSUME NEW name PROVE HeldOf(name)' = HeldOf(name) \cup IF name = arg.name THEN part ELSE {}
  <2>1. PICK key, D : key = Key /\ D = DOMAIN dataMap
    OBVIOUS
  <2>2. \A x : x \in HeldOf(name) <=> \E k \in D : k[1] = name /\ x \in Held(k)
    BY <2>1 DEF HeldOf
  <2>3. \A x : x \in HeldOf(name)' <=> \E k \in D : k[1] = name /\ x \in Held(k)'
    BY <1>2, <2>1 DEF HeldOf
  <2>4. key \in D /\ key[1] = arg.name
        /\ \A k \in D : Held(k)' = IF k = key THEN Held(k) \cup part ELSE Held(k)
    BY <1>2, <2>1 DEF Key
  <2>. QED
    BY <2>2, <2>3, <2>4
<1>6. HeldBytes' = [HeldBytes EXCEPT ![arg.name] = @ \cup part]
  BY <1>5 DEF HeldBytes
<1>7. Ahead' = Ahead \ part
  <2>1. Ahead' = {b \in Span(arg) : b >= blockStart + BLOCK_LEN}
    BY <1>1 DEF Ahead, Span
  <2>. QED
    BY <1>4, <2>1
<1>8. Phase = "insert" /\ Phase' = "insert" /\ Returned = 0 /\ Returned' = 0
  BY <1>1 DEF Phase, Returned
<1>9. Store!InBlock(Ahead, blockStart) = part
  BY <1>4, SameOperators DEF Store!InBlock
<1>10. Store!BlockOf(Store!First(Ahead)) = blockStart
  BY <1>4, SameOperators
<1>11. <<arg.name, blockStart>> \in Store!HeldBlocks
  BY <1>2, BlocksAreKeys DEF Key
<1>. QED
  BY <1>1, <1>3, <1>4, <1>6, <1>7, <1>8, <1>9, <1>10, <1>11 DEF Store!Add

LEMMA NewBlockMaps ==
  ASSUME CacheInv, ReadInv, StoreInv, InsertNewBlock
  PROVE  StoreInv' /\ Store!Add
<1>. DEFINE part == Span(WriteRange)
            D    == DOMAIN Kept
<1>1. /\ pc = "insert" /\ pc' = "insert" /\ blockStart < arg.end
      /\ arg' = arg /\ blockStart' = blockStart + BLOCK_LEN
      /\ Key \notin DOMAIN dataMap
  BY DEF InsertNewBlock, NextBlock
<1>2. /\ DOMAIN dataMap' = D \cup {Key} /\ Key \notin D
      /\ D = IF LruFull THEN DOMAIN dataMap \ {Head(lruList)} ELSE DOMAIN dataMap
      /\ \A k \in DOMAIN dataMap' : Held(k)' = IF k = Key THEN part ELSE Held(k)
  BY NewBlockHeld
<1>3. /\ Ahead # {} /\ BlockOf(First(Ahead)) = blockStart
      /\ {b \in Ahead : BlockOf(b) = blockStart} = part
      /\ Ahead \ part = {b \in Span(arg) : b >= blockStart + BLOCK_LEN}
      /\ part # {}
  BY <1>1, AheadInBlock
<1>. HIDE DEF part, D
<1>4. StoreInv'
  <2>1. BlockOf(blockStart) = blockStart
    <3>1. blockStart \in Nat /\ BLOCK_LEN \in Nat /\ BLOCK_LEN > 0
      BY CacheAssumption DEF CacheInv, TypeOK
    <3>. QED
      BY <3>1, BlockOfInBlock DEF ReadInv
  <2>. SUFFICES ASSUME NEW k \in DOMAIN dataMap' PROVE (BlockOf(k[2]) = k[2] /\ Held(k) # {})'
    BY DEF StoreInv
  <2>2. PICK key : key = Key
    OBVIOUS
  <2>3. CASE k = key
    <3>1. k[2] = blockStart /\ Held(k)' = part
      BY <1>2, <2>2, <2>3 DEF Key
    <3>. QED
      BY <1>3, <2>1, <3>1 DEF BlockOf
  <2>4. CASE k # key
    <3>1. k \in DOMAIN dataMap /\ Held(k)' = Held(k)
      BY <1>2, <2>2, <2>4
    <3>. QED
      BY <3>1 DEF StoreInv, BlockOf
  <2>. QED
    BY <2>3, <2>4
<1>5. ASSUME NEW name, NEW x
      PROVE  x \in HeldOf(name)' <=> \/ \E k \in D : k[1] = name /\ x \in Held(k)
                                     \/ name = arg.name /\ x \in part
  <2>1. PICK key, d : key = Key /\ d = D
    OBVIOUS
  <2>2. x \in HeldOf(name)' <=> \E k \in d \cup {key} : k[1] = name /\ x \in Held(k)'
    BY <1>2, <2>1 DEF HeldOf
  <2>3. key \notin d /\ key[1] = arg.name
        /\ \A k \in d \cup {key} : Held(k)' = IF k = key THEN part ELSE Held(k)
    BY <1>2, <2>1 DEF Key
  <2>. QED
    BY <2>1, <2>2, <2>3
<1>6. Ahead' = Ahead \ part
  <2>1. Ahead' = {b \in Span(arg) : b >= blockStart + BLOCK_LEN}
    BY <1>1 DEF Ahead, Span
  <2>. QED
    BY <1>3, <2>1
<1>7. Phase = "insert" /\ Phase' = "insert" /\ Returned = 0 /\ Returned' = 0
  BY <1>1 DEF Phase, Returned
<1>8. Store!InBlock(Ahead, blockStart) = part
  BY <1>3, SameOperators DEF Store!InBlock
<1>9. Store!BlockOf(Store!First(Ahead)) = blockStart
  BY <1>3, SameOperators
<1>10. <<arg.name, blockStart>> \notin Store!HeldBlocks
  BY <1>1, BlocksAreKeys DEF Key
<1>11. Cardinality(Store!HeldBlocks) = Len(lruList) /\ Len(lruList) \in Nat /\ MAX_BLOCK_NUM \in Nat
       /\ arg.name \in Names
  <2>1. arg.name \in Names
    BY <1>1 DEF CacheInv, TypeOK, Args
  <2>. QED
    BY <2>1, BlocksAreKeys, BlockCount, CacheAssumption DEF CacheInv, TypeOK
<1>12. CASE ~ LruFull
  <2>1. Store!Cardinality(Store!HeldBlocks) < MAX_BLOCK_NUM
    BY SameOperators, <1>11, <1>12 DEF LruFull
  <2>2. \A name : HeldOf(name)' = HeldOf(name) \cup IF name = arg.name THEN part ELSE {}
    BY <1>2, <1>5, <1>12 DEF HeldOf
  <2>3. HeldBytes' = [HeldBytes EXCEPT ![arg.name] = @ \cup part]
    BY <2>2 DEF HeldBytes
  <2>4. Store!Add
    BY <1>1, <1>3, <1>6, <1>7, <1>8, <1>9, <2>1, <2>3 DEF Store!Add
  <2>. QED
    BY <1>4, <2>4
<1>13. CASE LruFull
  <2>1. ~ (Store!Cardinality(Store!HeldBlocks) < MAX_BLOCK_NUM)
    BY SameOperators, <1>11, <1>13 DEF LruFull
  <2>2. PICK old : old = Head(lruList)
    OBVIOUS
  <2>3. old \in DOMAIN dataMap /\ D = DOMAIN dataMap \ {old}
    <3>1. lruList \in Seq(Keys) /\ Len(lruList) >= 1
      BY <1>11, <1>13, CacheAssumption DEF CacheInv, TypeOK, LruFull
    <3>2. old = lruList[1] /\ 1 \in 1 .. Len(lruList)
      BY <2>2, <3>1
    <3>. QED
      BY <1>2, <1>13, <2>2, <3>2 DEF CacheInv, LruAgrees
  <2>4. old[1] \in Names /\ old = <<old[1], old[2]>>
    BY <2>3, KeyParts DEF CacheInv
  <2>5. ASSUME NEW name, NEW x
        PROVE  (\E k \in D : k[1] = name /\ x \in Held(k))
               <=> x \in HeldOf(name) /\ ~ (name = old[1] /\ BlockOf(x) = old[2])
    <3>1. ASSUME NEW k \in DOMAIN dataMap, x \in Held(k)
          PROVE  k = <<k[1], BlockOf(x)>>
      BY <3>1, HeldInBlock DEF StoreInv
    <3>2. ASSUME NEW k \in DOMAIN dataMap, x \in Held(k), k[1] = name
          PROVE  k = old <=> name = old[1] /\ BlockOf(x) = old[2]
      BY <2>4, <3>1, <3>2
    <3>. QED
      BY <2>3, <3>2 DEF HeldOf
  <2>6. Store!InBlock(HeldOf(old[1]), old[2]) = {b \in HeldOf(old[1]) : BlockOf(b) = old[2]}
    BY SameOperators DEF Store!InBlock
  <2>7. \A name : HeldOf(name)' =
          (HeldOf(name) \ IF name = old[1] THEN Store!InBlock(HeldOf(old[1]), old[2]) ELSE {})
          \cup IF name = arg.name THEN part ELSE {}
    <3>. TAKE name
    <3>. DEFINE gone == IF name = old[1] THEN Store!InBlock(HeldOf(old[1]), old[2]) ELSE {}
    <3>1. ASSUME NEW x
          PROVE  x \in HeldOf(name)' <=> x \in (HeldOf(name) \ gone) \cup IF name = arg.name THEN part ELSE {}
      <4>1. x \in HeldOf(name) \ gone
            <=> x \in HeldOf(name) /\ ~ (name = old[1] /\ BlockOf(x) = old[2])
        BY <2>6
      <4>2. x \in HeldOf(name)' <=> \/ x \in HeldOf(name) /\ ~ (name = old[1] /\ BlockOf(x) = old[2])
                                    \/ name = arg.name /\ x \in part
        BY <1>5, <2>5
      <4>. HIDE DEF gone
      <4>. QED
        BY <4>1, <4>2
    <3>. QED
      BY <3>1
  <2>. DEFINE without == [HeldBytes EXCEPT ![old[1]] = @ \ Store!InBlock(@, old[2])]
  <2>8. HeldBytes' = [without EXCEPT ![arg.name] = @ \cup part]
    <3>1. without = [name \in Names |->
                       HeldOf(name) \ IF name = old[1] THEN Store!InBlock(HeldOf(old[1]), old[2]) ELSE {}]
      BY <2>4 DEF HeldBytes
    <3>. QED
      BY <2>7, <3>1 DEF HeldBytes
  <2>9. old \in Store!HeldBlocks
    BY <2>3, BlocksAreKeys
  <2>10. Store!Add
    BY <1>1, <1>3, <1>6, <1>7, <1>8, <1>9, <1>10, <2>1, <2>8, <2>9 DEF Store!Add
  <2>. QED
    BY <1>4, <2>10
<1>. QED
  BY <1>12, <1>13

LEMMA UnionStutters ==
  ASSUME CacheInv, StoreInv, UnionAbsorb \/ UnionSubset \/ UnionPlace
  PROVE  StoreInv' /\ UNCHANGED Store!vars
<1>1. DOMAIN dataMap' = DOMAIN dataMap /\ \A k \in DOMAIN dataMap : Held(k)' = Held(k)
  BY AbsorbHeld, SubsetHeld, PlaceHeld
<1>2. StoreInv' /\ HeldBytes' = HeldBytes
  BY <1>1, SameHeld
<1>3. /\ pc = "union" /\ arg' = arg
      /\ \/ pc' = "union" /\ blockStart' = blockStart
         \/ pc' = "insert" /\ blockStart' = blockStart + BLOCK_LEN
  BY DEF UnionAbsorb, UnionSubset, UnionPlace, NextBlock
<1>4. Ahead' = Ahead
  BY <1>3 DEF Ahead, Span
<1>5. Phase' = Phase /\ Returned' = Returned
  BY <1>3 DEF Phase, Returned
<1>. QED
  BY <1>2, <1>3, <1>4, <1>5 DEF Store!vars

LEMMA InsertEndMaps ==
  ASSUME CacheInv, StoreInv, InsertEnd
  PROVE  StoreInv' /\ Store!InsertDone
<1>1. pc = "insert" /\ pc' = "return" /\ blockStart >= arg.end /\ dataMap' = dataMap
      /\ arg' = arg /\ readlen' = readlen
  BY DEF InsertEnd
<1>2. StoreInv' /\ HeldBytes' = HeldBytes
  BY <1>1, SameHeld, SameHeldWithMap
<1>3. Ahead = {} /\ Ahead' = {}
  <2>1. arg.start \in Nat /\ arg.end \in Nat /\ blockStart \in Nat
    BY <1>1, CallNumbers
  <2>2. Ahead = {b \in Span(arg) : b >= blockStart}
    BY <1>1 DEF Ahead
  <2>3. Ahead = {}
    BY <1>1, <2>1, <2>2 DEF Span
  <2>. QED
    BY <1>1, <2>3 DEF Ahead
<1>4. Phase = "insert" /\ Phase' = "done" /\ Returned = 0 /\ Returned' = 0
  BY <1>1 DEF Phase, Returned, CacheInv, CallInRange
<1>. QED
  BY <1>1, <1>2, <1>3, <1>4 DEF Store!InsertDone

LEMMA ReturnMaps ==
  ASSUME CacheInv, StoreInv, Return
  PROVE  StoreInv' /\ Store!Return
<1>1. pc = "return" /\ pc' = "idle" /\ dataMap' = dataMap /\ arg' = NoCall
  BY DEF Return
<1>2. StoreInv' /\ HeldBytes' = HeldBytes
  BY <1>1, SameHeld, SameHeldWithMap
<1>3. Phase = "done" /\ Phase' = "idle" /\ Returned' = 0 /\ Ahead = {} /\ Ahead' = {}
      /\ arg' = Store!NoCall
  BY <1>1 DEF Phase, Returned, Ahead, NoCall, Store!NoCall
<1>. QED
  BY <1>2, <1>3 DEF Store!Return

(* The end of the prefix that a read returns is where the store ends it.   *)
LEMMA ReadReturns ==
  ASSUME CacheInv, ReadInv, StoreInv, CacheInv', ReadInv', pc = "read", pc' = "return",
         arg' = arg, dataMap' = dataMap
  PROVE  StoreInv' /\ Store!ReadDone
<1>1. StoreInv' /\ HeldBytes' = HeldBytes
  BY SameHeld, SameHeldWithMap
<1>2. /\ arg.start \in Nat /\ arg.end \in Nat /\ arg.start < arg.end
      /\ arg.name \in Names /\ arg.op = "read" /\ readlen' \in Nat
  <2>1. readlen' \in Nat
    BY CacheAssumption DEF CacheInv, TypeOK
  <2>2. arg.op = "read"
    BY DEF ReadInv, OpOfCall
  <2>3. arg.name \in Names
    BY DEF CacheInv, TypeOK, Args
  <2>. QED
    BY <2>1, <2>2, <2>3, CallNumbers
<1>3. ASSUME NEW x PROVE Has(arg.name, x)' <=> x \in HeldBytes[arg.name]
  <2>1. Has(arg.name, x)' <=> Has(arg.name, x)
    BY DEF Has, Claimed, Used, Span, BlockOf
  <2>2. Has(arg.name, x) <=> x \in HeldOf(arg.name)
    BY HeldByBlock DEF Has, Held
  <2>. QED
    BY <1>2, <2>1, <2>2 DEF HeldBytes
<1>0. PICK m : m = arg.start + readlen'
  OBVIOUS
<1>4. /\ m <= arg.end
      /\ \A x \in arg.start .. m - 1 : x \in HeldBytes[arg.name]
      /\ m < arg.end => m \notin HeldBytes[arg.name]
  <2>1. arg'.op = "read" /\ arg'.start = arg.start /\ arg'.end = arg.end
    BY <1>2
  <2>2. /\ m <= arg.end
        /\ \A x \in arg.start .. m - 1 : Has(arg.name, x)'
        /\ m < arg.end => ~ Has(arg.name, m)'
    <3>1. ReadIsLongestPrefix'
      BY DEF ReadInv
    <3>2. Has(arg.name, arg.start + readlen)' <=> Has(arg.name, m)'
      BY <1>0, <2>1 DEF Has, BlockOf
    <3>. QED
      BY <1>0, <1>2, <2>1, <3>1, <3>2 DEF ReadIsLongestPrefix
  <2>. QED
    BY <1>3, <2>2
<1>. DEFINE E == {b \in arg.start .. arg.end : b = arg.end \/ b \notin HeldBytes[arg.name]}
<1>5. m \in E /\ E \subseteq Nat
  BY <1>0, <1>2, <1>4
<1>6. \A b \in E : m <= b
  BY <1>0, <1>2, <1>4
<1>. HIDE DEF E
<1>7. First(E) = m
  <2>1. First(E) \in E /\ First(E) <= m
    BY <1>5, FirstIsLeast
  <2>2. First(E) \in Nat /\ m \in Nat /\ m <= First(E)
    BY <1>5, <1>6, <2>1
  <2>. QED
    BY <2>1, <2>2
<1>8. ServedEnd(HeldBytes[arg.name], arg) = m
  BY <1>7 DEF ServedEnd, E
<1>9. Returned' = Store!ServedEnd(HeldBytes[arg.name], arg) - arg.start
  BY <1>0, <1>2, <1>8, SameOperators DEF Returned
<1>10. Phase = "read" /\ Phase' = "done" /\ Ahead = {} /\ Ahead' = {}
  BY DEF Phase, Ahead
<1>. QED
  BY <1>1, <1>9, <1>10 DEF Store!ReadDone

LEMMA ReadMaps ==
  ASSUME CacheInv, ReadInv, StoreInv, CacheInv', ReadInv', ReadBlock \/ ReadEnd
  PROVE  StoreInv' /\ (Store!ReadDone \/ UNCHANGED Store!vars)
<1>1. pc = "read" /\ pc' \in {"read", "return"} /\ arg' = arg /\ dataMap' = dataMap
  BY DEF ReadBlock, ReadEnd
<1>2. CASE pc' = "return"
  BY <1>1, <1>2, ReadReturns
<1>3. CASE pc' = "read"
  <2>1. StoreInv' /\ HeldBytes' = HeldBytes
    BY <1>1, <1>3, SameHeld, SameHeldWithMap
  <2>2. Phase' = Phase /\ Ahead' = Ahead /\ Returned' = Returned
    BY <1>1, <1>3 DEF Phase, Ahead, Returned
  <2>. QED
    BY <1>1, <2>1, <2>2 DEF Store!vars
<1>. QED
  BY <1>1, <1>2, <1>3

LEMMA StutterMaps ==
  ASSUME StoreInv, UNCHANGED vars
  PROVE  StoreInv' /\ UNCHANGED Store!vars
<1>1. \A k \in DOMAIN dataMap : Held(k)' = Held(k)
  BY DEF vars, Held, Key, Claimed, Used, Span
<1>2. StoreInv' /\ HeldBytes' = HeldBytes
  BY <1>1, SameHeld DEF vars
<1>3. Phase' = Phase /\ Ahead' = Ahead /\ Returned' = Returned
  BY DEF vars, Phase, Ahead, Returned, Span
<1>. QED
  BY <1>2, <1>3 DEF vars, Store!vars

(* A block has finitely many pieces.                                       *)
LEMMA PiecesFinite ==
  ASSUME NEW S, NEW k \in Nat
  PROVE  IsFiniteSet(Store!Pieces(S, k))
<1>. DEFINE I == k .. k + BLOCK_LEN
            A == [start : I, end : I]
            g == [p \in I \X I |-> [start |-> p[1], end |-> p[2]]]
<1>1. BLOCK_LEN \in Nat
  BY CacheAssumption
<1>2. IsFiniteSet(I)
  BY <1>1, FS_Interval
<1>. HIDE DEF I
<1>3. IsFiniteSet(I \X I)
  BY <1>2, FS_Product
<1>4. g \in [I \X I -> A]
  OBVIOUS
<1>5. ASSUME NEW r \in A PROVE \E p \in I \X I : g[p] = r
  <2>1. <<r.start, r.end>> \in I \X I
    OBVIOUS
  <2>2. g[<<r.start, r.end>>] = r
    BY <2>1
  <2>. QED
    BY <2>1, <2>2
<1>. HIDE DEF g
<1>6. g \in Surjection(I \X I, A)
  BY <1>4, <1>5 DEF Surjection
<1>. HIDE DEF A
<1>7. IsFiniteSet(A)
  BY <1>3, <1>6, FS_Surjection
<1>8. Store!Pieces(S, k) \subseteq A
  BY DEF Store!Pieces, A, I
<1>. QED
  BY <1>7, <1>8, FS_Subset

(* Ranges of a block that lie apart and hold all that S has of the block   *)
(* are pieces of S, each another one.                                      *)
LEMMA RangesArePieces ==
  ASSUME NEW n \in Nat, NEW k \in Nat, NEW F, NEW S,
         \A j \in 0 .. n : /\ F[j] \in Ranges
                           /\ k <= F[j].start /\ F[j].start < F[j].end /\ F[j].end <= k + BLOCK_LEN,
         \A i, j \in 0 .. n : i # j => Apart(F[i], F[j]) \/ Apart(F[j], F[i]),
         \A x \in k .. k + BLOCK_LEN - 1 : x \in S <=> \E j \in 0 .. n : x \in Span(F[j])
  PROVE  /\ \A j \in 0 .. n : F[j] \in Store!Pieces(S, k)
         /\ Cardinality(Store!Pieces(S, k)) > n
<1>1. BLOCK_LEN \in Nat /\ MaxByte \in Nat
  BY CacheAssumption
<1>2. \A j \in 0 .. n : /\ F[j].start \in Nat /\ F[j].end \in Nat
                        /\ k <= F[j].start /\ F[j].start < F[j].end /\ F[j].end <= k + BLOCK_LEN
  BY <1>1 DEF Ranges, Bytes
<1>3. ASSUME NEW j \in 0 .. n PROVE F[j] \in Store!Pieces(S, k)
  <2>1. F[j] \in [start : k .. k + BLOCK_LEN, end : k .. k + BLOCK_LEN]
    <3>1. F[j] = [start |-> F[j].start, end |-> F[j].end]
      BY DEF Ranges
    <3>2. F[j].start \in k .. k + BLOCK_LEN /\ F[j].end \in k .. k + BLOCK_LEN
      BY <1>1, <1>2
    <3>. QED
      BY <3>1, <3>2
  <2>2. Span(F[j]) \subseteq S
    <3>. SUFFICES ASSUME NEW x \in Span(F[j]) PROVE x \in S
      OBVIOUS
    <3>1. x \in k .. k + BLOCK_LEN - 1
      BY <1>1, <1>2 DEF Span
    <3>. QED
      BY <3>1
  <2>3. ASSUME NEW x \in k .. k + BLOCK_LEN - 1, x = F[j].start - 1 \/ x = F[j].end
        PROVE  x \notin S
    <3>. SUFFICES ASSUME NEW i \in 0 .. n, x \in Span(F[i]) PROVE FALSE
      OBVIOUS
    <3>1. F[i].start <= x /\ x < F[i].end /\ x \in Nat
      BY <1>1, <1>2 DEF Span
    <3>2. i # j
      BY <1>2, <2>3, <3>1
    <3>. QED
      BY <1>2, <2>3, <3>1, <3>2 DEF Apart
  <2>4. F[j].start = k \/ F[j].start - 1 \notin S
    <3>. SUFFICES ASSUME F[j].start # k PROVE F[j].start - 1 \notin S
      OBVIOUS
    <3>1. F[j].start - 1 \in k .. k + BLOCK_LEN - 1
      BY <1>1, <1>2
    <3>. QED
      BY <2>3, <3>1
  <2>5. F[j].end = k + BLOCK_LEN \/ F[j].end \notin S
    <3>. SUFFICES ASSUME F[j].end # k + BLOCK_LEN PROVE F[j].end \notin S
      OBVIOUS
    <3>1. F[j].end \in k .. k + BLOCK_LEN - 1
      BY <1>1, <1>2
    <3>. QED
      BY <2>3, <3>1
  <2>. QED
    BY <2>1, <2>2, <2>4, <2>5, SameOperators DEF Store!Pieces
<1>. DEFINE P == Store!Pieces(S, k)
            g == [j \in 0 .. n |-> F[j]]
<1>4. IsFiniteSet(P)
  BY PiecesFinite
<1>. HIDE DEF P
<1>5. g \in [0 .. n -> P]
  BY <1>3 DEF P
<1>6. ASSUME NEW i \in 0 .. n, NEW j \in 0 .. n, g[i] = g[j] PROVE i = j
  <2>. SUFFICES ASSUME i # j PROVE FALSE
    OBVIOUS
  <2>1. F[i] = F[j] /\ (Apart(F[i], F[j]) \/ Apart(F[j], F[i]))
    BY <1>6
  <2>. QED
    BY <1>2, <2>1 DEF Apart
<1>7. DOMAIN g = 0 .. n
  OBVIOUS
<1>. HIDE DEF g
<1>8. g \in Injection(0 .. n, P)
  BY <1>5, <1>6, <1>7 DEF Injection, IsInjective
<1>9. Cardinality(0 .. n) <= Cardinality(P)
  BY <1>4, <1>8, FS_Injection
<1>10. Cardinality(0 .. n) = n + 1
  <2>1. Cardinality(0 .. n) = IF 0 > n THEN 0 ELSE n - 0 + 1
    BY FS_Interval
  <2>. QED
    BY <2>1
<1>11. Cardinality(P) \in Nat
  BY <1>4, FS_CardinalityType
<1>. QED
  BY <1>3, <1>9, <1>10, <1>11 DEF P

(* The slots of the full table and newRange are BLOCK_SEG_NUM + 1 pieces   *)
(* of what the name holds of the block.                                    *)
LEMMA OverflowPieces ==
  ASSUME CacheInv, ReadInv, StoreInv, UnionOverflow
  PROVE  LET b == dataMap[Key]
             P == Store!Pieces(HeldOf(arg.name), blockStart)
         IN (\A i \in Slots : b.ranges[i] \in P) /\ Cardinality(P) > BLOCK_SEG_NUM
<1>. DEFINE b == dataMap[Key]
            n == BLOCK_SEG_NUM
            F == [j \in 0 .. n |-> IF j = n THEN newRange ELSE b.ranges[j]]
            S == HeldOf(arg.name)
<1>1. /\ Key \in DOMAIN dataMap /\ Used(b) = Slots
      /\ \A i \in Slots : Apart(newRange, b.ranges[i]) /\ Apart(b.ranges[i], newRange)
      /\ Held(Key) = Claimed(b) \cup Span(newRange)
  BY OverflowHeld
<1>2. n \in Nat /\ n > 0 /\ BLOCK_LEN \in Nat /\ BLOCK_LEN > 0
  BY CacheAssumption
<1>3. pc = "union"
  BY DEF UnionOverflow
<1>4. /\ newRange \in Ranges /\ newRange.start < newRange.end
      /\ blockStart <= newRange.start /\ newRange.end <= blockStart + BLOCK_LEN
      /\ blockStart \in Nat /\ Key[2] = blockStart
      /\ Separated(Key, b) /\ \A i \in Slots : b.ranges[i] \in Ranges
  BY <1>3, InUnion
<1>5. \A i \in Slots : /\ b.ranges[i] \in Ranges
                       /\ blockStart <= b.ranges[i].start /\ b.ranges[i].start < b.ranges[i].end
                       /\ b.ranges[i].end <= blockStart + BLOCK_LEN
  BY <1>1, <1>4 DEF Separated
<1>6. \A i, j \in Slots : i # j => Apart(b.ranges[i], b.ranges[j])
  BY <1>1, <1>4 DEF Separated
<1>7. \A x \in blockStart .. blockStart + BLOCK_LEN - 1 :
        x \in S <=> x \in Span(newRange) \/ \E i \in Slots : x \in Span(b.ranges[i])
  <2>. TAKE x \in blockStart .. blockStart + BLOCK_LEN - 1
  <2>1. x \in Nat /\ blockStart <= x /\ x < blockStart + BLOCK_LEN
    BY <1>2, <1>4
  <2>2. BlockOf(x) = blockStart
    BY <2>1, BlockOfInBlock DEF ReadInv
  <2>3. x \in S <=> x \in Held(Key)
    BY <1>1, <2>2, HeldByBlock DEF Key
  <2>4. x \in Claimed(b) <=> \E i \in Slots : x \in Span(b.ranges[i])
    BY <1>1 DEF Claimed
  <2>. QED
    BY <1>1, <2>3, <2>4
<1>. HIDE DEF b, S
<1>8. /\ F[n] = newRange /\ n \in 0 .. n
      /\ \A j \in 0 .. n : j # n => j \in Slots /\ F[j] = b.ranges[j]
      /\ \A j \in Slots : j \in 0 .. n /\ F[j] = b.ranges[j]
  BY <1>2 DEF Slots
<1>. HIDE DEF F
<1>9. \A j \in 0 .. n : /\ F[j] \in Ranges
                        /\ blockStart <= F[j].start /\ F[j].start < F[j].end
                        /\ F[j].end <= blockStart + BLOCK_LEN
  BY <1>4, <1>5, <1>8
<1>10. \A i, j \in 0 .. n : i # j => Apart(F[i], F[j]) \/ Apart(F[j], F[i])
  BY <1>1, <1>6, <1>8 DEF b
<1>11. \A x \in blockStart .. blockStart + BLOCK_LEN - 1 : x \in S <=> \E j \in 0 .. n : x \in Span(F[j])
  BY <1>7, <1>8
<1>12. /\ \A j \in 0 .. n : F[j] \in Store!Pieces(S, blockStart)
       /\ Cardinality(Store!Pieces(S, blockStart)) > n
  BY <1>2, <1>4, <1>9, <1>10, <1>11, RangesArePieces
<1>. QED
  BY <1>8, <1>12 DEF b, S

LEMMA OverflowMaps ==
  ASSUME CacheInv, ReadInv, StoreInv, UnionOverflow
  PROVE  StoreInv' /\ Store!InsertGivesUp
<1>. DEFINE b   == dataMap[Key]
            pos == (b.lastPos + 1) % BLOCK_SEG_NUM
            old == b.ranges[pos]
<1>1. pc = "union" /\ pc' = "return" /\ arg' = arg /\ readlen' = readlen
  BY DEF UnionOverflow
<1>2. /\ DOMAIN dataMap' = DOMAIN dataMap /\ Key \in DOMAIN dataMap
      /\ pos \in Slots /\ Used(b) = Slots
      /\ \A i \in Slots : Apart(newRange, b.ranges[i])
      /\ Held(Key) = Claimed(b) \cup Span(newRange)
      /\ \A k \in DOMAIN dataMap : Held(k)' = IF k = Key THEN Held(k) \ Span(old) ELSE Held(k)
  BY OverflowHeld
<1>3. /\ newRange \in Ranges /\ old \in Ranges /\ newRange.start < newRange.end
      /\ blockStart <= newRange.start /\ newRange.start <= WriteRange.start
      /\ WriteRange.end <= newRange.end
      /\ blockStart <= old.start /\ old.end <= blockStart + BLOCK_LEN
      /\ Apart(newRange, old)
      /\ WriteRange \in Ranges
  BY <1>1, <1>2, InUnion DEF Separated
<1>4. /\ arg.start \in Nat /\ arg.end \in Nat /\ arg.start < arg.end
      /\ blockStart \in Nat /\ BLOCK_LEN \in Nat /\ BLOCK_LEN > 0
      /\ blockStart < arg.end /\ arg.start < blockStart + BLOCK_LEN
      /\ arg.name \in Names
  BY <1>1, InUnion DEF Args
<1>5. old \in Store!Pieces(HeldOf(arg.name), blockStart)
      /\ Cardinality(Store!Pieces(HeldOf(arg.name), blockStart)) > BLOCK_SEG_NUM
  BY <1>2, OverflowPieces
<1>6. Span(old) \subseteq Claimed(b)
  BY <1>2 DEF Claimed
<1>. HIDE DEF old, pos, b
<1>7. newRange.start \in Span(newRange) /\ newRange.start \notin Span(old)
  BY <1>3, CacheAssumption DEF Ranges, Bytes, Span, Apart
<1>8. StoreInv'
  <2>. SUFFICES ASSUME NEW k \in DOMAIN dataMap' PROVE (BlockOf(k[2]) = k[2] /\ Held(k) # {})'
    BY DEF StoreInv
  <2>1. BlockOf(k[2]) = k[2] /\ Held(k) # {}
    BY <1>2 DEF StoreInv
  <2>2. Held(k)' # {}
    BY <1>2, <1>7, <2>1
  <2>. QED
    BY <2>1, <2>2 DEF BlockOf
<1>9. ASSUME NEW name
      PROVE  HeldOf(name)' = HeldOf(name) \ IF name = arg.name THEN Span(old) ELSE {}
  <2>1. PICK key, D : key = Key /\ D = DOMAIN dataMap
    OBVIOUS
  <2>2. \A x : x \in HeldOf(name) <=> \E k \in D : k[1] = name /\ x \in Held(k)
    BY <2>1 DEF HeldOf
  <2>3. \A x : x \in HeldOf(name)' <=> \E k \in D : k[1] = name /\ x \in Held(k)'
    BY <1>2, <2>1 DEF HeldOf
  <2>4. key \in D /\ key[1] = arg.name /\ Span(old) \subseteq Held(key)
        /\ \A k \in D : Held(k)' = IF k = key THEN Held(k) \ Span(old) ELSE Held(k)
    BY <1>2, <1>6, <2>1 DEF Key
  <2>5. ASSUME NEW k \in D, k[1] = arg.name, NEW x \in Span(old), x \in Held(k) PROVE k = key
    <3>1. k = <<k[1], BlockOf(x)>>
      BY <2>1, <2>5, HeldInBlock DEF StoreInv
    <3>2. key = <<key[1], BlockOf(x)>>
      BY <2>1, <2>4, HeldInBlock DEF StoreInv
    <3>. QED
      BY <2>4, <2>5, <3>1, <3>2
  <2>. QED
    BY <2>2, <2>3, <2>4, <2>5
<1>10. HeldBytes' = [HeldBytes EXCEPT ![arg.name] = @ \ Span(old)]
  BY <1>9 DEF HeldBytes
<1>11. PICK w : w = WriteRange.start
  OBVIOUS
<1>12. w \in Span(arg) \ Ahead /\ BlockOf(w) = blockStart
  <2>1. /\ w \in Nat /\ arg.start <= w /\ w < arg.end
        /\ blockStart <= w /\ w < blockStart + BLOCK_LEN
    BY <1>4, <1>11 DEF WriteRange, Higher
  <2>2. Ahead = {x \in Span(arg) : x >= blockStart + BLOCK_LEN}
    BY <1>1 DEF Ahead
  <2>3. BlockOf(w) = blockStart
    BY <2>1, BlockOfInBlock DEF ReadInv
  <2>. QED
    BY <1>4, <2>1, <2>2, <2>3 DEF Span
<1>13. Span(old) \cap Span(arg) = {}
  <2>. SUFFICES ASSUME NEW x \in Span(old), x \in Span(arg) PROVE FALSE
    OBVIOUS
  <2>1. x \in Nat /\ old.start <= x /\ x < old.end /\ arg.start <= x /\ x < arg.end
        /\ old.start \in Nat /\ old.end \in Nat
    BY <1>3, <1>4, CacheAssumption DEF Span, Ranges, Bytes
  <2>2. WriteRange.start <= x /\ x < WriteRange.end
    BY <1>3, <1>4, <2>1 DEF WriteRange, Higher, Lower
  <2>3. newRange.start \in Nat /\ newRange.end \in Nat
        /\ WriteRange.start \in Nat /\ WriteRange.end \in Nat
    BY <1>3, CacheAssumption DEF Ranges, Bytes
  <2>. QED
    BY <1>3, <2>1, <2>2, <2>3 DEF Apart
<1>14. Phase = "insert" /\ Phase' = "done" /\ Ahead' = {} /\ Returned = 0 /\ Returned' = 0
  BY <1>1 DEF Phase, Ahead, Returned, CacheInv, CallInRange
<1>15. HeldBytes[arg.name] = HeldOf(arg.name)
  BY <1>4 DEF HeldBytes
<1>. QED
  BY <1>1, <1>5, <1>8, <1>10, <1>12, <1>13, <1>14, <1>15, SameOperators
     DEF Store!InsertGivesUp

-----------------------------------------------------------------------------
(* The whole step, and the theorem.                                        *)

LEMMA StoreInvNext ==
  CacheInv /\ ReadInv /\ StoreInv /\ CacheInv' /\ ReadInv' /\ [Next]_vars
    => StoreInv' /\ [Store!Next]_(Store!vars)
<1>. SUFFICES ASSUME CacheInv, ReadInv, StoreInv, CacheInv', ReadInv', [Next]_vars
              PROVE  StoreInv' /\ [Store!Next]_(Store!vars)
  OBVIOUS
<1>. USE DEF Store!Next
<1>1. ASSUME NEW name \in Names, NEW start \in Bytes, NEW end \in Bytes, start < end,
             Insert(name, start, end) \/ Read(name, start, end)
      PROVE  StoreInv' /\ [Store!Next]_(Store!vars)
  BY <1>1, CallMaps
<1>2. CASE InsertNewBlock
  BY <1>2, NewBlockMaps
<1>3. CASE InsertOldBlock
  BY <1>3, OldBlockMaps
<1>4. CASE UnionAbsorb \/ UnionSubset \/ UnionPlace
  BY <1>4, UnionStutters
<1>5. CASE UnionOverflow
  BY <1>5, OverflowMaps
<1>6. CASE InsertEnd
  BY <1>6, InsertEndMaps
<1>7. CASE ReadBlock \/ ReadEnd
  BY <1>7, ReadMaps
<1>8. CASE Return
  BY <1>8, ReturnMaps
<1>9. CASE UNCHANGED vars
  BY <1>9, StutterMaps
<1>. QED
  BY <1>1, <1>2, <1>3, <1>4, <1>5, <1>6, <1>7, <1>8, <1>9 DEF Next

(* The blocks of the map can be told from the bytes they hold: none of     *)
(* them is empty, or starts inside a block (addBlock, cache.cpp:26-55).    *)
THEOREM StoreInvariant == Spec => []StoreInv
<1>1. Init => StoreInv
  BY InitMaps
<1>2. CacheInv /\ CacheInv' /\ ReadInv /\ ReadInv' /\ StoreInv /\ [Next]_vars => StoreInv'
  BY StoreInvNext
<1>. QED
  BY <1>1, <1>2, CacheInvariant, ReadInvariant, PTL DEF Spec

(* The cache implements LeotpStore: its users may take it for a set of     *)
(* bytes that a read returns the longest prefix of, from which only a full *)
(* cache and a full range table take bytes away (cache.cpp:26-178).        *)
THEOREM CacheImplementsStore == Spec => StoreSpec
<1>1. Init => Store!Init
  BY InitMaps
<1>2. CacheInv /\ CacheInv' /\ ReadInv /\ ReadInv' /\ StoreInv /\ [Next]_vars
        => [Store!Next]_(Store!vars)
  BY StoreInvNext
<1>. QED
  BY <1>1, <1>2, CacheInvariant, ReadInvariant, StoreInvariant, PTL
     DEF Spec, StoreSpec, Store!Spec
=============================================================================
