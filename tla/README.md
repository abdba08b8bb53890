# LEOTP in TLA+

LEOTP is an information-centric transport protocol for satellite networks. A
*requester* sends *interests*, requests for byte ranges of a stream, towards a
*responder*; the data comes back through *midnodes* that keep it in a cache,
notice losses on their link and ask for the missing bytes themselves. This
directory holds models of that code, the TLC runs that check them and the
proofs that TLAPS checks. Paths such as `leotp.cpp:641` are relative to `src/`,
headers to `src/include/`.

## 1. The system

### Components

| component | code | state it keeps | operations | modelled in |
|---|---|---|---|---|
| Cache | `cache.cpp`, `cache.h` | `dataMap` (blocks by name and offset), `lruList` | `insert`, `read` | `LeotpCache` |
| ByteMap | `ByteMap.h` | a hash map | `setValue`, `findIter`, `readValue`, `erase` | function updates in `LeotpCache` |
| LeotpTransCB, requester | `leotp.cpp` | `intQueue`, `intBuf`, `intBufBytes`, `intOutputLimit`, `rcvBuf`, `rcvBufItrs`, `rcvNxt`, `rcvQueue`, `dataHoles`, `dataNextRangeStart` | `request`, `input`, `recv`, `update` | `LeotpRequester`, `LeotpHoles` |
| LeotpTransCB, midnode | `leotp.cpp` | the same lists, `sndQueue`, `dataOutputLimit` | `input`, `recv`, `update` | `LeotpMidnode`, `LeotpHoles`, `LeotpSender` |
| LeotpTransCB, responder | `leotp.cpp` | `pendingInts`, `sndQueue`, `dataOutputLimit` | `input`, `notifyNewData`, `update` | `LeotpResponder`, `LeotpSender`; driven by `LeotpPath` |
| RTT and RTO | `leotp.cpp:238-316`, `1213-1222` | `srtt`, `rttvar`, `rto`, `conseqTimeout` | `updateRTT`, the backoff of `flushIntBuf` | `LeotpTimer` |
| congestion control | `leotp.cpp:318-336`, `1445-1583` | `cwnd`, `hrttQueue`, `hopSrtt`, rates and limits | `updateCwnd`, `getDataSendRate`, `getIntDev`, `updateHopRTT` | the two credits; what a flush adds is left open |
| scheduling | `leotp.cpp:1341-1442`, `udp_leotp.cpp:248-278` | `nextFlushTs` | `check`, `update`, `TransUpdateLoop` | `LeotpTimer` |
| LeotpSess | `udp_leotp.cpp:194-246` | a mutex, one control block | `inputUDP`, `request`, `recvData`, `insertData` | the atomicity of the actions; `StoreTaken` of `LeotpMidnode` is outside the mutex, and so is whatever else uses the cache between two reads of `parseInt` |
| demultiplexing | `udp_leotp.cpp:331-428` | `sessMap` | `udpRecvLoop` | no (section 7) |
| applications | `app/*.cpp` | the next byte to request | `request_func`, `onNewSess`, `provideData` | the client in `LeotpRequester`, the midnode's in `LeotpMidnode`, the server's in `LeotpResponder` |
| start-up | `api.cpp` | none | `startRequester`, ... | no: sequential I/O |
| wire format | `generality.h:185-275` | none | `encode*`, `decode*` | no: stateless, a packet is a range |
| log, statistics | `log.h`, `leotp.h:119-146` | counters | `LOG`, `StatInfo` | only the clearing of `rcvBuf` |

### Interaction

The application calls `request` and `recvData`, the socket thread calls
`inputUDP`, and the update thread calls `check` and `update`. Each takes the
mutex of the session, so the operations of one control block are atomic and
interleave (`udp_leotp.cpp:194-278`). Between nodes there are only UDP packets:
they may be lost, repeated, reordered, and cut differently by each node that
sends the bytes again. The cache is shared by all sessions of a node and has a
mutex of its own. A responder is called back (`onUnsatInt`) while it holds its
session's mutex and inserts the data from inside the callback.

### What is hard

* **List surgery.** Data cuts interests, a hole cuts interests, an interest cuts
  holes, a piece joins runs: every list of ranges is modified in place through
  iterators, and several loops rely on the order of a list.
* **Two structures that must agree.** `rcvBuf` and its index `rcvBufItrs`;
  `dataMap` and `lruList`; `intBuf` and `intBufBytes`.
* **Delivery in order** from a network that gives no guarantees, through two
  buffers of which the second is bounded.
* **Credit and timeouts** decide together whether an interest is sent again.
* **Silent overflow**: a range table, a cache, a receive queue at its limit.
* **Time**: a late `update` finds holes stale; statistics clear a buffer; a
  32-bit clock wraps, may be set, and is read several times in one decision.

The entries of `PROJECT.json` under "hazards" name each at its line.

### What makes each component correct

* Cache: what it claims to hold, it holds; a read gives the longest prefix; the
  LRU list and the map agree; every call returns.
* Requester: each requested byte is in one place, reaches the application once
  and in order; interests are retried until answered; counters match the lists.
* Midnode: each byte of an interest is served or forwarded; the next node is told
  of a hole before it sees it; what the application may take reaches the cache.
* Responder: each byte of an interest is queued once or still pending.
* Requester and responder together: what is requested is delivered, at any rate.
* Timer: `update` is called within a bounded time for every clock value, and a
  timeout is neither early nor late.

## 2. The modules

| module | what it is |
|---|---|
| `ByteRange` | ranges `[start, end)`, the parts of one before, inside and after another, the loops that cut lists of them, and the end of what a read of the cache returns |
| `LeotpHoles` | `insertDataHole`, `deleteDataHole`, `detectDataHole`, with the constant `MaxHole` |
| `LeotpStore` | abstract: a set of bytes of each name, with inserts, reads of the longest prefix and eviction by blocks |
| `LeotpCache` | the cache; a step is one iteration of a loop of the call that holds the mutex; refines `LeotpStore` |
| `LeotpStream` | abstract: the application asks for bytes and is handed them in order, once |
| `LeotpRequester` | the requester's control block, its application and an unreliable network; refines `LeotpStream` |
| `LeotpSender` | what a responder and a midnode share: cutting into segments, the credit and the datagrams of `flushData` |
| `LeotpMidnode` | the midnode's control block, its application and the cache's content; any packets |
| `LeotpResponder` | the responder's control block and its application |
| `LeotpPath` | `LeotpRequester` and an instance of `LeotpResponder`, joined by a network with bounded faults |
| `LeotpTimer` | the clock, the update thread, the RTT estimate, one interest and what the others do to the estimate |
| `ByteRangeProofs` | lemmas on `ByteRange`: recursive functions exist, what concatenation and recutting preserve, sums and coverage of lists |
| `LeotpHolesProofs` | lemmas on data holes, for the two modules that keep them |
| `LeotpCacheProofs`, `LeotpMidnodeProofs`, `LeotpTimerProofs` | theorems on these components |
| `LeotpRequesterProofs` | the requester: the order of its queue and of its holes, the refinement of `LeotpStream` |
| `LeotpRequesterByteProofs` | the requester's bytes: where each is, the credit, the index of `rcvBuf` |
| `LeotpPathProofs` | the responder, and requester and responder together |

Definitions in a module that are introduced by the word "Mutant" are faulty
variants of the definition that follows them; each property is known to notice
one of them (`PROJECT.json`, "mutants").

### LeotpCache

The variables are the two members of `Cache` and the locals of the running call:
`pc` (idle, in the block loop of `insert`, in its union loop, in `read`, about to
return), `arg`, `blockStart`, `newRange` and `readlen`.

| action | code |
|---|---|
| `Insert`, `Read` | entry of the call up to its loop (`cache.cpp:57-62`, `131-139`) |
| `InsertNewBlock` | no such block: `addBlock` (which may drop one), first slot, `memcpy` (`63-74`, `124`) |
| `InsertOldBlock` | the block exists: `newRangeStart`, `newRangeEnd` (`76`) |
| `UnionAbsorb` | one round of `while(1)` that frees a slot (`78-102`) |
| `UnionSubset` | `isSubset`: the table stays, `memcpy` |
| `UnionPlace` | the union goes to the first free slot, `memcpy` (`103-112`) |
| `UnionOverflow` | no slot is free: overwrite one and return early (`113-120`) |
| `ReadBlock`, `ReadEnd` | one round of the loop of `read`, or its end (`140-176`) |
| `InsertEnd`, `Return` | the loop ends; the mutex is released |

The content of a byte is determined by its name and offset, so the data of a
block is the set of offsets that `memcpy` has written; a byte that is claimed and
not in that set is garbage.

`StoreSpec` says that the cache implements `LeotpStore`, which has no range
tables, no LRU list and no data: `held` is the set of bytes that the blocks of a
name claim, together with the range that the union loop has in its locals. A new
block, or the start of the union in an old one, is a step `Add` of the store; the
rounds of the union loop and all rounds of `read` but the last are no steps of it.
The store takes bytes away in two places only: a whole block in `Add`, when the
block it adds to is not there and the cache is full (which block, the store leaves
open), and in `InsertGivesUp`, which needs more pieces of a block than there are
slots. Garbage counts as held: the store is about the claims.

### LeotpRequester

The variables carry the names of the members of `LeotpTransCB`. `measured` stands
for `srtt != 0`. Time is reduced to what the code asks of it: an interest is
`late` when its retransmission timeout has passed since it was last stamped, a
hole is "young", "ripe" (`LEOTP_HOLE_WAIT`) or "stale" (`LEOTP_SNHOLE_TIMEOUT`).
An iterator kept in `rcvBufItrs` is the first byte of the segment it points at.
`asked`, `dropped` and `clears` are history variables.

| action | code |
|---|---|
| `Request` | `request_func`, `request` (`appclient.cpp:21-33`, `leotp.cpp:213-234`) |
| `InputData` | `input` of data: `detectDataHole`, `parseData`, `moveToRcvQueue` |
| `InputHeader` | `input` of a data header: `detectDataHole` only |
| `Recv` | `recv`, with its closing `moveToRcvQueue` |
| `Update` | `update`: the clearing of `rcvBuf`, `flushIntQueue`, `flushIntBuf`, `flushDataHoles` |
| `InterestTimeout`, `HoleAges` | time passes |

The network is the choice of the packet: `Input` takes any range of what was
asked for, at any time and any number of times, of at most `LEOTP_MSS` bytes for
data. Loss is a packet that is never chosen. A midnode's data header may name
any range of what was asked for.

The abstractions: the amount a flush adds to the credit is any member of
`NewOutputs` (the code computes it from rates and times; it is 0 when two flushes
fall in one millisecond, `leotp.cpp:1093`); a completely answered interest may or may not give an RTT sample
(samples below a millisecond are ignored, `leotp.cpp:245`); the bytes that
`parseData` stamps over the payload for measurements (`leotp.cpp:679-680`), the
congestion window and the empty interests that carry rates do not change which
ranges move where.

A dead link ends the process (`exit(0)`); it is the state "dead", in which no
action is enabled, and the remaining variables of that last step keep values
nobody can observe. The double erase of a stale hole is undefined behaviour that
corrupts the heap; it is the state "crashed".

### LeotpMidnode, LeotpResponder and LeotpSender

The variables carry the names of the members again. The cache is `store`, `held` of
`LeotpStore` for the name of the session, which is what the cache implements
(`CacheImplementsStore`, section 4): a read ends where `ServedEnd` says, in both, an
insert adds its bytes, and `DropBlock` is the eviction that an insert, mostly of
another session, causes. In a midnode an insert may find a range table full
(`FullBlocks`): then another piece of that block is lost and nothing is inserted
behind it. A segment is `[start, end, len]`; a data header has `len = 0`. `owed` is a
history variable: bytes of interests and holes that were accepted, less those
queued for sending or forwarded.

`parseInt` of a midnode reads an interest, or a ripe hole of any length, in pieces of
`LEOTP_MSS` (`leotp.cpp:358-372`). The session's mutex is held throughout, the cache's
only within a read. So `reading` holds what is still to be read; while it is not
empty, or a flush is on its way, no other operation of the session starts
(`Unlocked`), but `StoreTaken` and `DropBlock` may come between two reads. A responder
is asked for interests only, which are no longer than `LEOTP_MSS`: one read of its cache
is all there is, and `LeotpResponder` makes it part of `InputInt`.

| action | code |
|---|---|
| `LeotpMidnode!InputInt` | `input` of an interest, up to the loop of `parseInt` |
| `ReadPiece` | one round of that loop: the read, `sendData` of what is there, `request` of the rest |
| `InputPush` | `input` of data or a header: `detectDataHole` with `sendDataHeader`, `parseData`, `moveToRcvQueue` |
| `Recv`, `StoreTaken` | `recv` under the mutex, then `Cache::insert` outside it (`appmid.cpp:20-26`), into a full range table too |
| `LeotpMidnode!Update` | the clearing of `rcvBuf`, `flushIntQueue`, `flushIntBuf`, `flushDataHoles`; the ripe holes are read by `ReadPiece` |
| `LeotpMidnode!FlushData` | the end of that flush: `flushData` |
| `LeotpResponder!InputInt` | `parseInt`, the callback `provideData`, `insertData`, `notifyNewData` |
| `LeotpResponder!FlushData` | `update` of a responder: `flushData` |
| `DropBlock` | `Cache::dropBlock` for another session |

Abstractions: what a flush adds to `dataOutputLimit` is any member of `NewOutputs`
(the code computes it from the rate the next node asks for; it may be 0). A
midnode of the model takes the segments of one datagram as separate inputs,
which lets more operations interleave than the mutex does. A segment whose
length differs from its range is dropped by the code and not sent by any node.
The bytes of the payload are determined by their offsets. `provideData` inserts
all the missing bytes; the model lets it insert a front part of them, which
`onUnsatInt` permits and which is how interests stay pending.

### LeotpPath

`LeotpPath` extends `LeotpRequester` and instantiates `LeotpResponder` as
`Server`. An update of the requester puts the interests it sends
(`FlushedInterests`, `FlushedHoles`) into `toServer`; a flush of the responder
packs segments into datagrams and puts those into `toClient`. `datagram` holds
the segments of the datagram that `input` is working on: while it is not empty
the requester's mutex is held. The network keeps the order of datagrams and
loses some. Everything that goes wrong is counted in `faults`: a lost datagram,
a timeout that passes although the answer is on its way, an application that
provides only a part. The history variable `ignored` counts the segments that
`parseData` passed over although an interest in `intBuf` asks for them (section 5).
(Reordering, repetition and arbitrary timeouts are in the
models of the single nodes.)

### LeotpTimer

`now` is `gettimeofday` in milliseconds cut to `CLOCK` values; `Tick` lets one
pass and `SetClock` sets it. `Check` and `Decide` are the two halves of a round
of `TransUpdateLoop`, before and after the second reading of the clock; `Decide`
is `update` or the `usleep`, whose argument is again cut to 32 bits. One interest
of a requester is followed through its transmissions, and there is credit for it.
`Data` is `parseData`: it resets `conseqTimeout`, and either answers the interest
(`Answer`, with `updateRTT`), or another one or only a part of one (`OtherAnswer`, with
or without a sample). In a flush another interest may time out as well (`others` in
`FlushInterest`), which counts, and backs off, once per flush. What happens to
another interest after that is not followed; if it were given up the process
would end. The readings of the clock inside `Decide` are one reading: they
are made without a pause, and the thread holds the mutex. `lag` bounds how long a
thread that can run waits for the processor and the mutex; `sinceFlush` and
`sinceSent` measure real time, `flushRto` is `rto` as the last flush found it, and
`readBack` notes that the second reading was
smaller than the first.

## 3. What is checked

All properties are stated at the end of their module with the code behaviour they
are about. `CHECK_DEADLOCK FALSE` stands in the configurations of processes that
may end: by a dead link (`exit(0)`), in the requester, the path and the timer, or
by the double erase of a stale hole in the midnode.

| run | bounds | properties | what it shows |
|---|---|---|---|
| `cache_ranges` | two blocks of 5 bytes, offsets to 7, 2 slots | `TypeOK`, `RangesSeparated`, `GarbageOnlyAfterOverflow`, `ClaimsOnlyGrow`, `CallReturns` | the union of ranges keeps the table separated and honest until it overflows; every call returns |
| `cache_lru` | three blocks of 3 bytes for a cache of 2, 1 slot | `LruAgrees`, `ReadIsLongestPrefix`, `InsertCompletes`, `StoreSpec` | list and map agree through evictions; reads return the longest prefix; what an insert guarantees; to its users the cache is a set of bytes |
| `requester` | 5 bytes, segments of 3, receive queue of 2, an initial credit of 4 and 0 or 3 of a flush, dead link after 2, 1 clearing | `TypeOK`, `EveryByteOnce`, `IntBufAccounted`, `QueueInOrder`, `RunsDescribeBuf`, `HolesInOrder`, `CreditKept`, `AnsweredStays`, `StreamSpec` | bytes are accounted for and delivered in order under every network behaviour |
| `requester_live` | 3 requests of 1 byte, receive queue of 1, refused from 2 bytes on | `AnsweredOrDead`, `ReadyIsRead` | no interest is left behind; data that waits for room is delivered |
| `midnode` | 4 bytes, segments of 2, 3 inputs, receive queue of 2, request refused from 2 bytes on, blocks of 3 with 1 slot | `TypeOK`, `NeverRefuses`, `NothingForgotten`, `SndQueueAccounted`, `WaitsOnlyForRoom`, `NextNodeSeesNoHole`, `QueuedReachesCache` | a midnode forgets no interest, tells the next node of a loss before it can see it, and loses no data that the application can take |
| `path` | one request of 5 bytes, segments of 4, 1 fault, dead link after 2, 0 or 2 bytes of credit per flush | `ServerTypeOK`, `SndQueueAccounted`, `EachInterestOnce`, `InsertedAnswersAll`, `DatagramsFit`, `OneRetryPerFault`, `Delivered` | everything requested arrives; a fault costs an interest at most one more transmission |
| `timer` | a clock of 128 values that starts before its wrap; 2 events, each a setting of the clock or a segment of data; RTT up to 2 | `TypeOK`, `FlushesInTime`, `NeverLate`, `NeverEarly`, `OversleepsOnlyReadBack` | flushes and timeouts come in time across the wrap, whatever other interests do to the estimate, and flushes across a set clock, with one exception |

Why the bounds are enough: a block of 5 bytes is the smallest in which two
separate ranges and a third that bridges them, or overflows a table of two, fit;
three blocks over a capacity of two make an insert drop a block it has written
itself. Five bytes with segments of three give two interests of different
length, data that cuts an interest in the middle, joins two runs or straddles
the hole mark; a receive queue of two or one segment fills; the initial credit of 4
admits the first interest and not the second; one request of that run covers
all its bytes, while `requester_live` has several and reaches the refusal of
`request`. The clearing of `rcvBuf` happens at most once (`MaxClears`); the runs
that expect liveness have none, because after a clearing the stream stalls
(section 5).

In `midnode` three inputs are enough for an interest before, between and after
data, for two packets that leave a gap and the one that fills it, and for three
segments against a receive queue of two; 4 bytes in blocks of 3 give a cached
prefix, a miss, an eviction and, with one slot, a full range table at both ends of
an insert that crosses into the next block; segments of 2 make the read of a longer
range two reads, between which the cache may lose either part. In `path` 5 bytes are two segments of different
length, which are two interests but can share no datagram; the credit of a flush
(2) is smaller than a segment with its header (5), so segments are sent only from
saved credit; one fault hits at any of the steps. (No answer is passed
over with one fault. It takes three, two short answers and a lost datagram, on an
interest of three bytes; `OneRetryPerFault` holds in that instance, too, with
`LEOTP_DEADLINK = 6`, in 192 503 states, and is proved for all, section 4.) In
`timer` the clock reaches its wrap after ten ticks; it is set to a value far behind
and to one just before the wrap. Two segments of data are a first sample and a
smoothed one, or a sample and a reset of `conseqTimeout` after which a second backoff is
possible. `MaxConseq = 2` leaves one backoff in a row, so that `rto` gets to 16 and a
timeout to 40, below half of the clock. The factor of the backoff is 2, so that one
timeout shows, and the constants keep `LEOTP_RTO_MIN <= LEOTP_RTO_DEF <=
LEOTP_RTO_MAX`.

What `timer` shows about the wrap: `check` adds to the clock with wrap-around, and
the loop compares with `<=` (`udp_leotp.cpp:262`). This is harmless when the sum
wraps: the thread flushes at once. It is not harmless when the clock wraps, or
is set back, between the two readings: `updateTime - now` is then large and the
thread sleeps for it, cut to 32 bits of microseconds, at most 71 minutes.
`OversleepsOnlyReadBack` says that there is no other way to oversleep, and
`FlushesInTime` and `NeverLate` hold until it happens. The time between two flushes
is at most `Grace`, two intervals less one and two lags; each setting of the clock
can add `SetGrace` to it, since `check` trusts a `nextFlushTs` up to `MaxSlap`
ahead. `NeverLate` speaks of clocks that are not set and of interests sent less than
`CLOCK \div 2` ago: the code takes the signed difference of two 32-bit times, and
nothing in it keeps the backoff below half of their range; an interest that waits
longer seems to have been sent in the future. The timeout it speaks of is the one
that the last flush found (`flushRto`): a sample that comes later changes `rto`
for the next flush only.
`LagAssumption` says that a thread waits for the processor less than the range of
the argument of `usleep` (2^32 microseconds, 71 minutes) and that the
clock does not go round in that time.

`NeverEarly` is about `srtt` up to `LEOTP_RTO_MAX`: `rto` is three times the first
sample and later `srtt` and four times the variation, both cut at `LEOTP_RTO_MAX`, and the
backoff multiplies both `srtt` and `rto` (the comment at `leotp.cpp:290` says
`rttvar`). The backoff does not respect `LEOTP_RTO_MAX`, and `conseqTimeout`, which
limits it to nine in a row, is reset by any data, also by a part of an answer and by
the answer of an interest that was sent again, which give no sample.

Fairness. `LeotpCache`: the thread that holds the mutex runs on. `LeotpRequester`:
`TransUpdateLoop` and the application's loop run for ever (weak fairness of `Recv` and
of the updates that add credit: a flush that adds none falls in the millisecond of
the one before it, and time passes) and timeouts pass. Nothing is assumed of the
network and nothing of the application's wish to request. `LeotpPath`: weak fairness
for each thread and for the network: the responder reads what arrives
(`ServerInput`) and flushes with new credit; what is not lost arrives (`TakeSegment`);
the application of the requester takes data; its timeouts pass; its update thread
flushes with new credit. `Delivered` allows the crash of a stale hole (section 5)
and holds without any clearing of `rcvBuf` (`MaxClears = 0`), which stalls the
stream.

## 4. What is proved

For every value of the constants that satisfies `CacheAssumption`,
`RequesterAssumption`, `MidnodeAssumption`, `PathAssumption`, `TimerAssumption` and
`LagAssumption`, each where its module is used, and without a bound on the number
of steps. The theorems state every invariant and action property of the passing
runs, and both refinements (`StreamSpec`, `StoreSpec`).

### Cache

* **`CacheInvariant`.** `CacheInv` is inductive. To the properties it adds what
  the running call holds (`CallInRange`: the argument is a range and the block
  loop is inside it, from its first block on; `UnionInBlock`: the union in progress lies in its
  block, contains what is to be written and claims only written or about to be
  written bytes). `RangesSeparated` alone is not inductive: a step that places
  the union is safe only because no slot in use touches it, and the range it
  places lies in the block only because the earlier steps kept it there. From it
  follow `CacheTypeCorrect`, `LruAlwaysAgrees`, `RangesAlwaysSeparated` and
  `ClaimsAreWritten`, and the action property `ClaimsAreKept`: the union loop may
  free any number of slots on the way and never loses a byte.
* **`ReadReturnsLongestPrefix`.** A second invariant, `ReadInv`, on top of
  `CacheInv`: `blockStart` is a multiple of `BLOCK_LEN`, and the bytes before the
  current block have been read and are claimed (`PrefixClaimed`). The end of a
  covering slot is the end of the prefix because slots never touch.
* **`InsertAlwaysCompletes`.** A third one, `InsertInv`: the bytes of the argument
  before the current block are claimed and written, unless their block was dropped
  since, which cannot be the block just done (`BytesInserted`), and the loop stops with the
  first block behind the range (`StopsBehind`).
* **`CacheImplementsStore`.** Every step of the cache is a step of `LeotpStore` or
  leaves it as it is. `StoreInv` is needed besides `CacheInv` and `ReadInv`: each
  block of the map starts at a block boundary and claims a byte, so that the blocks
  that hold bytes are the keys of the map (`BlocksAreKeys`), and the store's test
  for room, which counts them, is the code's test of the list's length
  (`BlockCount`). The union loop is a stutter because each round only moves bytes
  between a slot and `newRange` (`AbsorbHeld`, `SubsetHeld`, `PlaceHeld`). In an
  overflow the `BLOCK_SEG_NUM` slots and `newRange` are that many and one different
  pieces of the block, since none of them touch (`RangesArePieces`), so that the
  store may give up, and the slot that is overwritten has no byte of the insert. The
  end of a read follows from `ReadIsLongestPrefix`. What `LeotpMidnode` and
  `LeotpResponder` take for granted of `store` is thus proved of the code's tables.

### Requester

* **`StreamInvariant`, `QueueAlwaysInOrder`.** `rcvQueue` is the contiguous stream
  between what the application was handed last and `rcvNxt`. The proof needs that
  the lists hold ranges at all (`ListTypes`) and hence what each piece of list
  surgery returns. That the pieces put into `rcvBuf` are not empty follows from
  how `Inside` cuts, `moveToRcvQueue` only moves what continues `rcvNxt`, and so the order of
  `rcvBuf` is *not* needed: its defect (section 5) stalls the stream and never
  corrupts it.
* **`RequesterImplementsStream`.** Every step of the requester maps, with
  `requested <- sendStart`, to a step of `LeotpStream` or to a stutter: only
  `Request` asks, only `Recv` hands over, and the first segment always fits since
  `MaxBufSize >= LEOTP_MSS`.
* **`HolesAlwaysInOrder`.** `HolesInv`: `dataHoles` is sorted, disjoint and below
  `dataNextRangeStart`. The lemmas of `LeotpHolesProofs` say what `detectDataHole`
  and `deleteDataHole` keep of that, for the requester and for the midnode.
* **`ByteInvariant`.** `ByteInv` counts: the bytes that are outstanding, in
  `rcvBuf`, in `rcvQueue`, dropped or delivered are all the bytes below `sendStart`
  (`Everywhere`), and the lengths of the ranges in the lists sum up to their
  number (`Total`). A list whose lengths sum up to
  what it covers has no byte twice, so no list and no two lists share a byte
  although no step looks for that. What the recut of a list keeps of its sum and of
  its coverage is proved once in `ByteRangeProofs`. From it follow
  `BytesAlwaysOnce`, `IntBufAlwaysAccounted` and `AnsweredNeverReturns`.
* **`RequesterTypeCorrect`.** `TypeInv` adds the bounds (`Limits`) to `ByteInv` and
  `HolesInv`.
* **`CreditAlwaysKept`.** `CreditInv`. What was asked for (`asked`) advances by what
  the interests sent for the first time cost, because those never sent are the end of
  `intBuf`, start at `asked` and follow one another without a gap up to `intQueue`
  (`UnsentKept`). Data only answers what was asked for and leaves that end alone.
* **`RunsAlwaysDescribe`.** `RunsInv`: the runs of `rcvBufItrs` cover what `rcvBuf`
  covers, are sorted and do not touch, and the iterator of a run behind `rcvNxt` is
  a segment inside it. A piece joins the runs in four ways (it extends
  one up, one down, closes the gap of two, or is a run of its own), and each is safe only
  because the piece shares no byte with `rcvBuf` and none is below `rcvNxt`, which
  `ByteInv` gives. Again the order of `rcvBuf` is not needed.

### Midnode

* **`DataWaitsOnlyForRoom`, `QueueAlwaysReachesCache`.** `WaitInv`: the lists hold
  segments and a non-empty `rcvBuf` means a full `rcvQueue`. Every action that
  touches the lists ends in `moveToRcvQueue` or leaves both as they are, and
  `MoveSettles` says once what that call establishes.
* **`MidnodeTypeCorrect`, `MidnodeNeverRefuses`, `NothingEverForgotten`,
  `SndQueueAlwaysAccounted`.** `AllInv` is `WaitInv` and `MidInv`, which has
  a part for each group of lists: `IntInv` (interests, their counter and their
  bytes, each of which is served, forwarded, waiting or still to be read), `HoleInv`, `SndInv`
  (`sndQueueBytes` is the sum of the queue) and `RestInv`. A read of the cache
  splits its piece in two without a rest; what it does not hold goes to
  `intQueue`, whose bytes `flushIntQueue` moves, and what is behind the piece stays
  in `reading`. Nothing is assumed of the cache between two reads.
  `QueueAlwaysReachesCache` excepts inserts into a full block, of which the run
  `cache_overflow` speaks.
* **`NextNodeAlwaysFollows`.** What `detectDataHole` of the next node does with a
  packet is what this node did with the packet that caused it: the header of a
  hole precedes the data behind the hole in `sndQueue`.

### Responder and path

* **`ClientIsRequester`, `ServerIsResponder`.** Every step of `LeotpPath` is a step of
  the requester in its network of arbitrary packets, and a step of the
  responder, or leaves their variables alone. This needs `PathInv`, which is
  `CreditInv` with the types of the responder (`ServerInv`) and of the network
  (`NetInv`): that the packets on their way are ranges of what was asked for is
  what makes them inputs of `LeotpRequester`. So all that is proved of a requester
  holds on the path (`PathKeepsBytes`).
* **`ServerTypeCorrect`, `InterestsQueuedOnce`, `ServerQueueAccounted`,
  `DatagramsAlwaysFit`, `InsertAnswersWaiting`.** The responder queues each byte of
  each interest once or keeps it pending, whatever part of the missing bytes
  its application provides; a datagram is cut before it exceeds
  `LEOTP_MTU`, because no segment does.
* **`RetriesOnlyForFaults`.** A transmission count is paid for: `RetryInv` says that every
  interest is `Patient`. With `Cost = faults + ignored`, it was transmitted at most
  `Cost + 1` times, and at most `Cost` times if it is timed out or one of its bytes is
  not on its way (`OnTheWay`: in an interest in the network, in `sndQueue`, in a
  datagram). The property alone is not inductive: a timeout costs nothing when an
  answer is missing, and then only the second half has kept the count down. Each step
  keeps the bytes on their way, or raises the cost, or takes the bytes from
  `intBuf`: what `parseInt` reads from the cache or gets from the application is all
  of the interest (`ServerAnswers`), packing leaves out no byte (`DatagramsCover`), every
  transmission a flush counts is put into the network (`SentIsFlushed`), and
  cuts and holes leave parts with the count of the whole (`PartsIn`). Data answers its
  part of each interest unless it is passed over, which `ignored` counts: without that
  variable the proof fails at `ClientInput`, and the property with it (section 5).

### Timer

* **`OversleepsOnlyAfterReadBack`.** `TimerInv` adds to the types that
  `updateTime` is at most an interval ahead of the clock while the thread decides
  and the clock was not read backwards (`ReadingFresh`), and that `conseqTimeout` is at
  most `MaxConseq` and the transmissions of the interest (`TimeoutsCounted`). It holds since the sum in
  `check` can only become smaller by wrapping, and the argument of `usleep`, cut to
  32 bits, is no larger than the number it is cut from. The invariant also gives
  `TimerTypeCorrect`, for every factor of the backoff.
* **`FlushesAlwaysInTime`.** A potential argument: `FlushInv` says that the time since
  the last flush and the most time that can pass until the next one (`UntilFlush`,
  from the phase of the thread, its sleep, its lag and `nextFlushTs`) are together at most
  `Grace + sets * SetGrace`. A tick moves one unit from the second to the first,
  a step of the thread never adds to the sum, a setting of the clock adds at most `SetGrace`.
* **`TimeoutsNeverEarly`, `TimeoutsNeverLate`.** `TimeoutInv`: the clock and the
  real time since an interest was sent agree while the clock is not set
  (`ClockAgrees`), `rto` is at least `srtt` as far as `LEOTP_RTO_MAX` allows
  (`Above`), and an interest that has timed out is not left by a flush: at the
  last one it had waited for less than its timeout with the `rto` of that flush
  (`AnsweredSince`). Early: the backoff multiplies both, a sample keeps one above the
  other, and the timeout of a
  segment is at least twice `rto`. Late: a timeout that has passed is seen by the next flush,
  which `FlushInv` bounds, and samples and timeouts of others in between do not
  touch `flushRto`.

Recursive functions (`Concat`, `SumOf`, `RecutAll`, `Inserted`) need their
existence proved: `RecursionExists` does it once, from `SetInduction`, an
induction for sets of numbers that is itself proved from the well-foundedness of <
on the naturals, and `RecursionStays` carries a type through a recursion.

### Only model-checked

The liveness properties (`CallReturns`, `AnsweredOrDead`, `ReadyIsRead`,
`Delivered`), which are out of the prover's reach.

## 5. Where the code does not do what it says

Each has a run that ends with a counterexample.

| run | property | what happens |
|---|---|---|
| `cache_overflow` | `InsertStores` | `cache.cpp:113-120`: a full range table: claims bytes without copying them, skips later blocks, returns 0, which `udp_leotp.cpp:244` asserts to be success |
| `requester_clear` | `ReceivedIsKept` | `leotp.cpp:1346`: the once-a-second statistics clear `rcvBuf`; the interests are already gone, so the bytes are never asked for again and the stream stalls |
| `requester_order` | `RcvBufInOrder` | `leotp.cpp:710`: a run extended downwards keeps its old iterator, the next piece goes to the wrong place and the stream stalls |
| `requester_credit` | `RetriedWithoutRtt` | `leotp.cpp:1096`, `1154`: no credit without an RTT sample, no sample without an answer: if the first window is lost, nothing is sent again |
| `requester_hole` | `StaleHolesDeleted` | `leotp.cpp:621-634`: a stale hole is erased twice |

`requester_credit` is a temporal counterexample under `FairSpec`: update, recv
and timeouts keep happening.

One more divergence has no run of its own; the history variable `ignored` of
`LeotpPath` counts how often it is met. Data that answers the middle of an interest
leaves `intBuf` with the rear part in front (`leotp.cpp:785`). Data for the front
part then breaks out of the loop at the rear part (`leotp.cpp:656`) and is thrown
away, though its bytes are asked for, where the comments say "need to delete range of
intBuf" (`leotp.cpp:648`) and "suppose interest is in order now" (`leotp.cpp:813`).
The bytes come after a timeout, with one more transmission: three faults can cost an interest
four or more of them. The proof of `OneRetryPerFault` showed it.

## 6. Plan

1. Done: all modules of section 2; the theorems of section 4.
2. Done: a refinement for the cache, which joins `store` of `LeotpMidnode` and
   `LeotpResponder` to `LeotpCache`.
3. `LeotpPath` with a `LeotpMidnode` between its ends.
4. `LeotpDemux`: the role a first packet gives a session.
5. The cache with stream offsets that wrap.

## 7. Not modelled

Sockets, iptables and the applications' command lines (I/O without protocol
state); the codec (stateless); log output. Congestion control computes rates in
single precision from measured times; the models take any result, zero included, so
nothing is said about how fast or how fair a sender is. Sessions
(`udpRecvLoop`) are made once by a single thread and kept for ever. The wrap of
stream offsets at 2^32 (`cache.cpp:63`) is excluded by `MaxByte`. Out-of-bounds
writes of the applications' own buffers are not protocol state.

## 8. Running

    tlc -workers 2 -config LeotpRequester.cfg LeotpRequester
    tlapm LeotpRequesterProofs.tla

`tlapm` takes up to eight minutes for `LeotpRequesterByteProofs`, the largest, and
less for the others.
