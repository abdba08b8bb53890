----------------------------- MODULE LeotpTimer -----------------------------
(***************************************************************************)
(* Time in a LeotpTransCB: the 32-bit millisecond clock, the update thread *)
(* (TransUpdateLoop in udp_leotp.cpp, check and update in leotp.cpp), the  *)
(* RTT estimate and the timeout of an interest of a requester.             *)
(*                                                                         *)
(* The clock is gettimeofday cut to 32 bits: it wraps, and it may be set.  *)
(* A step of the update thread is what it does between two readings of the *)
(* clock.  One interest is followed; when it is answered the next one      *)
(* takes its place.  Of the others it sees what they share with it, the    *)
(* RTT estimate and the timeouts in a row.  There is enough credit.        *)
(***************************************************************************)
EXTENDS Integers, Sequences

CONSTANTS
  CLOCK,                  (* values of the clock: 2^32                     *)
  USEC,                   (* units of usleep in a unit of the clock: 1000  *)
  MaxSlap,                (* a flush this far ahead is a set clock: 10000  *)
  LEOTP_UPDATE_INTERVAL,  (* between two flushes                           *)
  LEOTP_RTO_MIN,
  LEOTP_RTO_DEF,
  LEOTP_RTO_MAX,
  ExpoNum, ExpoDen,       (* LEOTP_RTO_EXPO is ExpoNum / ExpoDen           *)
  MaxConseq,              (* timeouts in a row from which rto stays: 10    *)
  LEOTP_DEADLINK,         (* transmissions of an interest                  *)
  Starts,                 (* what the clock may show in the beginning      *)
  SetTo,                  (* what it may be set to                         *)
  MaxLag,                 (* bound: time between two steps of the thread   *)
  MaxSets,                (* bound: how often the clock is set             *)
  MaxEvents,              (* bound: settings of the clock and data         *)
  MaxRtt                  (* bound: time until an answer                   *)

ASSUME TimerAssumption ==
  /\ CLOCK \in Nat /\ CLOCK > 2 * MaxSlap
  /\ USEC \in Nat \ {0} /\ MaxSlap \in Nat \ {0}
  /\ LEOTP_UPDATE_INTERVAL \in Nat \ {0}
  /\ LEOTP_RTO_MIN \in Nat \ {0} /\ LEOTP_RTO_DEF \in Nat /\ LEOTP_RTO_MAX \in Nat
  /\ LEOTP_RTO_MIN <= LEOTP_RTO_DEF /\ LEOTP_RTO_DEF <= LEOTP_RTO_MAX
  /\ ExpoNum \in Nat /\ ExpoDen \in Nat \ {0} /\ ExpoNum >= ExpoDen
  /\ MaxConseq \in Nat /\ LEOTP_DEADLINK \in Nat \ {0}
  /\ Starts \subseteq 0 .. CLOCK - 1 /\ SetTo \subseteq 0 .. CLOCK - 1
  /\ MaxLag \in Nat /\ MaxSets \in Nat /\ MaxEvents \in Nat /\ MaxRtt \in Nat

(* The clock does not go round while the thread waits: a lag is less than  *)
(* the 71 minutes for which 32 bits count microseconds.                    *)
ASSUME LagAssumption ==
  /\ USEC * (LEOTP_UPDATE_INTERVAL + MaxLag + 1) <= CLOCK
  /\ MaxSlap + LEOTP_UPDATE_INTERVAL + 3 * MaxLag + 1 < CLOCK

VARIABLES
  now,          (* what the clock shows                                    *)
  phase,        (* of the update thread: before "check", before "decide",  *)
                (* or "exit"                                               *)
  updateTime,   (* what check returned                                     *)
  sleep,        (* how long usleep has still to sleep                      *)
  nextFlushTs,  (* when the next flush is due; <<>> before the first update*)
  est,          (* srtt, rttvar and rto                                    *)
  conseqTimeout,
  interest,     (* xmit and ts of the interest                             *)
  lag,          (* time since the update thread could have gone on         *)
  sinceFlush,   (* history: time since the last flush                      *)
  sinceSent,    (* history: time since the interest was sent, while the    *)
                (* clock was never set                                     *)
  flushRto,     (* history: rto as the last flush found it                 *)
  readBack,     (* history: the clock showed less in "decide" than in      *)
                (* "check" before it                                       *)
  overslept,    (* history: the thread went to sleep for longer than an    *)
                (* interval                                                *)
  sets,         (* history: how often the clock was set                    *)
  answers       (* history: how many segments of data came                 *)

loopVars == <<phase, updateTime, sleep>>
rttVars  == <<est, conseqTimeout, interest>>
histVars == <<sinceFlush, sinceSent, flushRto, readBack, overslept>>
vars     == <<now, loopVars, nextFlushTs, rttVars, lag, histVars, sets, answers>>

-----------------------------------------------------------------------------
Time == 0 .. CLOCK - 1

Lower(a, b)  == IF a <= b THEN a ELSE b
Higher(a, b) == IF a >= b THEN a ELSE b

(* Mutant: times have more than 32 bits.                                   *)
PlusWide(a, b) == a + b

Plus(a, b) == (a + b) % CLOCK

(* Mutant: times are compared as numbers.                                  *)
DiffAsNumbers(later, earlier) == later - earlier

(* _itimediff: the signed difference of two unsigned times.                *)
Diff(later, earlier) ==
  LET d == (later - earlier) % CLOCK
  IN IF d >= CLOCK \div 2 THEN d - CLOCK ELSE d

-----------------------------------------------------------------------------
(* updateRTT with LEOTP_RTT_SCHM_EXPO: the first sample always counts, a   *)
(* later one unless the interest was sent more than once.                  *)

Bounded(t) == Lower(Higher(LEOTP_RTO_MIN, t), LEOTP_RTO_MAX)

Distance(a, b) == IF a >= b THEN a - b ELSE b - a

Smoothed(e, rtt) ==
  LET rttvar == (3 * e.rttvar + Distance(rtt, e.srtt)) \div 4
      srtt   == Higher((7 * e.srtt + rtt) \div 8, 1)
  IN [srtt   |-> srtt,
      rttvar |-> rttvar,
      rto    |-> Bounded(srtt + Higher(LEOTP_UPDATE_INTERVAL, 4 * rttvar))]

UpdateRTT(e, rtt, xmit) ==
  IF rtt <= 0 THEN e
  ELSE IF e.srtt = 0
  THEN [srtt |-> rtt, rttvar |-> rtt \div 2, rto |-> Bounded(3 * rtt)]
  ELSE IF xmit <= 1 THEN Smoothed(e, rtt) ELSE e

(* Mutant: srtt grows, but rto does not.                                   *)
BackedOffSrtt(e) == [e EXCEPT !.srtt = (@ * ExpoNum) \div ExpoDen]

(* flushIntBuf after a timeout: srtt and rto are multiplied, and cut to    *)
(* integers.                                                               *)
BackedOff(e) == [e EXCEPT !.srtt = (@ * ExpoNum) \div ExpoDen, !.rto = (@ * ExpoNum) \div ExpoDen]

Power(b, k) == LET p[i \in 0 .. k] == IF i = 0 THEN 1 ELSE b * p[i - 1] IN p[k]

(* The timeout of an interest: rto * (1.5^(xmit - 1) + 1), cut to an       *)
(* integer.                                                                *)
SegRto(rto, xmit) == rto + (rto * Power(3, xmit - 1)) \div Power(2, xmit - 1)

-----------------------------------------------------------------------------
(* The update thread.                                                      *)

(* Mutant: check does not notice that the clock was set back.              *)
DueOnly(slap) == slap >= 0

Due(slap) == slap >= 0 \/ slap < - MaxSlap

(* Mutant: check trusts nextFlushTs.                                       *)
CheckDue ==
  IF nextFlushTs = <<>> \/ Due(Diff(now, nextFlushTs[1])) THEN now ELSE nextFlushTs[1]

(* check: the minimum is one of unsigned numbers.                          *)
CheckTime ==
  IF nextFlushTs = <<>> \/ Due(Diff(now, nextFlushTs[1])) THEN now
  ELSE Lower(nextFlushTs[1], Plus(now, LEOTP_UPDATE_INTERVAL))

(* The thread wakes up or comes back from update.                          *)
Check ==
  /\ phase = "check" /\ sleep = 0
  /\ phase' = "decide"
  /\ updateTime' = CheckTime
  /\ readBack' = FALSE
  /\ lag' = 0
  /\ UNCHANGED <<now, sleep, nextFlushTs, rttVars, sinceFlush, sinceSent, flushRto, overslept, sets,
                 answers>>

(* usleep((updateTime - now) * 1000), in 32 bits.                          *)
SleepTime == (((updateTime - now) * USEC) % CLOCK) \div USEC

Sleep ==
  /\ sleep' = SleepTime
  /\ overslept' = (overslept \/ SleepTime > LEOTP_UPDATE_INTERVAL)
  /\ phase' = "check"
  /\ UNCHANGED <<nextFlushTs, rttVars, sinceFlush, sinceSent, flushRto>>

NextFlush(due, slap) ==
  IF slap >= LEOTP_UPDATE_INTERVAL \/ slap < - MaxSlap
  THEN Plus(now, LEOTP_UPDATE_INTERVAL)
  ELSE Plus(due, LEOTP_UPDATE_INTERVAL)

NeedsSend ==
  \/ interest.xmit = 0
  \/ Diff(now, interest.ts) >= SegRto(est.rto, interest.xmit)

(* However many interests time out in a flush, it counts them once, when   *)
(* all are sent, and srtt and rto grow once.                               *)
CountTimeout(timeout) ==
  /\ conseqTimeout' = IF timeout THEN conseqTimeout + 1 ELSE conseqTimeout
  /\ est' = IF timeout /\ conseqTimeout' < MaxConseq THEN BackedOff(est) ELSE est

(* flushIntBuf; others: another interest times out.  Bound: that happens   *)
(* only until conseqTimeout is MaxConseq, where it changes no estimate.    *)
FlushInterest ==
  \E others \in BOOLEAN :
    /\ others => conseqTimeout < MaxConseq
    /\ IF ~ NeedsSend THEN phase' = "check" /\ CountTimeout(others) /\ UNCHANGED <<interest, sinceSent>>
       ELSE IF interest.xmit >= LEOTP_DEADLINK
       THEN phase' = "exit" /\ UNCHANGED <<rttVars, sinceSent>>
       ELSE /\ phase' = "check"
            /\ CountTimeout(interest.xmit > 0 \/ others)
            /\ interest' = [xmit |-> interest.xmit + 1, ts |-> now]
            /\ sinceSent' = 0

Update ==
  /\ LET due  == IF nextFlushTs = <<>> THEN now ELSE nextFlushTs[1]
         slap == Diff(now, due)
     IN IF Due(slap)
        THEN /\ FlushInterest
             /\ nextFlushTs' = <<NextFlush(due, slap)>>
             /\ sinceFlush' = 0
             /\ flushRto' = est.rto
        ELSE phase' = "check" /\ UNCHANGED <<nextFlushTs, rttVars, sinceFlush, sinceSent, flushRto>>
  /\ UNCHANGED <<sleep, overslept>>

(* The second reading of the clock and those of update are one.            *)
Decide ==
  /\ phase = "decide"
  /\ IF updateTime <= now THEN Update ELSE Sleep
  /\ updateTime' = 0
  /\ readBack' = FALSE
  /\ lag' = 0
  /\ UNCHANGED <<now, sets, answers>>

-----------------------------------------------------------------------------
(* parseData, when the mutex is free: a segment of data comes.             *)
Data ==
  /\ phase = "check"
  /\ answers + sets < MaxEvents
  /\ answers' = answers + 1
  /\ conseqTimeout' = 0
  /\ UNCHANGED <<now, loopVars, nextFlushTs, lag, sinceFlush, flushRto, readBack, overslept, sets>>

(* It answers the interest, and the next one waits to be sent.             *)
Answer ==
  /\ Data
  /\ interest.xmit > 0 /\ sinceSent <= MaxRtt
  /\ est' = UpdateRTT(est, Diff(now, interest.ts), interest.xmit)
  /\ interest' = [xmit |-> 0, ts |-> 0]
  /\ sinceSent' = 0

(* It answers another interest, sent xmit times, or only a part of one:    *)
(* then the rest keeps its ts, and there is no sample.                     *)
OtherAnswer ==
  /\ Data
  /\ est' \in {est} \cup {UpdateRTT(est, rtt, xmit) : rtt \in 1 .. MaxRtt, xmit \in 1 .. 2}
  /\ UNCHANGED <<interest, sinceSent>>

(* A millisecond passes; a thread that can go on does so within MaxLag.    *)
Tick ==
  LET asleep == sleep > 0
  IN /\ phase # "exit"
     /\ IF asleep THEN sleep' = sleep - 1 /\ UNCHANGED lag
        ELSE lag < MaxLag /\ lag' = lag + 1 /\ UNCHANGED sleep
     /\ now' = Plus(now, 1)
     /\ readBack' = (readBack \/ (phase = "decide" /\ now' < now))
     /\ sinceFlush' = sinceFlush + 1
     /\ sinceSent' = sinceSent + IF interest.xmit > 0 /\ sets = 0 THEN 1 ELSE 0
     /\ UNCHANGED <<phase, updateTime, nextFlushTs, rttVars, flushRto, overslept, sets, answers>>

(* The clock is set.                                                       *)
SetClock ==
  /\ phase # "exit" /\ sets < MaxSets /\ answers + sets < MaxEvents
  /\ now' \in SetTo
  /\ sets' = sets + 1
  /\ readBack' = (readBack \/ (phase = "decide" /\ now' < now))
  /\ sinceSent' = 0
  /\ UNCHANGED <<loopVars, nextFlushTs, rttVars, lag, sinceFlush, flushRto, overslept, answers>>

Init ==
  /\ now \in Starts
  /\ phase = "check" /\ updateTime = 0 /\ sleep = 0
  /\ nextFlushTs = <<>>
  /\ est = [srtt |-> 0, rttvar |-> 0, rto |-> LEOTP_RTO_DEF]
  /\ conseqTimeout = 0
  /\ interest = [xmit |-> 0, ts |-> 0]
  /\ lag = 0 /\ sinceFlush = 0 /\ sinceSent = 0 /\ flushRto = LEOTP_RTO_DEF
  /\ readBack = FALSE /\ overslept = FALSE /\ sets = 0 /\ answers = 0

Next == Check \/ Decide \/ Answer \/ OtherAnswer \/ Tick \/ SetClock

Spec == Init /\ [][Next]_vars

-----------------------------------------------------------------------------
(* Properties.                                                             *)

TypeOK ==
  /\ now \in Time /\ updateTime \in Time /\ sleep \in Nat
  /\ phase \in {"check", "decide", "exit"}
  /\ nextFlushTs \in {<<>>} \cup {<<t>> : t \in Time}
  /\ est \in [srtt : Nat, rttvar : Nat, rto : Nat]
  /\ conseqTimeout \in 0 .. MaxConseq + LEOTP_DEADLINK
  /\ interest \in [xmit : 0 .. LEOTP_DEADLINK, ts : Time]
  /\ lag \in 0 .. MaxLag /\ sinceFlush \in Nat /\ sinceSent \in Nat /\ flushRto \in Nat
  /\ readBack \in BOOLEAN /\ overslept \in BOOLEAN
  /\ sets \in 0 .. MaxSets /\ answers \in 0 .. MaxEvents

(* The most time between two flushes while the clock is not set: check may *)
(* find the flush still to come and sleep for an interval, since the sum   *)
(* that it compares nextFlushTs with wrapped; then the steps are late.     *)
Grace == 2 * LEOTP_UPDATE_INTERVAL - 1 + 2 * MaxLag

(* What setting the clock adds: the next flush may be MaxSlap ahead, and   *)
(* the thread in the middle of a round.                                    *)
SetGrace == Grace + MaxSlap + 3 * MaxLag

(* The thread sleeps for longer than an interval, and then for up to an    *)
(* hour, only if the clock wrapped or was set back between the two         *)
(* readings of TransUpdateLoop (udp_leotp.cpp:260-274).                    *)
OversleepsOnlyReadBack ==
  [][overslept' # overslept => readBack]_vars

(* Wherever the clock wraps, flushes go on; setting it delays the next one *)
(* by little more than MaxSlap, wherever it is set to (leotp.cpp:1393-1440,*)
(* udp_leotp.cpp:255-275).                                                 *)
FlushesInTime == ~ overslept => sinceFlush <= Grace + sets * SetGrace

(* An interest is not sent again, or given up, before twice the mean RTT   *)
(* has passed: the backoff keeps rto above srtt, and the clock may wrap    *)
(* meanwhile (leotp.cpp:1141-1145, 304-312, 1220-1221).                    *)
NeverEarly ==
  [][LET timeout == interest.xmit > 0 /\ (interest'.xmit > interest.xmit \/ phase' = "exit")
     IN timeout /\ sets = 0 => sinceSent >= 2 * Lower(est.srtt, LEOTP_RTO_MAX)]_vars

(* An unanswered interest is sent again, or the link is dead, soon after   *)
(* the timeout that the last flush found (leotp.cpp:1113-1204), whatever   *)
(* samples came since: only when it waits for longer than a signed         *)
(* difference of times can tell is it forgotten.                           *)
NeverLate ==
  /\ ~ overslept /\ sets = 0 /\ interest.xmit > 0 /\ phase # "exit"
  /\ sinceSent < CLOCK \div 2
  => sinceSent <= SegRto(flushRto, interest.xmit) + Grace
=============================================================================
