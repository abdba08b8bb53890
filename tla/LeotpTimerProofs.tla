-------------------------- MODULE LeotpTimerProofs --------------------------
(***************************************************************************)
(* The timer is type correct, its update thread oversleeps only when the   *)
(* clock was read backwards and flushes in time until then, and timeouts   *)
(* are neither early nor late, for every width of the clock.               *)
(***************************************************************************)
EXTENDS LeotpTimer, TLAPS

R == INSTANCE ByteRangeProofs

-----------------------------------------------------------------------------
(* Arithmetic modulo n.                                                    *)

LEMMA ModType ==
  ASSUME NEW a \in Int, NEW n \in Nat, n > 0
  PROVE  a % n \in 0 .. n - 1
OBVIOUS

LEMMA ModBelow ==
  ASSUME NEW a \in Nat, NEW n \in Nat, n > 0
  PROVE  a % n <= a
OBVIOUS

LEMMA DivType ==
  ASSUME NEW a \in Nat, NEW n \in Nat, n > 0
  PROVE  a \div n \in Nat
OBVIOUS

LEMMA DivBelow ==
  ASSUME NEW a \in Nat, NEW b \in Nat, NEW n \in Nat, n > 0, a <= b * n
  PROVE  a \div n <= b
OBVIOUS

LEMMA DivAtLeast ==
  ASSUME NEW a \in Nat, NEW b \in Nat, NEW n \in Nat, n > 0, b * n <= a
  PROVE  b <= a \div n
OBVIOUS

LEMMA ModAdds ==
  ASSUME NEW r \in Nat, NEW n \in Nat, NEW k \in Nat, r < n
  PROVE  (r + k * n) % n = r
OBVIOUS

LEMMA StaysBelow ==
  ASSUME NEW a \in Nat, NEW b \in Nat, NEW c \in Nat, NEW d \in Nat, a <= b + d, b <= c
  PROVE  a <= c + d
OBVIOUS

(* The sum of two times is a time, and no more than their sum as numbers.  *)
LEMMA PlusType ==
  ASSUME NEW a \in Nat, NEW b \in Nat
  PROVE  Plus(a, b) \in Time /\ Plus(a, b) <= a + b
<1>1. a + b \in Nat /\ CLOCK \in Nat /\ CLOCK > 0
  BY TimerAssumption
<1>2. (a + b) % CLOCK \in 0 .. CLOCK - 1 /\ (a + b) % CLOCK <= a + b
  BY <1>1, ModType, ModBelow
<1>. QED
  BY <1>2 DEF Plus, Time

(* _itimediff is a number.                                                 *)
LEMMA DiffType ==
  ASSUME NEW a \in Time, NEW b \in Time
  PROVE  Diff(a, b) \in Int
<1>1. (a - b) % CLOCK \in 0 .. CLOCK - 1
  BY TimerAssumption, ModType DEF Time
<1>. QED
  BY <1>1, TimerAssumption DEF Diff

-----------------------------------------------------------------------------
(* The thread never holds a time to update at that is more than an         *)
(* interval ahead, unless the clock was read backwards.                    *)
ReadingFresh ==
  phase = "decide" /\ ~ readBack => updateTime <= now + LEOTP_UPDATE_INTERVAL

(* A flush counts one timeout, however many interests time out: beyond     *)
(* what others add, the transmissions of the interest bound the count.     *)
TimeoutsCounted == conseqTimeout <= MaxConseq + interest.xmit

TimerInv == TypeOK /\ ReadingFresh /\ TimeoutsCounted

-----------------------------------------------------------------------------
(* The estimator returns natural numbers.                                  *)
Estimates == [srtt : Nat, rttvar : Nat, rto : Nat]

LEMMA BoundedType ==
  ASSUME NEW t \in Nat
  PROVE  Bounded(t) \in Nat
BY TimerAssumption DEF Bounded, Lower, Higher

LEMMA SmoothedType ==
  ASSUME NEW e \in Estimates, NEW rtt \in Nat
  PROVE  Smoothed(e, rtt) \in Estimates
<1>. DEFINE rttvar == (3 * e.rttvar + Distance(rtt, e.srtt)) \div 4
            srtt   == Higher((7 * e.srtt + rtt) \div 8, 1)
<1>1. e.srtt \in Nat /\ e.rttvar \in Nat
  BY DEF Estimates
<1>2. Distance(rtt, e.srtt) \in Nat
  BY <1>1 DEF Distance
<1>3. rttvar \in Nat
  BY <1>1, <1>2, DivType
<1>4. srtt \in Nat
  BY <1>1, DivType DEF Higher
<1>. HIDE DEF rttvar, srtt
<1>5. srtt + Higher(LEOTP_UPDATE_INTERVAL, 4 * rttvar) \in Nat
  BY <1>3, <1>4, TimerAssumption DEF Higher
<1>6. Bounded(srtt + Higher(LEOTP_UPDATE_INTERVAL, 4 * rttvar)) \in Nat
  BY <1>5, BoundedType
<1>. QED
  BY <1>3, <1>4, <1>6 DEF Smoothed, rttvar, srtt, Estimates

LEMMA UpdateRTTType ==
  ASSUME NEW e \in Estimates, NEW rtt \in Int, NEW xmit \in Nat
  PROVE  UpdateRTT(e, rtt, xmit) \in Estimates
<1>1. CASE rtt <= 0
  BY <1>1 DEF UpdateRTT
<1>2. CASE rtt > 0
  <2>1. rtt \in Nat /\ 3 * rtt \in Nat
    BY <1>2
  <2>2. rtt \div 2 \in Nat /\ Bounded(3 * rtt) \in Nat /\ Smoothed(e, rtt) \in Estimates
    BY <2>1, DivType, BoundedType, SmoothedType
  <2>. QED
    BY <1>2, <2>1, <2>2 DEF UpdateRTT, Estimates
<1>. QED
  BY <1>1, <1>2

LEMMA BackedOffType ==
  ASSUME NEW e \in Estimates
  PROVE  BackedOff(e) \in Estimates
<1>1. e.srtt * ExpoNum \in Nat /\ e.rto * ExpoNum \in Nat /\ ExpoDen \in Nat /\ ExpoDen > 0
  BY TimerAssumption DEF Estimates
<1>2. (e.srtt * ExpoNum) \div ExpoDen \in Nat /\ (e.rto * ExpoNum) \div ExpoDen \in Nat
  BY <1>1, DivType
<1>. QED
  BY <1>2 DEF BackedOff, Estimates

-----------------------------------------------------------------------------
(* The invariant.                                                          *)

LEMMA TimerInvInit == Init => TimerInv
<1>. SUFFICES ASSUME Init PROVE TimerInv
  OBVIOUS
<1>1. now \in Time /\ 0 \in Time /\ 0 \in 0 .. LEOTP_DEADLINK /\ LEOTP_RTO_DEF \in Nat
        /\ 0 \in 0 .. MaxLag /\ 0 \in 0 .. MaxSets /\ 0 \in 0 .. MaxEvents
        /\ MaxConseq \in Nat /\ 0 \in 0 .. MaxConseq + LEOTP_DEADLINK
  BY TimerAssumption DEF Init, Time
<1>2. est \in [srtt : Nat, rttvar : Nat, rto : Nat]
  BY <1>1 DEF Init
<1>3. interest \in [xmit : 0 .. LEOTP_DEADLINK, ts : Time]
  BY <1>1 DEF Init
<1>4. TypeOK
  BY <1>1, <1>2, <1>3 DEF Init, TypeOK
<1>5. ReadingFresh /\ TimeoutsCounted
  BY <1>1 DEF Init, ReadingFresh, TimeoutsCounted
<1>. QED
  BY <1>4, <1>5 DEF TimerInv

LEMMA CheckTimeFresh ==
  ASSUME TypeOK
  PROVE  CheckTime \in Time /\ CheckTime <= now + LEOTP_UPDATE_INTERVAL
<1>1. now \in Nat /\ LEOTP_UPDATE_INTERVAL \in Nat
  BY TimerAssumption DEF TypeOK, Time
<1>2. Plus(now, LEOTP_UPDATE_INTERVAL) \in Time
        /\ Plus(now, LEOTP_UPDATE_INTERVAL) <= now + LEOTP_UPDATE_INTERVAL
  BY <1>1, PlusType
<1>3. CASE nextFlushTs = <<>>
  BY <1>1, <1>3 DEF CheckTime, TypeOK
<1>4. CASE nextFlushTs # <<>>
  <2>1. nextFlushTs[1] \in Time
    BY <1>4 DEF TypeOK
  <2>. QED
    BY <1>1, <1>2, <2>1, SMTT(60) DEF CheckTime, Lower, TypeOK, Time
<1>. QED
  BY <1>3, <1>4

LEMMA CheckKeeps ==
  ASSUME TimerInv, Check
  PROVE  TimerInv'
<1>1. CheckTime \in Time /\ CheckTime <= now + LEOTP_UPDATE_INTERVAL
  BY CheckTimeFresh DEF TimerInv
<1>2. TypeOK'
  <2>1. 0 \in 0 .. MaxLag /\ TypeOK
    BY TimerAssumption DEF TimerInv
  <2>. QED
    BY <1>1, <2>1 DEF TypeOK, Check, rttVars
<1>3. ReadingFresh' /\ TimeoutsCounted'
  BY <1>1 DEF TimerInv, ReadingFresh, TimeoutsCounted, Check, rttVars
<1>. QED
  BY <1>2, <1>3 DEF TimerInv

(* A sleep is no longer than an interval if the times are as they were     *)
(* read; in any case it is a number.                                       *)
LEMMA SleepBounded ==
  ASSUME TypeOK
  PROVE  /\ SleepTime \in Nat
         /\ now < updateTime /\ updateTime <= now + LEOTP_UPDATE_INTERVAL
              => SleepTime <= LEOTP_UPDATE_INTERVAL
<1>. DEFINE d == updateTime - now
            u == (d * USEC) % CLOCK
<1>1. d \in Int /\ USEC \in Nat /\ USEC > 0 /\ CLOCK \in Nat /\ CLOCK > 0
        /\ LEOTP_UPDATE_INTERVAL \in Nat
  BY TimerAssumption DEF TypeOK, Time
<1>2. d * USEC \in Int
  BY <1>1
<1>3. u \in Nat
  BY <1>1, <1>2, ModType
<1>4. SleepTime \in Nat
  BY <1>1, <1>3, DivType DEF SleepTime
<1>5. ASSUME now < updateTime, updateTime <= now + LEOTP_UPDATE_INTERVAL
      PROVE  SleepTime <= LEOTP_UPDATE_INTERVAL
  <2>1. d \in Nat /\ d <= LEOTP_UPDATE_INTERVAL
    BY <1>1, <1>5 DEF TypeOK, Time
  <2>. HIDE DEF d
  <2>2. d * USEC \in Nat
    BY <1>1, <2>1
  <2>3. u <= d * USEC
    BY <1>1, <2>2, ModBelow
  <2>. HIDE DEF u
  <2>4. u \div USEC <= d
    BY <1>1, <1>3, <2>1, <2>3, DivBelow
  <2>. QED
    BY <1>1, <1>3, <2>1, <2>4, DivType DEF SleepTime, u, d
<1>. QED
  BY <1>4, <1>5

(* A flush that sends nothing may still count the timeouts of others.      *)
LEMMA FlushInterestCases ==
  ASSUME FlushInterest
  PROVE  \/ NeedsSend /\ UNCHANGED <<rttVars, sinceSent>> /\ phase' = "exit"
         \/ /\ phase' = "check"
            /\ est' \in {est, BackedOff(est)}
            /\ \/ conseqTimeout' = conseqTimeout
               \/ conseqTimeout' = conseqTimeout + 1 /\ conseqTimeout < MaxConseq
               \/ conseqTimeout' = conseqTimeout + 1 /\ NeedsSend /\ interest.xmit > 0
            /\ \/ ~ NeedsSend /\ UNCHANGED <<interest, sinceSent>>
               \/ /\ NeedsSend /\ ~ (interest.xmit >= LEOTP_DEADLINK)
                  /\ interest' = [xmit |-> interest.xmit + 1, ts |-> now] /\ sinceSent' = 0
<1>1. PICK others \in BOOLEAN :
        /\ others => conseqTimeout < MaxConseq
        /\ IF ~ NeedsSend THEN phase' = "check" /\ CountTimeout(others) /\ UNCHANGED <<interest, sinceSent>>
           ELSE IF interest.xmit >= LEOTP_DEADLINK
           THEN phase' = "exit" /\ UNCHANGED <<rttVars, sinceSent>>
           ELSE /\ phase' = "check"
                /\ CountTimeout(interest.xmit > 0 \/ others)
                /\ interest' = [xmit |-> interest.xmit + 1, ts |-> now]
                /\ sinceSent' = 0
  BY DEF FlushInterest
<1>2. CASE ~ NeedsSend
  <2>1. phase' = "check" /\ CountTimeout(others) /\ UNCHANGED <<interest, sinceSent>>
    BY <1>1, <1>2
  <2>2. est' \in {est, BackedOff(est)} /\ conseqTimeout' = IF others THEN conseqTimeout + 1 ELSE conseqTimeout
    BY <2>1 DEF CountTimeout
  <2>. QED
    BY <1>1, <1>2, <2>1, <2>2
<1>3. CASE NeedsSend /\ interest.xmit >= LEOTP_DEADLINK
  BY <1>1, <1>3
<1>4. CASE NeedsSend /\ ~ (interest.xmit >= LEOTP_DEADLINK)
  <2>1. /\ phase' = "check" /\ CountTimeout(interest.xmit > 0 \/ others)
        /\ interest' = [xmit |-> interest.xmit + 1, ts |-> now] /\ sinceSent' = 0
    BY <1>1, <1>4
  <2>2. /\ est' \in {est, BackedOff(est)}
        /\ conseqTimeout' = IF interest.xmit > 0 \/ others THEN conseqTimeout + 1 ELSE conseqTimeout
    BY <2>1 DEF CountTimeout
  <2>. QED
    BY <1>1, <1>4, <2>1, <2>2
<1>. QED
  BY <1>2, <1>3, <1>4

LEMMA FlushInterestKeeps ==
  ASSUME TypeOK, TimeoutsCounted, FlushInterest
  PROVE  /\ phase' \in {"check", "exit"}
         /\ est' \in Estimates
         /\ interest' \in [xmit : 0 .. LEOTP_DEADLINK, ts : Time]
         /\ conseqTimeout' \in Nat /\ TimeoutsCounted'
         /\ sinceSent' \in Nat
<1>1. est \in Estimates /\ BackedOff(est) \in Estimates
  BY BackedOffType DEF TypeOK, Estimates
<1>2. LEOTP_DEADLINK \in Nat /\ interest.xmit \in 0 .. LEOTP_DEADLINK /\ conseqTimeout \in Nat
        /\ interest \in [xmit : 0 .. LEOTP_DEADLINK, ts : Time] /\ now \in Time /\ sinceSent \in Nat
        /\ MaxConseq \in Nat /\ conseqTimeout <= MaxConseq + interest.xmit
  BY TimerAssumption DEF TypeOK, TimeoutsCounted
<1>3. CASE NeedsSend /\ UNCHANGED <<rttVars, sinceSent>> /\ phase' = "exit"
  BY <1>1, <1>2, <1>3 DEF rttVars, TimeoutsCounted
<1>4. ASSUME phase' = "check", est' \in {est, BackedOff(est)},
             \/ conseqTimeout' = conseqTimeout
             \/ conseqTimeout' = conseqTimeout + 1 /\ conseqTimeout < MaxConseq,
             UNCHANGED <<interest, sinceSent>>
      PROVE  /\ phase' \in {"check", "exit"} /\ est' \in Estimates
             /\ interest' \in [xmit : 0 .. LEOTP_DEADLINK, ts : Time]
             /\ conseqTimeout' \in Nat /\ TimeoutsCounted' /\ sinceSent' \in Nat
  <2>1. conseqTimeout' \in Nat /\ conseqTimeout' <= MaxConseq + interest.xmit
    BY <1>2, <1>4
  <2>. QED
    BY <1>1, <1>2, <1>4, <2>1 DEF TimeoutsCounted
<1>5. ASSUME phase' = "check", est' \in {est, BackedOff(est)},
             \/ conseqTimeout' = conseqTimeout
             \/ conseqTimeout' = conseqTimeout + 1 /\ conseqTimeout < MaxConseq
             \/ conseqTimeout' = conseqTimeout + 1 /\ NeedsSend /\ interest.xmit > 0,
             ~ (interest.xmit >= LEOTP_DEADLINK),
             interest' = [xmit |-> interest.xmit + 1, ts |-> now], sinceSent' = 0
      PROVE  /\ phase' \in {"check", "exit"} /\ est' \in Estimates
             /\ interest' \in [xmit : 0 .. LEOTP_DEADLINK, ts : Time]
             /\ conseqTimeout' \in Nat /\ TimeoutsCounted' /\ sinceSent' \in Nat
  <2>1. interest' \in [xmit : 0 .. LEOTP_DEADLINK, ts : Time] /\ interest'.xmit = interest.xmit + 1
    BY <1>2, <1>5
  <2>2. conseqTimeout' \in Nat /\ conseqTimeout' <= MaxConseq + (interest.xmit + 1)
    BY <1>2, <1>5
  <2>. QED
    BY <1>1, <1>5, <2>1, <2>2 DEF TimeoutsCounted
<1>6. ASSUME ~ NeedsSend
      PROVE  ~ (conseqTimeout' = conseqTimeout + 1 /\ NeedsSend /\ interest.xmit > 0)
  BY <1>6
<1>. QED
  BY <1>3, <1>4, <1>5, <1>6, FlushInterestCases

LEMMA DecideKeeps ==
  ASSUME TimerInv, Decide
  PROVE  TimerInv'
<1>1. TypeOK /\ TimeoutsCounted /\ 0 \in Time /\ 0 \in 0 .. MaxLag
  BY TimerAssumption DEF TimerInv, Time
<1>2. /\ updateTime' = 0 /\ lag' = 0 /\ readBack' = FALSE
      /\ UNCHANGED <<now, sets, answers>>
  BY DEF Decide
<1>3. CASE Sleep
  <2>1. SleepTime \in Nat
    BY <1>1, SleepBounded
  <2>2. TypeOK'
    BY <1>1, <1>2, <1>3, <2>1 DEF Sleep, TypeOK, rttVars
  <2>3. ReadingFresh' /\ TimeoutsCounted'
    BY <1>1, <1>3 DEF Sleep, ReadingFresh, TimeoutsCounted, rttVars
  <2>. QED
    BY <2>2, <2>3 DEF TimerInv
<1>4. CASE Update
  <2>. DEFINE due == IF nextFlushTs = <<>> THEN now ELSE nextFlushTs[1]
              slap == Diff(now, due)
  <2>1. UNCHANGED <<sleep, overslept>>
    BY <1>4 DEF Update
  <2>2. CASE phase' = "check" /\ UNCHANGED <<nextFlushTs, rttVars, sinceFlush, sinceSent, flushRto>>
    <3>1. TypeOK'
      BY <1>1, <1>2, <2>1, <2>2 DEF TypeOK, rttVars
    <3>2. ReadingFresh' /\ TimeoutsCounted'
      BY <1>1, <2>2 DEF ReadingFresh, TimeoutsCounted, rttVars
    <3>. QED
      BY <3>1, <3>2 DEF TimerInv
  <2>3. CASE /\ FlushInterest /\ nextFlushTs' = <<NextFlush(due, slap)>> /\ sinceFlush' = 0
             /\ flushRto' = est.rto
    <3>1. due \in Time /\ now \in Nat /\ due \in Nat /\ LEOTP_UPDATE_INTERVAL \in Nat
      BY <1>1, TimerAssumption DEF TypeOK, Time
    <3>2. NextFlush(due, slap) \in Time
      <4>. HIDE DEF due, slap
      <4>. QED
        BY <3>1, PlusType DEF NextFlush
    <3>3. /\ phase' \in {"check", "exit"}
          /\ est' \in Estimates
          /\ interest' \in [xmit : 0 .. LEOTP_DEADLINK, ts : Time]
          /\ conseqTimeout' \in Nat /\ TimeoutsCounted'
          /\ sinceSent' \in Nat
      BY <1>1, <2>3, FlushInterestKeeps
    <3>4. conseqTimeout' \in 0 .. MaxConseq + LEOTP_DEADLINK /\ flushRto' \in Nat
      <4>1. MaxConseq \in Nat /\ LEOTP_DEADLINK \in Nat /\ interest'.xmit \in 0 .. LEOTP_DEADLINK
        BY <3>3, TimerAssumption
      <4>2. conseqTimeout' \in 0 .. MaxConseq + LEOTP_DEADLINK
        BY <3>3, <4>1 DEF TimeoutsCounted
      <4>3. flushRto' \in Nat
        BY <1>1, <2>3 DEF TypeOK
      <4>. QED
        BY <4>2, <4>3
    <3>. HIDE DEF due, slap
    <3>5. TypeOK'
      BY <1>1, <1>2, <2>1, <2>3, <3>2, <3>3, <3>4 DEF TypeOK, Estimates
    <3>. QED
      BY <3>3, <3>5 DEF TimerInv, ReadingFresh
  <2>. QED
    BY <1>4, <2>2, <2>3 DEF Update
<1>. QED
  BY <1>3, <1>4 DEF Decide

(* The samples of other interests are natural numbers.                     *)
LEMMA OtherAnswerCases ==
  ASSUME OtherAnswer
  PROVE  est' = est \/ \E rtt \in Nat, xmit \in Nat : est' = UpdateRTT(est, rtt, xmit)
<1>1. CASE est' = est
  BY <1>1
<1>2. CASE est' # est
  <2>1. PICK rtt \in 1 .. MaxRtt, xmit \in 1 .. 2 : est' = UpdateRTT(est, rtt, xmit)
    BY <1>2 DEF OtherAnswer
  <2>2. rtt \in Nat /\ xmit \in Nat
    BY TimerAssumption
  <2>. QED
    BY <2>1, <2>2
<1>. QED
  BY <1>1, <1>2

LEMMA DataKeeps ==
  ASSUME TimerInv, Data, est' \in Estimates,
         interest' \in [xmit : 0 .. LEOTP_DEADLINK, ts : Time], sinceSent' \in Nat
  PROVE  TimerInv'
<1>1. /\ answers' \in 0 .. MaxEvents /\ conseqTimeout' \in 0 .. MaxConseq + LEOTP_DEADLINK
      /\ conseqTimeout' = 0 /\ interest'.xmit \in Nat /\ MaxConseq \in Nat
  <2>1. MaxConseq + LEOTP_DEADLINK \in Nat /\ MaxConseq \in Nat /\ LEOTP_DEADLINK \in Nat
    BY TimerAssumption
  <2>2. answers \in 0 .. MaxEvents /\ answers < MaxEvents /\ MaxEvents \in Nat
    <3>1. answers \in 0 .. MaxEvents /\ sets \in 0 .. MaxSets /\ answers + sets < MaxEvents
      BY DEF TimerInv, TypeOK, Data
    <3>. QED
      BY <3>1, TimerAssumption
  <2>. QED
    BY <2>1, <2>2 DEF Data
<1>2. UNCHANGED <<now, phase, updateTime, sleep, nextFlushTs, lag, sinceFlush, flushRto, readBack,
                  overslept, sets>>
  BY DEF Data, loopVars
<1>3. TypeOK'
  BY <1>1, <1>2 DEF TimerInv, TypeOK, Estimates
<1>4. ReadingFresh' /\ TimeoutsCounted'
  BY <1>1, <1>2 DEF TimerInv, ReadingFresh, TimeoutsCounted
<1>. QED
  BY <1>3, <1>4 DEF TimerInv

LEMMA AnswerKeeps ==
  ASSUME TimerInv, Answer
  PROVE  TimerInv'
<1>1. Diff(now, interest.ts) \in Int /\ est \in Estimates /\ interest.xmit \in Nat
  BY DiffType, TimerAssumption DEF TimerInv, TypeOK, Estimates
<1>2. UpdateRTT(est, Diff(now, interest.ts), interest.xmit) \in Estimates
  BY <1>1, UpdateRTTType
<1>3. interest' \in [xmit : 0 .. LEOTP_DEADLINK, ts : Time] /\ sinceSent' \in Nat
  <2>1. 0 \in 0 .. LEOTP_DEADLINK /\ 0 \in Time
    BY TimerAssumption DEF Time
  <2>. QED
    BY <2>1 DEF Answer
<1>. QED
  BY <1>2, <1>3, DataKeeps DEF Answer

LEMMA OtherAnswerKeeps ==
  ASSUME TimerInv, OtherAnswer
  PROVE  TimerInv'
<1>1. est \in Estimates
  BY DEF TimerInv, TypeOK, Estimates
<1>2. est' \in Estimates
  BY <1>1, OtherAnswerCases, UpdateRTTType
<1>3. interest' \in [xmit : 0 .. LEOTP_DEADLINK, ts : Time] /\ sinceSent' \in Nat
  BY DEF TimerInv, TypeOK, OtherAnswer
<1>. QED
  BY <1>2, <1>3, DataKeeps DEF OtherAnswer

LEMMA TickKeeps ==
  ASSUME TimerInv, Tick
  PROVE  TimerInv'
<1>1. now' \in Time /\ now \in Nat /\ MaxLag \in Nat /\ sleep \in Nat /\ lag \in 0 .. MaxLag
  BY PlusType, TimerAssumption DEF TimerInv, TypeOK, Tick, Time
<1>2. sleep' \in Nat /\ lag' \in 0 .. MaxLag
  BY <1>1 DEF Tick
<1>3. TypeOK'
  BY <1>1, <1>2 DEF TimerInv, TypeOK, Tick, rttVars
<1>4. ReadingFresh'
  <2>1. SUFFICES ASSUME phase' = "decide", ~ readBack'
                 PROVE  updateTime' <= now' + LEOTP_UPDATE_INTERVAL
    BY DEF ReadingFresh
  <2>2. phase = "decide" /\ ~ readBack /\ ~ (now' < now) /\ updateTime' = updateTime
    BY <2>1, Zenon DEF Tick
  <2>3. updateTime <= now + LEOTP_UPDATE_INTERVAL /\ updateTime \in Nat /\ now' \in Nat
    BY <1>1, <2>2, TimerAssumption DEF TimerInv, TypeOK, ReadingFresh, Time
  <2>4. LEOTP_UPDATE_INTERVAL \in Nat /\ now' >= now
    BY <1>1, <2>2, <2>3, TimerAssumption
  <2>5. updateTime <= now' + LEOTP_UPDATE_INTERVAL
    BY <1>1, <2>3, <2>4, StaysBelow
  <2>. QED
    BY <2>2, <2>5
<1>5. TimeoutsCounted'
  BY DEF TimerInv, TimeoutsCounted, Tick, rttVars
<1>. QED
  BY <1>3, <1>4, <1>5 DEF TimerInv

LEMMA SetClockKeeps ==
  ASSUME TimerInv, SetClock
  PROVE  TimerInv'
<1>1. now' \in Time /\ sets' \in 0 .. MaxSets
  BY TimerAssumption DEF TimerInv, TypeOK, SetClock, Time
<1>2. TypeOK'
  BY <1>1 DEF TimerInv, TypeOK, SetClock, loopVars, rttVars
<1>3. ReadingFresh'
  <2>1. SUFFICES ASSUME phase' = "decide", ~ readBack'
                 PROVE  updateTime' <= now' + LEOTP_UPDATE_INTERVAL
    BY DEF ReadingFresh
  <2>2. phase = "decide" /\ ~ readBack /\ ~ (now' < now) /\ updateTime' = updateTime
    BY <2>1, Zenon DEF SetClock, loopVars
  <2>3. updateTime <= now + LEOTP_UPDATE_INTERVAL /\ updateTime \in Nat /\ now' \in Nat /\ now \in Nat
    BY <1>1, <2>2, TimerAssumption DEF TimerInv, TypeOK, ReadingFresh, Time
  <2>4. LEOTP_UPDATE_INTERVAL \in Nat /\ now' >= now
    BY <2>2, <2>3, TimerAssumption
  <2>5. updateTime <= now' + LEOTP_UPDATE_INTERVAL
    BY <2>3, <2>4, StaysBelow
  <2>. QED
    BY <2>2, <2>5
<1>4. TimeoutsCounted'
  BY DEF TimerInv, TimeoutsCounted, SetClock, rttVars
<1>. QED
  BY <1>2, <1>3, <1>4 DEF TimerInv

LEMMA TimerInvNext == TimerInv /\ [Next]_vars => TimerInv'
<1>. SUFFICES ASSUME TimerInv, [Next]_vars PROVE TimerInv'
  OBVIOUS
<1>1. CASE Check
  BY <1>1, CheckKeeps
<1>2. CASE Decide
  BY <1>2, DecideKeeps
<1>3. CASE Answer \/ OtherAnswer
  BY <1>3, AnswerKeeps, OtherAnswerKeeps
<1>4. CASE Tick
  BY <1>4, TickKeeps
<1>5. CASE SetClock
  BY <1>5, SetClockKeeps
<1>6. CASE UNCHANGED vars
  BY <1>6 DEF vars, loopVars, rttVars, histVars, TimerInv, TypeOK, ReadingFresh, TimeoutsCounted
<1>. QED
  BY <1>1, <1>2, <1>3, <1>4, <1>5, <1>6 DEF Next

(* The timer keeps its invariant, for every width and start of the clock   *)
(* and all settings of it.                                                 *)
THEOREM TimerInvariant == Spec => []TimerInv
<1>. QED
  BY TimerInvInit, TimerInvNext, PTL DEF Spec

(* Times stay within 32 bits, the estimates stay natural numbers, and the  *)
(* timeouts in a row are no more than the transmissions (leotp.cpp:238-316,*)
(* 1341-1442).                                                             *)
THEOREM TimerTypeCorrect == Spec => []TypeOK
<1>1. TimerInv => TypeOK
  BY DEF TimerInv
<1>. QED
  BY <1>1, TimerInvariant, PTL

(* The update thread goes to sleep for longer than an interval only after  *)
(* a clock read backwards (udp_leotp.cpp:260-274).                         *)
THEOREM OversleepsOnlyAfterReadBack == Spec => OversleepsOnlyReadBack
<1>1. TimerInv /\ [Next]_vars => [overslept' # overslept => readBack]_vars
  <2>. SUFFICES ASSUME TimerInv, Next, overslept' # overslept PROVE readBack
    BY DEF vars, loopVars, rttVars, histVars
  <2>1. Decide /\ Sleep /\ ~ (updateTime <= now)
    BY DEF Next, Check, Decide, Data, Answer, OtherAnswer, Tick, SetClock, Update, histVars
  <2>2. SUFFICES ASSUME ~ readBack PROVE FALSE
    OBVIOUS
  <2>3. updateTime <= now + LEOTP_UPDATE_INTERVAL /\ now < updateTime
    BY <2>1, <2>2 DEF TimerInv, ReadingFresh, Decide, TypeOK, Time
  <2>4. SleepTime <= LEOTP_UPDATE_INTERVAL /\ SleepTime \in Nat /\ LEOTP_UPDATE_INTERVAL \in Nat
    BY <2>3, SleepBounded, TimerAssumption DEF TimerInv
  <2>5. overslept' = (overslept \/ FALSE) /\ overslept \in BOOLEAN
    BY <2>1, <2>4 DEF Sleep, TimerInv, TypeOK
  <2>. QED
    BY <2>5
<1>. QED
  BY <1>1, TimerInvariant, PTL DEF Spec, OversleepsOnlyReadBack

-----------------------------------------------------------------------------
(* The inductive invariants of the flush and of the timeouts.              *)

(* Milliseconds until the clock shows t.                                   *)
Ahead(t, n) == (t - n) % CLOCK

(* The reading of check is not ahead of the clock: the thread will update, *)
(* or the clock wrapped in between and it oversleeps.                      *)
Passed(x, l) == x = 0 \/ x >= CLOCK - l

(* The most time until the thread updates, if the flush is due then, in    *)
(* phase p of a round with s to sleep, lag l, x until the reading of check.*)
WaitOf(p, s, l, x) ==
  IF p = "check" THEN s + 2 * MaxLag - l
  ELSE IF Passed(x, l) THEN MaxLag - l
  ELSE IF x <= LEOTP_UPDATE_INTERVAL THEN x + 2 * MaxLag
  ELSE LEOTP_UPDATE_INTERVAL + 3 * MaxLag - l

(* The time until the flush is due, of f until nextFlushTs: it is due      *)
(* already if f is so large that it stays above MaxSlap meanwhile.         *)
LeftOf(f, w) == IF f <= MaxSlap + w THEN f ELSE 0

(* The most time until the flush.                                          *)
FlushOf(p, l, x, w, d) ==
  IF d = 0 THEN w
  ELSE LET awake == d + LEOTP_UPDATE_INTERVAL - 1 + 2 * MaxLag
       IN IF p = "decide" /\ ~ Passed(x, l) /\ x > d + LEOTP_UPDATE_INTERVAL - 1
          THEN Higher(w, awake) ELSE awake

Reading   == Ahead(updateTime, now)
Wait      == WaitOf(phase, sleep, lag, Reading)
Left      == IF nextFlushTs = <<>> THEN 0 ELSE LeftOf(Ahead(nextFlushTs[1], now), Wait)
UntilFlush == FlushOf(phase, lag, Reading, Wait, Left)

SleepsAnInterval == ~ overslept => sleep <= LEOTP_UPDATE_INTERVAL
DecidesAwake == phase = "decide" => sleep = 0

FlushComes ==
  /\ phase = "exit" => sinceFlush = 0
  /\ ~ overslept /\ phase # "exit" => sinceFlush + UntilFlush <= Grace + sets * SetGrace

FlushInv == TimerInv /\ SleepsAnInterval /\ DecidesAwake /\ FlushComes

(* The clock shows how long ago the interest was sent, but for the times   *)
(* it went round.                                                          *)
ClockAgrees ==
  sets = 0 /\ interest.xmit > 0
    => \E k \in Nat : sinceSent = Ahead(now, interest.ts) + k * CLOCK

(* rto stays above srtt.                                                   *)
Above(e) == e.rto >= Lower(e.srtt, LEOTP_RTO_MAX)

(* When the thread flushed last, the interest was not late.                *)
AnsweredSince ==
  sets = 0 /\ interest.xmit > 0 /\ phase # "exit" /\ sinceSent < CLOCK \div 2
  => sinceSent <= SegRto(flushRto, interest.xmit) + sinceFlush

TimeoutInv == FlushInv /\ ClockAgrees /\ Above(est) /\ AnsweredSince

-----------------------------------------------------------------------------
(* The clock, and the time until the flush as it passes.                   *)

LEMMA ConstantTypes ==
  /\ CLOCK \in Nat /\ CLOCK > 0 /\ MaxSlap \in Nat /\ CLOCK > 2 * MaxSlap
  /\ LEOTP_UPDATE_INTERVAL \in Nat /\ LEOTP_UPDATE_INTERVAL > 0
  /\ MaxLag \in Nat /\ MaxSets \in Nat /\ USEC \in Nat /\ USEC > 0
  /\ MaxSlap + LEOTP_UPDATE_INTERVAL + 3 * MaxLag + 1 < CLOCK
BY TimerAssumption, LagAssumption

LEMMA ModSmall ==
  ASSUME NEW a \in Int, NEW n \in Nat, 0 <= a, a < n
  PROVE  a % n = a
OBVIOUS

LEMMA ModNegative ==
  ASSUME NEW a \in Int, NEW n \in Nat, 0 - n <= a, a < 0
  PROVE  a % n = a + n
OBVIOUS

LEMMA AheadIs ==
  ASSUME NEW t \in Time, NEW n \in Time
  PROVE  /\ Ahead(t, n) \in Time
         /\ Ahead(t, n) = IF t >= n THEN t - n ELSE t - n + CLOCK
<1>1. t \in Nat /\ n \in Nat /\ t < CLOCK /\ n < CLOCK /\ CLOCK \in Nat
  BY ConstantTypes DEF Time
<1>2. CASE t >= n
  <2>1. (t - n) % CLOCK = t - n
    BY <1>1, <1>2, ModSmall
  <2>. QED
    BY <1>1, <1>2, <2>1 DEF Ahead, Time
<1>3. CASE t < n
  <2>1. (t - n) % CLOCK = t - n + CLOCK
    BY <1>1, <1>3, ModNegative
  <2>. QED
    BY <1>1, <1>3, <2>1 DEF Ahead, Time
<1>. QED
  BY <1>1, <1>2, <1>3

LEMMA PlusIs ==
  ASSUME NEW n \in Time, NEW k \in Nat, k <= CLOCK
  PROVE  /\ Plus(n, k) \in Time
         /\ Plus(n, k) = IF n + k < CLOCK THEN n + k ELSE n + k - CLOCK
<1>1. n \in Nat /\ n < CLOCK /\ CLOCK \in Nat /\ CLOCK > 0
  BY ConstantTypes DEF Time
<1>2. CASE n + k < CLOCK
  <2>1. (n + k) % CLOCK = n + k
    BY <1>1, <1>2, ModSmall
  <2>. QED
    BY <1>1, <1>2, <2>1 DEF Plus, Time
<1>3. CASE n + k >= CLOCK
  <2>1. (n + k) % CLOCK = n + k - CLOCK
    BY <1>1, <1>3
  <2>. QED
    BY <1>1, <1>3, <2>1 DEF Plus, Time
<1>. QED
  BY <1>1, <1>2, <1>3

(* The clock approaches every time by one, or leaves it behind.            *)
LEMMA AheadTicks ==
  ASSUME NEW t \in Time, NEW n \in Time
  PROVE  Ahead(t, Plus(n, 1)) = IF Ahead(t, n) = 0 THEN CLOCK - 1 ELSE Ahead(t, n) - 1
<1>1. t \in Nat /\ n \in Nat /\ t < CLOCK /\ n < CLOCK /\ CLOCK \in Nat /\ 1 <= CLOCK
  BY ConstantTypes DEF Time
<1>2. Plus(n, 1) \in Time /\ Plus(n, 1) = IF n + 1 < CLOCK THEN n + 1 ELSE n + 1 - CLOCK
  BY <1>1, PlusIs
<1>3. Ahead(t, n) = IF t >= n THEN t - n ELSE t - n + CLOCK
  BY AheadIs
<1>4. Ahead(t, Plus(n, 1)) = IF t >= Plus(n, 1) THEN t - Plus(n, 1) ELSE t - Plus(n, 1) + CLOCK
  BY <1>2, AheadIs
<1>. QED
  BY <1>1, <1>2, <1>3, <1>4

Ticks(x, x2) == x2 = IF x = 0 THEN CLOCK - 1 ELSE x - 1

(* What a tick does to the thread.                                         *)
ThreadTicks(p, s, l, s2, l2) ==
  \/ p = "check" /\ s > 0 /\ s2 = s - 1 /\ l2 = l
  \/ s = 0 /\ s2 = 0 /\ l < MaxLag /\ l2 = l + 1

Phases == {"check", "decide"}

LEMMA WaitType ==
  ASSUME NEW p \in Phases, NEW s \in Nat, NEW l \in 0 .. MaxLag, NEW x \in Time,
         s <= LEOTP_UPDATE_INTERVAL
  PROVE  WaitOf(p, s, l, x) \in Nat /\ WaitOf(p, s, l, x) <= LEOTP_UPDATE_INTERVAL + 3 * MaxLag
BY ConstantTypes DEF WaitOf, Time, Phases

LEMMA PassedTicks ==
  ASSUME NEW l \in 0 .. MaxLag, NEW x \in Time, NEW x2 \in Time, Ticks(x, x2), l < MaxLag
  PROVE  /\ Passed(x, l) => Passed(x2, l + 1)
         /\ ~ Passed(x, l) => x > 0 /\ x2 = x - 1 /\ (Passed(x2, l + 1) => x2 = 0)
BY ConstantTypes DEF Passed, Ticks, Time

LEMMA WaitTicks ==
  ASSUME NEW p \in Phases, NEW s \in Nat, NEW l \in 0 .. MaxLag, NEW x \in Time,
         NEW s2 \in Nat, NEW l2 \in 0 .. MaxLag, NEW x2 \in Time,
         p = "decide" => s = 0, Ticks(x, x2), ThreadTicks(p, s, l, s2, l2)
  PROVE  WaitOf(p, s2, l2, x2) <= WaitOf(p, s, l, x) - 1
<1>1. CASE p = "check"
  BY <1>1, ConstantTypes DEF WaitOf, ThreadTicks
<1>2. CASE p = "decide"
  <2>1. s = 0 /\ s2 = 0 /\ l < MaxLag /\ l2 = l + 1 /\ l \in Nat /\ p # "check"
    BY <1>2 DEF ThreadTicks
  <2>2. CASE Passed(x, l)
    <3>1. Passed(x2, l2)
      BY <2>1, <2>2, PassedTicks
    <3>. QED
      BY <2>1, <2>2, <3>1, ConstantTypes DEF WaitOf
  <2>3. CASE ~ Passed(x, l)
    <3>1. x > 0 /\ x2 = x - 1 /\ (Passed(x2, l2) => x2 = 0) /\ x \in Nat
      BY <2>1, <2>3, PassedTicks DEF Time
    <3>. HIDE DEF Passed
    <3>. QED
      BY <2>1, <2>3, <3>1, ConstantTypes DEF WaitOf
  <2>. QED
    BY <2>2, <2>3
<1>. QED
  BY <1>1, <1>2 DEF Phases

LEMMA FlushTicks ==
  ASSUME NEW p \in Phases, NEW l \in 0 .. MaxLag, NEW x \in Time, NEW l2 \in 0 .. MaxLag, NEW x2 \in Time,
         NEW w \in Nat, NEW w2 \in Nat, NEW f \in Time, NEW f2 \in Time,
         Ticks(x, x2), Ticks(f, f2), p = "decide" => l < MaxLag /\ l2 = l + 1, w2 <= w - 1,
         w <= LEOTP_UPDATE_INTERVAL + 3 * MaxLag,
         p = "check" => w <= LEOTP_UPDATE_INTERVAL + 2 * MaxLag,
         p = "decide" => w = WaitOf("decide", 0, l, x) /\ w2 = WaitOf("decide", 0, l2, x2)
  PROVE  FlushOf(p, l2, x2, w2, LeftOf(f2, w2)) <= FlushOf(p, l, x, w, LeftOf(f, w)) - 1
<1>. DEFINE d == LeftOf(f, w)
            d2 == LeftOf(f2, w2)
            late == p = "decide" /\ ~ Passed(x, l) /\ x > d + LEOTP_UPDATE_INTERVAL - 1
            late2 == p = "decide" /\ ~ Passed(x2, l2) /\ x2 > d2 + LEOTP_UPDATE_INTERVAL - 1
            awake == d + LEOTP_UPDATE_INTERVAL - 1 + 2 * MaxLag
            awake2 == d2 + LEOTP_UPDATE_INTERVAL - 1 + 2 * MaxLag
<1>0. SUFFICES FlushOf(p, l2, x2, w2, d2) <= FlushOf(p, l, x, w, d) - 1
  OBVIOUS
<1>1. d \in Nat /\ d2 \in Nat /\ (d2 = 0 \/ (d2 = f2 /\ f2 > 0)) /\ (d = 0 \/ (d = f /\ f > 0))
  BY DEF LeftOf, Time
<1>2. d = 0 => d2 = 0
  BY ConstantTypes DEF LeftOf, Ticks, Time
<1>3. d > 0 => f2 = f - 1 /\ d = f /\ (d2 = d - 1 \/ (d2 = 0 /\ f2 > MaxSlap + w2))
  BY ConstantTypes DEF LeftOf, Ticks, Time
<1>4. /\ FlushOf(p, l, x, w, d) = IF d = 0 THEN w ELSE IF late THEN Higher(w, awake) ELSE awake
      /\ FlushOf(p, l2, x2, w2, d2) = IF d2 = 0 THEN w2 ELSE IF late2 THEN Higher(w2, awake2) ELSE awake2
  BY DEF FlushOf
<1>5. CASE d = 0
  BY <1>2, <1>4, <1>5
<1>6. CASE d > 0 /\ d2 > 0
  <2>1. d2 = d - 1
    BY <1>1, <1>3, <1>6
  <2>2. late2 => late
    <3>. SUFFICES ASSUME p = "decide", ~ Passed(x2, l2), x2 > d2 + LEOTP_UPDATE_INTERVAL - 1 PROVE late
      OBVIOUS
    <3>1. l < MaxLag /\ l2 = l + 1
      OBVIOUS
    <3>2. ~ Passed(x, l)
      BY <3>1, PassedTicks
    <3>3. x > 0 /\ x2 = x - 1
      BY <3>1, <3>2, PassedTicks
    <3>. HIDE DEF d, d2
    <3>. QED
      BY <1>1, <2>1, <3>2, <3>3, ConstantTypes DEF Time
  <2>3. awake2 = awake - 1 /\ awake \in Int
    <3>. HIDE DEF d, d2
    <3>. QED
      BY <1>1, <2>1, ConstantTypes
  <2>4. FlushOf(p, l2, x2, w2, d2) = IF late2 THEN Higher(w2, awake2) ELSE awake2
    BY <1>4, <1>6
  <2>5. FlushOf(p, l, x, w, d) = IF late THEN Higher(w, awake) ELSE awake
    BY <1>4, <1>6
  <2>. HIDE DEF d, d2, awake, awake2, late, late2
  <2>6. awake2 = awake - 1 /\ awake \in Int /\ awake2 \in Int
    BY <2>3
  <2>7. Higher(w2, awake2) <= Higher(w, awake) - 1 /\ awake2 <= Higher(w, awake) - 1 /\ awake2 <= awake - 1
    BY <2>6 DEF Higher
  <2>8. CASE late
    BY <2>4, <2>5, <2>7, <2>8
  <2>9. CASE ~ late
    BY <2>2, <2>4, <2>5, <2>7, <2>9
  <2>. QED
    BY <2>8, <2>9
<1>7. CASE d > 0 /\ d2 = 0
  <2>1. SUFFICES w2 <= FlushOf(p, l, x, w, d) - 1
    BY <1>4, <1>7
  <2>2. CASE late
    <3>1. FlushOf(p, l, x, w, d) = Higher(w, awake)
      BY <1>4, <1>7, <2>2
    <3>2. awake \in Int
      <4>. HIDE DEF d
      <4>. QED
        BY <1>1, ConstantTypes
    <3>. HIDE DEF d, awake
    <3>. QED
      BY <3>1, <3>2 DEF Higher
  <2>3. CASE ~ late /\ f2 > MaxSlap + w2
    <3>1. FlushOf(p, l, x, w, d) = awake /\ d = f2 + 1
      BY <1>3, <1>4, <1>7, <2>3 DEF Time
    <3>. HIDE DEF d
    <3>. QED
      BY <2>3, <3>1, ConstantTypes DEF Time
  <2>4. CASE ~ late /\ d = 1
    <3>1. FlushOf(p, l, x, w, d) = LEOTP_UPDATE_INTERVAL + 2 * MaxLag
      <4>1. FlushOf(p, l, x, w, d) = awake
        BY <1>4, <1>7, <2>4
      <4>. HIDE DEF d
      <4>. QED
        BY <2>4, <4>1, ConstantTypes
    <3>2. CASE p = "check"
      BY <3>1, <3>2, ConstantTypes
    <3>3. CASE p = "decide"
      <4>1. l < MaxLag /\ l2 = l + 1 /\ l \in Nat
        BY <3>3
      <4>2. Passed(x, l) \/ x <= LEOTP_UPDATE_INTERVAL
        <5>. HIDE DEF d
        <5>. QED
          BY <2>4, <3>3, ConstantTypes DEF Time
      <4>3. Passed(x2, l2) \/ (x2 <= LEOTP_UPDATE_INTERVAL - 1)
        BY <4>1, <4>2, PassedTicks, ConstantTypes DEF Time
      <4>4. w2 <= LEOTP_UPDATE_INTERVAL - 1 + 2 * MaxLag
        <5>1. w2 = IF Passed(x2, l2) THEN MaxLag - l2 ELSE IF x2 <= LEOTP_UPDATE_INTERVAL THEN x2 + 2 * MaxLag
                   ELSE LEOTP_UPDATE_INTERVAL + 3 * MaxLag - l2
          BY <3>3 DEF WaitOf
        <5>. HIDE DEF Passed
        <5>. QED
          BY <4>1, <4>3, <5>1, ConstantTypes DEF Time
      <4>. QED
        BY <3>1, <4>4, ConstantTypes
    <3>. QED
      BY <3>2, <3>3 DEF Phases
  <2>. QED
    BY <1>1, <1>3, <1>7, <2>2, <2>3, <2>4
<1>. HIDE DEF d, d2
<1>. QED
  BY <1>1, <1>5, <1>6, <1>7

-----------------------------------------------------------------------------
(* The flush comes in time.                                                *)

LEMMA FlushBelow ==
  ASSUME NEW p \in Phases, NEW l \in 0 .. MaxLag, NEW x \in Time, NEW w \in Nat, NEW d \in Nat,
         w <= LEOTP_UPDATE_INTERVAL + 3 * MaxLag, d <= MaxSlap + w
  PROVE  FlushOf(p, l, x, w, d) \in Nat /\ FlushOf(p, l, x, w, d) <= SetGrace
<1>. DEFINE awake == d + LEOTP_UPDATE_INTERVAL - 1 + 2 * MaxLag
<1>1. awake \in Nat /\ awake <= SetGrace /\ w <= SetGrace /\ SetGrace \in Nat
  BY ConstantTypes DEF SetGrace, Grace
<1>2. Higher(w, awake) \in Nat /\ Higher(w, awake) <= SetGrace
  <2>. HIDE DEF awake
  <2>. QED
    BY <1>1 DEF Higher
<1>3. FlushOf(p, l, x, w, d) \in {w, awake, Higher(w, awake)}
  BY DEF FlushOf
<1>. HIDE DEF awake
<1>. QED
  BY <1>1, <1>2, <1>3

LEMMA LeftType ==
  ASSUME NEW f \in Time, NEW w \in Nat
  PROVE  LeftOf(f, w) \in Nat /\ LeftOf(f, w) <= MaxSlap + w
BY ConstantTypes DEF LeftOf, Time

LEMMA FlushType ==
  ASSUME NEW p \in Phases, NEW s \in Nat, NEW l \in 0 .. MaxLag, NEW u \in Time, NEW n \in Time,
         NEW nf \in {<<>>} \cup {<<t>> : t \in Time}, s <= LEOTP_UPDATE_INTERVAL,
         NEW x, x = Ahead(u, n), NEW w, w = WaitOf(p, s, l, x),
         NEW d, d = IF nf = <<>> THEN 0 ELSE LeftOf(Ahead(nf[1], n), w)
  PROVE  /\ x \in Time
         /\ w \in Nat /\ w <= LEOTP_UPDATE_INTERVAL + 3 * MaxLag
         /\ p = "check" => w <= LEOTP_UPDATE_INTERVAL + 2 * MaxLag
         /\ d \in Nat /\ d <= MaxSlap + w
         /\ FlushOf(p, l, x, w, d) \in Nat /\ FlushOf(p, l, x, w, d) <= SetGrace
<1>2. x \in Time
  BY AheadIs
<1>3. w \in Nat /\ w <= LEOTP_UPDATE_INTERVAL + 3 * MaxLag
  BY <1>2, WaitType
<1>4. p = "check" => w <= LEOTP_UPDATE_INTERVAL + 2 * MaxLag
  BY ConstantTypes DEF WaitOf
<1>5. d \in Nat /\ d <= MaxSlap + w
  <2>1. CASE nf = <<>>
    BY <1>3, <2>1, ConstantTypes
  <2>2. CASE nf # <<>>
    <3>1. Ahead(nf[1], n) \in Time
      BY <2>2, AheadIs
    <3>. QED
      BY <1>3, <2>2, <3>1, LeftType
  <2>. QED
    BY <2>1, <2>2
<1>6. FlushOf(p, l, x, w, d) \in Nat /\ FlushOf(p, l, x, w, d) <= SetGrace
  BY <1>2, <1>3, <1>5, FlushBelow
<1>. QED
  BY <1>2, <1>3, <1>4, <1>5, <1>6

LEMMA UntilFlushType ==
  ASSUME TypeOK, sleep <= LEOTP_UPDATE_INTERVAL, phase # "exit"
  PROVE  /\ phase \in Phases /\ lag \in 0 .. MaxLag /\ sleep \in Nat /\ Reading \in Time
         /\ Wait \in Nat /\ Wait <= LEOTP_UPDATE_INTERVAL + 3 * MaxLag
         /\ phase = "check" => Wait <= LEOTP_UPDATE_INTERVAL + 2 * MaxLag
         /\ Left \in Nat /\ Left <= MaxSlap + Wait
         /\ UntilFlush \in Nat /\ UntilFlush <= SetGrace
<1>1. /\ phase \in Phases /\ lag \in 0 .. MaxLag /\ sleep \in Nat /\ updateTime \in Time /\ now \in Time
      /\ nextFlushTs \in {<<>>} \cup {<<t>> : t \in Time}
  BY DEF TypeOK, Phases
<1>. QED
  BY <1>1, FlushType DEF Reading, Wait, Left, UntilFlush

LEMMA UntilFlushTypeNext ==
  ASSUME TypeOK', sleep' <= LEOTP_UPDATE_INTERVAL, phase' # "exit"
  PROVE  /\ phase' \in Phases /\ lag' \in 0 .. MaxLag /\ sleep' \in Nat /\ Reading' \in Time
         /\ Wait' \in Nat /\ Wait' <= LEOTP_UPDATE_INTERVAL + 3 * MaxLag
         /\ phase' = "check" => Wait' <= LEOTP_UPDATE_INTERVAL + 2 * MaxLag
         /\ Left' \in Nat /\ Left' <= MaxSlap + Wait'
         /\ UntilFlush' \in Nat /\ UntilFlush' <= SetGrace
<1>1. /\ phase' \in Phases /\ lag' \in 0 .. MaxLag /\ sleep' \in Nat /\ updateTime' \in Time /\ now' \in Time
      /\ nextFlushTs' \in {<<>>} \cup {<<t>> : t \in Time}
  BY DEF TypeOK, Phases
<1>. QED
  BY <1>1, FlushType DEF Reading, Wait, Left, UntilFlush

LEMMA BudgetType ==
  ASSUME NEW n \in Nat
  PROVE  Grace \in Nat /\ SetGrace \in Nat /\ Grace + n * SetGrace \in Nat
         /\ Grace + (n + 1) * SetGrace = Grace + n * SetGrace + SetGrace
<1>1. Grace \in Nat /\ SetGrace \in Nat
  BY ConstantTypes DEF Grace, SetGrace
<1>. QED
  BY <1>1

(* The flush is due, or the clock is far from it: it was set.              *)
LEMMA DueIs ==
  ASSUME NEW n \in Time, NEW t \in Time
  PROVE  Due(Diff(n, t)) <=> Ahead(t, n) = 0 \/ Ahead(t, n) > MaxSlap
<1>1. n \in Nat /\ t \in Nat /\ n < CLOCK /\ t < CLOCK
  BY ConstantTypes DEF Time
<1>2. Ahead(t, n) = IF t >= n THEN t - n ELSE t - n + CLOCK
  BY AheadIs
<1>3. (n - t) % CLOCK = IF n >= t THEN n - t ELSE n - t + CLOCK
  BY AheadIs DEF Ahead
<1>. HIDE DEF Ahead
<1>4. PICK d : d = (n - t) % CLOCK
  OBVIOUS
<1>5. PICK h : h = CLOCK \div 2
  OBVIOUS
<1>6. h \in Nat /\ 2 * h <= CLOCK /\ CLOCK <= 2 * h + 1
  BY <1>5, ConstantTypes
<1>7. Diff(n, t) = IF d >= h THEN d - CLOCK ELSE d
  BY <1>4, <1>5 DEF Diff
<1>8. d = IF n >= t THEN n - t ELSE n - t + CLOCK
  BY <1>3, <1>4
<1>9. d \in Nat /\ (Ahead(t, n) = IF d = 0 THEN 0 ELSE CLOCK - d)
  BY <1>1, <1>2, <1>8, ConstantTypes
<1>. QED
  BY <1>6, <1>7, <1>9, <1>8, <1>1, ConstantTypes DEF Due

LEMMA CheckKeepsFlush ==
  ASSUME FlushInv, Check
  PROVE  FlushInv'
<1>1. TimerInv' /\ TimerInv /\ TypeOK
  BY CheckKeeps DEF FlushInv, TimerInv
<1>2. /\ phase = "check" /\ sleep = 0 /\ phase' = "decide" /\ updateTime' = CheckTime
      /\ lag' = 0 /\ now' = now /\ sleep' = sleep /\ nextFlushTs' = nextFlushTs
      /\ sinceFlush' = sinceFlush /\ overslept' = overslept /\ sets' = sets
  BY DEF Check
<1>3. SleepsAnInterval' /\ DecidesAwake'
  BY <1>2 DEF FlushInv, SleepsAnInterval, DecidesAwake
<1>4. ASSUME ~ overslept
      PROVE  UntilFlush' \in Nat /\ UntilFlush \in Nat /\ UntilFlush' <= UntilFlush
  <2>0. sleep <= LEOTP_UPDATE_INTERVAL /\ phase # "exit" /\ phase' # "exit"
    BY <1>2, <1>4 DEF FlushInv, SleepsAnInterval
  <2>1. /\ lag \in 0 .. MaxLag /\ Wait = 2 * MaxLag - lag /\ UntilFlush \in Nat /\ now \in Time
        /\ lag \in Nat
    <3>1. UntilFlush \in Nat /\ lag \in 0 .. MaxLag
      BY <1>1, <2>0, UntilFlushType
    <3>2. Wait = 2 * MaxLag - lag
      BY <1>2, <3>1, ConstantTypes DEF Wait, WaitOf
    <3>. QED
      BY <1>1, <3>1, <3>2 DEF TypeOK
  <2>2. CheckTime \in Time /\ Reading' = Ahead(CheckTime, now)
    BY <1>1, <1>2, CheckTimeFresh DEF Reading
  <2>3. UntilFlush' \in Nat
    BY <1>1, <1>2, <2>0, UntilFlushTypeNext DEF TimerInv
  <2>4. Wait' = WaitOf("decide", 0, 0, Reading') /\ UntilFlush' = FlushOf("decide", 0, Reading', Wait', Left')
    BY <1>2 DEF Wait, UntilFlush
  <2>5. UntilFlush = IF Left = 0 THEN Wait ELSE Left + LEOTP_UPDATE_INTERVAL - 1 + 2 * MaxLag
    BY <1>2 DEF UntilFlush, FlushOf
  <2>6. CASE nextFlushTs = <<>> \/ Due(Diff(now, nextFlushTs[1]))
    <3>1. CheckTime = now
      BY <2>6 DEF CheckTime
    <3>2. Reading' = 0
      BY <2>1, <2>2, <3>1, AheadIs, ConstantTypes DEF Time
    <3>3. Passed(Reading', 0) /\ Wait' = MaxLag
      BY <2>4, <3>2, ConstantTypes DEF Passed, WaitOf
    <3>4. UntilFlush' = IF Left' = 0 THEN MaxLag ELSE Left' + LEOTP_UPDATE_INTERVAL - 1 + 2 * MaxLag
      BY <2>4, <3>3 DEF FlushOf
    <3>5. Left' = 0 \/ Left' = Left
      <4>1. CASE nextFlushTs = <<>>
        BY <1>2, <4>1 DEF Left
      <4>2. CASE nextFlushTs # <<>>
        <5>1. Left = LeftOf(Ahead(nextFlushTs[1], now), Wait) /\ Left' = LeftOf(Ahead(nextFlushTs[1], now), MaxLag)
          BY <1>2, <3>3, <4>2 DEF Left
        <5>2. Ahead(nextFlushTs[1], now) \in Time
          BY <1>1, <2>1, <4>2, AheadIs DEF TypeOK
        <5>. QED
          BY <2>1, <5>1, <5>2, ConstantTypes DEF LeftOf, Time
      <4>. QED
        BY <4>1, <4>2
    <3>6. Left \in Nat
      BY <1>1, <2>0, UntilFlushType
    <3>. QED
      BY <2>1, <2>3, <2>5, <3>4, <3>5, <3>6, ConstantTypes
  <2>7. CASE nextFlushTs # <<>> /\ ~ Due(Diff(now, nextFlushTs[1]))
    <3>. DEFINE t == nextFlushTs[1]
                f == Ahead(t, now)
                late == Plus(now, LEOTP_UPDATE_INTERVAL)
    <3>1. t \in Time /\ f \in Time
      BY <1>1, <2>1, <2>7, AheadIs DEF TypeOK
    <3>2. f # 0 /\ f <= MaxSlap /\ f \in Nat
      BY <2>1, <2>7, <3>1, DueIs, ConstantTypes DEF Time
    <3>3. CheckTime = t \/ CheckTime = late
      BY <2>7 DEF CheckTime, Lower
    <3>4. late \in Time /\ Ahead(late, now) = LEOTP_UPDATE_INTERVAL
      <4>1. late \in Time /\ late = IF now + LEOTP_UPDATE_INTERVAL < CLOCK THEN now + LEOTP_UPDATE_INTERVAL
                                    ELSE now + LEOTP_UPDATE_INTERVAL - CLOCK
        BY <2>1, PlusIs, ConstantTypes
      <4>. HIDE DEF late
      <4>2. Ahead(late, now) = IF late >= now THEN late - now ELSE late - now + CLOCK
        BY <2>1, <4>1, AheadIs
      <4>. QED
        BY <2>1, <4>1, <4>2, ConstantTypes DEF Time
    <3>5. Reading' = f \/ Reading' = LEOTP_UPDATE_INTERVAL
      BY <2>2, <3>3, <3>4
    <3>6. Left = f
      <4>1. Left = LeftOf(f, Wait)
        BY <2>7 DEF Left
      <4>. HIDE DEF f
      <4>. QED
        BY <2>1, <3>2, <4>1, ConstantTypes DEF LeftOf
    <3>7. Wait' \in Nat /\ Reading' \in Time
      BY <1>1, <1>2, <2>0, UntilFlushTypeNext DEF TimerInv
    <3>8. Left' = f
      <4>1. PICK w \in Nat : w = Wait'
        BY <3>7
      <4>2. Left' = LeftOf(f, w)
        BY <1>2, <2>7, <4>1 DEF Left
      <4>. HIDE DEF f
      <4>. QED
        BY <3>2, <4>2, ConstantTypes DEF LeftOf
    <3>. HIDE DEF f
    <3>9. Reading' <= f + LEOTP_UPDATE_INTERVAL - 1
      BY <3>2, <3>5, ConstantTypes
    <3>10. ~ (Reading' > f + LEOTP_UPDATE_INTERVAL - 1)
      BY <3>2, <3>7, <3>9, ConstantTypes DEF Time
    <3>11. UntilFlush' = f + LEOTP_UPDATE_INTERVAL - 1 + 2 * MaxLag
      BY <2>4, <3>2, <3>8, <3>10 DEF FlushOf
    <3>12. UntilFlush = f + LEOTP_UPDATE_INTERVAL - 1 + 2 * MaxLag
      BY <2>5, <3>2, <3>6
    <3>. QED
      BY <2>1, <2>3, <3>11, <3>12
  <2>. QED
    BY <2>6, <2>7
<1>5. FlushComes'
  <2>1. SUFFICES ASSUME ~ overslept PROVE sinceFlush + UntilFlush' <= Grace + sets * SetGrace
    BY <1>2 DEF FlushComes
  <2>2. sinceFlush + UntilFlush <= Grace + sets * SetGrace /\ sinceFlush \in Nat /\ sets \in Nat
    BY <1>1, <1>2, <2>1, ConstantTypes DEF FlushInv, FlushComes, TypeOK
  <2>3. Grace + sets * SetGrace \in Nat
    BY <2>2, BudgetType
  <2>. QED
    BY <1>4, <2>1, <2>2, <2>3
<1>. QED
  BY <1>1, <1>3, <1>5 DEF FlushInv

(* usleep is given more than an interval if the clock wrapped meanwhile.   *)
LEMMA SleepWhenPassed ==
  ASSUME NEW x \in Nat, NEW k \in Nat, x < CLOCK, x >= CLOCK - k, k <= MaxLag
  PROVE  LEOTP_UPDATE_INTERVAL < ((x * USEC) % CLOCK) \div USEC
<1>1. /\ CLOCK \in Nat /\ USEC \in Nat /\ USEC > 0 /\ MaxLag \in Nat /\ LEOTP_UPDATE_INTERVAL \in Nat
      /\ USEC * (LEOTP_UPDATE_INTERVAL + MaxLag + 1) <= CLOCK
  BY ConstantTypes, LagAssumption
<1>2. PICK d \in Nat : x = CLOCK - d /\ d > 0 /\ d <= MaxLag
  BY <1>1
<1>3. PICK m \in Nat : USEC = m + 1
  BY <1>1
<1>4. PICK e \in Nat : e = d * USEC
  BY <1>1, <1>2
<1>5. e > 0 /\ e <= USEC * MaxLag
  BY <1>1, <1>2, <1>4
<1>6. USEC * (LEOTP_UPDATE_INTERVAL + MaxLag + 1) = USEC * MaxLag + (LEOTP_UPDATE_INTERVAL + 1) * USEC
  BY <1>1
<1>7. PICK v \in Nat : v = (LEOTP_UPDATE_INTERVAL + 1) * USEC
  BY <1>1
<1>8. USEC * MaxLag \in Nat
  BY <1>1
<1>9. CLOCK - e \in Nat /\ CLOCK - e < CLOCK /\ v <= CLOCK - e
  BY <1>1, <1>5, <1>6, <1>7, <1>8
<1>10. x * USEC = (CLOCK - e) + m * CLOCK
  <2>1. x * USEC = CLOCK * USEC - d * USEC
    BY <1>1, <1>2
  <2>2. CLOCK * USEC = CLOCK + m * CLOCK
    BY <1>1, <1>3
  <2>3. m * CLOCK \in Nat
    BY <1>1
  <2>. QED
    BY <1>1, <1>4, <2>1, <2>2, <2>3
<1>11. (x * USEC) % CLOCK = CLOCK - e
  <2>1. PICK r \in Nat : r = CLOCK - e
    BY <1>9
  <2>2. (r + m * CLOCK) % CLOCK = r
    BY <1>1, <1>9, <2>1, ModAdds
  <2>. QED
    BY <1>10, <2>1, <2>2
<1>12. LEOTP_UPDATE_INTERVAL + 1 <= (CLOCK - e) \div USEC
  BY <1>1, <1>7, <1>9, DivAtLeast
<1>. QED
  BY <1>1, <1>9, <1>11, <1>12, DivType

LEMMA SleepKeepsFlush ==
  ASSUME NEW l \in 0 .. MaxLag, NEW x \in Time, NEW r \in Nat, NEW x2 \in Time, NEW nf, NEW f \in Time,
         r <= LEOTP_UPDATE_INTERVAL, r <= x, ~ Passed(x, l),
         NEW w, w = WaitOf("decide", 0, l, x), NEW w2, w2 = WaitOf("check", r, 0, x2),
         NEW d, d = IF nf = <<>> THEN 0 ELSE LeftOf(f, w),
         NEW d2, d2 = IF nf = <<>> THEN 0 ELSE LeftOf(f, w2)
  PROVE  FlushOf("check", 0, x2, w2, d2) <= FlushOf("decide", l, x, w, d)
<1>1. w = IF x <= LEOTP_UPDATE_INTERVAL THEN x + 2 * MaxLag ELSE LEOTP_UPDATE_INTERVAL + 3 * MaxLag - l
  BY DEF WaitOf
<1>2. w2 = r + 2 * MaxLag
  BY ConstantTypes DEF WaitOf
<1>3. w \in Nat /\ w2 \in Nat /\ w2 <= w
  BY <1>1, <1>2, ConstantTypes DEF Time
<1>4. d \in Nat /\ d2 \in Nat /\ (d2 = 0 \/ d2 = d)
  BY <1>3, ConstantTypes DEF LeftOf, Time
<1>5. FlushOf("check", 0, x2, w2, d2) = IF d2 = 0 THEN w2 ELSE d2 + LEOTP_UPDATE_INTERVAL - 1 + 2 * MaxLag
  BY DEF FlushOf
<1>6. PICK awake : awake = d + LEOTP_UPDATE_INTERVAL - 1 + 2 * MaxLag
  OBVIOUS
<1>7. \/ d = 0 /\ FlushOf("decide", l, x, w, d) = w
      \/ d > 0 /\ FlushOf("decide", l, x, w, d) \in {awake, Higher(w, awake)}
  BY <1>4, <1>6 DEF FlushOf
<1>8. awake \in Int /\ Higher(w, awake) >= awake /\ Higher(w, awake) \in Int
  BY <1>3, <1>4, <1>6, ConstantTypes DEF Higher
<1>. QED
  BY <1>2, <1>3, <1>4, <1>5, <1>6, <1>7, <1>8, ConstantTypes, SMTT(60)

(* After a flush the next one is an interval ahead at most.                *)
LEMMA NextFlushAhead ==
  ASSUME NEW n \in Time, NEW t \in Time, n = now, Due(Diff(n, t))
  PROVE  /\ NextFlush(t, Diff(n, t)) \in Time
         /\ Ahead(NextFlush(t, Diff(n, t)), n) <= LEOTP_UPDATE_INTERVAL
<1>. DEFINE late == Plus(n, LEOTP_UPDATE_INTERVAL)
            next == Plus(t, LEOTP_UPDATE_INTERVAL)
<1>1. n \in Nat /\ t \in Nat /\ n < CLOCK /\ t < CLOCK
  BY ConstantTypes DEF Time
<1>2. late \in Time /\ Ahead(late, n) = LEOTP_UPDATE_INTERVAL
  <2>1. late \in Time /\ late = IF n + LEOTP_UPDATE_INTERVAL < CLOCK THEN n + LEOTP_UPDATE_INTERVAL
                                ELSE n + LEOTP_UPDATE_INTERVAL - CLOCK
    BY PlusIs, ConstantTypes
  <2>. HIDE DEF late
  <2>2. Ahead(late, n) = IF late >= n THEN late - n ELSE late - n + CLOCK
    BY <2>1, AheadIs
  <2>. QED
    BY <1>1, <2>1, <2>2, ConstantTypes DEF Time
<1>3. next \in Time /\ next = IF t + LEOTP_UPDATE_INTERVAL < CLOCK THEN t + LEOTP_UPDATE_INTERVAL
                              ELSE t + LEOTP_UPDATE_INTERVAL - CLOCK
  BY PlusIs, ConstantTypes
<1>4. NextFlush(t, Diff(n, t)) \in {late, next}
  BY DEF NextFlush
<1>5. CASE NextFlush(t, Diff(n, t)) = late
  BY <1>2, <1>5, ConstantTypes
<1>6. CASE ~ (Diff(n, t) >= LEOTP_UPDATE_INTERVAL \/ Diff(n, t) < - MaxSlap)
  <2>1. PICK d : d = (n - t) % CLOCK
    OBVIOUS
  <2>2. PICK h : h = CLOCK \div 2
    OBVIOUS
  <2>3. Diff(n, t) = IF d >= h THEN d - CLOCK ELSE d
    BY <2>1, <2>2 DEF Diff
  <2>4. d = IF n >= t THEN n - t ELSE n - t + CLOCK
    BY <2>1, AheadIs DEF Ahead
  <2>5. Diff(n, t) \in Int
    BY DiffType
  <2>6. Diff(n, t) >= 0 /\ Diff(n, t) < LEOTP_UPDATE_INTERVAL
    BY <1>6, <2>5, ConstantTypes DEF Due
  <2>7. h \in Nat /\ h <= CLOCK
    BY <2>2, ConstantTypes
  <2>8. Diff(n, t) = d /\ d \in Nat /\ d < LEOTP_UPDATE_INTERVAL
    BY <1>1, <2>3, <2>4, <2>6, <2>7, ConstantTypes
  <2>9. NextFlush(t, Diff(n, t)) = next
    BY <1>6 DEF NextFlush
  <2>. HIDE DEF next
  <2>10. Ahead(next, n) = IF next >= n THEN next - n ELSE next - n + CLOCK
    BY <1>3, AheadIs
  <2>11. Ahead(next, n) <= LEOTP_UPDATE_INTERVAL
    BY <1>1, <1>3, <2>4, <2>8, <2>10, ConstantTypes DEF Time
  <2>. QED
    BY <1>3, <2>9, <2>11
<1>7. CASE Diff(n, t) >= LEOTP_UPDATE_INTERVAL \/ Diff(n, t) < - MaxSlap
  <2>1. NextFlush(t, Diff(n, t)) = late
    BY <1>7 DEF NextFlush
  <2>. QED
    BY <1>2, <2>1, ConstantTypes
<1>. QED
  BY <1>6, <1>7

LEMMA WithinGrace ==
  ASSUME NEW d \in Nat, d <= LEOTP_UPDATE_INTERVAL
  PROVE  (IF d = 0 THEN 2 * MaxLag ELSE d + LEOTP_UPDATE_INTERVAL - 1 + 2 * MaxLag) <= Grace
<1>1. 2 * MaxLag <= Grace
  BY ConstantTypes DEF Grace
<1>2. d + LEOTP_UPDATE_INTERVAL - 1 + 2 * MaxLag <= Grace
  BY ConstantTypes DEF Grace
<1>. QED
  BY <1>1, <1>2

LEMMA DecideKeepsFlush ==
  ASSUME FlushInv, Decide
  PROVE  FlushInv'
<1>1. TimerInv' /\ TypeOK /\ TypeOK'
  BY DecideKeeps DEF FlushInv, TimerInv
<1>2. /\ phase = "decide" /\ sleep = 0 /\ updateTime' = 0 /\ lag' = 0 /\ now' = now /\ sets' = sets
  BY DEF Decide, FlushInv, DecidesAwake
<1>3. /\ now \in Time /\ lag \in 0 .. MaxLag /\ sinceFlush \in Nat /\ sets \in Nat /\ updateTime \in Time
      /\ sleep <= LEOTP_UPDATE_INTERVAL /\ overslept \in BOOLEAN
  BY <1>1, <1>2, ConstantTypes DEF TypeOK
<1>4. /\ UntilFlush \in Nat /\ Wait \in Nat /\ Left \in Nat /\ Reading \in Time
      /\ UntilFlush = FlushOf("decide", lag, Reading, Wait, Left)
      /\ Wait = WaitOf("decide", 0, lag, Reading)
  BY <1>1, <1>2, <1>3, UntilFlushType DEF UntilFlush, Wait
<1>5. ~ overslept => sinceFlush + UntilFlush <= Grace + sets * SetGrace
  BY <1>2 DEF FlushInv, FlushComes
<1>6. Grace + sets * SetGrace \in Nat /\ Grace \in Nat /\ SetGrace \in Nat
  BY <1>3, BudgetType
<1>7. CASE Sleep /\ ~ (updateTime <= now)
  <2>1. /\ sleep' = SleepTime /\ phase' = "check" /\ nextFlushTs' = nextFlushTs /\ sinceFlush' = sinceFlush
        /\ overslept' = (overslept \/ SleepTime > LEOTP_UPDATE_INTERVAL)
    BY <1>7 DEF Sleep
  <2>2. SleepTime \in Nat
    BY <1>1, SleepBounded
  <2>9. ~ overslept' => ~ overslept /\ ~ (SleepTime > LEOTP_UPDATE_INTERVAL)
    BY <2>1
  <2>10. ~ (SleepTime > LEOTP_UPDATE_INTERVAL) => SleepTime <= LEOTP_UPDATE_INTERVAL
    BY <2>2, ConstantTypes
  <2>3. SleepsAnInterval' /\ DecidesAwake'
    BY <2>1, <2>9, <2>10 DEF SleepsAnInterval, DecidesAwake
  <2>4. ASSUME ~ overslept'
        PROVE  UntilFlush' \in Nat /\ UntilFlush' <= UntilFlush
    <3>1. sleep' <= LEOTP_UPDATE_INTERVAL /\ phase' # "exit" /\ SleepTime <= LEOTP_UPDATE_INTERVAL
      BY <2>1, <2>4, <2>9, <2>10
    <3>2. UntilFlush' \in Nat /\ Reading' \in Time
      BY <1>1, <3>1, UntilFlushTypeNext
    <3>3. PICK x \in Nat : x = updateTime - now /\ Reading = x /\ x > 0 /\ x < CLOCK
      BY <1>3, <1>7, AheadIs, ConstantTypes DEF Reading, Time
    <3>4. SleepTime = ((x * USEC) % CLOCK) \div USEC
      BY <3>3 DEF SleepTime
    <3>5. SleepTime <= x
      <4>1. PICK v \in Nat : v = x * USEC
        BY ConstantTypes
      <4>2. v % CLOCK <= v /\ v % CLOCK \in Nat
        BY <4>1, ModBelow, ModType, ConstantTypes
      <4>3. (v % CLOCK) \div USEC <= x
        BY <4>1, <4>2, DivBelow, ConstantTypes
      <4>. QED
        BY <3>4, <4>1, <4>3
    <3>6. ~ Passed(x, lag)
      <4>1. SUFFICES ASSUME x >= CLOCK - lag PROVE FALSE
        BY <3>3 DEF Passed
      <4>2. lag \in Nat /\ lag <= MaxLag
        BY <1>3
      <4>3. LEOTP_UPDATE_INTERVAL < ((x * USEC) % CLOCK) \div USEC
        BY <3>3, <4>1, <4>2, SleepWhenPassed
      <4>. QED
        BY <2>2, <3>1, <3>4, <4>3, ConstantTypes
    <3>7. Wait' = WaitOf("check", SleepTime, 0, Reading') /\ UntilFlush' = FlushOf("check", 0, Reading', Wait', Left')
      BY <1>2, <2>1 DEF Wait, UntilFlush
    <3>8. PICK f \in Time : nextFlushTs # <<>> => f = Ahead(nextFlushTs[1], now)
      <4>1. nextFlushTs # <<>> => nextFlushTs[1] \in Time
        BY <1>1 DEF TypeOK
      <4>. QED
        BY <1>3, <4>1, AheadIs
    <3>9. Left = IF nextFlushTs = <<>> THEN 0 ELSE LeftOf(f, Wait)
      BY <3>8 DEF Left
    <3>10. Left' = IF nextFlushTs = <<>> THEN 0 ELSE LeftOf(f, Wait')
      BY <1>2, <2>1, <3>8 DEF Left
    <3>11. x \in Time
      BY <3>3, ConstantTypes DEF Time
    <3>12. UntilFlush' <= UntilFlush
      <4>1. PICK w : w = Wait
        OBVIOUS
      <4>2. PICK w2 : w2 = Wait'
        OBVIOUS
      <4>3. PICK d : d = Left
        OBVIOUS
      <4>4. PICK d2 : d2 = Left'
        OBVIOUS
      <4>5. PICK x2 \in Time : x2 = Reading'
        BY <3>2
      <4>6. PICK r \in Nat : r = SleepTime
        BY <2>2
      <4>7. PICK nf : nf = nextFlushTs
        OBVIOUS
      <4>8. w = WaitOf("decide", 0, lag, x) /\ w2 = WaitOf("check", r, 0, x2)
        BY <1>4, <3>3, <3>7, <4>1, <4>2, <4>5, <4>6
      <4>9. d = (IF nf = <<>> THEN 0 ELSE LeftOf(f, w)) /\ d2 = (IF nf = <<>> THEN 0 ELSE LeftOf(f, w2))
        BY <3>9, <3>10, <4>1, <4>2, <4>3, <4>4, <4>7
      <4>10. r <= LEOTP_UPDATE_INTERVAL /\ r <= x
        BY <3>1, <3>5, <4>6
      <4>11. FlushOf("check", 0, x2, w2, d2) <= FlushOf("decide", lag, x, w, d)
        BY <1>3, <3>6, <3>11, <4>8, <4>9, <4>10, SleepKeepsFlush
      <4>. QED
        BY <1>4, <3>3, <3>7, <4>1, <4>2, <4>3, <4>4, <4>5, <4>11
    <3>. QED
      BY <3>2, <3>12
  <2>5. FlushComes'
    <3>1. SUFFICES ASSUME ~ overslept' PROVE sinceFlush + UntilFlush' <= Grace + sets * SetGrace
      BY <1>2, <2>1 DEF FlushComes
    <3>2. ~ overslept
      BY <2>9, <3>1
    <3>. QED
      BY <1>3, <1>4, <1>5, <1>6, <2>4, <3>1, <3>2
  <2>. QED
    BY <1>1, <2>3, <2>5 DEF FlushInv
<1>8. CASE Update /\ updateTime <= now
  <2>. DEFINE due == IF nextFlushTs = <<>> THEN now ELSE nextFlushTs[1]
              slap == Diff(now, due)
  <2>1. sleep' = 0 /\ overslept' = overslept
    BY <1>2, <1>8 DEF Update
  <2>2. SleepsAnInterval' /\ DecidesAwake'
    BY <2>1, ConstantTypes DEF SleepsAnInterval, DecidesAwake
  <2>3. due \in Time
    BY <1>1, <1>3 DEF TypeOK
  <2>4. CASE ~ Due(slap) /\ phase' = "check" /\ nextFlushTs' = nextFlushTs /\ sinceFlush' = sinceFlush
    <3>1. PICK f \in Nat : f = Ahead(due, now) /\ f # 0 /\ f <= MaxSlap
      <4>1. Ahead(due, now) \in Time
        BY <1>3, <2>3, AheadIs
      <4>. HIDE DEF due
      <4>. QED
        BY <1>3, <2>3, <2>4, <4>1, DueIs, ConstantTypes DEF Time
    <3>2. nextFlushTs # <<>> /\ due = nextFlushTs[1]
      <4>1. CASE nextFlushTs = <<>>
        <5>1. due = now
          BY <4>1
        <5>. HIDE DEF due
        <5>. QED
          BY <1>3, <3>1, <5>1, AheadIs DEF Time
      <4>. QED
        BY <4>1
    <3>3. Left = f
      BY <1>4, <3>1, <3>2, ConstantTypes DEF Left, LeftOf
    <3>4. /\ UntilFlush' \in Nat /\ Wait' \in Nat
      BY <1>1, <2>1, <2>4, UntilFlushTypeNext, ConstantTypes
    <3>5. Left' = f
      <4>1. PICK w \in Nat : w = Wait'
        BY <3>4
      <4>2. Left' = LeftOf(Ahead(nextFlushTs[1], now), w)
        BY <1>2, <2>4, <3>2, <4>1 DEF Left
      <4>. QED
        BY <3>1, <3>2, <4>2, ConstantTypes DEF LeftOf
    <3>6. UntilFlush' = f + LEOTP_UPDATE_INTERVAL - 1 + 2 * MaxLag
      BY <2>4, <3>1, <3>5 DEF UntilFlush, FlushOf
    <3>7. UntilFlush >= f + LEOTP_UPDATE_INTERVAL - 1 + 2 * MaxLag
      <4>1. PICK awake \in Int : awake = f + LEOTP_UPDATE_INTERVAL - 1 + 2 * MaxLag
        BY ConstantTypes
      <4>2. UntilFlush \in {awake, Higher(Wait, awake)}
        BY <1>4, <3>1, <3>3, <4>1 DEF FlushOf
      <4>. QED
        BY <1>4, <4>1, <4>2 DEF Higher
    <3>8. FlushComes'
      <4>1. SUFFICES ASSUME ~ overslept PROVE sinceFlush + UntilFlush' <= Grace + sets * SetGrace
        BY <1>2, <2>1, <2>4 DEF FlushComes
      <4>2. PICK u \in Nat : u = UntilFlush /\ sinceFlush + u <= Grace + sets * SetGrace
        BY <1>4, <1>5, <4>1
      <4>3. PICK u2 \in Nat : u2 = UntilFlush' /\ u2 <= u
        <5>1. PICK u2 \in Nat : u2 = UntilFlush'
          BY <3>4
        <5>. QED
          BY <3>1, <3>6, <3>7, <4>2, <5>1, ConstantTypes
      <4>4. PICK b \in Nat : b = Grace + sets * SetGrace
        BY <1>6
      <4>5. sinceFlush + u2 <= b
        BY <1>3, <4>2, <4>3, <4>4
      <4>. QED
        BY <4>3, <4>4, <4>5
    <3>. QED
      BY <1>1, <2>2, <3>8 DEF FlushInv
  <2>5. CASE Due(slap) /\ nextFlushTs' = <<NextFlush(due, slap)>> /\ sinceFlush' = 0
    <3>1. PICK nf \in Time : nf = NextFlush(due, slap) /\ Ahead(nf, now) <= LEOTP_UPDATE_INTERVAL
      <4>. HIDE DEF due
      <4>. QED
        BY <1>3, <2>3, <2>5, NextFlushAhead
    <3>2. PICK f \in Time : f = Ahead(nf, now) /\ f <= LEOTP_UPDATE_INTERVAL
      BY <1>3, <3>1, AheadIs
    <3>3. ASSUME phase' # "exit"
          PROVE  UntilFlush' \in Nat /\ UntilFlush' <= Grace
      <4>1. phase' = "check"
        BY <1>1, <1>8, <3>3 DEF Update, FlushInterest
      <4>2. UntilFlush' \in Nat /\ Wait' = 2 * MaxLag /\ Left' \in Nat
        <5>1. UntilFlush' \in Nat /\ Left' \in Nat
          BY <1>1, <2>1, <3>3, UntilFlushTypeNext, ConstantTypes
        <5>2. Wait' = 2 * MaxLag
          BY <1>2, <2>1, <4>1, ConstantTypes DEF Wait, WaitOf
        <5>. QED
          BY <5>1, <5>2
      <4>3. Left' \in {0, f}
        BY <1>2, <2>5, <3>1, <3>2 DEF Left, LeftOf
      <4>4. UntilFlush' = IF Left' = 0 THEN Wait' ELSE Left' + LEOTP_UPDATE_INTERVAL - 1 + 2 * MaxLag
        BY <4>1 DEF UntilFlush, FlushOf
      <4>5. PICK d \in Nat : d = Left' /\ d <= LEOTP_UPDATE_INTERVAL
        BY <3>2, <4>2, <4>3, ConstantTypes DEF Time
      <4>6. UntilFlush' = IF d = 0 THEN 2 * MaxLag ELSE d + LEOTP_UPDATE_INTERVAL - 1 + 2 * MaxLag
        BY <4>2, <4>4, <4>5
      <4>7. (IF d = 0 THEN 2 * MaxLag ELSE d + LEOTP_UPDATE_INTERVAL - 1 + 2 * MaxLag) <= Grace
        BY <4>5, WithinGrace
      <4>. QED
        BY <4>2, <4>6, <4>7
    <3>4. FlushComes'
      <4>1. SUFFICES ASSUME ~ overslept, phase' # "exit" PROVE 0 + UntilFlush' <= Grace + sets * SetGrace
        BY <1>2, <2>1, <2>5 DEF FlushComes
      <4>2. sets * SetGrace \in Nat
        BY <1>3, <1>6
      <4>. QED
        BY <1>6, <3>3, <4>1, <4>2
    <3>. QED
      BY <1>1, <2>2, <3>4 DEF FlushInv
  <2>. QED
    BY <1>8, <2>4, <2>5 DEF Update
<1>. QED
  BY <1>7, <1>8 DEF Decide

LEMMA SumBelow ==
  ASSUME NEW a \in Nat, NEW b \in Nat, NEW c \in Nat, NEW d \in Nat, a <= b, c <= d
  PROVE  a + c <= b + d
OBVIOUS

LEMMA DataKeepsFlush ==
  ASSUME FlushInv, Answer \/ OtherAnswer
  PROVE  FlushInv'
<1>1. TimerInv'
  BY AnswerKeeps, OtherAnswerKeeps DEF FlushInv
<1>2. UNCHANGED <<now, phase, updateTime, sleep, nextFlushTs, lag, sinceFlush, overslept, sets>>
  <2>1. Data
    BY DEF Answer, OtherAnswer
  <2>. QED
    BY <2>1 DEF Data, loopVars
<1>3. SleepsAnInterval' /\ DecidesAwake'
  BY <1>2 DEF FlushInv, SleepsAnInterval, DecidesAwake
<1>4. UntilFlush' = UntilFlush
  BY <1>2 DEF UntilFlush, Left, Wait, Reading
<1>5. FlushComes'
  BY <1>2, <1>4 DEF FlushInv, FlushComes
<1>. QED
  BY <1>1, <1>3, <1>5 DEF FlushInv

LEMMA TickKeepsFlush ==
  ASSUME FlushInv, Tick
  PROVE  FlushInv'
<1>1. TimerInv' /\ TypeOK /\ TypeOK'
  BY TickKeeps DEF FlushInv, TimerInv
<1>2. /\ phase # "exit" /\ phase' = phase /\ now' = Plus(now, 1) /\ updateTime' = updateTime
      /\ nextFlushTs' = nextFlushTs /\ sinceFlush' = sinceFlush + 1 /\ overslept' = overslept /\ sets' = sets
      /\ \/ sleep > 0 /\ sleep' = sleep - 1 /\ lag' = lag
         \/ ~ (sleep > 0) /\ lag < MaxLag /\ lag' = lag + 1 /\ sleep' = sleep
  BY DEF Tick
<1>3. /\ now \in Time /\ lag \in 0 .. MaxLag /\ lag' \in 0 .. MaxLag /\ sleep \in Nat /\ sleep' \in Nat
      /\ sets \in Nat /\ sinceFlush \in Nat /\ updateTime \in Time /\ phase \in Phases
      /\ nextFlushTs # <<>> => nextFlushTs[1] \in Time
  BY <1>1, <1>2, ConstantTypes DEF TypeOK, Phases
<1>4. phase = "decide" => sleep = 0
  BY DEF FlushInv, DecidesAwake
<1>5. ThreadTicks(phase, sleep, lag, sleep', lag')
  BY <1>2, <1>3, <1>4, ConstantTypes DEF ThreadTicks, Phases
<1>6. SleepsAnInterval' /\ DecidesAwake'
  BY <1>2, <1>3, <1>4, ConstantTypes DEF FlushInv, SleepsAnInterval, DecidesAwake
<1>7. ASSUME ~ overslept
      PROVE  UntilFlush \in Nat /\ UntilFlush' \in Nat /\ UntilFlush' <= UntilFlush - 1
  <2>1. sleep <= LEOTP_UPDATE_INTERVAL /\ sleep' <= LEOTP_UPDATE_INTERVAL
    BY <1>2, <1>6, <1>7 DEF FlushInv, SleepsAnInterval
  <2>2. /\ UntilFlush \in Nat /\ Wait \in Nat /\ Wait <= LEOTP_UPDATE_INTERVAL + 3 * MaxLag
        /\ phase = "check" => Wait <= LEOTP_UPDATE_INTERVAL + 2 * MaxLag
    BY <1>1, <1>2, <2>1, UntilFlushType
  <2>3. UntilFlush' \in Nat /\ Wait' \in Nat
    BY <1>1, <1>2, <2>1, UntilFlushTypeNext
  <2>4. PICK x \in Time : x = Reading
    BY <1>3, AheadIs DEF Reading
  <2>5. PICK x2 \in Time : x2 = Reading' /\ Ticks(x, x2)
    <3>1. Reading' = Ahead(updateTime, Plus(now, 1))
      BY <1>2 DEF Reading
    <3>2. Ahead(updateTime, Plus(now, 1)) = IF x = 0 THEN CLOCK - 1 ELSE x - 1
      BY <1>3, <2>4, AheadTicks DEF Reading
    <3>. QED
      BY <2>4, <3>1, <3>2, ConstantTypes DEF Ticks, Time
  <2>6. PICK w \in Nat : w = Wait /\ w = WaitOf(phase, sleep, lag, x)
    BY <2>2, <2>4 DEF Wait
  <2>7. PICK w2 \in Nat : w2 = Wait' /\ w2 = WaitOf(phase, sleep', lag', x2)
    BY <1>2, <2>3, <2>5 DEF Wait
  <2>8. w2 <= w - 1
    BY <1>3, <1>4, <1>5, <2>5, <2>6, <2>7, WaitTicks
  <2>9. phase = "decide" => /\ lag < MaxLag /\ lag' = lag + 1
                            /\ w = WaitOf("decide", 0, lag, x) /\ w2 = WaitOf("decide", 0, lag', x2)
    BY <1>2, <1>3, <1>4, <2>6, <2>7
  <2>10. CASE nextFlushTs = <<>>
    <3>1. UntilFlush = w /\ UntilFlush' = w2
      BY <1>2, <2>6, <2>7, <2>10 DEF UntilFlush, FlushOf, Left
    <3>. QED
      BY <2>2, <2>3, <2>8, <3>1
  <2>11. CASE nextFlushTs # <<>>
    <3>1. PICK f \in Time : f = Ahead(nextFlushTs[1], now)
      BY <1>3, <2>11, AheadIs
    <3>2. PICK f2 \in Time : f2 = Ahead(nextFlushTs[1], Plus(now, 1)) /\ Ticks(f, f2)
      <4>1. Ahead(nextFlushTs[1], Plus(now, 1)) = IF f = 0 THEN CLOCK - 1 ELSE f - 1
        BY <1>3, <2>11, <3>1, AheadTicks
      <4>. QED
        BY <3>1, <4>1, ConstantTypes DEF Ticks, Time
    <3>3. UntilFlush = FlushOf(phase, lag, x, w, LeftOf(f, w))
      BY <2>4, <2>6, <2>11, <3>1 DEF UntilFlush, Left
    <3>4. UntilFlush' = FlushOf(phase, lag', x2, w2, LeftOf(f2, w2))
      BY <1>2, <2>5, <2>7, <2>11, <3>2 DEF UntilFlush, Left
    <3>5. FlushOf(phase, lag', x2, w2, LeftOf(f2, w2)) <= FlushOf(phase, lag, x, w, LeftOf(f, w)) - 1
      BY <1>3, <2>2, <2>5, <2>6, <2>8, <2>9, <3>2, FlushTicks
    <3>. QED
      BY <2>2, <2>3, <3>3, <3>4, <3>5
  <2>. QED
    BY <2>10, <2>11
<1>8. FlushComes'
  <2>1. SUFFICES ASSUME ~ overslept PROVE (sinceFlush + 1) + UntilFlush' <= Grace + sets * SetGrace
    BY <1>2 DEF FlushComes
  <2>2. PICK b \in Nat : b = Grace + sets * SetGrace
    BY <1>3, BudgetType
  <2>3. sinceFlush + UntilFlush <= b
    BY <1>2, <2>1, <2>2 DEF FlushInv, FlushComes
  <2>4. (sinceFlush + 1) + UntilFlush' <= b
    BY <1>3, <1>7, <2>1, <2>3
  <2>. QED
    BY <2>2, <2>4
<1>. QED
  BY <1>1, <1>6, <1>8 DEF FlushInv

LEMMA SetClockKeepsFlush ==
  ASSUME FlushInv, SetClock
  PROVE  FlushInv'
<1>1. TimerInv' /\ TypeOK /\ TypeOK'
  BY SetClockKeeps DEF FlushInv, TimerInv
<1>2. /\ phase # "exit" /\ phase' = phase /\ sets' = sets + 1
      /\ UNCHANGED <<updateTime, sleep, nextFlushTs, lag, sinceFlush, overslept>>
  BY DEF SetClock, loopVars
<1>3. SleepsAnInterval' /\ DecidesAwake'
  BY <1>2 DEF FlushInv, SleepsAnInterval, DecidesAwake
<1>4. FlushComes'
  <2>1. SUFFICES ASSUME ~ overslept PROVE sinceFlush + UntilFlush' <= Grace + (sets + 1) * SetGrace
    BY <1>2 DEF FlushComes
  <2>2. sleep <= LEOTP_UPDATE_INTERVAL /\ sleep' <= LEOTP_UPDATE_INTERVAL
    BY <1>2, <2>1 DEF FlushInv, SleepsAnInterval
  <2>3. UntilFlush \in Nat
    BY <1>1, <1>2, <2>2, UntilFlushType
  <2>4. UntilFlush' \in Nat /\ UntilFlush' <= SetGrace
    BY <1>1, <1>2, <2>2, UntilFlushTypeNext
  <2>5. sets \in Nat /\ sinceFlush \in Nat
    BY <1>1, ConstantTypes DEF TypeOK
  <2>6. PICK b \in Nat : b = Grace + sets * SetGrace
    BY <2>5, BudgetType
  <2>7. sinceFlush + UntilFlush <= b
    BY <1>2, <2>1, <2>6 DEF FlushInv, FlushComes
  <2>8. Grace + (sets + 1) * SetGrace = b + SetGrace
    BY <2>5, <2>6, BudgetType
  <2>9. SetGrace \in Nat
    BY <2>5, BudgetType
  <2>10. sinceFlush <= b
    BY <2>3, <2>5, <2>7
  <2>11. PICK g \in Nat : g = SetGrace
    BY <2>9
  <2>12. PICK u \in Nat : u = UntilFlush' /\ u <= g
    BY <2>4, <2>11
  <2>13. sinceFlush + u <= b + g
    BY <2>5, <2>10, <2>12, SumBelow
  <2>. QED
    BY <2>8, <2>11, <2>12, <2>13
<1>. QED
  BY <1>1, <1>3, <1>4 DEF FlushInv

LEMMA FlushInvInit == Init => FlushInv
<1>. SUFFICES ASSUME Init PROVE FlushInv
  OBVIOUS
<1>1. TimerInv
  BY TimerInvInit
<1>2. SleepsAnInterval /\ DecidesAwake
  BY ConstantTypes DEF Init, SleepsAnInterval, DecidesAwake
<1>3. FlushComes
  <2>1. UntilFlush = 2 * MaxLag
    BY ConstantTypes DEF Init, UntilFlush, FlushOf, Left, Wait, WaitOf
  <2>2. sinceFlush = 0 /\ sets * SetGrace = 0 /\ phase = "check"
    BY BudgetType DEF Init
  <2>. QED
    BY <2>1, <2>2, ConstantTypes DEF FlushComes, Grace
<1>. QED
  BY <1>1, <1>2, <1>3 DEF FlushInv

LEMMA FlushInvNext == FlushInv /\ [Next]_vars => FlushInv'
<1>. SUFFICES ASSUME FlushInv, [Next]_vars PROVE FlushInv'
  OBVIOUS
<1>1. CASE Check
  BY <1>1, CheckKeepsFlush
<1>2. CASE Decide
  BY <1>2, DecideKeepsFlush
<1>3. CASE Answer \/ OtherAnswer
  BY <1>3, DataKeepsFlush
<1>4. CASE Tick
  BY <1>4, TickKeepsFlush
<1>5. CASE SetClock
  BY <1>5, SetClockKeepsFlush
<1>6. CASE UNCHANGED vars
  <2>1. TimerInv'
    BY <1>6, TimerInvNext DEF FlushInv
  <2>2. UNCHANGED <<now, phase, updateTime, sleep, nextFlushTs, lag, sinceFlush, overslept, sets>>
    BY <1>6 DEF vars, loopVars, histVars
  <2>3. UntilFlush' = UntilFlush
    BY <2>2 DEF UntilFlush, Left, Wait, Reading
  <2>. QED
    BY <2>1, <2>2, <2>3 DEF FlushInv, SleepsAnInterval, DecidesAwake, FlushComes
<1>. QED
  BY <1>1, <1>2, <1>3, <1>4, <1>5, <1>6 DEF Next

(* The time since the last flush and the most time until the next one are  *)
(* together within the bound, for every width of the clock, and wherever   *)
(* and whenever it is set.                                                 *)
THEOREM FlushInvariant == Spec => []FlushInv
<1>. QED
  BY FlushInvInit, FlushInvNext, PTL DEF Spec

LEMMA FlushInTimeFollows == FlushInv => FlushesInTime
<1>. SUFFICES ASSUME FlushInv, ~ overslept PROVE sinceFlush <= Grace + sets * SetGrace
  BY DEF FlushesInTime
<1>1. TypeOK /\ sleep <= LEOTP_UPDATE_INTERVAL
  BY DEF FlushInv, TimerInv, SleepsAnInterval
<1>2. sinceFlush \in Nat /\ sets \in Nat
  BY <1>1, ConstantTypes DEF TypeOK
<1>3. PICK b \in Nat : b = Grace + sets * SetGrace
  BY <1>2, BudgetType
<1>4. CASE phase = "exit"
  BY <1>3, <1>4 DEF FlushInv, FlushComes
<1>5. CASE phase # "exit"
  <2>1. UntilFlush \in Nat
    BY <1>1, <1>5, UntilFlushType
  <2>2. sinceFlush + UntilFlush <= b
    BY <1>3, <1>5 DEF FlushInv, FlushComes
  <2>3. sinceFlush <= b
    BY <1>2, <2>1, <2>2
  <2>. QED
    BY <1>3, <2>3
<1>. QED
  BY <1>4, <1>5

(* The update thread flushes in time while it has not overslept            *)
(* (leotp.cpp:1393-1440, udp_leotp.cpp:255-275).                           *)
THEOREM FlushesAlwaysInTime == Spec => []FlushesInTime
<1>. QED
  BY FlushInvariant, FlushInTimeFollows, PTL

-----------------------------------------------------------------------------
(* The timeout of an interest.                                             *)

LEMMA PowerExists ==
  ASSUME NEW b \in Nat, NEW k \in Nat
  PROVE  \E p \in [0 .. k -> Nat] : p[0] = 1 /\ \A i \in 1 .. k : p[i] = b * p[i - 1]
<1>. DEFINE G == [q \in Nat \X Nat |-> b * q[1]]
            S == Nat
            one == 1
<1>1. G \in [S \X Nat -> S]
  OBVIOUS
<1>2. one \in S
  OBVIOUS
<1>3. ASSUME NEW x \in Nat, NEW i \in Nat PROVE G[<<x, i>>] = b * x
  <2>1. <<x, i>> \in Nat \X Nat
    OBVIOUS
  <2>. QED
    BY <2>1
<1>. HIDE DEF G, S, one
<1>4. R!Solvable(k, S, one, G)
  BY <1>1, <1>2, R!RecursionExists
<1>5. PICK h \in [0 .. k -> Nat] : h[0] = 1 /\ \A i \in 1 .. k : h[i] = G[<<h[i - 1], i>>]
  BY <1>4 DEF R!Solvable, S, one
<1>6. ASSUME NEW i \in 1 .. k PROVE h[i] = b * h[i - 1]
  <2>1. h[i - 1] \in Nat /\ i \in Nat /\ h[i] = G[<<h[i - 1], i>>]
    BY <1>5
  <2>. QED
    BY <1>3, <2>1
<1>. QED
  BY <1>5, <1>6

Powers(b, k, p) == p = [i \in 0 .. k |-> IF i = 0 THEN 1 ELSE b * p[i - 1]]

LEMMA PowerIs ==
  ASSUME NEW b \in Nat, NEW k \in Nat
  PROVE  \E p : Powers(b, k, p) /\ Power(b, k) = p[k]
<1>1. PICK p \in [0 .. k -> Nat] : p[0] = 1 /\ \A i \in 1 .. k : p[i] = b * p[i - 1]
  BY PowerExists
<1>2. Powers(b, k, p)
  <2>1. ASSUME NEW i \in 0 .. k PROVE p[i] = IF i = 0 THEN 1 ELSE b * p[i - 1]
    <3>1. i = 0 \/ i \in 1 .. k
      OBVIOUS
    <3>. QED
      BY <1>1, <3>1
  <2>. QED
    BY <1>1, <2>1 DEF Powers
<1>3. Power(b, k) = (CHOOSE p2 : Powers(b, k, p2))[k]
  BY DEF Power, Powers
<1>. QED
  BY <1>2, <1>3

(* The powers of 2 are positive, and those of 3 are not less.              *)
LEMMA PowerType ==
  ASSUME NEW k \in Nat
  PROVE  /\ Power(2, k) \in Nat /\ Power(2, k) > 0
         /\ Power(3, k) \in Nat /\ Power(3, k) >= Power(2, k)
<1>1. PICK p : Powers(2, k, p) /\ Power(2, k) = p[k]
  BY PowerIs
<1>2. PICK q : Powers(3, k, q) /\ Power(3, k) = q[k]
  BY PowerIs
<1>. DEFINE Holds == {i \in Nat : i <= k => /\ p[i] \in Nat /\ p[i] > 0 /\ q[i] \in Nat /\ q[i] >= p[i]}
<1>3. 0 \in Holds
  BY <1>1, <1>2 DEF Powers
<1>4. ASSUME NEW i \in Nat, i \in Holds
      PROVE  i + 1 \in Holds
  <2>1. SUFFICES ASSUME i + 1 <= k
                 PROVE  /\ p[i + 1] \in Nat /\ p[i + 1] > 0 /\ q[i + 1] \in Nat /\ q[i + 1] >= p[i + 1]
    OBVIOUS
  <2>2. p[i] \in Nat /\ p[i] > 0 /\ q[i] \in Nat /\ q[i] >= p[i]
    BY <1>4, <2>1
  <2>3. i + 1 \in 0 .. k /\ i + 1 # 0 /\ (i + 1) - 1 = i
    BY <2>1
  <2>4. p[i + 1] = 2 * p[i] /\ q[i + 1] = 3 * q[i]
    BY <1>1, <1>2, <2>3 DEF Powers
  <2>. QED
    BY <2>2, <2>4
<1>. HIDE DEF Holds
<1>5. Nat \subseteq Holds
  BY <1>3, <1>4, R!SetInduction
<1>6. k \in Holds
  BY <1>5
<1>. QED
  BY <1>1, <1>2, <1>6 DEF Holds

(* An interest waits twice rto at least.                                   *)
LEMMA SegRtoType ==
  ASSUME NEW rto \in Nat, NEW xmit \in Nat, xmit > 0
  PROVE  SegRto(rto, xmit) \in Nat /\ SegRto(rto, xmit) >= 2 * rto
<1>1. PICK a \in Nat : a = Power(2, xmit - 1) /\ a > 0
  BY PowerType
<1>2. PICK b \in Nat : b = Power(3, xmit - 1) /\ b >= a
  BY <1>1, PowerType
<1>3. PICK c \in Nat : c = rto * b
  BY <1>2
<1>4. rto * a <= c
  BY <1>1, <1>2, <1>3
<1>5. rto <= c \div a /\ c \div a \in Nat
  BY <1>1, <1>3, <1>4, DivAtLeast, DivType
<1>6. SegRto(rto, xmit) = rto + c \div a
  BY <1>1, <1>2, <1>3 DEF SegRto
<1>7. PICK e \in Nat : e = c \div a
  BY <1>5
<1>. QED
  BY <1>5, <1>6, <1>7

-----------------------------------------------------------------------------
(* rto stays above srtt.                                                   *)

LEMMA BoundedAbove ==
  ASSUME NEW s \in Nat, NEW t \in Nat, s <= t
  PROVE  Bounded(t) \in Nat /\ Bounded(t) >= Lower(s, LEOTP_RTO_MAX)
BY TimerAssumption DEF Bounded, Lower, Higher

LEMMA SmoothedAbove ==
  ASSUME NEW e \in Estimates, NEW rtt \in Nat
  PROVE  Above(Smoothed(e, rtt))
<1>. DEFINE rttvar == (3 * e.rttvar + Distance(rtt, e.srtt)) \div 4
            srtt   == Higher((7 * e.srtt + rtt) \div 8, 1)
<1>1. e.srtt \in Nat /\ e.rttvar \in Nat
  BY DEF Estimates
<1>2. Distance(rtt, e.srtt) \in Nat
  BY <1>1 DEF Distance
<1>3. rttvar \in Nat
  BY <1>1, <1>2, DivType
<1>4. srtt \in Nat
  BY <1>1, DivType DEF Higher
<1>5. Smoothed(e, rtt) = [srtt |-> srtt, rttvar |-> rttvar,
                          rto |-> Bounded(srtt + Higher(LEOTP_UPDATE_INTERVAL, 4 * rttvar))]
  BY DEF Smoothed
<1>. HIDE DEF rttvar, srtt
<1>6. PICK t \in Nat : t = srtt + Higher(LEOTP_UPDATE_INTERVAL, 4 * rttvar) /\ srtt <= t
  BY <1>3, <1>4, ConstantTypes DEF Higher
<1>7. Bounded(t) >= Lower(srtt, LEOTP_RTO_MAX)
  BY <1>4, <1>6, BoundedAbove
<1>. QED
  BY <1>5, <1>6, <1>7 DEF Above

LEMMA UpdateRTTAbove ==
  ASSUME NEW e \in Estimates, Above(e), NEW rtt \in Int, NEW xmit \in Nat
  PROVE  Above(UpdateRTT(e, rtt, xmit))
<1>1. CASE rtt <= 0
  BY <1>1 DEF UpdateRTT
<1>2. CASE rtt > 0
  <2>1. rtt \in Nat /\ 3 * rtt \in Nat /\ rtt <= 3 * rtt
    BY <1>2
  <2>2. Above(Smoothed(e, rtt))
    BY <2>1, SmoothedAbove
  <2>3. Bounded(3 * rtt) >= Lower(rtt, LEOTP_RTO_MAX)
    BY <2>1, BoundedAbove
  <2>4. Above([srtt |-> rtt, rttvar |-> rtt \div 2, rto |-> Bounded(3 * rtt)])
    BY <2>3 DEF Above
  <2>5. UpdateRTT(e, rtt, xmit) \in {e, Smoothed(e, rtt),
                                     [srtt |-> rtt, rttvar |-> rtt \div 2, rto |-> Bounded(3 * rtt)]}
    BY <1>2 DEF UpdateRTT
  <2>. QED
    BY <2>2, <2>4, <2>5
<1>. QED
  BY <1>1, <1>2

LEMMA DivMonotone ==
  ASSUME NEW a \in Nat, NEW b \in Nat, NEW n \in Nat, n > 0, a <= b
  PROVE  a \div n <= b \div n
OBVIOUS

LEMMA BackedOffAbove ==
  ASSUME NEW e \in Estimates, Above(e)
  PROVE  Above(BackedOff(e))
<1>1. PICK s \in Nat, r \in Nat : s = e.srtt /\ r = e.rto
  BY DEF Estimates
<1>2. PICK m \in Nat : m = LEOTP_RTO_MAX
  BY TimerAssumption
<1>3. PICK a \in Nat, d \in Nat : a = ExpoNum /\ d = ExpoDen /\ d > 0 /\ a >= d
  BY TimerAssumption
<1>4. BackedOff(e).srtt = (s * a) \div d /\ BackedOff(e).rto = (r * a) \div d
  BY <1>1, <1>3 DEF BackedOff, Estimates
<1>5. s * a \in Nat /\ r * a \in Nat
  BY <1>1, <1>3
<1>6. PICK s2 \in Nat, r2 \in Nat : s2 = (s * a) \div d /\ r2 = (r * a) \div d
  BY <1>3, <1>5, DivType
<1>7. r >= s \/ r >= m
  BY <1>1, <1>2 DEF Above, Lower
<1>8. CASE r >= s
  <2>1. s * a <= r * a
    BY <1>3, <1>8
  <2>2. s2 <= r2
    BY <1>3, <1>5, <1>6, <2>1, DivMonotone
  <2>. QED
    BY <1>2, <1>4, <1>6, <2>2 DEF Above, Lower
<1>9. CASE r >= m
  <2>1. m * d <= r * a
    <3>1. m * d <= r * d
      BY <1>3, <1>9
    <3>2. r * d <= r * a
      BY <1>3
    <3>3. m * d \in Nat /\ r * d \in Nat
      BY <1>3
    <3>. QED
      BY <1>5, <3>1, <3>2, <3>3
  <2>2. m <= r2
    BY <1>3, <1>5, <1>6, <2>1, DivAtLeast
  <2>. QED
    BY <1>2, <1>4, <1>6, <2>2 DEF Above, Lower
<1>. QED
  BY <1>7, <1>8, <1>9

-----------------------------------------------------------------------------
(* Timeouts are neither early nor late.                                    *)

LEMMA DecideCases ==
  ASSUME Decide
  PROVE  /\ now' = now /\ sets' = sets /\ phase = "decide"
         /\ \/ UNCHANGED <<rttVars, sinceSent, sinceFlush, flushRto>> /\ phase' = "check"
               /\ (overslept => overslept')
            \/ /\ FlushInterest /\ sinceFlush' = 0 /\ flushRto' = est.rto
               /\ overslept' = overslept
<1>1. now' = now /\ sets' = sets /\ phase = "decide" /\ (Update \/ Sleep)
  BY DEF Decide
<1>2. CASE Sleep
  BY <1>1, <1>2 DEF Sleep
<1>3. CASE Update
  <2>. DEFINE due == IF nextFlushTs = <<>> THEN now ELSE nextFlushTs[1]
              slap == Diff(now, due)
  <2>1. overslept' = overslept
    BY <1>3 DEF Update
  <2>2. CASE Due(slap)
    <3>1. FlushInterest /\ sinceFlush' = 0 /\ flushRto' = est.rto
      BY <1>3, <2>2 DEF Update
    <3>. QED
      BY <1>1, <2>1, <3>1
  <2>3. CASE ~ Due(slap)
    <3>1. UNCHANGED <<rttVars, sinceSent, sinceFlush, flushRto>> /\ phase' = "check"
      BY <1>3, <2>3 DEF Update
    <3>. QED
      BY <1>1, <2>1, <3>1
  <2>. QED
    BY <2>2, <2>3
<1>. QED
  BY <1>1, <1>2, <1>3

LEMMA ClockAgreesKept ==
  ASSUME TypeOK, ClockAgrees, Next
  PROVE  ClockAgrees'
<1>1. now \in Time /\ interest.ts \in Time /\ sinceSent \in Nat /\ sets \in Nat /\ interest.xmit \in Nat
  BY ConstantTypes, TimerAssumption DEF TypeOK
<1>2. CASE UNCHANGED <<now, interest, sets, sinceSent>>
  BY <1>2 DEF ClockAgrees
<1>3. CASE /\ interest' = [xmit |-> interest.xmit + 1, ts |-> now]
           /\ sinceSent' = 0 /\ now' = now
  <2>1. Ahead(now', interest'.ts) = 0
    <3>1. interest'.ts = now
      BY <1>3
    <3>2. Ahead(now, now) = 0
      BY <1>1, AheadIs, ConstantTypes DEF Time
    <3>. QED
      BY <1>3, <3>1, <3>2
  <2>2. sinceSent' = Ahead(now', interest'.ts) + 0 * CLOCK
    BY <1>3, <2>1, ConstantTypes
  <2>. QED
    BY <2>2 DEF ClockAgrees
<1>4. CASE Check
  BY <1>2, <1>4 DEF Check, rttVars
<1>5. CASE Decide
  BY <1>2, <1>3, <1>5, DecideCases, FlushInterestCases DEF rttVars
<1>6. CASE Answer \/ OtherAnswer
  <2>1. interest'.xmit = 0 \/ UNCHANGED <<now, interest, sets, sinceSent>>
    BY <1>6 DEF Data, Answer, OtherAnswer
  <2>2. CASE interest'.xmit = 0
    BY <2>2 DEF ClockAgrees
  <2>. QED
    BY <1>2, <2>1, <2>2
<1>7. CASE Tick
  <2>1. /\ now' = Plus(now, 1) /\ interest' = interest /\ sets' = sets
        /\ sinceSent' = sinceSent + IF interest.xmit > 0 /\ sets = 0 THEN 1 ELSE 0
    BY <1>7 DEF Tick, rttVars
  <2>2. SUFFICES ASSUME sets = 0, interest.xmit > 0
                 PROVE  \E k \in Nat : sinceSent' = Ahead(Plus(now, 1), interest.ts) + k * CLOCK
    BY <2>1 DEF ClockAgrees
  <2>3. PICK k \in Nat : sinceSent = Ahead(now, interest.ts) + k * CLOCK
    BY <2>2 DEF ClockAgrees
  <2>4. PICK n \in Nat, t \in Nat, c \in Nat : n = now /\ t = interest.ts /\ c = CLOCK /\ n < c /\ t < c
    BY <1>1, ConstantTypes DEF Time
  <2>5. PICK a \in Nat : a = Ahead(now, interest.ts) /\ a = IF n >= t THEN n - t ELSE n - t + c
    <3>1. Ahead(now, interest.ts) = IF n >= t THEN n - t ELSE n - t + c
      BY <1>1, <2>4, AheadIs
    <3>2. (IF n >= t THEN n - t ELSE n - t + c) \in Nat
      BY <2>4
    <3>. QED
      BY <3>1, <3>2
  <2>6. Plus(now, 1) \in Time /\ Plus(now, 1) = IF n + 1 < c THEN n + 1 ELSE n + 1 - c
    BY <1>1, <2>4, PlusIs, ConstantTypes
  <2>7. Ahead(Plus(now, 1), interest.ts) = IF Plus(now, 1) >= t THEN Plus(now, 1) - t ELSE Plus(now, 1) - t + c
    BY <1>1, <2>4, <2>6, AheadIs
  <2>8. PICK b \in Nat : b = Ahead(Plus(now, 1), interest.ts) /\ (b = a + 1 \/ (b = 0 /\ a + 1 = c))
    BY <2>4, <2>5, <2>6, <2>7
  <2>9. sinceSent' = a + k * c + 1
    BY <1>1, <2>1, <2>2, <2>3, <2>4, <2>5
  <2>10. (k + 1) * c = k * c + c /\ k * c \in Nat /\ (k + 1) * c \in Nat
    OBVIOUS
  <2>11. CASE b = a + 1
    <3>1. sinceSent' = b + k * c
      BY <2>9, <2>10, <2>11
    <3>2. sinceSent' = Ahead(Plus(now, 1), interest.ts) + k * CLOCK
      BY <2>4, <2>8, <3>1
    <3>. QED
      BY <3>2
  <2>12. CASE b = 0 /\ a + 1 = c
    <3>1. sinceSent' = b + (k + 1) * c
      BY <2>9, <2>10, <2>12
    <3>2. sinceSent' = Ahead(Plus(now, 1), interest.ts) + (k + 1) * CLOCK
      BY <2>4, <2>8, <3>1
    <3>. QED
      BY <3>2
  <2>. QED
    BY <2>8, <2>11, <2>12
<1>8. CASE SetClock
  <2>1. sets' = sets + 1
    BY <1>8 DEF SetClock
  <2>. QED
    BY <1>1, <2>1 DEF ClockAgrees
<1>. QED
  BY <1>4, <1>5, <1>6, <1>7, <1>8 DEF Next

LEMMA AboveKept ==
  ASSUME TypeOK, Above(est), Next
  PROVE  Above(est')
<1>1. est \in Estimates
  BY DEF TypeOK, Estimates
<1>2. CASE Decide
  <2>1. est' \in {est, BackedOff(est)}
    BY <1>2, DecideCases, FlushInterestCases DEF rttVars
  <2>. QED
    BY <1>1, <2>1, BackedOffAbove
<1>3. CASE Answer
  <2>1. Diff(now, interest.ts) \in Int /\ interest.xmit \in Nat
    BY DiffType, TimerAssumption DEF TypeOK
  <2>2. est' = UpdateRTT(est, Diff(now, interest.ts), interest.xmit)
    BY <1>3 DEF Answer
  <2>. QED
    BY <1>1, <2>1, <2>2, UpdateRTTAbove
<1>5. CASE OtherAnswer
  BY <1>1, <1>5, OtherAnswerCases, UpdateRTTAbove
<1>4. CASE Check \/ Tick \/ SetClock
  BY <1>4 DEF Check, Tick, SetClock, rttVars
<1>. QED
  BY <1>2, <1>3, <1>4, <1>5 DEF Next

(* The signed difference is no more than the real time, and is the real    *)
(* time up to half the clock.                                              *)
LEMMA DiffAgrees ==
  ASSUME TypeOK, ClockAgrees, sets = 0, interest.xmit > 0
  PROVE  /\ Diff(now, interest.ts) \in Int /\ Diff(now, interest.ts) <= sinceSent
         /\ sinceSent < CLOCK \div 2 => Diff(now, interest.ts) = sinceSent
<1>1. PICK k \in Nat : sinceSent = Ahead(now, interest.ts) + k * CLOCK
  BY DEF ClockAgrees
<1>2. PICK c \in Nat : c = CLOCK /\ c > 0
  BY ConstantTypes
<1>3. PICK a \in Nat : a = Ahead(now, interest.ts) /\ a < c
  <2>1. now \in Time /\ interest.ts \in Time
    BY DEF TypeOK
  <2>2. Ahead(now, interest.ts) \in Time
    BY <2>1, AheadIs
  <2>. QED
    BY <1>2, <2>2 DEF Time
<1>4. PICK h \in Nat : h = CLOCK \div 2 /\ h <= c
  BY <1>2
<1>5. Diff(now, interest.ts) = IF a >= h THEN a - c ELSE a
  BY <1>2, <1>3, <1>4 DEF Diff, Ahead
<1>6. k * c \in Nat /\ sinceSent = a + k * c
  BY <1>1, <1>2, <1>3
<1>7. k = 0 \/ k * c >= c
  BY <1>2
<1>8. PICK s \in Nat : s = sinceSent /\ s >= a /\ (s = a \/ s >= c)
  <2>1. CASE k = 0
    BY <1>6, <2>1, <1>2
  <2>2. CASE k * c >= c
    BY <1>6, <2>2, <1>2
  <2>. QED
    BY <1>7, <2>1, <2>2
<1>9. s < h => s = a /\ ~ (a >= h)
  BY <1>2, <1>4, <1>8
<1>. QED
  BY <1>2, <1>3, <1>4, <1>5, <1>8, <1>9

LEMMA AnsweredSinceKept ==
  ASSUME TypeOK, ClockAgrees, AnsweredSince, Next, TypeOK'
  PROVE  AnsweredSince'
<1>1. /\ sinceSent \in Nat /\ sinceFlush \in Nat /\ sets \in Nat /\ interest.xmit \in Nat /\ est.rto \in Nat
      /\ flushRto \in Nat
  BY ConstantTypes, TimerAssumption DEF TypeOK
<1>2. CASE UNCHANGED <<interest, sinceSent, sinceFlush, flushRto, sets>> /\ phase # "exit"
  BY <1>2 DEF AnsweredSince
<1>3. CASE interest'.xmit = 0 \/ phase' = "exit"
  BY <1>3 DEF AnsweredSince
<1>4. CASE sinceSent' = 0
  <2>1. interest'.xmit \in Nat /\ flushRto' \in Nat /\ sinceFlush' \in Nat
    BY TimerAssumption DEF TypeOK
  <2>2. SUFFICES ASSUME interest'.xmit > 0 PROVE 0 <= SegRto(flushRto', interest'.xmit) + sinceFlush'
    BY <1>4 DEF AnsweredSince
  <2>3. SegRto(flushRto', interest'.xmit) \in Nat
    BY <2>1, <2>2, SegRtoType
  <2>. QED
    BY <2>1, <2>3
<1>5. CASE Check
  BY <1>2, <1>5 DEF Check, rttVars
<1>6. CASE Decide
  <2>1. CASE UNCHANGED <<rttVars, sinceSent, sinceFlush, flushRto>>
    BY <1>2, <1>6, <2>1, DecideCases DEF rttVars
  <2>2. CASE /\ ~ NeedsSend /\ UNCHANGED <<interest, sinceSent>> /\ sinceFlush' = 0
             /\ flushRto' = est.rto
    <3>1. sets' = sets /\ phase = "decide"
      BY <1>6, DecideCases
    <3>2. SUFFICES ASSUME sets = 0, interest.xmit > 0, sinceSent < CLOCK \div 2
                   PROVE  sinceSent <= SegRto(est.rto, interest.xmit) + 0
      BY <2>2, <3>1 DEF AnsweredSince
    <3>3. PICK r \in Nat : r = SegRto(est.rto, interest.xmit)
      BY <1>1, <3>2, SegRtoType
    <3>4. Diff(now, interest.ts) = sinceSent
      BY <3>2, DiffAgrees
    <3>5. ~ (sinceSent >= r)
      BY <2>2, <3>3, <3>4 DEF NeedsSend
    <3>. QED
      BY <1>1, <3>3, <3>5
  <2>3. CASE phase' = "exit" \/ sinceSent' = 0
    BY <1>3, <1>4, <2>3
  <2>. QED
    BY <1>6, <2>1, <2>2, <2>3, DecideCases, FlushInterestCases
<1>7. CASE Answer
  BY <1>3, <1>7 DEF Answer
<1>8. CASE OtherAnswer
  <2>1. UNCHANGED <<interest, sinceSent, sinceFlush, flushRto, sets>> /\ phase = "check"
    BY <1>8 DEF OtherAnswer, Data
  <2>. QED
    BY <1>2, <2>1
<1>9. CASE Tick
  <2>1. /\ UNCHANGED <<interest, sets, flushRto, phase>> /\ sinceFlush' = sinceFlush + 1
        /\ sinceSent' = sinceSent + IF interest.xmit > 0 /\ sets = 0 THEN 1 ELSE 0
    BY <1>9 DEF Tick, rttVars
  <2>2. SUFFICES ASSUME sets = 0, interest.xmit > 0, phase # "exit", sinceSent + 1 < CLOCK \div 2
                 PROVE  sinceSent + 1 <= SegRto(flushRto, interest.xmit) + (sinceFlush + 1)
    BY <2>1 DEF AnsweredSince
  <2>3. PICK r \in Nat : r = SegRto(flushRto, interest.xmit)
    BY <1>1, <2>2, SegRtoType
  <2>4. CLOCK \div 2 \in Nat
    BY ConstantTypes
  <2>5. sinceSent < CLOCK \div 2
    BY <1>1, <2>2, <2>4
  <2>6. sinceSent <= r + sinceFlush
    BY <2>2, <2>3, <2>5 DEF AnsweredSince
  <2>7. sinceSent + 1 <= r + (sinceFlush + 1)
    BY <1>1, <2>6
  <2>. QED
    BY <2>3, <2>7
<1>10. CASE SetClock
  <2>1. sinceSent' = 0
    BY <1>10 DEF SetClock
  <2>. QED
    BY <1>4, <2>1
<1>. QED
  BY <1>5, <1>6, <1>7, <1>8, <1>9, <1>10 DEF Next

LEMMA TimeoutInvInit == Init => TimeoutInv
<1>. SUFFICES ASSUME Init PROVE TimeoutInv
  OBVIOUS
<1>1. FlushInv
  BY FlushInvInit
<1>2. interest.xmit = 0 /\ est.srtt = 0 /\ est.rto = LEOTP_RTO_DEF
  BY DEF Init
<1>3. ClockAgrees /\ AnsweredSince
  BY <1>2 DEF ClockAgrees, AnsweredSince
<1>4. Above(est)
  BY <1>2, TimerAssumption DEF Above, Lower
<1>. QED
  BY <1>1, <1>3, <1>4 DEF TimeoutInv

LEMMA TimeoutInvNext == TimeoutInv /\ [Next]_vars => TimeoutInv'
<1>. SUFFICES ASSUME TimeoutInv, [Next]_vars PROVE TimeoutInv'
  OBVIOUS
<1>1. FlushInv' /\ FlushInv /\ TypeOK /\ TypeOK'
  BY FlushInvNext DEF TimeoutInv, FlushInv, TimerInv
<1>2. CASE Next
  <2>1. ClockAgrees'
    BY <1>1, <1>2, ClockAgreesKept DEF TimeoutInv
  <2>2. Above(est')
    BY <1>1, <1>2, AboveKept DEF TimeoutInv
  <2>3. AnsweredSince'
    BY <1>1, <1>2, AnsweredSinceKept DEF TimeoutInv
  <2>. QED
    BY <1>1, <2>1, <2>2, <2>3 DEF TimeoutInv
<1>3. CASE UNCHANGED vars
  BY <1>1, <1>3 DEF vars, rttVars, loopVars, histVars, TimeoutInv, ClockAgrees, AnsweredSince
<1>. QED
  BY <1>2, <1>3

(* What is known about the interest that waits: how long it waits in real  *)
(* time and by the clock, and that rto is above srtt.                      *)
THEOREM TimeoutInvariant == Spec => []TimeoutInv
<1>. QED
  BY TimeoutInvInit, TimeoutInvNext, PTL DEF Spec

(* No interest is sent again, or given up, before twice the mean RTT, for  *)
(* every factor of the backoff and across the wrap of the clock            *)
(* (leotp.cpp:1141-1145, 304-312, 1220-1221).                              *)
THEOREM TimeoutsNeverEarly == Spec => NeverEarly
<1>. DEFINE timeout == interest.xmit > 0 /\ (interest'.xmit > interest.xmit \/ phase' = "exit")
            Bound == timeout /\ sets = 0 => sinceSent >= 2 * Lower(est.srtt, LEOTP_RTO_MAX)
<1>1. TimeoutInv /\ [Next]_vars => [Bound]_vars
  <2>. SUFFICES ASSUME TimeoutInv, Next, interest.xmit > 0,
                       interest'.xmit > interest.xmit \/ phase' = "exit", sets = 0
                PROVE  sinceSent >= 2 * Lower(est.srtt, LEOTP_RTO_MAX)
    OBVIOUS
  <2>1. TypeOK /\ ClockAgrees /\ Above(est)
    BY DEF TimeoutInv, FlushInv, TimerInv
  <2>2. PICK x \in Nat, r \in Nat, m \in Nat :
          x = interest.xmit /\ r = est.rto /\ m = Lower(est.srtt, LEOTP_RTO_MAX)
    BY <2>1, TimerAssumption DEF TypeOK, Lower
  <2>3. sinceSent \in Nat /\ x > 0 /\ m <= r
    BY <2>1, <2>2 DEF TypeOK, Above
  <2>4. NeedsSend
    <3>1. ~ (interest' = interest /\ phase' # "exit")
      BY <2>2
    <3>2. ~ (interest'.xmit = 0 /\ phase' # "exit")
      BY <2>2
    <3>3. Decide \/ phase' = "exit"
      BY <3>1, <3>2 DEF Next, Check, Data, Answer, OtherAnswer, Tick, SetClock, rttVars
    <3>4. Decide
      BY <3>3 DEF Next, Check, Data, Answer, OtherAnswer, Tick, SetClock, loopVars
    <3>. QED
      BY <3>1, <3>4, DecideCases, FlushInterestCases DEF rttVars
  <2>5. Diff(now, interest.ts) >= SegRto(r, x)
    BY <2>2, <2>3, <2>4 DEF NeedsSend
  <2>6. Diff(now, interest.ts) \in Int /\ Diff(now, interest.ts) <= sinceSent
    BY <2>1, DiffAgrees
  <2>7. SegRto(r, x) \in Nat /\ SegRto(r, x) >= 2 * r
    BY <2>3, SegRtoType
  <2>8. sinceSent >= 2 * m
    BY <2>3, <2>5, <2>6, <2>7
  <2>. QED
    BY <2>2, <2>8
<1>2. [Bound]_vars <=> [LET late == interest.xmit > 0 /\ (interest'.xmit > interest.xmit \/ phase' = "exit")
     IN late /\ sets = 0 => sinceSent >= 2 * Lower(est.srtt, LEOTP_RTO_MAX)]_vars
  OBVIOUS
<1>. QED
  BY <1>1, <1>2, TimeoutInvariant, PTL DEF Spec, NeverEarly

(* An unanswered interest does not wait for more than the timeout that the *)
(* last flush found and the time between two flushes, whatever happens to  *)
(* the estimate in between, as long as a signed difference of times can    *)
(* tell how long it waits (leotp.cpp:1113-1204).                           *)
THEOREM TimeoutsNeverLate == Spec => []NeverLate
<1>1. TimeoutInv => NeverLate
  <2>. SUFFICES ASSUME TimeoutInv, ~ overslept, sets = 0, interest.xmit > 0, phase # "exit",
                       sinceSent < CLOCK \div 2
                PROVE  sinceSent <= SegRto(flushRto, interest.xmit) + Grace
    BY DEF NeverLate
  <2>1. TypeOK /\ FlushInv
    BY DEF TimeoutInv, FlushInv, TimerInv
  <2>2. sinceSent \in Nat /\ sinceFlush \in Nat /\ flushRto \in Nat /\ interest.xmit \in Nat
    BY <2>1, TimerAssumption DEF TypeOK
  <2>3. PICK r \in Nat : r = SegRto(flushRto, interest.xmit)
    BY <2>2, SegRtoType
  <2>4. PICK g \in Nat : g = Grace
    BY BudgetType
  <2>5. sinceSent <= r + sinceFlush
    BY <2>3 DEF TimeoutInv, AnsweredSince
  <2>6. sinceFlush <= g
    <3>1. FlushesInTime
      BY <2>1, FlushInTimeFollows
    <3>2. sets * SetGrace = 0
      BY BudgetType
    <3>. QED
      BY <2>4, <3>1, <3>2 DEF FlushesInTime
  <2>7. sinceSent <= r + g
    BY <2>2, <2>5, <2>6
  <2>. QED
    BY <2>3, <2>4, <2>7
<1>. QED
  BY <1>1, TimeoutInvariant, PTL
=============================================================================
