---------------------------- MODULE XTimerProofs ----------------------------
(**********************************************************************************)
(* The millisecond clock, for every width of the counter and every rate.          *)
(*                                                                                *)
(* TimeInv: the ticks so far are the overflows, counted or still latched, and the *)
(* counter.  Reading is why the test of line 94 is enough: a pair of loads that   *)
(* finds tmr_ovrflows as it was either belongs together, or the overflow          *)
(* between them is still latched and its interrupt comes before the test,         *)
(* which then fails.  That needs the interrupt to come after at most one          *)
(* access of the main context (IrqLatency <= 1): with two, the load of the        *)
(* counter and the test could both slip in before it.                             *)
(*                                                                                *)
(* The arithmetic is in the lemmas on \div and Millis: XTIMER_MAX_MS loses less   *)
(* than a millisecond at each overflow, and a wrap never takes the time back.     *)
(**********************************************************************************)
EXTENDS XTimer, TLAPS

(* Overflows that have happened, counted or still latched *)
Overflows == tmr_ovrflows + (IF tint THEN 1 ELSE 0)

(* What _xtimer_millis would return if it read everything now *)
Now == Millis(Overflows, cntr)

(* No tick is lost. *)
TimeInv == total = Overflows * CounterMod + cntr

(* What has been loaded and what was returned last are not ahead of the time; a pair of *)
(* loads that will pass the test belongs together.                                      *)
Reading ==
  /\ tmr_ovr <= tmr_ovrflows
  /\ full <= Now
  /\ mpc = "check" /\ tmr_ovr = tmr_ovrflows =>
       \/ tint /\ late >= IrqLatency
       \/ /\ readAt = tmr_ovr * CounterMod + ticks
          /\ full <= Millis(tmr_ovr, ticks) /\ Millis(tmr_ovr, ticks) <= Now

ReadInv == IrqLatency <= 1 => Reading

IInv == TimerTypeOK /\ TimeInv /\ ReadInv

-----------------------------------------------------------------------------
(* Quotients *)
LEMMA Div ==
  ASSUME NEW a \in Nat, NEW f \in Nat \ {0}
  PROVE  /\ a \div f \in Nat
         /\ (a \div f) * f <= a
         /\ a < (a \div f) * f + f
  OBVIOUS

LEMMA DivLeast ==
  ASSUME NEW a \in Nat, NEW f \in Nat \ {0}, NEW q \in Nat, q * f <= a
  PROVE  q <= a \div f
  BY Div

LEMMA DivMost ==
  ASSUME NEW a \in Nat, NEW f \in Nat \ {0}, NEW q \in Nat, a < q * f + f
  PROVE  a \div f <= q
  BY Div

(* Remainders *)
LEMMA Mod ==
  ASSUME NEW a \in Nat, NEW m \in Nat \ {0}
  PROVE  a % m \in Nat /\ a % m \in 0..(m - 1) /\ (a < m => a % m = a)
  OBVIOUS

LEMMA DivMono ==
  ASSUME NEW a \in Nat, NEW b \in Nat, a <= b, NEW f \in Nat \ {0}
  PROVE  a \div f <= b \div f
  BY Div, DivLeast


(* The milliseconds of a round of the counter, cut off *)
LEMMA MaxMs ==
  /\ XTIMER_MAX_MS \in Nat
  /\ XTIMER_MAX_MS * MsFreq <= CounterMod
  /\ CounterMod < XTIMER_MAX_MS * MsFreq + MsFreq
  BY Div, WidthAssumption DEF XTIMER_MAX_MS

LEMMA MillisType ==
  ASSUME NEW o \in Nat, NEW t \in Nat
  PROVE  Millis(o, t) \in Nat
<1>1. t \div MsFreq \in Nat
  BY Div, WidthAssumption
<1> QED
  BY <1>1, MaxMs DEF Millis

(* The time does not go back at a tick, *)
LEMMA MillisTick ==
  ASSUME NEW o \in Nat, NEW t \in Nat
  PROVE  Millis(o, t) <= Millis(o, t + 1)
<1>1. t \div MsFreq <= (t + 1) \div MsFreq
  BY DivMono, WidthAssumption
<1>2. t \div MsFreq \in Nat /\ (t + 1) \div MsFreq \in Nat
  BY Div, WidthAssumption
<1>3. XTIMER_MAX_MS * o \in Nat
  BY MaxMs
<1> QED
  BY <1>1, <1>2, <1>3 DEF Millis

(* nor at an overflow, *)
LEMMA MillisWrap ==
  ASSUME NEW o \in Nat
  PROVE  Millis(o, CounterMod - 1) <= Millis(o + 1, 0)
<1>1. (CounterMod - 1) \div MsFreq <= XTIMER_MAX_MS
  BY DivMono, WidthAssumption DEF XTIMER_MAX_MS
<1>2. (CounterMod - 1) \div MsFreq \in Nat /\ 0 \div MsFreq = 0
  BY Div, WidthAssumption
<1>3. XTIMER_MAX_MS * (o + 1) = XTIMER_MAX_MS * o + XTIMER_MAX_MS /\ XTIMER_MAX_MS * o \in Nat
  BY MaxMs
<1> QED
  BY <1>1, <1>2, <1>3, MaxMs DEF Millis

(* and is behind by less than a millisecond for each overflow. *)
LEMMA MillisDrift ==
  ASSUME NEW o \in Nat, NEW t \in Nat
  PROVE  /\ Millis(o, t) <= (o * CounterMod + t) \div MsFreq
         /\ (o * CounterMod + t) \div MsFreq <= Millis(o, t) + o
<1> DEFINE d == t \div MsFreq
           x == XTIMER_MAX_MS
           a == o * CounterMod + t
<1>1. d \in Nat /\ d * MsFreq <= t /\ t < d * MsFreq + MsFreq /\ MsFreq \in Nat \ {0}
      /\ CounterMod \in Nat /\ a \in Nat
  BY Div, WidthAssumption
<1>2. x \in Nat /\ x * MsFreq <= CounterMod /\ CounterMod < x * MsFreq + MsFreq
  BY MaxMs
<1> HIDE DEF d, x
<1>3. Millis(o, t) = x * o + d
  BY DEF Millis, d, x
<1>4. (x * o + d) * MsFreq <= a
  <2>1. o * (x * MsFreq) <= o * CounterMod
    BY <1>1, <1>2
  <2>2. (x * o + d) * MsFreq = o * (x * MsFreq) + d * MsFreq
    BY <1>1, <1>2
  <2>3. o * (x * MsFreq) \in Nat /\ o * CounterMod \in Nat /\ d * MsFreq \in Nat
    BY <1>1, <1>2
  <2> QED
    BY <1>1, <2>1, <2>2, <2>3
<1>5. a < (x * o + d + o) * MsFreq + MsFreq
  <2>1. o * CounterMod <= o * (x * MsFreq + MsFreq)
    BY <1>1, <1>2
  <2>2. (x * o + d + o) * MsFreq = o * (x * MsFreq + MsFreq) + d * MsFreq
    BY <1>1, <1>2
  <2>3. o * (x * MsFreq + MsFreq) \in Nat /\ o * CounterMod \in Nat /\ d * MsFreq \in Nat
    BY <1>1, <1>2
  <2> QED
    BY <1>1, <2>1, <2>2, <2>3
<1>6. x * o + d \in Nat /\ x * o + d + o \in Nat
  BY <1>1, <1>2
<1>7. x * o + d <= a \div MsFreq
  BY <1>1, <1>4, <1>6, DivLeast
<1>8. a \div MsFreq <= x * o + d + o
  BY <1>1, <1>5, <1>6, DivMost
<1> QED
  BY <1>3, <1>7, <1>8

-----------------------------------------------------------------------------
(* The counted overflows are some of those that have happened. *)
LEMMA CountedOverflows ==
  ASSUME tmr_ovrflows \in Nat, cntr \in Nat, total \in Nat, TimeInv
  PROVE  /\ tmr_ovrflows \in 0..(total \div CounterMod)
         /\ Overflows \in Nat /\ Overflows >= tmr_ovrflows
<1>1. Overflows \in Nat /\ Overflows >= tmr_ovrflows
  BY DEF Overflows
<1>2. CounterMod \in Nat \ {0}
  BY WidthAssumption
<1>3. tmr_ovrflows * CounterMod <= Overflows * CounterMod
  BY <1>1, <1>2
<1>4. tmr_ovrflows * CounterMod \in Nat /\ Overflows * CounterMod \in Nat
  BY <1>1, <1>2
<1>5. tmr_ovrflows * CounterMod <= total
  BY <1>3, <1>4 DEF TimeInv
<1>6. tmr_ovrflows <= total \div CounterMod /\ total \div CounterMod \in Nat
  BY <1>2, <1>5, DivLeast, Div
<1> QED
  BY <1>1, <1>6

LEMMA InitIInv == TimerInit => IInv
<1> SUFFICES ASSUME TimerInit PROVE IInv
  OBVIOUS
<1>1. /\ cntr = 0 /\ tint = FALSE /\ late = 0 /\ tmr_ovrflows = 0 /\ total = 0
      /\ mpc = "idle" /\ tmr_ovr = 0 /\ ticks = 0 /\ use = "none" /\ end_time = 0
      /\ readAt = 0 /\ full = 0 /\ started = 0
  BY DEF TimerInit
<1>2. Overflows = 0
  BY <1>1 DEF Overflows
<1>3. TimeInv
  BY <1>1, <1>2, WidthAssumption DEF TimeInv
<1>4. tint \in BOOLEAN
  BY <1>1, Zenon
<1>5. TimerTypeOK
  BY <1>1, <1>3, <1>4, CountedOverflows, WidthAssumption DEF TimerTypeOK
<1>6. ReadInv
  BY <1>1, <1>2, MillisType DEF ReadInv, Reading, Now
<1> QED
  BY <1>3, <1>5, <1>6 DEF IInv

(* The counter moves on, and so does the time. *)
LEMMA TickStep ==
  ASSUME IInv, Tick
  PROVE  IInv'
<1>1. /\ total' = total + 1 /\ cntr' = (cntr + 1) % CounterMod
      /\ UNCHANGED <<tmr_ovrflows, mpc, tmr_ovr, ticks, use, end_time, readAt, full, started>>
  BY DEF Tick
<1>2. /\ cntr \in 0..(CounterMod - 1) /\ tmr_ovrflows \in Nat /\ total \in Nat /\ full \in Nat
      /\ tmr_ovr \in Nat /\ ticks \in Nat /\ late \in 0..IrqLatency /\ Overflows \in Nat
      /\ CounterMod \in Nat \ {0} /\ IrqLatency \in Nat
  <2>1. tmr_ovrflows \in 0..(total \div CounterMod) /\ total \in Nat
    BY DEF IInv, TimerTypeOK
  <2>2. tmr_ovrflows \in Nat
    BY <2>1
  <2> QED
    BY <2>1, <2>2, WidthAssumption DEF IInv, TimerTypeOK, Overflows
<1>3. /\ TimeInv' /\ Now <= Now' /\ cntr' \in 0..(CounterMod - 1) /\ late' \in 0..IrqLatency
      /\ tint' \in BOOLEAN /\ (tint => tint' /\ late' = late)
      /\ Overflows' \in Nat
  <2>1. CASE cntr + 1 = CounterMod
    <3>1. ~tint /\ tint' = TRUE /\ late' = 0 /\ cntr' = 0
      BY <1>1, <1>2, <2>1 DEF Tick
    <3>2. Overflows' = Overflows + 1
      BY <1>1, <1>2, <3>1 DEF Overflows
    <3>3. (Overflows + 1) * CounterMod = Overflows * CounterMod + CounterMod
      BY <1>2
    <3>4. TimeInv'
      <4>1. total = Overflows * CounterMod + cntr
        BY DEF IInv, TimeInv
      <4>2. total' = Overflows' * CounterMod + cntr'
        BY <1>1, <1>2, <2>1, <3>1, <3>2, <3>3, <4>1
      <4> QED
        BY <4>2 DEF TimeInv
    <3>5. Now <= Now'
      <4>1. Millis(Overflows, CounterMod - 1) <= Millis(Overflows + 1, 0)
        BY <1>2, MillisWrap
      <4>2. cntr = CounterMod - 1
        BY <1>2, <2>1
      <4> QED
        BY <3>1, <3>2, <4>1, <4>2 DEF Now, Millis
    <3>6. tint' \in BOOLEAN
      BY <3>1, Zenon
    <3> QED
      BY <1>2, <3>1, <3>2, <3>4, <3>5, <3>6
  <2>2. CASE cntr + 1 # CounterMod
    <3>1. UNCHANGED <<tint, late>>
      BY <2>2 DEF Tick
    <3>2. cntr' = cntr + 1 /\ cntr' \in 0..(CounterMod - 1)
      BY <1>1, <1>2, <2>2
    <3>3. Overflows' = Overflows
      BY <1>1, <3>1 DEF Overflows
    <3>4. TimeInv'
      <4>1. total = Overflows * CounterMod + cntr
        BY DEF IInv, TimeInv
      <4>2. Overflows * CounterMod \in Nat
        BY <1>2
      <4>3. total' = Overflows' * CounterMod + cntr'
        BY <1>1, <1>2, <3>2, <3>3, <4>1, <4>2
      <4> QED
        BY <4>3 DEF TimeInv
    <3>5. Now <= Now'
      <4>1. Millis(Overflows, cntr) <= Millis(Overflows, cntr + 1)
        BY <1>2, MillisTick
      <4> QED
        BY <3>2, <3>3, <4>1 DEF Now, Millis
    <3>6. tint' \in BOOLEAN
      BY <3>1, Zenon DEF IInv, TimerTypeOK
    <3> QED
      BY <1>2, <3>1, <3>2, <3>3, <3>4, <3>5, <3>6
  <2> QED
    BY <2>1, <2>2
<1>4. TimerTypeOK'
  <2>1. tmr_ovrflows' \in 0..(total' \div CounterMod)
    <3>1. TimeInv' /\ tmr_ovrflows' \in Nat /\ cntr' \in Nat /\ total' \in Nat
      BY <1>1, <1>2, <1>3
    <3>2. (tmr_ovrflows \in Nat /\ cntr \in Nat /\ total \in Nat /\ TimeInv
             => tmr_ovrflows \in 0..(total \div CounterMod))'
      BY CountedOverflows, PTL
    <3> QED
      BY <3>1, <3>2
  <2> QED
    BY <1>1, <1>2, <1>3, <2>1 DEF IInv, TimerTypeOK
<1>5. ASSUME IrqLatency <= 1, Reading PROVE Reading'
  <2>1. Now \in Nat /\ Now' \in Nat /\ Millis(tmr_ovr, ticks) \in Nat
    <3>1. Millis(Overflows, cntr) \in Nat /\ Millis(Overflows', cntr') \in Nat
          /\ Millis(tmr_ovr, ticks) \in Nat
      <4>1. cntr \in Nat /\ cntr' \in Nat /\ Overflows' \in Nat
        BY <1>2, <1>3
      <4> QED
        BY <4>1, <1>2, MillisType
    <3> QED
      BY <3>1 DEF Now, Millis
  <2>2. /\ tmr_ovr <= tmr_ovrflows /\ full <= Now
        /\ mpc = "check" /\ tmr_ovr = tmr_ovrflows =>
             \/ tint /\ late >= IrqLatency
             \/ /\ readAt = tmr_ovr * CounterMod + ticks
                /\ full <= Millis(tmr_ovr, ticks) /\ Millis(tmr_ovr, ticks) <= Now
    BY <1>5 DEF Reading
  <2>3. Millis(tmr_ovr, ticks)' = Millis(tmr_ovr, ticks)
    BY <1>1 DEF Millis
  <2> HIDE DEF Now
  <2> QED
    BY <1>1, <1>2, <1>3, <2>1, <2>2, <2>3 DEF Reading
<1> QED
  BY <1>3, <1>4, <1>5 DEF IInv, ReadInv

(* What the numbers are *)
LEMMA Numbers ==
  ASSUME IInv
  PROVE  /\ cntr \in 0..(CounterMod - 1) /\ cntr \in Nat /\ tmr_ovrflows \in Nat
         /\ total \in Nat /\ full \in Nat /\ tmr_ovr \in Nat /\ ticks \in Nat /\ readAt \in Nat
         /\ late \in 0..IrqLatency /\ Overflows \in Nat /\ Now \in Nat
         /\ CounterMod \in Nat \ {0} /\ IrqLatency \in Nat
<1>1. tmr_ovrflows \in 0..(total \div CounterMod) /\ total \in Nat
  BY DEF IInv, TimerTypeOK
<1>2. tmr_ovrflows \in Nat
  BY <1>1
<1>3. cntr \in 0..(CounterMod - 1) /\ CounterMod \in Nat \ {0}
  BY WidthAssumption DEF IInv, TimerTypeOK
<1>4. Overflows \in Nat /\ cntr \in Nat
  BY <1>2, <1>3 DEF Overflows
<1>5. Now \in Nat
  BY <1>4, MillisType DEF Now
<1> QED
  BY <1>1, <1>2, <1>3, <1>4, <1>5, WidthAssumption DEF IInv, TimerTypeOK

(* The handler counts the overflow that was latched. *)
LEMMA IrqStep ==
  ASSUME IInv, timer_irq
  PROVE  IInv'
<1>1. /\ tint /\ tmr_ovrflows' = tmr_ovrflows + 1 /\ tint' = FALSE
      /\ UNCHANGED <<cntr, late, total, mpc, tmr_ovr, ticks, use, end_time, readAt, full, started>>
  BY DEF timer_irq
<1>2. Overflows' = Overflows
  BY <1>1, Numbers DEF Overflows
<1>3. TimeInv' /\ Now' = Now
  BY <1>1, <1>2 DEF IInv, TimeInv, Now, Millis
<1>4. TimerTypeOK'
  <2>1. TimeInv' /\ tmr_ovrflows' \in Nat /\ cntr' \in Nat /\ total' \in Nat
    BY <1>1, <1>3, Numbers
  <2>2. (tmr_ovrflows \in Nat /\ cntr \in Nat /\ total \in Nat /\ TimeInv
           => tmr_ovrflows \in 0..(total \div CounterMod))'
    BY CountedOverflows, PTL
  <2>3. tint' \in BOOLEAN
    BY <1>1, Zenon
  <2> QED
    BY <1>1, <2>1, <2>2, <2>3 DEF IInv, TimerTypeOK
<1>5. ASSUME IrqLatency <= 1, Reading PROVE Reading'
  <2>1. tmr_ovr <= tmr_ovrflows /\ full <= Now
    BY <1>5 DEF Reading
  <2> HIDE DEF Now
  <2> QED
    BY <1>1, <1>3, <2>1, Numbers DEF Reading
<1> QED
  BY <1>3, <1>4, <1>5 DEF IInv, ReadInv

(* An access of the main context leaves the clock alone. *)
LEMMA AccessStep ==
  ASSUME IInv, NEW from, NEW to, Access(from, to)
  PROVE  /\ mpc = from /\ mpc' = to /\ (tint => late < IrqLatency)
         /\ UNCHANGED <<cntr, tint, tmr_ovrflows, total>>
         /\ late' = (IF tint THEN late + 1 ELSE late) /\ late' \in 0..IrqLatency
         /\ TimeInv' /\ Now' = Now /\ Overflows' = Overflows /\ tint' \in BOOLEAN
<1>1. /\ mpc = from /\ mpc' = to /\ (tint => late < IrqLatency)
      /\ UNCHANGED <<cntr, tint, tmr_ovrflows, total>>
      /\ late' = IF tint THEN late + 1 ELSE late
  BY DEF Access
<1>2. late' \in 0..IrqLatency
  BY <1>1, Numbers
<1>3. Overflows' = Overflows
  BY <1>1 DEF Overflows
<1>4. TimeInv' /\ Now' = Now
  BY <1>1, <1>3 DEF IInv, TimeInv, Now, Millis
<1>5. tint' \in BOOLEAN
  BY <1>1, Zenon DEF IInv, TimerTypeOK
<1> QED
  BY <1>1, <1>2, <1>3, <1>4, <1>5

(* The three loads *)
LEMMA LoadStep ==
  ASSUME IInv, millis_ovr \/ millis_cntr \/ millis_again
  PROVE  IInv'
<1>1. CASE millis_ovr \/ millis_again
  <2>1. /\ Access("idle", "cntr") \/ Access("check", "idle")
        /\ tmr_ovr' \in {tmr_ovr, tmr_ovrflows}
        /\ UNCHANGED <<ticks, use, end_time, readAt, full, started>>
    BY <1>1 DEF millis_ovr, millis_again
  <2>2. /\ mpc' \in {"cntr", "idle"} /\ UNCHANGED <<cntr, tint, tmr_ovrflows, total>>
        /\ late' \in 0..IrqLatency /\ TimeInv' /\ Now' = Now /\ tint' \in BOOLEAN
    BY <2>1, AccessStep
  <2>3. TimerTypeOK'
    BY <2>1, <2>2, Numbers DEF IInv, TimerTypeOK
  <2>4. ASSUME IrqLatency <= 1, Reading PROVE Reading'
    <3>1. tmr_ovr <= tmr_ovrflows /\ full <= Now
      BY <2>4 DEF Reading
    <3> HIDE DEF Now
    <3> QED
      BY <2>1, <2>2, <3>1, Numbers DEF Reading
  <2> QED
    BY <2>2, <2>3, <2>4 DEF IInv, ReadInv
<1>2. CASE millis_cntr
  <2>1. /\ Access("cntr", "check") /\ ticks' = cntr /\ readAt' = total
        /\ UNCHANGED <<tmr_ovr, use, end_time, full, started>>
    BY <1>2 DEF millis_cntr
  <2>2. /\ mpc' = "check" /\ (tint => late < IrqLatency)
        /\ UNCHANGED <<cntr, tint, tmr_ovrflows, total>>
        /\ late' = (IF tint THEN late + 1 ELSE late) /\ late' \in 0..IrqLatency
        /\ TimeInv' /\ Now' = Now /\ tint' \in BOOLEAN
    BY <2>1, AccessStep
  <2>3. TimerTypeOK'
    BY <2>1, <2>2, Numbers DEF IInv, TimerTypeOK
  <2>4. ASSUME IrqLatency <= 1, Reading PROVE Reading'
    <3>1. tmr_ovr <= tmr_ovrflows /\ full <= Now
      BY <2>4 DEF Reading
    <3>2. tint => tint' /\ late' >= IrqLatency
      BY <2>2, <2>4, Numbers
    <3>3. ASSUME ~tint, tmr_ovr = tmr_ovrflows
          PROVE  total = tmr_ovr * CounterMod + cntr /\ Millis(tmr_ovr, ticks)' = Now
      <4>1. Overflows = tmr_ovr
        BY <3>3, Numbers DEF Overflows
      <4> QED
        BY <2>1, <4>1 DEF IInv, TimeInv, Now, Millis
    <3> HIDE DEF Now
    <3> QED
      BY <2>1, <2>2, <3>1, <3>2, <3>3, Numbers DEF Reading
  <2> QED
    BY <2>2, <2>3, <2>4 DEF IInv, ReadInv
<1> QED
  BY <1>1, <1>2

(* The result: a pair that belongs together, not before the last result *)
LEMMA DoneFacts ==
  ASSUME IrqLatency <= 1, IInv, millis_done
  PROVE  /\ full' = Millis(tmr_ovr, ticks) /\ readAt = tmr_ovr * CounterMod + ticks
         /\ full <= full' /\ full' <= Now
<1>1. Access("check", "idle") /\ tmr_ovr = tmr_ovrflows /\ full' = Millis(tmr_ovr, ticks)
  BY DEF millis_done
<1>2. mpc = "check" /\ (tint => late < IrqLatency)
  BY <1>1 DEF Access
<1>3. ~(tint /\ late >= IrqLatency)
  BY <1>2, Numbers
<1> QED
  BY <1>1, <1>2, <1>3 DEF IInv, ReadInv, Reading

LEMMA DoneStep ==
  ASSUME IInv, millis_done
  PROVE  IInv'
<1>0. full' \in Nat
  BY Numbers, MillisType DEF millis_done
<1>1. Access("check", "idle") /\ UNCHANGED <<tmr_ovr, ticks, readAt>>
  BY DEF millis_done
<1>2. /\ mpc' = "idle" /\ UNCHANGED <<cntr, tint, tmr_ovrflows, total>>
      /\ late' \in 0..IrqLatency /\ TimeInv' /\ Now' = Now /\ tint' \in BOOLEAN
  BY <1>1, AccessStep
<1>3. /\ use' \in {"none", "wait"} /\ started' \in Nat /\ end_time' \in 0..(MillisMod - 1)
  <2>1. CASE use = "set"
    <3>1. /\ use' = "wait" /\ started' = full'
          /\ end_time' = ((full' % MillisMod) + WAIT_TIME_MILLIS) % MillisMod
      BY <2>1 DEF millis_done
    <3>2. full' % MillisMod \in Nat
      BY <1>0, Mod, WidthAssumption
    <3>3. ((full' % MillisMod) + WAIT_TIME_MILLIS) % MillisMod \in 0..(MillisMod - 1)
      <4> DEFINE x == (full' % MillisMod) + WAIT_TIME_MILLIS
      <4>1. x \in Nat
        BY <3>2, WidthAssumption
      <4> HIDE DEF x
      <4>2. x % MillisMod \in 0..(MillisMod - 1)
        BY <4>1, Mod, WidthAssumption
      <4> QED
        BY <4>2 DEF x
    <3> QED
      BY <1>0, <3>1, <3>3
  <2>2. CASE use # "set"
    BY <2>2 DEF millis_done, IInv, TimerTypeOK
  <2> QED
    BY <2>1, <2>2
<1>4. TimerTypeOK'
  BY <1>0, <1>1, <1>2, <1>3 DEF IInv, TimerTypeOK
<1>5. ASSUME IrqLatency <= 1, Reading PROVE Reading'
  <2>1. tmr_ovr <= tmr_ovrflows /\ full' <= Now
    BY <1>5, DoneFacts DEF Reading
  <2> HIDE DEF Now
  <2> QED
    BY <1>1, <1>2, <2>1 DEF Reading
<1> QED
  BY <1>2, <1>4, <1>5 DEF IInv, ReadInv

LEMMA NextIInv == IInv /\ [TimerNext]_timervars => IInv'
<1> SUFFICES ASSUME IInv, [TimerNext]_timervars PROVE IInv'
  OBVIOUS
<1>1. CASE systime_m \/ UNCHANGED timervars
  <2>1. /\ UNCHANGED <<cntr, tint, late, tmr_ovrflows, total, mpc, tmr_ovr, ticks, end_time>>
        /\ UNCHANGED <<readAt, full, started>> /\ use' \in {use, "set"}
    BY <1>1 DEF systime_m, timervars, clock
  <2>2. tint' \in BOOLEAN
    BY <2>1, Zenon DEF IInv, TimerTypeOK
  <2>3. TimerTypeOK'
    BY <2>1, <2>2 DEF IInv, TimerTypeOK
  <2>4. TimeInv' /\ ReadInv'
    BY <2>1 DEF IInv, TimeInv, ReadInv, Reading, Now, Overflows, Millis
  <2> QED
    BY <2>3, <2>4 DEF IInv
<1> QED
  BY <1>1, TickStep, IrqStep, LoadStep, DoneStep DEF TimerNext

-----------------------------------------------------------------------------
(* The counters and the clock's values stay in range, and the handler never counts an overflow *)
(* that has not happened.                                                                      *)
THEOREM TypeCorrect == TimerSpec => []TimerTypeOK
<1>1. IInv => TimerTypeOK
  BY DEF IInv
<1> QED
  BY <1>1, InitIInv, NextIInv, PTL DEF TimerSpec

(* _xtimer_millis never runs backwards, wherever an overflow and its interrupt fall between its *)
(* loads, if no more than one access slips in before the interrupt.                             *)
THEOREM ClockMonotone == IrqLatency <= 1 => (TimerSpec => Monotone)
<1> SUFFICES ASSUME IrqLatency <= 1 PROVE TimerSpec => Monotone
  OBVIOUS
<1>1. IInv /\ [TimerNext]_timervars => [full' >= full]_timervars
  <2> SUFFICES ASSUME IInv, TimerNext PROVE full' >= full
    OBVIOUS
  <2>1. CASE millis_done
    BY <2>1, DoneFacts, Numbers, MillisType
  <2>2. CASE ~millis_done
    <3>1. full' = full
      BY <2>2 DEF TimerNext, Tick, timer_irq, millis_ovr, millis_cntr, millis_again, systime_m
    <3> QED
      BY <3>1, Numbers
  <2> QED
    BY <2>1, <2>2
<1> QED
  BY <1>1, InitIInv, NextIInv, PTL DEF TimerSpec, Monotone

(* A result is that of the time the counter was loaded, less at most the part of a millisecond *)
(* that XTIMER_MAX_MS cuts off for each overflow.                                              *)
THEOREM ClockDrift == IrqLatency <= 1 => (TimerSpec => DriftBounded)
<1> SUFFICES ASSUME IrqLatency <= 1 PROVE TimerSpec => DriftBounded
  OBVIOUS
<1>1. IInv /\ [TimerNext]_timervars
      => [Returns => /\ full' <= readAt \div MsFreq
                     /\ readAt \div MsFreq <= full' + tmr_ovr]_timervars
  <2> SUFFICES ASSUME IInv, TimerNext, Returns
               PROVE  full' <= readAt \div MsFreq /\ readAt \div MsFreq <= full' + tmr_ovr
    OBVIOUS
  <2>1. millis_done
    <3>1. mpc = "check" /\ mpc' = "idle" /\ tmr_ovr = tmr_ovrflows
      BY DEF Returns
    <3> QED
      BY <3>1 DEF TimerNext, Tick, timer_irq, millis_ovr, millis_cntr, millis_again, systime_m, Access
  <2>2. full' = Millis(tmr_ovr, ticks) /\ readAt = tmr_ovr * CounterMod + ticks
    BY <2>1, DoneFacts
  <2> QED
    BY <2>2, Numbers, MillisDrift
<1> QED
  BY <1>1, InitIInv, NextIInv, PTL DEF TimerSpec, DriftBounded

=============================================================================
