------------------------------- MODULE XTimer -------------------------------
(******************************************************************************)
(* The millisecond clock of arch/mb_le/sys/xtimer.c: a free-running hardware  *)
(* counter extended by a count of its overflows that the interrupt handler    *)
(* keeps, read without locking by _xtimer_millis; and its one blocking user,  *)
(* the systime command of services/timer_service.c.                           *)
(*                                                                            *)
(* The widths are parameters so that small ones show the same cases: the      *)
(* code has CounterMod = MillisMod = 2^32 and MsFreq = 100000, which does not *)
(* divide CounterMod.                                                         *)
(******************************************************************************)
EXTENDS Naturals

CONSTANTS
  CounterMod,         \* ticks after which the counter is 0 again
  MsFreq,             \* XTIMER_MS_FREQ, ticks per millisecond
  MillisMod,          \* the range of the uint32_t millis
  WAIT_TIME_MILLIS,   \* 5000 in the code
  IrqLatency,         \* main-context accesses that complete between an
                      \* overflow and its interrupt
  MaxTicks            \* bound: ticks in a behaviour

ASSUME WidthAssumption ==
  /\ CounterMod \in Nat \ {0} /\ MsFreq \in Nat \ {0} /\ MillisMod \in Nat \ {0}
  /\ WAIT_TIME_MILLIS \in Nat /\ IrqLatency \in Nat /\ MaxTicks \in Nat

XTIMER_MAX_MS == CounterMod \div MsFreq

VARIABLES
  cntr, tint,             \* the counter, and its latched overflow
  late,                   \* main accesses since that overflow
  tmr_ovrflows,
  mpc, tmr_ovr, ticks,    \* _xtimer_millis: step and locals
  use,                    \* the caller: "none", or systime_m at "set" or "wait"
  end_time,               \* local of systime_m
  total, readAt, full,    \* history: ticks since the start, when ticks was
                          \* loaded, and the last result before truncation
  started                 \* history: full when systime_m computed end_time

clock == <<cntr, tint, late, tmr_ovrflows, total>>
timervars == <<clock, mpc, tmr_ovr, ticks, use, end_time, readAt, full, started>>

(* _xtimer_start *)
TimerInit ==
  /\ cntr = 0 /\ tint = FALSE /\ late = 0 /\ tmr_ovrflows = 0 /\ total = 0
  /\ mpc = "idle" /\ tmr_ovr = 0 /\ ticks = 0
  /\ use = "none" /\ end_time = 0
  /\ readAt = 0 /\ full = 0 /\ started = 0

-----------------------------------------------------------------------------
(* The counter (external hardware).  A second overflow is 43 s away from the *)
(* first, so it never meets an interrupt that is still latched.              *)
Tick ==
  /\ total < MaxTicks
  /\ total' = total + 1
  /\ cntr' = (cntr + 1) % CounterMod
  /\ IF cntr + 1 = CounterMod
       THEN ~tint /\ tint' = TRUE /\ late' = 0
       ELSE UNCHANGED <<tint, late>>
  /\ UNCHANGED <<tmr_ovrflows, mpc, tmr_ovr, ticks, use, end_time, readAt, full, started>>

(* Slip: the overflow is not acknowledged and interrupts again. *)
timer_irq_noAck ==
  /\ tint
  /\ tmr_ovrflows' = tmr_ovrflows + 1
  /\ UNCHANGED <<cntr, tint, late, total, mpc, tmr_ovr, ticks, use, end_time, readAt, full, started>>

timer_irq ==
  /\ tint
  /\ tmr_ovrflows' = tmr_ovrflows + 1
  /\ tint' = FALSE
  /\ UNCHANGED <<cntr, late, total, mpc, tmr_ovr, ticks, use, end_time, readAt, full, started>>

(* An access of the main context: the processor takes a latched interrupt  *)
(* after at most IrqLatency of them.                                       *)
Access(from, to) ==
  /\ mpc = from /\ mpc' = to
  /\ tint => late < IrqLatency
  /\ late' = IF tint THEN late + 1 ELSE late
  /\ UNCHANGED <<cntr, tint, tmr_ovrflows, total>>

(* Line 92 *)
millis_ovr ==
  /\ Access("idle", "cntr")
  /\ tmr_ovr' = tmr_ovrflows
  /\ UNCHANGED <<ticks, use, end_time, readAt, full, started>>

(* Line 93 *)
millis_cntr ==
  /\ Access("cntr", "check")
  /\ ticks' = cntr
  /\ readAt' = total
  /\ UNCHANGED <<tmr_ovr, use, end_time, full, started>>

(* Line 94: an overflow in between, read again. *)
millis_again ==
  /\ tmr_ovr # tmr_ovrflows
  /\ Access("check", "idle")
  /\ UNCHANGED <<tmr_ovr, ticks, use, end_time, readAt, full, started>>

(* Slip: the millisecond rate is rounded up. *)
Millis_up(o, t) == (XTIMER_MAX_MS + 1) * o + (t \div MsFreq)

(* Line 96, before it is cut to 32 bits *)
Millis(o, t) == XTIMER_MAX_MS * o + (t \div MsFreq)

(* timer_service.c:29 *)
Waiting(endt, millis) == endt > millis

(* Slip: the loop's test is missing, any pair of loads is taken. *)
millis_done_unchecked ==
  /\ Access("check", "idle")
  /\ full' = Millis(tmr_ovr, ticks)
  /\ IF use = "set"
       THEN /\ use' = "wait"
            /\ end_time' = ((full' % MillisMod) + WAIT_TIME_MILLIS) % MillisMod
            /\ started' = full'
       ELSE /\ use' = IF use = "wait" /\ Waiting(end_time, full' % MillisMod)
                        THEN "wait" ELSE "none"
            /\ UNCHANGED <<end_time, started>>
  /\ UNCHANGED <<tmr_ovr, ticks, readAt>>

(* The loop ends and the result goes to the caller: lwIP's sys_now, or     *)
(* systime_m, which computes end_time from its first result and then polls *)
(* until the clock reaches it.                                             *)
millis_done ==
  /\ tmr_ovr = tmr_ovrflows
  /\ Access("check", "idle")
  /\ full' = Millis(tmr_ovr, ticks)
  /\ IF use = "set"
       THEN /\ use' = "wait"
            /\ end_time' = ((full' % MillisMod) + WAIT_TIME_MILLIS) % MillisMod
            /\ started' = full'
       ELSE /\ use' = IF use = "wait" /\ Waiting(end_time, full' % MillisMod)
                        THEN "wait" ELSE "none"
            /\ UNCHANGED <<end_time, started>>
  /\ UNCHANGED <<tmr_ovr, ticks, readAt>>

(* The shell runs systime. *)
systime_m ==
  /\ use = "none" /\ mpc = "idle"
  /\ use' = "set"
  /\ UNCHANGED <<clock, mpc, tmr_ovr, ticks, end_time, readAt, full, started>>

TimerNext ==
  \/ Tick \/ timer_irq
  \/ millis_ovr \/ millis_cntr \/ millis_again \/ millis_done
  \/ systime_m

TimerSpec == TimerInit /\ [][TimerNext]_timervars

-----------------------------------------------------------------------------
TimerTypeOK ==
  /\ cntr \in 0..(CounterMod - 1) /\ tint \in BOOLEAN /\ late \in 0..IrqLatency
  /\ total \in Nat /\ tmr_ovrflows \in 0..(total \div CounterMod)
  /\ mpc \in {"idle", "cntr", "check"}
  /\ tmr_ovr \in Nat /\ ticks \in 0..(CounterMod - 1)
  /\ use \in {"none", "set", "wait"} /\ end_time \in 0..(MillisMod - 1)
  /\ readAt \in Nat /\ full \in Nat /\ started \in Nat

(* The clock never runs backwards, whatever falls between the three loads of *)
(* _xtimer_millis: an overflow before its interrupt is not seen as a jump.   *)
Monotone == [][full' >= full]_timervars

(* _xtimer_millis returns in this step. *)
Returns == mpc = "check" /\ mpc' = "idle" /\ tmr_ovr = tmr_ovrflows

(* The result is never ahead of the time at which the counter was loaded, and *)
(* is behind it by at most one millisecond for each overflow, the part of a   *)
(* millisecond that XTIMER_MAX_MS cuts off.                                   *)
DriftBounded ==
  [][Returns => /\ full' <= readAt \div MsFreq
                /\ readAt \div MsFreq <= full' + tmr_ovr]_timervars

(* What timer_service.c:26 announces, "wait %d milliseconds...": systime_m returns no *)
(* earlier than that by its own clock.  The deadline is computed modulo MillisMod and *)
(* compared as it is, so near the end of the range the code does not keep to this.    *)
WaitsFullTime ==
  [][use = "wait" /\ use' = "none" => full' >= started + WAIT_TIME_MILLIS]_timervars

=============================================================================
