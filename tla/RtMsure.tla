------------------------------- MODULE RtMsure -------------------------------
(*****************************************************************************)
(* The reaction-time measurement of the MicroBlaze: sys/rtmsure.c and        *)
(* services/rtmsure_service.c.  The device gives a time in BCD, the service  *)
(* publishes it in decimal.  The handler may run between any two accesses of *)
(* the service.                                                              *)
(*****************************************************************************)
EXTENDS Integers

CONSTANTS
  Digits,        \* BCD digits of the data register (8 in the code)
  Times,         \* times that are measured
  MaxMeasures    \* bound: measurements in a behaviour

VARIABLES
  bcd_time, rt_msuretime,
  sigint, sigbus,   \* pending in the kernel, shared with other services
  rpc, time,        \* the service: step, local time
  set,              \* the service: signals noted
  last, measures,   \* history: the last time measured, measurements
  lost              \* history: the reset has thrown that time away

rtvars == <<bcd_time, rt_msuretime, rpc, time, set, last, measures, lost>>

(* Powers of the two bases, up to the width of the register *)
Tens[k \in 0..Digits] == IF k = 0 THEN 1 ELSE 10 * Tens[k - 1]
Sixteens[k \in 0..Digits] == IF k = 0 THEN 1 ELSE 16 * Sixteens[k - 1]

Span == Sixteens[Digits]
Ints == -(Span \div 2)..(Span \div 2 - 1)

(* The device's encoding, one decimal digit per nibble (external hardware) *)
Encodable == 0..(Tens[Digits] - 1)
Bcd[d \in Encodable] == IF d = 0 THEN 0 ELSE (d % 10) + 16 * Bcd[d \div 10]

(* The cast to int: the top bit is the sign. *)
Signed(v) == IF v >= Span \div 2 THEN v - Span ELSE v

(* Slip: a nibble is worth 16 of the one before. *)
bcd_toDec_hex(t) == t

(* bcd_toDec: a digit for each nibble *)
Dec[v \in 0..(Span - 1)] == IF v = 0 THEN 0 ELSE (v % 16) + 10 * Dec[v \div 16]
bcd_toDec(t) == Dec[t]

(* _rtmsure_start *)
Init ==
  /\ bcd_time = -1 /\ rt_msuretime = -1
  /\ sigint = FALSE /\ sigbus = FALSE
  /\ rpc = "idle" /\ time = -1 /\ set = {}
  /\ last = -1 /\ measures = 0 /\ lost = FALSE

(* onRtmsure_irq *)
onRtmsure_irq(d) ==
  /\ measures < MaxMeasures
  /\ bcd_time' = Signed(Bcd[d])
  /\ sigint' = TRUE
  /\ last' = d /\ lost' = FALSE
  /\ measures' = measures + 1
  /\ UNCHANGED <<rt_msuretime, sigbus, rpc, time, set>>

(* rtmsure_service, lines 21-31: line 27 makes set all the pending signals. *)
rtmsure_poll ==
  /\ rpc = "idle" /\ sigint
  /\ rpc' = "load"
  /\ set' = {"SIGINT"} \cup (IF sigbus THEN {"SIGBUS"} ELSE {})
  /\ UNCHANGED <<bcd_time, rt_msuretime, sigint, sigbus, time, last, measures, lost>>

(* _rtmsure_time, line 46 *)
rtmsure_load ==
  /\ rpc = "load"
  /\ time' = bcd_time
  /\ rpc' = "reset"
  /\ UNCHANGED <<bcd_time, rt_msuretime, sigint, sigbus, set, last, measures, lost>>

(* Lines 48-55 and rtmsure_service, lines 33-39: the reset, which throws away what *)
(* was measured since line 46, and the time published.  A signal without a         *)
(* measurement is another service's.                                               *)
rtmsure_publish ==
  /\ rpc = "reset"
  /\ bcd_time' = -1
  /\ lost' = (lost \/ bcd_time # time)
  /\ rt_msuretime' = IF time = -1 THEN rt_msuretime
                     ELSE IF time < 0 THEN time ELSE bcd_toDec(time)
  /\ rpc' = IF time = -1 THEN "idle" ELSE "unblock"
  /\ set' = IF time = -1 THEN {} ELSE set
  /\ time' = -1
  /\ UNCHANGED <<sigint, sigbus, last, measures>>

(* rtmsure_service, line 40: all signals noted are taken, also if raised again since. *)
rtmsure_unblock ==
  /\ rpc = "unblock"
  /\ sigint' = FALSE
  /\ sigbus' = (sigbus /\ "SIGBUS" \notin set)
  /\ rpc' = "idle" /\ set' = {}
  /\ UNCHANGED <<bcd_time, rt_msuretime, time, last, measures, lost>>

rtmsure_pass == rtmsure_load \/ rtmsure_publish \/ rtmsure_unblock

(* rtmsure_m: "no reaction time available", "unexpected reaction time format" or *)
(* the time.                                                                     *)
Shown == IF rt_msuretime < 0 THEN -1 ELSE rt_msuretime

(* What should be shown for a measured time: the register's sign bit makes times *)
(* of eight digits from 80000000 ms on unusable.                                 *)
Expected(d) == IF d < 8 * Tens[Digits - 1] THEN d ELSE -1

=============================================================================
