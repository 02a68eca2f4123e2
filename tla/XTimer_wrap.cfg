\* Eleven ticks to an overflow, three to a millisecond: like the real pair they do
\* not divide.  Three overflows in 36 ticks; the milliseconds wrap once.
CONSTANTS
  CounterMod = 11
  MsFreq = 3
  MillisMod = 8
  WAIT_TIME_MILLIS = 5
  IrqLatency = 1
  MaxTicks = 36
SPECIFICATION TimerSpec
PROPERTY WaitsFullTime
CHECK_DEADLOCK FALSE
