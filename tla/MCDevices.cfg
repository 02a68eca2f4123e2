\* AvrUart: a ring of four slots; the fourth character overruns it, and seven wrap
\* both indices past every slot.
\* XUart: a ring of four slots and a FIFO of two; two interrupts of two characters
\* overrun the ring inside one read, the case in which the head moves back.
\* XTimer: eleven ticks to an overflow, three to a millisecond: like the real pair
\* they do not divide.  Three overflows in 36 ticks; the milliseconds wrap once.
\* Keyb: seven key events hold and release both shift keys around a letter; four
\* bytes let the user run ahead by more than one key.
\* TextConsole: three columns and two rows; rows fill, wrap and scroll within the
\* bound of operations.
CONSTANTS
  UART_RX_RING_SIZE = 4
  MaxRxChars = 7
  XUART_RX_BUFFER = 4
  FifoDepth = 2
  MaxChars = 7
  CounterMod = 11
  MsFreq = 3
  MillisMod = 8
  WAIT_TIME_MILLIS = 5
  IrqLatency = 1
  MaxTicks = 36
  WireDepth = 4
  MaxEvents = 7
  CGA_NUM_COLS = 3
  CGA_NUM_ROWS = 2
  Strings <- ConStrings
  Places <- ConPlaces
  MaxOps = 8
SPECIFICATION DevicesSpec
INVARIANTS
  RingHoldsNewest
  RxKeysInOrder
  PublishedInOrder
  WakeupInv
  TimerTypeOK
  ShiftInv
  CaseAsTyped
  CtrlFollowsKeys
  ConTypeOK
  ScreenShowsTape
  CursorAtNextCell
PROPERTIES
  ImplementsLossyFifo
  EveryCharLeavesRing
  ImplementsWeakFifo
  QuietLineDrains
  DriftBounded
  Monotone
  DelErasesLast
CHECK_DEADLOCK FALSE
