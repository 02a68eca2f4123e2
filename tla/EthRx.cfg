\* Three BDs hold two frames: the third overruns the queue.  Six frames take the
\* engine round the ring twice inside one read.
CONSTANTS
  XDMA2_MAX_BDS = 3
  MaxFrames = 6
  MaxErrors = 2
SPECIFICATION FairSpec
INVARIANTS
  HeadInv
PROPERTIES
  ReadsOldest
  QueueDrains
  RecoversFromBusError
