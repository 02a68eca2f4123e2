\* Two entries and two clients: an open while both are in use is refused.  Four blocks, and
\* requests of up to three from block 1 on: they just fit and just exceed the DMA's length
\* register (SD card) and fill the count register (PATA), with a block on either side that they
\* must leave alone.
CONSTANTS
  MAX_OPEN_FILES = 2
  Clients = {c1, c2}
  NULL = NULL
  FF_VOLUMES = 2
  MAX_DISKS = 1
  IDE_DEV_LETTERS = 2
  NBlocks = 4
  Starts = {1}
  MaxCount = 3
  BTT_SECTORS = 2
  CountRange = 2
  MaxWrites = 1
  MaxErrors = 1
  MaxRestarts = 1
SPECIFICATION DiskFairSpec
INVARIANTS
  CountMatches
  OwnFile
  DiskTypeOK
PROPERTIES
  ImplementsBlockDevice
  ErrorHasCause
  RequestReturns
CHECK_DEADLOCK FALSE
