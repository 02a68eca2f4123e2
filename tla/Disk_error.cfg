\* One client and no power failure: the error in the middle of a transfer needs neither.
CONSTANTS
  MAX_OPEN_FILES = 2
  Clients = {c1}
  NULL = NULL
  FF_VOLUMES = 2
  MAX_DISKS = 1
  IDE_DEV_LETTERS = 2
  NBlocks = 4
  Starts = {1}
  MaxCount = 3
  BTT_SECTORS = 2
  CountRange = 2
  MaxWrites = 1
  MaxErrors = 1
  MaxRestarts = 0
SPECIFICATION DiskFairSpec
PROPERTY ErrorReported
CHECK_DEADLOCK FALSE
