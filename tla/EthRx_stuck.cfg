\* The engine overtakes a read of the three-BD ring and its status is lost.
CONSTANTS
  XDMA2_MAX_BDS = 3
  MaxFrames = 5
  MaxErrors = 0
SPECIFICATION FairSpec
PROPERTIES
  QueueEmptied
