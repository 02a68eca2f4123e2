\* A flush of two frames is enough: the first one's interrupt reopens the queue.
CONSTANTS
  Depth = 4
  MaxChain = 1
  MaxFrames = 4
  MaxErrors = 0
SPECIFICATION Spec
INVARIANT LockedTillCompletion
