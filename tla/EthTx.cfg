\* Depth 4 leaves three usable BDs; six frames fill and drain them twice, two
\* bus errors strike any of them, and chains of two overflow the queue midway.
CONSTANTS
  Depth = 4
  MaxChain = 2
  MaxFrames = 6
  MaxErrors = 2
SPECIFICATION FairSpec
INVARIANTS
  EmptyMeansSent
PROPERTIES
  SentInOrder
  QueueReopens
