SPECIFICATION FairSpec
CONSTANTS
  QueueLen = 3
  TransDepth = 4
  CnvQueueLen = 2
  MaxCalls = 3
  OtherFrames = 1
  MaxFrames <- MCMaxFrames
INVARIANTS TypeOK SamplesFresh LastSamplesSeen StripSettles
PROPERTIES ImplementsDisplay FramesArrive LightsSettle
CHECK_DEADLOCK FALSE
