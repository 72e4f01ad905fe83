CONSTANTS
  NChunks = 3
  Threads = {t1, t2}
SPECIFICATION FairSpec
INVARIANT EachChunkOnce
PROPERTIES ImplementsTranscription StopReturns ReturnsUnlessHung
CHECK_DEADLOCK FALSE
