SPECIFICATION FairSpec
CONSTANTS
  Indexes = {0, 1}
  Chunks <- MCChunks
  Capacity = 1
  MaxSent = 3
  DONE = DONE
  ErrorBody = ErrorBody
CHECK_DEADLOCK FALSE
INVARIANTS
  OneAnswer
  FaithfulStream
  FaultIsReal
PROPERTIES
  StreamEnds
