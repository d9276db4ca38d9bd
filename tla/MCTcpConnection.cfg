CONSTANTS
  Ops = {"send", "sendOutputBuf", "shutdown", "forceClose", "forceCloseLater",
         "enableRead", "disableRead", "enableWrite", "disableWrite"}
  Lens = {1, 2}
  SndBuf = 1
  HighWaterMark = 2
  MaxCalls = 3
SPECIFICATION Spec
INVARIANTS TypeOK WireIsPrefix OutputWatched ClosedNotWatched
PROPERTIES NoMessageAfterClose ImplementsByteStream ShutdownCompletes HighWaterMarkRelieved
