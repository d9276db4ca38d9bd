CONSTANTS
  Words = {"http", "host", "user", "x", "ok"}
  LengthMax = 99
  InitialSize = 8
  ExtraBuf = 16
  SizeMod = 65536
  Catalogue <- MCCatalogue
  Scripts <- MCScripts
  RecordSize = 6
SPECIFICATION Spec
INVARIANTS DeliveredAsSent Prompt BytesKept RefusedForCause OpenedOnceFirst
PROPERTIES EventuallyDelivered
CHECK_DEADLOCK FALSE
