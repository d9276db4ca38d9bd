CONSTANTS
  Words = {"http", "host", "user", "x", "ok"}
  LengthMax = 99
  InitialSize = 8
  ExtraBuf = 16
  SizeMod = 65536
  Catalogue <- MCCatalogue
  Scripts <- BodyScripts
  RecordSize = 6
SPECIFICATION Spec
INVARIANT BodyAsSent
CHECK_DEADLOCK FALSE
