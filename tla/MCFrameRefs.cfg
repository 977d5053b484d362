\* Preview with a callback client and a recording that goes on.
SPECIFICATION FairSpec
CONSTANTS
  Bufs = {b1, b2}
  Display = display
  Apps = {app}
  Encoder = encoder
  Omx = omx
  Control = control
  NoBuf = NoBuf
  MaxRecordings = 1
  MayStop = FALSE
  VideoSnapshots = FALSE
INVARIANTS
  TypeOK
  ExclusiveOwnership
  NoBufferLost
  RefsCountHolders
PROPERTIES
  ImplementsLoan
  BuffersComeBack
