\* Pictures that nobody stops, and captures that are stopped while they start, run or end.
\* The last picture ends a behaviour; a stop may deadlock with the start.
SPECIFICATION FairSpec
CONSTANTS
  b1 = b1
  b2 = b2
  b3 = b3
  Buffers = {b1, b2, b3}
  Returners = {r1, r2}
  NoThread = NoThread
  NoBuffer = NoBuffer
  Plans <- StoppedOrNot
CHECK_DEADLOCK FALSE
INVARIANTS
  TypeOK
  LocksHeld
  SemaphoreEmptyBetween
  StopLeavesNothing
  StoppedNeverStarts
PROPERTIES
  CaptureEnds
  TakesPictures
