\* mLock and mImageCaptureLock are taken in both orders.
SPECIFICATION Spec
CONSTANTS
  b1 = b1
  b2 = b2
  b3 = b3
  Buffers = {b1, b2, b3}
  Returners = {r1, r2}
  NoThread = NoThread
  NoBuffer = NoBuffer
  Plans <- Cancelled
CHECK_DEADLOCK FALSE
INVARIANT NoLockCycle
