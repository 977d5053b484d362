\* Three previews, with and without a window, a capture in each, and one failure.
SPECIFICATION FairSpec
CONSTANTS
  Scenarios <- Everything
  MaxPreviews = 3
CHECK_DEADLOCK FALSE
INVARIANTS
  TypeOK
  OneAtATime
  StateAgrees
  TokensAwaited
PROPERTIES
  CallsReturn
