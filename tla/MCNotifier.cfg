\* Frames, events and pictures in every order.
\* The application may stop calling; a flush of the events may block the thread for ever.
SPECIFICATION Spec
CONSTANTS
  Plans <- AllPlans
  MaxStarts = 2
CHECK_DEADLOCK FALSE
INVARIANTS
  TypeOK
  NoFrameLost
PROPERTIES
  FramesComeBack
  CallsAnswered
