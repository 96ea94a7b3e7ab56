SPECIFICATION PublisherFairSpec
INVARIANTS NothingLeftBehind MicrophoneEndsWithItsTask
PROPERTIES CancelledTaskEnds
CONSTANTS
  QueueFrames = 2
  MaxReads = 2
  MaxCancels = 2
  Tempers = {"hears", "deaf", "stuck"}
CHECK_DEADLOCK FALSE
