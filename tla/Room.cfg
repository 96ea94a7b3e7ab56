SPECIFICATION FairSpec
INVARIANTS SessionKeepsItsCameras OldCamerasWereTold
PROPERTIES LostMediaIsRetried
CONSTANTS
  Cameras = {c1}
  MaxSessions = 2
  Copies = 2
  None = None
CHECK_DEADLOCK FALSE
