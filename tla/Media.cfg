SPECIFICATION FairSpec
PROPERTIES CamerasRecover ShutdownEndsPublishers
CONSTANTS
  front = front
  p1 = p1  p2 = p2  p3 = p3
  None = None
  Cameras = {front}
  OnDemand = {}
  Publishers = {p1, p2, p3}
  Coroutines = {"supervisor", "gateway", "poll", "recovery"}
  Budget = 2
CHECK_DEADLOCK FALSE
