SPECIFICATION Spec
INVARIANTS LostControlIsStopped ActionsRunOnce StopReachesWhatDrives
PROPERTIES LossLatches ControlReturns
CONSTANTS
  restart = restart  reset = reset  video = video
  Actions = {restart, reset, video}
  Kind <- TheKinds
  Adapters = {a1, a2}
  First = a1
  None = None
CHECK_DEADLOCK FALSE
