SPECIFICATION FairSpec
PROPERTIES EveryDriveIsStopped EveryAcceptedCommandEnds
CONSTANTS
  m1 = m1  m2 = m2  c1 = c1
  Ids <- MotionIds
  Motion <- MotionIds
  Nobody = Nobody
  Capacity = 1
  MaxDeliveries = 3
  MaxStops = 1
  MaxFailures = 1
CHECK_DEADLOCK FALSE
