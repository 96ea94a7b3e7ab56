SPECIFICATION Spec
INVARIANTS OnlyNewestMotionIsQueued OvertakenMotionNeverRuns RunsAtMostOnce DrivingIsDeadlined
CONSTANTS
  m1 = m1  m2 = m2  c1 = c1
  Ids <- AllIds
  Motion <- MotionIds
  Nobody = Nobody
  Capacity = 1
  MaxDeliveries = 4
  MaxStops = 1
  MaxFailures = 1
CHECK_DEADLOCK FALSE
SYMMETRY MotionSymmetry
