SPECIFICATION Spec
CONSTANTS
  Updates = {u1, u2, u3}
INVARIANTS BootIsNeverRefused NothingUnprovenIsKept
PROPERTIES UnprovenStartsOnce
CHECK_DEADLOCK FALSE
