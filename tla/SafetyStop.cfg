SPECIFICATION FairSpec
CONSTANTS
  c1 = c1
  c2 = c2
  s1 = s1
  s2 = s2
  r1 = r1
  Nobody = Nobody
  Commands = {c1, c2}
  Stops = {s1, s2}
  Resets = {r1}
  OutboxMayFail = FALSE
  
PROPERTIES AuthorityIsNeverRevived EveryStopIsAnswered
CHECK_DEADLOCK FALSE
