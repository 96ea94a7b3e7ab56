SPECIFICATION FairSpec
INVARIANTS OneVoice
PROPERTIES NoDayIsBookedAnew  MutedFallsSilent
CONSTANTS
  Messages = {a, b}
  Cost <- OneEach
  Profiles = {"espeak", "festival", "google_cloud", "cozmo_tts"}
  Nobody = Nobody
  Capacity = 1
  Delayed = TRUE
  Budget = 2
  Days = {1, 2}
  MaxMutes = 1
  MaxRestarts = 1
CHECK_DEADLOCK FALSE
