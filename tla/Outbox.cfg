SPECIFICATION FairSpec
CONSTANTS
  KeyOrder <- Keys2
  Terminal = {"completed", "failed"}
  MaxEntries = 2
INVARIANTS DeliveredIsDurable NothingIsLost  AcceptedArrivesFirst
PROPERTIES ImplementsLifecycle EveryOutcomeArrives
CHECK_DEADLOCK FALSE
