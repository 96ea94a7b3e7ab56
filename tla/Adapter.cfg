SPECIFICATION AdapterSpec
INVARIANTS ConfirmedStopIsNeutral PulsesEndAtRest DrivenIsBounded
CONSTANTS
  w1 = w1  w2 = w2
  Drivers <- AllDrivers
  Table <- TheCatalogue
  Workers <- TwoWorkers
  MaxFaults = 2
SYMMETRY WorkerSymmetry
