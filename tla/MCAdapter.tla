------------------------------ MODULE MCAdapter ------------------------------
(* Adapter with every driver of the repository.                             *)
EXTENDS Adapter

CONSTANTS w1, w2

LOCAL INSTANCE DriverTable
LOCAL INSTANCE TLC

AllDrivers == DOMAIN Catalogue
TheCatalogue == Catalogue
TwoWorkers == {w1, w2}
WorkerSymmetry == Permutations(TwoWorkers)
==============================================================================
