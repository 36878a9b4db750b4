CONSTANTS
    NumEpochs = 2
    SaveEveryValues = {1}
    SaveBestFlags = {FALSE, TRUE}
    Placements = {"single"}
    Losses <- MCLosses
    MaxWorkers = 2
    MaxRestarts = 0
    NoValue = NoValue
SPECIFICATION Spec
INVARIANT CheckpointIsOfItsEpoch
CHECK_DEADLOCK FALSE
