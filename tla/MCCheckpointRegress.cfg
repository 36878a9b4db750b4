CONSTANTS
    NumEpochs = 2
    SaveEveryValues = {1}
    SaveBestFlags = {FALSE}
    Placements = {"single"}
    Losses <- MCLosses
    MaxWorkers = 2
    MaxRestarts = 0
    NoValue = NoValue
SPECIFICATION Spec
PROPERTY CheckpointNeverRegresses
CHECK_DEADLOCK FALSE
