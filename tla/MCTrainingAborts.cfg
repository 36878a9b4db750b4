CONSTANTS
    NumEpochs = 2
    SaveEveryValues = {1, NoValue}
    SaveBestFlags = {FALSE}
    Placements = {"single", "cpu"}
    Losses <- MCLosses
    MaxWorkers = 2
    MaxRestarts = 1
    NoValue = NoValue
SPECIFICATION Spec
INVARIANT TrainingNeverAborts
CHECK_DEADLOCK FALSE
