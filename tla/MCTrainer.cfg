CONSTANTS
    NumEpochs = 3
    SaveEveryValues = {1, NoValue}
    SaveBestFlags = {TRUE, FALSE}
    Placements <- MCPlacements
    Losses <- MCLosses
    MaxWorkers = 2
    MaxRestarts = 1
    NoValue = NoValue
SPECIFICATION Spec
INVARIANT TypeOK
PROPERTY SavesEventuallyWritten
CHECK_DEADLOCK FALSE
