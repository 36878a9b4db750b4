CONSTANTS
    JobSizes = {1, 2}
    ProcsArgs <- MCProcsArgs
    MPFlags = {FALSE, TRUE}
    DeviceCounts = {1, 2}
    BatchSizes = {2}
    MaxIds = {3, 5}
    BatchNumArgs <- MCBatchNumArgs
    NumWorkersValues = {0, 2, 3}
    LogStepsValues = {0, 2}
    LogMaxValues = {1, 2}
    NumEpochs = 2
    Modes = {"train", "predict"}
    PredictSizes = {3, 4}
    NoValue = NoValue
SPECIFICATION Spec
INVARIANT TypeOK
INVARIANT RanksDistinctInWorld
INVARIANT ExactlyOneMaster
INVARIANT EpochStepsMatchLen
INVARIANT EpochCoversBatchNum
 
PROPERTY WorkersPassRendezvous
INVARIANT PredictionsCoverRange
CHECK_DEADLOCK FALSE
