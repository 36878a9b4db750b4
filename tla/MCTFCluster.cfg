CONSTANTS
    Clusters <- MCClusters
    Kinds = {"estimator", "keras"}
    Strategies <- MCStrategies
    BatchSize = 2
    MaxIds = {5}
    NumFiles = 2
    BatchNumArgs <- MCBatchNumArgs
    LogStepsArgs = {0, 3}
    SaveEpochsArgs <- MCSaveEpochsArgs
    NoValue = NoValue

SPECIFICATION Spec

INVARIANTS
    TypeOK
    TrainFilesPartition

CHECK_DEADLOCK FALSE
