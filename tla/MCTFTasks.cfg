CONSTANTS
    Clusters <- MCClusters
    Kinds = {"estimator", "keras"}
    Strategies <- MCStrategies
    BatchSize = 2
    MaxIds = {1, 5}
    NumFiles = 3
    BatchNumArgs <- MCBatchNumArgs
    LogStepsArgs = {0, 3}
    SaveEpochsArgs <- MCSaveEpochsArgs
    NoValue = NoValue

SPECIFICATION Spec

INVARIANT
    TasksDoTheirPart

CHECK_DEADLOCK FALSE
