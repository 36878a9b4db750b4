CONSTANTS
    Vertices <- MCVertices
    Nbrs <- MCNbrs
    EdgeWeight <- MCEdgeWeight
    RootWeight = 0
    Fanouts <- MCFanouts
    BatchSize = 2
    NoValue = NoValue
    AggregatorNames = {"mean", "maxpool", "gcn"}
    SortFlags = {FALSE, TRUE}
SPECIFICATION Spec
CHECK_DEADLOCK FALSE
INVARIANT RelationWeightIsEdgeWeight
