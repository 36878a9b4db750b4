CONSTANTS
    Vertices <- MCVertices
    Nbrs <- MCNbrs
    EdgeWeight <- MCEdgeWeight
    RootWeight = 0
    Fanouts <- MCFanouts
    BatchSize = 1
    NoValue = NoValue
    AggregatorNames = {"mean", "maxpool", "gcn"}
    SortFlags = {FALSE}
SPECIFICATION Spec
CHECK_DEADLOCK FALSE
INVARIANT SparseEncoderIsTreeSAGE
