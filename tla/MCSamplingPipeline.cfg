CONSTANTS
    Vertices <- MCVertices
    Nbrs <- MCNbrs
    EdgeWeight <- MCEdgeWeight
    RootWeight = 0
    Fanouts <- MCFanouts
    BatchSize = 2
    NoValue = NoValue
    AggregatorNames = {"mean", "maxpool", "gcn"}
    SortFlags = {TRUE, FALSE}
SPECIFICATION Spec
INVARIANT TypeOK
INVARIANT RelationEdgesAreSampledEdges
INVARIANT TargetIndicesRecoverSeeds
INVARIANT BipartiteLayersMatchTree
INVARIANT DenseEncoderIsTreeSAGE
CHECK_DEADLOCK FALSE
