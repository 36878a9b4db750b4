CONSTANTS
    Vertices <- MCVertices
    Nbrs <- MCNbrs
    EdgeWeight <- MCEdgeWeight
    RootWeight = 0
    Fanouts <- MCFanouts
    BatchSize = 2
    NegativeNum = 2
    Fields = {"dense", "sparse", "edge_weight"}
    DenseDim = 2
    SparseDim = 1
    Transforms = {"multi_hop_feature_neg", "neighbor_neg", "edge_neg"}
SPECIFICATION Spec
INVARIANT TypeOK
INVARIANT NegativeSymmetry
INVARIANT FeaturesMatchIds
INVARIANT ContextAligned
CHECK_DEADLOCK FALSE
