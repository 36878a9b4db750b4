-------------------------- MODULE SamplingPipeline --------------------------
(***************************************************************************)
(* One data-loading worker turning batches of seeds into structured        *)
(* multi-hop inputs, as the GraphSAGE encoders use them:                   *)
(*   sparse path: MultiHopFeatureSparseTransform.transform (sample, unique, *)
(*                feature lookup), then RelationTransform.transform;       *)
(*   dense path:  MultiHopFeatureTransform.transform (sample, feature       *)
(*                lookup), then BipartiteTransform.transform.              *)
(* The sampler is the MultiHopSampler module; the RelationTransform object *)
(* is an instance of the RelationTransform module whose cached profile is  *)
(* that of Fanouts.                                                        *)
(***************************************************************************)
EXTENDS MultiHopSampler, BipartiteTransform, SageEncoder

CONSTANTS
    NoValue,     \* stands for "not computed for this batch"
    SortFlags,   \* sort_indices values the RelationTransform is built with
    AggregatorNames \* aggregator_name values of the SAGE layers

ASSUME SortFlags \subseteq BOOLEAN /\ SortFlags # {}
ASSUME AggregatorNames \subseteq {"mean", "meanpool", "maxpool", "gcn"}

VARIABLES
    sort_indices,   \* RelationTransform(sort_indices=...) of this worker
    uniq,           \* ids: torch.unique of the flattened multi-hop ids
    indices,        \* indices: inverse of unique, reshaped to [N, W]
    relation,       \* the relation graph of the batch
    bipartites      \* the bipartite layers of the batch

vars == <<phase, seeds, rows, wts, hop, sort_indices, uniq, indices,
          relation, bipartites>>

RT == INSTANCE RelationTransform WITH
        FanoutSpecs <- {Fanouts}, fanouts <- Fanouts,
        fanouts_list <- Widths, fanouts_dim <- W,
        fanouts_indices <- GetFanoutsIndices(Fanouts),
        sort_indices <- sort_indices

Phases == {"idle", "sampling", "sampled", "indexed", "related",
           "structured", "failed"}

\* multi_hops[0].flatten()
FlatIds(r) == [i \in 0..BatchSize * W - 1 |-> r[i \div W][i % W]]

-----------------------------------------------------------------------------

Init ==
    /\ phase = "idle"
    /\ sort_indices \in SortFlags
    /\ seeds = NoValue /\ rows = NoValue /\ wts = NoValue /\ hop = 0
    /\ uniq = NoValue /\ indices = NoValue
    /\ relation = NoValue /\ bipartites = NoValue

\* The dataloader hands the worker a batch (VertexDataset.batch: ids drawn
\* from the vertex pool, repeats allowed) and the transform starts sampling.
ReceiveBatch ==
    /\ \E batch \in [Rows -> Vertices] : StartSampling(batch)
    /\ UNCHANGED <<sort_indices, uniq, indices, relation, bipartites>>

Sample ==
    /\ SampleHop
    /\ UNCHANGED <<sort_indices, uniq, indices, relation, bipartites>>

SampleFails ==
    /\ HopFails
    /\ UNCHANGED <<sort_indices, uniq, indices, relation, bipartites>>

\* get_feature: collect_pod_feature returns an empty list, ValueError.
FeatureFails ==
    /\ phase = "sampled"
    /\ phase' = "failed"
    /\ UNCHANGED <<seeds, rows, wts, hop, sort_indices, uniq, indices,
                   relation, bipartites>>

\* Bug variant: the inverse reshaped column-major ([W, N] read as [N, W]).
UniqueAndFeaturesTransposed ==
    /\ phase = "sampled"
    /\ LET flat == FlatIds(rows)
           u    == UniqueIds(flat)
           inv  == InverseOf(u, flat)
       IN  /\ uniq' = u
           /\ indices' = [n \in Rows |-> [p \in 0..W-1 |-> inv[p * BatchSize + n]]]
    /\ phase' = "indexed"
    /\ UNCHANGED <<seeds, rows, wts, hop, sort_indices, relation, bipartites>>

\* MultiHopFeatureSparseTransform.transform after sampling: unique ids and
\* their inverse reshaped to inputs.shape + (fanouts_dim,); the dense
\* features are looked up per unique id (abstracted: a feature row is a
\* function of its id).
UniqueAndFeatures ==
    /\ phase = "sampled"
    /\ LET flat == FlatIds(rows)
           u    == UniqueIds(flat)
           inv  == InverseOf(u, flat)
       IN  /\ uniq' = u
           /\ indices' = [n \in Rows |-> [p \in 0..W-1 |-> inv[n * W + p]]]
    /\ phase' = "indexed"
    /\ UNCHANGED <<seeds, rows, wts, hop, sort_indices, relation, bipartites>>

\* SAGEEncode.forward: relation = RelationTransform(fanouts).transform(
\* dict(indices=indices, edge_weight=edge_weight)).
Relate ==
    /\ phase = "indexed"
    /\ relation' = RT!Transform(W, GetFanoutsIndices(Fanouts), sort_indices,
                                indices, wts)
    /\ phase' = "related"
    /\ UNCHANGED <<seeds, rows, wts, hop, sort_indices, uniq, indices,
                   bipartites>>

\* Dense path: BipartiteTransform(fanouts).transform(dict(ids=...,
\* edge_weight=...)) on the multi-hop tensors.
Bipartite ==
    /\ phase = "sampled"
    /\ bipartites' = Bipartites(Widths, rows, wts)
    /\ phase' = "structured"
    /\ UNCHANGED <<seeds, rows, wts, hop, sort_indices, uniq, indices,
                   relation>>

\* The batch has been consumed; the worker goes on with the next one.
NextBatch ==
    /\ phase \in {"related", "structured"}
    /\ phase' = "idle"
    /\ seeds' = NoValue /\ rows' = NoValue /\ wts' = NoValue /\ hop' = 0
    /\ uniq' = NoValue /\ indices' = NoValue
    /\ relation' = NoValue /\ bipartites' = NoValue
    /\ UNCHANGED sort_indices

Next ==
    \/ ReceiveBatch
    \/ Sample
    \/ SampleFails
    \/ FeatureFails
    \/ UniqueAndFeatures
    \/ Relate
    \/ Bipartite
    \/ NextBatch

Spec == Init /\ [][Next]_vars

-----------------------------------------------------------------------------

TypeOK ==
    /\ phase \in Phases
    /\ sort_indices \in BOOLEAN
    /\ hop \in 0..K+1
    /\ phase \in {"sampling", "sampled", "indexed", "related", "structured"}
         => /\ seeds \in [Rows -> Vertices]
            /\ \A n \in Rows : rows[n] \in [0..Base(Fanouts, hop) - 1 -> Vertices]

\* The sampled tree of the batch: for row n and non-root position p, the
\* edge from the id at p's parent position to the id at p.
SampledEdge(n, p) == <<rows[n][ParentOf(Fanouts, p)], rows[n][p]>>

\* Relation edges, mapped back from unique-index space to vertex ids.
RelationEdge(c) ==
    <<uniq[relation.relation_indices[0][c]], uniq[relation.relation_indices[1][c]]>>

\* After dedup, index selection, split/concat and the optional sort, the
\* relation graph holds exactly the sampled tree edges of every seed, each
\* as often as it was sampled (sorting only reorders them).
RelationEdgesAreSampledEdges ==
    phase = "related" =>
        ToBag([c \in DOMAIN relation.relation_indices[0] |-> RelationEdge(c)])
          = ToBag([x \in Rows \X (1..W-1) |-> SampledEdge(x[1], x[2])])

\* target_indices points every seed at its own id in the unique ids.
TargetIndicesRecoverSeeds ==
    phase = "related" =>
        \A n \in Rows : uniq[relation.target_indices[n]] = seeds[n]

\* Every bipartite layer pairs hop i-1 with hop i, deepest first, so that
\* dst[j] is the child of src[j \div fanout_i] in the sampled tree and
\* carries the weight of that edge.
BipartiteLayersMatchTree ==
    phase = "structured" =>
        /\ Len(bipartites) = K
        /\ \A l \in 1..K :
             LET i   == K - l + 1
                 lay == bipartites[l]
             IN  \A n \in Rows, j \in 0..Widths[i] - 1 :
                   /\ <<lay.src[n][j \div Fanouts[i]], lay.dst[n][j]>>
                        = SampledEdge(n, Base(Fanouts, i) + j)
                   /\ lay.edge_weight[n][j]
                        = EdgeWeight[<<lay.src[n][j \div Fanouts[i]], lay.dst[n][j]>>]

\* relation_weight[c] is the weight of the edge relation_indices[:, c]
\* (SAGESparseLayer multiplies neighbour c's feature by it).
RelationWeightIsEdgeWeight ==
    phase = "related" =>
        \A c \in DOMAIN relation.relation_weight :
            relation.relation_weight[c] = EdgeWeight[RelationEdge(c)]

\* GraphSAGE over the sampled tree of every seed: the K-layer embedding of
\* the root, messages scaled by the sampled edges' weights.
TreeSAGE(kind) == [n \in Rows |-> TreeEmb(kind, Fanouts, rows[n], wts[n], 0, K)]

\* GraphSAGE over every seed's sampled tree with unscaled messages, what
\* the dense encoder, given features only, is meant to compute.
UnweightedTreeSAGE(kind) ==
    [n \in Rows |-> TreeEmb(kind, Fanouts, rows[n],
                            [c \in DOMAIN wts[n] |-> Unweighted], 0, K)]

\* The dense encoder (K SAGELayers through BaseMessagePassing.__call__ over
\* the bipartite layers of the features, bipartites[-1]['src_feature'])
\* computes, for every aggregator, GraphSAGE over each seed's sampled
\* tree: every layer's new src/dst features land on the layer that
\* aggregates them next.
DenseEncoderIsTreeSAGE ==
    phase = "structured" =>
        \A kind \in AggregatorNames :
            DenseEncoder(kind, bipartites) = UnweightedTreeSAGE(kind)

\* Spec section 3: the relation graph is each seed's sampled tree, so the
\* sparse encoder (K SAGESparseLayers scattering over relation_indices[0],
\* index_select at target_indices) computes GraphSAGE over that tree.
SparseEncoderIsTreeSAGE ==
    phase = "related" =>
        \A kind \in AggregatorNames :
            SparseEncoder(kind, relation, uniq, K) = TreeSAGE(kind)

=============================================================================
