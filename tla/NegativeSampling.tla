------------------------- MODULE NegativeSampling -------------------------
(***************************************************************************)
(* MultiHopFeatureNegTransform.transform                                   *)
(* (galileo/framework/pytorch/python/transforms/multi_hop_feature_neg.py): *)
(* the unsupervised GraphSAGE input.  One batch of vertices goes through   *)
(* three branches, each MultiHopFeatureTransform.transform followed by     *)
(* reshape_outputs:                                                        *)
(*   target   - the vertices themselves, grouped by 1;                     *)
(*   context  - one sampled neighbour per vertex (sample_neighbors),       *)
(*              grouped by 1;                                              *)
(*   negative - size * negative_num sampled vertices (sample_vertices),    *)
(*              grouped by negative_num.                                   *)
(* A tensor is a record [shape, data] with row-major data (TensorOps); a   *)
(* branch output is a function from its field names (ids, dense, sparse,  *)
(* edge_weight) to tensors.  A feature value is abstracted to a function  *)
(* of the vertex and the feature column, so that a misplaced row shows.   *)
(* The graph-serving ops are C++ outside the repository: a multi-hop row   *)
(* is any row consistent with Nbrs and the fanout layout, and any of them  *)
(* may answer with an empty list.                                          *)
(*                                                                         *)
(* The LINE example's two other transforms of the same family give the    *)
(* same target / context / negative triple of plain id tensors:            *)
(* NeighborNegTransform (neighbor_neg.py) over a batch of vertices, and    *)
(* EdgeNegTransform (edge_neg.py) over the batch EdgeDataset.batch samples *)
(* (edge_dataset.py).  Transform is the class the trainer was given.       *)
(***************************************************************************)
EXTENDS FanoutArithmetic

CONSTANTS
    Vertices,     \* vertex ids (small naturals)
    Nbrs,         \* Nbrs[v]: neighbours of v over the metapath's edge types
    EdgeWeight,   \* EdgeWeight[<<u, v>>]: weight of edge u -> v
    RootWeight,   \* weight the op reports at a seed position
    Fanouts,      \* fanouts of the multi-hop sample
    BatchSize,    \* number of vertices handed to transform
    NegativeNum,  \* negative_num
    Fields,       \* optional outputs configured: "dense", "sparse", "edge_weight"
    DenseDim,     \* dense_feature_dims (one dense feature name)
    SparseDim,    \* sparse_feature_dims (one sparse feature name)
    Transforms    \* "multi_hop_feature_neg", "neighbor_neg", "edge_neg"

Edges == UNION {{<<u, v>> : v \in Nbrs[u]} : u \in Vertices}

ASSUME /\ Vertices \subseteq Nat
       /\ Nbrs \in [Vertices -> SUBSET Vertices]
       /\ \A v \in Vertices : Nbrs[v] # {}
       /\ EdgeWeight \in [Edges -> Nat] /\ RootWeight \in Nat
       /\ BatchSize >= 1 /\ NegativeNum >= 1
       /\ Fields \subseteq {"dense", "sparse", "edge_weight"}
       /\ DenseDim >= 1 /\ SparseDim >= 1
       /\ Transforms \subseteq {"multi_hop_feature_neg", "neighbor_neg", "edge_neg"}

VARIABLES
    transform,  \* the transform class of the loader
    phase,      \* the branch transform() is computing
    vertices,   \* inputs.flatten()
    size,       \* len(context)
    target,     \* target_features
    context,    \* context_features
    negative,   \* negative_features
    error       \* the exception transform() raised, if any

vars == <<transform, phase, vertices, size, target, context, negative, error>>

W    == GetFanoutsDim(Fanouts)
None == [f \in {} |-> 0]   \* a branch not computed yet

\* A tensor from its shape and the value at each row-major offset.
Tensor(shp, val(_)) == [shape |-> shp, data |-> [i \in 0..Numel(shp) - 1 |-> val(i)]]

\* Feature value of vertex v in column d (abstract, distinct per vertex).
Feat(v, dim, d) == v * dim + d

\* The rows ops.sample_seq_by_multi_hop may return for a seed v: v at
\* position 0, then every position a neighbour of its parent position.
RowsFrom(v) ==
    {r \in [0..W - 1 -> Vertices] :
        r[0] = v /\ \A p \in 1..W - 1 : r[p] \in Nbrs[r[ParentOf(Fanouts, p)]]}

RowsFor(vs) == {rs \in [DOMAIN vs -> UNION {RowsFrom(v) : v \in Vertices}] :
                    \A n \in DOMAIN vs : rs[n] \in RowsFrom(vs[n])}

\* get_feature: collect_pod_feature on the unique ids gives a [U, dim]
\* tensor; index_select(features, 0, indices.view(-1)) then
\* .view(indices.size() + (-1,)).
GetFeatureUngathered(u, dim, inv, shp) ==
    Tensor(<<PyLen(u), dim>>, LAMBDA i : Feat(u[i \div dim], dim, i % dim))

GetFeature(u, dim, inv, shp) ==
    Tensor(shp \o <<dim>>, LAMBDA i : Feat(u[inv[i \div dim]], dim, i % dim))

\* MultiHopFeatureTransform.transform on the flat ids vs, given the rows
\* the op sampled: ids = multi_hops[0] ([n, W]), unique with inverse, dense
\* and sparse features gathered back to [n, W, dim], edge_weight =
\* multi_hops[1].
MultiHopFeature(vs, rs) ==
    LET n    == PyLen(vs)
        shp  == <<n, W>>
        flat == [i \in 0..n * W - 1 |-> rs[i \div W][i % W]]
        u    == UniqueIds(flat)
        inv  == InverseOf(u, flat)
        wt(i) == IF i % W = 0 THEN RootWeight
                 ELSE EdgeWeight[<<rs[i \div W][ParentOf(Fanouts, i % W)], flat[i]>>]
        out  == [ids |-> Tensor(shp, LAMBDA i : flat[i]),
                 dense |-> GetFeature(u, DenseDim, inv, shp),
                 sparse |-> GetFeature(u, SparseDim, inv, shp),
                 edge_weight |-> Tensor(shp, wt)]
    IN  [f \in {"ids"} \cup Fields |-> out[f]]

\* Trailing shape reshape_outputs keeps: shp[-1] for ids and edge_weight,
\* shp[-2:] for dense and sparse.
Trailing(f, shp) ==
    IF f \in {"ids", "edge_weight"} THEN SubSeq(shp, Len(shp), Len(shp))
    ELSE SubSeq(shp, Len(shp) - 1, Len(shp))

\* Bug variant: the group dimension forgotten in the -1 of view().
ReshapeOutputsNoGroup(out, sz) ==
    [f \in DOMAIN out |->
        LET t == Trailing(f, out[f].shape)
        IN  [out[f] EXCEPT !.shape = <<Numel(out[f].shape) \div Numel(t), sz>> \o t]]

\* Bug variant: view(size, -1, ...) instead of view(-1, size, ...).
ReshapeOutputsSwapped(out, sz) ==
    [f \in DOMAIN out |->
        LET t == Trailing(f, out[f].shape)
        IN  [out[f] EXCEPT !.shape = <<sz, Numel(out[f].shape) \div (sz * Numel(t))>> \o t]]

\* reshape_outputs(output, size): every field viewed as (-1, size) + its
\* trailing shape; view keeps the row-major data.
ReshapeOutputs(out, sz) ==
    [f \in DOMAIN out |->
        LET t == Trailing(f, out[f].shape)
        IN  [out[f] EXCEPT !.shape = <<Numel(out[f].shape) \div (sz * Numel(t)), sz>> \o t]]

\* A tensor of ids viewed with shape shp: the branch of the plain
\* transforms (the dict holds the tensor itself, here under "ids").
IdsOutput(vs, shp) == [ids |-> Tensor(shp, LAMBDA i : vs[i])]

-----------------------------------------------------------------------------

Init ==
    /\ transform \in Transforms
    /\ phase = "idle"
    /\ vertices = <<>> /\ size = 0
    /\ target = None /\ context = None /\ negative = None
    /\ error = "none"

\* The loader hands transform() a batch of vertices; inputs.flatten().
\* (NeighborNegTransform's target, inputs.view(-1, 1), is a view taken
\* with its context.)
ReceiveBatch ==
    /\ phase = "idle" /\ transform # "edge_neg"
    /\ \E vs \in [0..BatchSize - 1 -> Vertices] : vertices' = vs
    /\ phase' = IF transform = "neighbor_neg" THEN "context" ELSE "target"
    /\ UNCHANGED <<transform, size, target, context, negative, error>>

\* target_features = reshape_outputs(super().transform(vertices), 1).
TargetBranch ==
    /\ phase = "target"
    /\ \E rs \in RowsFor(vertices) :
         target' = ReshapeOutputs(MultiHopFeature(vertices, rs), 1)
    /\ phase' = "context"
    /\ UNCHANGED <<transform, vertices, size, context, negative, error>>

\* Bug variant: the context branch transforms the targets' own vertices.
ContextBranchOfTargets ==
    /\ phase = "context" /\ transform = "multi_hop_feature_neg"
    /\ \E rs \in RowsFor(vertices) :
         context' = ReshapeOutputs(MultiHopFeature(vertices, rs), 1)
    /\ size' = PyLen(vertices)
    /\ phase' = "negative"
    /\ UNCHANGED <<transform, vertices, target, negative, error>>

\* sample_neighbors(vertices, metapath[0], count=1) answers one neighbour
\* per vertex; context[0].flatten() goes through the transform, grouped
\* by 1, and size = len(context).
ContextBranch ==
    /\ phase = "context" /\ transform = "multi_hop_feature_neg"
    /\ \E ctx \in [DOMAIN vertices -> Vertices] :
         /\ \A n \in DOMAIN vertices : ctx[n] \in Nbrs[vertices[n]]
         /\ \E rs \in RowsFor(ctx) :
              context' = ReshapeOutputs(MultiHopFeature(ctx, rs), 1)
         /\ size' = PyLen(ctx)
    /\ phase' = "negative"
    /\ UNCHANGED <<transform, vertices, target, negative, error>>

\* sample_neighbors answers an empty list: ValueError (both transforms
\* that sample a context check it).
ContextNeighborsEmpty ==
    /\ phase = "context"
    /\ phase' = "failed" /\ error' = "ValueError"
    /\ UNCHANGED <<transform, vertices, size, target, context, negative>>

\* sample_vertices(types, count=size * negative_num)[0], flattened, goes
\* through the transform and is grouped by negative_num.
NegativeBranch ==
    /\ phase = "negative" /\ transform = "multi_hop_feature_neg"
    /\ \E neg \in [0..size * NegativeNum - 1 -> Vertices] :
         \E rs \in RowsFor(neg) :
            negative' = ReshapeOutputs(MultiHopFeature(neg, rs), NegativeNum)
    /\ phase' = "done"
    /\ UNCHANGED <<transform, vertices, size, target, context, error>>

\* sample_vertices answers an empty list; the [0] that follows it has no
\* check and raises IndexError.
NegativeVerticesEmpty ==
    /\ phase = "negative"
    /\ phase' = "failed" /\ error' = "IndexError"
    /\ UNCHANGED <<transform, vertices, size, target, context, negative>>

\* Inside a branch's transform: sample_multi_hop gets an empty list, or
\* collect_pod_feature returns no tensor when features are configured
\* (get_feature); both raise ValueError.
BranchFails ==
    /\ transform = "multi_hop_feature_neg"
    /\ phase \in {"target", "context", "negative"}
    /\ phase' = "failed" /\ error' = "ValueError"
    /\ UNCHANGED <<transform, vertices, size, target, context, negative>>

\* EdgeDataset.batch: sample_edges(edge_types, count=batch_size) answers
\* src, dst and the types of batch_size edges (one type picked when there
\* are several); EdgeNegTransform views src and dst as target and context
\* [size, 1].
ReceiveEdges ==
    /\ phase = "idle" /\ transform = "edge_neg"
    /\ \E es \in [0..BatchSize - 1 -> Edges] :
         LET src == [n \in DOMAIN es |-> es[n][1]]
             dst == [n \in DOMAIN es |-> es[n][2]]
         IN  /\ vertices' = src
             /\ target' = IdsOutput(src, <<BatchSize, 1>>)
             /\ context' = IdsOutput(dst, <<BatchSize, 1>>)
             /\ size' = BatchSize
    /\ phase' = "negative"
    /\ UNCHANGED <<transform, negative, error>>

\* sample_edges answers an empty list, which src, dst, etypes = cannot
\* unpack: ValueError.
EdgesEmpty ==
    /\ phase = "idle" /\ transform = "edge_neg"
    /\ phase' = "failed" /\ error' = "ValueError"
    /\ UNCHANGED <<transform, vertices, size, target, context, negative>>

\* NeighborNegTransform: target = inputs.view(-1, 1), context =
\* sample_neighbors(inputs, edge_types, count=1)[0].view(-1, 1), size =
\* target.shape[0].
NeighborContext ==
    /\ phase = "context" /\ transform = "neighbor_neg"
    /\ \E ctx \in [DOMAIN vertices -> Vertices] :
         /\ \A n \in DOMAIN vertices : ctx[n] \in Nbrs[vertices[n]]
         /\ target' = IdsOutput(vertices, <<PyLen(vertices), 1>>)
         /\ context' = IdsOutput(ctx, <<PyLen(ctx), 1>>)
    /\ size' = PyLen(vertices)
    /\ phase' = "negative"
    /\ UNCHANGED <<transform, vertices, negative, error>>

\* Both plain transforms: sample_vertices(types, count=size *
\* negative_num)[0].view(size, negative_num).
NegativeIds ==
    /\ phase = "negative" /\ transform # "multi_hop_feature_neg"
    /\ \E neg \in [0..size * NegativeNum - 1 -> Vertices] :
         negative' = IdsOutput(neg, <<size, NegativeNum>>)
    /\ phase' = "done"
    /\ UNCHANGED <<transform, vertices, size, target, context, error>>

\* The batch has been consumed and the next one starts.
NextBatch ==
    /\ phase = "done"
    /\ phase' = "idle"
    /\ vertices' = <<>> /\ size' = 0
    /\ target' = None /\ context' = None /\ negative' = None
    /\ UNCHANGED <<transform, error>>

Next ==
    \/ ReceiveBatch
    \/ TargetBranch
    \/ ContextBranch
    \/ ContextNeighborsEmpty
    \/ NegativeBranch
    \/ NegativeVerticesEmpty
    \/ BranchFails
    \/ ReceiveEdges
    \/ EdgesEmpty
    \/ NeighborContext
    \/ NegativeIds
    \/ NextBatch

Spec == Init /\ [][Next]_vars


-----------------------------------------------------------------------------

Phases == {"idle", "target", "context", "negative", "done", "failed"}

Branches == {b \in {target, context, negative} : b # None}

\* Every computed branch has ids and exactly the configured fields, and
\* every view() in it was legal: its shape holds as many elements as its
\* data.
TypeOK ==
    /\ transform \in Transforms
    /\ phase \in Phases
    /\ error \in {"none", "ValueError", "IndexError"}
    /\ size \in 0..BatchSize
    /\ \A b \in Branches :
         /\ DOMAIN b = IF transform = "multi_hop_feature_neg"
                        THEN {"ids"} \cup Fields ELSE {"ids"}
         /\ \A f \in DOMAIN b :
              b[f].data \in [0..Numel(b[f].shape) - 1 -> Nat]

\* Spec 4.5 and 8 (negative symmetry): target, context and negative have
\* the same fields and the same trailing shape per field; the leading
\* dimensions are [size, 1] for target and context and [size,
\* negative_num] for negative, as reshape_outputs' view(-1, size, ...)
\* must produce from the flat branches.
NegativeSymmetry ==
    phase = "done" =>
        /\ DOMAIN context = DOMAIN target /\ DOMAIN negative = DOMAIN target
        /\ \A f \in DOMAIN target :
             LET lead(b) == SubSeq(b[f].shape, 1, 2)
                 rest(b) == SubSeq(b[f].shape, 3, Len(b[f].shape))
             IN  /\ lead(target) = <<size, 1>> /\ lead(context) = <<size, 1>>
                 /\ lead(negative) = <<size, NegativeNum>>
                 /\ rest(context) = rest(target) /\ rest(negative) = rest(target)

\* get_feature looks features up per unique id and gathers them back
\* through the inverse: in every branch, the feature at each position is
\* the feature of the id at that position, and edge_weight carries the
\* weight of the edge from the position's parent.
FeaturesMatchIds ==
    \A b \in Branches :
        LET ids == b.ids.data
        IN  /\ \A f \in {"dense", "sparse"} \cap DOMAIN b :
                 LET dim == IF f = "dense" THEN DenseDim ELSE SparseDim
                 IN  /\ b[f].shape = b.ids.shape \o <<dim>>
                     /\ \A i \in DOMAIN b[f].data :
                          b[f].data[i] = Feat(ids[i \div dim], dim, i % dim)
            /\ "edge_weight" \in DOMAIN b =>
                 \A i \in DOMAIN ids :
                   b.edge_weight.data[i] =
                     IF i % W = 0 THEN RootWeight
                     ELSE EdgeWeight[<<ids[(i \div W) * W + ParentOf(Fanouts, i % W)], ids[i]>>]

\* The context of the n-th input vertex is a neighbour of it: the ids at
\* [n, 0, ...] (the row-major offset of row n) of the target and context
\* branches are the n-th input vertex (the source of the n-th edge) and
\* one of its neighbours.
ContextAligned ==
    phase \in {"negative", "done"} =>
        \A n \in 0..size - 1 :
            LET at(b) == b.ids.data[n * Numel(SubSeq(b.ids.shape, 2, Len(b.ids.shape)))]
            IN  /\ at(target) = vertices[n]
                /\ at(context) \in Nbrs[vertices[n]]

=============================================================================
