---------------------------- MODULE SageEncoder ----------------------------
(***************************************************************************)
(* GraphSAGE message passing over the two structured forms:                *)
(*   dense  - SAGELayer (convolutions/sage_layer.py) run through           *)
(*            BaseMessagePassing.__call__ (python/base_message_passing.py) *)
(*            over the bipartite layers, with the aggregators of           *)
(*            layers/aggregators.py;                                       *)
(*   sparse - SAGESparseLayer (convolutions/sage_layer_sparse.py) over the *)
(*            relation graph, with the scatter aggregators of              *)
(*            layers/aggregators_sparse.py.                                *)
(* An embedding is kept symbolically, as the term that records what it is *)
(* computed from: a leaf is the feature of a vertex; a layer combines a    *)
(* vertex's own term with the multiset of its weighted neighbour messages. *)
(* The dense linear maps, activations and dropout are applied alike to     *)
(* every term and are left out.  A mean depends only on the proportions of *)
(* its multiset and a max only on its support, so those are what the terms *)
(* keep.                                                                   *)
(***************************************************************************)
EXTENDS FanoutArithmetic

LOCAL INSTANCE Bags

\* The input feature of vertex v.
Leaf(v) == [v |-> v]

\* A neighbour message: the neighbour's term scaled by the edge weight.
Msg(w, h) == [w |-> w, h |-> h]

\* The weight of a message nothing scales.
Unweighted == "unweighted"

\* The multiset of the values f takes over the finite set S.
BagOf(S, f(_)) == [t \in {f(x) : x \in S} |-> Cardinality({x \in S : f(x) = t})]

\* torch.mean over the messages, as far as it depends on them: the
\* multiset B with its counts divided by their greatest common divisor.
MeanOf(B) ==
    IF DOMAIN B = {} THEN B
    ELSE LET m == Min({B[x] : x \in DOMAIN B})
             d == Max({k \in 1..m : \A x \in DOMAIN B : B[x] % k = 0})
         IN  [x \in DOMAIN B |-> B[x] \div d]

\* The aggregators, on a vertex term and its multiset of messages:
\*   mean, meanpool - own term with the mean of the messages (pool applies
\*                    the same dense map to every message first);
\*   maxpool        - own term with the element-wise max of the messages;
\*   gcn            - mean of the own term together with the messages.
Aggregate(kind, self, msgs) ==
    CASE kind \in {"mean", "meanpool"} -> [self |-> self, mean |-> MeanOf(msgs)]
      [] kind = "maxpool" -> [self |-> self, max |-> DOMAIN msgs]
      [] kind = "gcn" -> [gcn |-> MeanOf(msgs (+) SetToBag({[self |-> self]}))]

\* Feature rows of a [R, w] id tensor.
Leaves(ids) == [n \in DOMAIN ids |-> [j \in DOMAIN ids[n] |-> Leaf(ids[n][j])]]

-----------------------------------------------------------------------------
(* Dense path *)

\* SAGELayer.message/aggregate on one bipartite layer without edge_weight
\* (the only form the dense encoder passes: dst is not scaled), and
\* BaseAggregator.forward views the [R, w*f] dst as [R, w, f] (f = dst
\* width / src width), so src j aggregates dst j*f .. j*f+f-1.
SageLayerOn(kind, ip) ==
    [n \in DOMAIN ip.src_feature |->
        LET f == PyLen(ip.dst_feature[n]) \div PyLen(ip.src_feature[n])
        IN  [j \in DOMAIN ip.src_feature[n] |->
                Aggregate(kind, ip.src_feature[n][j],
                          BagOf(j * f .. j * f + f - 1,
                                LAMBDA c : Msg(Unweighted, ip.dst_feature[n][c])))]]

\* Bug variant: the new features written to the wrong ends of the layers.
MessagePassingSwapped(kind, layers) ==
    LET hs == [i \in 1..Len(layers) |-> SageLayerOn(kind, layers[i])]
    IN  IF Len(hs) = 1 THEN <<[src_feature |-> hs[1]]>>
        ELSE [i \in 1..Len(layers) - 1 |->
                [layers[i + 1] EXCEPT !.src_feature = hs[i], !.dst_feature = hs[i + 1]]]

\* BaseMessagePassing.__call__: every layer gives hs[i]; the layers but the
\* first are returned with src_feature = hs[i+1] and dst_feature = hs[i]
\* (the deeper layer's result is the new dst); a single layer gives
\* [dict(src_feature=hs[0])].
MessagePassing(kind, layers) ==
    LET hs == [i \in 1..Len(layers) |-> SageLayerOn(kind, layers[i])]
    IN  IF Len(hs) = 1 THEN <<[src_feature |-> hs[1]]>>
        ELSE [i \in 1..Len(layers) - 1 |->
                [layers[i + 1] EXCEPT !.src_feature = hs[i + 1], !.dst_feature = hs[i]]]

\* The dense encoder (examples/tf/sage/supervised.py): bipartite layers
\* of the features alone (no edge_weight), one SAGELayer per hop, bipartites[-1]['src_feature']
\* squeezed to one term per seed.
DenseEncoder(kind, bips) ==
    LET K == Len(bips)
        l0 == [i \in 1..K |-> [src_feature |-> Leaves(bips[i].src),
                               dst_feature |-> Leaves(bips[i].dst)]]
        stack[k \in 0..K] == IF k = 0 THEN l0 ELSE MessagePassing(kind, stack[k - 1])
        out == stack[K][Len(stack[K])].src_feature
    IN  [n \in DOMAIN out |-> out[n][0]]

-----------------------------------------------------------------------------
(* Sparse path *)

\* The sparse aggregators on a vertex term and the messages scattered onto
\* it: mean, mean-1k and meanpool reduce='mean', maxpool reduce='max', gcn
\* (self + scatter sum) / (scatter count + 1), the mean of the own term
\* together with the messages.  A vertex nothing is scattered onto gets 0
\* from the reduction, the empty multiset here.
ScatterAggregate(kind, self, msgs) ==
    CASE kind \in {"mean", "mean-1k", "meanpool"} -> [self |-> self, mean |-> MeanOf(msgs)]
      [] kind = "maxpool" -> [self |-> self, max |-> DOMAIN msgs]
      [] kind = "gcn" -> [gcn |-> MeanOf(msgs (+) SetToBag({[self |-> self]}))]

\* SAGESparseLayer.message_and_aggregate: feature_n = the features of
\* relation_indices[1] scaled by relation_weight, scattered onto
\* relation_indices[0] (dim_size = number of unique ids; a vertex without
\* edges gets an empty scatter).
SparseLayer(kind, rel, h) ==
    LET src == rel.relation_indices[0]
        dst == rel.relation_indices[1]
    IN  [u \in DOMAIN h |->
            ScatterAggregate(kind, h[u],
                      BagOf({c \in DOMAIN src : src[c] = u},
                            LAMBDA c : Msg(rel.relation_weight[c], h[dst[c]])))]

\* SAGEEncode.forward (examples/pytorch/sage/unsupervised_sparse.py): K
\* SAGESparseLayers over the unique ids, then index_select at
\* target_indices.
SparseEncoder(kind, rel, uniq, K) ==
    LET stack[k \in 0..K] ==
            IF k = 0 THEN [u \in DOMAIN uniq |-> Leaf(uniq[u])]
            ELSE SparseLayer(kind, rel, stack[k - 1])
    IN  [n \in DOMAIN rel.target_indices |-> stack[K][rel.target_indices[n]]]

-----------------------------------------------------------------------------
(* Reference *)

\* GraphSAGE on the sampled tree of one row (ids row, weights wrow): the
\* layer-l term of position p aggregates the layer-(l-1) terms of p and
\* of its children, each message scaled by the weight of its edge.
RECURSIVE TreeEmb(_, _, _, _, _, _)
TreeEmb(kind, fanouts, row, wrow, p, l) ==
    IF l = 0 THEN Leaf(row[p])
    ELSE Aggregate(kind, TreeEmb(kind, fanouts, row, wrow, p, l - 1),
                   BagOf({c \in 1..GetFanoutsDim(fanouts) - 1 : ParentOf(fanouts, c) = p},
                         LAMBDA c : Msg(wrow[c], TreeEmb(kind, fanouts, row, wrow, c, l - 1))))

=============================================================================
