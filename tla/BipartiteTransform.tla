------------------------- MODULE BipartiteTransform -------------------------
(***************************************************************************)
(* galileo/framework/pytorch/python/transforms/bipartite.py                *)
(* The object caches fanouts_list; transform() splits the multi-hop        *)
(* tensors at the hop boundaries and pairs consecutive hops, deepest hop   *)
(* first.  Features are split exactly like ids and are left out here (a   *)
(* feature row is a function of its id).                                   *)
(***************************************************************************)
EXTENDS FanoutArithmetic

\* torch.split(t, sizes, dim=-1) of a [R, W] tensor: segment i is a [R,
\* sizes[i]] tensor starting at sizes[0] + ... + sizes[i-1].
Split(t, sizes) ==
    [i \in DOMAIN sizes |->
        [n \in DOMAIN t |->
            [j \in 0..sizes[i]-1 |-> t[n][SumFunctionOnSet(sizes, 0..i-1) + j]]]]

\* Bug variant: layers emitted shallowest hop first.
BipartitesForward(fanouts_list, ids, edge_weight) ==
    LET K   == PyLen(fanouts_list) - 1
        fid == Split(ids, fanouts_list)
        few == Split(edge_weight, fanouts_list)
    IN  [l \in 1..K |->
            [src |-> fid[l - 1], dst |-> fid[l], edge_weight |-> few[l]]]

\* transform(dict(ids=..., edge_weight=...)): for i from K down to 1 emit
\* [src |-> hop i-1, dst |-> hop i, edge_weight |-> weights of hop i].
\* Result is a TLA+ sequence (python list index l-1).
Bipartites(fanouts_list, ids, edge_weight) ==
    LET K   == PyLen(fanouts_list) - 1
        fid == Split(ids, fanouts_list)
        few == Split(edge_weight, fanouts_list)
    IN  [l \in 1..K |->
            LET i == K - l + 1
            IN  [src |-> fid[i - 1], dst |-> fid[i], edge_weight |-> few[i]]]

=============================================================================
