------------------------- MODULE RelationTransform -------------------------
(***************************************************************************)
(* galileo/framework/pytorch/python/transforms/relation.py                 *)
(*                                                                         *)
(* The state of a RelationTransform object is what its constructor caches: *)
(* the Fanout Spec, its cumulative widths, the total width and the edge    *)
(* template, plus the sort flag.  transform() is a pure function of that   *)
(* state and its inputs and is defined here as an operator that the        *)
(* pipeline modules call.                                                  *)
(*                                                                         *)
(* Tensors are functions on 0..n-1 (python indexing); a [R, W] tensor is a *)
(* function from 0..R-1 to functions on 0..W-1.                           *)
(***************************************************************************)
EXTENDS FanoutArithmetic

CONSTANT FanoutSpecs    \* the Fanout Specs a program constructs objects with

ASSUME FanoutSpecs # {} /\ \A f \in FanoutSpecs : Len(f) >= 1

VARIABLES fanouts, fanouts_list, fanouts_dim, fanouts_indices, sort_indices

profile == <<fanouts, fanouts_list, fanouts_dim, fanouts_indices, sort_indices>>

\* RelationTransform.__init__: `assert fanouts`, then cache the profile.
Construct(f, sort) ==
    /\ Len(f) > 0
    /\ fanouts' = f
    /\ fanouts_list' = GetFanoutsList(f)
    /\ fanouts_dim' = GetFanoutsDim(f)
    /\ fanouts_indices' = GetFanoutsIndices(f)
    /\ sort_indices' = sort

Init ==
    \E f \in FanoutSpecs, sort \in BOOLEAN :
        /\ fanouts = f
        /\ fanouts_list = GetFanoutsList(f)
        /\ fanouts_dim = GetFanoutsDim(f)
        /\ fanouts_indices = GetFanoutsIndices(f)
        /\ sort_indices = sort

\* The program builds another transform object (one per model/encoder).
Next == \E f \in FanoutSpecs, sort \in BOOLEAN : Construct(f, sort)

Spec == Init /\ [][Next]_profile

-----------------------------------------------------------------------------
(***************************************************************************)
(* transform()                                                             *)
(***************************************************************************)

\* torch argsort of a key vector; modelled as the stable order (see README).
Argsort(key) ==
    LET L == PyLen(key)
        Rank(c) == Cardinality({d \in 0..L-1 :
                      key[d] < key[c] \/ (key[d] = key[c] /\ d < c)})
    IN  [i \in 0..L-1 |-> CHOOSE c \in 0..L-1 : Rank(c) = i]

\* Bug variant: the two rows of each split(2) block taken in swapped order,
\* so every edge points from child to parent.
TransformSwapped(fdim, findices, sort, indices, edge_weight) ==
    LET R         == PyLen(indices)
        indices_t == [p \in 0..fdim-1 |-> [n \in 0..R-1 |-> indices[n][p]]]
        sel       == [j \in 0..PyLen(findices)-1 |-> indices_t[findices[j]]]
        E         == PyLen(findices) \div 2
        cat       == [r \in 0..1 |->
                        [c \in 0..E*R-1 |-> sel[2 * (c \div R) + 1 - r][c % R]]]
        order     == IF sort THEN Argsort(cat[0]) ELSE [c \in 0..E*R-1 |-> c]
        rel       == [r \in 0..1 |-> [c \in 0..E*R-1 |-> cat[r][order[c]]]]
        weight    == [c \in 0..E*R-1 |->
                        edge_weight[c \div (fdim - 1)][(c % (fdim - 1)) + 1]]
    IN  [relation_indices |-> rel,
         relation_weight  |-> weight,
         target_indices   |-> indices_t[0]]

\* transform(dict(indices=..., edge_weight=...)) for 2-D indices [R, W]
\* with W = fanouts_dim.  relation_weight is edge_weight[:, 1:].reshape(-1).
Transform(fdim, findices, sort, indices, edge_weight) ==
    LET R         == PyLen(indices)
        indices_t == [p \in 0..fdim-1 |-> [n \in 0..R-1 |-> indices[n][p]]]
        sel       == [j \in 0..PyLen(findices)-1 |-> indices_t[findices[j]]]
        E         == PyLen(findices) \div 2
        \* relation_indices.split(2) concatenated along dim 1
        cat       == [r \in 0..1 |->
                        [c \in 0..E*R-1 |-> sel[2 * (c \div R) + r][c % R]]]
        order     == IF sort THEN Argsort(cat[0]) ELSE [c \in 0..E*R-1 |-> c]
        rel       == [r \in 0..1 |-> [c \in 0..E*R-1 |-> cat[r][order[c]]]]
        weight    == [c \in 0..E*R-1 |->
                        edge_weight[c \div (fdim - 1)][(c % (fdim - 1)) + 1]]
    IN  [relation_indices |-> rel,
         relation_weight  |-> weight,
         target_indices   |-> indices_t[0]]

-----------------------------------------------------------------------------
(***************************************************************************)
(* Properties of the cached profile                                        *)
(***************************************************************************)

TypeOK ==
    /\ fanouts \in FanoutSpecs
    /\ fanouts_list \in [0..Len(fanouts) -> Nat \ {0}]
    /\ fanouts_dim \in Nat \ {0}
    /\ sort_indices \in BOOLEAN

\* The cached edge template names, for every non-root position of a row,
\* exactly the position it was sampled from under the sampler's
\* hop-by-hop, parent-major layout (get_fanouts_indices against the
\* ParentOf formula); every relation edge of every batch is built from it.
TemplateMatchesLayout ==
    fanouts_indices = ReferenceIndices(fanouts)

=============================================================================
