------------------------------ MODULE TensorOps ------------------------------
(***************************************************************************)
(* The torch tensor operations the transforms rely on, at the level of     *)
(* index layout.  A 1-D tensor is a function on 0..n-1; an n-D tensor is   *)
(* its shape (a sequence) and its row-major data (a 1-D tensor): view and  *)
(* reshape change the shape and keep the data.                             *)
(***************************************************************************)
EXTENDS Naturals, Sequences, SequencesExt

\* torch.unique(x, sorted=True, return_inverse=True): the sorted distinct
\* values, and for every element of x the position of its value in them.
UniqueIds(flat) ==
    LET u == SetToSortSeq(Range(flat), <)
    IN  [k \in 0..Len(u) - 1 |-> u[k + 1]]

InverseOf(u, flat) ==
    [i \in DOMAIN flat |-> CHOOSE k \in DOMAIN u : u[k] = flat[i]]

\* Number of elements of a tensor of the given shape.
Numel(shape) == LET n[k \in 0..Len(shape)] ==
                        IF k = 0 THEN 1 ELSE n[k - 1] * shape[k]
                IN  n[Len(shape)]

=============================================================================
