-------------------------- MODULE FanoutArithmetic --------------------------
(***************************************************************************)
(* The fanout helpers of galileo/framework/python/utils/utils.py.          *)
(*                                                                         *)
(* A Fanout Spec is a TLA+ sequence: fanouts[h] is the fanout of hop h     *)
(* (python fanouts[h-1]).  Results that python returns as lists indexed    *)
(* from 0 are TLA+ functions with domain 0..n-1, so that a position means  *)
(* the same number here as in the code.                                    *)
(***************************************************************************)
EXTENDS Naturals, Sequences, SequencesExt, TensorOps

\* Python-style list of length n: a function on 0..n-1.
PyLen(t) == Cardinality(DOMAIN t)

\* np.repeat(vals, counts) for 1-based sequences vals and counts: the
\* blocks of counts[i] copies of vals[i], one after another.
Repeat(vals, counts) ==
    LET upto[i \in 0..Len(vals)] ==
            IF i = 0 THEN <<>>
            ELSE upto[i - 1] \o [j \in 1..counts[i] |-> vals[i]]
    IN  upto[Len(vals)]

\* np.reshape(np.stack([src, arange(1, len(src)+1)], axis=1), [-1]).tolist()
StackFlat(src) ==
    [i \in 0..2 * Len(src) - 1 |-> IF i % 2 = 0 THEN src[i \div 2 + 1]
                                                ELSE i \div 2 + 1]

\* Bug variant: the cumulative product without the leading 1 for the seed.
GetFanoutsListNoSeed(fanouts) ==
    LET cp[h \in 1..Len(fanouts)] ==
            IF h = 1 THEN fanouts[1] ELSE cp[h - 1] * fanouts[h]
    IN  [h \in 0..Len(fanouts) - 1 |-> cp[h + 1]]

\* get_fanouts_list: np.array([1] + fanouts).cumprod(); widths[h] is the
\* number of positions of hop h in a row (widths[0] = 1 is the seed).
GetFanoutsList(fanouts) ==
    LET cp[h \in 0..Len(fanouts)] ==
            IF h = 0 THEN 1 ELSE cp[h - 1] * fanouts[h]
    IN  cp

\* get_fanouts_dim: total width of a multi-hop row.
GetFanoutsDim(fanouts) == SumFunction(GetFanoutsList(fanouts))

\* Bug variant: repeat counts taken from fanouts_list[1:] instead of [:-1].
GetFanoutsIndicesShifted(fanouts) ==
    LET widths == GetFanoutsList(fanouts)
        K      == Len(fanouts)
        D      == SumFunctionOnSet(widths, 0..K-1)
        counts == Repeat(fanouts, [h \in 1..K |-> widths[h]])
        src    == Repeat([q \in 1..D |-> q - 1], counts)
    IN  StackFlat(src)

\* get_fanouts_indices: the flat [src0, dst0, src1, dst1, ...] template.
\*   src_i = repeat(arange(D), repeat(fanouts, fanouts_list[:-1]))
\*   dst_i = arange(1, len(src_i) + 1)
\* Returned as a python list (domain 0..2E-1).
GetFanoutsIndices(fanouts) ==
    LET widths == GetFanoutsList(fanouts)
        K      == Len(fanouts)
        D      == SumFunctionOnSet(widths, 0..K-1)
        counts == Repeat(fanouts, [h \in 1..K |-> widths[h - 1]])
        src    == Repeat([q \in 1..D |-> q - 1], counts)
    IN  StackFlat(src)

-----------------------------------------------------------------------------
(***************************************************************************)
(* Reference definitions taken from the layout the sampler emits:          *)
(* positions are laid out hop by hop, and inside a hop the children of     *)
(* parent 0 come first, then those of parent 1, and so on.                 *)
(***************************************************************************)

\* First position of hop h in a row.
Base(fanouts, h) == SumFunctionOnSet(GetFanoutsList(fanouts), 0..h-1)

\* The hop a non-root position p belongs to.
HopOf(fanouts, p) ==
    CHOOSE h \in 1..Len(fanouts) :
        Base(fanouts, h) <= p /\ p < Base(fanouts, h + 1)

\* Position a child at position p was sampled from.
ParentOf(fanouts, p) ==
    LET h == HopOf(fanouts, p)
    IN  Base(fanouts, h - 1) + (p - Base(fanouts, h)) \div fanouts[h]

\* The edge template the layout defines, in child order.
ReferenceIndices(fanouts) ==
    LET E == GetFanoutsDim(fanouts) - 1
    IN  [i \in 0..2 * E - 1 |->
            IF i % 2 = 0 THEN ParentOf(fanouts, i \div 2 + 1) ELSE i \div 2 + 1]

=============================================================================
