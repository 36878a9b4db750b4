-------------------------- MODULE MultiHopSampler --------------------------
(***************************************************************************)
(* MultiHopNeighborTransform.sample_multi_hop                              *)
(* (galileo/framework/pytorch/python/transforms/multi_hop.py) and the      *)
(* graph-serving op collect_seq_by_multi_hop it calls.  The op itself is   *)
(* C++ that is not part of this repository: its per-hop behaviour is       *)
(* modelled from the spec (one RPC per hop, fed every parent of the        *)
(* previous hop with duplicates kept, children laid out parent-major, an   *)
(* empty result on failure).                                               *)
(***************************************************************************)
EXTENDS FanoutArithmetic

CONSTANTS
    Vertices,     \* vertex ids (small naturals, ordered like int64 ids)
    Nbrs,         \* Nbrs[v]: the neighbours of v over the metapath's types
    EdgeWeight,   \* EdgeWeight[<<u, v>>]: weight stored on edge u -> v
    RootWeight,   \* weight the op reports at the seed position
    Fanouts,      \* the Fanout Spec
    BatchSize     \* number of seeds per batch

Edges == UNION {{<<u, v>> : v \in Nbrs[u]} : u \in Vertices}

ASSUME /\ Vertices \subseteq Nat
       /\ Nbrs \in [Vertices -> SUBSET Vertices]
       /\ \A v \in Vertices : Nbrs[v] # {}
       /\ EdgeWeight \in [Edges -> Nat]
       /\ Len(Fanouts) >= 1 /\ \A h \in 1..Len(Fanouts) : Fanouts[h] >= 1
       /\ BatchSize >= 1

VARIABLES
    phase,   \* where the current batch is in the pipeline
    seeds,   \* seeds[n]: the n-th seed of the batch
    rows,    \* rows[n][p]: id at position p of the n-th multi-hop row
    wts,     \* wts[n][p]: edge weight reported at that position
    hop      \* next hop the op will request

K      == Len(Fanouts)
Widths == GetFanoutsList(Fanouts)
W      == GetFanoutsDim(Fanouts)
Rows   == 0..BatchSize-1

\* transform(inputs): the seed tensor is flattened and handed to the op,
\* which echoes each seed at position 0 of its row.
StartSampling(batch) ==
    /\ phase = "idle"
    /\ phase' = "sampling"
    /\ seeds' = batch
    /\ rows' = [n \in Rows |-> (0 :> batch[n])]
    /\ wts' = [n \in Rows |-> (0 :> RootWeight)]
    /\ hop' = 1

\* Bug variant: the row keeps only the newly sampled hop.
SampleHopDropsPrefix ==
    /\ phase = "sampling"
    /\ LET f   == Fanouts[hop]
           w   == Widths[hop]
           lo  == Base(Fanouts, hop - 1)
           Parent(n, j) == rows[n][lo + j \div f]
       IN  \E seg \in [Rows -> [0..w-1 -> Vertices]] :
             /\ \A n \in Rows, j \in 0..w-1 : seg[n][j] \in Nbrs[Parent(n, j)]
             /\ rows' = seg
             /\ wts' = [n \in Rows |-> [j \in 0..w-1 |->
                           EdgeWeight[<<Parent(n, j), seg[n][j]>>]]]
    /\ hop' = hop + 1
    /\ phase' = IF hop = K THEN "sampled" ELSE "sampling"
    /\ UNCHANGED seeds

\* One RPC of the op: every position of hop-1 (in every row, duplicates
\* kept) is a parent and gets Fanouts[hop] sampled neighbours, appended
\* parent-major after the positions already filled.
SampleHop ==
    /\ phase = "sampling"
    /\ LET f   == Fanouts[hop]
           w   == Widths[hop]
           lo  == Base(Fanouts, hop - 1)
           old == Base(Fanouts, hop)
           Parent(n, j) == rows[n][lo + j \div f]
       IN  \E seg \in [Rows -> [0..w-1 -> Vertices]] :
             /\ \A n \in Rows, j \in 0..w-1 : seg[n][j] \in Nbrs[Parent(n, j)]
             /\ rows' = [n \in Rows |-> [p \in 0..old+w-1 |->
                           IF p < old THEN rows[n][p] ELSE seg[n][p - old]]]
             /\ wts' = [n \in Rows |-> [p \in 0..old+w-1 |->
                           IF p < old THEN wts[n][p]
                           ELSE EdgeWeight[<<Parent(n, p - old), seg[n][p - old]>>]]]
    /\ hop' = hop + 1
    /\ phase' = IF hop = K THEN "sampled" ELSE "sampling"
    /\ UNCHANGED seeds

\* A hop's RPC returns zero rows: the op returns an empty list and
\* sample_multi_hop raises ValueError, aborting the batch.
HopFails ==
    /\ phase = "sampling"
    /\ phase' = "failed"
    /\ UNCHANGED <<seeds, rows, wts, hop>>

=============================================================================
