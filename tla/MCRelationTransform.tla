------------------------ MODULE MCRelationTransform ------------------------
EXTENDS RelationTransform

\* Every Fanout Spec of 1 to 4 hops with fanouts 1..3 (120 specs).
MCFanoutSpecs == UNION {[1..k -> 1..3] : k \in 1..4}

=============================================================================
