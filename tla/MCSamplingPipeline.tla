------------------------ MODULE MCSamplingPipeline ------------------------
EXTENDS SamplingPipeline

\* Three vertices; 0 and 1 point at each other so that samples revisit ids.
MCVertices == {0, 1, 2}
MCNbrs == (0 :> {1, 2}) @@ (1 :> {0, 2}) @@ (2 :> {0})
\* A distinct weight on every edge.
MCEdgeWeight == [e \in Edges |-> 3 * e[1] + e[2] + 1]
MCFanouts == <<2, 1>>

=============================================================================
