----------------------- MODULE MCNegativeSampling -----------------------
EXTENDS NegativeSampling

\* Three vertices, no self loops: a vertex is never its own neighbour.
MCVertices == {0, 1, 2}
MCNbrs == (0 :> {1, 2}) @@ (1 :> {0}) @@ (2 :> {0})
\* A distinct weight on every edge.
MCEdgeWeight == [e \in Edges |-> 3 * e[1] + e[2] + 1]
MCFanouts == <<1>>

=============================================================================
