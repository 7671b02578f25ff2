----------------------------- MODULE MCDvRouter -----------------------------
EXTENDS DvRouter, TLC
CONSTANTS p

\* Advertisements of neighbors 2 and 3 of router 1 in a network of three. The
\* first of every router has itself only; the later ones are announced here.
E(hop, cost, other) == [nextHop |-> hop, cost |-> cost, other |-> other]
Nowhere == E(0, CostInfinity, CostInfinity)
Alone(n) == [d \in Routers |-> IF d = n THEN E(n, 0, CostInfinity) ELSE Nowhere]
\* n reaches m directly, and us.
Joined(n, m) == [d \in Routers |-> IF d = n THEN E(n, 0, CostInfinity)
                                   ELSE IF d = m THEN E(m, 1, 2) ELSE E(1, 1, 2)]

MCRouters == 1 .. 3
MCNeighbors == {2, 3}
MCLinkFaces == 2 :> {1, 2} @@ 3 :> {1}
\* Neighbor 2 is started twice, and numbers its advertisements anew.
MCPublished == 2 :> <<2 :> Joined(2, 3) @@ 3 :> Alone(2), 2 :> Alone(2)>> @@ 3 :> <<2 :> Joined(3, 2)>>
=============================================================================
