--------------------------- MODULE MCPathDiscovery ---------------------------
(***************************************************************************)
(* Instances of PathDiscovery for TLC.                                     *)
(***************************************************************************)
EXTENDS PathDiscovery

CONSTANTS a, b, c, d

\* Two tiers, and a change of routing in which they change places, the new
\* second one is too expensive to start with, and a face is gone.
MCFib == [f \in {a, b, c} |-> IF f = c THEN 3 ELSE 2]
MCFibMoved == [f \in {a, b} |-> IF f = a THEN 4 ELSE 2]
MCFibs == {MCFib, MCFibMoved}
MCRoles == {"producer", "consumer", "router"}
=============================================================================
