---------------------------- MODULE MCDvNetwork ----------------------------
EXTENDS DvNetwork

\* Router 1 hangs on router 2, which forms a triangle with 3 and 4: when the link
\* to 1 fails the others offer each other routes to it.
MCRouters == 1 .. 4
MCLinks == {{1, 2}, {2, 3}, {3, 4}, {2, 4}}

\* The states in which the routers have settled, with all links working or all
\* but one, reached by rounds in which every router learns from every neighbor.
On(links, r) == {n \in MCRouters : {r, n} \in links}
Ribs[links \in SUBSET MCLinks, k \in 0 .. 4] ==
  [r \in MCRouters |->
     IF k = 0 THEN StartRib(r)
     ELSE FoldSet(LAMBDA n, t : WithAdvert(t, r, n, Advert(Ribs[links, k - 1][n])),
                  Ribs[links, k - 1][r], On(links, r))]
MCInit ==
  /\ up \in {MCLinks} \cup {MCLinks \ {l} : l \in MCLinks}
  /\ rib = Ribs[up, 4]
  /\ advert = [r \in MCRouters |-> Advert(rib[r])]
  /\ heard = [r \in MCRouters |-> On(up, r)]
  /\ current = heard
  /\ pending = {}
  /\ nChanges = 0

MCFairSpec == MCInit /\ [][Next]_vars /\ WF_vars(Step)
=============================================================================
