------------------------------- MODULE DvRib -------------------------------
(***************************************************************************)
(* The routing table of the distance-vector daemon (dv/table/rib.go), as   *)
(* operators on its value. Routers are known by the hashes of their names, *)
(* which are ordered numbers; 0 is the hash that no router has.            *)
(*                                                                         *)
(* The table treats a next hop that is missing from an entry's cost map    *)
(* like one of infinite cost, and a destination without an entry like one  *)
(* that no next hop reaches, so both are total functions here.             *)
(***************************************************************************)
EXTENDS Integers, Sequences, FiniteSetsExt, Functions

CONSTANTS
  Routers,        \* the routers of the network
  CostInfinity    \* the cost that means unreachable

ASSUME RibAssumption == /\ Routers \subseteq Nat \ {0}
                        /\ IsFiniteSet(Routers)
                        /\ CostInfinity \in Nat \ {0}

Costs == 0 .. CostInfinity
Hops == Routers \cup {0}

\* The two best next hops of a destination, with their costs.
Choice == [nextHop1 : Hops, lowest1 : Costs, nextHop2 : Hops, lowest2 : Costs]
RibEntry == [costs : [Routers -> Costs], best : Choice, dirty : BOOLEAN]
Rib == [Routers -> RibEntry]

Unreachable == [nextHop1 |-> 0, lowest1 |-> CostInfinity,
                nextHop2 |-> 0, lowest2 |-> CostInfinity]
NoEntry == [costs |-> [h \in Routers |-> CostInfinity], best |-> Unreachable, dirty |-> FALSE]
-----------------------------------------------------------------------------
\* The first of the next hops that reach the destination, in the order of cost
\* and then of hash.
First(costs, hops) ==
  LET reach == {h \in hops : costs[h] < CostInfinity}
  IN IF reach = {} THEN 0
     ELSE CHOOSE h \in reach : \A g \in reach \ {h} :
            costs[h] < costs[g] \/ (costs[h] = costs[g] /\ h < g)

\* The two first of them. This is what refresh's loop over the cost map finds,
\* whatever the order of the map; Loop, below, is the loop itself.
BestTwo(costs) ==
  LET h1 == First(costs, Routers)
      h2 == First(costs, Routers \ {h1})
      Cost(h) == IF h = 0 THEN CostInfinity ELSE costs[h]
  IN [nextHop1 |-> h1, lowest1 |-> Cost(h1), nextHop2 |-> h2, lowest2 |-> Cost(h2)]

refresh(e) == [e EXCEPT !.best = BestTwo(e.costs), !.dirty = FALSE]

RibEntrySet(e, hop, cost) ==
  IF e.costs[hop] # cost THEN refresh([e EXCEPT !.costs[hop] = cost]) ELSE e

DirtyResetNextHop(rib, hop) ==
  [d \in Routers |-> [rib[d] EXCEPT !.costs[hop] = CostInfinity, !.dirty = TRUE]]

\* Removal of the routes of several next hops.
RemoveNextHops(rib, hops) ==
  [d \in Routers |->
     refresh([rib[d] EXCEPT !.costs =
                [h \in Routers |-> IF h \in hops THEN CostInfinity ELSE rib[d].costs[h]]])]

Prune(rib) ==
  LET Refreshed(e) == IF e.dirty THEN refresh(e) ELSE e
      Kept(e) == IF e.best.lowest1 = CostInfinity THEN NoEntry ELSE e
  IN [d \in Routers |-> Kept(Refreshed(rib[d]))]

\* Mutant: only the best next hop counts.
ChangedBestOnly(old, new) ==
  \E d \in Routers : \/ old[d].best.nextHop1 # new[d].best.nextHop1
                     \/ old[d].best.lowest1 # new[d].best.lowest1

\* Mutant: every operation reports a change.
ChangedAlways(old, new) == TRUE

\* Whether one of the operations that led from one table to the other reported
\* a change.
Changed(old, new) == \E d \in Routers : old[d].best # new[d].best

Reachable(rib) == {d \in Routers : rib[d].best.lowest1 < CostInfinity}
-----------------------------------------------------------------------------
\* Advertisements.
AdvEntry == [nextHop : Hops, cost : Costs, other : Costs]
Advertisement == [Routers -> AdvEntry]

Advert(rib) == [d \in Routers |-> [nextHop |-> rib[d].best.nextHop1,
                                   cost |-> rib[d].best.lowest1,
                                   other |-> rib[d].best.lowest2]]

\* The cost of a destination through a neighbor that advertises e: what it
\* says, or its other cost if it would send the packet back to us.
CostVia(e, self) ==
  LET said == IF e.nextHop = self THEN e.other ELSE e.cost
  IN IF said + 1 < CostInfinity THEN said + 1 ELSE CostInfinity

\* Mutant: what the advertisement no longer has is not reset.
WithAdvertNoReset(rib, self, n, advert) ==
  Prune([d \in Routers |-> IF CostVia(advert[d], self) < CostInfinity
                           THEN RibEntrySet(rib[d], n, CostVia(advert[d], self))
                           ELSE rib[d]])

\* The table after a neighbor's advertisement.
WithAdvert(rib, self, n, advert) ==
  LET reset == DirtyResetNextHop(rib, n)
  IN Prune([d \in Routers |->
              IF CostVia(advert[d], self) < CostInfinity
              THEN RibEntrySet(reset[d], n, CostVia(advert[d], self))
              ELSE reset[d]])

\* The table of a router that has just started.
StartRib(self) == [d \in Routers |-> IF d = self THEN RibEntrySet(NoEntry, self, 0) ELSE NoEntry]
-----------------------------------------------------------------------------
\* One turn of refresh's loop over the next hops.
TryHop(costs, b, h) ==
  CASE \/ costs[h] < b.lowest1
       \/ costs[h] = b.lowest1 /\ h < b.nextHop1
         -> [nextHop1 |-> h, lowest1 |-> costs[h], nextHop2 |-> b.nextHop1, lowest2 |-> b.lowest1]
    [] OTHER ->
         IF \/ costs[h] < b.lowest2
            \/ costs[h] = b.lowest2 /\ h < b.nextHop2
         THEN [b EXCEPT !.nextHop2 = h, !.lowest2 = costs[h]]
         ELSE b

\* The loop over the cost map, in one of the orders the map may have: Visit[k] is
\* what it has found after k next hops.
MapOrders == Bijection(1 .. Cardinality(Routers), Routers)
Loop(costs, order) ==
  LET Visit[k \in 0 .. Len(order)] ==
        IF k = 0 THEN Unreachable ELSE TryHop(costs, Visit[k - 1], order[k])
  IN Visit[Len(order)]
=============================================================================
