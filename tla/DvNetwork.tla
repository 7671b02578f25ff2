----------------------------- MODULE DvNetwork -----------------------------
(***************************************************************************)
(* The routers of a network together. Each holds a routing table and the   *)
(* advertisement it last produced; links fail and come back.               *)
(*                                                                         *)
(* A router is coarser here than in DvRouter, whose invariants justify it: *)
(* its tables agree once its goroutines have run, its routing table        *)
(* depends on the neighbors' advertisements only, and a fetched            *)
(* advertisement is the one last announced. A sync Interest, the fetch it  *)
(* causes and updateRib are one step, which reads the advertisement that   *)
(* the neighbor offers at that time. generate stays a step of its own, so  *)
(* that advertisements lag behind the tables they come from. Sequence      *)
(* numbers are abstracted to what a comparison tells: whether a router has *)
(* processed the latest advertisement of a neighbor.                       *)
(***************************************************************************)
EXTENDS DvRib

CONSTANTS
  Links,       \* the links of the network, as pairs {r, n} of routers
  MaxChanges   \* bound on link failures and repairs

ASSUME LinksAssumption == /\ \A l \in Links : \E r, n \in Routers : r # n /\ l = {r, n}
                          /\ MaxChanges \in Nat

VARIABLES
  up,        \* the links that work
  rib,       \* router -> routing table
  advert,    \* router -> the advertisement it last produced
  heard,     \* router -> the neighbors in its neighbor table
  current,   \* router -> those of them whose latest advertisement it has processed
  pending,   \* the routers with a pending postUpdateRib
  nChanges

vars == <<up, rib, advert, heard, current, pending, nChanges>>

\* The routing table of r changes, which starts a postUpdateRib if it shows.
SetRib(r, new) ==
  /\ rib' = [rib EXCEPT ![r] = new]
  /\ pending' = IF Changed(rib[r], rib'[r]) THEN pending \cup {r} ELSE pending

\* r receives a sync Interest of n that announces something new to it, or n
\* itself.
Learn(r, n) ==
  /\ {r, n} \in up
  /\ n \notin current[r]
  /\ UNCHANGED <<up, advert, nChanges>>
  /\ heard' = [heard EXCEPT ![r] = @ \cup {n}]
  /\ current' = [current EXCEPT ![r] = @ \cup {n}]
  /\ SetRib(r, WithAdvert(rib[r], r, n, advert[n]))

\* r produces a new advertisement, with a new sequence number.
generate(r) ==
  /\ r \in pending
  /\ UNCHANGED <<up, rib, heard, nChanges>>
  /\ pending' = pending \ {r}
  /\ current' = [n \in Routers |-> current[n] \ {r}]
  /\ advert' = [advert EXCEPT ![r] = Advert(rib[r])]

\* The neighbors that r can no longer hear are dead.
checkDeadNeighbors(r) ==
  LET dead == {n \in heard[r] : {r, n} \notin up}
  IN /\ dead # {}
     /\ UNCHANGED <<up, advert, nChanges>>
     /\ heard' = [heard EXCEPT ![r] = @ \ dead]
     /\ current' = [current EXCEPT ![r] = @ \ dead]
     /\ SetRib(r, Prune(RemoveNextHops(rib[r], dead)))

LinkChange(l) ==
  /\ nChanges < MaxChanges
  /\ nChanges' = nChanges + 1
  /\ up' = IF l \in up THEN up \ {l} ELSE up \cup {l}
  /\ UNCHANGED <<rib, advert, heard, current, pending>>

Init ==
  /\ up \in SUBSET Links
  /\ rib = [r \in Routers |-> StartRib(r)]
  /\ advert = [r \in Routers |-> Advert(StartRib(r))]
  /\ heard = [r \in Routers |-> {}]
  /\ current = [r \in Routers |-> {}]
  /\ pending = {}
  /\ nChanges = 0

Next ==
  \/ \E r, n \in Routers : Learn(r, n)
  \/ \E r \in Routers : generate(r)
  \/ \E r \in Routers : checkDeadNeighbors(r)
  \/ \E l \in Links : LinkChange(l)

Spec == Init /\ [][Next]_vars

\* What routers do of themselves. The heartbeat and the dead check tick, so some
\* router acts as long as one has something to do.
Step == \E r \in Routers : \/ \E n \in Routers : Learn(r, n)
                           \/ generate(r)
                           \/ checkDeadNeighbors(r)

FairSpec == Spec /\ WF_vars(Step)
-----------------------------------------------------------------------------
(***************************************************************************)
(* Correctness.                                                            *)
(***************************************************************************)
\* Ball(r, k): the routers within k working links of r.
Ball[k \in 0 .. CostInfinity] ==
  [r \in Routers |-> IF k = 0 THEN {r}
                     ELSE UNION {Ball[k - 1][n] : n \in {m \in Routers : m = r \/ {r, m} \in up}}]

\* The number of working links on a shortest path, or CostInfinity.
Distance(r, d) ==
  IF d \in Ball[CostInfinity - 1][r]
  THEN CHOOSE k \in 0 .. CostInfinity - 1 :
         d \in Ball[k][r] /\ (k > 0 => d \notin Ball[k - 1][r])
  ELSE CostInfinity

\* Nothing is left to do.
Settled == /\ pending = {}
           /\ \A r \in Routers : /\ \A n \in heard[r] : {r, n} \in up
                                 /\ \A n \in Routers : {r, n} \in up => n \in current[r]

\* Every variable holds a value of its type.
TypeOK ==
  /\ up \subseteq Links
  /\ \A r \in Routers : /\ rib[r] \in Rib
                        /\ advert[r] \in Advertisement
                        /\ current[r] \subseteq heard[r]
                        /\ heard[r] \subseteq Routers \ {r}
  /\ pending \subseteq Routers
  /\ nChanges \in 0 .. MaxChanges

\* When the exchange of advertisements comes to rest the routing tables are right:
\* every cost is the length of a shortest path over the links that work, and what
\* cannot be reached is not in the table. Nothing that was learnt before a failure
\* is left, even if routers have it from each other. And following the next hops
\* leads to the destination: each one is strictly nearer, so there is no loop.
\* (The types are checked along with this.)
SettledIsShortest ==
  /\ TypeOK
  /\ Settled => \A r, d \in Routers :
       LET h == rib[r][d].best.nextHop1
       IN /\ rib[r][d].best.lowest1 = Distance(r, d)
          /\ r # d /\ h # 0 => /\ {r, h} \in up
                               /\ rib[h][d].best.lowest1 < rib[r][d].best.lowest1

\* The exchange comes to rest after the last change of a link: counting to
\* infinity ends.
Settles == <>[]Settled
=============================================================================
