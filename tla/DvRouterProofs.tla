--------------------------- MODULE DvRouterProofs ---------------------------
(***************************************************************************)
(* One routing daemon with any number of routers, neighbors, faces and     *)
(* prefixes: its tables follow from its neighbors' advertisements and      *)
(* agree with each other, in whatever order its goroutines run.            *)
(***************************************************************************)
EXTENDS DvRouter, DvRibProofs

\* Zenon first: preparing a leaf for it takes far less than for the SMT solver.
USE ZenonT(5), SMTT(30), ZenonT(60), SMTT(60)

-----------------------------------------------------------------------------
\* A fetch <<neighbor, boot, seq>> of something that was announced.
IsFetch(t) == /\ t = <<t[1], t[2], t[3]>> /\ t[1] \in Neighbors
              /\ t[2] \in DOMAIN Published[t[1]] /\ t[3] \in DOMAIN Published[t[1]][t[2]]

Types ==
  /\ neighbors \in [Neighbors -> NeighborState \cup {None}]
  /\ rib \in Rib /\ advert \in Advertisement
  /\ fib \in [FibNames -> [Faces -> Nat \cup {NoRoute}]]
  /\ pfx \in [Routers -> [PfxNames -> PfxCosts \cup {NoRoute}]]
  /\ syncRoutes \subseteq Faces /\ pfxSubs \subseteq Routers \ {Self} /\ tasks \subseteq Task
  /\ nEvents \in 0 .. MaxEvents
  /\ \A t \in timers \cup inflight : IsFetch(t)

\* A neighbor in the table has a face; what is to be merged into the routing
\* table has been fetched.
Heard ==
  /\ \A n \in Known : neighbors[n].faceId \in Faces
  /\ \A n \in ribTasks : n \in Known /\ neighbors[n].Advert # None

\* The columns of the routing table, and the choices made from them.
Columns ==
  /\ \A n \in Neighbors \ ribTasks : \A d \in Routers :
       rib[d].costs[n] = IF n \in Known /\ neighbors[n].Advert # None
                         THEN CostVia(neighbors[n].Advert[d], Self)
                         ELSE CostInfinity
  /\ \A d \in Routers : rib[d].best = BestTwo(rib[d].costs)

\* The inductive invariant.
IInv == Types /\ Heard /\ Columns /\ SettledTablesAgree /\ SyncRoutesMatchFaces

-----------------------------------------------------------------------------
\* The routing table is ready to be worked on.
LEMMA RibRefreshable == ASSUME IInv PROVE Refreshable(rib)
BY DEF IInv, Types, Columns, Refreshable

\* What a router sees of a table, of the neighbors and of the prefixes is all that
\* the forwarding table depends on.
LEMMA FibUnchanged ==
  ASSUME Types, Types', \A d \in Routers : rib'[d].best = rib[d].best, pfx' = pfx,
         \A n \in Known' : n \in Known /\ neighbors'[n].faceId = neighbors[n].faceId,
         \A n \in Known \ Known' : \A d \in Routers :
           /\ rib[d].best.nextHop1 = n => ~(rib[d].best.lowest1 < CostInfinity)
           /\ rib[d].best.nextHop2 = n => ~(rib[d].best.lowest2 < CostInfinity)
  PROVE  FibOf' = FibOf /\ Others' = Others
<1>1. Reachable(rib') = Reachable(rib)
  BY DEF Reachable
<1>2. Others' = Others
  BY <1>1 DEF Others
<1>3. ASSUME NEW d \in Routers, NEW c PROVE GetFibEntries(d, c)' = GetFibEntries(d, c)
  <2> DEFINE b == rib[d].best
             hops == {<<b.nextHop1, b.lowest1>>, <<b.nextHop2, b.lowest2>>}
             use == {g \in hops : g[1] \in Known /\ g[2] < CostInfinity}
             use2 == {g \in hops : g[1] \in Known' /\ g[2] < CostInfinity}
  <2>1. use = use2
    OBVIOUS
  <2>2. \A g \in use : neighbors'[g[1]].faceId = neighbors[g[1]].faceId
    BY <2>1
  <2>3. GetFibEntries(d, c) = {<<neighbors[h[1]].faceId, h[2] + c>> : h \in use}
    BY DEF GetFibEntries
  <2>4. GetFibEntries(d, c)' = {<<neighbors'[h[1]].faceId, h[2] + c>> : h \in use2}
    BY DEF GetFibEntries
  <2> QED BY <2>1, <2>2, <2>3, <2>4
<1>4. ASSUME NEW name \in FibNames PROVE RoutesOf(name)' = RoutesOf(name)
  <2>1. Others \subseteq Routers
    BY DEF Others, Reachable
  <2> DEFINE P == {e \in Others : pfx[e][name[2]] # NoRoute}
             Q == Others \cap {name[2]}
  <2>2. RoutesOf(name) = IF name[1] = "router" THEN UNION {GetFibEntries(d, 0) : d \in Q}
                         ELSE UNION {GetFibEntries(d, pfx[d][name[2]]) : d \in P}
    BY DEF RoutesOf
  <2>3. RoutesOf(name)' = IF name[1] = "router" THEN UNION {GetFibEntries(d, 0)' : d \in Q}
                          ELSE UNION {GetFibEntries(d, pfx[d][name[2]])' : d \in P}
    BY <1>2 DEF RoutesOf
  <2>4. \A d \in Q : GetFibEntries(d, 0)' = GetFibEntries(d, 0)
    BY <1>3, <2>1
  <2>5. ASSUME NEW d \in P
        PROVE  GetFibEntries(d, pfx[d][name[2]])' = GetFibEntries(d, pfx[d][name[2]])
    <3> DEFINE c == pfx[d][name[2]]
    <3>1. GetFibEntries(d, c)' = GetFibEntries(d, c)
      BY <1>3, <2>1
    <3> QED BY <3>1
  <2> HIDE DEF P, Q
  <2> QED BY <2>2, <2>3, <2>4, <2>5
<1>5. FibOf' = FibOf
  BY <1>4 DEF FibOf
<1> QED BY <1>2, <1>5

\* What updateFib tells the forwarder is a cost for each face, or nothing.
LEMMA FibType == ASSUME Types PROVE FibOf \in [FibNames -> [Faces -> Nat \cup {NoRoute}]]
<1>0. PfxCosts \subseteq Nat
  BY RouterAssumption
<1>1. ASSUME NEW d \in Routers, NEW c \in Nat, NEW r \in GetFibEntries(d, c) PROVE r[2] \in Nat
  <2>1. rib[d].best \in Choice
    BY DEF Types, Rib, RibEntry
  <2>2. rib[d].best.lowest1 \in Nat /\ rib[d].best.lowest2 \in Nat
    <3>1. rib[d].best.lowest1 \in Costs /\ rib[d].best.lowest2 \in Costs
      BY <2>1 DEF Choice
    <3> QED BY <3>1, Domains
  <2> QED BY <2>2 DEF GetFibEntries
<1>2. ASSUME NEW name \in FibNames, NEW r \in RoutesOf(name) PROVE r[2] \in Nat
  <2>1. Others \subseteq Routers
    BY DEF Others, Reachable
  <2>2. CASE name[1] = "router"
    <3>1. PICK d \in Others : r \in GetFibEntries(d, 0)
      BY <2>2 DEF RoutesOf
    <3> QED BY <1>1, <2>1, <3>1
  <2>3. CASE name[1] # "router"
    <3>1. PICK d \in Others : pfx[d][name[2]] # NoRoute /\ r \in GetFibEntries(d, pfx[d][name[2]])
      BY <2>3 DEF RoutesOf
    <3>2. name[2] \in PfxNames
      BY <2>3 DEF FibNames
    <3>3. pfx[d][name[2]] \in PfxCosts \cup {NoRoute}
      BY <2>1, <3>2 DEF Types
    <3> QED BY <1>0, <1>1, <2>1, <3>1, <3>3
  <2> QED BY <2>2, <2>3
<1>3. ASSUME NEW name \in FibNames, NEW f \in Faces
      PROVE  UpdateH(RoutesOf(name))[f] \in Nat \cup {NoRoute}
  <2> DEFINE c == {r[2] : r \in {q \in RoutesOf(name) : q[1] = f}}
  <2>1. c \subseteq Nat
    BY <1>2
  <2>2. UpdateH(RoutesOf(name))[f] = IF c = {} THEN NoRoute ELSE Min(c)
    BY DEF UpdateH
  <2> HIDE DEF c
  <2>3. ASSUME c # {} PROVE Min(c) \in c
    <3>1. \E x \in c : \A y \in c : x <= y
      BY <2>1, <2>3, LeastNatural
    <3> QED BY <3>1 DEF Min
  <2> QED BY <2>1, <2>2, <2>3
<1>4. \A name \in FibNames : UpdateH(RoutesOf(name)) \in [Faces -> Nat \cup {NoRoute}]
  <2>1. \A name \in FibNames : UpdateH(RoutesOf(name)) = [f \in Faces |-> UpdateH(RoutesOf(name))[f]]
    BY DEF UpdateH
  <2> QED BY <1>3, <2>1
<1> QED BY <1>4 DEF FibOf

\* The initial state.
LEMMA Initially == Init => IInv
<1> SUFFICES ASSUME Init PROVE IInv
  OBVIOUS
<1>0. Self \in Routers /\ MaxEvents \in Nat
  BY RouterAssumption
<1>1. Known = {}
  BY DEF Init, Known
<1>2. rib \in Rib /\ \A d \in Routers \ {Self} : rib[d] = NoEntry
  BY <1>0, StartRibIs DEF Init
<1>3. \A d \in Routers : /\ rib[d].best = BestTwo(rib[d].costs)
                         /\ \A h \in Routers \ {Self} : rib[d].costs[h] = CostInfinity
  BY <1>0, StartRibIs DEF Init
<1>4. Columns
  BY <1>1, <1>3, RouterAssumption DEF Columns
<1>5. Others = {}
  <2>1. ASSUME NEW d \in Routers \ {Self} PROVE ~(rib[d].best.lowest1 < CostInfinity)
    <3>1. rib[d].best.lowest1 = CostInfinity
      BY <1>2 DEF NoEntry, Unreachable
    <3> QED BY <3>1, Domains
  <2> QED BY <2>1 DEF Others, Reachable
<1>6. FibOf = fib
  <2>1. \A name \in FibNames : RoutesOf(name) = {}
    BY <1>5 DEF RoutesOf
  <2>2. UpdateH({}) = [f \in Faces |-> NoRoute]
    BY DEF UpdateH
  <2> QED BY <2>1, <2>2 DEF Init, FibOf
<1>7. SettledTablesAgree
  BY <1>5, <1>6 DEF Init, SettledTablesAgree
<1>8. advert \in Advertisement
  <2>1. ASSUME NEW d \in Routers
        PROVE  /\ rib[d].best.nextHop1 \in Hops
               /\ rib[d].best.lowest1 \in Costs /\ rib[d].best.lowest2 \in Costs
    <3>1. rib[d].best \in Choice
      BY <1>2 DEF Rib, RibEntry
    <3> QED BY <3>1 DEF Choice
  <2> QED BY <2>1 DEF Init, Advert, Advertisement, AdvEntry
<1>9. Types
  <2>1. /\ neighbors \in [Neighbors -> NeighborState \cup {None}]
        /\ syncRoutes \subseteq Faces /\ pfxSubs \subseteq Routers \ {Self} /\ tasks \subseteq Task
        /\ nEvents \in 0 .. MaxEvents /\ timers \cup inflight = {}
    BY <1>0 DEF Init
  <2>2. fib \in [FibNames -> [Faces -> Nat \cup {NoRoute}]]
    BY DEF Init
  <2>3. pfx \in [Routers -> [PfxNames -> PfxCosts \cup {NoRoute}]]
    BY DEF Init
  <2> QED BY <1>2, <1>8, <2>1, <2>2, <2>3 DEF Types
<1>10. Heard /\ SyncRoutesMatchFaces
  BY <1>1 DEF Init, Heard, SyncRoutesMatchFaces
<1> QED BY <1>4, <1>7, <1>9, <1>10 DEF IInv

-----------------------------------------------------------------------------
\* A sync Interest: a neighbor that moves to another face, and so every one that
\* is new, takes the registration with it and has updateFib run.
LEMMA onStateVectorStep ==
  ASSUME IInv, NEW n \in Neighbors, NEW active \in BOOLEAN, NEW f \in LinkFaces[n],
         NEW boot \in DOMAIN Published[n], NEW seq \in DOMAIN Published[n][boot],
         onStateVector(n, boot, seq, f, active)
  PROVE  IInv'
<1> DEFINE old == IF n \in Known THEN neighbors[n] ELSE NewNeighbor
           pinged == RecvPing(old, f, active)
           known == n \in Known /\ old.AdvertBoot >= boot /\ old.AdvertSeq >= seq
           new == IF known THEN pinged
                  ELSE [pinged EXCEPT !.AdvertBoot = boot, !.AdvertSeq = seq]
           moved == pinged.faceId # old.faceId
<1>0. f \in Faces /\ f # 0 /\ boot \in Nat /\ seq \in Nat /\ n \in Routers /\ 0 \notin Faces
  BY RouterAssumption
<1>1. old \in NeighborState /\ (n \notin Known => old.faceId = 0 /\ old.Advert = None)
  BY DEF IInv, Types, Known, NeighborState, NewNeighbor
<1>2. /\ pinged \in NeighborState /\ pinged.Advert = old.Advert
      /\ pinged.AdvertBoot = old.AdvertBoot /\ pinged.AdvertSeq = old.AdvertSeq
      /\ pinged.faceId = old.faceId \/ pinged.faceId = f
      /\ n \notin Known => pinged.faceId = f
  BY <1>0, <1>1 DEF RecvPing, Ignored, NeighborState, NewNeighbor
<1>3. /\ new \in NeighborState /\ new.Advert = old.Advert /\ new.faceId = pinged.faceId
      /\ known => new.AdvertBoot = old.AdvertBoot /\ new.AdvertSeq = old.AdvertSeq
      /\ ~known => new.AdvertBoot = boot /\ new.AdvertSeq = seq
  <2> HIDE DEF pinged, known
  <2> QED BY <1>0, <1>2 DEF NeighborState
<1>4. /\ neighbors' = [neighbors EXCEPT ![n] = new]
      /\ timers' = IF known THEN timers ELSE timers \cup {<<n, boot, seq>>}
      /\ syncRoutes' = IF moved THEN routeUnregister({n}, old.faceId) \cup {f} ELSE syncRoutes
      /\ tasks' = IF moved THEN tasks \cup {"fib"} ELSE tasks
      /\ UNCHANGED <<rib, advert, fib, pfx, pfxSubs, inflight, ribTasks>>
      /\ nEvents < MaxEvents /\ nEvents' = nEvents + 1
  BY DEF onStateVector, Event
<1>5. n \in Known => old = neighbors[n]
  OBVIOUS
<1>6. known => n \in Known
  OBVIOUS
<1>7. moved <=> pinged.faceId # old.faceId
  OBVIOUS
<1> HIDE DEF old, pinged, known, new, moved
<1>8. /\ Known' = Known \cup {n} /\ neighbors'[n] = new
      /\ \A m \in Neighbors \ {n} : neighbors'[m] = neighbors[m]
  BY <1>3, <1>4, NilAssumption DEF Known, IInv, Types
<1>9. n \notin Known => moved
  BY <1>0, <1>1, <1>2, <1>7
<1>10. Types'
  <2>1. neighbors' \in [Neighbors -> NeighborState \cup {None}]
    BY <1>3, <1>4 DEF IInv, Types
  <2>2. syncRoutes' \subseteq Faces
    BY <1>0, <1>4 DEF IInv, Types, routeUnregister
  <2>3. tasks' \subseteq Task
    BY <1>4 DEF IInv, Types, Task
  <2>4. nEvents' \in 0 .. MaxEvents
    BY <1>4, RouterAssumption DEF IInv, Types
  <2>5. \A t \in (timers \cup inflight)' : IsFetch(t)
    BY <1>4 DEF IInv, Types, IsFetch
  <2> QED BY <1>4, <2>1, <2>2, <2>3, <2>4, <2>5 DEF IInv, Types
<1>11. Heard'
  <2>1. new.faceId \in Faces
    BY <1>0, <1>2, <1>3, <1>5 DEF IInv, Heard
  <2>2. \A m \in Known' : neighbors'[m].faceId \in Faces
    BY <1>8, <2>1 DEF IInv, Heard, Known
  <2>3. \A m \in ribTasks' : m \in Known' /\ neighbors'[m].Advert # None
    BY <1>3, <1>4, <1>5, <1>8 DEF IInv, Heard, Known
  <2> QED BY <2>2, <2>3 DEF Heard
<1>12. Columns'
  <2>1. ASSUME NEW m \in Neighbors
        PROVE  /\ (m \in Known' /\ neighbors'[m].Advert # None)
                    <=> (m \in Known /\ neighbors[m].Advert # None)
               /\ m \in Known /\ neighbors[m].Advert # None => neighbors'[m].Advert = neighbors[m].Advert
    BY <1>1, <1>3, <1>5, <1>8 DEF Known
  <2> QED BY <1>4, <2>1 DEF IInv, Columns
<1>13. SettledTablesAgree'
  <2>1. CASE moved
    <3>1. "fib" \in tasks' /\ (tasks' \cap {"updateFib", "generate", "updatePrefixSubs"} = tasks \cap {"updateFib", "generate", "updatePrefixSubs"})
      BY <1>4, <2>1
    <3>2. Others' = Others
      BY <1>4 DEF Others
    <3> QED BY <1>4, <3>1, <3>2 DEF IInv, SettledTablesAgree
  <2>2. CASE ~moved
    <3>1. n \in Known /\ new.faceId = neighbors[n].faceId
      BY <1>3, <1>5, <1>7, <1>9, <2>2
    <3>2. FibOf' = FibOf /\ Others' = Others
      BY <1>4, <1>8, <1>10, <3>1, FibUnchanged DEF IInv, Known
    <3> QED BY <1>4, <2>2, <3>2 DEF IInv, SettledTablesAgree
  <2> QED BY <2>1, <2>2
<1>14. SyncRoutesMatchFaces'
  <2>1. CASE ~moved
    <3>1. n \in Known /\ new.faceId = neighbors[n].faceId
      BY <1>3, <1>5, <1>7, <1>9, <2>1
    <3> QED BY <1>4, <1>8, <2>1, <3>1 DEF IInv, SyncRoutesMatchFaces, Known
  <2>2. CASE moved
    <3>1. new.faceId = f
      BY <1>2, <1>3, <1>7, <2>2
    <3> DEFINE rest == {neighbors[m].faceId : m \in Known \ {n}}
    <3>2. routeUnregister({n}, old.faceId) = rest
      <4>1. CASE n \in Known
        BY <4>1, <1>5 DEF IInv, SyncRoutesMatchFaces, routeUnregister
      <4>2. CASE n \notin Known
        BY <4>2, <1>0, <1>1 DEF IInv, SyncRoutesMatchFaces, routeUnregister, Heard
      <4> QED BY <4>1, <4>2
    <3>3. {neighbors'[m].faceId : m \in Known'} = rest \cup {f}
      BY <1>8, <3>1 DEF Known
    <3> QED BY <1>4, <2>2, <3>2, <3>3 DEF SyncRoutesMatchFaces
  <2> QED BY <2>1, <2>2
<1> QED BY <1>10, <1>11, <1>12, <1>13, <1>14 DEF IInv

-----------------------------------------------------------------------------
\* The forwarding table depends on the routing table, the faces and the prefixes.
LEMMA SameTables ==
  ASSUME UNCHANGED <<neighbors, rib, pfx>>
  PROVE  Known' = Known /\ FibOf' = FibOf /\ Others' = Others
<1>1. Known' = Known
  BY DEF Known
<1>2. Others' = Others
  BY DEF Others
<1>3. ASSUME NEW d, NEW c PROVE GetFibEntries(d, c)' = GetFibEntries(d, c)
  BY <1>1 DEF GetFibEntries
<1>4. ASSUME NEW name PROVE RoutesOf(name)' = RoutesOf(name)
  BY <1>2, <1>3 DEF RoutesOf
<1>5. FibOf' = FibOf
  BY <1>4 DEF FibOf
<1> QED BY <1>1, <1>2, <1>5

\* A step that only moves fetches about, or drops some.
LEMMA FetchStep ==
  ASSUME IInv, \A t \in timers' \cup inflight' : IsFetch(t),
         UNCHANGED <<neighbors, rib, advert, fib, syncRoutes, pfx, pfxSubs, ribTasks, tasks, nEvents>>
  PROVE  IInv'
<1>0. Known' = Known /\ FibOf' = FibOf /\ Others' = Others
  BY SameTables
<1>1. Types'
  BY DEF IInv, Types
<1>2. Heard' /\ Columns' /\ SyncRoutesMatchFaces'
  BY <1>0 DEF IInv, Heard, Columns, SyncRoutesMatchFaces
<1>3. SettledTablesAgree'
  BY <1>0 DEF IInv, SettledTablesAgree
<1> QED BY <1>1, <1>2, <1>3 DEF IInv

\* The timer of a fetch, which starts it or drops it.
LEMMA dataFetchStep ==
  ASSUME IInv, NEW t \in timers, dataFetch(t[1], t[2], t[3]) PROVE IInv'
<1>1. IsFetch(t) /\ t = <<t[1], t[2], t[3]>>
  BY DEF IInv, Types, IsFetch
<1>2. timers' = timers \ {t} /\ inflight' \subseteq inflight \cup {t}
  BY <1>1 DEF dataFetch
<1>3. \A u \in timers' \cup inflight' : IsFetch(u)
  BY <1>1, <1>2 DEF IInv, Types
<1> QED BY <1>3, FetchStep DEF dataFetch

\* A fetch that fails is tried again.
LEMMA FetchErrorStep ==
  ASSUME IInv, NEW t \in inflight, FetchError(t[1], t[2], t[3]) PROVE IInv'
<1>1. IsFetch(t) /\ t = <<t[1], t[2], t[3]>>
  BY DEF IInv, Types, IsFetch
<1>2. timers' \cup inflight' = timers \cup inflight
  BY <1>1 DEF FetchError
<1>3. \A u \in timers' \cup inflight' : IsFetch(u)
  BY <1>2 DEF IInv, Types
<1> QED BY <1>3, FetchStep DEF FetchError

\* The content of a fetch: it is dropped, or taken over with its merge left pending.
LEMMA dataHandlerStep ==
  ASSUME IInv, NEW t \in inflight, dataHandler(t[1], t[2], t[3]) PROVE IInv'
<1> DEFINE n == t[1]
           adv == Published[t[1]][t[2]][t[3]]
<1>1. /\ IsFetch(t) /\ t = <<t[1], t[2], t[3]>> /\ n \in Neighbors
      /\ t[2] \in DOMAIN Published[n] /\ t[3] \in DOMAIN Published[n][t[2]]
  BY DEF IInv, Types, IsFetch
<1>2. inflight' = inflight \ {t} /\ timers' = timers
      /\ UNCHANGED <<rib, advert, fib, syncRoutes, pfx, pfxSubs, tasks, nEvents>>
  BY <1>1 DEF dataHandler
<1>3. CASE UNCHANGED <<neighbors, ribTasks>>
  <2>1. \A u \in timers' \cup inflight' : IsFetch(u)
    BY <1>2 DEF IInv, Types
  <2> QED BY <1>2, <1>3, <2>1, FetchStep
<1>4. CASE /\ IsLatest(t[1], t[2], t[3])
           /\ neighbors' = [neighbors EXCEPT ![n].Advert = adv]
           /\ ribTasks' = ribTasks \cup {n}
  <2>1. adv \in Advertisement /\ adv # None
    BY <1>1, RouterAssumption, NilAssumption
  <2>2. /\ n \in Known /\ neighbors[n].AdvertSeq = t[3] /\ ribTasks' = ribTasks \cup {n}
        /\ neighbors' = [neighbors EXCEPT ![n].Advert = adv]
    BY <1>4 DEF IsLatest
  <2>3. neighbors[n] \in NeighborState
    BY <2>2 DEF IInv, Types, Known
  <2> DEFINE new == [neighbors[n] EXCEPT !.Advert = adv]
  <2>4. /\ new \in NeighborState /\ new.Advert = adv /\ new.faceId = neighbors[n].faceId
        /\ new.AdvertBoot = neighbors[n].AdvertBoot /\ new.AdvertSeq = neighbors[n].AdvertSeq
    <3> HIDE DEF adv, n
    <3> QED BY <2>1, <2>3 DEF NeighborState
  <2>5. neighbors' = [neighbors EXCEPT ![n] = new]
    BY <2>2
  <2>6. adv = Published[n][t[2]][t[3]]
    OBVIOUS
  <2> HIDE DEF new, adv
  <2>7. /\ Known' = Known /\ neighbors'[n] = new
        /\ \A m \in Neighbors \ {n} : neighbors'[m] = neighbors[m]
    BY <1>1, <2>2, <2>4, <2>5, NilAssumption DEF IInv, Types, Known
  <2> HIDE DEF n
  <2>8. Types'
    <3>1. neighbors' \in [Neighbors -> NeighborState \cup {None}]
      BY <1>1, <2>4, <2>5 DEF IInv, Types
    <3>2. \A u \in (timers \cup inflight)' : IsFetch(u)
      BY <1>2 DEF IInv, Types
    <3> QED BY <1>2, <3>1, <3>2 DEF IInv, Types
  <2>9. \A m \in Known : neighbors'[m].faceId = neighbors[m].faceId
    BY <2>4, <2>7 DEF Known
  <2>10. Heard'
    <3>1. \A m \in Known' : neighbors'[m].faceId \in Faces
      BY <2>7, <2>9 DEF IInv, Heard
    <3>2. \A m \in ribTasks' : m \in Known' /\ neighbors'[m].Advert # None
      BY <2>1, <2>2, <2>4, <2>7 DEF IInv, Heard, Known
    <3> QED BY <3>1, <3>2 DEF Heard
  <2>11. Columns'
    <3>1. \A m \in Neighbors \ ribTasks' : m \in Neighbors \ ribTasks /\ neighbors'[m] = neighbors[m]
      BY <2>2, <2>7
    <3> QED BY <1>2, <2>7, <3>1 DEF IInv, Columns
  <2>12. FibOf' = FibOf /\ Others' = Others
    BY <1>2, <2>7, <2>8, <2>9, FibUnchanged DEF IInv
  <2>13. SettledTablesAgree'
    BY <1>2, <2>12 DEF IInv, SettledTablesAgree
  <2>14. SyncRoutesMatchFaces'
    BY <1>2, <2>7, <2>9 DEF IInv, SyncRoutesMatchFaces
  <2> QED BY <2>8, <2>10, <2>11, <2>13, <2>14 DEF IInv
<1> QED BY <1>3, <1>4 DEF dataHandler

-----------------------------------------------------------------------------
\* The tables that depend on the routing table stay in agreement with it when no
\* operation reports a change, and are brought up to date later when one does.
LEMMA PostStep ==
  ASSUME IInv, Types', rib' \in Rib, tasks' = Post(rib'), UNCHANGED <<advert, fib, pfx, pfxSubs>>,
         \A n \in Known' : n \in Known /\ neighbors'[n].faceId = neighbors[n].faceId,
         \A d \in Routers : rib'[d].best = BestTwo(rib'[d].costs),
         \A n \in Known \ Known' : \A d \in Routers : rib'[d].costs[n] = CostInfinity
  PROVE  SettledTablesAgree'
<1>1. CASE Changed(rib, rib')
  BY <1>1 DEF Post, SettledTablesAgree
<1>2. CASE ~Changed(rib, rib')
  <2>1. \A d \in Routers : rib'[d].best = rib[d].best
    BY <1>2 DEF Changed
  <2>2. Advert(rib') = Advert(rib)
    BY <2>1 DEF Advert
  <2>3. ASSUME NEW n \in Known \ Known', NEW d \in Routers
        PROVE  /\ rib[d].best.nextHop1 = n => ~(rib[d].best.lowest1 < CostInfinity)
               /\ rib[d].best.nextHop2 = n => ~(rib[d].best.lowest2 < CostInfinity)
    <3>1. n \in Routers
      BY RouterAssumption DEF Known
    <3>2. rib'[d].costs \in [Routers -> Costs]
      BY DEF Rib, RibEntry
    <3>3. /\ rib[d].best.nextHop1 = n => rib[d].best.lowest1 = CostInfinity
          /\ rib[d].best.nextHop2 = n => rib[d].best.lowest2 = CostInfinity
      <4> DEFINE costs == rib'[d].costs
      <4>1. rib[d].best = BestTwo(costs) /\ costs[n] = CostInfinity
        BY <2>1
      <4> HIDE DEF costs
      <4> QED BY <3>1, <3>2, <4>1, BestTwoIs DEF costs
    <3>4. ~(CostInfinity < CostInfinity)
      BY Domains
    <3> QED BY <3>3, <3>4
  <2>4. FibOf' = FibOf /\ Others' = Others
    BY <2>1, <2>3, FibUnchanged DEF IInv
  <2> QED BY <1>2, <2>2, <2>4 DEF IInv, Post, SettledTablesAgree
<1> QED BY <1>1, <1>2

\* The merge of an advertisement.
LEMMA updateRibStep == ASSUME IInv, NEW n \in Neighbors, updateRib(n) PROVE IInv'
<1>1. /\ n \in ribTasks /\ ribTasks' = ribTasks \ {n} /\ tasks' = Post(rib')
      /\ rib' = WithAdvert(rib, Self, n, neighbors[n].Advert)
      /\ UNCHANGED <<neighbors, advert, fib, syncRoutes, pfx, pfxSubs, timers, inflight, nEvents>>
  BY DEF updateRib
<1>2. n \in Known /\ neighbors[n].Advert # None /\ neighbors[n].Advert \in Advertisement
  BY <1>1 DEF IInv, Types, Heard, Known, NeighborState
<1>3. n \in Routers /\ Neighbors \subseteq Routers
  BY RouterAssumption
<1>4. /\ rib' \in Rib
      /\ \A d \in Routers : /\ rib'[d].costs[n] = CostVia(neighbors[n].Advert[d], Self)
                            /\ \A h \in Routers \ {n} : rib'[d].costs[h] = rib[d].costs[h]
                            /\ rib'[d].best = BestTwo(rib'[d].costs)
  <2>1. Refreshable(rib) /\ n \in Routers
    BY <1>3, RibRefreshable
  <2>2. PICK adv \in Advertisement : adv = neighbors[n].Advert
    BY <1>2
  <2> DEFINE new == WithAdvert(rib, Self, n, adv)
  <2>3. /\ new \in Rib
        /\ \A d \in Routers : /\ new[d].costs[n] = CostVia(adv[d], Self)
                              /\ \A h \in Routers \ {n} : new[d].costs[h] = rib[d].costs[h]
                              /\ new[d].best = BestTwo(new[d].costs)
    <3>1. new \in Rib
      BY <2>1, WithAdvertIs
    <3>2. ASSUME NEW d \in Routers
          PROVE  new[d].costs[n] = CostVia(adv[d], Self) /\ new[d].best = BestTwo(new[d].costs)
      BY <2>1, WithAdvertIs
    <3>3. ASSUME NEW d \in Routers, NEW h \in Routers \ {n} PROVE new[d].costs[h] = rib[d].costs[h]
      BY <2>1, WithAdvertIs
    <3> HIDE DEF new
    <3> QED BY <3>1, <3>2, <3>3
  <2>4. rib' = new
    BY <1>1, <2>2
  <2> HIDE DEF new
  <2> QED BY <2>2, <2>3, <2>4
<1>5. Known' = Known
  BY <1>1 DEF Known
<1>6. Types'
  <2>1. tasks' \subseteq Task
    BY <1>1 DEF IInv, Types, Post, Task
  <2> QED BY <1>1, <1>4, <2>1 DEF IInv, Types
<1>7. Heard' /\ SyncRoutesMatchFaces'
  BY <1>1, <1>5 DEF IInv, Heard, SyncRoutesMatchFaces
<1>8. Columns'
  <2>1. ASSUME NEW m \in Neighbors \ ribTasks', NEW d \in Routers
        PROVE  rib'[d].costs[m] = IF m \in Known /\ neighbors[m].Advert # None
                                  THEN CostVia(neighbors[m].Advert[d], Self)
                                  ELSE CostInfinity
    <3>1. CASE m = n
      BY <1>2, <1>4, <3>1
    <3>2. CASE m # n
      BY <1>1, <1>3, <1>4, <3>2 DEF IInv, Columns
    <3> QED BY <3>1, <3>2
  <2> QED BY <1>1, <1>4, <1>5, <2>1 DEF Columns
<1>9. SettledTablesAgree'
  BY <1>1, <1>4, <1>5, <1>6, PostStep
<1> QED BY <1>6, <1>7, <1>8, <1>9 DEF IInv

\* The removal of neighbors: a face keeps its registration exactly if a neighbor
\* that stays is on it.
LEMMA checkDeadNeighborsStep ==
  ASSUME IInv, NEW dead \in SUBSET Known, checkDeadNeighbors(dead) PROVE IInv'
<1>1. /\ neighbors' = [n \in Neighbors |-> IF n \in dead THEN None ELSE neighbors[n]]
      /\ syncRoutes' = {f \in syncRoutes :
                     \A n \in dead : f \in routeUnregister(dead, neighbors[n].faceId)}
      /\ ribTasks' = ribTasks \ dead
      /\ rib' = Prune(RemoveNextHops(rib, dead)) /\ tasks' = Post(rib')
      /\ UNCHANGED <<advert, fib, pfx, pfxSubs, timers, inflight>>
      /\ nEvents < MaxEvents /\ nEvents' = nEvents + 1
  BY DEF checkDeadNeighbors, Event
<1>2. Neighbors \subseteq Routers /\ dead \subseteq Routers /\ MaxEvents \in Nat
  BY RouterAssumption DEF Known
<1>3. /\ rib' \in Rib
      /\ \A d \in Routers :
           /\ \A h \in Routers : rib'[d].costs[h] = IF h \in dead THEN CostInfinity ELSE rib[d].costs[h]
           /\ rib'[d].best = BestTwo(rib'[d].costs)
  BY <1>1, RibRefreshable, RemoveIs
<1>4. /\ Known' = Known \ dead
      /\ \A n \in Known' : n \in Known /\ n \in Neighbors /\ neighbors'[n] = neighbors[n]
  BY <1>1 DEF Known
<1>5. Types'
  <2>1. tasks' \subseteq Task
    BY <1>1 DEF IInv, Types, Post, Task
  <2>2. nEvents' \in 0 .. MaxEvents
    BY <1>1, <1>2 DEF IInv, Types
  <2>3. neighbors' \in [Neighbors -> NeighborState \cup {None}] /\ syncRoutes' \subseteq Faces
    BY <1>1 DEF IInv, Types
  <2> QED BY <1>1, <1>3, <2>1, <2>2, <2>3 DEF IInv, Types
<1>6. Heard'
  <2>1. \A n \in ribTasks' : n \in Known'
    BY <1>1, <1>4 DEF IInv, Heard
  <2> QED BY <1>1, <1>4, <2>1 DEF IInv, Heard
<1>7. Columns'
  <2>1. ASSUME NEW m \in Neighbors \ ribTasks', NEW d \in Routers
        PROVE  rib'[d].costs[m] = IF m \in Known' /\ neighbors'[m].Advert # None
                                  THEN CostVia(neighbors'[m].Advert[d], Self)
                                  ELSE CostInfinity
    <3>1. CASE m \in dead
      BY <1>2, <1>3, <1>4, <3>1
    <3>2. CASE m \notin dead
      <4>1. m \in Neighbors \ ribTasks /\ (m \in Known' <=> m \in Known) /\ neighbors'[m] = neighbors[m]
        BY <1>1, <1>4, <3>2
      <4> QED BY <1>2, <1>3, <3>2, <4>1 DEF IInv, Columns
    <3> QED BY <3>1, <3>2
  <2> QED BY <1>3, <2>1 DEF Columns
<1>8. SettledTablesAgree'
  <2>1. \A n \in Known \ Known' : n \in dead /\ n \in Routers
    BY <1>2, <1>4
  <2> QED BY <1>1, <1>3, <1>4, <1>5, <2>1, PostStep
<1>9. SyncRoutesMatchFaces'
  <2> DEFINE rest == {neighbors[n].faceId : n \in Known \ dead}
  <2>1. rest \subseteq syncRoutes'
    BY <1>1 DEF IInv, SyncRoutesMatchFaces, routeUnregister
  <2>2. ASSUME NEW f \in syncRoutes' PROVE f \in rest
    <3>1. PICK n \in Known : f = neighbors[n].faceId
      BY <1>1 DEF IInv, SyncRoutesMatchFaces
    <3>2. n \in dead => f \in routeUnregister(dead, f)
      BY <1>1, <3>1
    <3> QED BY <3>1, <3>2 DEF routeUnregister
  <2>3. rest = {neighbors'[n].faceId : n \in Known'}
    BY <1>4
  <2> QED BY <2>1, <2>2, <2>3 DEF SyncRoutesMatchFaces
<1> QED BY <1>5, <1>6, <1>7, <1>8, <1>9 DEF IInv

-----------------------------------------------------------------------------
\* The types of the tables that follow the routing table.
TablesTyped ==
  /\ advert \in Advertisement /\ fib \in [FibNames -> [Faces -> Nat \cup {NoRoute}]]
  /\ pfx \in [Routers -> [PfxNames -> PfxCosts \cup {NoRoute}]] /\ pfxSubs \subseteq Routers \ {Self}
  /\ tasks \subseteq Task /\ nEvents \in 0 .. MaxEvents

\* A step that only brings a table up to date, or changes the prefixes, keeps the
\* rest of the invariant.
LEMMA TableStep ==
  ASSUME IInv, SettledTablesAgree', TablesTyped',
         UNCHANGED <<neighbors, rib, syncRoutes, timers, inflight, ribTasks>>
  PROVE  IInv'
<1>1. Known' = Known
  BY DEF Known
<1>2. Types'
  BY DEF IInv, Types, TablesTyped
<1>3. Heard' /\ Columns' /\ SyncRoutesMatchFaces'
  BY <1>1 DEF IInv, Heard, Columns, SyncRoutesMatchFaces
<1> QED BY <1>2, <1>3 DEF IInv

\* updateFib: the forwarding table is brought up to date.
LEMMA updateFibStep == ASSUME IInv, NEW t \in Task, updateFib(t) PROVE IInv'
<1>1. FibOf' = FibOf /\ Others' = Others
  BY SameTables DEF updateFib
<1>2. SettledTablesAgree'
  BY <1>1 DEF IInv, SettledTablesAgree, updateFib
<1>3. tasks' \subseteq Task
  BY DEF IInv, Types, updateFib, Task
<1>4. fib' \in [FibNames -> [Faces -> Nat \cup {NoRoute}]]
  BY FibType DEF IInv, updateFib
<1>5. UNCHANGED <<neighbors, rib, advert, syncRoutes, pfx, pfxSubs, timers, inflight, ribTasks, nEvents>>
  BY DEF updateFib
<1>6. TablesTyped'
  BY <1>3, <1>4, <1>5 DEF IInv, Types, TablesTyped
<1> QED BY <1>2, <1>5, <1>6, TableStep

\* generate: the advertisement is brought up to date.
LEMMA generateStep == ASSUME IInv, generate PROVE IInv'
<1>1. FibOf' = FibOf /\ Others' = Others
  BY SameTables DEF generate
<1>2. SettledTablesAgree'
  BY <1>1 DEF IInv, SettledTablesAgree, generate
<1>3. tasks' \subseteq Task
  BY DEF IInv, Types, generate, Task
<1>4. Advert(rib) \in Advertisement
  BY DEF IInv, Types, Rib, RibEntry, Choice, Advert, Advertisement, AdvEntry
<1>5. UNCHANGED <<neighbors, rib, fib, syncRoutes, pfx, pfxSubs, timers, inflight, ribTasks, nEvents>>
  BY DEF generate
<1>6. TablesTyped'
  BY <1>3, <1>4, <1>5 DEF IInv, Types, TablesTyped, generate
<1> QED BY <1>2, <1>5, <1>6, TableStep

\* updatePrefixSubs: the subscriptions are brought up to date.
LEMMA updatePrefixSubsStep == ASSUME IInv, updatePrefixSubs PROVE IInv'
<1>1. FibOf' = FibOf /\ Others' = Others
  BY SameTables DEF updatePrefixSubs
<1>2. SettledTablesAgree'
  BY <1>1 DEF IInv, SettledTablesAgree, updatePrefixSubs
<1>3. tasks' \subseteq Task /\ Others \subseteq Routers \ {Self}
  BY DEF IInv, Types, updatePrefixSubs, Task, Others, Reachable
<1>4. UNCHANGED <<neighbors, rib, advert, fib, syncRoutes, pfx, timers, inflight, ribTasks, nEvents>>
  BY DEF updatePrefixSubs
<1>5. TablesTyped'
  BY <1>3, <1>4 DEF IInv, Types, TablesTyped, updatePrefixSubs
<1> QED BY <1>2, <1>4, <1>5, TableStep

\* Operations on the prefix table leave updateFib pending.
LEMMA ApplyStep ==
  ASSUME IInv, NEW d \in Routers, NEW ops \in PrefixOpList, Apply(d, ops) PROVE IInv'
<1>1. /\ "fib" \in tasks' /\ tasks' \subseteq Task
      /\ tasks' \cap {"updateFib", "generate", "updatePrefixSubs"}
           = tasks \cap {"updateFib", "generate", "updatePrefixSubs"}
  BY DEF IInv, Types, Apply, Task
<1>2. Others' = Others
  BY DEF Apply, Others
<1>3. SettledTablesAgree'
  BY <1>1, <1>2 DEF IInv, SettledTablesAgree, Apply
<1>4. nEvents' \in 0 .. MaxEvents
  <2>1. MaxEvents \in Nat
    BY RouterAssumption
  <2>2. nEvents < MaxEvents /\ nEvents' = nEvents + 1 /\ nEvents \in 0 .. MaxEvents
    BY DEF IInv, Types, Apply, Event
  <2> QED BY <2>1, <2>2
<1>5. ops.adds \in [PfxNames -> PfxCosts \cup {NoRoute}]
  <2>1. \A o \in [PrefixOpReset : {TRUE}, adds : [PfxNames -> PfxCosts \cup {NoRoute}], removes : {{}}] :
          o.adds \in [PfxNames -> PfxCosts \cup {NoRoute}]
    OBVIOUS
  <2>2. \A p \in PfxNames, c \in PfxCosts : PrefixOpAdd(p, c).adds \in [PfxNames -> PfxCosts \cup {NoRoute}]
    BY DEF PrefixOpAdd
  <2>3. \A p \in PfxNames : PrefixOpRemove(p).adds \in [PfxNames -> PfxCosts \cup {NoRoute}]
    BY DEF PrefixOpRemove
  <2> DEFINE snapshots == [PrefixOpReset : {TRUE}, adds : [PfxNames -> PfxCosts \cup {NoRoute}], removes : {{}}]
  <2>4. PrefixOpList = snapshots \cup {PrefixOpAdd(p, c) : p \in PfxNames, c \in PfxCosts}
                                 \cup {PrefixOpRemove(p) : p \in PfxNames}
    BY DEF PrefixOpList
  <2> HIDE DEF snapshots
  <2>5. ops \in snapshots \/ (\E p \in PfxNames, c \in PfxCosts : ops = PrefixOpAdd(p, c))
                         \/ \E p \in PfxNames : ops = PrefixOpRemove(p)
    BY <2>4
  <2> QED BY <2>1, <2>2, <2>3, <2>5 DEF snapshots
<1> DEFINE new == [p \in PfxNames |->
                CASE p \in ops.removes -> NoRoute
                  [] p \notin ops.removes /\ ops.adds[p] # NoRoute -> ops.adds[p]
                  [] OTHER -> IF ops.PrefixOpReset THEN NoRoute ELSE pfx[d][p]]
<1>6. new \in [PfxNames -> PfxCosts \cup {NoRoute}]
  BY <1>5 DEF IInv, Types
<1>7. pfx' = [pfx EXCEPT ![d] = new]
  BY DEF Apply
<1> HIDE DEF new
<1>8. pfx' \in [Routers -> [PfxNames -> PfxCosts \cup {NoRoute}]]
  BY <1>6, <1>7 DEF IInv, Types
<1>9. UNCHANGED <<neighbors, rib, advert, fib, syncRoutes, pfxSubs, timers, inflight, ribTasks>>
  BY DEF Apply
<1>10. TablesTyped'
  BY <1>1, <1>4, <1>8, <1>9 DEF IInv, Types, TablesTyped
<1> QED BY <1>3, <1>9, <1>10, TableStep

-----------------------------------------------------------------------------
\* Every step keeps the invariant.
LEMMA Step == IInv /\ [Next]_vars => IInv'
<1> SUFFICES ASSUME IInv, [Next]_vars PROVE IInv'
  OBVIOUS
<1>1. CASE UNCHANGED vars
  BY <1>1, FetchStep DEF vars, IInv, Types
<1>2. ASSUME NEW n \in Neighbors, NEW active \in BOOLEAN, NEW f \in LinkFaces[n],
             NEW boot \in DOMAIN Published[n], NEW seq \in DOMAIN Published[n][boot],
             onStateVector(n, boot, seq, f, active)
      PROVE  IInv'
  BY <1>2, onStateVectorStep
<1>3. CASE \E t \in timers : dataFetch(t[1], t[2], t[3])
  BY <1>3, dataFetchStep
<1>4. CASE \E t \in inflight : FetchError(t[1], t[2], t[3])
  BY <1>4, FetchErrorStep
<1>5. CASE \E t \in inflight : dataHandler(t[1], t[2], t[3])
  BY <1>5, dataHandlerStep
<1>6. CASE \E n \in Neighbors : updateRib(n)
  BY <1>6, updateRibStep
<1>7. CASE \E dead \in SUBSET Known \ {{}} : checkDeadNeighbors(dead)
  BY <1>7, checkDeadNeighborsStep
<1>8. CASE \E t \in Task : updateFib(t)
  BY <1>8, updateFibStep
<1>9. CASE generate
  BY <1>9, generateStep
<1>10. CASE updatePrefixSubs
  BY <1>10, updatePrefixSubsStep
<1>11. CASE \E d \in Routers, ops \in PrefixOpList : Apply(d, ops)
  BY <1>11, ApplyStep
<1> QED BY <1>1, <1>2, <1>3, <1>4, <1>5, <1>6, <1>7, <1>8, <1>9, <1>10, <1>11 DEF Next

\* The invariant holds throughout.
THEOREM Invariance == Spec => []IInv
BY Initially, Step, PTL DEF Spec

\* The routing table is at all times what the advertisements taken over make it,
\* for any network, any neighbors and any advertisements, in whatever order
\* updateRib, checkDeadNeighbors and dataHandler run; and refresh's loop finds the
\* best two next hops in whatever order it visits the map.
THEOREM RibIsRight == Spec => []RibFollowsAdverts
<1>1. ASSUME IInv PROVE RibFollowsAdverts
  <2>1. TypeOK
    <3>1. ribTasks \subseteq Known
      BY <1>1 DEF IInv, Heard
    <3>2. \A name \in FibNames, f \in Faces : fib[name][f] \in Nat \cup {NoRoute}
      BY <1>1 DEF IInv, Types
    <3> QED BY <1>1, <3>1, <3>2 DEF IInv, Types, TypeOK
  <2>2. \A d \in Routers : \A order \in MapOrders : Loop(rib[d].costs, order) = rib[d].best
    <3>1. \A d \in Routers : rib[d].costs \in [Routers -> Costs]
      BY <1>1 DEF IInv, Types, Rib, RibEntry
    <3>2. \A d \in Routers : rib[d].best = BestTwo(rib[d].costs)
      BY <1>1 DEF IInv, Columns
    <3> QED BY <3>1, <3>2, LoopFindsBest
  <2> QED BY <1>1, <2>1, <2>2 DEF IInv, Columns, RibFollowsAdverts
<1> QED BY <1>1, Invariance, PTL

\* With no update pending the forwarding table, the advertisement and the
\* subscriptions agree with the routing table: the goroutines of postUpdateRib miss
\* no change, however they race.
THEOREM TablesAgree == Spec => []SettledTablesAgree
<1>1. IInv => SettledTablesAgree
  BY DEF IInv
<1> QED BY <1>1, Invariance, PTL

\* The faces with a registration are at all times those on which a neighbor is:
\* routeUnregister keeps what another neighbor still needs and nothing else.
THEOREM RegistrationsAreRight == Spec => []SyncRoutesMatchFaces
<1>1. IInv => SyncRoutesMatchFaces
  BY DEF IInv
<1> QED BY <1>1, Invariance, PTL

=============================================================================
