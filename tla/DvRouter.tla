----------------------------- MODULE DvRouter ------------------------------
(***************************************************************************)
(* One router of the distance-vector daemon (dv/dv, dv/table): its         *)
(* neighbor table, routing table, forwarding table and advertisement, and  *)
(* the goroutines and timers that keep them in agreement.                  *)
(*                                                                         *)
(* Every handler holds the router's mutex from start to end, and is one    *)
(* action. What a handler leaves to others with `go` or a timer is a       *)
(* pending task, which runs at any later time. A task recomputes its       *)
(* result from the tables it finds, so two pending tasks of the same kind  *)
(* count as one: whichever is last has nothing left to change.             *)
(*                                                                         *)
(* The neighbors are the environment. Published[n] holds, for each time n  *)
(* was started, the advertisements it produces by their sequence numbers,  *)
(* as far as their announcements reach this router. The sync Interests     *)
(* that announce them arrive late, repeatedly, in any order or not at all, *)
(* from any face, and fetches end in any order. The own sequence number is *)
(* left out: only other routers compare it.                                *)
(***************************************************************************)
EXTENDS DvRib

CONSTANTS
  Self,        \* this router
  Neighbors,   \* the routers it has links to
  Faces,       \* the faces of this router, numbers above 0
  LinkFaces,   \* the faces on which each neighbor may be heard
  Published,   \* their advertisements, by boot and sequence number
  PfxNames,    \* the name prefixes that routers announce
  PfxCosts,    \* the costs they announce them at
  MaxEvents,   \* bound on what the environment does
  None         \* what a pointer is when it is nil

ASSUME RouterAssumption ==
  /\ Self \in Routers
  /\ Neighbors \subseteq Routers \ {Self}
  /\ Faces \subseteq Nat \ {0}
  /\ LinkFaces \in [Neighbors -> SUBSET Faces]
  /\ \A n \in Neighbors : \A boot \in DOMAIN Published[n] :
       /\ boot \in Nat /\ DOMAIN Published[n][boot] \subseteq Nat
       /\ \A seq \in DOMAIN Published[n][boot] : Published[n][boot][seq] \in Advertisement
  /\ PfxCosts \subseteq Nat
  /\ MaxEvents \in Nat

VARIABLES
  neighbors,   \* the neighbor table: neighbor -> NeighborState, or None
  rib,         \* the routing table
  advert,      \* the advertisement last produced
  fib,         \* the routes the forwarder was told: name -> face -> cost, or NoRoute
  syncRoutes,  \* the faces with routes for passive sync and the prefix group
  pfx,         \* the prefix table: router -> prefix -> cost, or NoRoute
  pfxSubs,     \* the routers whose prefixes we subscribe to
  timers,      \* the fetches <<neighbor, boot, seq>> that wait for a timer
  inflight,    \* the fetches that were sent and not handled
  ribTasks,    \* the neighbors with a pending updateRib
  tasks,       \* the other pending tasks
  nEvents      \* sync Interests, dead neighbors and prefix operations so far

vars == <<neighbors, rib, advert, fib, syncRoutes, pfx, pfxSubs, timers, inflight,
          ribTasks, tasks, nEvents>>

NoRoute == -1
\* "fib" is a lone updateFib; the others are the steps of postUpdateRib.
Task == {"fib", "updateFib", "generate", "updatePrefixSubs"}

NeighborState == [AdvertBoot : Nat, AdvertSeq : Nat, Advert : Advertisement \cup {None},
                  faceId : Faces \cup {0}, isFaceActive : BOOLEAN]

NewNeighbor == [AdvertBoot |-> 0, AdvertSeq |-> 0, Advert |-> None,
                faceId |-> 0, isFaceActive |-> FALSE]

\* A nil pointer is no advertisement and no neighbor.
ASSUME NilAssumption == None \notin Advertisement /\ None \notin NeighborState

Known == {n \in Neighbors : neighbors[n] # None}

\* Something comes from outside.
Event == nEvents < MaxEvents /\ nEvents' = nEvents + 1
-----------------------------------------------------------------------------
(***************************************************************************)
(* Sync Interests.                                                         *)
(***************************************************************************)
\* A ping on a passive link is ignored once an active one has set the face.
Ignored(ns, active) == ns.isFaceActive /\ ~active

RecvPing(ns, f, active) ==
  IF ~Ignored(ns, active) /\ ns.faceId # f
  THEN [ns EXCEPT !.isFaceActive = active, !.faceId = f]
  ELSE ns

\* Mutant: the routes go with the first neighbor that leaves.
routeUnregisterAlways(M, f) == syncRoutes \ {f}

\* The faces that keep their routes when neighbors M leave face f: the routes
\* go unless another neighbor is on the face.
routeUnregister(M, f) ==
  IF \E n \in Known \ M : neighbors[n].faceId = f THEN syncRoutes ELSE syncRoutes \ {f}

onStateVector(n, boot, seq, f, active) ==
  LET old == IF n \in Known THEN neighbors[n] ELSE NewNeighbor
      pinged == RecvPing(old, f, active)
      known == n \in Known /\ old.AdvertBoot >= boot /\ old.AdvertSeq >= seq
      moved == pinged.faceId # old.faceId
  IN /\ Event
     /\ neighbors' = [neighbors EXCEPT ![n] =
                        IF known THEN pinged
                        ELSE [pinged EXCEPT !.AdvertBoot = boot, !.AdvertSeq = seq]]
     /\ timers' = IF known THEN timers ELSE timers \cup {<<n, boot, seq>>}
     /\ syncRoutes' = IF moved THEN routeUnregister({n}, old.faceId) \cup {f} ELSE syncRoutes
     /\ tasks' = IF moved THEN tasks \cup {"fib"} ELSE tasks
     /\ UNCHANGED <<rib, advert, fib, pfx, pfxSubs, inflight, ribTasks>>
-----------------------------------------------------------------------------
(***************************************************************************)
(* Fetching advertisements.                                                *)
(***************************************************************************)
\* The timer fires: the fetch starts unless the neighbor has moved on.
dataFetch(n, boot, seq) ==
  /\ <<n, boot, seq>> \in timers
  /\ timers' = timers \ {<<n, boot, seq>>}
  /\ inflight' = IF /\ n \in Known
                    /\ neighbors[n].AdvertBoot = boot
                    /\ neighbors[n].AdvertSeq = seq
                 THEN inflight \cup {<<n, boot, seq>>} ELSE inflight
  /\ UNCHANGED <<neighbors, rib, advert, fib, syncRoutes, pfx, pfxSubs, ribTasks, tasks, nEvents>>

\* The fetch fails and is tried again later.
FetchError(n, boot, seq) ==
  /\ <<n, boot, seq>> \in inflight
  /\ inflight' = inflight \ {<<n, boot, seq>>}
  /\ timers' = timers \cup {<<n, boot, seq>>}
  /\ UNCHANGED <<neighbors, rib, advert, fib, syncRoutes, pfx, pfxSubs, ribTasks, tasks, nEvents>>

\* Whether fetched content has the number announced last.
IsLatest(n, boot, seq) == n \in Known /\ neighbors[n].AdvertSeq = seq

\* Fetched content is taken over if it is the latest and parses.
dataHandler(n, boot, seq) ==
  /\ <<n, boot, seq>> \in inflight
  /\ inflight' = inflight \ {<<n, boot, seq>>}
  /\ \/ /\ IsLatest(n, boot, seq)
        /\ neighbors' = [neighbors EXCEPT ![n].Advert = Published[n][boot][seq]]
        /\ ribTasks' = ribTasks \cup {n}
     \/ UNCHANGED <<neighbors, ribTasks>>
  /\ UNCHANGED <<rib, advert, fib, syncRoutes, pfx, pfxSubs, timers, tasks, nEvents>>
-----------------------------------------------------------------------------
(***************************************************************************)
(* The routing table.                                                      *)
(***************************************************************************)
\* A changed table starts a postUpdateRib.
Post(new) == IF Changed(rib, new) THEN tasks \cup {"updateFib"} ELSE tasks

updateRib(n) ==
  /\ n \in ribTasks
  /\ ribTasks' = ribTasks \ {n}
  /\ rib' = WithAdvert(rib, Self, n, neighbors[n].Advert)
  /\ tasks' = Post(rib')
  /\ UNCHANGED <<neighbors, advert, fib, syncRoutes, pfx, pfxSubs, timers, inflight, nEvents>>

\* The neighbors that have not been heard for the dead interval, which may be
\* any, go. An updateRib that is still pending for one of them finds no
\* advertisement and does nothing.
checkDeadNeighbors(dead) ==
  /\ Event
  /\ neighbors' = [n \in Neighbors |-> IF n \in dead THEN None ELSE neighbors[n]]
  /\ syncRoutes' = {f \in syncRoutes :
                     \A n \in dead : f \in routeUnregister(dead, neighbors[n].faceId)}
  /\ ribTasks' = ribTasks \ dead
  /\ rib' = Prune(RemoveNextHops(rib, dead))
  /\ tasks' = Post(rib')
  /\ UNCHANGED <<advert, fib, pfx, pfxSubs, timers, inflight>>
-----------------------------------------------------------------------------
(***************************************************************************)
(* The forwarding table, the advertisement and the prefix table.           *)
(***************************************************************************)
\* The routes that lead to router d, at extra cost c: at most two.
GetFibEntries(d, c) ==
  LET b == rib[d].best
      hops == {<<b.nextHop1, b.lowest1>>, <<b.nextHop2, b.lowest2>>}
  IN {<<neighbors[h[1]].faceId, h[2] + c>> :
        h \in {g \in hops : g[1] \in Known /\ g[2] < CostInfinity}}

Others == Reachable(rib) \ {Self}

\* The routes of a name: the prefix group of a router, or a prefix of several.
RoutesOf(name) ==
  IF name[1] = "router"
  THEN UNION {GetFibEntries(d, 0) : d \in Others \cap {name[2]}}
  ELSE UNION {GetFibEntries(d, pfx[d][name[2]]) : d \in {e \in Others : pfx[e][name[2]] # NoRoute}}

FibNames == ({"router"} \X Routers) \cup ({"prefix"} \X PfxNames)

\* One route for each face, at the lowest cost.
UpdateH(routes) ==
  [f \in Faces |-> LET c == {r[2] : r \in {q \in routes : q[1] = f}}
                   IN IF c = {} THEN NoRoute ELSE Min(c)]

FibOf == [name \in FibNames |-> UpdateH(RoutesOf(name))]

updateFib(t) ==
  /\ t \in tasks \cap {"fib", "updateFib"}
  /\ fib' = FibOf
  /\ tasks' = (tasks \ {t}) \cup (IF t = "updateFib" THEN {"generate"} ELSE {})
  /\ UNCHANGED <<neighbors, rib, advert, syncRoutes, pfx, pfxSubs, timers, inflight, ribTasks, nEvents>>

generate ==
  /\ "generate" \in tasks
  /\ advert' = Advert(rib)
  /\ tasks' = (tasks \ {"generate"}) \cup {"updatePrefixSubs"}
  /\ UNCHANGED <<neighbors, rib, fib, syncRoutes, pfx, pfxSubs, timers, inflight, ribTasks, nEvents>>

updatePrefixSubs ==
  /\ "updatePrefixSubs" \in tasks
  /\ pfxSubs' = Others
  /\ tasks' = tasks \ {"updatePrefixSubs"}
  /\ UNCHANGED <<neighbors, rib, advert, fib, syncRoutes, pfx, timers, inflight, ribTasks, nEvents>>

\* The forms of a list of prefix operations: a reset or a snapshot, an addition
\* and a removal.
PrefixOpAdd(p, c) ==
  [PrefixOpReset |-> FALSE, adds |-> [q \in PfxNames |-> IF q = p THEN c ELSE NoRoute], removes |-> {}]

PrefixOpRemove(p) ==
  [PrefixOpReset |-> FALSE, adds |-> [q \in PfxNames |-> NoRoute], removes |-> {p}]

PrefixOpList ==
  [PrefixOpReset : {TRUE}, adds : [PfxNames -> PfxCosts \cup {NoRoute}], removes : {{}}]
  \cup {PrefixOpAdd(p, c) : p \in PfxNames, c \in PfxCosts}
  \cup {PrefixOpRemove(p) : p \in PfxNames}

\* A subscription delivers a list of operations of router d.
Apply(d, ops) ==
  /\ Event
  /\ d \in pfxSubs
  /\ pfx' = [pfx EXCEPT ![d] = [p \in PfxNames |->
                CASE p \in ops.removes -> NoRoute
                  [] p \notin ops.removes /\ ops.adds[p] # NoRoute -> ops.adds[p]
                  [] OTHER -> IF ops.PrefixOpReset THEN NoRoute ELSE @[p]]]
  /\ tasks' = tasks \cup {"fib"}
  /\ UNCHANGED <<neighbors, rib, advert, fib, syncRoutes, pfxSubs, timers, inflight, ribTasks>>
-----------------------------------------------------------------------------
Init ==
  /\ neighbors = [n \in Neighbors |-> None]
  /\ rib = StartRib(Self)
  /\ advert = Advert(rib)
  /\ fib = [name \in FibNames |-> [f \in Faces |-> NoRoute]]
  /\ syncRoutes = {} /\ pfxSubs = {}
  /\ pfx = [d \in Routers |-> [p \in PfxNames |-> NoRoute]]
  /\ timers = {} /\ inflight = {} /\ ribTasks = {} /\ tasks = {} /\ nEvents = 0

Next ==
  \/ \E n \in Neighbors, active \in BOOLEAN : \E f \in LinkFaces[n] :
       \E boot \in DOMAIN Published[n] : \E seq \in DOMAIN Published[n][boot] :
         onStateVector(n, boot, seq, f, active)
  \/ \E t \in timers : dataFetch(t[1], t[2], t[3])
  \/ \E t \in inflight : FetchError(t[1], t[2], t[3])
  \/ \E t \in inflight : dataHandler(t[1], t[2], t[3])
  \/ \E n \in Neighbors : updateRib(n)
  \/ \E dead \in SUBSET Known \ {{}} : checkDeadNeighbors(dead)
  \/ \E t \in Task : updateFib(t)
  \/ generate
  \/ updatePrefixSubs
  \/ \E d \in Routers, ops \in PrefixOpList : Apply(d, ops)

Spec == Init /\ [][Next]_vars
-----------------------------------------------------------------------------
(***************************************************************************)
(* Correctness.                                                            *)
(***************************************************************************)
\* Every variable holds a value of the type the program declares for it.
TypeOK ==
  /\ \A n \in Neighbors : neighbors[n] # None => neighbors[n] \in NeighborState
  /\ rib \in Rib
  /\ advert \in Advertisement
  /\ \A name \in FibNames, f \in Faces : fib[name][f] \in Nat \cup {NoRoute}
  /\ syncRoutes \subseteq Faces
  /\ pfx \in [Routers -> [PfxNames -> PfxCosts \cup {NoRoute}]]
  /\ pfxSubs \subseteq Routers \ {Self}
  /\ ribTasks \subseteq Known
  /\ tasks \subseteq Task
  /\ nEvents \in 0 .. MaxEvents

\* The routing table is what the neighbors' advertisements make it, whatever the
\* order in which updateRib and checkDeadNeighbors have run: for every neighbor
\* without a pending update its column has the costs that follow from its
\* advertisement, or none if it is not in the neighbor table. An entry's next hops
\* are the best two of its costs: the updates that refresh some entries only leave
\* none stale, and refresh's loop finds them in whatever order it visits the map.
\* (The types are checked along with this.)
RibFollowsAdverts ==
  /\ TypeOK
  /\ \A n \in Neighbors \ ribTasks : \A d \in Routers :
       rib[d].costs[n] = IF n \in Known /\ neighbors[n].Advert # None
                         THEN CostVia(neighbors[n].Advert[d], Self)
                         ELSE CostInfinity
  /\ \A d \in Routers :
       /\ rib[d].best = BestTwo(rib[d].costs)
       /\ \A order \in MapOrders : Loop(rib[d].costs, order) = rib[d].best

\* With no update pending the forwarding table, the advertisement and the
\* subscriptions agree with the routing table, the faces of the neighbors and the
\* prefix table: no change is missed, although each is brought up to date by
\* goroutines that race with further changes.
SettledTablesAgree ==
  /\ tasks \cap {"fib", "updateFib"} = {} => fib = FibOf
  /\ tasks \cap {"updateFib", "generate"} = {} => advert = Advert(rib)
  /\ tasks \cap {"updateFib", "generate", "updatePrefixSubs"} = {} => pfxSubs = Others

\* Passive sync Interests and the prefix group go to exactly the faces on which
\* some neighbor is: two neighbors on one face share the registration, and
\* routeUnregister must keep it until the last has left.
SyncRoutesMatchFaces == syncRoutes = {neighbors[n].faceId : n \in Known}

\* What dataHandler takes over is the advertisement that the neighbor announced
\* last ("Check if this is the latest advertisement", dv/dv/advert_data.go:75).
AdvertIsLatestProp ==
  [][\A n \in Known \cap Known' :
       neighbors'[n].Advert # neighbors[n].Advert =>
         neighbors'[n].Advert = Published[n][neighbors'[n].AdvertBoot][neighbors'[n].AdvertSeq]]_vars
=============================================================================
