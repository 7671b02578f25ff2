--------------------------------- MODULE Rib ---------------------------------
(***************************************************************************)
(* The RIB (rib.go), the management commands and the face table that       *)
(* change it, and the FIB-strategy table it is flattened into, in both     *)
(* implementations side by side.                                           *)
(*                                                                         *)
(* A change of the RIB holds the RIB's lock until the FIB has been         *)
(* rewritten, but the FIB has a lock of its own which it takes once per    *)
(* next hop: threads that look names up see every step in between.  The    *)
(* lock is held while Locked; each step below makes one change of the FIB. *)
(* A face is destroyed by its own goroutine, so its clean-up runs next to  *)
(* the management thread.                                                  *)
(***************************************************************************)
EXTENDS FibTree, FibHashTable, FiniteSets

CONSTANTS Registrations, \* <<name, route>> that get registered; a route is
                        \* [face, origin, cost, inherit, capture]
          FibEdits,     \* <<name, face>> that fib/add and fib/remove name
          ChoiceNames,  \* the names of strategy choices
          LookupNames,  \* the names that are looked up
          MaxRoutes     \* bound on the routes in the RIB

ASSUME RegistrationsAssumption ==
  \A reg \in Registrations : /\ reg = <<reg[1], reg[2]>> /\ reg[1] \in Names
                             /\ reg[2].face \in Faces /\ reg[2].cost \in Costs

ASSUME EditsAssumption ==
  /\ FibEdits \subseteq Names \X Faces /\ ChoiceNames \subseteq Names
  /\ \A n \in LookupNames : IsName(n)

VARIABLES rib,         \* per node of the RIB, its routes in the order of the list
          refresh,     \* nodes whose FIB entries are still to be rewritten
          at,          \* the node being rewritten
          adding,      \* its next hops, <<face, cost>>, still to be inserted
          owner,       \* who holds the lock of the RIB: "nobody", "mgmt" or "face"
          cleanup,     \* [face, todo, scope]: the walk of CleanUpFace
          live,        \* the faces of the face table
          dying,       \* faces out of the table whose clean-up is still to come
          checked,     \* the registration whose face has been checked, or NoRequest
          advertised,  \* <<name, face>> announced to the routing daemon
          tree, hash,  \* the FIB-strategy table, twice
          edited       \* names whose FIB entries were edited after the RIB wrote them

vars == <<rib, refresh, at, adding, owner, cleanup, live, dying, checked, advertised,
          tree, hash, edited>>

NoRequest == <<>>
NoCleanup == [face |-> Ignored, todo |-> {}, scope |-> <<>>]
Client == "client"

Locked == owner # "nobody"
Refreshing == refresh # {} \/ adding # {}

Parent(n) == Pfx(n, Len(n) - 1)
Below(n, S) == {m \in S : IsPrefixOf(n, m)}

Init ==
  /\ rib = [n \in {<<>>} |-> <<>>]
  /\ refresh = {} /\ at = <<>> /\ adding = {}
  /\ owner = "nobody" /\ cleanup = NoCleanup
  /\ live = Faces /\ dying = {} /\ checked = NoRequest /\ advertised = {}
  /\ tree = NewTree(DefaultStrategy)
  /\ hash = NewHashTable(DefaultStrategy)
  /\ edited = {}

-----------------------------------------------------------------------------
\* The RIB's tree.

FillTree(r, name) ==
  LET path == {Pfx(name, k) : k \in 0..Len(name)}
  IN [n \in DOMAIN r \cup path |-> IF n \in DOMAIN r THEN r[n] ELSE <<>>]

\* pruneIfEmpty cuts the node from its parent before it looks further up, so
\* that only the node itself can go.
PruneNode(r, n) ==
  IF n # Root /\ Below(n, DOMAIN r) = {n} /\ r[n] = <<>>
  THEN [m \in DOMAIN r \ {n} |-> r[m]]
  ELSE r

RemoveAt(s, i) == [j \in 1..(Len(s) - 1) |-> IF j < i THEN s[j] ELSE s[j + 1]]

\* The first of the routes for which a position is in S.
First(S) == CHOOSE i \in S : \A j \in S : i <= j

SameRoute(s, rt) == {i \in 1..Len(s) : s[i].face = rt.face /\ s[i].origin = rt.origin}

\* A route that is there already changes its cost and flags, a new one is
\* appended.
WithRoute(s, rt) ==
  IF SameRoute(s, rt) = {} THEN Append(s, rt) ELSE [s EXCEPT ![First(SameRoute(s, rt))] = rt]

Captures(s) == {i \in 1..Len(s) : s[i].capture}

\* What a list passes on to the entries below: its inheritable routes, up to
\* the first that captures.
PassedOn(s) ==
  {s[i] : i \in {j \in 1..Len(s) : s[j].inherit /\ \A k \in Captures(s) : j <= k}}

OwnRoutes(r, n) == {r[n][i] : i \in 1..Len(r[n])}

\* All routes of a node: its own and, unless one of them captures, what it and
\* its ancestors pass on.
AllRoutes(r, n) ==
  OwnRoutes(r, n) \cup
  (IF Captures(r[n]) # {} THEN {} ELSE UNION {PassedOn(r[Pfx(n, k)]) : k \in 0..Len(n)})

\* The cheapest route per face; a node without routes of its own has no next
\* hops, lookups go on to its parent.
MinCostRoutes(r, n) ==
  IF n \notin DOMAIN r THEN {}
  ELSE IF r[n] = <<>> THEN {}
  ELSE LET all == AllRoutes(r, n)
       IN {<<rt.face, rt.cost>> : rt \in
             {x \in all : \A y \in all : y.face = x.face => x.cost <= y.cost}}

-----------------------------------------------------------------------------
\* updateNexthopsEnc, for a node and then for each of its children in any order.

BeginRefresh(r, n) ==
  /\ refresh' = Below(n, DOMAIN r) \cup {n}
  /\ UNCHANGED <<at, adding>>

\* The next node of the walk, which goes depth first: of the nodes whose parent
\* has had its turn, one of the deepest.
NextNodes == LET ready == {n \in refresh : n = Root \/ Parent(n) \notin refresh}
             IN {n \in ready : \A m \in ready : Len(m) <= Len(n)}

\* Mutant: the children of an entry are left alone.
ClearNoChildren(n) ==
  /\ refresh' = {} /\ at' = n /\ adding' = MinCostRoutes(rib, n)
  /\ tree' = TreeClearNextHops(tree, n, n = Root)
  /\ hash' = HashClearNextHops(hash, n)
  /\ edited' = edited \ {n}

\* The FIB entry is emptied.  The root of the RIB has no name at all.
Clear(n) ==
  /\ refresh' = refresh \ {n} /\ at' = n /\ adding' = MinCostRoutes(rib, n)
  /\ tree' = TreeClearNextHops(tree, n, n = Root)
  /\ hash' = HashClearNextHops(hash, n)
  /\ edited' = edited \ {n}

RefreshEntry ==
  /\ adding = {}
  /\ \E n \in NextNodes : Clear(n)
  /\ UNCHANGED <<rib, owner, cleanup, live, dying, checked, advertised>>

InsertHop ==
  \E hop \in adding :
    /\ adding' = adding \ {hop}
    /\ tree' = TreeInsertNextHop(tree, at, hop[1], hop[2])
    /\ hash' = HashInsertNextHop(hash, at, hop[1], hop[2])
    /\ UNCHANGED <<rib, refresh, at, owner, cleanup, live, dying, checked, advertised, edited>>

Unlock ==
  /\ Locked /\ ~Refreshing /\ cleanup.todo = {}
  /\ owner' = "nobody" /\ cleanup' = NoCleanup /\ at' = <<>>
  /\ UNCHANGED <<rib, refresh, adding, live, dying, checked, advertised, tree, hash, edited>>

-----------------------------------------------------------------------------
\* Management.  It handles one command at a time: a command that changes the RIB
\* is over when the lock is released.

MgmtIdle == checked = NoRequest /\ owner # "mgmt"

RouteCount(r) == Cardinality({ni \in (DOMAIN r) \X (1..MaxRoutes) : ni[2] <= Len(r[ni[1]])})

\* rib/register, as far as the look-up of the face.
RegisterCheck ==
  /\ MgmtIdle /\ RouteCount(rib) < MaxRoutes
  /\ \E reg \in Registrations :
       /\ reg[2].face \in live
       /\ checked' = reg
  /\ UNCHANGED <<rib, refresh, at, adding, owner, cleanup, live, dying, advertised,
                 tree, hash, edited>>

\* Announce and Withdraw of the readvertiser: client routes only.
Announce(n, rt) ==
  IF rt.origin = Client THEN advertised \cup {<<n, rt.face>>} ELSE advertised

\* Mutant: the route goes whatever its origin.
WithdrawAny(n, rt) == advertised \ {<<n, rt.face>>}

Withdraw(n, rt) ==
  IF rt.origin = Client THEN advertised \ {<<n, rt.face>>} ELSE advertised

AddEncRoute(n, rt) ==
  LET r == [FillTree(rib, n) EXCEPT ![n] = WithRoute(@, rt)]
  IN rib' = r /\ advertised' = Announce(n, rt) /\ BeginRefresh(r, n)

RegisterAdd ==
  /\ checked # NoRequest /\ ~Locked
  /\ AddEncRoute(checked[1], checked[2])
  /\ owner' = "mgmt" /\ checked' = NoRequest
  /\ UNCHANGED <<cleanup, live, dying, tree, hash, edited>>

\* An entry is rewritten even if it had no such route.
RemoveRouteEnc(n, rt) ==
  LET found == SameRoute(rib[n], rt)
      r == IF found = {} THEN rib ELSE [rib EXCEPT ![n] = RemoveAt(@, First(found))]
  IN /\ rib' = PruneNode(r, n)
     /\ advertised' = IF found = {} THEN advertised ELSE Withdraw(n, rib[n][First(found)])
     /\ BeginRefresh(PruneNode(r, n), n)

\* rib/unregister.
Unregister ==
  /\ MgmtIdle /\ ~Locked
  /\ \E reg \in Registrations : reg[1] \in DOMAIN rib /\ RemoveRouteEnc(reg[1], reg[2])
  /\ owner' = "mgmt"
  /\ UNCHANGED <<cleanup, live, dying, checked, tree, hash, edited>>

\* fib/add and fib/remove.
FibAdd ==
  /\ MgmtIdle
  /\ \E e \in FibEdits, c \in Costs :
       /\ e[2] \in live
       /\ tree' = TreeInsertNextHop(tree, e[1], e[2], c)
       /\ hash' = HashInsertNextHop(hash, e[1], e[2], c)
       /\ edited' = edited \cup {e[1]}
  /\ UNCHANGED <<rib, refresh, at, adding, owner, cleanup, live, dying, checked, advertised>>

FibRemove ==
  /\ MgmtIdle
  /\ \E e \in FibEdits :
       /\ tree' = TreeRemoveNextHop(tree, e[1], e[2])
       /\ hash' = HashRemoveNextHop(hash, e[1], e[2])
       /\ edited' = edited \cup {e[1]}
  /\ UNCHANGED <<rib, refresh, at, adding, owner, cleanup, live, dying, checked, advertised>>

\* strategy-choice/set and unset.
StrategySet ==
  /\ MgmtIdle
  /\ \E n \in ChoiceNames, s \in Strategies :
       /\ tree' = TreeSetStrategy(tree, n, s)
       /\ hash' = HashSetStrategy(hash, n, s)
  /\ UNCHANGED <<rib, refresh, at, adding, owner, cleanup, live, dying, checked, advertised,
                 edited>>

StrategyUnset ==
  /\ MgmtIdle
  /\ \E n \in ChoiceNames \ {<<>>} :
       /\ tree' = TreeUnSetStrategy(tree, n)
       /\ hash' = HashUnSetStrategy(hash, n)
  /\ UNCHANGED <<rib, refresh, at, adding, owner, cleanup, live, dying, checked, advertised,
                 edited>>

-----------------------------------------------------------------------------
\* The face table.  Remove takes the face out, and then waits for the RIB.

FaceRemove ==
  \E f \in live :
    /\ live' = live \ {f} /\ dying' = dying \cup {f}
    /\ UNCHANGED <<rib, refresh, at, adding, owner, cleanup, checked, advertised,
                   tree, hash, edited>>

CleanUpFace ==
  /\ ~Locked
  /\ \E f \in dying :
       /\ dying' = dying \ {f}
       /\ cleanup' = [face |-> f, todo |-> DOMAIN rib, scope |-> <<>>]
  /\ owner' = "face"
  /\ UNCHANGED <<rib, refresh, at, adding, live, checked, advertised, tree, hash, edited>>

\* cleanUpFace visits the children of a node, in any order, and then the node:
\* within the scope, the parent of the last node visited, a node none of whose
\* descendants is left.
CleanUpNodes ==
  {n \in Below(cleanup.scope, cleanup.todo) : Below(n, cleanup.todo) = {n}}

OfFace(s, f) == {i \in 1..Len(s) : s[i].face = f}

\* The first route of the face goes, and if there was one the entries at and
\* below the node are rewritten.
CleanUpEntry ==
  /\ ~Refreshing
  /\ \E n \in CleanUpNodes :
       LET found == OfFace(rib[n], cleanup.face)
           r == [rib EXCEPT ![n] = RemoveAt(@, First(found))]
       IN /\ cleanup' = [cleanup EXCEPT !.todo = @ \ {n},
                                        !.scope = IF n = Root THEN n ELSE Parent(n)]
          /\ IF found = {} THEN UNCHANGED <<rib, advertised, refresh, at, adding>>
             ELSE /\ rib' = PruneNode(r, n)
                  /\ advertised' = Withdraw(n, rib[n][First(found)])
                  /\ BeginRefresh(PruneNode(r, n), n)
  /\ UNCHANGED <<owner, live, dying, checked, tree, hash, edited>>

Next == \/ RefreshEntry \/ InsertHop \/ Unlock
        \/ RegisterCheck \/ RegisterAdd \/ Unregister
        \/ FibAdd \/ FibRemove \/ StrategySet \/ StrategyUnset
        \/ FaceRemove \/ CleanUpFace \/ CleanUpEntry

Spec == Init /\ [][Next]_vars

-----------------------------------------------------------------------------
HopsIn(t) == [n \in Names |-> IF n \in DOMAIN t THEN t[n].hops ELSE NoHops]
ChoicesIn(t) == [n \in Names |-> IF n \in DOMAIN t THEN t[n].strategy ELSE NoStrategy]

InTree == INSTANCE FibStrategy WITH hops <- HopsIn(tree), strat <- ChoicesIn(tree)
InHash == INSTANCE FibStrategy WITH hops <- HopsIn(hash.real), strat <- ChoicesIn(hash.real)

\* Types, and the shape of the tables: the nodes of the RIB and of the FIB tree
\* are closed under prefixes.
TypeOK ==
  /\ DOMAIN rib \subseteq Names /\ DOMAIN tree \subseteq Names /\ DOMAIN hash.real \subseteq Names
  /\ \A n \in DOMAIN rib : \A i \in 1..Len(rib[n]) : <<n, rib[n][i]>> \in Registrations
  /\ \A n \in DOMAIN rib : n # Root => Parent(n) \in DOMAIN rib
  /\ \A n \in DOMAIN tree : n # Root => Parent(n) \in DOMAIN tree
  /\ refresh \subseteq Names /\ at \in Names /\ adding \subseteq Faces \X Costs
  /\ owner \in {"nobody", "mgmt", "face"} /\ cleanup.todo \subseteq DOMAIN rib
  /\ live \subseteq Faces /\ dying \subseteq Faces \ live /\ edited \subseteq Names
  /\ checked = NoRequest \/ checked \in Registrations

\* The name tree implements the FIB-strategy table: every step of the RIB and
\* of management changes at most one prefix's next hops or strategy in it, and
\* what it prunes held nothing (FibStrategyTree).
TreeImplementsFib == InTree!Spec

\* The hash table implements the FIB-strategy table (FibStrategyHashTable).
HashImplementsFib == InHash!Spec

\* Looking a name up, in every state the forwarding threads can see, finds in
\* both tables what the longest prefix with next hops (or with a strategy) has:
\* the tree's walk, and the hash table's probes guided by its virtual entries,
\* miss no entry (FindNextHopsEnc and FindStrategyEnc of both).
LookupIsLongestPrefix ==
  \A n \in LookupNames :
    /\ TreeFindNextHops(tree, n) = InTree!FindNextHops(HopsIn(tree), n)
    /\ TreeFindStrategy(tree, n) = InTree!FindStrategy(ChoicesIn(tree), n)
    /\ HashFindNextHops(hash, n) = InHash!FindNextHops(HopsIn(hash.real), n)
    /\ HashFindStrategy(hash, n) = InHash!FindStrategy(ChoicesIn(hash.real), n)

\* The next hops the RIB stands for.
Flattened(n) == [f \in Faces |-> LET cs == {c \in Costs : <<f, c>> \in MinCostRoutes(rib, n)}
                                 IN IF cs = {} THEN Ignored ELSE CHOOSE c \in cs : TRUE]

\* Once the lock of the RIB is free, the FIB entry of every prefix that has not
\* been edited since is what the RIB says: its own routes and the inherited
\* ones, also after routes further up, or faces, have come and gone
\* (updateNexthopsEnc).  The tree never clears its root.  (The types are checked
\* along with this.)
FibFollowsRib ==
  /\ TypeOK
  /\ ~Locked => \A n \in Names \ edited :
                  /\ HopsIn(hash.real)[n] = Flattened(n)
                  /\ n # Root => HopsIn(tree)[n] = Flattened(n)

\* The routing daemon has been told of exactly the client routes in the RIB
\* (readvertiseAnnounce, readvertiseWithdraw), whichever of the three ways a
\* route came or went.
AdvertisedMatchesRib ==
  advertised = {nf \in Names \X Faces :
                  /\ nf[1] \in DOMAIN rib
                  /\ \E rt \in OwnRoutes(rib, nf[1]) : rt.face = nf[2] /\ rt.origin = Client}
=============================================================================
