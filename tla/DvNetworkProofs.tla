-------------------------- MODULE DvNetworkProofs --------------------------
(***************************************************************************)
(* Any network of routers, with links that fail and come back: when the    *)
(* exchange of advertisements comes to rest, every routing table has the   *)
(* shortest paths over the links that work.                                *)
(***************************************************************************)
EXTENDS DvNetwork, DvRibProofs

\* Zenon first: preparing a leaf for it takes far less than for the SMT solver.
USE ZenonT(5), SMTT(30), ZenonT(60), SMTT(60)

Types ==
  /\ up \subseteq Links
  /\ rib \in [Routers -> Rib] /\ advert \in [Routers -> Advertisement]
  /\ heard \in [Routers -> SUBSET Routers] /\ current \in [Routers -> SUBSET Routers]
  /\ pending \subseteq Routers /\ nChanges \in 0 .. MaxChanges

\* A router is no neighbor of itself, and processes what neighbors say.
Hears == \A r \in Routers : current[r] \subseteq heard[r] /\ r \notin heard[r]

\* The columns of a routing table, and the choices made from them. The column of a
\* neighbor whose latest advertisement is not processed is out of date.
Columns ==
  \A r, d \in Routers :
    /\ rib[r][d].best = BestTwo(rib[r][d].costs)
    /\ rib[r][d].costs[r] = IF d = r THEN 0 ELSE CostInfinity
    /\ \A n \in current[r] : rib[r][d].costs[n] = CostVia(advert[n][d], r)
    /\ \A n \in Routers \ (heard[r] \cup {r}) : rib[r][d].costs[n] = CostInfinity

\* A routing table that its router has not advertised is about to be.
Produced == \A r \in Routers \ pending : advert[r] = Advert(rib[r])

\* The inductive invariant.
IInv == Types /\ Hears /\ Columns /\ Produced
-----------------------------------------------------------------------------
\* What a router advertises is an advertisement.
LEMMA AdvertType == ASSUME NEW t \in Rib PROVE Advert(t) \in Advertisement
BY DEF Rib, RibEntry, Choice, Advert, Advertisement, AdvEntry

\* A link has two ends.
LEMMA LinkEnds == ASSUME Types, NEW r \in Routers, NEW n \in Routers, {r, n} \in up PROVE r # n
<1>1. PICK a \in Routers, b \in Routers : a # b /\ {r, n} = {a, b}
  BY LinksAssumption DEF Types
<1> QED BY <1>1

\* The routing tables are ready to be worked on.
LEMMA Refreshables == ASSUME IInv, NEW r \in Routers PROVE Refreshable(rib[r])
BY DEF IInv, Types, Columns, Refreshable

\* The initial states.
LEMMA Initially == Init => IInv
<1> SUFFICES ASSUME Init PROVE IInv
  OBVIOUS
<1>1. \A r \in Routers : rib[r] = StartRib(r) /\ advert[r] = Advert(rib[r])
  BY DEF Init
<1>2. \A r \in Routers : rib[r] \in Rib /\ advert[r] \in Advertisement
  BY <1>1, StartRibIs, AdvertType
<1>3. Types
  <2>1. MaxChanges \in Nat
    BY LinksAssumption
  <2> QED BY <1>2, <2>1 DEF Init, Types
<1>4. Hears
  BY DEF Init, Hears
<1>5. Columns
  <2>1. ASSUME NEW r \in Routers, NEW d \in Routers
        PROVE  /\ rib[r][d].best = BestTwo(rib[r][d].costs)
               /\ rib[r][d].costs[r] = IF d = r THEN 0 ELSE CostInfinity
               /\ \A n \in Routers \ {r} : rib[r][d].costs[n] = CostInfinity
    BY <1>1, StartRibIs
  <2> QED BY <2>1 DEF Init, Columns
<1>6. Produced
  BY <1>1 DEF Produced
<1> QED BY <1>3, <1>4, <1>5, <1>6 DEF IInv

\* A routing table that does not show a change has the same advertisement.
LEMMA SetRibKeeps ==
  ASSUME IInv, NEW r \in Routers, NEW new \in Rib, SetRib(r, new), advert' = advert
  PROVE  /\ rib' \in [Routers -> Rib] /\ pending' \subseteq Routers
         /\ rib'[r] = new /\ \A s \in Routers \ {r} : rib'[s] = rib[s]
         /\ Produced'
<1>1. rib' = [rib EXCEPT ![r] = new] /\ rib \in [Routers -> Rib] /\ pending \subseteq Routers
  BY DEF SetRib, IInv, Types
<1>2. /\ rib' \in [Routers -> Rib] /\ rib'[r] = new /\ \A s \in Routers \ {r} : rib'[s] = rib[s]
  BY <1>1
<1>3. pending' = IF Changed(rib[r], new) THEN pending \cup {r} ELSE pending
  BY <1>2 DEF SetRib
<1>4. ~Changed(rib[r], new) => Advert(new) = Advert(rib[r])
  BY DEF Changed, Advert
<1>5. Produced'
  BY <1>2, <1>3, <1>4 DEF IInv, Produced
<1> QED BY <1>1, <1>2, <1>3, <1>5

\* A router processes an advertisement.
LEMMA LearnStep == ASSUME IInv, NEW r \in Routers, NEW n \in Routers, Learn(r, n) PROVE IInv'
<1> DEFINE new == WithAdvert(rib[r], r, n, advert[n])
<1>1. /\ {r, n} \in up /\ UNCHANGED <<up, advert, nChanges>> /\ SetRib(r, new)
      /\ heard' = [heard EXCEPT ![r] = @ \cup {n}]
      /\ current' = [current EXCEPT ![r] = @ \cup {n}]
  BY DEF Learn
<1>2. r # n
  BY <1>1, LinkEnds DEF IInv
<1>3. Refreshable(rib[r]) /\ advert[n] \in Advertisement
  BY Refreshables DEF IInv, Types
<1>4. /\ new \in Rib
      /\ \A d \in Routers : /\ new[d].costs[n] = CostVia(advert[n][d], r)
                            /\ \A h \in Routers \ {n} : new[d].costs[h] = rib[r][d].costs[h]
                            /\ new[d].best = BestTwo(new[d].costs)
  <2>1. new \in Rib
    BY <1>3, WithAdvertIs
  <2>2. ASSUME NEW d \in Routers
        PROVE  new[d].costs[n] = CostVia(advert[n][d], r) /\ new[d].best = BestTwo(new[d].costs)
    BY <1>3, WithAdvertIs
  <2>3. ASSUME NEW d \in Routers, NEW h \in Routers \ {n} PROVE new[d].costs[h] = rib[r][d].costs[h]
    BY <1>3, WithAdvertIs
  <2> HIDE DEF new
  <2> QED BY <2>1, <2>2, <2>3
<1> HIDE DEF new
<1>5. /\ rib' \in [Routers -> Rib] /\ pending' \subseteq Routers
      /\ rib'[r] = new /\ \A s \in Routers \ {r} : rib'[s] = rib[s]
      /\ Produced'
  BY <1>1, <1>4, SetRibKeeps
<1>6. /\ heard'[r] = heard[r] \cup {n} /\ \A s \in Routers \ {r} : heard'[s] = heard[s]
      /\ current'[r] = current[r] \cup {n} /\ \A s \in Routers \ {r} : current'[s] = current[s]
  BY <1>1 DEF IInv, Types
<1>7. Types'
  BY <1>1, <1>5 DEF IInv, Types
<1>8. Hears'
  BY <1>2, <1>6 DEF IInv, Hears
<1>9. Columns'
  <2> SUFFICES ASSUME NEW s \in Routers, NEW d \in Routers
               PROVE  /\ rib'[s][d].best = BestTwo(rib'[s][d].costs)
                      /\ rib'[s][d].costs[s] = IF d = s THEN 0 ELSE CostInfinity
                      /\ \A m \in current'[s] : rib'[s][d].costs[m] = CostVia(advert'[m][d], s)
                      /\ \A m \in Routers \ (heard'[s] \cup {s}) : rib'[s][d].costs[m] = CostInfinity
    BY DEF Columns
  <2>1. CASE s # r
    BY <1>1, <1>5, <1>6, <2>1 DEF IInv, Columns
  <2>2. CASE s = r
    <3>1. rib'[s][d].best = BestTwo(rib'[s][d].costs)
      BY <1>4, <1>5, <2>2
    <3>2. rib'[s][d].costs[s] = IF d = s THEN 0 ELSE CostInfinity
      BY <1>2, <1>4, <1>5, <2>2 DEF IInv, Columns
    <3>3. ASSUME NEW m \in current'[s] PROVE rib'[s][d].costs[m] = CostVia(advert'[m][d], s)
      <4>1. CASE m = n
        BY <1>1, <1>4, <1>5, <2>2, <4>1
      <4>2. CASE m # n
        <5>1. m \in current[r] /\ m \in Routers
          BY <1>6, <2>2, <3>3, <4>2 DEF IInv, Types
        <5> QED BY <1>1, <1>4, <1>5, <2>2, <4>2, <5>1 DEF IInv, Columns
      <4> QED BY <4>1, <4>2
    <3>4. ASSUME NEW m \in Routers \ (heard'[s] \cup {s}) PROVE rib'[s][d].costs[m] = CostInfinity
      BY <1>4, <1>5, <1>6, <2>2 DEF IInv, Columns
    <3> QED BY <3>1, <3>2, <3>3, <3>4
  <2> QED BY <2>1, <2>2
<1> QED BY <1>5, <1>7, <1>8, <1>9 DEF IInv

\* A router advertises its routing table: what the others have of it is out of date.
LEMMA generateStep == ASSUME IInv, NEW r \in Routers, generate(r) PROVE IInv'
<1>1. /\ UNCHANGED <<up, rib, heard, nChanges>> /\ pending' = pending \ {r}
      /\ current' = [n \in Routers |-> current[n] \ {r}]
      /\ advert' = [advert EXCEPT ![r] = Advert(rib[r])]
  BY DEF generate
<1>2. Advert(rib[r]) \in Advertisement
  BY AdvertType DEF IInv, Types
<1>3. advert'[r] = Advert(rib[r]) /\ \A s \in Routers \ {r} : advert'[s] = advert[s]
  BY <1>1 DEF IInv, Types
<1>4. Types'
  BY <1>1, <1>2 DEF IInv, Types
<1>5. Hears' /\ Produced'
  BY <1>1, <1>3 DEF IInv, Hears, Produced
<1>6. Columns'
  <2>1. \A s \in Routers : \A n \in current'[s] : n \in current[s] /\ n \in Routers \ {r}
    BY <1>1 DEF IInv, Types
  <2> QED BY <1>1, <1>3, <2>1 DEF IInv, Columns
<1> QED BY <1>4, <1>5, <1>6 DEF IInv

\* A router gives up neighbors.
LEMMA checkDeadNeighborsStep == ASSUME IInv, NEW r \in Routers, checkDeadNeighbors(r) PROVE IInv'
<1> DEFINE dead == {n \in heard[r] : {r, n} \notin up}
           new == Prune(RemoveNextHops(rib[r], dead))
<1>1. /\ UNCHANGED <<up, advert, nChanges>> /\ SetRib(r, new)
      /\ heard' = [heard EXCEPT ![r] = @ \ dead]
      /\ current' = [current EXCEPT ![r] = @ \ dead]
  BY DEF checkDeadNeighbors
<1>2. r \notin dead /\ dead \subseteq heard[r]
  BY DEF IInv, Hears
<1> HIDE DEF dead
<1>3. /\ new \in Rib
      /\ \A d \in Routers :
           /\ \A h \in Routers : new[d].costs[h] = IF h \in dead THEN CostInfinity ELSE rib[r][d].costs[h]
           /\ new[d].best = BestTwo(new[d].costs)
  BY Refreshables, RemoveIs
<1> HIDE DEF new
<1>4. /\ rib' \in [Routers -> Rib] /\ pending' \subseteq Routers
      /\ rib'[r] = new /\ \A s \in Routers \ {r} : rib'[s] = rib[s]
      /\ Produced'
  BY <1>1, <1>3, SetRibKeeps
<1>5. /\ heard'[r] = heard[r] \ dead /\ \A s \in Routers \ {r} : heard'[s] = heard[s]
      /\ current'[r] = current[r] \ dead /\ \A s \in Routers \ {r} : current'[s] = current[s]
  BY <1>1 DEF IInv, Types
<1>6. Types'
  BY <1>1, <1>4 DEF IInv, Types
<1>7. Hears'
  BY <1>5 DEF IInv, Hears
<1>8. Columns'
  <2> SUFFICES ASSUME NEW s \in Routers, NEW d \in Routers
               PROVE  /\ rib'[s][d].best = BestTwo(rib'[s][d].costs)
                      /\ rib'[s][d].costs[s] = IF d = s THEN 0 ELSE CostInfinity
                      /\ \A m \in current'[s] : rib'[s][d].costs[m] = CostVia(advert'[m][d], s)
                      /\ \A m \in Routers \ (heard'[s] \cup {s}) : rib'[s][d].costs[m] = CostInfinity
    BY DEF Columns
  <2>1. CASE s # r
    BY <1>1, <1>4, <1>5, <2>1 DEF IInv, Columns
  <2>2. CASE s = r
    <3>1. rib'[s][d].best = BestTwo(rib'[s][d].costs)
      BY <1>3, <1>4, <2>2
    <3>2. rib'[s][d].costs[s] = IF d = s THEN 0 ELSE CostInfinity
      BY <1>2, <1>3, <1>4, <2>2 DEF IInv, Columns
    <3>3. ASSUME NEW m \in current'[s] PROVE rib'[s][d].costs[m] = CostVia(advert'[m][d], s)
      <4>1. m \in current[r] /\ m \notin dead /\ m \in Routers
        BY <1>5, <2>2, <3>3 DEF IInv, Types
      <4> QED BY <1>1, <1>3, <1>4, <2>2, <4>1 DEF IInv, Columns
    <3>4. ASSUME NEW m \in Routers \ (heard'[s] \cup {s}) PROVE rib'[s][d].costs[m] = CostInfinity
      <4>1. m \in dead \/ m \in Routers \ (heard[r] \cup {r})
        BY <1>5, <2>2, <3>4
      <4> QED BY <1>3, <1>4, <2>2, <4>1 DEF IInv, Columns
    <3> QED BY <3>1, <3>2, <3>3, <3>4
  <2> QED BY <2>1, <2>2
<1> QED BY <1>4, <1>6, <1>7, <1>8 DEF IInv

\* Links fail and come back under the routers' feet.
LEMMA LinkChangeStep == ASSUME IInv, NEW l \in Links, LinkChange(l) PROVE IInv'
<1>1. Types'
  <2>1. MaxChanges \in Nat
    BY LinksAssumption
  <2> QED BY <2>1 DEF LinkChange, IInv, Types
<1> QED BY <1>1 DEF LinkChange, IInv, Hears, Columns, Produced

\* The invariant holds throughout.
THEOREM Invariance == Spec => []IInv
<1>1. ASSUME IInv, [Next]_vars PROVE IInv'
  <2>1. CASE \E r, n \in Routers : Learn(r, n)
    BY <1>1, <2>1, LearnStep
  <2>2. CASE \E r \in Routers : generate(r)
    BY <1>1, <2>2, generateStep
  <2>3. CASE \E r \in Routers : checkDeadNeighbors(r)
    BY <1>1, <2>3, checkDeadNeighborsStep
  <2>4. CASE \E l \in Links : LinkChange(l)
    BY <1>1, <2>4, LinkChangeStep
  <2>5. CASE UNCHANGED vars
    BY <1>1, <2>5 DEF vars, IInv, Types, Hears, Columns, Produced
  <2> QED BY <1>1, <2>1, <2>2, <2>3, <2>4, <2>5 DEF Next
<1> QED BY <1>1, Initially, PTL DEF Spec

-----------------------------------------------------------------------------
(***************************************************************************)
(* Distances.                                                              *)
(***************************************************************************)
Adjacent(r) == {m \in Routers : m = r \/ {r, m} \in up}

\* The routers at the end of a walk of k steps, each over a working link or to the
\* same router.
Walk(p, k) == \A i \in 1 .. k : p[i] \in Adjacent(p[i - 1])
WalkEnds(k, r) == {d \in Routers : \E p \in [0 .. k -> Routers] : p[0] = r /\ p[k] = d /\ Walk(p, k)}

\* A walk of k steps is a step and a walk of k - 1 steps.
LEMMA WalkEndsGrow ==
  ASSUME NEW r \in Routers, NEW k \in Nat
  PROVE  /\ WalkEnds(0, r) = {r}
         /\ k # 0 => WalkEnds(k, r) = UNION {WalkEnds(k - 1, n) : n \in Adjacent(r)}
<1>1. WalkEnds(0, r) = {r}
  <2>1. ASSUME NEW d \in WalkEnds(0, r) PROVE d = r
    BY DEF WalkEnds
  <2>2. r \in WalkEnds(0, r)
    <3> DEFINE p == [i \in 0 .. 0 |-> r]
    <3>1. p \in [0 .. 0 -> Routers] /\ p[0] = r /\ Walk(p, 0)
      BY DEF Walk
    <3> HIDE DEF p
    <3> QED BY <3>1 DEF WalkEnds
  <2> QED BY <2>1, <2>2
<1>2. ASSUME k # 0, NEW d \in WalkEnds(k, r)
      PROVE  \E n \in Adjacent(r) : d \in WalkEnds(k - 1, n)
  <2>1. PICK p \in [0 .. k -> Routers] : p[0] = r /\ p[k] = d /\ Walk(p, k)
    BY DEF WalkEnds
  <2> DEFINE q == [i \in 0 .. k - 1 |-> p[i + 1]]
  <2>2. q \in [0 .. k - 1 -> Routers] /\ q[0] = p[1] /\ q[k - 1] = d
    BY <1>2, <2>1
  <2>3. Walk(q, k - 1)
    <3> SUFFICES ASSUME NEW i \in 1 .. k - 1 PROVE q[i] \in Adjacent(q[i - 1])
      BY DEF Walk
    <3>1. i + 1 \in 1 .. k /\ q[i] = p[i + 1] /\ q[i - 1] = p[(i + 1) - 1]
      BY <1>2
    <3> HIDE DEF q
    <3> QED BY <2>1, <3>1 DEF Walk
  <2>4. p[1] \in Adjacent(r)
    BY <1>2, <2>1 DEF Walk
  <2> HIDE DEF q
  <2> QED BY <2>2, <2>3, <2>4 DEF WalkEnds
<1>3. ASSUME k # 0, NEW n \in Adjacent(r), NEW d \in WalkEnds(k - 1, n) PROVE d \in WalkEnds(k, r)
  <2>1. PICK q \in [0 .. k - 1 -> Routers] : q[0] = n /\ q[k - 1] = d /\ Walk(q, k - 1)
    BY DEF WalkEnds
  <2> DEFINE p == [i \in 0 .. k |-> IF i = 0 THEN r ELSE q[i - 1]]
  <2>2. p \in [0 .. k -> Routers] /\ p[0] = r /\ p[k] = d
    BY <1>3, <2>1
  <2>3. Walk(p, k)
    <3> SUFFICES ASSUME NEW i \in 1 .. k PROVE p[i] \in Adjacent(p[i - 1])
      BY DEF Walk
    <3>1. CASE i = 1
      <4>1. p[i] = n /\ p[i - 1] = r
        BY <1>3, <2>1, <3>1
      <4> HIDE DEF p
      <4> QED BY <4>1
    <3>2. CASE i # 1
      <4>1. i - 1 \in 1 .. k - 1 /\ p[i] = q[i - 1] /\ p[i - 1] = q[(i - 1) - 1]
        BY <1>3, <3>2
      <4> HIDE DEF p
      <4> QED BY <2>1, <4>1 DEF Walk
    <3> QED BY <3>1, <3>2
  <2>4. d \in Routers
    BY DEF WalkEnds
  <2> HIDE DEF p
  <2> QED BY <2>2, <2>3, <2>4 DEF WalkEnds
<1>4. k # 0 => WalkEnds(k, r) = UNION {WalkEnds(k - 1, n) : n \in Adjacent(r)}
  BY <1>2, <1>3
<1> QED BY <1>1, <1>4

\* The recursive definition of Ball has a solution, and so Ball is one.
LEMMA BallIs ==
  /\ \A r \in Routers : Ball[0][r] = {r}
  /\ \A k \in 1 .. CostInfinity, r \in Routers :
       Ball[k][r] = UNION {Ball[k - 1][n] : n \in Adjacent(r)}
<1> DEFINE Grow(b, k) ==
             [r \in Routers |-> IF k = 0 THEN {r}
                                ELSE UNION {b[k - 1][n] : n \in {m \in Routers : m = r \/ {r, m} \in up}}]
           Def(b) == b = [k \in 0 .. CostInfinity |-> Grow(b, k)]
           walks == [k \in 0 .. CostInfinity |-> [r \in Routers |-> WalkEnds(k, r)]]
<1>0. CostInfinity \in Nat
  BY Domains
<1>1. Def(walks)
  <2>1. ASSUME NEW k \in 0 .. CostInfinity PROVE [r \in Routers |-> WalkEnds(k, r)] = Grow(walks, k)
    <3>1. ASSUME NEW r \in Routers PROVE WalkEnds(k, r) = Grow(walks, k)[r]
      <4>1. CASE k = 0
        BY <4>1, WalkEndsGrow
      <4>2. CASE k # 0
        <5>1. k \in Nat /\ k - 1 \in 0 .. CostInfinity /\ Adjacent(r) \subseteq Routers
          BY <1>0, <4>2 DEF Adjacent
        <5>2. WalkEnds(k, r) = UNION {WalkEnds(k - 1, n) : n \in Adjacent(r)}
          BY <4>2, <5>1, WalkEndsGrow
        <5>3. \A n \in Adjacent(r) : walks[k - 1][n] = WalkEnds(k - 1, n)
          BY <5>1
        <5>4. Grow(walks, k)[r] = UNION {walks[k - 1][n] : n \in Adjacent(r)}
          <6> HIDE DEF walks
          <6> QED BY <4>2 DEF Adjacent
        <5> HIDE DEF walks, Grow
        <5> QED BY <5>2, <5>3, <5>4
      <4> QED BY <4>1, <4>2
    <3>2. Grow(walks, k) = [r \in Routers |-> Grow(walks, k)[r]]
      <4> HIDE DEF walks
      <4> QED OBVIOUS
    <3> HIDE DEF Grow, walks
    <3> QED BY <3>1, <3>2
  <2> HIDE DEF Grow
  <2> QED BY <2>1
<1>2. Ball = CHOOSE b : Def(b)
  BY DEF Ball
<1> HIDE DEF walks
<1>3. Def(Ball)
  <2> HIDE DEF Def
  <2> QED BY <1>1, <1>2
<1>4. \A k \in 0 .. CostInfinity : Ball[k] = Grow(Ball, k)
  <2> HIDE DEF Grow
  <2> QED BY <1>3
<1>5. \A r \in Routers : Ball[0][r] = {r}
  <2>1. \A r \in Routers : Grow(Ball, 0)[r] = {r}
    OBVIOUS
  <2> HIDE DEF Grow
  <2>2. Ball[0] = Grow(Ball, 0)
    BY <1>0, <1>4
  <2> QED BY <2>1, <2>2
<1>6. ASSUME NEW k \in 1 .. CostInfinity, NEW r \in Routers
      PROVE  Ball[k][r] = UNION {Ball[k - 1][n] : n \in Adjacent(r)}
  <2>1. k # 0 /\ k \in 0 .. CostInfinity
    BY <1>0
  <2>2. Grow(Ball, k)[r] = UNION {Ball[k - 1][n] : n \in Adjacent(r)}
    BY <2>1 DEF Adjacent
  <2> HIDE DEF Grow
  <2> QED BY <1>4, <2>1, <2>2
<1> QED BY <1>5, <1>6

-----------------------------------------------------------------------------
(***************************************************************************)
(* Networks at rest.                                                       *)
(***************************************************************************)
\* What router r thinks of destination d.
Cost(r, d) == rib[r][d].best.lowest1
NextHop(r, d) == rib[r][d].best.nextHop1

\* The cost of a destination is the least of its costs, that of its next hop.
LEMMA CostIs ==
  ASSUME IInv, NEW r \in Routers, NEW d \in Routers
  PROVE  LET costs == rib[r][d].costs
         IN /\ costs \in [Routers -> Costs]
            /\ Cost(r, d) \in Nat /\ Cost(r, d) <= CostInfinity
            /\ rib[r][d].best.lowest2 \in Nat /\ Cost(r, d) <= rib[r][d].best.lowest2
            /\ \A h \in Routers : Cost(r, d) <= costs[h]
            /\ NextHop(r, d) = 0 => Cost(r, d) = CostInfinity
            /\ NextHop(r, d) # 0 => /\ NextHop(r, d) \in Routers
                                    /\ Cost(r, d) = costs[NextHop(r, d)]
                                    /\ Cost(r, d) < CostInfinity
            /\ costs[r] = IF d = r THEN 0 ELSE CostInfinity
<1> DEFINE costs == rib[r][d].costs
           b == rib[r][d].best
<1>1. costs \in [Routers -> Costs] /\ b \in Choice
  BY DEF IInv, Types, Rib, RibEntry
<1>2. b = BestTwo(costs) /\ costs[r] = IF d = r THEN 0 ELSE CostInfinity
  BY DEF IInv, Columns
<1>3. Cost(r, d) = b.lowest1 /\ NextHop(r, d) = b.nextHop1
  BY DEF Cost, NextHop
<1>4. b.lowest1 \in Costs /\ b.lowest2 \in Costs
  BY <1>1 DEF Choice
<1> HIDE DEF costs, b
<1>5. b.lowest1 \in Nat /\ b.lowest1 <= CostInfinity /\ b.lowest2 \in Nat
  BY <1>4, Domains
<1>6. /\ \A h \in Routers : b.lowest1 <= costs[h]
      /\ b.lowest1 <= b.lowest2
      /\ b.nextHop1 # 0 => /\ b.nextHop1 \in Routers
                           /\ b.lowest1 = costs[b.nextHop1]
                           /\ b.lowest1 < CostInfinity
  BY <1>1, <1>2, BestTwoLeast
<1>7. b.nextHop1 = 0 => b.lowest1 = CostInfinity
  BY <1>1, <1>2, BestTwoIs
<1> QED BY <1>1, <1>2, <1>3, <1>5, <1>6, <1>7 DEF costs, b

\* At rest the cost through another router is one more than that router's, or more
\* if it would come back; and there is none without a link.
LEMMA CostThrough ==
  ASSUME IInv, Settled, NEW r \in Routers, NEW d \in Routers, NEW n \in Routers \ {r}
  PROVE  LET cost == rib[r][d].costs[n]
         IN /\ {r, n} \notin up => cost = CostInfinity
            /\ cost < CostInfinity => cost >= Cost(n, d) + 1
            /\ {r, n} \in up /\ NextHop(n, d) # r => cost <= Cost(n, d) + 1
<1> DEFINE cost == rib[r][d].costs[n]
           e == Advert(rib[n])[d]
           o == rib[n][d].best.lowest2
           said == IF e.nextHop = r THEN e.other ELSE e.cost
<1>0. CostInfinity \in Nat
  BY Domains
<1>1. {r, n} \notin up => cost = CostInfinity
  BY DEF Settled, IInv, Columns
<1>2. ASSUME {r, n} \in up PROVE cost = CostVia(e, r)
  <2>1. n \in current[r] /\ advert[n] = Advert(rib[n])
    BY <1>2 DEF Settled, IInv, Produced
  <2> QED BY <2>1 DEF IInv, Columns
<1>3. e.nextHop = NextHop(n, d) /\ e.cost = Cost(n, d) /\ e.other = o
  BY DEF Advert, NextHop, Cost
<1>4. Cost(n, d) \in Nat /\ o \in Nat /\ Cost(n, d) <= o
  BY CostIs
<1>5. CostVia(e, r) = IF said + 1 < CostInfinity THEN said + 1 ELSE CostInfinity
  BY DEF CostVia
<1>6. said \in Nat /\ said >= Cost(n, d) /\ (NextHop(n, d) # r => said = Cost(n, d))
  <2> HIDE DEF e, o
  <2> QED BY <1>3, <1>4
<1> HIDE DEF cost, said, e
<1>7. cost < CostInfinity => cost >= Cost(n, d) + 1
  BY <1>0, <1>1, <1>2, <1>4, <1>5, <1>6
<1>8. {r, n} \in up /\ NextHop(n, d) # r => cost <= Cost(n, d) + 1
  BY <1>0, <1>2, <1>4, <1>5, <1>6
<1> QED BY <1>1, <1>7, <1>8 DEF cost

\* The next hop is a neighbor that is strictly nearer.
LEMMA NextHopIsNearer ==
  ASSUME IInv, Settled, NEW r \in Routers, NEW d \in Routers,
         NextHop(r, d) # 0, NextHop(r, d) # r
  PROVE  /\ NextHop(r, d) \in Routers /\ {r, NextHop(r, d)} \in up
         /\ Cost(r, d) >= Cost(NextHop(r, d), d) + 1
<1> DEFINE h == NextHop(r, d)
<1>1. /\ h \in Routers \ {r} /\ Cost(r, d) = rib[r][d].costs[h]
      /\ Cost(r, d) < CostInfinity /\ Cost(r, d) \in Nat
  BY CostIs
<1> HIDE DEF h
<1>2. {r, h} \in up /\ rib[r][d].costs[h] >= Cost(h, d) + 1
  <2>1. CostInfinity \in Nat
    BY Domains
  <2> QED BY <1>1, <2>1, CostThrough
<1> QED BY <1>1, <1>2 DEF h

\* Costs differ by at most one over a working link.
LEMMA NeighborCost ==
  ASSUME IInv, Settled, NEW r \in Routers, NEW d \in Routers, NEW n \in Adjacent(r)
  PROVE  Cost(r, d) <= Cost(n, d) + 1
<1>1. n \in Routers /\ (n = r \/ {r, n} \in up)
  BY DEF Adjacent
<1>2. Cost(r, d) \in Nat /\ Cost(n, d) \in Nat
  BY <1>1, CostIs
<1>3. CASE n = r
  BY <1>2, <1>3
<1>4. CASE n # r /\ NextHop(n, d) # r
  <2>1. rib[r][d].costs[n] <= Cost(n, d) + 1
    BY <1>1, <1>4, CostThrough
  <2>2. Cost(r, d) <= rib[r][d].costs[n] /\ rib[r][d].costs[n] \in Nat
    <3>1. Cost(r, d) <= rib[r][d].costs[n] /\ rib[r][d].costs \in [Routers -> Costs]
      BY <1>1, CostIs
    <3>2. rib[r][d].costs[n] \in Costs
      BY <1>1, <3>1
    <3> QED BY <3>1, <3>2, Domains
  <2> QED BY <1>2, <2>1, <2>2
<1>5. CASE n # r /\ NextHop(n, d) = r
  <2>1. r # 0
    BY Domains
  <2>2. Cost(n, d) >= Cost(r, d) + 1
    BY <1>1, <1>5, <2>1, NextHopIsNearer
  <2> QED BY <1>2, <2>2
<1> QED BY <1>3, <1>4, <1>5

\* A router is at no cost from itself, and from itself only.
LEMMA CostOfSelf ==
  ASSUME IInv, Settled, NEW r \in Routers, NEW d \in Routers
  PROVE  /\ Cost(r, d) = 0 <=> r = d
         /\ r # d => NextHop(r, d) # r
<1>0. CostInfinity \in Nat /\ CostInfinity # 0
  BY Domains
<1>1. ASSUME r = d PROVE Cost(r, d) = 0
  <2>1. Cost(r, d) <= rib[r][d].costs[r] /\ rib[r][d].costs[r] = 0 /\ Cost(r, d) \in Nat
    BY <1>1, CostIs
  <2> QED BY <2>1
<1>2. ASSUME r # d PROVE NextHop(r, d) # r
  <2>1. rib[r][d].costs[r] = CostInfinity
    BY <1>2, CostIs
  <2>2. NextHop(r, d) # 0 => /\ Cost(r, d) = rib[r][d].costs[NextHop(r, d)]
                             /\ Cost(r, d) < CostInfinity
    BY CostIs
  <2>3. r # 0
    BY Domains
  <2> QED BY <1>0, <2>1, <2>2, <2>3
<1>3. ASSUME r # d PROVE Cost(r, d) # 0
  <2>1. CASE NextHop(r, d) = 0
    BY <1>0, <2>1, CostIs
  <2>2. CASE NextHop(r, d) # 0
    <3>1. NextHop(r, d) \in Routers /\ Cost(r, d) >= Cost(NextHop(r, d), d) + 1
      BY <1>2, <1>3, <2>2, NextHopIsNearer
    <3>2. Cost(NextHop(r, d), d) \in Nat
      BY <3>1, CostIs
    <3> QED BY <3>1, <3>2
  <2> QED BY <2>1, <2>2
<1> QED BY <1>1, <1>2, <1>3

\* The routers within k links are those at a cost of at most k.
LEMMA CostIsDistance ==
  ASSUME IInv, Settled
  PROVE  \A k \in 0 .. CostInfinity - 1 : \A r, d \in Routers : Cost(r, d) <= k <=> d \in Ball[k][r]
<1> DEFINE S == {k \in Nat : k < CostInfinity => \A r, d \in Routers : Cost(r, d) <= k <=> d \in Ball[k][r]}
<1>0. CostInfinity \in Nat /\ CostInfinity # 0 /\ \A r, d \in Routers : Cost(r, d) \in Nat
  BY Domains, CostIs
<1>1. 0 \in S
  <2>1. \A r, d \in Routers : Cost(r, d) <= 0 <=> d \in Ball[0][r]
    BY <1>0, BallIs, CostOfSelf
  <2> QED BY <2>1
<1>2. ASSUME NEW k \in Nat, k \in S PROVE k + 1 \in S
  <2> SUFFICES ASSUME k + 1 < CostInfinity, NEW r \in Routers, NEW d \in Routers
               PROVE  Cost(r, d) <= k + 1 <=> d \in Ball[k + 1][r]
    OBVIOUS
  <2>1. \A n \in Routers : Cost(n, d) <= k <=> d \in Ball[k][n]
    BY <1>0, <1>2
  <2> HIDE DEF S
  <2>2. Ball[k + 1][r] = UNION {Ball[k][n] : n \in Adjacent(r)}
    <3>1. k + 1 \in 1 .. CostInfinity /\ (k + 1) - 1 = k
      BY <1>0
    <3> QED BY <3>1, BallIs
  <2>3. Adjacent(r) \subseteq Routers /\ r \in Adjacent(r)
    BY DEF Adjacent
  <2>4. ASSUME d \in Ball[k + 1][r] PROVE Cost(r, d) <= k + 1
    <3>1. PICK n \in Adjacent(r) : d \in Ball[k][n]
      BY <2>2, <2>4
    <3>2. Cost(n, d) <= k /\ Cost(n, d) \in Nat /\ Cost(r, d) \in Nat
      BY <1>0, <2>1, <2>3, <3>1
    <3>3. Cost(r, d) <= Cost(n, d) + 1
      BY NeighborCost
    <3> QED BY <3>2, <3>3
  <2>5. ASSUME Cost(r, d) <= k + 1 PROVE d \in Ball[k + 1][r]
    <3>1. CASE r = d
      <4>1. Cost(r, d) <= k
        BY <3>1, CostOfSelf
      <4> QED BY <2>1, <2>2, <2>3, <4>1
    <3>2. CASE r # d
      <4> DEFINE h == NextHop(r, d)
      <4>1. h # 0 /\ h # r
        <5>1. Cost(r, d) # CostInfinity
          BY <1>0, <2>5
        <5> QED BY <3>2, <5>1, CostIs, CostOfSelf
      <4>2. h \in Routers /\ {r, h} \in up /\ Cost(r, d) >= Cost(h, d) + 1
        BY <4>1, NextHopIsNearer
      <4> HIDE DEF h
      <4>3. h \in Adjacent(r)
        BY <4>2 DEF Adjacent
      <4>4. Cost(h, d) <= k
        BY <1>0, <2>5, <4>2
      <4> QED BY <2>1, <2>2, <4>2, <4>3, <4>4
    <3> QED BY <3>1, <3>2
  <2> QED BY <2>4, <2>5
<1> HIDE DEF S
<1>3. Nat \subseteq S
  BY <1>1, <1>2, Induction
<1>4. ASSUME NEW k \in 0 .. CostInfinity - 1
      PROVE  \A r, d \in Routers : Cost(r, d) <= k <=> d \in Ball[k][r]
  <2>1. k \in Nat /\ k < CostInfinity
    BY <1>0
  <2> QED BY <1>3, <2>1 DEF S
<1> QED BY <1>4

\* What Distance chooses is the cost.
LEMMA DistanceIsCost ==
  ASSUME IInv, Settled, NEW r \in Routers, NEW d \in Routers PROVE Distance(r, d) = Cost(r, d)
<1> DEFINE c == Cost(r, d)
           B(k) == d \in Ball[k][r]
           Is(k) == B(k) /\ (k > 0 => ~B(k - 1))
<1>0. CostInfinity \in Nat /\ CostInfinity # 0 /\ c \in Nat /\ c <= CostInfinity
  BY Domains, CostIs
<1>1. \A k \in 0 .. CostInfinity - 1 : c <= k <=> B(k)
  BY CostIsDistance
<1>2. Distance(r, d) = IF B(CostInfinity - 1) THEN CHOOSE k \in 0 .. CostInfinity - 1 : Is(k) ELSE CostInfinity
  BY DEF Distance
<1> HIDE DEF c, B
<1>3. B(CostInfinity - 1) <=> c < CostInfinity
  BY <1>0, <1>1
<1>4. \A k \in 0 .. CostInfinity - 1 : Is(k) <=> k = c
  <2> SUFFICES ASSUME NEW k \in 0 .. CostInfinity - 1 PROVE Is(k) <=> k = c
    OBVIOUS
  <2>1. CASE k = 0
    BY <1>0, <1>1, <2>1
  <2>2. CASE k > 0
    <3>1. k - 1 \in 0 .. CostInfinity - 1 /\ k \in Nat
      BY <1>0, <2>2
    <3>2. (c <= k <=> B(k)) /\ (c <= k - 1 <=> B(k - 1))
      BY <1>1, <3>1
    <3> QED BY <1>0, <2>2, <3>1, <3>2
  <2> QED BY <1>0, <2>1, <2>2
<1> HIDE DEF Is
<1>5. CASE c < CostInfinity
  <2>1. c \in 0 .. CostInfinity - 1
    BY <1>0, <1>5
  <2> QED BY <1>2, <1>3, <1>4, <1>5, <2>1 DEF c
<1>6. CASE ~(c < CostInfinity)
  <2>1. c = CostInfinity
    BY <1>0, <1>6
  <2> QED BY <1>2, <1>3, <1>6, <2>1 DEF c
<1> QED BY <1>5, <1>6

\* When the exchange of advertisements has come to rest, after whatever failures
\* and repairs, the costs are the lengths of the shortest paths over the links that
\* work and every next hop is strictly nearer to the destination: in every network,
\* for every value of CostInfinity.
THEOREM RestIsShortest == Spec => []SettledIsShortest
<1>1. ASSUME IInv PROVE SettledIsShortest
  <2>1. TypeOK
    BY <1>1 DEF IInv, Types, Hears, TypeOK
  <2>2. ASSUME Settled, NEW r \in Routers, NEW d \in Routers
        PROVE  LET h == rib[r][d].best.nextHop1
               IN /\ rib[r][d].best.lowest1 = Distance(r, d)
                  /\ r # d /\ h # 0 => /\ {r, h} \in up
                                       /\ rib[h][d].best.lowest1 < rib[r][d].best.lowest1
    <3>1. Distance(r, d) = Cost(r, d)
      BY <1>1, <2>2, DistanceIsCost
    <3>2. ASSUME r # d, NextHop(r, d) # 0
          PROVE  {r, NextHop(r, d)} \in up /\ Cost(NextHop(r, d), d) < Cost(r, d)
      <4>1. NextHop(r, d) # r
        BY <1>1, <2>2, <3>2, CostOfSelf
      <4>2. /\ NextHop(r, d) \in Routers /\ {r, NextHop(r, d)} \in up
            /\ Cost(r, d) >= Cost(NextHop(r, d), d) + 1
        BY <1>1, <2>2, <3>2, <4>1, NextHopIsNearer
      <4>3. Cost(r, d) \in Nat /\ Cost(NextHop(r, d), d) \in Nat
        BY <1>1, <4>2, CostIs
      <4> QED BY <4>2, <4>3
    <3> QED BY <3>1, <3>2 DEF Cost, NextHop
  <2> QED BY <2>1, <2>2 DEF SettledIsShortest
<1> QED BY <1>1, Invariance, PTL
=============================================================================
