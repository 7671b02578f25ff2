---------------------------- MODULE DvRibProofs ----------------------------
(***************************************************************************)
(* The operations of the routing table, with any number of routers and any *)
(* costs: the loop of refresh finds the two best next hops in whatever     *)
(* order it visits them, and after each operation the choices are those    *)
(* that the costs call for.                                                *)
(***************************************************************************)
EXTENDS DvRib, FiniteSetTheorems, WellFoundedInduction, TLAPS

\* Zenon first: preparing a leaf for it takes far less than for the SMT solver.
USE ZenonT(5), SMTT(30), ZenonT(60), SMTT(60)

\* Cheaper, or as cheap and with a smaller hash.
Before(costs, h, g) == costs[h] < costs[g] \/ (costs[h] = costs[g] /\ h < g)

Reach(costs, hops) == {h \in hops : costs[h] < CostInfinity}

\* A set of natural numbers has a least element.
LEMMA LeastNatural == ASSUME NEW T, T \subseteq Nat, T # {} PROVE \E x \in T : \A y \in T : x <= y
<1>1. \E x \in T : \A y \in T : <<y, x>> \notin OpToRel(<, Nat)
  BY NatLessThanWellFounded, WFMin
<1>2. \A x, y \in Nat : y < x => <<y, x>> \in OpToRel(<, Nat)
  BY DEF OpToRel
<1>3. \A x, y \in T : x \in Nat /\ y \in Nat /\ (~(y < x) => x <= y)
  OBVIOUS
<1> QED BY <1>1, <1>2, <1>3

\* Induction over the natural numbers, for sets.
LEMMA Induction ==
  ASSUME NEW S, 0 \in S, \A n \in Nat : n \in S => n + 1 \in S PROVE Nat \subseteq S
<1> SUFFICES ASSUME Nat \ S # {} PROVE FALSE
  OBVIOUS
<1>1. PICK x \in Nat \ S : \A y \in Nat \ S : x <= y
  BY LeastNatural
<1>2. x - 1 \in Nat /\ x - 1 \in S /\ (x - 1) + 1 = x
  BY <1>1
<1> QED BY <1>1, <1>2

-----------------------------------------------------------------------------
\* First finds the first next hop that reaches the destination, if there is one.
LEMMA FirstChosen ==
  ASSUME NEW costs \in [Routers -> Costs], NEW hops \in SUBSET Routers
  PROVE  /\ Reach(costs, hops) = {} => First(costs, hops) = 0
         /\ Reach(costs, hops) # {} =>
              /\ First(costs, hops) \in Reach(costs, hops)
              /\ \A g \in Reach(costs, hops) \ {First(costs, hops)} :
                   Before(costs, First(costs, hops), g)
<1> DEFINE reach == Reach(costs, hops)
<1>0. /\ reach \subseteq Routers /\ Routers \subseteq Nat
      /\ \A h \in Routers : costs[h] \in Nat
  <2>1. Routers \subseteq Nat /\ CostInfinity \in Nat
    BY RibAssumption
  <2>2. \A h \in Routers : costs[h] \in Nat
    BY <2>1 DEF Costs
  <2>3. reach \subseteq Routers
    BY DEF Reach
  <2> QED BY <2>1, <2>2, <2>3
<1>1. reach = {} => First(costs, hops) = 0
  BY DEF First, Reach
<1>2. ASSUME reach # {}
      PROVE  \E h \in reach : \A g \in reach \ {h} : Before(costs, h, g)
  <2>1. PICK c \in {costs[h] : h \in reach} : \A d \in {costs[h] : h \in reach} : c <= d
    <3>1. {costs[h] : h \in reach} \subseteq Nat /\ {costs[h] : h \in reach} # {}
      BY <1>0, <1>2
    <3> QED BY <3>1, LeastNatural
  <2>2. PICK h \in {g \in reach : costs[g] = c} : \A g \in {f \in reach : costs[f] = c} : h <= g
    <3>1. {g \in reach : costs[g] = c} \subseteq Nat /\ {g \in reach : costs[g] = c} # {}
      BY <1>0, <2>1
    <3> QED BY <3>1, LeastNatural
  <2>3. \A g \in reach \ {h} : Before(costs, h, g)
    BY <1>0, <2>1, <2>2 DEF Before
  <2> QED BY <2>2, <2>3
<1>3. reach # {} =>
        First(costs, hops) = CHOOSE h \in reach : \A g \in reach \ {h} : Before(costs, h, g)
  BY DEF First, Reach, Before
<1>4. reach # {} =>
        /\ First(costs, hops) \in reach
        /\ \A g \in reach \ {First(costs, hops)} : Before(costs, First(costs, hops), g)
  BY <1>2, <1>3
<1> QED BY <1>1, <1>4

\* There is one first next hop only.
LEMMA FirstUnique ==
  ASSUME NEW costs \in [Routers -> Costs], NEW hops \in SUBSET Routers,
         NEW h \in Reach(costs, hops), \A g \in Reach(costs, hops) \ {h} : Before(costs, h, g)
  PROVE  First(costs, hops) = h
<1>1. \A g \in Reach(costs, hops) : g \in Nat /\ costs[g] \in Nat
  BY RibAssumption DEF Reach, Costs
<1> QED BY <1>1, FirstChosen DEF Before

\* The two best of some next hops.
BestOf(costs, hops) ==
  LET h1 == First(costs, hops)
      h2 == First(costs, hops \ {h1})
      Cost(h) == IF h = 0 THEN CostInfinity ELSE costs[h]
  IN [nextHop1 |-> h1, lowest1 |-> Cost(h1), nextHop2 |-> h2, lowest2 |-> Cost(h2)]

\* What they are: no next hop has an infinite cost, and no other is before them.
LEMMA BestOfIs ==
  ASSUME NEW costs \in [Routers -> Costs], NEW hops \in SUBSET Routers
  PROVE  LET b == BestOf(costs, hops)
             rest == hops \ {b.nextHop1}
         IN /\ b \in Choice
            /\ b.nextHop1 = 0 => b.lowest1 = CostInfinity /\ Reach(costs, hops) = {}
            /\ b.nextHop1 # 0 => /\ b.nextHop1 \in Reach(costs, hops)
                                 /\ b.lowest1 = costs[b.nextHop1]
                                 /\ b.lowest1 < CostInfinity
            /\ b.nextHop2 = 0 => b.lowest2 = CostInfinity /\ Reach(costs, rest) = {}
            /\ b.nextHop2 # 0 => /\ b.nextHop2 \in Reach(costs, rest)
                                 /\ b.lowest2 = costs[b.nextHop2]
                                 /\ b.lowest2 < CostInfinity
            /\ b.nextHop1 = First(costs, hops) /\ b.nextHop2 = First(costs, rest)
<1> DEFINE h1 == First(costs, hops)
           h2 == First(costs, hops \ {h1})
           b == BestOf(costs, hops)
<1>0. 0 \notin Routers /\ CostInfinity \in Costs /\ CostInfinity \in Nat
  BY RibAssumption DEF Costs
<1>1. IF h1 = 0 THEN Reach(costs, hops) = {} ELSE h1 \in Reach(costs, hops)
  BY <1>0, FirstChosen DEF Reach
<1>2. IF h2 = 0 THEN Reach(costs, hops \ {h1}) = {} ELSE h2 \in Reach(costs, hops \ {h1})
  BY <1>0, FirstChosen DEF Reach
<1>3. b = [nextHop1 |-> h1, lowest1 |-> IF h1 = 0 THEN CostInfinity ELSE costs[h1],
           nextHop2 |-> h2, lowest2 |-> IF h2 = 0 THEN CostInfinity ELSE costs[h2]]
  BY DEF BestOf
<1> HIDE DEF h1, h2, b
<1>4. h1 \in Hops /\ h2 \in Hops
  BY <1>1, <1>2 DEF Hops, Reach
<1>5. (h1 # 0 => costs[h1] \in Costs) /\ (h2 # 0 => costs[h2] \in Costs)
  BY <1>1, <1>2 DEF Reach
<1>6. b \in Choice
  BY <1>0, <1>3, <1>4, <1>5 DEF Choice
<1>7. b.nextHop1 = h1 /\ b.nextHop2 = h2
  BY <1>3
<1>8. (h1 = 0 => b.lowest1 = CostInfinity) /\ (h1 # 0 => b.lowest1 = costs[h1])
  BY <1>3
<1>9. (h2 = 0 => b.lowest2 = CostInfinity) /\ (h2 # 0 => b.lowest2 = costs[h2])
  BY <1>3
<1>10. h1 = First(costs, hops) /\ h2 = First(costs, hops \ {h1})
  BY DEF h1, h2
<1>11. b = BestOf(costs, hops)
  BY DEF b
<1> QED BY <1>1, <1>2, <1>6, <1>7, <1>8, <1>9, <1>10, <1>11 DEF Reach

\* One turn of refresh's loop adds a next hop to those the two best are of.
LEMMA TryHopAdds ==
  ASSUME NEW costs \in [Routers -> Costs], NEW hops \in SUBSET Routers, NEW h \in Routers \ hops
  PROVE  TryHop(costs, BestOf(costs, hops), h) = BestOf(costs, hops \cup {h})
<1> DEFINE b == BestOf(costs, hops)
           more == hops \cup {h}
           h1 == b.nextHop1
           h2 == b.nextHop2
           new == BestOf(costs, more)
<1>0. /\ Routers \subseteq Nat /\ 0 \notin Routers
      /\ CostInfinity \in Nat
      /\ \A g \in Routers : costs[g] \in Nat /\ costs[g] <= CostInfinity
  <2>1. Routers \subseteq Nat /\ 0 \notin Routers /\ CostInfinity \in Nat
    BY RibAssumption
  <2> QED BY <2>1 DEF Costs
<1>1. /\ b \in Choice
      /\ h1 = 0 => b.lowest1 = CostInfinity /\ Reach(costs, hops) = {}
      /\ h1 # 0 => h1 \in Reach(costs, hops) /\ b.lowest1 = costs[h1] /\ b.lowest1 < CostInfinity
      /\ h2 = 0 => b.lowest2 = CostInfinity /\ Reach(costs, hops \ {h1}) = {}
      /\ h2 # 0 => /\ h2 \in Reach(costs, hops \ {h1})
                   /\ b.lowest2 = costs[h2] /\ b.lowest2 < CostInfinity
      /\ h1 = First(costs, hops) /\ h2 = First(costs, hops \ {h1})
  BY BestOfIs
<1> HIDE DEF b
<1>2. /\ h1 # 0 => \A g \in Reach(costs, hops) \ {h1} : Before(costs, h1, g)
      /\ h2 # 0 => \A g \in Reach(costs, hops \ {h1}) \ {h2} : Before(costs, h2, g)
  BY <1>1, FirstChosen
<1>3. ASSUME NEW k1 \in Hops, NEW k2 \in Hops,
             First(costs, more) = k1, First(costs, more \ {k1}) = k2
      PROVE  new = [nextHop1 |-> k1, lowest1 |-> IF k1 = 0 THEN CostInfinity ELSE costs[k1],
                    nextHop2 |-> k2, lowest2 |-> IF k2 = 0 THEN CostInfinity ELSE costs[k2]]
  BY <1>3 DEF BestOf
<1>4. b = [nextHop1 |-> h1, lowest1 |-> b.lowest1, nextHop2 |-> h2, lowest2 |-> b.lowest2]
  BY <1>1 DEF Choice
<1>4a. [b EXCEPT !.nextHop2 = h, !.lowest2 = costs[h]]
         = [nextHop1 |-> h1, lowest1 |-> b.lowest1, nextHop2 |-> h, lowest2 |-> costs[h]]
  <2> DEFINE l == [b EXCEPT !.nextHop2 = h, !.lowest2 = costs[h]]
             r == [nextHop1 |-> h1, lowest1 |-> b.lowest1, nextHop2 |-> h, lowest2 |-> costs[h]]
  <2>1. b \in Choice /\ h \in Hops /\ costs[h] \in Costs
    BY <1>1 DEF Hops
  <2>2. l \in Choice /\ r \in Choice
    BY <2>1 DEF Choice
  <2>3. /\ l.nextHop1 = r.nextHop1 /\ l.lowest1 = r.lowest1
        /\ l.nextHop2 = r.nextHop2 /\ l.lowest2 = r.lowest2
    BY <2>1 DEF Choice
  <2> HIDE DEF l, r
  <2>4. l = r
    BY <2>2, <2>3 DEF Choice
  <2> QED BY <2>4 DEF l, r
<1>4b. b.lowest1 \in Nat /\ b.lowest2 \in Nat /\ h1 \in Nat /\ h2 \in Nat /\ h \in Nat /\ h > 0
  <2>1. b \in Choice
    BY <1>1
  <2>2. b.lowest1 \in Costs /\ b.lowest2 \in Costs /\ h1 \in Hops /\ h2 \in Hops
    BY <2>1 DEF Choice
  <2>3. \A c \in Costs : c \in Nat
    BY <1>0 DEF Costs
  <2>4. \A g \in Hops : g \in Nat
    BY <1>0 DEF Hops
  <2>5. h \in Nat /\ h > 0
    BY <1>0
  <2> QED BY <2>2, <2>3, <2>4, <2>5
<1> HIDE DEF h1, h2, new
<1>5. h1 \in Hops /\ h2 \in Hops /\ h \in Hops
  BY <1>1 DEF Hops, Reach
<1> DEFINE first == costs[h] < b.lowest1 \/ (costs[h] = b.lowest1 /\ h < h1)
           second == costs[h] < b.lowest2 \/ (costs[h] = b.lowest2 /\ h < h2)
<1>6. TryHop(costs, b, h) =
        IF first THEN [nextHop1 |-> h, lowest1 |-> costs[h], nextHop2 |-> h1, lowest2 |-> b.lowest1]
        ELSE IF second THEN [nextHop1 |-> h1, lowest1 |-> b.lowest1, nextHop2 |-> h, lowest2 |-> costs[h]]
        ELSE b
  <2>1. first => TryHop(costs, b, h) =
                   [nextHop1 |-> h, lowest1 |-> costs[h], nextHop2 |-> h1, lowest2 |-> b.lowest1]
    BY DEF TryHop, h1
  <2>2. ~first /\ second => TryHop(costs, b, h) = [b EXCEPT !.nextHop2 = h, !.lowest2 = costs[h]]
    BY DEF TryHop, h1, h2
  <2>3. ~first /\ ~second => TryHop(costs, b, h) = b
    BY DEF TryHop, h1, h2
  <2> QED BY <1>4a, <2>1, <2>2, <2>3
<1>7. CASE first
  <2>1. h \in Reach(costs, more)
    BY <1>0, <1>1, <1>4b, <1>7 DEF Reach
  <2>2. \A g \in Reach(costs, more) \ {h} : Before(costs, h, g)
    BY <1>0, <1>1, <1>4b, <1>2, <1>7 DEF Reach, Before
  <2>3. First(costs, more) = h
    BY <2>1, <2>2, FirstUnique
  <2>4. more \ {h} = hops
    OBVIOUS
  <2>5. First(costs, more \ {h}) = h1
    BY <2>4, <1>1
  <2>6. new = [nextHop1 |-> h, lowest1 |-> IF h = 0 THEN CostInfinity ELSE costs[h],
               nextHop2 |-> h1, lowest2 |-> IF h1 = 0 THEN CostInfinity ELSE costs[h1]]
    BY <1>3, <1>5, <2>3, <2>5
  <2>7. h # 0 /\ b.lowest1 = IF h1 = 0 THEN CostInfinity ELSE costs[h1]
    BY <1>0, <1>1
  <2> QED BY <1>6, <1>7, <2>6, <2>7 DEF new, b
<1>8. CASE ~first /\ second
  <2>1. h \in Reach(costs, more)
    BY <1>0, <1>1, <1>4b, <1>8 DEF Reach
  <2>2. h1 # 0
    BY <1>0, <1>1, <1>4b, <1>8, <2>1 DEF Reach
  <2>3. Before(costs, h1, h) /\ h1 \in Reach(costs, more) /\ h1 # h
    BY <1>0, <1>1, <1>4b, <1>8, <2>1, <2>2 DEF Reach, Before
  <2>4. First(costs, more) = h1
    <3>1. \A g \in Reach(costs, more) \ {h1} : Before(costs, h1, g)
      BY <1>2, <2>2, <2>3 DEF Reach
    <3> QED BY <2>3, <3>1, FirstUnique
  <2>5. First(costs, more \ {h1}) = h
    <3>1. h \in Reach(costs, more \ {h1})
      BY <2>1, <2>3 DEF Reach
    <3>2. \A g \in Reach(costs, more \ {h1}) \ {h} : Before(costs, h, g)
      BY <1>0, <1>1, <1>4b, <1>2, <1>8 DEF Reach, Before
    <3> QED BY <3>1, <3>2, FirstUnique
  <2>6. new = [nextHop1 |-> h1, lowest1 |-> IF h1 = 0 THEN CostInfinity ELSE costs[h1],
               nextHop2 |-> h, lowest2 |-> IF h = 0 THEN CostInfinity ELSE costs[h]]
    BY <1>3, <1>5, <2>4, <2>5
  <2>7. h # 0 /\ b.lowest1 = costs[h1]
    BY <1>0, <1>1, <1>4b, <2>2
  <2> QED BY <1>6, <1>8, <2>2, <2>6, <2>7 DEF new, b
<1>9. CASE ~first /\ ~second
  <2>1. First(costs, more) = h1
    <3>1. CASE h1 = 0
      <4>1. Reach(costs, more) = {}
        BY <1>0, <1>1, <1>4b, <1>9, <3>1 DEF Reach
      <4> QED BY <3>1, <4>1, FirstChosen
    <3>2. CASE h1 # 0
      <4>1. h1 \in Reach(costs, more)
        BY <1>1, <3>2 DEF Reach
      <4>2. \A g \in Reach(costs, more) \ {h1} : Before(costs, h1, g)
        BY <1>0, <1>1, <1>4b, <1>2, <1>9, <3>2 DEF Reach, Before
      <4> QED BY <4>1, <4>2, FirstUnique
    <3> QED BY <3>1, <3>2
  <2>2. First(costs, more \ {h1}) = h2
    <3>1. CASE h2 = 0
      <4>1. Reach(costs, more \ {h1}) = {}
        BY <1>0, <1>1, <1>4b, <1>9, <3>1 DEF Reach
      <4> QED BY <3>1, <4>1, FirstChosen
    <3>2. CASE h2 # 0
      <4>1. h2 \in Reach(costs, more \ {h1})
        BY <1>1, <3>2 DEF Reach
      <4>2. \A g \in Reach(costs, more \ {h1}) \ {h2} : Before(costs, h2, g)
        BY <1>0, <1>1, <1>4b, <1>2, <1>9, <3>2 DEF Reach, Before
      <4> QED BY <4>1, <4>2, FirstUnique
    <3> QED BY <3>1, <3>2
  <2>3. new = [nextHop1 |-> h1, lowest1 |-> IF h1 = 0 THEN CostInfinity ELSE costs[h1],
               nextHop2 |-> h2, lowest2 |-> IF h2 = 0 THEN CostInfinity ELSE costs[h2]]
    BY <1>3, <1>5, <2>1, <2>2
  <2>4. /\ b.lowest1 = IF h1 = 0 THEN CostInfinity ELSE costs[h1]
        /\ b.lowest2 = IF h2 = 0 THEN CostInfinity ELSE costs[h2]
    BY <1>1
  <2> QED BY <1>4, <1>6, <1>9, <2>3, <2>4 DEF new, b
<1> QED BY <1>7, <1>8, <1>9

\* An order of the cost map visits every next hop once.
LEMMA OrderIsAll ==
  ASSUME NEW order \in MapOrders
  PROVE  /\ Len(order) \in Nat /\ DOMAIN order = 1 .. Len(order)
         /\ \A i \in 1 .. Len(order) : order[i] \in Routers
         /\ \A i, j \in 1 .. Len(order) : i # j => order[i] # order[j]
         /\ Routers = {order[i] : i \in 1 .. Len(order)}
<1> DEFINE n == Cardinality(Routers)
<1>0. IsFiniteSet(Routers)
  BY RibAssumption
<1>1. n \in Nat
  BY <1>0, FS_CardinalityType
<1>2. order \in Injection(1 .. n, Routers) /\ order \in Surjection(1 .. n, Routers)
  BY DEF MapOrders, Bijection
<1> HIDE DEF n
<1>3. order \in [1 .. n -> Routers] /\ \A i, j \in 1 .. n : i # j => order[i] # order[j]
  BY <1>2 DEF Injection, IsInjective
<1>4. \A r \in Routers : \E i \in 1 .. n : order[i] = r
  BY <1>2 DEF Surjection
<1>5. Len(order) = n
  BY <1>1, <1>3
<1>6. Routers = {order[i] : i \in 1 .. n}
  BY <1>3, <1>4
<1> QED BY <1>1, <1>3, <1>5, <1>6

\* refresh's loop finds the two best next hops of all, in whatever order it visits
\* them: after k turns it has the two best of the first k.
THEOREM LoopFindsBest ==
  ASSUME NEW costs \in [Routers -> Costs], NEW order \in MapOrders
  PROVE  Loop(costs, order) = BestTwo(costs)
<1> DEFINE n == Len(order)
           Turn(v, k) == IF k = 0 THEN Unreachable ELSE TryHop(costs, v[k - 1], order[k])
           visited(k) == {order[i] : i \in 1 .. k}
           found == [k \in 0 .. n |-> BestOf(costs, visited(k))]
           Visit == CHOOSE v : v = [k \in 0 .. n |-> Turn(v, k)]
<1>0. /\ n \in Nat
      /\ \A i \in 1 .. n : order[i] \in Routers
      /\ \A i, j \in 1 .. n : i # j => order[i] # order[j]
      /\ Routers = visited(n)
  BY OrderIsAll
<1>1. BestOf(costs, {}) = Unreachable
  <2>1. First(costs, {}) = 0
    BY FirstChosen DEF Reach
  <2> QED BY <2>1 DEF BestOf, Unreachable
<1>2. ASSUME NEW k \in 1 .. n
      PROVE  TryHop(costs, BestOf(costs, visited(k - 1)), order[k]) = BestOf(costs, visited(k))
  <2>1. visited(k - 1) \subseteq Routers /\ order[k] \in Routers \ visited(k - 1)
    BY <1>0
  <2>2. visited(k) = visited(k - 1) \cup {order[k]}
    BY <1>0
  <2> HIDE DEF visited
  <2> QED BY <2>1, <2>2, TryHopAdds
<1>3. visited(0) = {}
  OBVIOUS
<1> HIDE DEF visited
<1>4. found = [k \in 0 .. n |-> Turn(found, k)]
  <2> SUFFICES ASSUME NEW k \in 0 .. n PROVE BestOf(costs, visited(k)) = Turn(found, k)
    OBVIOUS
  <2>1. CASE k = 0
    BY <1>1, <1>3, <2>1
  <2>2. CASE k # 0
    <3>1. k \in 1 .. n /\ k - 1 \in 0 .. n
      BY <1>0, <2>2
    <3>2. found[k - 1] = BestOf(costs, visited(k - 1))
      BY <3>1
    <3> QED BY <1>2, <2>2, <3>1, <3>2
  <2> QED BY <2>1, <2>2
<1> HIDE DEF found
<1>5. Visit = [k \in 0 .. n |-> Turn(Visit, k)]
  BY <1>4
<1> HIDE DEF Visit
<1>6. \A k \in 0 .. n : Visit[k] = found[k]
  <2> DEFINE S == {k \in Nat : k <= n => Visit[k] = found[k]}
  <2>1. 0 \in S
    BY <1>0, <1>4, <1>5
  <2>2. ASSUME NEW k \in Nat, k \in S PROVE k + 1 \in S
    <3> SUFFICES ASSUME k + 1 <= n PROVE Visit[k + 1] = found[k + 1]
      OBVIOUS
    <3>1. k + 1 \in 0 .. n /\ k + 1 # 0 /\ (k + 1) - 1 = k /\ k <= n
      BY <1>0
    <3>2. Visit[k] = found[k]
      BY <2>2, <3>1
    <3>3. /\ Visit[k + 1] = Turn(Visit, k + 1)
          /\ found[k + 1] = Turn(found, k + 1)
      BY <1>4, <1>5, <3>1
    <3>4. Turn(Visit, k + 1) = Turn(found, k + 1)
      BY <3>1, <3>2
    <3> QED BY <3>3, <3>4
  <2> HIDE DEF S
  <2>3. Nat \subseteq S
    BY <2>1, <2>2, Induction
  <2> QED BY <1>0, <2>3 DEF S
<1>7. Visit[n] = BestOf(costs, Routers)
  BY <1>0, <1>6 DEF found
<1>8. Loop(costs, order) = Visit[n]
  BY DEF Loop, Visit
<1>9. BestTwo(costs) = BestOf(costs, Routers)
  BY DEF BestTwo, BestOf
<1> QED BY <1>7, <1>8, <1>9

-----------------------------------------------------------------------------
\* What follows from the assumptions on the constants.
LEMMA Domains == /\ Routers \subseteq Nat /\ 0 \notin Routers
                 /\ CostInfinity \in Nat /\ CostInfinity # 0 /\ CostInfinity \in Costs /\ 0 \in Costs
                 /\ \A c \in Costs : c \in Nat /\ c <= CostInfinity
<1>1. Routers \subseteq Nat /\ 0 \notin Routers /\ CostInfinity \in Nat /\ CostInfinity # 0
  BY RibAssumption
<1> QED BY <1>1 DEF Costs

\* The two best next hops of a destination: there is none if and only if all costs
\* are infinite, and the costs are those of the next hops.
LEMMA BestTwoIs ==
  ASSUME NEW costs \in [Routers -> Costs]
  PROVE  LET b == BestTwo(costs)
         IN /\ b \in Choice
            /\ b.lowest1 = CostInfinity <=> \A h \in Routers : costs[h] = CostInfinity
            /\ b.nextHop1 \in Routers => b.lowest1 = costs[b.nextHop1]
            /\ b.nextHop2 \in Routers => b.lowest2 = costs[b.nextHop2]
            /\ b.nextHop1 = 0 => b.lowest1 = CostInfinity
            /\ b.nextHop2 = 0 => b.lowest2 = CostInfinity
<1> DEFINE b == BestOf(costs, Routers)
<1>1. BestTwo(costs) = b
  BY DEF BestTwo, BestOf
<1>2. /\ b \in Choice
      /\ b.nextHop1 = 0 => b.lowest1 = CostInfinity /\ Reach(costs, Routers) = {}
      /\ b.nextHop1 # 0 => b.lowest1 = costs[b.nextHop1] /\ b.lowest1 < CostInfinity
                           /\ b.nextHop1 \in Reach(costs, Routers)
      /\ b.nextHop2 = 0 => b.lowest2 = CostInfinity
      /\ b.nextHop2 # 0 => b.lowest2 = costs[b.nextHop2]
  BY BestOfIs
<1> HIDE DEF b
<1>3. \A h \in Routers : costs[h] \in Nat /\ costs[h] <= CostInfinity
  BY Domains
<1>3a. CostInfinity \in Nat
  BY Domains
<1>4. ASSUME b.nextHop1 = 0 PROVE \A h \in Routers : costs[h] = CostInfinity
  <2>1. \A h \in Routers : ~(costs[h] < CostInfinity)
    BY <1>2, <1>4 DEF Reach
  <2> QED BY <1>3, <1>3a, <2>1
<1>5. ASSUME b.nextHop1 # 0 PROVE b.lowest1 # CostInfinity /\ \E h \in Routers : costs[h] # CostInfinity
  <2>1. b.nextHop1 \in Routers /\ b.lowest1 = costs[b.nextHop1] /\ b.lowest1 < CostInfinity
    BY <1>2, <1>5 DEF Reach
  <2> QED BY <1>3, <1>3a, <2>1
<1>6. b.lowest1 = CostInfinity <=> \A h \in Routers : costs[h] = CostInfinity
  BY <1>2, <1>4, <1>5
<1>7. 0 \notin Routers
  BY Domains
<1> QED BY <1>1, <1>2, <1>6, <1>7

\* No next hop is cheaper than the first, which is one of finite cost or none.
LEMMA BestTwoLeast ==
  ASSUME NEW costs \in [Routers -> Costs]
  PROVE  LET b == BestTwo(costs)
         IN /\ \A h \in Routers : b.lowest1 <= costs[h]
            /\ b.lowest1 <= b.lowest2
            /\ b.nextHop1 # 0 => /\ b.nextHop1 \in Routers
                                 /\ b.lowest1 = costs[b.nextHop1]
                                 /\ b.lowest1 < CostInfinity
<1> DEFINE b == BestOf(costs, Routers)
<1>1. BestTwo(costs) = b
  BY DEF BestTwo, BestOf
<1>2. /\ b \in Choice
      /\ b.nextHop1 = 0 => b.lowest1 = CostInfinity /\ Reach(costs, Routers) = {}
      /\ b.nextHop1 # 0 => /\ b.nextHop1 \in Reach(costs, Routers)
                           /\ b.lowest1 = costs[b.nextHop1]
                           /\ b.lowest1 < CostInfinity
      /\ b.nextHop2 = 0 => b.lowest2 = CostInfinity
      /\ b.nextHop2 # 0 => /\ b.nextHop2 \in Reach(costs, Routers \ {b.nextHop1})
                           /\ b.lowest2 = costs[b.nextHop2]
      /\ b.nextHop1 = First(costs, Routers)
  BY BestOfIs
<1> HIDE DEF b
<1>3. \A h \in Routers : costs[h] \in Nat /\ costs[h] <= CostInfinity
  BY Domains
<1>4. CostInfinity \in Nat /\ b.lowest1 \in Nat /\ b.lowest2 \in Nat
  <2>1. b.lowest1 \in Costs /\ b.lowest2 \in Costs
    BY <1>2 DEF Choice
  <2> QED BY <2>1, Domains
<1>5. ASSUME b.nextHop1 # 0, NEW h \in Routers PROVE b.lowest1 <= costs[h]
  <2>1. h \in Reach(costs, Routers) => h = b.nextHop1 \/ Before(costs, b.nextHop1, h)
    BY <1>2, <1>5, FirstChosen
  <2>2. h \notin Reach(costs, Routers) => costs[h] = CostInfinity
    BY <1>3, <1>4 DEF Reach
  <2>3. b.nextHop1 \in Routers
    BY <1>2, <1>5 DEF Reach
  <2> QED BY <1>2, <1>3, <1>4, <1>5, <2>1, <2>2, <2>3 DEF Before
<1>6. ASSUME b.nextHop1 = 0, NEW h \in Routers PROVE b.lowest1 <= costs[h]
  BY <1>2, <1>3, <1>4, <1>6 DEF Reach
<1>7. \A h \in Routers : b.lowest1 <= costs[h]
  BY <1>5, <1>6
<1>8. b.lowest1 <= b.lowest2
  <2>1. CASE b.nextHop2 = 0
    <3>1. b.lowest1 <= CostInfinity
      BY <1>2, <1>4
    <3> QED BY <1>2, <2>1, <3>1
  <2>2. CASE b.nextHop2 # 0
    BY <1>2, <1>7, <2>2 DEF Reach
  <2> QED BY <2>1, <2>2
<1>9. b.nextHop1 # 0 => b.nextHop1 \in Routers
  BY <1>2 DEF Reach
<1> QED BY <1>1, <1>2, <1>7, <1>8, <1>9

\* An entry without routes.
LEMMA NoEntryIs == /\ NoEntry \in RibEntry /\ NoEntry.best = BestTwo(NoEntry.costs)
                   /\ NoEntry.costs = [h \in Routers |-> CostInfinity]
<1> DEFINE costs == [h \in Routers |-> CostInfinity]
<1>1. costs \in [Routers -> Costs]
  BY Domains
<1>2. ASSUME NEW hops \in SUBSET Routers PROVE First(costs, hops) = 0
  <2>0. ~(CostInfinity < CostInfinity)
    BY Domains
  <2>1. Reach(costs, hops) = {}
    BY <2>0 DEF Reach
  <2> HIDE DEF costs
  <2> QED BY <1>1, <2>1, FirstChosen
<1>3. BestTwo(costs) = Unreachable
  BY <1>2 DEF BestTwo, Unreachable
<1>4. Unreachable \in Choice
  BY Domains DEF Unreachable, Choice, Hops
<1> QED BY <1>1, <1>3, <1>4 DEF NoEntry, RibEntry

\* refresh.
LEMMA RefreshIs ==
  ASSUME NEW e \in RibEntry
  PROVE  /\ refresh(e) \in RibEntry
         /\ refresh(e).costs = e.costs /\ refresh(e).best = BestTwo(e.costs)
         /\ ~refresh(e).dirty
<1>1. e.costs \in [Routers -> Costs]
  BY DEF RibEntry
<1>2. BestTwo(e.costs) \in Choice
  BY <1>1, BestTwoIs
<1> QED BY <1>2 DEF refresh, RibEntry

\* A table whose entries have the best next hops of their costs, or are to be
\* refreshed.
Refreshable(t) ==
  t \in Rib /\ \A d \in Routers : t[d].dirty \/ t[d].best = BestTwo(t[d].costs)

\* Prune refreshes what is left to refresh, and changes no cost.
LEMMA PruneIs ==
  ASSUME NEW t, Refreshable(t)
  PROVE  /\ Prune(t) \in Rib
         /\ \A d \in Routers : /\ Prune(t)[d].costs = t[d].costs
                               /\ Prune(t)[d].best = BestTwo(t[d].costs)
<1> SUFFICES ASSUME NEW d \in Routers
             PROVE  /\ Prune(t)[d] \in RibEntry
                    /\ Prune(t)[d].costs = t[d].costs
                    /\ Prune(t)[d].best = BestTwo(t[d].costs)
  <2>1. Prune(t) = [d \in Routers |-> Prune(t)[d]]
    BY DEF Prune
  <2> QED BY <2>1 DEF Rib
<1> DEFINE e == IF t[d].dirty THEN refresh(t[d]) ELSE t[d]
<1>1. t[d] \in RibEntry /\ (t[d].dirty \/ t[d].best = BestTwo(t[d].costs))
  BY DEF Refreshable, Rib
<1>2. e \in RibEntry /\ e.costs = t[d].costs /\ e.best = BestTwo(t[d].costs)
  BY <1>1, RefreshIs
<1>3. Prune(t)[d] = IF e.best.lowest1 = CostInfinity THEN NoEntry ELSE e
  BY DEF Prune
<1> HIDE DEF e
<1>4. e.best.lowest1 = CostInfinity => e.costs = [h \in Routers |-> CostInfinity]
  <2>1. t[d].costs \in [Routers -> Costs]
    BY <1>1 DEF RibEntry
  <2>2. ASSUME e.best.lowest1 = CostInfinity
        PROVE  \A h \in Routers : t[d].costs[h] = CostInfinity
    BY <1>2, <2>1, <2>2, BestTwoIs
  <2> QED BY <1>2, <2>1, <2>2
<1> QED BY <1>2, <1>3, <1>4, NoEntryIs

\* The costs an advertisement stands for.
LEMMA CostViaType == ASSUME NEW e \in AdvEntry, NEW self PROVE CostVia(e, self) \in Costs
<1>1. e.cost \in Costs /\ e.other \in Costs
  BY DEF AdvEntry
<1>2. \A c \in Costs : (IF c + 1 < CostInfinity THEN c + 1 ELSE CostInfinity) \in Costs
  BY Domains DEF Costs
<1> QED BY <1>1, <1>2 DEF CostVia

\* After a neighbor's advertisement its column has the costs that follow from it
\* and the other columns are as they were.
LEMMA WithAdvertIs ==
  ASSUME NEW t, Refreshable(t), NEW self, NEW n \in Routers, NEW adv \in Advertisement
  PROVE  LET new == WithAdvert(t, self, n, adv)
         IN /\ new \in Rib
            /\ \A d \in Routers :
                 /\ new[d].costs[n] = CostVia(adv[d], self)
                 /\ \A h \in Routers \ {n} : new[d].costs[h] = t[d].costs[h]
                 /\ new[d].best = BestTwo(new[d].costs)
<1> DEFINE reset == DirtyResetNextHop(t, n)
           Set(d) == IF CostVia(adv[d], self) < CostInfinity
                     THEN RibEntrySet(reset[d], n, CostVia(adv[d], self)) ELSE reset[d]
           set == [d \in Routers |-> Set(d)]
<1>1. ASSUME NEW d \in Routers
      PROVE  /\ Set(d) \in RibEntry /\ (Set(d).dirty \/ Set(d).best = BestTwo(Set(d).costs))
             /\ Set(d).costs[n] = CostVia(adv[d], self)
             /\ \A h \in Routers \ {n} : Set(d).costs[h] = t[d].costs[h]
  <2> DEFINE c == CostVia(adv[d], self)
             r == reset[d]
             s == [r EXCEPT !.costs[n] = c]
  <2>1. c \in Costs
    BY CostViaType DEF Advertisement
  <2>2. t[d] \in RibEntry
    BY DEF Refreshable, Rib
  <2>3. r = [t[d] EXCEPT !.costs[n] = CostInfinity, !.dirty = TRUE]
    BY DEF DirtyResetNextHop
  <2>4. /\ r \in RibEntry /\ r.dirty /\ r.costs[n] = CostInfinity
        /\ \A h \in Routers \ {n} : r.costs[h] = t[d].costs[h]
    <3> HIDE DEF r
    <3>1. /\ r \in RibEntry /\ r.dirty
          /\ r.costs = [t[d].costs EXCEPT ![n] = CostInfinity]
      BY <2>2, <2>3, Domains DEF RibEntry
    <3>2. t[d].costs \in [Routers -> Costs]
      BY <2>2 DEF RibEntry
    <3> QED BY <3>1, <3>2
  <2> HIDE DEF c, r
  <2>5. CASE c < CostInfinity
    <3>1. c # CostInfinity
      BY <2>1, <2>5, Domains
    <3>2. /\ s \in RibEntry /\ s.costs[n] = c
          /\ \A h \in Routers \ {n} : s.costs[h] = t[d].costs[h]
      BY <2>1, <2>4 DEF RibEntry
    <3>3. Set(d) = refresh(s)
      BY <2>4, <2>5, <3>1 DEF RibEntrySet, c, r
    <3> HIDE DEF s, Set
    <3> QED BY <3>2, <3>3, RefreshIs DEF c
  <2>6. CASE ~(c < CostInfinity)
    <3>1. c = CostInfinity
      BY <2>1, <2>6, Domains
    <3>2. Set(d) = r
      BY <2>6 DEF c, r
    <3> QED BY <2>4, <3>1, <3>2 DEF c
  <2> QED BY <2>5, <2>6
<1>2. WithAdvert(t, self, n, adv) = Prune(set)
  BY DEF WithAdvert
<1> HIDE DEF Set
<1>3. Refreshable(set)
  BY <1>1 DEF Refreshable, Rib
<1> QED BY <1>1, <1>2, <1>3, PruneIs

\* When neighbors go, so do the costs of their columns.
LEMMA RemoveIs ==
  ASSUME NEW t, Refreshable(t), NEW dead
  PROVE  LET new == Prune(RemoveNextHops(t, dead))
         IN /\ new \in Rib
            /\ \A d \in Routers :
                 /\ \A h \in Routers : new[d].costs[h] = IF h \in dead THEN CostInfinity ELSE t[d].costs[h]
                 /\ new[d].best = BestTwo(new[d].costs)
<1> DEFINE costs(d) == [h \in Routers |-> IF h \in dead THEN CostInfinity ELSE t[d].costs[h]]
           set == RemoveNextHops(t, dead)
<1>1. ASSUME NEW d \in Routers
      PROVE  /\ set[d] \in RibEntry /\ set[d].best = BestTwo(set[d].costs)
             /\ set[d].costs = costs(d)
  <2>1. t[d] \in RibEntry
    BY DEF Refreshable, Rib
  <2>2. costs(d) \in [Routers -> Costs]
    BY <2>1, Domains DEF RibEntry
  <2> DEFINE s == [t[d] EXCEPT !.costs = costs(d)]
  <2>3. s \in RibEntry /\ s.costs = costs(d)
    BY <2>1, <2>2 DEF RibEntry
  <2>4. set[d] = refresh(s)
    BY DEF RemoveNextHops
  <2> HIDE DEF s, costs, set
  <2> QED BY <2>3, <2>4, RefreshIs
<1>2. set = [d \in Routers |-> set[d]]
  BY DEF RemoveNextHops
<1> HIDE DEF set
<1>3. Refreshable(set)
  BY <1>1, <1>2 DEF Refreshable, Rib
<1> DEFINE new == Prune(set)
<1>4. /\ new \in Rib
      /\ \A d \in Routers : new[d].costs = costs(d) /\ new[d].best = BestTwo(new[d].costs)
  <2> HIDE DEF costs
  <2> QED BY <1>1, <1>3, PruneIs
<1> HIDE DEF new
<1>5. new = Prune(RemoveNextHops(t, dead))
  BY DEF set, new
<1> QED BY <1>4, <1>5

\* A router that has just started reaches itself only.
LEMMA StartRibIs ==
  ASSUME NEW self \in Routers
  PROVE  /\ StartRib(self) \in Rib
         /\ \A d \in Routers :
              /\ StartRib(self)[d].best = BestTwo(StartRib(self)[d].costs)
              /\ StartRib(self)[d].costs[self] = IF d = self THEN 0 ELSE CostInfinity
              /\ \A h \in Routers \ {self} : StartRib(self)[d].costs[h] = CostInfinity
              /\ d # self => StartRib(self)[d] = NoEntry
<1> DEFINE own == RibEntrySet(NoEntry, self, 0)
           start == StartRib(self)
<1>1. /\ own \in RibEntry /\ own.best = BestTwo(own.costs) /\ own.costs[self] = 0
      /\ \A h \in Routers \ {self} : own.costs[h] = CostInfinity
  <2> DEFINE s == [NoEntry EXCEPT !.costs[self] = 0]
  <2>1. NoEntry.costs[self] # 0
    BY NoEntryIs, Domains
  <2>2. own = refresh(s)
    BY <2>1 DEF RibEntrySet
  <2>3. s \in RibEntry /\ s.costs[self] = 0 /\ \A h \in Routers \ {self} : s.costs[h] = CostInfinity
    <3>1. NoEntry \in RibEntry /\ NoEntry.costs = [h \in Routers |-> CostInfinity] /\ 0 \in Costs
      BY NoEntryIs, Domains
    <3> QED BY <3>1 DEF RibEntry
  <2> HIDE DEF s
  <2> QED BY <2>2, <2>3, RefreshIs
<1>2. start = [d \in Routers |-> IF d = self THEN own ELSE NoEntry]
  BY DEF StartRib
<1> HIDE DEF own, start
<1>3. start \in Rib
  BY <1>1, <1>2, NoEntryIs DEF Rib
<1>4. ASSUME NEW d \in Routers
      PROVE  /\ start[d].best = BestTwo(start[d].costs)
             /\ start[d].costs[self] = IF d = self THEN 0 ELSE CostInfinity
             /\ \A h \in Routers \ {self} : start[d].costs[h] = CostInfinity
             /\ d # self => start[d] = NoEntry
  <2>1. CASE d = self
    BY <1>1, <1>2, <2>1
  <2>2. CASE d # self
    BY <1>2, <2>2, NoEntryIs
  <2> QED BY <2>1, <2>2
<1> QED BY <1>3, <1>4 DEF start
=============================================================================
