-------------------------- MODULE PathDiscoveryProofs --------------------------
(***************************************************************************)
(* Path discovery, with any faces, any next hops and costs, any changes of *)
(* the FIB entry and any number of stages: through every handler the       *)
(* collections of PathDiscoveryInfo agree, what is passed downstream is    *)
(* true, data transmission starts with the valid upstreams, and a NACK     *)
(* does not cost its tier.                                                 *)
(***************************************************************************)
EXTENDS PathDiscovery, FiniteSetTheorems, SequenceTheorems, WellFoundedInduction, TLAPS

\* Zenon first: preparing a leaf for it takes far less than for the SMT solver.
USE ZenonT(5), SMTT(30), ZenonT(60), SMTT(60)

\* Induction over the natural numbers, for sets.
LEMMA Induction ==
  ASSUME NEW S, 0 \in S, \A n \in Nat : n \in S => n + 1 \in S PROVE Nat \subseteq S
<1> SUFFICES ASSUME Nat \ S # {} PROVE FALSE
  OBVIOUS
<1>1. \E x \in Nat \ S : \A y \in Nat \ S : <<y, x>> \notin OpToRel(<, Nat)
  BY NatLessThanWellFounded, WFMin
<1>2. PICK x \in Nat \ S : \A y \in Nat \ S : ~(y < x)
  <2>1. \A x, y \in Nat : y < x => <<y, x>> \in OpToRel(<, Nat)
    BY DEF OpToRel
  <2> QED BY <1>1, <2>1
<1>3. x - 1 \in Nat /\ x - 1 \in S /\ (x - 1) + 1 = x
  BY <1>2
<1> QED BY <1>2, <1>3

\* The rounds of a loop that makes of a value of D another one n times, and its
\* values after each of them.
Rounds(D, n) == [1 .. n -> [D -> D]]

Results(D, n, start, round) ==
  {f \in [0 .. n -> D] : \A k \in 0 .. n : f[k] = IF k = 0 THEN start ELSE round[k][f[k - 1]]}

\* Such a loop has results.
LEMMA LoopHasResults ==
  ASSUME NEW D, NEW n \in Nat, NEW start \in D, NEW round \in Rounds(D, n)
  PROVE  Results(D, n, start, round) # {}
<1> DEFINE Loops(m, f) == /\ f \in [0 .. m -> D]
                          /\ \A k \in 0 .. m : f[k] = IF k = 0 THEN start ELSE round[k][f[k - 1]]
           S == {m \in Nat : m <= n => \E f : Loops(m, f)}
<1>1. 0 \in S
  <2>1. Loops(0, [k \in 0 .. 0 |-> start])
    OBVIOUS
  <2> HIDE DEF Loops
  <2> QED BY <2>1
<1>2. ASSUME NEW m \in Nat, m \in S PROVE m + 1 \in S
  <2> SUFFICES ASSUME m + 1 <= n PROVE \E f : Loops(m + 1, f)
    OBVIOUS
  <2>1. PICK f : Loops(m, f)
    <3> HIDE DEF Loops
    <3> QED BY <1>2
  <2> DEFINE g == [k \in 0 .. m + 1 |-> IF k <= m THEN f[k] ELSE round[m + 1][f[m]]]
  <2>2. round[m + 1][f[m]] \in D
    BY <2>1 DEF Rounds
  <2>3. g \in [0 .. m + 1 -> D]
    BY <2>1, <2>2
  <2>4. ASSUME NEW k \in 0 .. m + 1
        PROVE  g[k] = IF k = 0 THEN start ELSE round[k][g[k - 1]]
    <3>1. CASE k <= m
      <4>1. k \in 0 .. m /\ g[k] = f[k] /\ (k # 0 => g[k - 1] = f[k - 1])
        BY <3>1
      <4> QED BY <2>1, <4>1
    <3>2. CASE k = m + 1
      <4>1. k # 0 /\ k - 1 = m /\ g[k] = round[m + 1][f[m]] /\ g[m] = f[m]
        BY <3>2
      <4> QED BY <3>2, <4>1
    <3> QED BY <3>1, <3>2
  <2>5. Loops(m + 1, g)
    BY <2>3, <2>4
  <2> HIDE DEF Loops
  <2> QED BY <2>5
<1> HIDE DEF Loops
<1>3. n \in S
  <2> HIDE DEF S
  <2> QED BY <1>1, <1>2, Induction
<1>4. PICK f : Loops(n, f)
  BY <1>3
<1> QED BY <1>4 DEF Loops, Results
-----------------------------------------------------------------------------
\* Keep drops the other elements and no more.
LEMMA KeepIs ==
  ASSUME NEW T, NEW s \in Seq(T), NEW S
  PROVE  /\ Keep(s, S) \in Seq(T)
         /\ Range(Keep(s, S)) = Range(s) \cap S
         /\ IsInjective(s) => IsInjective(Keep(s, S))
<1> DEFINE n == Len(s)
           Turn(f, k) == IF k = 0 THEN <<>>
                         ELSE IF s[k] \in S THEN Append(f[k - 1], s[k]) ELSE f[k - 1]
           kept == CHOOSE f : f = [k \in 0 .. n |-> Turn(f, k)]
           round == [k \in 1 .. n |-> [q \in Seq(T) |-> IF s[k] \in S THEN Append(q, s[k]) ELSE q]]
<1>0. n \in Nat /\ \A k \in 1 .. n : s[k] \in T
  OBVIOUS
<1>1. Keep(s, S) = kept[n]
  BY DEF Keep
<1>2. round \in Rounds(Seq(T), n)
  BY <1>0 DEF Rounds
<1>3. \A q \in Seq(T), k \in 1 .. n : round[k][q] = IF s[k] \in S THEN Append(q, s[k]) ELSE q
  OBVIOUS
<1> HIDE DEF round
<1>4. PICK f \in Results(Seq(T), n, <<>>, round) : TRUE
  <2>1. <<>> \in Seq(T)
    OBVIOUS
  <2> HIDE DEF n
  <2> QED BY <1>0, <1>2, <2>1, LoopHasResults
<1>4a. /\ f \in [0 .. n -> Seq(T)]
       /\ \A k \in 0 .. n : f[k] = IF k = 0 THEN <<>> ELSE round[k][f[k - 1]]
  BY <1>4 DEF Results
<1>5. f = [k \in 0 .. n |-> Turn(f, k)]
  <2>1. ASSUME NEW k \in 0 .. n PROVE f[k] = Turn(f, k)
    <3>1. CASE k = 0
      BY <1>4a, <3>1
    <3>2. CASE k # 0
      <4>1. k \in 1 .. n /\ f[k - 1] \in Seq(T)
        BY <1>0, <1>4a, <3>2
      <4>2. f[k] = round[k][f[k - 1]]
        BY <1>4a, <3>2
      <4> QED BY <1>3, <3>2, <4>1, <4>2
    <3> QED BY <3>1, <3>2
  <2> HIDE DEF Turn
  <2> QED BY <1>4a, <2>1
<1>6. kept = [k \in 0 .. n |-> Turn(kept, k)]
  <2> HIDE DEF Turn, n
  <2> QED BY <1>5
<1> HIDE DEF kept
<1> DEFINE seen(k) == {s[j] : j \in 1 .. k}
           Right(k) == /\ kept[k] \in Seq(T)
                       /\ Range(kept[k]) = seen(k) \cap S
                       /\ IsInjective(s) => IsInjective(kept[k])
           R == {k \in Nat : k <= n => Right(k)}
<1>7. 0 \in R
  <2>1. kept[0] = <<>>
    BY <1>0, <1>6
  <2>2. Range(<<>>) = {} /\ IsInjective(<<>>) /\ seen(0) = {} /\ <<>> \in Seq(T)
    BY DEF Range, IsInjective
  <2> QED BY <2>1, <2>2
<1>8. ASSUME NEW k \in Nat, k \in R PROVE k + 1 \in R
  <2> SUFFICES ASSUME k + 1 <= n PROVE Right(k + 1)
    OBVIOUS
  <2>1. k <= n /\ k + 1 \in 1 .. n /\ k + 1 \in 0 .. n /\ k + 1 # 0 /\ (k + 1) - 1 = k
    BY <1>0
  <2>2. Right(k)
    BY <1>8, <2>1
  <2>3. seen(k + 1) = seen(k) \cup {s[k + 1]}
    BY <2>1
  <2>4. kept[k + 1] = IF s[k + 1] \in S THEN Append(kept[k], s[k + 1]) ELSE kept[k]
    BY <1>6, <2>1
  <2>5. CASE s[k + 1] \notin S
    <3> HIDE DEF seen
    <3> QED BY <2>2, <2>3, <2>4, <2>5
  <2>6. CASE s[k + 1] \in S
    <3> DEFINE q == kept[k]
               e == s[k + 1]
               r == Append(q, e)
    <3>1. q \in Seq(T) /\ e \in T /\ kept[k + 1] = r
      BY <1>0, <2>1, <2>2, <2>4, <2>6
    <3>2. IsInjective(s) => e \notin seen(k)
      BY <2>1 DEF IsInjective
    <3>3. Range(q) = seen(k) \cap S /\ (IsInjective(s) => IsInjective(q))
      BY <2>2
    <3> HIDE DEF seen, q, e
    <3>4. /\ r \in Seq(T) /\ Len(q) \in Nat /\ DOMAIN q = 1 .. Len(q)
          /\ DOMAIN r = 1 .. Len(q) + 1
          /\ \A j \in 1 .. Len(q) : r[j] = q[j]
          /\ r[Len(q) + 1] = e
      BY <3>1
    <3> HIDE DEF r
    <3>5. Range(r) = Range(q) \cup {e}
      <4>1. e \in Range(r) /\ \A j \in DOMAIN q : j \in DOMAIN r /\ r[j] = q[j]
        BY <3>4 DEF Range
      <4>2. \A j \in DOMAIN r : r[j] = e \/ (j \in DOMAIN q /\ r[j] = q[j])
        BY <3>4
      <4> QED BY <4>1, <4>2 DEF Range
    <3>6. e \notin Range(q) /\ IsInjective(q) => IsInjective(r)
      BY <3>4 DEF Range, IsInjective
    <3>7. Range(r) = seen(k + 1) \cap S
      BY <2>3, <2>6, <3>3, <3>5 DEF e
    <3>8. IsInjective(s) => IsInjective(r)
      BY <3>2, <3>3, <3>6
    <3> QED BY <3>1, <3>4, <3>7, <3>8
  <2> QED BY <2>5, <2>6
<1>9. Right(n)
  <2>1. n \in R
    <3> HIDE DEF R
    <3> QED BY <1>0, <1>7, <1>8, Induction
  <2> QED BY <1>0, <2>1
<1>10. Range(s) = seen(n)
  BY <1>0 DEF Range
<1> HIDE DEF seen
<1> QED BY <1>1, <1>9, <1>10
\* A face is taken out of a list that has it at most once.
LEMMA RemoveIs ==
  ASSUME NEW T, NEW s \in Seq(T), IsInjective(s), NEW f
  PROVE  /\ removeFromProbed(s, f) \in Seq(T)
         /\ Range(removeFromProbed(s, f)) = Range(s) \ {f}
         /\ IsInjective(removeFromProbed(s, f))
<1> DEFINE i == CHOOSE k \in DOMAIN s : s[k] = f
           r == [k \in 1 .. Len(s) - 1 |-> IF k < i THEN s[k] ELSE s[k + 1]]
<1>1. CASE f \notin Range(s)
  <2>1. removeFromProbed(s, f) = s
    BY <1>1 DEF removeFromProbed
  <2> QED BY <1>1, <2>1
<1>2. CASE f \in Range(s)
  <2>1. i \in 1 .. Len(s) /\ s[i] = f /\ Len(s) \in Nat /\ DOMAIN s = 1 .. Len(s)
    BY <1>2 DEF Range
  <2>2. removeFromProbed(s, f) = r
    BY <1>2 DEF removeFromProbed
  <2> HIDE DEF i
  <2>3. r \in Seq(T) /\ Len(r) = Len(s) - 1 /\ DOMAIN r = 1 .. Len(s) - 1
    <3>1. \A k \in 1 .. Len(s) - 1 : k \in DOMAIN s /\ k + 1 \in DOMAIN s
      BY <2>1
    <3>2. Len(s) - 1 \in Nat /\ r \in [1 .. Len(s) - 1 -> T]
      BY <2>1, <3>1
    <3> HIDE DEF r
    <3> QED BY <3>2
  <2> DEFINE from(j) == IF j < i THEN j ELSE j + 1
  <2>4. \A j \in 1 .. Len(s) - 1 : r[j] = s[from(j)]
    BY <2>1
  <2> HIDE DEF r
  <2>5. /\ \A j \in 1 .. Len(s) - 1 : from(j) \in DOMAIN s \ {i}
        /\ \A j, k \in 1 .. Len(s) - 1 : from(j) = from(k) => j = k
        /\ \A k \in DOMAIN s \ {i} : \E j \in 1 .. Len(s) - 1 : from(j) = k
    <3>1. \A j \in 1 .. Len(s) - 1 : from(j) \in DOMAIN s \ {i}
      BY <2>1
    <3>2. \A j, k \in 1 .. Len(s) - 1 : from(j) = from(k) => j = k
      BY <2>1
    <3>3. ASSUME NEW k \in DOMAIN s \ {i} PROVE \E j \in 1 .. Len(s) - 1 : from(j) = k
      <4>1. CASE k < i
        <5>1. k \in 1 .. Len(s) - 1 /\ from(k) = k
          BY <2>1, <4>1
        <5> QED BY <5>1
      <4>2. CASE k > i
        <5>1. k - 1 \in 1 .. Len(s) - 1 /\ from(k - 1) = k
          BY <2>1, <4>2
        <5> QED BY <5>1
      <4> QED BY <2>1, <4>1, <4>2
    <3> QED BY <3>1, <3>2, <3>3
  <2> HIDE DEF from
  <2>6. IsInjective(r)
    <3> SUFFICES ASSUME NEW j \in DOMAIN r, NEW k \in DOMAIN r, r[j] = r[k] PROVE j = k
      BY DEF IsInjective
    <3>1. /\ from(j) \in DOMAIN s /\ from(k) \in DOMAIN s
          /\ s[from(j)] = s[from(k)]
      BY <2>3, <2>4, <2>5
    <3>2. from(j) = from(k)
      BY <3>1 DEF IsInjective
    <3> QED BY <2>3, <2>5, <3>2
  <2>7. Range(r) = Range(s) \ {f}
    <3>1. ASSUME NEW j \in DOMAIN r PROVE r[j] \in Range(s) \ {f}
      <4>1. r[j] = s[from(j)] /\ from(j) \in DOMAIN s /\ from(j) # i
        BY <2>3, <2>4, <2>5
      <4>2. i \in DOMAIN s /\ s[i] = f
        BY <2>1
      <4>3. s[from(j)] # s[i]
        BY <4>1, <4>2 DEF IsInjective
      <4> QED BY <4>1, <4>2, <4>3 DEF Range
    <3>2. ASSUME NEW x \in Range(s) \ {f} PROVE x \in Range(r)
      <4>1. PICK k \in DOMAIN s : s[k] = x
        BY DEF Range
      <4>2. k # i
        BY <2>1, <4>1
      <4>3. PICK j \in 1 .. Len(s) - 1 : from(j) = k
        BY <2>5, <4>1, <4>2
      <4> QED BY <2>3, <2>4, <4>1, <4>3 DEF Range
    <3> QED BY <3>1, <3>2 DEF Range
  <2> QED BY <2>2, <2>3, <2>6, <2>7
<1> QED BY <1>1, <1>2

\* The faces of a set, each once.
LEMMA ListedIs ==
  ASSUME NEW S, IsFiniteSet(S)
  PROVE  Listed(S) \in Seq(S) /\ Range(Listed(S)) = S /\ IsInjective(Listed(S))
<1>1. Cardinality(S) \in Nat /\ Bijection(1 .. Cardinality(S), S) # {}
  BY FS_CardinalityType DEF ExistsBijection
<1>2. Listed(S) \in Bijection(1 .. Cardinality(S), S)
  BY <1>1 DEF Listed
<1>3. /\ Listed(S) \in [1 .. Cardinality(S) -> S] /\ IsInjective(Listed(S))
      /\ \A x \in S : \E k \in 1 .. Cardinality(S) : Listed(S)[k] = x
  BY <1>2 DEF Bijection, Injection, Surjection
<1>4. Listed(S) \in Seq(S)
  BY <1>1, <1>3
<1> QED BY <1>3, <1>4 DEF Range

\* One list after another, when they have nothing in common.
LEMMA ConcatIs ==
  ASSUME NEW T, NEW s \in Seq(T), NEW t \in Seq(T), IsInjective(s), IsInjective(t),
         Range(s) \cap Range(t) = {}
  PROVE  s \o t \in Seq(T) /\ Range(s \o t) = Range(s) \cup Range(t) /\ IsInjective(s \o t)
<1> DEFINE r == s \o t
<1>1. /\ Len(s) \in Nat /\ DOMAIN s = 1 .. Len(s)
      /\ Len(t) \in Nat /\ DOMAIN t = 1 .. Len(t)
  OBVIOUS
<1>2. r \in Seq(T) /\ Len(r) = Len(s) + Len(t) /\ DOMAIN r = 1 .. Len(s) + Len(t)
  OBVIOUS
<1>3. /\ \A j \in 1 .. Len(s) : r[j] = s[j]
      /\ \A j \in 1 .. Len(t) : r[Len(s) + j] = t[j]
  OBVIOUS
<1> HIDE DEF r
<1>4. \A j \in DOMAIN r : (j \in DOMAIN s /\ r[j] = s[j])
                       \/ (j - Len(s) \in DOMAIN t /\ r[j] = t[j - Len(s)])
  <2> SUFFICES ASSUME NEW j \in DOMAIN r, ~(j \in DOMAIN s)
               PROVE  j - Len(s) \in DOMAIN t /\ r[j] = t[j - Len(s)]
    BY <1>1, <1>3
  <2>1. j - Len(s) \in 1 .. Len(t) /\ Len(s) + (j - Len(s)) = j
    BY <1>1, <1>2
  <2> QED BY <1>1, <1>3, <2>1
<1>5. Range(r) = Range(s) \cup Range(t)
  <2>1. \A j \in DOMAIN s : j \in DOMAIN r /\ r[j] = s[j]
    BY <1>1, <1>2, <1>3
  <2>2. \A j \in DOMAIN t : Len(s) + j \in DOMAIN r /\ r[Len(s) + j] = t[j]
    BY <1>1, <1>2, <1>3
  <2>3. Range(s) \subseteq Range(r) /\ Range(t) \subseteq Range(r)
    BY <2>1, <2>2 DEF Range
  <2>4. Range(r) \subseteq Range(s) \cup Range(t)
    BY <1>4 DEF Range
  <2> QED BY <2>3, <2>4
<1>6. IsInjective(r)
  <2> SUFFICES ASSUME NEW j \in DOMAIN r, NEW k \in DOMAIN r, r[j] = r[k] PROVE j = k
    BY DEF IsInjective
  <2>1. \A x \in DOMAIN s, y \in DOMAIN t : s[x] # t[y]
    BY DEF Range
  <2>2. CASE j \in DOMAIN s /\ r[j] = s[j] /\ k \in DOMAIN s /\ r[k] = s[k]
    BY <2>2 DEF IsInjective
  <2>3. CASE j - Len(s) \in DOMAIN t /\ r[j] = t[j - Len(s)] /\ k - Len(s) \in DOMAIN t /\ r[k] = t[k - Len(s)]
    <3>1. j - Len(s) = k - Len(s)
      BY <2>3 DEF IsInjective
    <3> QED BY <1>1, <1>2, <3>1
  <2> QED BY <1>4, <2>1, <2>2, <2>3
<1> QED BY <1>2, <1>5, <1>6 DEF r
-----------------------------------------------------------------------------
\* No face is in two tiers.
Disjoint(tiers) == \A k, l \in DOMAIN tiers : k # l => tiers[k] \cap tiers[l] = {}

\* What a handler may be given as next hops.
HopsOK(hops) == DOMAIN hops \subseteq Faces /\ \A f \in DOMAIN hops : hops[f] \in Nat

\* Tiers restricted to some faces.
Within(tiers, S) == [k \in DOMAIN tiers |-> tiers[k] \cap S]

\* Every next hop is in exactly one tier.
LEMMA Grouped ==
  ASSUME NEW hops, HopsOK(hops)
  PROVE  /\ groupHopsByCost(hops) \in Seq(SUBSET Faces)
         /\ TierFaces(groupHopsByCost(hops)) = DOMAIN hops
         /\ Disjoint(groupHopsByCost(hops))
         /\ DOMAIN hops # {} => Len(groupHopsByCost(hops)) \in Nat \ {0}
<1> DEFINE n == Cardinality(Costs(hops))
           tiers == groupHopsByCost(hops)
<1>1. IsFiniteSet(Costs(hops)) /\ n \in Nat
  <2>1. IsFiniteSet(DOMAIN hops)
    BY PathDiscoveryAssumption, FS_Subset DEF HopsOK
  <2> DEFINE m == [f \in DOMAIN hops |-> hops[f]]
  <2>2. m \in Surjection(DOMAIN hops, Costs(hops))
    BY DEF Surjection, Costs
  <2>3. IsFiniteSet(Costs(hops))
    BY <2>1, <2>2, FS_Surjection
  <2> QED BY <2>3, FS_CardinalityType
<1>2. ASSUME NEW f \in DOMAIN hops PROVE Rank(hops, hops[f]) \in 1 .. n
  <2> DEFINE D == {d \in Costs(hops) : d <= hops[f]}
  <2>1. D \subseteq Costs(hops) /\ hops[f] \in D
    BY DEF Costs, HopsOK
  <2> HIDE DEF D
  <2>2. IsFiniteSet(D) /\ Cardinality(D) <= n
    BY <1>1, <2>1, FS_Subset
  <2>3. Cardinality(D) \in Nat /\ Cardinality(D) # 0
    BY <2>1, <2>2, FS_CardinalityType, FS_EmptySet
  <2> QED BY <1>1, <2>2, <2>3 DEF Rank, D
<1>3. /\ DOMAIN tiers = 1 .. n
      /\ \A k \in 1 .. n : tiers[k] = {f \in DOMAIN hops : Rank(hops, hops[f]) = k}
  BY DEF groupHopsByCost
<1>4. tiers \in Seq(SUBSET Faces) /\ Len(tiers) = n
  <2>1. \A k \in 1 .. n : {f \in DOMAIN hops : Rank(hops, hops[f]) = k} \in SUBSET Faces
    BY DEF HopsOK
  <2>2. tiers \in [1 .. n -> SUBSET Faces]
    BY <2>1 DEF groupHopsByCost
  <2> HIDE DEF tiers, n
  <2> QED BY <1>1, <2>2
<1> HIDE DEF tiers, n
<1>5. TierFaces(tiers) = DOMAIN hops
  <2>1. \A f \in DOMAIN hops : f \in TierFaces(tiers)
    BY <1>2, <1>3 DEF TierFaces
  <2>2. \A k \in DOMAIN tiers : tiers[k] \subseteq DOMAIN hops
    BY <1>3
  <2> QED BY <2>1, <2>2 DEF TierFaces
<1>6. Disjoint(tiers)
  BY <1>3 DEF Disjoint
<1>7. DOMAIN hops # {} => n # 0
  BY <1>1, <1>2
<1> QED BY <1>1, <1>4, <1>5, <1>6, <1>7 DEF tiers

\* A face of the tiers is in one of them.
LEMMA InTiers ==
  ASSUME NEW tiers, NEW f
  PROVE  f \in TierFaces(tiers) <=> \E k \in DOMAIN tiers : f \in tiers[k]
BY DEF TierFaces

\* Fewer faces in the tiers.
LEMMA WithinIs ==
  ASSUME NEW tiers \in Seq(SUBSET Faces), NEW S
  PROVE  /\ Within(tiers, S) \in Seq(SUBSET Faces)
         /\ DOMAIN Within(tiers, S) = DOMAIN tiers
         /\ TierFaces(Within(tiers, S)) = TierFaces(tiers) \cap S
         /\ Disjoint(tiers) => Disjoint(Within(tiers, S))
         /\ Len(Within(tiers, S)) = Len(tiers)
<1> DEFINE w == Within(tiers, S)
<1>1. DOMAIN w = DOMAIN tiers /\ \A k \in DOMAIN tiers : w[k] = tiers[k] \cap S
  BY DEF Within
<1>2. w \in Seq(SUBSET Faces) /\ Len(w) = Len(tiers)
  <2>1. w \in [1 .. Len(tiers) -> SUBSET Faces] /\ Len(tiers) \in Nat
    BY DEF Within
  <2> HIDE DEF w
  <2> QED BY <2>1
<1> HIDE DEF w
<1>3. TierFaces(w) = TierFaces(tiers) \cap S
  <2>1. ASSUME NEW f PROVE f \in TierFaces(w) <=> f \in TierFaces(tiers) \cap S
    BY <1>1, InTiers
  <2> QED BY <2>1
<1>4. Disjoint(tiers) => Disjoint(w)
  <2> SUFFICES ASSUME Disjoint(tiers), NEW k \in DOMAIN w, NEW l \in DOMAIN w, k # l
               PROVE  w[k] \cap w[l] = {}
    BY DEF Disjoint
  <2>1. /\ tiers[k] \cap tiers[l] = {}
        /\ w[k] \subseteq tiers[k] /\ w[l] \subseteq tiers[l]
    BY <1>1 DEF Disjoint
  <2> QED BY <2>1
<1> QED BY <1>1, <1>2, <1>3, <1>4 DEF w

\* Removal from the wait list is such a restriction.
LEMMA RemovedFromWaitList ==
  ASSUME NEW tiers \in Seq(SUBSET Faces), NEW S
  PROVE  removeFromWaitList(tiers, S) = Within(tiers, Faces \ S)
<1>1. \A k \in DOMAIN tiers : tiers[k] \ S = tiers[k] \cap (Faces \ S)
  OBVIOUS
<1> QED BY <1>1 DEF removeFromWaitList, Within

\* All tiers are among their union.
LEMMA TierInUnion ==
  ASSUME NEW tiers, NEW k \in DOMAIN tiers PROVE tiers[k] \subseteq TierFaces(tiers)
BY DEF TierFaces
-----------------------------------------------------------------------------
(***************************************************************************)
(* The invariant, of a record i when the faces of ts (ns) have said that   *)
(* their tier (node) has converged. The tiers must be disjoint for a       *)
(* skipped one to take no other face with it, and a face be probed at most *)
(* once for its removal to be one. Until the node has converged, the wait  *)
(* list is what is left of the tier list.                                  *)
(***************************************************************************)
Core(i, ns) ==
  /\ i \in PathDiscoveryInfo
  /\ TierFaces(i.WaitList) = i.Valid
  /\ Disjoint(i.WaitList)
  /\ IsInjective(i.Probed)
  /\ i.ConvergedNode \subseteq i.Valid
  /\ i.Valid \ i.ConvergedNode \subseteq ns

Probing(i, ts) ==
  /\ i.ConvergedTier \subseteq Range(i.Probed)
  /\ Range(i.Probed) \subseteq i.Valid
  /\ Range(i.Probed) \ i.ConvergedTier \subseteq ts
  /\ DOMAIN i.TierList = DOMAIN i.WaitList
  /\ \A k \in DOMAIN i.WaitList : i.WaitList[k] \subseteq i.TierList[k]

Agrees(i, ts, ns) == Core(i, ns) /\ (~i.IsNodeConverged => Probing(i, ts))

\* What may become of a record: upstreams do not become valid again, and data
\* transmission starts once, with those that are valid then.
Follows(i, j) ==
  /\ i.IsInitialized => j.IsInitialized
  /\ j.Valid \subseteq i.Valid
  /\ IF j.IsNodeConverged /\ ~i.IsNodeConverged
     THEN j.Valid \subseteq j.DtValid /\ j.DtValid \subseteq i.Valid
     ELSE j.DtValid = i.DtValid /\ (i.IsNodeConverged => j.IsNodeConverged)

\* Following is transitive.
LEMMA FollowsFollows ==
  ASSUME NEW i, NEW j, NEW k, Follows(i, j), Follows(j, k)
  PROVE  Follows(i, k)
<1>1. CASE i.IsNodeConverged
  BY <1>1 DEF Follows
<1>2. CASE ~i.IsNodeConverged /\ j.IsNodeConverged
  BY <1>2 DEF Follows
<1>3. CASE ~i.IsNodeConverged /\ ~j.IsNodeConverged
  BY <1>3 DEF Follows
<1> QED BY <1>1, <1>2, <1>3

\* A face is excluded.
LEMMA ExcludeKeeps ==
  ASSUME NEW i, NEW ts, NEW ns, Agrees(i, ts, ns), NEW f
  PROVE  LET j == Exclude(i, f)
         IN /\ Agrees(j, ts, ns) /\ Follows(i, j)
            /\ j.Valid = i.Valid \ {f}
            /\ j.IsNodeConverged = i.IsNodeConverged /\ j.IsPdFrozen = i.IsPdFrozen
            /\ j.IsInitialized = i.IsInitialized /\ j.DtValid = i.DtValid
            /\ j.TierList = i.TierList /\ j.CurrentTier = i.CurrentTier
<1> DEFINE j == Exclude(i, f)
           p == removeFromProbed(i.Probed, f)
           w == removeFromWaitList(i.WaitList, {f})
<1>0. i \in PathDiscoveryInfo /\ i.Probed \in Seq(Faces) /\ i.WaitList \in Seq(SUBSET Faces)
  BY DEF Agrees, Core, PathDiscoveryInfo
<1>1. p \in Seq(Faces) /\ Range(p) = Range(i.Probed) \ {f} /\ IsInjective(p)
  BY <1>0, RemoveIs DEF Agrees, Core
<1>2. /\ w \in Seq(SUBSET Faces) /\ TierFaces(w) = TierFaces(i.WaitList) \cap (Faces \ {f})
      /\ Disjoint(w) /\ DOMAIN w = DOMAIN i.WaitList
      /\ \A k \in DOMAIN w : w[k] \subseteq i.WaitList[k]
  <2>1. w = Within(i.WaitList, Faces \ {f})
    BY <1>0, RemovedFromWaitList
  <2>2. \A k \in DOMAIN i.WaitList : w[k] = i.WaitList[k] \ {f}
    BY DEF removeFromWaitList
  <2> HIDE DEF w
  <2> QED BY <1>0, <2>1, <2>2, WithinIs DEF Agrees, Core
<1> HIDE DEF p, w
<1>3. j = [i EXCEPT !.Valid = i.Valid \ {f}, !.WaitList = w,
                    !.ConvergedTier = i.ConvergedTier \ {f},
                    !.ConvergedNode = i.ConvergedNode \ {f}, !.Probed = p]
  BY DEF Exclude, p, w
<1> HIDE DEF j
<1>4. j \in PathDiscoveryInfo
  BY <1>0, <1>1, <1>2, <1>3 DEF PathDiscoveryInfo
<1>5. /\ j.Valid = i.Valid \ {f} /\ j.WaitList = w /\ j.Probed = p
      /\ j.ConvergedTier = i.ConvergedTier \ {f} /\ j.ConvergedNode = i.ConvergedNode \ {f}
      /\ j.IsNodeConverged = i.IsNodeConverged /\ j.IsPdFrozen = i.IsPdFrozen
      /\ j.IsInitialized = i.IsInitialized /\ j.DtValid = i.DtValid
      /\ j.TierList = i.TierList /\ j.CurrentTier = i.CurrentTier
  BY <1>0, <1>3 DEF PathDiscoveryInfo
<1>6. Core(j, ns)
  <2>1. i.Valid \subseteq Faces
    BY <1>0 DEF PathDiscoveryInfo
  <2> QED BY <1>1, <1>2, <1>4, <1>5, <2>1 DEF Agrees, Core
<1>7. ~j.IsNodeConverged => Probing(j, ts)
  BY <1>1, <1>2, <1>5 DEF Agrees, Probing
<1>8. Follows(i, j)
  BY <1>5 DEF Follows
<1> QED BY <1>5, <1>6, <1>7, <1>8 DEF Agrees, j

\* The node converges: what is left becomes the tier list.
LEMMA ConvergedKeeps ==
  ASSUME NEW i, NEW ns, Core(i, ns)
  PROVE  LET j == localNodeConverged(i)
         IN /\ Core(j, ns) /\ j.IsNodeConverged
            /\ j.Valid = i.Valid /\ j.DtValid = i.Valid
            /\ j.IsPdFrozen = i.IsPdFrozen /\ j.IsInitialized = i.IsInitialized
            /\ j.ProbeIndex = i.ProbeIndex
<1> DEFINE j == localNodeConverged(i)
           t == Keep(i.WaitList, Range(i.WaitList) \ {{}})
<1>0. /\ i \in PathDiscoveryInfo /\ i.WaitList \in Seq(SUBSET Faces)
      /\ i.Valid \subseteq Faces /\ TierFaces(i.WaitList) = i.Valid
  BY DEF Core, PathDiscoveryInfo
<1>1. t \in Seq(SUBSET Faces)
  BY <1>0, KeepIs
<1> HIDE DEF t
<1>2. j = [i EXCEPT !.ConvergedTier = {}, !.IsNodeConverged = TRUE,
                    !.TierList = t, !.DtValid = i.Valid]
  BY <1>0 DEF localNodeConverged, t
<1> HIDE DEF j
<1>3. j \in PathDiscoveryInfo
  BY <1>0, <1>1, <1>2 DEF PathDiscoveryInfo
<1>4. /\ j.Valid = i.Valid /\ j.WaitList = i.WaitList /\ j.Probed = i.Probed
      /\ j.ConvergedNode = i.ConvergedNode
      /\ j.IsNodeConverged /\ j.IsPdFrozen = i.IsPdFrozen
      /\ j.IsInitialized = i.IsInitialized /\ j.DtValid = i.Valid
      /\ j.ProbeIndex = i.ProbeIndex
  BY <1>0, <1>2 DEF PathDiscoveryInfo
<1>5. Core(j, ns)
  BY <1>3, <1>4 DEF Core
<1> QED BY <1>4, <1>5 DEF j

\* The tiers from the current one on are skipped. They share no face with the
\* others, so that what stays valid is what stays in the wait list.
LEMMA SkipKeeps ==
  ASSUME NEW i, NEW ns, Core(i, ns)
  PROVE  LET j == skipTier(i)
         IN /\ Core(j, ns) /\ j.IsNodeConverged /\ j.Valid \subseteq i.Valid
            /\ j.DtValid = IF i.IsNodeConverged THEN i.DtValid ELSE j.Valid
            /\ j.IsPdFrozen = i.IsPdFrozen /\ j.IsInitialized = i.IsInitialized
<1> DEFINE dropped == UNION {i.WaitList[k] : k \in {m \in DOMAIN i.WaitList : m >= i.CurrentTier}}
           w == [k \in DOMAIN i.WaitList |-> IF k >= i.CurrentTier THEN {} ELSE i.WaitList[k]]
           h == [i EXCEPT !.WaitList = w, !.Valid = i.Valid \ dropped,
                          !.ConvergedNode = i.ConvergedNode \ dropped]
           j == skipTier(i)
<1>0. /\ i \in PathDiscoveryInfo /\ i.WaitList \in Seq(SUBSET Faces)
      /\ i.Valid \subseteq Faces /\ TierFaces(i.WaitList) = i.Valid /\ Disjoint(i.WaitList)
      /\ i.ConvergedNode \subseteq i.Valid /\ i.Valid \ i.ConvergedNode \subseteq ns
  BY DEF Core, PathDiscoveryInfo
<1>1. j = IF i.IsNodeConverged THEN h ELSE localNodeConverged(h)
  BY DEF skipTier
<1>2. /\ DOMAIN w = DOMAIN i.WaitList
      /\ \A k \in DOMAIN w : w[k] = IF k >= i.CurrentTier THEN {} ELSE i.WaitList[k]
  OBVIOUS
<1>3. \A f : f \in dropped <=> \E k \in DOMAIN i.WaitList : k >= i.CurrentTier /\ f \in i.WaitList[k]
  OBVIOUS
<1>4. w \in Seq(SUBSET Faces)
  <2>1. w \in [1 .. Len(i.WaitList) -> SUBSET Faces] /\ Len(i.WaitList) \in Nat
    BY <1>0
  <2> HIDE DEF w
  <2> QED BY <2>1
<1> HIDE DEF w, dropped
<1>5. Disjoint(w)
  BY <1>0, <1>2 DEF Disjoint
<1>6. TierFaces(w) = i.Valid \ dropped
  <2>1. ASSUME NEW f, f \in TierFaces(w) PROVE f \in i.Valid \ dropped
    <3>1. PICK k \in DOMAIN i.WaitList : ~(k >= i.CurrentTier) /\ f \in i.WaitList[k]
      BY <1>2, <2>1, InTiers
    <3>2. f \in i.Valid
      BY <1>0, <3>1, InTiers
    <3>3. \A l \in DOMAIN i.WaitList : f \in i.WaitList[l] => l = k
      BY <1>0, <3>1 DEF Disjoint
    <3> QED BY <1>3, <3>1, <3>2, <3>3
  <2>2. ASSUME NEW f \in i.Valid \ dropped PROVE f \in TierFaces(w)
    <3>1. PICK k \in DOMAIN i.WaitList : f \in i.WaitList[k]
      BY <1>0, InTiers
    <3>2. f \in w[k] /\ k \in DOMAIN w
      BY <1>2, <1>3, <3>1
    <3> QED BY <3>2, InTiers
  <2> QED BY <2>1, <2>2
<1>7. h \in PathDiscoveryInfo
  BY <1>0, <1>4 DEF PathDiscoveryInfo
<1>8. /\ h.Valid = i.Valid \ dropped /\ h.WaitList = w /\ h.Probed = i.Probed
      /\ h.ConvergedNode = i.ConvergedNode \ dropped
      /\ h.IsNodeConverged = i.IsNodeConverged /\ h.IsPdFrozen = i.IsPdFrozen
      /\ h.IsInitialized = i.IsInitialized /\ h.DtValid = i.DtValid
  BY <1>0 DEF PathDiscoveryInfo
<1> HIDE DEF h
<1>9. Core(h, ns)
  BY <1>0, <1>5, <1>6, <1>7, <1>8 DEF Core
<1>10. h.Valid \subseteq i.Valid
  BY <1>8
<1>11. CASE i.IsNodeConverged
  <2>1. j = h
    BY <1>1, <1>11
  <2> QED BY <1>8, <1>9, <1>10, <1>11, <2>1
<1>12. CASE ~i.IsNodeConverged
  <2>1. j = localNodeConverged(h)
    BY <1>1, <1>12
  <2> HIDE DEF j
  <2>2. /\ Core(j, ns) /\ j.IsNodeConverged /\ j.Valid = h.Valid /\ j.DtValid = h.Valid
        /\ j.IsPdFrozen = h.IsPdFrozen /\ j.IsInitialized = h.IsInitialized
    BY <1>9, <2>1, ConvergedKeeps
  <2> QED BY <1>8, <1>10, <1>12, <2>2 DEF j
<1> QED BY <1>11, <1>12

\* The check whether the current tier has a valid face left.
LEMMA SkipIfKeeps ==
  ASSUME NEW i, NEW ts, NEW ns, Agrees(i, ts, ns)
  PROVE  LET j == SkipIfAllInvalid(i)
         IN /\ Agrees(j, ts, ns) /\ Follows(i, j)
            /\ j.IsPdFrozen = i.IsPdFrozen /\ j.IsInitialized = i.IsInitialized
            /\ ~i.IsNodeConverged /\ j.IsNodeConverged => j.DtValid = j.Valid
            /\ ~isCurrentTierAllInvalid(i) => j = i
<1> DEFINE j == SkipIfAllInvalid(i)
<1>1. CASE ~isCurrentTierAllInvalid(i)
  <2>1. j = i
    BY <1>1 DEF SkipIfAllInvalid
  <2> HIDE DEF j
  <2> QED BY <2>1 DEF Follows, j
<1>2. CASE isCurrentTierAllInvalid(i)
  <2>1. j = skipTier(i)
    BY <1>2 DEF SkipIfAllInvalid
  <2> HIDE DEF j
  <2>2. /\ Core(j, ns) /\ j.IsNodeConverged /\ j.Valid \subseteq i.Valid
        /\ j.DtValid = IF i.IsNodeConverged THEN i.DtValid ELSE j.Valid
        /\ j.IsPdFrozen = i.IsPdFrozen /\ j.IsInitialized = i.IsInitialized
    BY <2>1, SkipKeeps DEF Agrees
  <2>3. Follows(i, j)
    BY <2>2 DEF Follows
  <2> QED BY <1>2, <2>2, <2>3 DEF Agrees, j
<1> QED BY <1>1, <1>2

\* A tier is probed. The producer converges with it.
LEMMA ProbeTierKeeps ==
  ASSUME NEW i, NEW ts, NEW ns, Agrees(i, ts, ns), ~i.IsNodeConverged, NEW k \in Nat \ {0}
  PROVE  LET j == ProbeTier(i, k)
         IN /\ Agrees(j, ts, ns) /\ Follows(i, j) /\ j.Valid = i.Valid
            /\ j.IsPdFrozen = i.IsPdFrozen /\ j.IsInitialized = i.IsInitialized
            /\ j.IsNodeConverged => j.DtValid = j.Valid
            /\ j.ProbeIndex = i.ProbeIndex
<1> DEFINE j == ProbeTier(i, k)
           tier == i.WaitList[k]
           new == Listed(tier \ Range(i.Probed))
           p == i.Probed \o new
           h == [i EXCEPT !.Probed = p, !.ConvergedTier = i.ConvergedTier \cup tier]
<1>0. /\ i \in PathDiscoveryInfo /\ i.WaitList \in Seq(SUBSET Faces)
      /\ i.Probed \in Seq(Faces) /\ i.Valid \subseteq Faces /\ i.ConvergedTier \subseteq Faces
      /\ Core(i, ns) /\ Probing(i, ts)
      /\ TierFaces(i.WaitList) = i.Valid /\ IsInjective(i.Probed)
  BY DEF Agrees, Core, PathDiscoveryInfo
<1>1. CASE k > Len(i.WaitList)
  <2>1. j = i
    BY <1>1 DEF ProbeTier
  <2> HIDE DEF j
  <2> QED BY <2>1 DEF Follows, j
<1>2. CASE ~(k > Len(i.WaitList))
  <2>1. k \in DOMAIN i.WaitList /\ tier \subseteq Faces /\ tier \subseteq i.Valid
    <3>1. k \in 1 .. Len(i.WaitList)
      BY <1>0, <1>2
    <3> QED BY <1>0, <3>1, TierInUnion
  <2>2. j = IF role = "producer" THEN localNodeConverged(h) ELSE h
    BY <1>2 DEF ProbeTier
  <2> HIDE DEF tier, j
  <2>3. new \in Seq(Faces) /\ Range(new) = tier \ Range(i.Probed) /\ IsInjective(new)
    <3> DEFINE S == tier \ Range(i.Probed)
    <3>1. S \subseteq Faces
      BY <2>1
    <3>2. IsFiniteSet(S)
      BY <3>1, PathDiscoveryAssumption, FS_Subset
    <3> HIDE DEF S
    <3>3. Listed(S) \in Seq(S) /\ Range(Listed(S)) = S /\ IsInjective(Listed(S))
      BY <3>2, ListedIs
    <3>4. Listed(S) \in Seq(Faces)
      BY <3>1, <3>3
    <3> QED BY <3>3, <3>4 DEF S
  <2> HIDE DEF new
  <2>4. /\ p \in Seq(Faces) /\ IsInjective(p)
        /\ Range(p) = Range(i.Probed) \cup tier
    <3>1. Range(i.Probed) \cap Range(new) = {}
      BY <2>3
    <3>2. p \in Seq(Faces) /\ IsInjective(p) /\ Range(p) = Range(i.Probed) \cup Range(new)
      BY <1>0, <2>3, <3>1, ConcatIs
    <3> HIDE DEF p
    <3> QED BY <2>3, <3>2
  <2> HIDE DEF p
  <2>5. h \in PathDiscoveryInfo
    BY <1>0, <2>1, <2>4 DEF PathDiscoveryInfo
  <2>6. /\ h.Valid = i.Valid /\ h.WaitList = i.WaitList /\ h.Probed = p
        /\ h.ConvergedTier = i.ConvergedTier \cup tier /\ h.ConvergedNode = i.ConvergedNode
        /\ h.IsNodeConverged = i.IsNodeConverged /\ h.IsPdFrozen = i.IsPdFrozen
        /\ h.IsInitialized = i.IsInitialized /\ h.DtValid = i.DtValid
        /\ h.TierList = i.TierList /\ h.ProbeIndex = i.ProbeIndex
    BY <1>0 DEF PathDiscoveryInfo
  <2> HIDE DEF h
  <2>7. Core(h, ns)
    BY <1>0, <2>4, <2>5, <2>6 DEF Core
  <2>8. Probing(h, ts)
    BY <1>0, <2>1, <2>4, <2>6 DEF Probing
  <2>9. CASE role # "producer"
    <3>1. j = h
      BY <2>2, <2>9
    <3>2. Follows(i, j)
      BY <2>6, <3>1 DEF Follows
    <3> QED BY <2>6, <2>7, <2>8, <3>1, <3>2 DEF Agrees, j
  <2>10. CASE role = "producer"
    <3>1. /\ Core(j, ns) /\ j.IsNodeConverged /\ j.Valid = h.Valid /\ j.DtValid = h.Valid
          /\ j.IsPdFrozen = h.IsPdFrozen /\ j.IsInitialized = h.IsInitialized
          /\ j.ProbeIndex = h.ProbeIndex
      BY <2>2, <2>7, <2>10, ConvergedKeeps
    <3>2. Follows(i, j)
      BY <2>6, <3>1 DEF Follows
    <3> QED BY <2>6, <3>1, <3>2 DEF Agrees, j
  <2> QED BY <2>9, <2>10
<1> QED BY <1>1, <1>2

\* The snapshot of the next hops is taken anew.
LEMMA RefreshKeeps ==
  ASSUME NEW i, NEW ts, NEW ns, Agrees(i, ts, ns), ~i.IsNodeConverged, NEW hops, HopsOK(hops)
  PROVE  LET j == refreshSnapshot(i, hops)
         IN /\ Agrees(j, ts, ns) /\ Follows(i, j) /\ ~j.IsNodeConverged
            /\ j.IsInitialized = i.IsInitialized
<1> DEFINE j == refreshSnapshot(i, hops)
           gone == i.Valid \ DOMAIN hops
           valid == i.Valid \cap DOMAIN hops
           tiers == groupHopsByCost(hops)
           filtered == Within(tiers, valid)
           probed == Keep(i.Probed, valid)
           rr == IF i.RR > Len(probed) THEN 1 ELSE i.RR
           cur == IF i.CurrentTier > Len(tiers) THEN Len(tiers) ELSE i.CurrentTier
<1>0. /\ i \in PathDiscoveryInfo
      /\ i.Probed \in Seq(Faces) /\ i.Valid \subseteq Faces /\ i.ConvergedTier \subseteq Faces
      /\ i.ConvergedNode \subseteq Faces /\ i.Frozen \subseteq Faces /\ i.Recover \subseteq Faces
      /\ i.RR \in Nat \ {0} /\ i.CurrentTier \in Nat
      /\ Core(i, ns) /\ Probing(i, ts)
  BY DEF Agrees, Core, PathDiscoveryInfo
<1>1. CASE DOMAIN hops = {}
  <2>1. j = i
    BY <1>1 DEF refreshSnapshot
  <2> HIDE DEF j
  <2> QED BY <2>1 DEF Follows, j
<1>2. CASE DOMAIN hops # {}
  <2>1. /\ tiers \in Seq(SUBSET Faces) /\ TierFaces(tiers) = DOMAIN hops /\ Disjoint(tiers)
        /\ Len(tiers) \in Nat
    BY <1>2, Grouped
  <2>2. j = [i EXCEPT !.Valid = valid,
                      !.ConvergedTier = i.ConvergedTier \ gone,
                      !.ConvergedNode = i.ConvergedNode \ gone,
                      !.Frozen = i.Frozen \ gone, !.Recover = i.Recover \ gone,
                      !.TierList = filtered, !.WaitList = filtered, !.Probed = probed,
                      !.RR = rr, !.CurrentTier = cur]
    BY <1>2 DEF refreshSnapshot, Within
  <2> HIDE DEF tiers, j
  <2>3. /\ filtered \in Seq(SUBSET Faces) /\ Disjoint(filtered)
        /\ TierFaces(filtered) = valid
    <3>1. TierFaces(filtered) = DOMAIN hops \cap valid
      BY <2>1, WithinIs
    <3> QED BY <2>1, <3>1, WithinIs
  <2>4. /\ probed \in Seq(Faces) /\ IsInjective(probed)
        /\ Range(probed) = Range(i.Probed) \cap valid
    <3> HIDE DEF valid
    <3> QED BY <1>0, KeepIs DEF Core
  <2>5. rr \in Nat \ {0} /\ cur \in Nat
    BY <1>0, <2>1
  <2> HIDE DEF filtered, probed, rr, cur
  <2>6. j \in PathDiscoveryInfo
    BY <1>0, <2>2, <2>3, <2>4, <2>5 DEF PathDiscoveryInfo
  <2>7. /\ j.Valid = valid /\ j.WaitList = filtered /\ j.Probed = probed
        /\ j.ConvergedTier = i.ConvergedTier \ gone
        /\ j.ConvergedNode = i.ConvergedNode \ gone
        /\ j.IsNodeConverged = i.IsNodeConverged
        /\ j.IsInitialized = i.IsInitialized /\ j.DtValid = i.DtValid
        /\ j.TierList = filtered
    BY <1>0, <2>2 DEF PathDiscoveryInfo
  <2>8. Core(j, ns)
    BY <1>0, <2>3, <2>4, <2>6, <2>7 DEF Core
  <2>9. Probing(j, ts)
    BY <1>0, <2>4, <2>7 DEF Probing
  <2>10. Follows(i, j)
    BY <2>7 DEF Follows
  <2> QED BY <2>7, <2>8, <2>9, <2>10 DEF Agrees, j
<1> QED BY <1>1, <1>2

\* A change of the frozen faces disturbs nothing.
LEMMA FreezeKeeps ==
  ASSUME NEW i, NEW ts, NEW ns, Agrees(i, ts, ns), NEW f
  PROVE  LET j == Freeze(i, f)
         IN /\ Agrees(j, ts, ns) /\ Follows(i, j) /\ j.IsNodeConverged = i.IsNodeConverged
            /\ j.IsInitialized = i.IsInitialized
<1> DEFINE j == Freeze(i, f)
           tier == UNION {i.WaitList[k] : k \in {m \in DOMAIN i.WaitList : f \in i.WaitList[m]}}
<1>0. /\ i \in PathDiscoveryInfo /\ i.WaitList \in Seq(SUBSET Faces)
      /\ i.Frozen \subseteq Faces /\ i.Recover \subseteq Faces /\ Core(i, ns)
  BY DEF Agrees, Core, PathDiscoveryInfo
<1>1. CASE i.IsPdFrozen
  <2>1. j = i
    BY <1>1 DEF Freeze
  <2> HIDE DEF j
  <2> QED BY <2>1 DEF Follows, j
<1>2. CASE ~i.IsPdFrozen
  <2>1. tier \subseteq Faces
    BY <1>0
  <2>2. j = [i EXCEPT !.IsPdFrozen = TRUE, !.Frozen = i.Frozen \cup tier,
                      !.Recover = i.Recover \cup tier]
    BY <1>2 DEF Freeze
  <2> HIDE DEF j, tier
  <2>3. j \in PathDiscoveryInfo
    BY <1>0, <2>1, <2>2 DEF PathDiscoveryInfo
  <2>4. /\ j.Valid = i.Valid /\ j.WaitList = i.WaitList /\ j.Probed = i.Probed
        /\ j.ConvergedTier = i.ConvergedTier /\ j.ConvergedNode = i.ConvergedNode
        /\ j.IsNodeConverged = i.IsNodeConverged
        /\ j.IsInitialized = i.IsInitialized /\ j.DtValid = i.DtValid
        /\ j.TierList = i.TierList
    BY <1>0, <2>2 DEF PathDiscoveryInfo
  <2>5. Core(j, ns)
    BY <1>0, <2>3, <2>4 DEF Core
  <2>6. ~j.IsNodeConverged => Probing(j, ts)
    BY <2>4 DEF Agrees, Probing
  <2>7. Follows(i, j)
    BY <2>4 DEF Follows
  <2> QED BY <2>4, <2>5, <2>6, <2>7 DEF Agrees, j
<1> QED BY <1>1, <1>2

\* The face an Interest came from is frozen or excluded.
LEMMA IngressKeeps ==
  ASSUME NEW i, NEW ts, NEW ns, Agrees(i, ts, ns), NEW f
  PROVE  LET j == ManageIngress(i, f)
         IN /\ Agrees(j, ts, ns) /\ Follows(i, j) /\ j.IsNodeConverged = i.IsNodeConverged
            /\ j.IsInitialized = i.IsInitialized
            /\ f \notin Range(i.Probed) => j.IsPdFrozen = i.IsPdFrozen
<1>1. CASE f \in Range(i.Probed)
  BY <1>1, FreezeKeeps DEF ManageIngress
<1>2. CASE f \notin Range(i.Probed)
  BY <1>2, ExcludeKeeps DEF ManageIngress
<1> QED BY <1>1, <1>2

\* The delayed removal of the frozen tier.
LEMMA ThawKeeps ==
  ASSUME NEW i, NEW ts, NEW ns, Agrees(i, ts, ns), NEW g
  PROVE  LET j == Thaw(i, g)
         IN /\ Agrees(j, ts, ns) /\ Follows(i, j)
            /\ j.IsInitialized = i.IsInitialized
            /\ ~i.IsPdFrozen => j = i
<1> DEFINE j == Thaw(i, g)
           w == removeFromWaitList(i.WaitList, i.Recover)
           p == Keep(i.Probed, Faces \ i.Recover)
<1>0. /\ i \in PathDiscoveryInfo /\ i.WaitList \in Seq(SUBSET Faces) /\ i.Probed \in Seq(Faces)
      /\ i.Frozen \subseteq Faces /\ i.Recover \subseteq Faces /\ i.Valid \subseteq Faces
      /\ Core(i, ns)
  BY DEF Agrees, Core, PathDiscoveryInfo
<1>1. CASE ~i.IsPdFrozen \/ g \notin i.Frozen
  <2>1. j = i
    BY <1>1 DEF Thaw
  <2> HIDE DEF j
  <2> QED BY <2>1 DEF Follows, j
<1>2. CASE i.IsPdFrozen /\ g \in i.Frozen /\ i.Frozen # {g}
  <2>1. j = [i EXCEPT !.Frozen = i.Frozen \ {g}]
    BY <1>2 DEF Thaw
  <2> HIDE DEF j
  <2>2. j \in PathDiscoveryInfo
    BY <1>0, <2>1 DEF PathDiscoveryInfo
  <2>3. /\ j.Valid = i.Valid /\ j.WaitList = i.WaitList /\ j.Probed = i.Probed
        /\ j.ConvergedTier = i.ConvergedTier /\ j.ConvergedNode = i.ConvergedNode
        /\ j.IsNodeConverged = i.IsNodeConverged
        /\ j.IsInitialized = i.IsInitialized /\ j.DtValid = i.DtValid
        /\ j.TierList = i.TierList
    BY <1>0, <2>1 DEF PathDiscoveryInfo
  <2>4. Core(j, ns)
    BY <1>0, <2>2, <2>3 DEF Core
  <2>5. ~j.IsNodeConverged => Probing(j, ts)
    BY <2>3 DEF Agrees, Probing
  <2>6. Follows(i, j)
    BY <2>3 DEF Follows
  <2> QED BY <1>2, <2>3, <2>4, <2>5, <2>6 DEF Agrees, j
<1>3. CASE i.IsPdFrozen /\ g \in i.Frozen /\ i.Frozen = {g}
  <2>1. j = [i EXCEPT !.IsPdFrozen = FALSE, !.Frozen = {}, !.Recover = {},
                      !.Valid = i.Valid \ i.Recover, !.WaitList = w,
                      !.ConvergedTier = i.ConvergedTier \ i.Recover,
                      !.ConvergedNode = i.ConvergedNode \ i.Recover, !.Probed = p]
    BY <1>3 DEF Thaw
  <2>2. /\ p \in Seq(Faces) /\ IsInjective(p)
        /\ Range(p) = Range(i.Probed) \cap (Faces \ i.Recover)
    BY <1>0, KeepIs DEF Core
  <2>3. /\ w \in Seq(SUBSET Faces) /\ Disjoint(w) /\ DOMAIN w = DOMAIN i.WaitList
        /\ TierFaces(w) = i.Valid \cap (Faces \ i.Recover)
        /\ \A k \in DOMAIN w : w[k] \subseteq i.WaitList[k]
    <3>1. w = Within(i.WaitList, Faces \ i.Recover)
      BY <1>0, RemovedFromWaitList
    <3>2. \A k \in DOMAIN i.WaitList : w[k] = i.WaitList[k] \ i.Recover
      BY DEF removeFromWaitList
    <3> HIDE DEF w
    <3>3. /\ w \in Seq(SUBSET Faces) /\ DOMAIN w = DOMAIN i.WaitList /\ Disjoint(w)
          /\ TierFaces(w) = TierFaces(i.WaitList) \cap (Faces \ i.Recover)
      BY <1>0, <3>1, WithinIs DEF Core
    <3> QED BY <1>0, <3>2, <3>3 DEF Core
  <2> HIDE DEF j, w, p
  <2>4. j \in PathDiscoveryInfo
    BY <1>0, <2>1, <2>2, <2>3 DEF PathDiscoveryInfo
  <2>5. /\ j.Valid = i.Valid \ i.Recover /\ j.WaitList = w /\ j.Probed = p
        /\ j.ConvergedTier = i.ConvergedTier \ i.Recover
        /\ j.ConvergedNode = i.ConvergedNode \ i.Recover
        /\ j.IsNodeConverged = i.IsNodeConverged
        /\ j.IsInitialized = i.IsInitialized /\ j.DtValid = i.DtValid
        /\ j.TierList = i.TierList
    BY <1>0, <2>1 DEF PathDiscoveryInfo
  <2>6. Core(j, ns)
    BY <1>0, <2>2, <2>3, <2>4, <2>5 DEF Core
  <2>7. ~j.IsNodeConverged => Probing(j, ts)
    <3> SUFFICES ASSUME ~i.IsNodeConverged PROVE Probing(j, ts)
      BY <2>5
    <3>1. Probing(i, ts)
      BY DEF Agrees
    <3>2. /\ j.ConvergedTier \subseteq Range(j.Probed) /\ Range(j.Probed) \subseteq j.Valid
          /\ Range(j.Probed) \ j.ConvergedTier \subseteq ts
      BY <1>0, <2>2, <2>5, <3>1 DEF Probing
    <3>3. /\ DOMAIN j.TierList = DOMAIN j.WaitList
          /\ \A k \in DOMAIN j.WaitList : j.WaitList[k] \subseteq j.TierList[k]
      BY <2>3, <2>5, <3>1 DEF Probing
    <3> QED BY <3>2, <3>3 DEF Probing
  <2>8. Follows(i, j)
    BY <2>5 DEF Follows
  <2> QED BY <1>3, <2>5, <2>6, <2>7, <2>8 DEF Agrees, j
<1> QED BY <1>1, <1>2, <1>3

\* The record of a prefix that no Interest has been accepted for.
Fresh(i) == /\ i \in PathDiscoveryInfo
            /\ i.Probed = <<>> /\ i.ConvergedTier = {} /\ i.DtValid = {}
            /\ ~i.IsNodeConverged /\ ~i.IsPdFrozen

\* Path discovery starts.
LEMMA StartKeeps ==
  ASSUME NEW i, Fresh(i), NEW ts, NEW ns, NEW hops, HopsOK(hops)
  PROVE  LET j == StartPathDiscovery(i, hops)
         IN /\ Agrees(j, ts, ns) /\ j.Valid \subseteq DOMAIN hops
            /\ ~j.IsPdFrozen /\ j.IsInitialized = i.IsInitialized
            /\ j.ProbeIndex = i.ProbeIndex
            /\ j.DtValid = IF j.IsNodeConverged THEN j.Valid ELSE {}
<1> DEFINE tiers == groupHopsByCost(hops)
           cheap == {f \in DOMAIN hops : \/ Rank(hops, hops[f]) = 1
                                         \/ \A g \in DOMAIN hops : hops[f] < 2 * hops[g]}
           wait == Within(tiers, cheap)
           h == [i EXCEPT !.TierList = tiers, !.WaitList = wait, !.CurrentTier = 1,
                          !.Valid = cheap, !.ConvergedNode = cheap, !.RR = 1]
           j == StartPathDiscovery(i, hops)
<1>0. i \in PathDiscoveryInfo
  BY DEF Fresh
<1>1. j = ProbeTier(h, 1)
  BY DEF StartPathDiscovery, Within
<1>2. cheap \subseteq DOMAIN hops /\ cheap \subseteq Faces
  BY DEF HopsOK
<1>3. tiers \in Seq(SUBSET Faces) /\ TierFaces(tiers) = DOMAIN hops /\ Disjoint(tiers)
  BY Grouped
<1> HIDE DEF tiers, cheap, j
<1>4. /\ wait \in Seq(SUBSET Faces) /\ Disjoint(wait) /\ DOMAIN wait = DOMAIN tiers
      /\ TierFaces(wait) = cheap
      /\ \A k \in DOMAIN wait : wait[k] \subseteq tiers[k]
  <2>1. \A k \in DOMAIN tiers : wait[k] \subseteq tiers[k]
    BY DEF Within
  <2> HIDE DEF wait
  <2>2. TierFaces(wait) = DOMAIN hops \cap cheap
    BY <1>3, WithinIs DEF wait
  <2>3. wait \in Seq(SUBSET Faces) /\ Disjoint(wait) /\ DOMAIN wait = DOMAIN tiers
    BY <1>3, WithinIs DEF wait
  <2> QED BY <1>2, <2>1, <2>2, <2>3
<1> HIDE DEF wait
<1>5. h \in PathDiscoveryInfo
  <2>1. cheap \in SUBSET Faces /\ tiers \in Seq(SUBSET Faces) /\ wait \in Seq(SUBSET Faces)
    BY <1>2, <1>3, <1>4
  <2>2. 1 \in Nat /\ 1 \in Nat \ {0}
    OBVIOUS
  <2> DEFINE h3 == [i EXCEPT !.TierList = tiers, !.WaitList = wait, !.CurrentTier = 1]
  <2>3. h3 \in PathDiscoveryInfo
    BY <1>0, <2>1, <2>2 DEF PathDiscoveryInfo
  <2>4. h = [h3 EXCEPT !.Valid = cheap, !.ConvergedNode = cheap, !.RR = 1]
    OBVIOUS
  <2> HIDE DEF h, h3
  <2> QED BY <2>1, <2>2, <2>3, <2>4 DEF PathDiscoveryInfo
<1>6. /\ h.Valid = cheap /\ h.WaitList = wait /\ h.Probed = <<>> /\ h.ConvergedTier = {}
      /\ h.ConvergedNode = cheap /\ ~h.IsNodeConverged /\ ~h.IsPdFrozen
      /\ h.IsInitialized = i.IsInitialized /\ h.DtValid = {} /\ h.TierList = tiers
      /\ h.ProbeIndex = i.ProbeIndex
  BY <1>0 DEF PathDiscoveryInfo, Fresh
<1> HIDE DEF h
<1>7. Range(<<>>) = {} /\ IsInjective(<<>>)
  BY DEF Range, IsInjective
<1>8. Core(h, ns)
  BY <1>4, <1>5, <1>6, <1>7 DEF Core
<1>9. Probing(h, ts)
  BY <1>4, <1>6, <1>7 DEF Probing
<1>10. /\ Agrees(j, ts, ns) /\ Follows(h, j) /\ j.Valid = h.Valid
       /\ j.IsPdFrozen = h.IsPdFrozen /\ j.IsInitialized = h.IsInitialized
       /\ j.IsNodeConverged => j.DtValid = j.Valid
       /\ j.ProbeIndex = h.ProbeIndex
  <2>1. Agrees(h, ts, ns) /\ 1 \in Nat \ {0}
    BY <1>8, <1>9 DEF Agrees
  <2> QED BY <1>1, <1>6, <2>1, ProbeTierKeeps
<1>11. ~j.IsNodeConverged => j.DtValid = {}
  BY <1>6, <1>10 DEF Follows
<1> QED BY <1>2, <1>6, <1>10, <1>11 DEF j

\* Only the collections matter.
LEMMA OthersDoNotMatter ==
  ASSUME NEW i, NEW ts, NEW ns, Agrees(i, ts, ns), NEW j \in PathDiscoveryInfo,
         j.Valid = i.Valid, j.WaitList = i.WaitList, j.Probed = i.Probed,
         j.ConvergedTier = i.ConvergedTier, j.ConvergedNode = i.ConvergedNode,
         j.IsNodeConverged = i.IsNodeConverged, j.TierList = i.TierList,
         j.DtValid = i.DtValid, j.IsInitialized = i.IsInitialized
  PROVE  Agrees(j, ts, ns) /\ Follows(i, j)
<1>1. Core(j, ns)
  BY DEF Agrees, Core
<1>2. ~j.IsNodeConverged => Probing(j, ts)
  BY DEF Agrees, Probing
<1>3. Follows(i, j)
  BY DEF Follows
<1> QED BY <1>1, <1>2, <1>3 DEF Agrees

\* The next stage.
LEMMA AdvancedKeeps ==
  ASSUME NEW i, NEW ts, NEW ns, Agrees(i, ts, ns), ~i.IsNodeConverged,
         NEW idx \in Nat, NEW hops, HopsOK(hops)
  PROVE  LET j == Advanced(i, idx, hops)
         IN /\ Agrees(j, ts, ns) /\ Follows(i, j) /\ j.IsInitialized = i.IsInitialized
            /\ i.ProbeIndex = idx => j = i
<1> DEFINE j == Advanced(i, idx, hops)
           r == refreshSnapshot(i, hops)
           a == [r EXCEPT !.ProbeIndex = idx]
           n == a.CurrentTier + 1
           b == [a EXCEPT !.CurrentTier = n]
<1>1. CASE ~(idx > i.ProbeIndex)
  <2>1. j = i
    BY <1>1 DEF Advanced
  <2> HIDE DEF j
  <2> QED BY <2>1 DEF Follows, j
<1>2. CASE idx > i.ProbeIndex
  <2>1. j = ProbeTier(b, n)
    BY <1>2 DEF Advanced, Refreshed, ProbeNextTier
  <2>2. idx # i.ProbeIndex
    <3>1. i.ProbeIndex \in Nat
      BY DEF Agrees, Core, PathDiscoveryInfo
    <3> QED BY <1>2, <3>1
  <2> HIDE DEF j
  <2>3. Agrees(r, ts, ns) /\ Follows(i, r) /\ ~r.IsNodeConverged /\ r.IsInitialized = i.IsInitialized
    BY RefreshKeeps
  <2> HIDE DEF r
  <2>4. r \in PathDiscoveryInfo
    BY <2>3 DEF Agrees, Core
  <2>5. a \in PathDiscoveryInfo /\ n \in Nat \ {0}
    <3>1. a \in PathDiscoveryInfo
      BY <2>4 DEF PathDiscoveryInfo
    <3> HIDE DEF a
    <3>2. a.CurrentTier \in Nat
      BY <3>1 DEF PathDiscoveryInfo
    <3> QED BY <3>1, <3>2
  <2>6. /\ a.Valid = r.Valid /\ a.WaitList = r.WaitList /\ a.Probed = r.Probed
        /\ a.ConvergedTier = r.ConvergedTier /\ a.ConvergedNode = r.ConvergedNode
        /\ a.IsNodeConverged = r.IsNodeConverged /\ a.TierList = r.TierList
        /\ a.DtValid = r.DtValid /\ a.IsInitialized = r.IsInitialized
    BY <2>4 DEF PathDiscoveryInfo
  <2> HIDE DEF a, n
  <2>7. b \in PathDiscoveryInfo
    BY <2>5 DEF PathDiscoveryInfo
  <2>8. /\ b.Valid = a.Valid /\ b.WaitList = a.WaitList /\ b.Probed = a.Probed
        /\ b.ConvergedTier = a.ConvergedTier /\ b.ConvergedNode = a.ConvergedNode
        /\ b.IsNodeConverged = a.IsNodeConverged /\ b.TierList = a.TierList
        /\ b.DtValid = a.DtValid /\ b.IsInitialized = a.IsInitialized
    BY <2>5 DEF PathDiscoveryInfo
  <2> HIDE DEF b
  <2>9. Agrees(b, ts, ns) /\ Follows(r, b)
    BY <2>3, <2>6, <2>7, <2>8, OthersDoNotMatter
  <2>10. Agrees(j, ts, ns) /\ Follows(b, j) /\ j.IsInitialized = b.IsInitialized
    BY <2>1, <2>3, <2>5, <2>6, <2>8, <2>9, ProbeTierKeeps
  <2>11. Follows(i, b)
    BY <2>3, <2>9, FollowsFollows
  <2>12. Follows(i, j)
    BY <2>10, <2>11, FollowsFollows
  <2> QED BY <2>2, <2>3, <2>6, <2>8, <2>10, <2>12 DEF j
<1> QED BY <1>1, <1>2

\* All that an Interest does to the record before it is forwarded.
LEMMA ManagedKeeps ==
  ASSUME NEW i, NEW ts, NEW ns, Agrees(i, ts, ns), NEW f, NEW idx \in Nat, NEW hops, HopsOK(hops)
  PROVE  LET m == Managed(i, f, idx, hops)
         IN /\ Agrees(m, ts, ns) /\ Follows(i, m) /\ m.IsInitialized = i.IsInitialized
            /\ i.ProbeIndex = idx /\ ~i.IsPdFrozen /\ f \notin i.Valid =>
                 /\ ~m.IsPdFrozen \/ i.IsNodeConverged
                 /\ m.IsNodeConverged /\ ~i.IsNodeConverged => m.DtValid = m.Valid
<1> DEFINE m == Managed(i, f, idx, hops)
           a == Advanced(i, idx, hops)
           b == ManageIngress(a, f)
<1>1. CASE i.IsNodeConverged
  <2>1. m = i
    BY <1>1 DEF Managed
  <2> HIDE DEF m
  <2> QED BY <1>1, <2>1 DEF Follows, m
<1>2. CASE ~i.IsNodeConverged
  <2>1. m = SkipIfAllInvalid(b)
    BY <1>2 DEF Managed
  <2> HIDE DEF m
  <2>2. /\ Agrees(a, ts, ns) /\ Follows(i, a) /\ a.IsInitialized = i.IsInitialized
        /\ i.ProbeIndex = idx => a = i
    BY <1>2, AdvancedKeeps
  <2> HIDE DEF a
  <2>3. /\ Agrees(b, ts, ns) /\ Follows(a, b) /\ b.IsInitialized = a.IsInitialized
        /\ b.IsNodeConverged = a.IsNodeConverged
        /\ f \notin Range(a.Probed) => b.IsPdFrozen = a.IsPdFrozen
    BY <2>2, IngressKeeps
  <2> HIDE DEF b
  <2>4. /\ Agrees(m, ts, ns) /\ Follows(b, m) /\ m.IsInitialized = b.IsInitialized
        /\ m.IsPdFrozen = b.IsPdFrozen
        /\ ~b.IsNodeConverged /\ m.IsNodeConverged => m.DtValid = m.Valid
    BY <2>1, <2>3, SkipIfKeeps
  <2>5. Follows(i, b)
    BY <2>2, <2>3, FollowsFollows
  <2>6. Follows(i, m)
    BY <2>4, <2>5, FollowsFollows
  <2>7. ASSUME i.ProbeIndex = idx, ~i.IsPdFrozen, f \notin i.Valid
        PROVE  /\ ~m.IsPdFrozen
               /\ m.IsNodeConverged => m.DtValid = m.Valid
    <3>1. a = i
      BY <2>2, <2>7
    <3>2. Range(i.Probed) \subseteq i.Valid
      BY <1>2 DEF Agrees, Probing
    <3> QED BY <1>2, <2>3, <2>4, <2>7, <3>1, <3>2
  <2> QED BY <1>2, <2>2, <2>3, <2>4, <2>6, <2>7 DEF m
<1> QED BY <1>1, <1>2
-----------------------------------------------------------------------------
(***************************************************************************)
(* The steps. Before the first Interest the record is new, and nobody was  *)
(* asked: no answer can come.                                              *)
(***************************************************************************)
IInv == /\ TypeOK
        /\ Agrees(info, tierSaid, nodeSaid)
        /\ ~info.IsInitialized => Fresh(info) /\ asked = {}

\* How data transmission may start when record i becomes j.
Starts(i, j) ==
  IF j.IsNodeConverged /\ ~i.IsNodeConverged
  THEN /\ j.Valid \subseteq j.DtValid
       /\ j.DtValid \subseteq IF i.IsInitialized THEN i.Valid ELSE j.Valid
  ELSE j.DtValid = i.DtValid /\ (i.IsNodeConverged => j.IsNodeConverged)

\* What a step is to do.
StepOK == IInv' /\ DtStartsWithValid /\ ConvergenceHonest

\* A record that follows an initialised one starts data transmission properly.
LEMMA FollowsStarts ==
  ASSUME NEW i, NEW j, i.IsInitialized, Follows(i, j) PROVE Starts(i, j)
BY DEF Follows, Starts

\* The next hops that a handler sees are faces and have costs.
LEMMA NextHopsOK ==
  ASSUME TypeOK, NEW f, NEW X PROVE HopsOK(NextHops(f, X)) /\ f \notin DOMAIN NextHops(f, X)
BY PathDiscoveryAssumption DEF TypeOK, HopsOK, NextHops

\* The record an Interest is handled with.
LEMMA InitializedKeeps ==
  ASSUME IInv, NEW f, NEW idx \in Nat, NEW X
  PROVE  LET i == Initialized(idx, NextHops(f, X))
         IN /\ Agrees(i, tierSaid, nodeSaid) /\ i.IsInitialized
            /\ info.IsInitialized => i = info
            /\ ~info.IsInitialized =>
                 /\ i.ProbeIndex = idx /\ ~i.IsPdFrozen /\ f \notin i.Valid
                 /\ i.DtValid = IF i.IsNodeConverged THEN i.Valid ELSE {}
<1> DEFINE hops == NextHops(f, X)
           i == Initialized(idx, hops)
           n == [info EXCEPT !.IsInitialized = TRUE, !.ProbeIndex = idx]
<1>1. HopsOK(hops) /\ f \notin DOMAIN hops
  BY NextHopsOK DEF IInv
<1> HIDE DEF hops
<1>2. CASE info.IsInitialized
  <2>1. i = info
    BY <1>2 DEF Initialized
  <2> HIDE DEF i
  <2> QED BY <1>2, <2>1 DEF IInv, i, hops
<1>3. CASE ~info.IsInitialized
  <2>1. i = StartPathDiscovery(n, hops)
    BY <1>3 DEF Initialized
  <2> HIDE DEF i
  <2>2. info \in PathDiscoveryInfo /\ Fresh(info)
    BY <1>3 DEF IInv, TypeOK
  <2>3. n \in PathDiscoveryInfo /\ n.IsInitialized /\ n.ProbeIndex = idx
    BY <2>2 DEF PathDiscoveryInfo
  <2>4. /\ n.Probed = info.Probed /\ n.ConvergedTier = info.ConvergedTier
        /\ n.DtValid = info.DtValid /\ n.IsNodeConverged = info.IsNodeConverged
        /\ n.IsPdFrozen = info.IsPdFrozen
    BY <2>2 DEF PathDiscoveryInfo
  <2> HIDE DEF n
  <2>5. Fresh(n)
    BY <2>2, <2>3, <2>4 DEF Fresh
  <2>6. /\ Agrees(i, tierSaid, nodeSaid) /\ i.Valid \subseteq DOMAIN hops
        /\ ~i.IsPdFrozen /\ i.IsInitialized = n.IsInitialized
        /\ i.ProbeIndex = n.ProbeIndex
        /\ i.DtValid = IF i.IsNodeConverged THEN i.Valid ELSE {}
    BY <1>1, <2>1, <2>5, StartKeeps
  <2>7. f \notin i.Valid
    BY <1>1, <2>6
  <2> QED BY <1>3, <2>3, <2>6, <2>7 DEF i, hops
<1> QED BY <1>2, <1>3

\* What an Interest that is in range makes of the record.
LEMMA InterestKeeps ==
  ASSUME IInv, NEW f, NEW idx \in Nat, NEW X
  PROVE  LET hops == NextHops(f, X)
             m == Managed(Initialized(idx, hops), f, idx, hops)
         IN /\ Agrees(m, tierSaid, nodeSaid) /\ m.IsInitialized /\ Starts(info, m)
            /\ IF info.IsInitialized THEN Follows(info, m)
               ELSE ~m.IsPdFrozen
<1> DEFINE hops == NextHops(f, X)
           i == Initialized(idx, hops)
           m == Managed(i, f, idx, hops)
<1>1. HopsOK(hops)
  BY NextHopsOK DEF IInv
<1>2. /\ Agrees(i, tierSaid, nodeSaid) /\ i.IsInitialized
      /\ info.IsInitialized => i = info
      /\ ~info.IsInitialized =>
           /\ i.ProbeIndex = idx /\ ~i.IsPdFrozen /\ f \notin i.Valid
           /\ i.DtValid = IF i.IsNodeConverged THEN i.Valid ELSE {}
  BY InitializedKeeps
<1>a. i.IsNodeConverged => m = i
  BY DEF Managed
<1>b. Agrees(i, tierSaid, nodeSaid)
  BY <1>2
<1> HIDE DEF hops, i
<1>3. /\ Agrees(m, tierSaid, nodeSaid) /\ Follows(i, m) /\ m.IsInitialized = i.IsInitialized
      /\ i.ProbeIndex = idx /\ ~i.IsPdFrozen /\ f \notin i.Valid =>
           /\ ~m.IsPdFrozen \/ i.IsNodeConverged
           /\ m.IsNodeConverged /\ ~i.IsNodeConverged => m.DtValid = m.Valid
  BY <1>1, <1>b, ManagedKeeps
<1> HIDE DEF m
<1>4. CASE info.IsInitialized
  <2>1. Follows(info, m)
    BY <1>2, <1>3, <1>4
  <2> QED BY <1>2, <1>3, <1>4, <2>1, FollowsStarts DEF m, i, hops
<1>5. CASE ~info.IsInitialized
  <2>1. ~info.IsNodeConverged /\ info.DtValid = {}
    BY <1>5 DEF IInv, Fresh
  <2>2. ~m.IsPdFrozen
    BY <1>2, <1>3, <1>5, <1>a
  <2>3. m.DtValid = IF m.IsNodeConverged THEN m.Valid ELSE {}
    <3>1. CASE i.IsNodeConverged
      BY <1>2, <1>5, <1>a, <3>1
    <3>2. CASE ~i.IsNodeConverged /\ m.IsNodeConverged
      BY <1>2, <1>3, <1>5, <3>2
    <3>3. CASE ~i.IsNodeConverged /\ ~m.IsNodeConverged
      BY <1>2, <1>3, <1>5, <3>3 DEF Follows
    <3> QED BY <3>1, <3>2, <3>3
  <2>4. Starts(info, m)
    BY <1>5, <2>1, <2>3 DEF Starts
  <2> QED BY <1>2, <1>3, <1>5, <2>2, <2>4 DEF m, i, hops
<1> QED BY <1>4, <1>5

\* A step that leaves the roles, the FIB and the history alone, and sends no Data.
LEMMA StepOf ==
  ASSUME IInv, UNCHANGED <<role, fib, tierSaid, nodeSaid>>, asked' \subseteq Faces,
         Agrees(info', tierSaid, nodeSaid), info'.IsInitialized, Starts(info, info'),
         \A p \in out' : p.type # "data"
  PROVE  StepOK
<1>1. info' \in PathDiscoveryInfo
  BY DEF Agrees, Core
<1>2. TypeOK'
  BY <1>1 DEF IInv, TypeOK
<1>3. IInv'
  BY <1>2 DEF IInv
<1>4. DtStartsWithValid
  BY DEF Starts, DtStartsWithValid
<1>5. ConvergenceHonest
  BY DEF ConvergenceHonest
<1> QED BY <1>3, <1>4, <1>5 DEF StepOK

\* A step that leaves the record alone, and sends no Data.
LEMMA IdleStep ==
  ASSUME IInv, UNCHANGED <<role, info, asked, tierSaid, nodeSaid>>, fib' \in Fibs,
         \A p \in out' : p.type # "data"
  PROVE  StepOK
<1>1. TypeOK'
  BY DEF IInv, TypeOK
<1>2. IInv'
  BY <1>1 DEF IInv
<1>3. DtStartsWithValid
  BY DEF DtStartsWithValid
<1>4. ConvergenceHonest
  BY DEF ConvergenceHonest
<1> QED BY <1>2, <1>3, <1>4 DEF StepOK

\* Two fields that matter to no collection.
LEMMA MarkedKeeps ==
  ASSUME NEW i, NEW ts, NEW ns, Agrees(i, ts, ns), NEW r \in Nat \ {0}
  PROVE  /\ LET j == [i EXCEPT !.IsInvalidNode = TRUE]
            IN /\ Agrees(j, ts, ns) /\ Follows(i, j) /\ j.IsInitialized = i.IsInitialized
               /\ j.IsPdFrozen = i.IsPdFrozen
               /\ j.Valid = i.Valid /\ j.DtValid = i.DtValid
               /\ j.IsNodeConverged = i.IsNodeConverged
               /\ Fresh(i) => Fresh(j)
         /\ LET j == [i EXCEPT !.RR = r]
            IN /\ Agrees(j, ts, ns) /\ Follows(i, j) /\ j.IsInitialized = i.IsInitialized
               /\ j.IsPdFrozen = i.IsPdFrozen
               /\ j.Valid = i.Valid /\ j.DtValid = i.DtValid
               /\ j.IsNodeConverged = i.IsNodeConverged
<1>0. i \in PathDiscoveryInfo
  BY DEF Agrees, Core
<1> DEFINE j == [i EXCEPT !.IsInvalidNode = TRUE]
           k == [i EXCEPT !.RR = r]
<1>1. j \in PathDiscoveryInfo
  BY <1>0 DEF PathDiscoveryInfo
<1>2. /\ j.Valid = i.Valid /\ j.WaitList = i.WaitList /\ j.Probed = i.Probed
      /\ j.ConvergedTier = i.ConvergedTier /\ j.ConvergedNode = i.ConvergedNode
      /\ j.IsNodeConverged = i.IsNodeConverged /\ j.TierList = i.TierList
      /\ j.DtValid = i.DtValid /\ j.IsInitialized = i.IsInitialized
      /\ j.IsPdFrozen = i.IsPdFrozen
  BY <1>0 DEF PathDiscoveryInfo
<1>3. k \in PathDiscoveryInfo
  BY <1>0 DEF PathDiscoveryInfo
<1>4. /\ k.Valid = i.Valid /\ k.WaitList = i.WaitList /\ k.Probed = i.Probed
      /\ k.ConvergedTier = i.ConvergedTier /\ k.ConvergedNode = i.ConvergedNode
      /\ k.IsNodeConverged = i.IsNodeConverged /\ k.TierList = i.TierList
      /\ k.DtValid = i.DtValid /\ k.IsInitialized = i.IsInitialized
      /\ k.IsPdFrozen = i.IsPdFrozen
  BY <1>0 DEF PathDiscoveryInfo
<1> HIDE DEF j, k
<1>5. Agrees(j, ts, ns) /\ Follows(i, j)
  BY <1>1, <1>2, OthersDoNotMatter
<1>6. Agrees(k, ts, ns) /\ Follows(i, k)
  BY <1>3, <1>4, OthersDoNotMatter
<1>7. Fresh(i) => Fresh(j)
  BY <1>1, <1>2 DEF Fresh
<1> QED BY <1>2, <1>4, <1>5, <1>6, <1>7 DEF j, k

\* Starting is kept by a record with the same faces.
LEMMA StartsSame ==
  ASSUME NEW h, NEW i, NEW j, Starts(h, i), j.Valid = i.Valid, j.DtValid = i.DtValid,
         j.IsNodeConverged = i.IsNodeConverged
  PROVE  Starts(h, j)
BY DEF Starts

\* An irrelevant Interest.
LEMMA RefusedStep ==
  ASSUME IInv, NEW own, PdInterestRefused(own) PROVE StepOK
<1>0. /\ Agrees(info, tierSaid, nodeSaid) /\ 1 \in Nat \ {0}
      /\ info' = [info EXCEPT !.IsInvalidNode = TRUE]
  BY DEF IInv, PdInterestRefused
<1>1. /\ Agrees(info', tierSaid, nodeSaid) /\ Follows(info, info')
      /\ info'.IsInitialized = info.IsInitialized
      /\ Fresh(info) => Fresh(info')
      /\ info'.Valid = info.Valid /\ info'.DtValid = info.DtValid
      /\ info'.IsNodeConverged = info.IsNodeConverged
  BY <1>0, MarkedKeeps
<1>2. \A p \in out' : p.type # "data"
  BY DEF PdInterestRefused, Nack
<1>3. UNCHANGED <<role, fib, asked, tierSaid, nodeSaid>>
  BY DEF PdInterestRefused
<1>4. TypeOK'
  <2>1. info' \in PathDiscoveryInfo
    BY <1>1 DEF Agrees, Core
  <2> QED BY <1>3, <2>1 DEF IInv, TypeOK
<1>5. IInv'
  BY <1>1, <1>3, <1>4 DEF IInv
<1>6. DtStartsWithValid
  BY <1>1 DEF DtStartsWithValid
<1>7. ConvergenceHonest
  BY <1>2 DEF ConvergenceHonest
<1> QED BY <1>5, <1>6, <1>7 DEF StepOK

\* The stages have run out, or the Interest is of an old one.
LEMMA OutOfRangeStep ==
  ASSUME IInv, NEW f, NEW idx \in Nat, NEW X, NEW own,
         PdInterestAccepted(own), PdInterestOutOfRange(f, idx, X)
  PROVE  StepOK
<1> DEFINE hops == NextHops(f, X)
           i == Initialized(idx, hops)
<1>1. HopsOK(hops)
  BY NextHopsOK DEF IInv
<1>2. /\ Agrees(i, tierSaid, nodeSaid) /\ i.IsInitialized
      /\ info.IsInitialized => i = info
      /\ ~info.IsInitialized => i.ProbeIndex = idx
  BY InitializedKeeps
<1>3. /\ OutOfRange(i, idx, hops) /\ info' = Refreshed(i, idx, hops)
      /\ out' = {} /\ asked' = asked
  BY DEF PdInterestOutOfRange
<1>4. UNCHANGED <<role, fib, tierSaid, nodeSaid>>
  BY DEF PdInterestAccepted
<1> HIDE DEF hops, i
<1>5. ~i.IsNodeConverged /\ i.ProbeIndex # idx
  <2>1. i.ProbeIndex \in Nat
    BY <1>2 DEF Agrees, Core, PathDiscoveryInfo
  <2> QED BY <1>3, <2>1 DEF OutOfRange
<1>6. info.IsInitialized /\ i = info
  BY <1>2, <1>5
<1>7. Agrees(info', tierSaid, nodeSaid) /\ Follows(info, info') /\ info'.IsInitialized
  <2>1. CASE idx > i.ProbeIndex
    <3>1. info' = refreshSnapshot(i, hops)
      BY <1>3, <1>5, <2>1 DEF Refreshed
    <3> QED BY <1>1, <1>2, <1>5, <1>6, <3>1, RefreshKeeps
  <2>2. CASE ~(idx > i.ProbeIndex)
    <3>1. info' = info
      BY <1>3, <1>6, <2>2 DEF Refreshed
    <3>2. Agrees(info, tierSaid, nodeSaid)
      BY DEF IInv
    <3> QED BY <1>6, <3>1, <3>2 DEF Follows
  <2> QED BY <2>1, <2>2
<1>8. Starts(info, info')
  BY <1>6, <1>7, FollowsStarts
<1>9. asked' \subseteq Faces /\ \A p \in out' : p.type # "data"
  BY <1>3 DEF IInv, TypeOK
<1> QED BY <1>4, <1>7, <1>8, <1>9, StepOf

\* No upstream is valid.
LEMMA NoRouteStep ==
  ASSUME IInv, NEW f, NEW idx \in Nat, NEW X, NEW own,
         PdInterestAccepted(own), PdInterestNoRoute(f, idx, X)
  PROVE  StepOK
<1> DEFINE hops == NextHops(f, X)
           m == Managed(Initialized(idx, hops), f, idx, hops)
<1>1. Agrees(m, tierSaid, nodeSaid) /\ m.IsInitialized /\ Starts(info, m)
  BY InterestKeeps
<1>2. info' = [m EXCEPT !.IsInvalidNode = TRUE] /\ out' = {Nack("NoRoute")} /\ asked' = asked
  BY DEF PdInterestNoRoute
<1>3. UNCHANGED <<role, fib, tierSaid, nodeSaid>>
  BY DEF PdInterestAccepted
<1> HIDE DEF m
<1>4. /\ Agrees(info', tierSaid, nodeSaid) /\ info'.IsInitialized
      /\ info'.Valid = m.Valid /\ info'.DtValid = m.DtValid
      /\ info'.IsNodeConverged = m.IsNodeConverged
  <2>1. 1 \in Nat \ {0}
    OBVIOUS
  <2>2. info' = [m EXCEPT !.IsInvalidNode = TRUE] /\ Agrees(m, tierSaid, nodeSaid)
    BY <1>1, <1>2
  <2>3. /\ Agrees(info', tierSaid, nodeSaid) /\ info'.IsInitialized = m.IsInitialized
        /\ info'.Valid = m.Valid /\ info'.DtValid = m.DtValid
        /\ info'.IsNodeConverged = m.IsNodeConverged
    BY <2>1, <2>2, MarkedKeeps
  <2> QED BY <1>1, <2>3
<1>5. Starts(info, info')
  BY <1>1, <1>4, StartsSame
<1>6. asked' \subseteq Faces /\ \A p \in out' : p.type # "data"
  BY <1>2 DEF IInv, TypeOK, Nack
<1> QED BY <1>3, <1>4, <1>5, <1>6, StepOf

\* No upstream is probed.
LEMMA UnsentStep ==
  ASSUME IInv, NEW f, NEW idx \in Nat, NEW X, NEW own,
         PdInterestAccepted(own), PdInterestUnsent(f, idx, X)
  PROVE  StepOK
<1> DEFINE hops == NextHops(f, X)
           m == Managed(Initialized(idx, hops), f, idx, hops)
<1>1. Agrees(m, tierSaid, nodeSaid) /\ m.IsInitialized /\ Starts(info, m)
  BY InterestKeeps
<1>2. info' = m /\ out' = {} /\ asked' = asked
  BY DEF PdInterestUnsent
<1>3. UNCHANGED <<role, fib, tierSaid, nodeSaid>>
  BY DEF PdInterestAccepted
<1> HIDE DEF m
<1>4. asked' \subseteq Faces /\ \A p \in out' : p.type # "data"
  BY <1>2 DEF IInv, TypeOK
<1> QED BY <1>1, <1>2, <1>3, <1>4, StepOf

\* A remainder is a natural number.
LEMMA Remainder == ASSUME NEW a \in Nat, NEW n \in Nat \ {0} PROVE a % n \in Nat
OBVIOUS

\* The Interest goes to the face whose turn it is.
LEMMA ForwardedStep ==
  ASSUME IInv, NEW f, NEW idx \in Nat, NEW X, NEW own,
         PdInterestAccepted(own), PdInterestForwarded(f, idx, X)
  PROVE  StepOK
<1> DEFINE hops == NextHops(f, X)
           m == Managed(Initialized(idx, hops), f, idx, hops)
           turn == IF m.RR > Len(m.Probed) THEN 1 ELSE m.RR
           g == m.Probed[turn]
           r == (turn % Len(m.Probed)) + 1
           n == [m EXCEPT !.RR = r]
<1>1. /\ Agrees(m, tierSaid, nodeSaid) /\ m.IsInitialized /\ Starts(info, m)
      /\ IF info.IsInitialized THEN Follows(info, m) ELSE ~m.IsPdFrozen
  BY InterestKeeps
<1>2. /\ m.Probed # <<>> /\ info' = Thaw(n, g)
      /\ out' = {[type |-> "interest", face |-> h] : h \in {g} \ {f}}
      /\ asked' = asked \cup ({g} \ {f})
  BY DEF PdInterestForwarded
<1>3. UNCHANGED <<role, fib, tierSaid, nodeSaid>>
  BY DEF PdInterestAccepted
<1> HIDE DEF m
<1>4. m.Probed \in Seq(Faces) /\ m.RR \in Nat \ {0}
  BY <1>1 DEF Agrees, Core, PathDiscoveryInfo
<1>5. Len(m.Probed) \in Nat \ {0} /\ DOMAIN m.Probed = 1 .. Len(m.Probed)
  BY <1>2, <1>4, EmptySeq, LenProperties
<1>6. turn \in 1 .. Len(m.Probed)
  BY <1>4, <1>5
<1>7. g \in Faces /\ r \in Nat \ {0}
  <2>1. g \in Faces
    BY <1>4, <1>5, <1>6
  <2> HIDE DEF turn
  <2>2. turn % Len(m.Probed) \in Nat
    <3>1. turn \in Nat
      BY <1>6
    <3> QED BY <1>5, <3>1, Remainder
  <2> QED BY <2>1, <2>2
<1> HIDE DEF turn, g, r
<1>8. /\ Agrees(n, tierSaid, nodeSaid) /\ Follows(m, n) /\ n.IsInitialized = m.IsInitialized
      /\ n.IsPdFrozen = m.IsPdFrozen
      /\ n.Valid = m.Valid /\ n.DtValid = m.DtValid /\ n.IsNodeConverged = m.IsNodeConverged
  BY <1>1, <1>7, MarkedKeeps
<1> HIDE DEF n
<1>9. /\ Agrees(info', tierSaid, nodeSaid) /\ Follows(n, info')
      /\ info'.IsInitialized = n.IsInitialized
      /\ ~n.IsPdFrozen => info' = n
  BY <1>2, <1>8, ThawKeeps
<1>10. Starts(info, info')
  <2>1. CASE info.IsInitialized
    <3>1. Follows(info, n)
      BY <1>1, <1>8, <2>1, FollowsFollows
    <3>2. Follows(info, info')
      BY <1>9, <3>1, FollowsFollows
    <3> QED BY <2>1, <3>2, FollowsStarts
  <2>2. CASE ~info.IsInitialized
    <3>1. info' = n
      BY <1>1, <1>8, <1>9, <2>2
    <3> QED BY <1>1, <1>8, <3>1, StartsSame
  <2> QED BY <2>1, <2>2
<1>11. asked' \subseteq Faces
  BY <1>2, <1>7 DEF IInv, TypeOK
<1>12. \A p \in out' : p.type # "data"
  BY <1>2
<1> QED BY <1>1, <1>3, <1>8, <1>9, <1>10, <1>11, <1>12, StepOf

\* A NACK: the face is excluded, and perhaps the rest of its tiers skipped.
LEMMA NoRouteKeeps ==
  ASSUME IInv, NEW f
  PROVE  LET j == AfterNoRoute(f)
         IN /\ Agrees(j, tierSaid, nodeSaid) /\ Follows(info, j)
            /\ j.IsInitialized = info.IsInitialized
            /\ ~info.IsNodeConverged /\ info.CurrentTier \in DOMAIN info.WaitList =>
                 info.WaitList[info.CurrentTier] \ {f} \subseteq j.Valid
<1> DEFINE h == IF info.IsPdFrozen THEN info ELSE Exclude(info, f)
           j == AfterNoRoute(f)
<1>0. Agrees(info, tierSaid, nodeSaid)
  BY DEF IInv
<1>1. /\ Agrees(h, tierSaid, nodeSaid) /\ Follows(info, h)
      /\ h.IsInitialized = info.IsInitialized
      /\ info.Valid \ {f} \subseteq h.Valid
      /\ h.TierList = info.TierList /\ h.CurrentTier = info.CurrentTier
  <2>1. CASE info.IsPdFrozen
    BY <1>0, <2>1 DEF Follows
  <2>2. CASE ~info.IsPdFrozen
    <3>1. h = Exclude(info, f)
      BY <2>2
    <3> HIDE DEF h
    <3> QED BY <1>0, <3>1, ExcludeKeeps
  <2> QED BY <2>1, <2>2
<1>2. j = SkipIfAllInvalid(h)
  BY DEF AfterNoRoute
<1> HIDE DEF h, j
<1>3. /\ Agrees(j, tierSaid, nodeSaid) /\ Follows(h, j)
      /\ j.IsInitialized = h.IsInitialized
      /\ ~isCurrentTierAllInvalid(h) => j = h
  BY <1>1, <1>2, SkipIfKeeps
<1>4. Follows(info, j)
  BY <1>1, <1>3, FollowsFollows
<1>5. ASSUME ~info.IsNodeConverged, info.CurrentTier \in DOMAIN info.WaitList
      PROVE  info.WaitList[info.CurrentTier] \ {f} \subseteq j.Valid
  <2> DEFINE c == info.CurrentTier
  <2>1. info.WaitList[c] \subseteq info.Valid
    <3>1. TierFaces(info.WaitList) = info.Valid
      BY <1>0 DEF Agrees, Core
    <3> QED BY <1>5, <3>1, TierInUnion
  <2>2. info.WaitList[c] \ {f} \subseteq h.Valid
    BY <1>1, <2>1
  <2>3. DOMAIN info.TierList = DOMAIN info.WaitList /\ info.WaitList[c] \subseteq info.TierList[c]
    BY <1>0, <1>5 DEF Agrees, Probing
  <2>4. info.TierList \in Seq(SUBSET Faces) /\ c \in Nat
    BY <1>0 DEF Agrees, Core, PathDiscoveryInfo
  <2>5. ~(c > Len(info.TierList))
    <3>1. c \in 1 .. Len(info.TierList)
      BY <1>5, <2>3, <2>4
    <3> QED BY <2>4, <3>1
  <2>6. CASE isCurrentTierAllInvalid(h)
    <3>1. info.TierList[c] \cap h.Valid = {}
      BY <1>1, <2>5, <2>6 DEF isCurrentTierAllInvalid
    <3> QED BY <2>2, <2>3, <3>1
  <2>7. CASE ~isCurrentTierAllInvalid(h)
    BY <1>3, <2>2, <2>7
  <2> QED BY <2>6, <2>7
<1> QED BY <1>1, <1>3, <1>4, <1>5 DEF j

\* A NACK from a face that was asked.
LEMMA NackStep ==
  ASSUME IInv, NEW f \in asked, handlePathDiscoveryNack(f) PROVE StepOK
<1>0. info.IsInitialized /\ fib \in Fibs /\ asked \subseteq Faces
  BY DEF IInv, TypeOK
<1> DEFINE j == AfterNoRoute(f)
<1>1. /\ Agrees(j, tierSaid, nodeSaid) /\ Follows(info, j)
      /\ j.IsInitialized = info.IsInitialized
  BY NoRouteKeeps
<1> HIDE DEF j
<1>2. CASE PdNackAtInvalidNode
  <2>1. /\ UNCHANGED <<role, info, fib, asked, tierSaid, nodeSaid>>
        /\ \A p \in out' : p.type # "data"
    BY <1>2 DEF PdNackAtInvalidNode, Nack
  <2> QED BY <1>0, <2>1, IdleStep
<1>3. CASE PdNackLastUpstream(f)
  <2>1. /\ UNCHANGED <<role, fib, asked, tierSaid, nodeSaid>>
        /\ info' = [j EXCEPT !.IsInvalidNode = TRUE]
        /\ \A p \in out' : p.type # "data"
    BY <1>3 DEF PdNackLastUpstream, Nack, j
  <2>2. 1 \in Nat \ {0}
    OBVIOUS
  <2>3. /\ Agrees(info', tierSaid, nodeSaid) /\ Follows(j, info')
        /\ info'.IsInitialized = j.IsInitialized
    BY <1>1, <2>1, <2>2, MarkedKeeps
  <2>4. Follows(info, info')
    BY <1>1, <2>3, FollowsFollows
  <2>5. Starts(info, info')
    BY <1>0, <2>4, FollowsStarts
  <2> QED BY <1>0, <1>1, <2>1, <2>3, <2>5, StepOf
<1>4. CASE PdNackAbsorbed(f)
  <2>1. /\ UNCHANGED <<role, fib, asked, tierSaid, nodeSaid>> /\ info' = j
        /\ \A p \in out' : p.type # "data"
    BY <1>4 DEF PdNackAbsorbed, Nack, j
  <2>2. Starts(info, info')
    BY <1>0, <1>1, <2>1, FollowsStarts
  <2> QED BY <1>0, <1>1, <2>1, <2>2, StepOf
<1>5. CASE PdNackNone
  <2>1. /\ UNCHANGED <<role, info, fib, asked, tierSaid, nodeSaid>>
        /\ \A p \in out' : p.type # "data"
    BY <1>5 DEF PdNackNone, Nack
  <2> QED BY <1>0, <2>1, IdleStep
<1> QED BY <1>2, <1>3, <1>4, <1>5 DEF handlePathDiscoveryNack

\* One more face has said that its tier, or its node, has converged.
LEMMA SaidKeeps ==
  ASSUME NEW i, NEW ts, NEW ns, Agrees(i, ts, ns), NEW f
  PROVE  /\ Agrees(i, ts \cup {f}, ns)
         /\ LET j == [i EXCEPT !.ConvergedTier = @ \ {f}]
            IN /\ Agrees(j, ts \cup {f}, ns) /\ Follows(i, j)
               /\ j.IsInitialized = i.IsInitialized
         /\ LET j == [i EXCEPT !.ConvergedNode = @ \ {f}]
            IN /\ Agrees(j, ts, ns \cup {f}) /\ Follows(i, j)
               /\ j.IsInitialized = i.IsInitialized /\ j.Probed = i.Probed
               /\ j.IsNodeConverged = i.IsNodeConverged
<1> DEFINE j == [i EXCEPT !.ConvergedTier = @ \ {f}]
           k == [i EXCEPT !.ConvergedNode = @ \ {f}]
<1>0. /\ i \in PathDiscoveryInfo /\ Core(i, ns) /\ (~i.IsNodeConverged => Probing(i, ts))
  BY DEF Agrees, Core
<1>1. j \in PathDiscoveryInfo
  BY <1>0 DEF PathDiscoveryInfo
<1>2. /\ j.Valid = i.Valid /\ j.WaitList = i.WaitList /\ j.Probed = i.Probed
      /\ j.ConvergedTier = i.ConvergedTier \ {f} /\ j.ConvergedNode = i.ConvergedNode
      /\ j.IsNodeConverged = i.IsNodeConverged /\ j.TierList = i.TierList
      /\ j.DtValid = i.DtValid /\ j.IsInitialized = i.IsInitialized
  BY <1>0 DEF PathDiscoveryInfo
<1>3. k \in PathDiscoveryInfo
  BY <1>0 DEF PathDiscoveryInfo
<1>4. /\ k.Valid = i.Valid /\ k.WaitList = i.WaitList /\ k.Probed = i.Probed
      /\ k.ConvergedTier = i.ConvergedTier /\ k.ConvergedNode = i.ConvergedNode \ {f}
      /\ k.IsNodeConverged = i.IsNodeConverged /\ k.TierList = i.TierList
      /\ k.DtValid = i.DtValid /\ k.IsInitialized = i.IsInitialized
  BY <1>0 DEF PathDiscoveryInfo
<1> HIDE DEF j, k
<1>5. Agrees(i, ts \cup {f}, ns)
  BY <1>0 DEF Agrees, Probing
<1>6. Agrees(j, ts \cup {f}, ns)
  <2>1. Core(j, ns)
    BY <1>0, <1>1, <1>2 DEF Core
  <2>2. ~j.IsNodeConverged => Probing(j, ts \cup {f})
    BY <1>0, <1>2 DEF Probing
  <2> QED BY <2>1, <2>2 DEF Agrees
<1>7. Agrees(k, ts, ns \cup {f})
  <2>1. Core(k, ns \cup {f})
    BY <1>0, <1>3, <1>4 DEF Core
  <2>2. ~k.IsNodeConverged => Probing(k, ts)
    BY <1>0, <1>4 DEF Probing
  <2> QED BY <2>1, <2>2 DEF Agrees
<1>8. Follows(i, j) /\ Follows(i, k)
  BY <1>2, <1>4 DEF Follows
<1> QED BY <1>2, <1>4, <1>5, <1>6, <1>7, <1>8 DEF j, k

\* The tier flag of Data.
LEMMA TierConvergedKeeps ==
  ASSUME IInv, NEW f
  PROVE  LET i == AfterTierConverged(f)
         IN /\ Agrees(i, tierSaid \cup {f}, nodeSaid) /\ Follows(info, i)
            /\ i.IsInitialized = info.IsInitialized
<1> DEFINE h == IF info.IsPdFrozen THEN info ELSE [info EXCEPT !.ConvergedTier = @ \ {f}]
           i == AfterTierConverged(f)
           ts == tierSaid \cup {f}
<1>0. Agrees(info, tierSaid, nodeSaid)
  BY DEF IInv
<1>1. /\ Agrees(h, ts, nodeSaid) /\ Follows(info, h)
      /\ h.IsInitialized = info.IsInitialized
  <2>1. CASE info.IsPdFrozen
    <3>1. h = info
      BY <2>1
    <3>2. Agrees(info, ts, nodeSaid)
      BY <1>0, SaidKeeps
    <3> HIDE DEF h
    <3> QED BY <3>1, <3>2 DEF Follows
  <2>2. CASE ~info.IsPdFrozen
    <3>1. h = [info EXCEPT !.ConvergedTier = @ \ {f}]
      BY <2>2
    <3> HIDE DEF h
    <3> QED BY <1>0, <3>1, SaidKeeps
  <2> QED BY <2>1, <2>2
<1>2. \/ i = h
      \/ ~h.IsNodeConverged /\ i = localNodeConverged(h)
  BY DEF AfterTierConverged
<1> HIDE DEF h, i, ts
<1>3. CASE i = h
  BY <1>1, <1>3 DEF i, ts
<1>4. CASE ~h.IsNodeConverged /\ i = localNodeConverged(h)
  <2>1. Core(h, nodeSaid)
    BY <1>1 DEF Agrees
  <2>2. /\ Core(i, nodeSaid) /\ i.IsNodeConverged
        /\ i.Valid = h.Valid /\ i.DtValid = h.Valid /\ i.IsInitialized = h.IsInitialized
    BY <1>4, <2>1, ConvergedKeeps
  <2>3. Agrees(i, ts, nodeSaid) /\ Follows(h, i)
    BY <1>4, <2>2 DEF Agrees, Follows
  <2>4. Follows(info, i)
    BY <1>1, <2>3, FollowsFollows
  <2> QED BY <1>1, <2>2, <2>3, <2>4 DEF i, ts
<1> QED BY <1>2, <1>3, <1>4

\* Data from a face that was asked.
LEMMA DataStep ==
  ASSUME IInv, NEW f \in asked, NEW tier \in BOOLEAN, NEW node \in BOOLEAN,
         handlePathDiscoveryData(f, tier, node)
  PROVE  StepOK
<1> DEFINE i == IF tier THEN AfterTierConverged(f) ELSE info
           j == IF node THEN [i EXCEPT !.ConvergedNode = @ \ {f}] ELSE i
<1>0. info.IsInitialized /\ f \in Faces /\ Agrees(info, tierSaid, nodeSaid)
  BY DEF IInv, TypeOK
<1>1. /\ info' = j
      /\ out' = {[type |-> "data",
                  tier |-> role = "producer" \/ (tier /\ i.ConvergedTier = {}),
                  node |-> node /\ j.IsNodeConverged /\ j.ConvergedNode = {}]}
      /\ tierSaid' = IF tier THEN tierSaid \cup {f} ELSE tierSaid
      /\ nodeSaid' = IF node THEN nodeSaid \cup {f} ELSE nodeSaid
      /\ UNCHANGED <<role, fib, asked>>
  BY DEF handlePathDiscoveryData
<1>2. Agrees(i, tierSaid', nodeSaid) /\ Follows(info, i) /\ i.IsInitialized = info.IsInitialized
  <2>1. CASE tier
    <3>1. i = AfterTierConverged(f) /\ tierSaid' = tierSaid \cup {f}
      BY <1>1, <2>1
    <3> HIDE DEF i
    <3> QED BY <3>1, TierConvergedKeeps
  <2>2. CASE ~tier
    <3>1. i = info /\ tierSaid' = tierSaid
      BY <1>1, <2>2
    <3> HIDE DEF i
    <3> QED BY <1>0, <3>1 DEF Follows
  <2> QED BY <2>1, <2>2
<1> HIDE DEF i
<1>3. /\ Agrees(j, tierSaid', nodeSaid') /\ Follows(i, j) /\ j.IsInitialized = i.IsInitialized
      /\ j.Probed = i.Probed /\ j.IsNodeConverged = i.IsNodeConverged
  <2>1. CASE node
    <3>1. j = [i EXCEPT !.ConvergedNode = @ \ {f}] /\ nodeSaid' = nodeSaid \cup {f}
      BY <1>1, <2>1
    <3> HIDE DEF j
    <3> QED BY <1>2, <3>1, SaidKeeps
  <2>2. CASE ~node
    <3>1. j = i /\ nodeSaid' = nodeSaid
      BY <1>1, <2>2
    <3> HIDE DEF j
    <3> QED BY <1>2, <3>1 DEF Follows
  <2> QED BY <2>1, <2>2
<1> HIDE DEF j
<1>4. Follows(info, j)
  BY <1>2, <1>3, FollowsFollows
<1>5. DtStartsWithValid
  <2>1. Starts(info, info')
    BY <1>0, <1>1, <1>4, FollowsStarts
  <2> QED BY <2>1 DEF Starts, DtStartsWithValid
<1>6. IInv'
  <2>1. info' \in PathDiscoveryInfo
    BY <1>1, <1>3 DEF Agrees, Core
  <2>2. tierSaid' \subseteq Faces /\ nodeSaid' \subseteq Faces
    BY <1>0, <1>1 DEF IInv, TypeOK
  <2>3. TypeOK'
    BY <1>1, <2>1, <2>2 DEF IInv, TypeOK
  <2>4. Agrees(info', tierSaid', nodeSaid') /\ info'.IsInitialized
    BY <1>0, <1>1, <1>2, <1>3
  <2> QED BY <2>3, <2>4 DEF IInv
<1>7. ConvergenceHonest
  <2>1. SUFFICES ASSUME NEW p \in out'
                 PROVE  /\ p.node => info'.IsNodeConverged /\ info'.Valid \subseteq nodeSaid'
                        /\ p.tier /\ ~info'.IsNodeConverged /\ role # "producer"
                             => Range(info'.Probed) \subseteq tierSaid'
    BY DEF ConvergenceHonest
  <2>2. /\ p.tier = (role = "producer" \/ (tier /\ i.ConvergedTier = {}))
        /\ p.node = (node /\ j.IsNodeConverged /\ j.ConvergedNode = {})
    BY <1>1
  <2>3. j.Valid \ j.ConvergedNode \subseteq nodeSaid'
    BY <1>3 DEF Agrees, Core
  <2>4. ~i.IsNodeConverged => Range(i.Probed) \ i.ConvergedTier \subseteq tierSaid'
    BY <1>2 DEF Agrees, Probing
  <2>5. ASSUME p.node PROVE info'.IsNodeConverged /\ info'.Valid \subseteq nodeSaid'
    BY <1>1, <2>2, <2>3, <2>5
  <2>6. ASSUME p.tier, ~info'.IsNodeConverged, role # "producer"
        PROVE  Range(info'.Probed) \subseteq tierSaid'
    BY <1>1, <1>3, <2>2, <2>4, <2>6
  <2> QED BY <2>5, <2>6
<1> QED BY <1>5, <1>6, <1>7 DEF StepOK

\* Every step.
LEMMA Step == ASSUME IInv, Next PROVE StepOK
<1>1. ASSUME NEW f \in Faces, NEW idx \in ProbeIndices, NEW own \in BOOLEAN, NEW X,
             handlePathDiscoveryInterest(f, idx, X, own)
      PROVE  StepOK
  <2>0. idx \in Nat
    BY PathDiscoveryAssumption
  <2>1. CASE PdInterestRefused(own)
    BY <2>1, RefusedStep
  <2>2. CASE PdInterestAccepted(own) /\ PdInterestOutOfRange(f, idx, X)
    BY <2>0, <2>2, OutOfRangeStep
  <2>3. CASE PdInterestAccepted(own) /\ PdInterestNoRoute(f, idx, X)
    BY <2>0, <2>3, NoRouteStep
  <2>4. CASE PdInterestAccepted(own) /\ PdInterestUnsent(f, idx, X)
    BY <2>0, <2>4, UnsentStep
  <2>5. CASE PdInterestAccepted(own) /\ PdInterestForwarded(f, idx, X)
    BY <2>0, <2>5, ForwardedStep
  <2> QED BY <1>1, <2>1, <2>2, <2>3, <2>4, <2>5 DEF handlePathDiscoveryInterest
<1>2. ASSUME NEW f \in asked, handlePathDiscoveryNack(f) PROVE StepOK
  BY <1>2, NackStep
<1>3. ASSUME NEW f \in asked, NEW tier \in BOOLEAN, NEW node \in BOOLEAN,
             handlePathDiscoveryData(f, tier, node)
      PROVE  StepOK
  BY <1>3, DataStep
<1>4. ASSUME PdDataUndecodable PROVE StepOK
  <2>1. /\ UNCHANGED <<role, info, fib, asked, tierSaid, nodeSaid>>
        /\ \A p \in out' : p.type # "data"
    BY <1>4 DEF PdDataUndecodable
  <2>2. fib' \in Fibs
    BY <2>1 DEF IInv, TypeOK
  <2> QED BY <2>1, <2>2, IdleStep
<1>5. ASSUME NEW new \in Fibs, ChangeFib(new) PROVE StepOK
  <2>1. /\ UNCHANGED <<role, info, asked, tierSaid, nodeSaid>> /\ fib' \in Fibs
        /\ \A p \in out' : p.type # "data"
    BY <1>5 DEF ChangeFib
  <2> QED BY <2>1, IdleStep
<1> QED BY <1>1, <1>2, <1>3, <1>4, <1>5 DEF Next

\* A NACK spares the current tier.
LEMMA NackSpares == ASSUME IInv PROVE NackSparesCurrentTier
<1> SUFFICES ASSUME ~info.IsNodeConverged, info.CurrentTier \in DOMAIN info.WaitList,
                    NEW f \in asked, PdNackLastUpstream(f) \/ PdNackAbsorbed(f)
             PROVE  info.WaitList[info.CurrentTier] \ {f} \subseteq info'.Valid
  BY DEF NackSparesCurrentTier
<1> DEFINE j == AfterNoRoute(f)
<1>1. /\ info.WaitList[info.CurrentTier] \ {f} \subseteq j.Valid
      /\ Agrees(j, tierSaid, nodeSaid)
  BY NoRouteKeeps
<1>2. info' = j \/ info' = [j EXCEPT !.IsInvalidNode = TRUE]
  BY DEF PdNackLastUpstream, PdNackAbsorbed
<1> HIDE DEF j
<1>3. 1 \in Nat \ {0}
  OBVIOUS
<1>4. info'.Valid = j.Valid
  BY <1>1, <1>2, <1>3, MarkedKeeps
<1> QED BY <1>1, <1>4
-----------------------------------------------------------------------------
(***************************************************************************)
(* The theorems.                                                           *)
(***************************************************************************)
\* The new record satisfies the invariant.
LEMMA InitIInv == ASSUME Init PROVE IInv
<1> DEFINE e == <<>>
<1>1. info = NewInfo /\ role \in Roles /\ fib \in Fibs
      /\ asked = {} /\ tierSaid = {} /\ nodeSaid = {}
  BY DEF Init
<1>2. /\ e \in Seq(Faces) /\ e \in Seq(SUBSET Faces) /\ DOMAIN e = {}
      /\ Range(e) = {} /\ TierFaces(e) = {} /\ IsInjective(e) /\ Disjoint(e)
  BY DEF Range, TierFaces, IsInjective, Disjoint
<1>3. /\ info.IsInitialized = FALSE /\ info.TierList = e /\ info.CurrentTier = 1
      /\ info.ProbeIndex = 0 /\ info.WaitList = e /\ info.Probed = e /\ info.RR = 1
      /\ info.ConvergedTier = {} /\ info.ConvergedNode = {} /\ info.IsNodeConverged = FALSE
      /\ info.Valid = {} /\ info.IsPdFrozen = FALSE /\ info.DtValid = {}
  BY <1>1 DEF NewInfo
<1> HIDE DEF e
<1>4. info \in PathDiscoveryInfo
  BY <1>1, <1>2 DEF PathDiscoveryInfo, NewInfo, e
<1>5. TypeOK
  BY <1>1, <1>4 DEF TypeOK
<1>6. Core(info, nodeSaid)
  BY <1>2, <1>3, <1>4 DEF Core
<1>7. Probing(info, tierSaid)
  BY <1>2, <1>3 DEF Probing
<1>8. Fresh(info)
  BY <1>3, <1>4 DEF Fresh, e
<1> QED BY <1>1, <1>5, <1>6, <1>7, <1>8 DEF IInv, Agrees

\* A step that changes nothing keeps the invariant.
LEMMA Stutter == ASSUME IInv, UNCHANGED vars PROVE IInv'
BY DEF IInv, TypeOK, vars

\* The inductive invariant holds: tiers stay disjoint, no face is probed twice, and
\* a face the node probes and no longer waits for has said that its tier converged.
THEOREM Invariance == Spec => []IInv
<1>1. Init => IInv
  BY InitIInv
<1>2. IInv /\ [Next]_vars => IInv'
  BY Step, Stutter DEF StepOK
<1> QED BY <1>1, <1>2, PTL DEF Spec

\* For all sets of faces, FIBs and stages: the wait list, the valid, the probed and
\* the awaited upstreams agree through every exclusion, refresh, skip and thaw.
THEOREM CollectionsHold == Spec => []CollectionsAgree
<1>1. IInv => CollectionsAgree
  BY DEF IInv, Agrees, Core, Probing, CollectionsAgree
<1> QED BY <1>1, Invariance, PTL

\* For all sets of faces, FIBs and stages: "converged" is passed downstream only
\* when each upstream concerned has said so.
THEOREM ConvergenceIsHonest == Spec => ConvergenceHonestProp
<1>1. IInv /\ [Next]_vars => [ConvergenceHonest]_vars
  BY Step DEF StepOK
<1> QED BY <1>1, Invariance, PTL DEF Spec, ConvergenceHonestProp

\* For all sets of faces, FIBs and stages: data transmission starts once, with every
\* upstream that is still valid and none that was excluded before.
THEOREM DtStartsRight == Spec => DtStartsWithValidProp
<1>1. IInv /\ [Next]_vars => [DtStartsWithValid]_vars
  BY Step DEF StepOK
<1> QED BY <1>1, Invariance, PTL DEF Spec, DtStartsWithValidProp

\* For all sets of faces, FIBs and stages: until the node converges, a NACK leaves
\* the other faces of the current tier valid.
THEOREM NackIsLocal == Spec => NackSparesCurrentTierProp
<1>1. IInv /\ [Next]_vars => [NackSparesCurrentTier]_vars
  BY NackSpares
<1> QED BY <1>1, Invariance, PTL DEF Spec, NackSparesCurrentTierProp
=============================================================================
