------------------------------ MODULE RibProofs ------------------------------
(***************************************************************************)
(* The RIB and the two FIB-strategy tables, for any names, faces, routes   *)
(* and virtual length: both tables implement the FIB-strategy table,       *)
(* lookups find the longest prefix, and with the lock of the RIB free the  *)
(* FIB is what the RIB stands for.                                         *)
(***************************************************************************)
EXTENDS Rib, SequenceTheorems, WellFoundedInduction, TLAPS

\* Zenon first: preparing a leaf for it takes far less than for the SMT solver.
USE ZenonT(5), SMTT(30), ZenonT(60), SMTT(60)

-----------------------------------------------------------------------------
(***************************************************************************)
(* The operations of the two FIB-strategy tables, for any set of names and *)
(* any virtual length: each changes the entry of one prefix and no other,  *)
(* and a lookup finds what the longest prefix that has it holds.           *)
(***************************************************************************)
\* A set of natural numbers has a least element.
LEMMA LeastNumber == ASSUME NEW T, T \subseteq Nat, T # {} PROVE \E x \in T : \A y \in T : x <= y
<1>1. \E x \in T : \A y \in T : <<y, x>> \notin OpToRel(<, Nat)
  BY NatLessThanWellFounded, WFMin
<1>2. \A x, y \in Nat : y < x => <<y, x>> \in OpToRel(<, Nat)
  BY DEF OpToRel
<1>3. \A x, y \in T : x \in Nat /\ y \in Nat /\ (~(y < x) => x <= y)
  OBVIOUS
<1> QED BY <1>1, <1>2, <1>3

\* What is above k is not below zero.
LEMMA AboveIsWithin == ASSUME NEW l \in Nat, NEW k \in 0..l, NEW j \in (k + 1)..l PROVE j \in 0..l
OBVIOUS

\* A set of integers with an upper bound has a greatest element.
LEMMA GreatestNumber ==
  ASSUME NEW hi \in Int, NEW T, T \subseteq Int, T # {}, \A x \in T : x <= hi
  PROVE  \E x \in T : \A y \in T : y <= x
<1> DEFINE D == {hi - x : x \in T}
<1>1. D \subseteq Nat /\ D # {}
  <2>1. \A x \in T : hi - x \in Nat
    OBVIOUS
  <2> QED BY <2>1
<1>2. PICK d \in D : \A e \in D : d <= e
  <2> HIDE DEF D
  <2> QED BY <1>1, LeastNumber
<1>3. PICK x \in T : d = hi - x
  BY <1>2
<1>4. ASSUME NEW y \in T PROVE y <= x
  <2>1. hi - y \in D
    OBVIOUS
  <2>2. x \in Int /\ y \in Int
    BY <1>3
  <2> HIDE DEF D
  <2> QED BY <2>1, <2>2, <1>2, <1>3
<1> QED BY <1>3, <1>4

-----------------------------------------------------------------------------
\* The first k components of a name are a name, and its prefixes are those of the
\* name that are no longer.
LEMMA PrefixIs ==
  ASSUME NEW n, IsName(n), NEW k \in 0..Len(n)
  PROVE  /\ IsName(Pfx(n, k)) /\ Len(Pfx(n, k)) = k
         /\ \A i \in 1..k : Pfx(n, k)[i] = n[i]
         /\ \A j \in 0..k : Pfx(Pfx(n, k), j) = Pfx(n, j)
<1> DEFINE S == {n[i] : i \in DOMAIN n}
<1>0. n \in Seq(S) /\ Len(n) \in Nat /\ DOMAIN n = 1..Len(n)
  BY LenProperties DEF IsName
<1>1. /\ Pfx(n, k) = [i \in 1..k |-> n[i]]
  BY <1>0 DEF Pfx
<1>2. Pfx(n, k) \in Seq({Pfx(n, k)[i] : i \in DOMAIN Pfx(n, k)}) /\ Len(Pfx(n, k)) = k
  BY <1>1
<1>3. ASSUME NEW j \in 0..k PROVE Pfx(Pfx(n, k), j) = Pfx(n, j)
  BY <1>0, <1>1, <1>2 DEF Pfx
<1> QED BY <1>1, <1>2, <1>3 DEF IsName

\* A name is its own longest prefix, and the root its shortest.
LEMMA WholeName == ASSUME NEW n, IsName(n)
                   PROVE  /\ Len(n) \in Nat /\ Pfx(n, Len(n)) = n /\ Pfx(n, 0) = Root
                          /\ Len(n) = 0 => n = Root
<1> DEFINE S == {n[i] : i \in DOMAIN n}
<1>0. n \in Seq(S) /\ Len(n) \in Nat /\ DOMAIN n = 1..Len(n)
  BY LenProperties DEF IsName
<1>1. Pfx(n, Len(n)) = n
  BY <1>0 DEF Pfx
<1>2. Pfx(n, 0) = <<>>
  BY <1>0 DEF Pfx
<1> QED BY <1>0, <1>1, <1>2 DEF Root

\* A loop that counts down stops at the greatest number it is to stop at.
LEMMA StopAtIs ==
  ASSUME NEW S, NEW lo \in Int, NEW hi \in Int, lo <= hi
  PROVE  LET k == StopAt(S, hi, lo)
         IN k \in lo..hi /\ (k = lo \/ k \in S) /\ \A j \in (k + 1)..hi : j \notin S
<1> DEFINE Stops(k) == {j \in lo..k : j = lo \/ j \in S}
           Top(k) == CHOOSE j \in Stops(k) : \A i \in Stops(k) : i <= j
           Eq(d) == d = [k \in lo..hi |-> IF k = lo \/ k \in S THEN k ELSE d[k - 1]]
           down == CHOOSE d : Eq(d)
           top == [k \in lo..hi |-> Top(k)]
<1>1. ASSUME NEW k \in lo..hi
      PROVE  Top(k) \in Stops(k) /\ \A i \in Stops(k) : i <= Top(k)
  <2>1. Stops(k) \subseteq Int /\ lo \in Stops(k) /\ k \in Int /\ \A i \in Stops(k) : i <= k
    OBVIOUS
  <2>2. \E j \in Stops(k) : \A i \in Stops(k) : i <= j
    <3> HIDE DEF Stops
    <3> QED BY <2>1, GreatestNumber
  <2> QED BY <2>2
<1>2. ASSUME NEW k \in lo..hi, k = lo \/ k \in S PROVE Top(k) = k
  <2>1. k \in Stops(k) /\ Stops(k) \subseteq Int /\ \A i \in Stops(k) : i <= k
    BY <1>2
  <2> HIDE DEF Stops
  <2> QED BY <1>1, <2>1
<1>3. ASSUME NEW k \in lo..hi, ~(k = lo \/ k \in S) PROVE k - 1 \in lo..hi /\ Top(k) = Top(k - 1)
  <2>1. k - 1 \in lo..hi
    BY <1>3
  <2>2. Stops(k) = Stops(k - 1)
    BY <1>3
  <2> QED BY <2>1, <2>2
<1>4. Eq(top)
  <2> HIDE DEF Top
  <2> QED BY <1>2, <1>3
<1>5. Eq(down)
  <2> HIDE DEF top, Eq
  <2> QED BY <1>4
<1>6. StopAt(S, hi, lo) = down[hi]
  BY DEF StopAt
<1> HIDE DEF down
<1>7. ASSUME NEW k \in lo..hi PROVE down[k] = Top(k)
  <2> DEFINE Bad == {i - lo : i \in {j \in lo..hi : down[j] # Top(j)}}
  <2> SUFFICES ASSUME Bad # {} PROVE FALSE
    OBVIOUS
  <2>1. Bad \subseteq Nat
    OBVIOUS
  <2>2. PICK b \in Bad : \A c \in Bad : b <= c
    <3> HIDE DEF Bad
    <3> QED BY <2>1, LeastNumber
  <2>3. PICK i \in lo..hi : b = i - lo /\ down[i] # Top(i)
    BY <2>2
  <2>4. down[i] = IF i = lo \/ i \in S THEN i ELSE down[i - 1]
    <3> HIDE DEF Top
    <3> QED BY <1>5
  <2>5. ~(i = lo \/ i \in S)
    BY <2>3, <2>4, <1>2
  <2>6. i - 1 \in lo..hi /\ Top(i) = Top(i - 1)
    BY <1>3, <2>5
  <2>7. down[i - 1] # Top(i - 1)
    <3> HIDE DEF Top
    <3> QED BY <2>3, <2>4, <2>5, <2>6
  <2>8. (i - 1) - lo \in Bad
    <3> HIDE DEF Top
    <3> QED BY <2>6, <2>7
  <2> HIDE DEF Bad
  <2> QED BY <2>2, <2>3, <2>8
<1>8. StopAt(S, hi, lo) = Top(hi)
  BY <1>6, <1>7
<1>9. Top(hi) \in Stops(hi) /\ \A i \in Stops(hi) : i <= Top(hi)
  BY <1>1
<1>10. ASSUME NEW t \in Stops(hi), \A i \in Stops(hi) : i <= t
       PROVE t \in lo..hi /\ (t = lo \/ t \in S) /\ \A j \in (t + 1)..hi : j \notin S
  BY <1>10
<1> HIDE DEF Top, Stops
<1> QED BY <1>8, <1>9, <1>10

-----------------------------------------------------------------------------
\* Tables of entries, and their changes.

Entry == [hops : [Faces -> Costs \cup {Ignored}],
          strategy : Strategies \cup {DefaultStrategy, NoStrategy}]

\* The root has an entry, and always a strategy.
IsTable(t) ==
  /\ DOMAIN t \subseteq Names /\ Root \in DOMAIN t /\ t \in [DOMAIN t -> Entry]
  /\ t[Root].strategy # NoStrategy

IsTree(t) == IsTable(t) /\ \A n \in DOMAIN t : \A k \in 0..Len(n) : Pfx(n, k) \in DOMAIN t

EntryOf(t, m) == IF m \in DOMAIN t THEN t[m] ELSE EmptyEntry

\* Two tables that hold the same, and two that differ in the entry of n.
Same(t, u) == \A m \in Names : EntryOf(u, m) = EntryOf(t, m)
Changes(t, u, n, e) == EntryOf(u, n) = e /\ \A m \in Names \ {n} : EntryOf(u, m) = EntryOf(t, m)

WithHop(e, f, c) == [e EXCEPT !.hops[f] = c]
WithoutHops(e) == [e EXCEPT !.hops = NoHops]
WithChoice(e, s) == [e EXCEPT !.strategy = s]

\* The changes of an entry give an entry.
LEMMA WithHopIs ==
  ASSUME NEW e \in Entry, NEW f \in Faces, NEW c \in Costs \cup {Ignored}
  PROVE  /\ WithHop(e, f, c) \in Entry /\ WithHop(e, f, c).strategy = e.strategy
         /\ WithHop(e, f, c).hops = [e.hops EXCEPT ![f] = c]
BY DEF WithHop, Entry

\* What ClearNextHops leaves of an entry.
LEMMA WithoutHopsIs ==
  ASSUME NEW e \in Entry
  PROVE  /\ WithoutHops(e) \in Entry /\ WithoutHops(e).strategy = e.strategy
         /\ WithoutHops(e).hops = NoHops
<1>1. NoHops \in [Faces -> Costs \cup {Ignored}]
  BY DEF NoHops
<1> QED BY <1>1 DEF WithoutHops, Entry

\* An entry with another strategy.
LEMMA WithChoiceIs ==
  ASSUME NEW e \in Entry, NEW s \in Strategies \cup {DefaultStrategy, NoStrategy}
  PROVE  /\ WithChoice(e, s) \in Entry /\ WithChoice(e, s).strategy = s
         /\ WithChoice(e, s).hops = e.hops
BY DEF WithChoice, Entry

\* Every name has an entry in every table, if only an empty one.
LEMMA EntryTyped == ASSUME NEW t, IsTable(t), NEW m PROVE EntryOf(t, m) \in Entry
<1>1. EmptyEntry \in Entry
  BY DEF EmptyEntry, Entry, NoHops
<1> QED BY <1>1 DEF EntryOf, IsTable

\* An entry that is there is overwritten.
LEMMA OverwriteIs ==
  ASSUME NEW t, IsTable(t), NEW n \in DOMAIN t, NEW e \in Entry,
         n = Root => e.strategy # NoStrategy
  PROVE  LET u == [t EXCEPT ![n] = e]
         IN IsTable(u) /\ DOMAIN u = DOMAIN t /\ (IsTree(t) => IsTree(u)) /\ Changes(t, u, n, e)
<1> DEFINE u == [t EXCEPT ![n] = e]
<1>1. DOMAIN u = DOMAIN t /\ u[n] = e /\ \A m \in DOMAIN t \ {n} : u[m] = t[m]
  BY DEF IsTable
<1>2. u \in [DOMAIN u -> Entry]
  BY DEF IsTable
<1> HIDE DEF u
<1>3. IsTable(u)
  BY <1>1, <1>2 DEF IsTable
<1>4. Changes(t, u, n, e)
  BY <1>1 DEF Changes, EntryOf
<1>5. IsTree(t) => IsTree(u)
  BY <1>1, <1>3 DEF IsTree
<1> QED BY <1>1, <1>3, <1>4, <1>5 DEF u

\* A missing entry stands for an empty one, which can be added.
LEMMA AddEmptyIs ==
  ASSUME NEW t, IsTable(t), NEW new \in SUBSET Names, NEW u,
         u = [m \in DOMAIN t \cup new |-> IF m \in DOMAIN t THEN t[m] ELSE EmptyEntry]
  PROVE  IsTable(u) /\ DOMAIN u = DOMAIN t \cup new /\ Same(t, u)
<1>1. EmptyEntry \in Entry
  BY DEF EmptyEntry, Entry, NoHops
<1>2. u \in [DOMAIN u -> Entry] /\ DOMAIN u = DOMAIN t \cup new
  BY <1>1 DEF IsTable
<1>3. \A m \in DOMAIN t : u[m] = t[m]
  OBVIOUS
<1>4. \A m \in DOMAIN u \ DOMAIN t : u[m] = EmptyEntry
  OBVIOUS
<1>5. IsTable(u)
  BY <1>2, <1>3 DEF IsTable
<1>6. Same(t, u)
  BY <1>2, <1>3, <1>4 DEF Same, EntryOf
<1> QED BY <1>2, <1>5, <1>6

\* An empty entry, which is not the root's, can be dropped.
LEMMA DropEmptyIs ==
  ASSUME NEW t, IsTable(t), NEW n \in DOMAIN t, t[n] = EmptyEntry, NEW u,
         u = [m \in DOMAIN t \ {n} |-> t[m]]
  PROVE  n # Root /\ IsTable(u) /\ DOMAIN u = DOMAIN t \ {n} /\ Same(t, u)
<1>1. n # Root
  BY DEF IsTable, EmptyEntry
<1>2. u \in [DOMAIN u -> Entry] /\ DOMAIN u = DOMAIN t \ {n} /\ \A m \in DOMAIN u : u[m] = t[m]
  BY DEF IsTable
<1>3. IsTable(u)
  BY <1>1, <1>2 DEF IsTable
<1>4. Same(t, u)
  BY <1>2 DEF Same, EntryOf
<1> QED BY <1>1, <1>2, <1>3, <1>4

\* A change of a table that holds the same as another.
LEMMA SameThenChanges ==
  ASSUME NEW t, NEW u, NEW w, NEW n \in Names, NEW e, Same(t, u), Changes(u, w, n, e)
  PROVE  Changes(t, w, n, e)
BY DEF Same, Changes

\* A change followed by the pruning of empty entries.
LEMMA ChangesThenSame ==
  ASSUME NEW t, NEW u, NEW w, NEW n \in Names, NEW e, Changes(t, u, n, e), Same(u, w)
  PROVE  Changes(t, w, n, e)
BY DEF Same, Changes

\* Writing what is there already changes nothing.
LEMMA NoChange == ASSUME NEW t, NEW n, NEW e, EntryOf(t, n) = e PROVE Changes(t, t, n, e)
BY DEF Changes

-----------------------------------------------------------------------------
\* The name tree.

\* The descent ends at the longest prefix of the name that has a node.
LEMMA LongestMatchIs ==
  ASSUME NEW t, IsTree(t), NEW n, IsName(n)
  PROVE  \E k \in 0..Len(n) : /\ FindLongestPrefixEntry(t, n) = Pfx(n, k)
                              /\ \A j \in 0..Len(n) : Pfx(n, j) \in DOMAIN t <=> j <= k
<1> DEFINE N == Len(n)
           On(k) == k < N /\ Pfx(n, k + 1) \in DOMAIN t
           Ends(k) == {j \in k..N : ~On(j)}
           End(k) == CHOOSE j \in Ends(k) : \A i \in Ends(k) : j <= i
           Eq(d) == d = [k \in 0..N |-> IF k < N /\ Pfx(n, k + 1) \in DOMAIN t THEN d[k + 1] ELSE k]
           depth == CHOOSE d : Eq(d)
           end == [k \in 0..N |-> End(k)]
<1>0. N \in Nat /\ Pfx(n, 0) \in DOMAIN t
  BY WholeName DEF IsTree, IsTable
<1> HIDE DEF N
<1>1. ASSUME NEW k \in 0..N
      PROVE  End(k) \in Ends(k) /\ \A i \in Ends(k) : End(k) <= i
  <2>1. Ends(k) \subseteq Nat /\ N \in Ends(k)
    BY <1>0
  <2>2. \E j \in Ends(k) : \A i \in Ends(k) : j <= i
    <3> HIDE DEF Ends
    <3> QED BY <2>1, LeastNumber
  <2> QED BY <2>2
<1>2. ASSUME NEW k \in 0..N, ~On(k) PROVE End(k) = k
  <2>1. k \in Ends(k) /\ Ends(k) \subseteq Int /\ \A i \in Ends(k) : k <= i
    BY <1>0, <1>2
  <2> HIDE DEF Ends
  <2> QED BY <1>1, <2>1
<1>3. ASSUME NEW k \in 0..N, On(k) PROVE k + 1 \in 0..N /\ End(k) = End(k + 1)
  <2>1. k + 1 \in 0..N
    BY <1>0, <1>3
  <2>2. Ends(k) = Ends(k + 1)
    <3>1. \A j \in k..N : j = k \/ j \in (k + 1)..N
      BY <1>0
    <3>2. k \notin Ends(k) /\ (k + 1)..N \subseteq k..N
      BY <1>0, <1>3
    <3> QED BY <3>1, <3>2
  <2> QED BY <2>1, <2>2
<1>4. Eq(end)
  <2> HIDE DEF End
  <2> QED BY <1>2, <1>3
<1>5. Eq(depth)
  <2> HIDE DEF end, Eq
  <2> QED BY <1>4
<1>6. FindLongestPrefixEntry(t, n) = Pfx(n, depth[0])
  BY DEF FindLongestPrefixEntry, N
<1> HIDE DEF depth
<1>7. ASSUME NEW k \in 0..N PROVE depth[k] = End(k)
  <2> DEFINE Bad == {j \in 0..N : depth[j] # End(j)}
  <2> SUFFICES ASSUME Bad # {} PROVE FALSE
    OBVIOUS
  <2>1. Bad \subseteq Int /\ N \in Int /\ \A j \in Bad : j <= N
    BY <1>0
  <2>2. PICK i \in Bad : \A c \in Bad : c <= i
    <3> HIDE DEF Bad
    <3> QED BY <2>1, GreatestNumber
  <2>4. depth[i] = IF On(i) THEN depth[i + 1] ELSE i
    <3> HIDE DEF End
    <3> QED BY <1>5, <2>2
  <2>5. On(i)
    BY <2>2, <2>4, <1>2
  <2>6. i + 1 \in 0..N /\ End(i) = End(i + 1)
    BY <1>3, <2>2, <2>5
  <2>7. i + 1 \in Bad
    <3> HIDE DEF End
    <3> QED BY <2>2, <2>4, <2>5, <2>6
  <2> HIDE DEF Bad
  <2> QED BY <2>1, <2>2, <2>7
<1>8. PICK k \in Ends(0) : depth[0] = k /\ \A i \in Ends(0) : k <= i
  <2> HIDE DEF Ends
  <2> QED BY <1>0, <1>1, <1>7
<1>9. k \in 0..N
  BY <1>0, <1>8
<1>10. ASSUME NEW j \in 0..N PROVE Pfx(n, j) \in DOMAIN t <=> j <= k
  <2>1. CASE j = 0
    BY <1>0, <1>8, <2>1
  <2>2. CASE j # 0 /\ j <= k
    <3>1. j - 1 \in 0..N /\ j - 1 \notin Ends(0)
      <4> HIDE DEF Ends
      <4> QED BY <1>0, <1>8, <1>9, <2>2
    <3> QED BY <1>0, <2>2, <3>1
  <2>3. CASE j > k
    <3>1. k + 1 \in 0..j /\ Pfx(n, k + 1) \notin DOMAIN t
      BY <1>0, <1>8, <2>3
    <3>2. Pfx(Pfx(n, j), k + 1) = Pfx(n, k + 1) /\ Len(Pfx(n, j)) = j
      BY <3>1, PrefixIs DEF N
    <3> QED BY <2>3, <3>1, <3>2 DEF IsTree
  <2>4. j = 0 \/ (j # 0 /\ j <= k) \/ j > k
    BY <1>0, <1>8
  <2> QED BY <2>1, <2>2, <2>3, <2>4
<1> QED BY <1>6, <1>8, <1>9, <1>10 DEF N

\* An exact match is a node.
LEMMA ExactMatchIs ==
  ASSUME NEW t, IsTree(t), NEW n \in Names PROVE FindExactMatchEntry(t, n) <=> n \in DOMAIN t
<1>1. IsName(n)
  BY NamesAssumption
<1>2. Len(n) \in Nat /\ Pfx(n, Len(n)) = n
  BY <1>1, WholeName
<1>3. PICK k \in 0..Len(n) : /\ FindLongestPrefixEntry(t, n) = Pfx(n, k)
                             /\ \A j \in 0..Len(n) : Pfx(n, j) \in DOMAIN t <=> j <= k
  BY <1>1, LongestMatchIs
<1>4. Len(Pfx(n, k)) = k
  BY <1>1, PrefixIs
<1>5. Pfx(n, k) = n => k = Len(n)
  BY <1>4
<1> QED BY <1>2, <1>3, <1>5 DEF FindExactMatchEntry

\* The prefixes of a name, which are names.
LEMMA PathIs ==
  ASSUME NEW n \in Names
  PROVE  /\ n \in {Pfx(n, k) : k \in 0..Len(n)} /\ {Pfx(n, k) : k \in 0..Len(n)} \subseteq Names
         /\ \A m \in {Pfx(n, k) : k \in 0..Len(n)} : \A j \in 0..Len(m) :
              Pfx(m, j) \in {Pfx(n, k) : k \in 0..Len(n)}
<1>1. IsName(n) /\ Len(n) \in Nat /\ Pfx(n, Len(n)) = n
  BY NamesAssumption, WholeName
<1>2. ASSUME NEW k \in 0..Len(n), NEW j \in 0..Len(Pfx(n, k))
      PROVE  Pfx(Pfx(n, k), j) \in {Pfx(n, i) : i \in 0..Len(n)}
  <2>1. j \in 0..k /\ j \in 0..Len(n)
    BY <1>1, PrefixIs
  <2> QED BY <1>1, <2>1, PrefixIs
<1> QED BY <1>1, <1>2, NamesAssumption

\* Filling the tree changes no entry.
LEMMA FillIs ==
  ASSUME NEW t, IsTree(t), NEW n \in Names
  PROVE  LET u == FillTreeToPrefix(t, n)
         IN IsTree(u) /\ n \in DOMAIN u /\ Same(t, u)
<1> DEFINE path == {Pfx(n, k) : k \in 0..Len(n)}
           new == path \ DOMAIN t
           u == FillTreeToPrefix(t, n)
<1>0. n \in path /\ path \subseteq Names /\ \A m \in path : \A j \in 0..Len(m) : Pfx(m, j) \in path
  BY PathIs
<1>1. u = [m \in DOMAIN t \cup new |-> IF m \in new THEN EmptyEntry ELSE t[m]]
  BY DEF FillTreeToPrefix
<1> HIDE DEF u, path
<1>2. u = [m \in DOMAIN t \cup new |-> IF m \in DOMAIN t THEN t[m] ELSE EmptyEntry]
  BY <1>1
<1>3. IsTable(u) /\ DOMAIN u = DOMAIN t \cup new /\ Same(t, u)
  <2> HIDE DEF new
  <2>1. new \in SUBSET Names
    BY <1>0 DEF new
  <2>2. IsTable(t)
    BY DEF IsTree
  <2> QED BY <1>2, <2>1, <2>2, AddEmptyIs
<1>4. DOMAIN u = DOMAIN t \cup path
  BY <1>3
<1>5. IsTree(u)
  BY <1>0, <1>3, <1>4 DEF IsTree
<1> QED BY <1>0, <1>3, <1>4, <1>5 DEF u

\* Pruning changes no entry: what goes is empty, and no other node needs it.
LEMMA PruneTreeIs ==
  ASSUME NEW t, IsTree(t), NEW n \in DOMAIN t
  PROVE  IsTree(PruneIfEmpty(t, n)) /\ Same(t, PruneIfEmpty(t, n))
<1>1. CASE ~(n # Root /\ ~HasChildren(t, n) /\ t[n] = EmptyEntry)
  <2>1. PruneIfEmpty(t, n) = t
    BY <1>1 DEF PruneIfEmpty, Root
  <2> QED BY <2>1 DEF Same
<1>2. CASE n # Root /\ ~HasChildren(t, n) /\ t[n] = EmptyEntry
  <2> DEFINE u == [m \in DOMAIN t \ {n} |-> t[m]]
  <2>1. PruneIfEmpty(t, n) = u
    BY <1>2 DEF PruneIfEmpty, Root
  <2>2. IsTable(u) /\ DOMAIN u = DOMAIN t \ {n} /\ Same(t, u)
    <3> HIDE DEF u
    <3>1. IsTable(t) /\ u = [m \in DOMAIN t \ {n} |-> t[m]]
      BY DEF IsTree, u
    <3> QED BY <1>2, <3>1, DropEmptyIs
  <2> HIDE DEF u
  <2>3. ASSUME NEW m \in DOMAIN u, NEW k \in 0..Len(m) PROVE Pfx(m, k) \in DOMAIN u
    <3>1. m \in DOMAIN t /\ m # n /\ IsName(m) /\ Pfx(m, k) \in DOMAIN t
      BY <2>2, NamesAssumption DEF IsTree, IsTable
    <3>2. Len(m) \in Nat /\ Pfx(m, Len(m)) = m /\ Len(Pfx(m, k)) = k
      BY <3>1, PrefixIs, WholeName
    <3>3. ASSUME Pfx(m, k) = n PROVE FALSE
      <4>1. k # Len(m) /\ Len(n) = k
        BY <3>1, <3>2, <3>3
      <4>2. Len(m) > Len(n) /\ Len(n) <= Len(m) /\ Pfx(m, Len(n)) = n
        BY <3>2, <3>3, <4>1
      <4> QED BY <1>2, <3>1, <4>2 DEF HasChildren, IsPrefixOf
    <3> QED BY <2>2, <3>1, <3>3
  <2> QED BY <2>1, <2>2, <2>3 DEF IsTree
<1> QED BY <1>1, <1>2

\* InsertNextHopEnc of the tree sets the cost of one face for one prefix.
LEMMA TreeInsertIs ==
  ASSUME NEW t, IsTree(t), NEW n \in Names, NEW f \in Faces, NEW c \in Costs
  PROVE  LET u == TreeInsertNextHop(t, n, f, c)
         IN IsTree(u) /\ Changes(t, u, n, WithHop(EntryOf(t, n), f, c))
<1> DEFINE w == FillTreeToPrefix(t, n)
           e == WithHop(w[n], f, c)
<1>1. IsTree(w) /\ n \in DOMAIN w /\ Same(t, w)
  BY FillIs
<1>2. TreeInsertNextHop(t, n, f, c) = [w EXCEPT ![n] = e]
  BY DEF TreeInsertNextHop, WithHop
<1> HIDE DEF w
<1>3. IsTable(w) /\ w[n] = EntryOf(t, n) /\ w[n] \in Entry /\ (n = Root => w[n].strategy # NoStrategy)
  BY <1>1 DEF IsTree, IsTable, Same, EntryOf
<1>4. e \in Entry /\ (n = Root => e.strategy # NoStrategy)
  <2>1. c \in Costs \cup {Ignored}
    OBVIOUS
  <2>2. e \in Entry /\ e.strategy = w[n].strategy
    BY <1>3, <2>1, WithHopIs
  <2> QED BY <1>3, <2>2
<1>5. e = WithHop(EntryOf(t, n), f, c)
  BY <1>3
<1> HIDE DEF e
<1>6. IsTree([w EXCEPT ![n] = e]) /\ Changes(w, [w EXCEPT ![n] = e], n, e)
  BY <1>1, <1>3, <1>4, OverwriteIs
<1> QED BY <1>1, <1>2, <1>5, <1>6, SameThenChanges

\* SetStrategyEnc of the tree sets the strategy of one prefix.
LEMMA TreeSetIs ==
  ASSUME NEW t, IsTree(t), NEW n \in Names, NEW s \in Strategies
  PROVE  LET u == TreeSetStrategy(t, n, s)
         IN IsTree(u) /\ Changes(t, u, n, WithChoice(EntryOf(t, n), s))
<1> DEFINE w == FillTreeToPrefix(t, n)
           e == WithChoice(w[n], s)
<1>1. IsTree(w) /\ n \in DOMAIN w /\ Same(t, w)
  BY FillIs
<1>2. TreeSetStrategy(t, n, s) = [w EXCEPT ![n] = e]
  BY DEF TreeSetStrategy, WithChoice
<1> HIDE DEF w
<1>3. IsTable(w) /\ w[n] = EntryOf(t, n) /\ w[n] \in Entry
  BY <1>1 DEF IsTree, IsTable, Same, EntryOf
<1>4. e \in Entry /\ e.strategy # NoStrategy
  BY <1>3, WithChoiceIs, ValuesAssumption
<1>5. e = WithChoice(EntryOf(t, n), s)
  BY <1>3
<1> HIDE DEF e
<1>6. IsTree([w EXCEPT ![n] = e]) /\ Changes(w, [w EXCEPT ![n] = e], n, e)
  BY <1>1, <1>3, <1>4, OverwriteIs
<1> QED BY <1>1, <1>2, <1>5, <1>6, SameThenChanges

\* ClearNextHopsEnc of the tree empties one prefix, unless it was given no name.
LEMMA TreeClearIs ==
  ASSUME NEW t, IsTree(t), NEW n \in Names, NEW isNil \in BOOLEAN
  PROVE  LET u == TreeClearNextHops(t, n, isNil)
         IN IsTree(u) /\ IF isNil THEN u = t ELSE Changes(t, u, n, WithoutHops(EntryOf(t, n)))
<1>1. CASE isNil
  BY <1>1 DEF TreeClearNextHops
<1>2. CASE ~isNil /\ n \notin DOMAIN t
  <2>1. TreeClearNextHops(t, n, isNil) = t
    BY <1>2, ExactMatchIs DEF TreeClearNextHops
  <2>2. EntryOf(t, n) = EmptyEntry /\ WithoutHops(EmptyEntry) = EmptyEntry
    BY <1>2 DEF EntryOf, WithoutHops, EmptyEntry
  <2> QED BY <1>2, <2>1, <2>2, NoChange
<1>3. CASE ~isNil /\ n \in DOMAIN t
  <2> DEFINE e == WithoutHops(EntryOf(t, n))
  <2>1. EntryOf(t, n) = t[n] /\ t[n] \in Entry /\ IsTable(t)
    BY <1>3 DEF EntryOf, IsTree, IsTable
  <2>2. TreeClearNextHops(t, n, isNil) = [t EXCEPT ![n] = e]
    BY <1>3, <2>1, ExactMatchIs DEF TreeClearNextHops, WithoutHops
  <2>3. e \in Entry /\ (n = Root => e.strategy # NoStrategy)
    BY <2>1, WithoutHopsIs DEF IsTable
  <2> HIDE DEF e
  <2>4. IsTree([t EXCEPT ![n] = e]) /\ Changes(t, [t EXCEPT ![n] = e], n, e)
    BY <1>3, <2>1, <2>3, OverwriteIs
  <2> QED BY <1>3, <2>2, <2>4 DEF e
<1> QED BY <1>1, <1>2, <1>3

\* An entry of the tree that is overwritten and then pruned.
LEMMA OverwriteThenPrune ==
  ASSUME NEW t, IsTree(t), NEW n \in DOMAIN t, NEW e \in Entry, n = Root => e.strategy # NoStrategy
  PROVE  LET u == PruneIfEmpty([t EXCEPT ![n] = e], n)
         IN IsTree(u) /\ Changes(t, u, n, e)
<1> DEFINE w == [t EXCEPT ![n] = e]
<1>1. IsTable(t) /\ n \in Names
  BY DEF IsTree, IsTable
<1>2. IsTree(w) /\ DOMAIN w = DOMAIN t /\ Changes(t, w, n, e)
  BY <1>1, OverwriteIs
<1> HIDE DEF w
<1>3. IsTree(PruneIfEmpty(w, n)) /\ Same(w, PruneIfEmpty(w, n))
  BY <1>2, PruneTreeIs
<1> QED BY <1>1, <1>2, <1>3, ChangesThenSame DEF w

\* RemoveNextHopEnc of the tree takes one face from one prefix.
LEMMA TreeRemoveIs ==
  ASSUME NEW t, IsTree(t), NEW n \in Names, NEW f \in Faces
  PROVE  LET u == TreeRemoveNextHop(t, n, f)
         IN IsTree(u) /\ Changes(t, u, n, WithHop(EntryOf(t, n), f, Ignored))
<1> DEFINE e == WithHop(EntryOf(t, n), f, Ignored)
<1>1. CASE n \notin DOMAIN t
  <2>1. TreeRemoveNextHop(t, n, f) = t
    BY <1>1, ExactMatchIs DEF TreeRemoveNextHop
  <2>2. EntryOf(t, n) = EmptyEntry /\ WithHop(EmptyEntry, f, Ignored) = EmptyEntry
    BY <1>1 DEF EntryOf, WithHop, EmptyEntry, NoHops
  <2> QED BY <2>1, <2>2, NoChange
<1>2. CASE n \in DOMAIN t
  <2>1. EntryOf(t, n) = t[n] /\ t[n] \in Entry /\ IsTable(t)
    BY <1>2 DEF EntryOf, IsTree, IsTable
  <2>2. TreeRemoveNextHop(t, n, f) = PruneIfEmpty([t EXCEPT ![n] = e], n)
    BY <1>2, <2>1, ExactMatchIs DEF TreeRemoveNextHop, WithHop
  <2>3. e \in Entry /\ (n = Root => e.strategy # NoStrategy)
    <3>1. Ignored \in Costs \cup {Ignored} /\ EntryOf(t, n) \in Entry
      BY <2>1
    <3>2. e \in Entry /\ e.strategy = EntryOf(t, n).strategy
      BY <3>1, WithHopIs
    <3> QED BY <2>1, <3>2 DEF IsTable
  <2> HIDE DEF e
  <2> QED BY <1>2, <2>2, <2>3, OverwriteThenPrune DEF e
<1> QED BY <1>1, <1>2

\* UnSetStrategyEnc of the tree takes the strategy from one prefix.
LEMMA TreeUnSetIs ==
  ASSUME NEW t, IsTree(t), NEW n \in Names \ {Root}
  PROVE  LET u == TreeUnSetStrategy(t, n)
         IN IsTree(u) /\ Changes(t, u, n, WithChoice(EntryOf(t, n), NoStrategy))
<1> DEFINE e == WithChoice(EntryOf(t, n), NoStrategy)
<1>1. CASE n \notin DOMAIN t
  <2>1. TreeUnSetStrategy(t, n) = t
    BY <1>1, ExactMatchIs DEF TreeUnSetStrategy
  <2>2. EntryOf(t, n) = EmptyEntry /\ WithChoice(EmptyEntry, NoStrategy) = EmptyEntry
    BY <1>1 DEF EntryOf, WithChoice, EmptyEntry
  <2> QED BY <2>1, <2>2, NoChange
<1>2. CASE n \in DOMAIN t
  <2>1. EntryOf(t, n) = t[n] /\ t[n] \in Entry /\ IsTable(t)
    BY <1>2 DEF EntryOf, IsTree, IsTable
  <2>2. TreeUnSetStrategy(t, n) = PruneIfEmpty([t EXCEPT ![n] = e], n)
    BY <1>2, <2>1, ExactMatchIs DEF TreeUnSetStrategy, WithChoice
  <2>3. e \in Entry
    BY <2>1, WithChoiceIs
  <2> HIDE DEF e
  <2> QED BY <1>2, <2>2, <2>3, OverwriteThenPrune DEF e
<1> QED BY <1>1, <1>2

-----------------------------------------------------------------------------
\* The hash table.

\* A name longer than the virtual length is among those its virtual entry counts,
\* and no longer than the entry says.
Covered(h, n) ==
  LET v == Pfx(n, VirtLen)
  IN /\ v \in DOMAIN h.virt /\ Len(n) <= h.virt[v]
     /\ v \in DOMAIN h.virtNames /\ n \in h.virtNames[v]

IsHash(h) ==
  /\ h = [real |-> h.real, virt |-> h.virt, virtNames |-> h.virtNames]
  /\ IsTable(h.real)
  /\ \A v \in DOMAIN h.virt : h.virt[v] \in Nat
  /\ \A n \in DOMAIN h.real : Len(n) > VirtLen => Covered(h, n)

\* The entries of the table that is there may change.
LEMMA RealIs ==
  ASSUME NEW h, IsHash(h), NEW r, IsTable(r), DOMAIN r = DOMAIN h.real
  PROVE  IsHash([h EXCEPT !.real = r]) /\ [h EXCEPT !.real = r].real = r
<1> DEFINE u == [h EXCEPT !.real = r]
<1>1. u = [real |-> r, virt |-> h.virt, virtNames |-> h.virtNames]
  BY DEF IsHash
<1>2. u.real = r /\ u.virt = h.virt /\ u.virtNames = h.virtNames
  BY <1>1
<1> HIDE DEF u
<1> QED BY <1>1, <1>2 DEF IsHash, Covered, u

\* insertEntryEnc changes no entry.
LEMMA InsertEntryIs ==
  ASSUME NEW h, IsHash(h), NEW n \in Names
  PROVE  LET u == InsertEntry(h, n)
         IN IsHash(u) /\ n \in DOMAIN u.real /\ Same(h.real, u.real)
<1> DEFINE u == InsertEntry(h, n)
           r == IF n \in DOMAIN h.real THEN h.real ELSE Put(h.real, n, EmptyEntry)
           v == Pfx(n, VirtLen)
           md == IF v \in DOMAIN h.virt THEN h.virt[v] ELSE 0
           names == IF v \in DOMAIN h.virtNames THEN h.virtNames[v] ELSE {}
           virt == Put(h.virt, v, MaxOf(md, Len(n)))
           virtNames == Put(h.virtNames, v, names \cup {n})
<1>0. IsTable(h.real) /\ Len(n) \in Nat /\ VirtLen \in Nat
  BY NamesAssumption, VirtLenAssumption, WholeName DEF IsHash
<1>1. IsTable(r) /\ DOMAIN r = DOMAIN h.real \cup {n} /\ Same(h.real, r)
  <2>1. r = [m \in DOMAIN h.real \cup {n} |-> IF m \in DOMAIN h.real THEN h.real[m] ELSE EmptyEntry]
    <3>1. CASE n \in DOMAIN h.real
      <4>1. h.real = [m \in DOMAIN h.real |-> h.real[m]] /\ DOMAIN h.real \cup {n} = DOMAIN h.real
        BY <1>0, <3>1 DEF IsTable
      <4> QED BY <3>1, <4>1
    <3>2. CASE n \notin DOMAIN h.real
      BY <3>2 DEF Put
    <3> QED BY <3>1, <3>2
  <2> HIDE DEF r
  <2>2. {n} \in SUBSET Names
    OBVIOUS
  <2> QED BY <1>0, <2>1, <2>2, AddEmptyIs
<1>2. CASE Len(n) < VirtLen
  <2>1. u = [h EXCEPT !.real = r]
    BY <1>2 DEF InsertEntry
  <2>2. u = [real |-> r, virt |-> h.virt, virtNames |-> h.virtNames]
    BY <2>1 DEF IsHash
  <2> HIDE DEF u, r
  <2>3. u.real = r /\ u.virt = h.virt /\ u.virtNames = h.virtNames
    BY <2>2
  <2>4. \A m \in DOMAIN r : Len(m) > VirtLen => Covered(u, m)
    BY <1>0, <1>1, <1>2, <2>3 DEF IsHash, Covered
  <2>5. IsHash(u)
    BY <1>1, <2>2, <2>3, <2>4 DEF IsHash
  <2> QED BY <1>1, <2>3, <2>5 DEF u
<1>3. CASE ~(Len(n) < VirtLen)
  <2>1. u = [real |-> r, virt |-> virt, virtNames |-> virtNames]
    BY <1>3 DEF InsertEntry
  <2>2. md \in Nat
    BY DEF IsHash
  <2>3. MaxOf(md, Len(n)) \in Nat /\ md <= MaxOf(md, Len(n)) /\ Len(n) <= MaxOf(md, Len(n))
    <3> HIDE DEF md
    <3> QED BY <1>0, <2>2 DEF MaxOf
  <2>4. /\ DOMAIN virt = DOMAIN h.virt \cup {v}
        /\ virt[v] = MaxOf(md, Len(n)) /\ \A w \in DOMAIN h.virt \ {v} : virt[w] = h.virt[w]
    BY DEF Put
  <2>5. /\ DOMAIN virtNames = DOMAIN h.virtNames \cup {v}
        /\ virtNames[v] = names \cup {n}
        /\ \A w \in DOMAIN h.virtNames \ {v} : virtNames[w] = h.virtNames[w]
    BY DEF Put
  <2> HIDE DEF virt, virtNames
  <2>6. \A w \in DOMAIN virt : virt[w] \in Nat
    BY <2>3, <2>4 DEF IsHash
  <2>7. u.real = r /\ u.virt = virt /\ u.virtNames = virtNames
    BY <2>1
  <2> HIDE DEF u, r
  <2>8. Covered(u, n)
    BY <2>3, <2>4, <2>5, <2>7 DEF Covered
  <2>9. ASSUME NEW m \in DOMAIN h.real, Len(m) > VirtLen PROVE Covered(u, m)
    <3> DEFINE w == Pfx(m, VirtLen)
    <3>0. Len(m) \in Nat
      BY <1>0, NamesAssumption, WholeName DEF IsTable
    <3>1. /\ w \in DOMAIN h.virt /\ Len(m) <= h.virt[w] /\ h.virt[w] \in Nat
          /\ w \in DOMAIN h.virtNames /\ m \in h.virtNames[w]
      BY <2>9 DEF IsHash, Covered
    <3> HIDE DEF w
    <3>2. w \in DOMAIN virt /\ w \in DOMAIN virtNames
      BY <2>4, <2>5, <3>1
    <3>3. Len(m) <= virt[w]
      <4>1. CASE w = v
        <5>1. md = h.virt[w]
          BY <3>1, <4>1
        <5> HIDE DEF md
        <5> QED BY <2>2, <2>3, <2>4, <3>0, <3>1, <4>1, <5>1
      <4>2. CASE w # v
        BY <2>4, <3>1, <4>2
      <4> QED BY <4>1, <4>2
    <3>4. m \in virtNames[w]
      BY <2>5, <3>1
    <3> QED BY <2>7, <3>2, <3>3, <3>4 DEF Covered, w
  <2>10. IsHash(u)
    BY <1>1, <2>1, <2>6, <2>7, <2>8, <2>9 DEF IsHash
  <2> QED BY <1>1, <2>7, <2>10 DEF u
<1> QED BY <1>2, <1>3

\* pruneTables changes no entry, and drops a virtual entry only when no name
\* needs it any more.
LEMMA PruneTablesIs ==
  ASSUME NEW h, IsHash(h), NEW n \in DOMAIN h.real
  PROVE  IsHash(PruneTables(h, n)) /\ Same(h.real, PruneTables(h, n).real)
<1>1. CASE h.real[n] # EmptyEntry
  BY <1>1 DEF PruneTables, Same
<1>2. CASE h.real[n] = EmptyEntry
  <2> DEFINE u == PruneTables(h, n)
             r == Drop(h.real, n)
             v == Pfx(n, VirtLen)
             rest == IF v \in DOMAIN h.virtNames THEN h.virtNames[v] \ {n} ELSE {}
             virt == IF Len(n) = h.virt[v] /\ rest = {} THEN Drop(h.virt, v) ELSE h.virt
             virtNames == IF rest = {} THEN Drop(h.virtNames, v) ELSE Put(h.virtNames, v, rest)
  <2>0. IsTable(h.real) /\ n \in Names
    BY DEF IsHash, IsTable
  <2>1. IsTable(r) /\ DOMAIN r = DOMAIN h.real \ {n} /\ Same(h.real, r)
    <3>1. r = [m \in DOMAIN h.real \ {n} |-> h.real[m]]
      BY DEF Drop
    <3> HIDE DEF r
    <3> QED BY <1>2, <2>0, <3>1, DropEmptyIs
  <2>2. CASE Len(n) < VirtLen \/ v \notin DOMAIN h.virt
    <3>1. u = [h EXCEPT !.real = r]
      BY <1>2, <2>2 DEF PruneTables
    <3>2. u = [real |-> r, virt |-> h.virt, virtNames |-> h.virtNames]
      BY <3>1 DEF IsHash
    <3> HIDE DEF u, r
    <3>3. u.real = r /\ u.virt = h.virt /\ u.virtNames = h.virtNames
      BY <3>2
    <3>4. IsHash(u)
      BY <2>1, <3>2, <3>3 DEF IsHash, Covered
    <3> QED BY <2>1, <3>3, <3>4 DEF u
  <2>3. CASE ~(Len(n) < VirtLen \/ v \notin DOMAIN h.virt)
    <3>1. u = [real |-> r, virt |-> virt, virtNames |-> virtNames]
      BY <1>2, <2>3 DEF PruneTables
    <3>2. u.real = r /\ u.virt = virt /\ u.virtNames = virtNames
      BY <3>1
    <3>3. /\ DOMAIN virt \subseteq DOMAIN h.virt /\ \A w \in DOMAIN virt : virt[w] = h.virt[w]
          /\ \A w \in DOMAIN h.virt \ {v} : w \in DOMAIN virt
          /\ rest # {} => v \in DOMAIN virt
      BY <2>3 DEF Drop
    <3>4. /\ \A w \in DOMAIN h.virtNames \ {v} : w \in DOMAIN virtNames /\ virtNames[w] = h.virtNames[w]
          /\ rest # {} => v \in DOMAIN virtNames /\ virtNames[v] = rest
      BY DEF Drop, Put
    <3> HIDE DEF u, r, virt, virtNames
    <3>5. ASSUME NEW m \in DOMAIN r, Len(m) > VirtLen PROVE Covered(u, m)
      <4> DEFINE w == Pfx(m, VirtLen)
      <4>1. /\ w \in DOMAIN h.virt /\ Len(m) <= h.virt[w]
            /\ w \in DOMAIN h.virtNames /\ m \in h.virtNames[w] /\ m # n
        BY <2>1, <3>5 DEF IsHash, Covered
      <4> HIDE DEF w
      <4>2. CASE w = v
        <5>1. m \in rest
          BY <4>1, <4>2
        <5> HIDE DEF rest
        <5> QED BY <3>2, <3>3, <3>4, <4>1, <4>2, <5>1 DEF Covered, w
      <4>3. CASE w # v
        BY <3>2, <3>3, <3>4, <4>1, <4>3 DEF Covered, w
      <4> QED BY <4>2, <4>3
    <3>6. \A w \in DOMAIN virt : virt[w] \in Nat
      BY <3>3 DEF IsHash
    <3>7. IsHash(u)
      BY <2>1, <3>1, <3>2, <3>5, <3>6 DEF IsHash
    <3> QED BY <2>1, <3>2, <3>7 DEF u
  <2> QED BY <2>2, <2>3
<1> QED BY <1>1, <1>2

\* An entry of the hash table that is overwritten, and pruned if need be.
LEMMA HashOverwriteIs ==
  ASSUME NEW h, IsHash(h), NEW n \in DOMAIN h.real, NEW e \in Entry,
         n = Root => e.strategy # NoStrategy
  PROVE  LET w == [h EXCEPT !.real = [h.real EXCEPT ![n] = e]]
         IN /\ IsHash(w) /\ Changes(h.real, w.real, n, e)
            /\ IsHash(PruneTables(w, n)) /\ Changes(h.real, PruneTables(w, n).real, n, e)
<1> DEFINE r == [h.real EXCEPT ![n] = e]
           w == [h EXCEPT !.real = r]
<1>1. IsTable(h.real) /\ n \in Names
  BY DEF IsHash, IsTable
<1>2. IsTable(r) /\ DOMAIN r = DOMAIN h.real /\ Changes(h.real, r, n, e)
  BY <1>1, OverwriteIs
<1> HIDE DEF r
<1>3. IsHash(w) /\ w.real = r
  BY <1>2, RealIs
<1> HIDE DEF w
<1>4. IsHash(PruneTables(w, n)) /\ Same(w.real, PruneTables(w, n).real)
  BY <1>2, <1>3, PruneTablesIs
<1>5. Changes(h.real, PruneTables(w, n).real, n, e)
  BY <1>1, <1>2, <1>3, <1>4, ChangesThenSame
<1> QED BY <1>2, <1>3, <1>4, <1>5 DEF w, r

\* InsertNextHopEnc of the hash table sets the cost of one face for one prefix.
LEMMA HashInsertIs ==
  ASSUME NEW h, IsHash(h), NEW n \in Names, NEW f \in Faces, NEW c \in Costs
  PROVE  LET u == HashInsertNextHop(h, n, f, c)
         IN IsHash(u) /\ Changes(h.real, u.real, n, WithHop(EntryOf(h.real, n), f, c))
<1> DEFINE w == InsertEntry(h, n)
           e == WithHop(w.real[n], f, c)
<1>1. IsHash(w) /\ n \in DOMAIN w.real /\ Same(h.real, w.real)
  BY InsertEntryIs
<1>2. HashInsertNextHop(h, n, f, c) = [w EXCEPT !.real = [w.real EXCEPT ![n] = e]]
  BY DEF HashInsertNextHop, WithHop
<1> HIDE DEF w
<1>3. /\ w.real[n] = EntryOf(h.real, n) /\ w.real[n] \in Entry
      /\ n = Root => w.real[n].strategy # NoStrategy
  BY <1>1 DEF IsHash, IsTable, Same, EntryOf
<1>4. c \in Costs \cup {Ignored}
  OBVIOUS
<1>5. e \in Entry /\ e.strategy = w.real[n].strategy
  BY <1>3, <1>4, WithHopIs
<1>6. e = WithHop(EntryOf(h.real, n), f, c)
  BY <1>3
<1>7. n = Root => e.strategy # NoStrategy
  BY <1>3, <1>5
<1> DEFINE u == [w EXCEPT !.real = [w.real EXCEPT ![n] = e]]
<1> HIDE DEF e
<1>8. IsHash(u) /\ Changes(w.real, u.real, n, e)
  BY <1>1, <1>5, <1>7, HashOverwriteIs
<1> HIDE DEF u
<1>9. Changes(h.real, u.real, n, e)
  BY <1>1, <1>8, SameThenChanges
<1> QED BY <1>2, <1>6, <1>8, <1>9 DEF u

\* SetStrategyEnc of the hash table sets the strategy of one prefix.
LEMMA HashSetIs ==
  ASSUME NEW h, IsHash(h), NEW n \in Names, NEW s \in Strategies
  PROVE  LET u == HashSetStrategy(h, n, s)
         IN IsHash(u) /\ Changes(h.real, u.real, n, WithChoice(EntryOf(h.real, n), s))
<1> DEFINE w == InsertEntry(h, n)
           e == WithChoice(w.real[n], s)
<1>1. IsHash(w) /\ n \in DOMAIN w.real /\ Same(h.real, w.real)
  BY InsertEntryIs
<1>2. HashSetStrategy(h, n, s) = [w EXCEPT !.real = [w.real EXCEPT ![n] = e]]
  BY DEF HashSetStrategy, WithChoice
<1> HIDE DEF w
<1>3. w.real[n] = EntryOf(h.real, n) /\ w.real[n] \in Entry
  BY <1>1 DEF IsHash, IsTable, Same, EntryOf
<1>4. e \in Entry /\ e.strategy # NoStrategy
  BY <1>3, WithChoiceIs, ValuesAssumption
<1>5. e = WithChoice(EntryOf(h.real, n), s)
  BY <1>3
<1> DEFINE u == [w EXCEPT !.real = [w.real EXCEPT ![n] = e]]
<1> HIDE DEF e
<1>6. IsHash(u) /\ Changes(w.real, u.real, n, e)
  BY <1>1, <1>4, HashOverwriteIs
<1> HIDE DEF u
<1>7. Changes(h.real, u.real, n, e)
  BY <1>1, <1>6, SameThenChanges
<1> QED BY <1>2, <1>5, <1>6, <1>7 DEF u

\* ClearNextHopsEnc of the hash table empties one prefix.
LEMMA HashClearIs ==
  ASSUME NEW h, IsHash(h), NEW n \in Names
  PROVE  LET u == HashClearNextHops(h, n)
         IN IsHash(u) /\ Changes(h.real, u.real, n, WithoutHops(EntryOf(h.real, n)))
<1> DEFINE e == WithoutHops(EntryOf(h.real, n))
<1>1. CASE n \notin DOMAIN h.real
  <2>1. HashClearNextHops(h, n) = h
    BY <1>1 DEF HashClearNextHops
  <2>2. EntryOf(h.real, n) = EmptyEntry /\ WithoutHops(EmptyEntry) = EmptyEntry
    BY <1>1 DEF EntryOf, WithoutHops, EmptyEntry
  <2> QED BY <2>1, <2>2, NoChange
<1>2. CASE n \in DOMAIN h.real
  <2>1. EntryOf(h.real, n) = h.real[n] /\ EntryOf(h.real, n) \in Entry
    BY <1>2 DEF EntryOf, IsHash, IsTable
  <2>2. HashClearNextHops(h, n) = PruneTables([h EXCEPT !.real = [h.real EXCEPT ![n] = e]], n)
    BY <1>2, <2>1 DEF HashClearNextHops, WithoutHops
  <2>3. e \in Entry /\ e.strategy = EntryOf(h.real, n).strategy
    BY <2>1, WithoutHopsIs
  <2>4. n = Root => e.strategy # NoStrategy
    BY <2>1, <2>3 DEF IsHash, IsTable
  <2> DEFINE w == [h EXCEPT !.real = [h.real EXCEPT ![n] = e]]
  <2> HIDE DEF e
  <2>5. IsHash(PruneTables(w, n)) /\ Changes(h.real, PruneTables(w, n).real, n, e)
    BY <1>2, <2>2, <2>3, <2>4, HashOverwriteIs
  <2> HIDE DEF w
  <2> QED BY <2>2, <2>5 DEF e, w
<1> QED BY <1>1, <1>2

\* RemoveNextHopEnc of the hash table takes one face from one prefix.
LEMMA HashRemoveIs ==
  ASSUME NEW h, IsHash(h), NEW n \in Names, NEW f \in Faces
  PROVE  LET u == HashRemoveNextHop(h, n, f)
         IN IsHash(u) /\ Changes(h.real, u.real, n, WithHop(EntryOf(h.real, n), f, Ignored))
<1> DEFINE e == WithHop(EntryOf(h.real, n), f, Ignored)
<1>1. CASE n \notin DOMAIN h.real
  <2>1. HashRemoveNextHop(h, n, f) = h
    BY <1>1 DEF HashRemoveNextHop
  <2>2. EntryOf(h.real, n) = EmptyEntry /\ WithHop(EmptyEntry, f, Ignored) = EmptyEntry
    BY <1>1 DEF EntryOf, WithHop, EmptyEntry, NoHops
  <2> QED BY <2>1, <2>2, NoChange
<1>2. CASE n \in DOMAIN h.real
  <2>1. EntryOf(h.real, n) = h.real[n] /\ EntryOf(h.real, n) \in Entry
    BY <1>2 DEF EntryOf, IsHash, IsTable
  <2>2. CASE h.real[n].hops[f] = Ignored
    <3>1. HashRemoveNextHop(h, n, f) = h
      BY <1>2, <2>2 DEF HashRemoveNextHop
    <3>2. e = EntryOf(h.real, n)
      BY <2>1, <2>2 DEF WithHop, Entry
    <3> QED BY <3>1, <3>2, NoChange
  <2>3. CASE h.real[n].hops[f] # Ignored
    <3>1. HashRemoveNextHop(h, n, f) = PruneTables([h EXCEPT !.real = [h.real EXCEPT ![n] = e]], n)
      BY <1>2, <2>1, <2>3 DEF HashRemoveNextHop, WithHop
    <3>2. Ignored \in Costs \cup {Ignored}
      OBVIOUS
    <3>3. e \in Entry /\ e.strategy = EntryOf(h.real, n).strategy
      BY <2>1, <3>2, WithHopIs
    <3>4. n = Root => e.strategy # NoStrategy
      BY <2>1, <3>3 DEF IsHash, IsTable
    <3> DEFINE w == [h EXCEPT !.real = [h.real EXCEPT ![n] = e]]
    <3> HIDE DEF e
    <3>5. IsHash(PruneTables(w, n)) /\ Changes(h.real, PruneTables(w, n).real, n, e)
      BY <1>2, <3>1, <3>3, <3>4, HashOverwriteIs
    <3> HIDE DEF w
    <3> QED BY <3>1, <3>5 DEF e, w
  <2> QED BY <2>2, <2>3
<1> QED BY <1>1, <1>2

\* UnSetStrategyEnc of the hash table takes the strategy from one prefix.
LEMMA HashUnSetIs ==
  ASSUME NEW h, IsHash(h), NEW n \in Names \ {Root}
  PROVE  LET u == HashUnSetStrategy(h, n)
         IN IsHash(u) /\ Changes(h.real, u.real, n, WithChoice(EntryOf(h.real, n), NoStrategy))
<1> DEFINE e == WithChoice(EntryOf(h.real, n), NoStrategy)
<1>1. CASE n \notin DOMAIN h.real
  <2>1. HashUnSetStrategy(h, n) = h
    BY <1>1 DEF HashUnSetStrategy
  <2>2. EntryOf(h.real, n) = EmptyEntry /\ WithChoice(EmptyEntry, NoStrategy) = EmptyEntry
    BY <1>1 DEF EntryOf, WithChoice, EmptyEntry
  <2> QED BY <2>1, <2>2, NoChange
<1>2. CASE n \in DOMAIN h.real
  <2>1. EntryOf(h.real, n) = h.real[n] /\ EntryOf(h.real, n) \in Entry
    BY <1>2 DEF EntryOf, IsHash, IsTable
  <2>2. HashUnSetStrategy(h, n) = PruneTables([h EXCEPT !.real = [h.real EXCEPT ![n] = e]], n)
    BY <1>2, <2>1 DEF HashUnSetStrategy, WithChoice
  <2>3. e \in Entry
    BY <2>1, WithChoiceIs
  <2> DEFINE w == [h EXCEPT !.real = [h.real EXCEPT ![n] = e]]
  <2> HIDE DEF e
  <2>5. IsHash(PruneTables(w, n)) /\ Changes(h.real, PruneTables(w, n).real, n, e)
    BY <1>2, <2>2, <2>3, HashOverwriteIs
  <2> HIDE DEF w
  <2> QED BY <2>2, <2>5 DEF e, w
<1> QED BY <1>1, <1>2

-----------------------------------------------------------------------------
\* Lookups.

\* h, or s, is what the longest prefix of n that has any holds.
HopsFound(t, n, h) ==
  \/ h = NoHops /\ \A j \in 0..Len(n) : EntryOf(t, Pfx(n, j)).hops = NoHops
  \/ \E k \in 0..Len(n) : /\ h = EntryOf(t, Pfx(n, k)).hops /\ h # NoHops
                          /\ \A j \in (k + 1)..Len(n) : EntryOf(t, Pfx(n, j)).hops = NoHops

ChoiceFound(t, n, s) ==
  \E k \in 0..Len(n) : /\ s = EntryOf(t, Pfx(n, k)).strategy /\ s # NoStrategy
                       /\ \A j \in (k + 1)..Len(n) : EntryOf(t, Pfx(n, j)).strategy = NoStrategy

\* The walk up the tree passes no node that has next hops.
LEMMA TreeHopsFound ==
  ASSUME NEW t, IsTree(t), NEW n, IsName(n) PROVE HopsFound(t, n, TreeFindNextHops(t, n))
<1> DEFINE len == Len(FindLongestPrefixEntry(t, n))
           has == {k \in 0..len : t[Pfx(n, k)].hops # NoHops}
           k == StopAt(has, len, 0)
<1>0. Len(n) \in Nat
  BY WholeName
<1>1. len \in 0..Len(n) /\ \A j \in 0..Len(n) : Pfx(n, j) \in DOMAIN t <=> j <= len
  <2>1. PICK i \in 0..Len(n) : /\ FindLongestPrefixEntry(t, n) = Pfx(n, i)
                               /\ \A j \in 0..Len(n) : Pfx(n, j) \in DOMAIN t <=> j <= i
    BY LongestMatchIs
  <2>2. Len(Pfx(n, i)) = i
    BY PrefixIs
  <2> QED BY <2>1, <2>2
<1>2. TreeFindNextHops(t, n) = t[Pfx(n, k)].hops
  BY DEF TreeFindNextHops
<1> HIDE DEF len
<1>3. len \in Int /\ 0 \in Int /\ 0 <= len
  BY <1>0, <1>1
<1>4. k \in 0..len /\ (k = 0 \/ k \in has) /\ \A j \in (k + 1)..len : j \notin has
  <2> HIDE DEF has
  <2> QED BY <1>3, StopAtIs
<1> HIDE DEF k
<1>5. \A j \in 0..Len(n) :
        EntryOf(t, Pfx(n, j)).hops = IF j <= len THEN t[Pfx(n, j)].hops ELSE NoHops
  BY <1>1 DEF EntryOf, EmptyEntry
<1>6. \A j \in (k + 1)..Len(n) : EntryOf(t, Pfx(n, j)).hops = NoHops
  <2> SUFFICES ASSUME NEW j \in (k + 1)..Len(n), j <= len PROVE t[Pfx(n, j)].hops = NoHops
    BY <1>0, <1>1, <1>4, <1>5
  <2> QED BY <1>0, <1>1, <1>4
<1>7. k \in 0..Len(n) /\ EntryOf(t, Pfx(n, k)).hops = t[Pfx(n, k)].hops
  BY <1>0, <1>1, <1>4, <1>5
<1>8. CASE t[Pfx(n, k)].hops # NoHops
  BY <1>2, <1>6, <1>7, <1>8 DEF HopsFound
<1>9. CASE t[Pfx(n, k)].hops = NoHops
  <2>1. k = 0
    BY <1>4, <1>9
  <2>2. \A j \in 0..Len(n) : j = k \/ j \in (k + 1)..Len(n)
    BY <1>0, <2>1
  <2> QED BY <1>2, <1>6, <1>7, <1>9, <2>2 DEF HopsFound
<1> QED BY <1>8, <1>9

\* The walk up the tree passes no node that has a strategy, and the root has one.
LEMMA TreeChoiceFound ==
  ASSUME NEW t, IsTree(t), NEW n, IsName(n) PROVE ChoiceFound(t, n, TreeFindStrategy(t, n))
<1> DEFINE len == Len(FindLongestPrefixEntry(t, n))
           has == {k \in 0..len : t[Pfx(n, k)].strategy # NoStrategy}
           k == StopAt(has, len, 0)
<1>0. Len(n) \in Nat /\ Pfx(n, 0) = Root
  BY WholeName
<1>1. len \in 0..Len(n) /\ \A j \in 0..Len(n) : Pfx(n, j) \in DOMAIN t <=> j <= len
  <2>1. PICK i \in 0..Len(n) : /\ FindLongestPrefixEntry(t, n) = Pfx(n, i)
                               /\ \A j \in 0..Len(n) : Pfx(n, j) \in DOMAIN t <=> j <= i
    BY LongestMatchIs
  <2>2. Len(Pfx(n, i)) = i
    BY PrefixIs
  <2> QED BY <2>1, <2>2
<1>2. TreeFindStrategy(t, n) = t[Pfx(n, k)].strategy
  BY DEF TreeFindStrategy
<1> HIDE DEF len
<1>3. len \in Int /\ 0 \in Int /\ 0 <= len
  BY <1>0, <1>1
<1>4. k \in 0..len /\ (k = 0 \/ k \in has) /\ \A j \in (k + 1)..len : j \notin has
  <2> HIDE DEF has
  <2> QED BY <1>3, StopAtIs
<1> HIDE DEF k
<1>5. \A j \in 0..Len(n) :
        EntryOf(t, Pfx(n, j)).strategy = IF j <= len THEN t[Pfx(n, j)].strategy ELSE NoStrategy
  BY <1>1 DEF EntryOf, EmptyEntry
<1>6. \A j \in (k + 1)..Len(n) : EntryOf(t, Pfx(n, j)).strategy = NoStrategy
  <2> SUFFICES ASSUME NEW j \in (k + 1)..Len(n), j <= len PROVE t[Pfx(n, j)].strategy = NoStrategy
    BY <1>0, <1>1, <1>4, <1>5
  <2> QED BY <1>0, <1>1, <1>4
<1>7. k \in 0..Len(n) /\ EntryOf(t, Pfx(n, k)).strategy = t[Pfx(n, k)].strategy
  BY <1>0, <1>1, <1>4, <1>5
<1>8. t[Pfx(n, k)].strategy # NoStrategy
  BY <1>0, <1>4 DEF IsTree, IsTable
<1> QED BY <1>2, <1>6, <1>7, <1>8 DEF ChoiceFound

\* A probe passes no entry.
LEMMA ProbeIs ==
  ASSUME NEW h, NEW n, NEW hi \in Int, NEW lo \in Int
  PROVE  LET k == Probe(h, n, hi, lo)
         IN /\ k \in Int /\ lo - 1 <= k /\ (k <= hi \/ k = lo - 1)
            /\ \A j \in lo..hi : j > k => Pfx(n, j) \notin DOMAIN h.real
<1> DEFINE has == {k \in lo..hi : Pfx(n, k) \in DOMAIN h.real}
           k == StopAt(has, hi, lo - 1)
<1>1. CASE hi < lo
  <2>1. Probe(h, n, hi, lo) = lo - 1
    BY <1>1 DEF Probe
  <2> QED BY <1>1, <2>1
<1>2. CASE lo <= hi
  <2>1. Probe(h, n, hi, lo) = k
    BY <1>2 DEF Probe
  <2>2. lo - 1 \in Int /\ lo - 1 <= hi
    BY <1>2
  <2>3. k \in (lo - 1)..hi /\ \A j \in (k + 1)..hi : j \notin has
    <3> HIDE DEF has
    <3> QED BY <2>2, StopAtIs
  <2> HIDE DEF k
  <2>4. ASSUME NEW j \in lo..hi, j > k PROVE Pfx(n, j) \notin DOMAIN h.real
    BY <2>3, <2>4
  <2> QED BY <2>1, <2>3, <2>4
<1> QED BY <1>1, <1>2

\* findLongestPrefixMatchEnc passes no entry: a prefix longer than the virtual
\* length that has one is no longer than its virtual entry says.
LEMMA MatchIs ==
  ASSUME NEW h, IsHash(h), NEW n, IsName(n)
  PROVE  LET k == FindLongestPrefixMatch(h, n)
         IN k \in (-1)..Len(n) /\ \A j \in 0..Len(n) : j > k => Pfx(n, j) \notin DOMAIN h.real
<1> DEFINE v == Pfx(n, VirtLen)
<1>0. Len(n) \in Nat /\ VirtLen \in Nat
  BY WholeName, VirtLenAssumption
<1>1. CASE Len(n) <= VirtLen
  <2>1. FindLongestPrefixMatch(h, n) = Probe(h, n, Len(n), 0)
    BY <1>1 DEF FindLongestPrefixMatch
  <2> QED BY <1>0, <2>1, ProbeIs
<1>2. CASE Len(n) > VirtLen
  <2> DEFINE hi == MinOf(h.virt[v], Len(n))
             deep == IF v \in DOMAIN h.virt THEN Probe(h, n, hi, VirtLen + 1) ELSE VirtLen
             low == Probe(h, n, VirtLen, 0)
  <2>1. FindLongestPrefixMatch(h, n) = IF deep > VirtLen THEN deep ELSE low
    BY <1>0, <1>2 DEF FindLongestPrefixMatch
  <2>2. /\ low \in (-1)..VirtLen
        /\ \A j \in 0..VirtLen : j > low => Pfx(n, j) \notin DOMAIN h.real
    BY <1>0, ProbeIs
  <2>3. ASSUME NEW j \in (VirtLen + 1)..Len(n), Pfx(n, j) \in DOMAIN h.real
        PROVE  v \in DOMAIN h.virt /\ h.virt[v] \in Nat /\ j <= h.virt[v]
    <3>1. Len(Pfx(n, j)) = j /\ Pfx(Pfx(n, j), VirtLen) = v
      BY <1>0, PrefixIs
    <3>2. Covered(h, Pfx(n, j))
      BY <1>0, <2>3, <3>1 DEF IsHash
    <3> QED BY <3>1, <3>2 DEF Covered, IsHash
  <2>4. /\ deep \in VirtLen..Len(n)
        /\ \A j \in (VirtLen + 1)..Len(n) : j > deep => Pfx(n, j) \notin DOMAIN h.real
    <3>1. CASE v \notin DOMAIN h.virt
      <4> HIDE DEF v, hi
      <4> QED BY <1>0, <1>2, <2>3, <3>1
    <3>2. CASE v \in DOMAIN h.virt
      <4>1. h.virt[v] \in Nat
        BY <3>2 DEF IsHash
      <4>2. /\ hi \in Int /\ hi <= Len(n) /\ VirtLen + 1 \in Int
            /\ \A j \in Nat : j <= h.virt[v] /\ j <= Len(n) => j <= hi
        BY <1>0, <4>1 DEF MinOf
      <4>3. deep = Probe(h, n, hi, VirtLen + 1)
        BY <3>2
      <4> HIDE DEF hi, deep, v
      <4>4. /\ deep \in Int /\ (VirtLen + 1) - 1 <= deep
            /\ deep <= hi \/ deep = (VirtLen + 1) - 1
            /\ \A j \in (VirtLen + 1)..hi : j > deep => Pfx(n, j) \notin DOMAIN h.real
        BY <4>2, <4>3, ProbeIs
      <4>5. ASSUME NEW j \in (VirtLen + 1)..Len(n), j > deep, Pfx(n, j) \in DOMAIN h.real
            PROVE  FALSE
        <5>1. j \in Nat /\ j <= Len(n) /\ j <= h.virt[v]
          BY <1>0, <2>3, <4>5
        <5>2. j <= hi
          BY <4>2, <5>1
        <5> QED BY <1>0, <4>2, <4>4, <4>5, <5>2
      <4> QED BY <1>0, <1>2, <4>2, <4>4, <4>5
    <3> QED BY <3>1, <3>2
  <2> HIDE DEF deep, low
  <2>5. CASE deep > VirtLen
    BY <1>0, <2>1, <2>4, <2>5
  <2>6. CASE ~(deep > VirtLen)
    <3>1. ASSUME NEW j \in 0..Len(n), j > low PROVE Pfx(n, j) \notin DOMAIN h.real
      <4>1. CASE j <= VirtLen
        BY <1>0, <2>2, <3>1, <4>1
      <4>2. CASE j > VirtLen
        BY <1>0, <2>4, <2>6, <4>2
      <4> QED BY <1>0, <4>1, <4>2
    <3> QED BY <1>0, <1>2, <2>1, <2>2, <2>6, <3>1
  <2> QED BY <2>5, <2>6
<1> QED BY <1>0, <1>1, <1>2

\* From the match back, the hash table passes no entry that has next hops.
LEMMA HashHopsFound ==
  ASSUME NEW h, IsHash(h), NEW n, IsName(n) PROVE HopsFound(h.real, n, HashFindNextHops(h, n))
<1> DEFINE len == FindLongestPrefixMatch(h, n)
           has == {k \in 0..len : Pfx(n, k) \in DOMAIN h.real /\ h.real[Pfx(n, k)].hops # NoHops}
           k == StopAt(has, len, -1)
<1>0. Len(n) \in Nat
  BY WholeName
<1>1. len \in (-1)..Len(n) /\ \A j \in 0..Len(n) : j > len => Pfx(n, j) \notin DOMAIN h.real
  BY MatchIs
<1>2. HashFindNextHops(h, n) = IF k < 0 THEN NoHops ELSE h.real[Pfx(n, k)].hops
  BY DEF HashFindNextHops
<1> HIDE DEF len
<1>3. len \in Int /\ -1 \in Int /\ -1 <= len
  BY <1>0, <1>1
<1>4. k \in (-1)..len /\ (k = -1 \/ k \in has) /\ \A j \in (k + 1)..len : j \notin has
  <2> HIDE DEF has
  <2> QED BY <1>3, StopAtIs
<1> HIDE DEF k
<1>5. ASSUME NEW j \in (k + 1)..Len(n) PROVE EntryOf(h.real, Pfx(n, j)).hops = NoHops
  <2>1. j \in 0..Len(n)
    BY <1>0, <1>1, <1>4
  <2>2. CASE j > len
    BY <1>1, <2>1, <2>2 DEF EntryOf, EmptyEntry
  <2>3. CASE j <= len
    BY <1>0, <1>1, <1>4, <2>1, <2>3 DEF EntryOf, EmptyEntry
  <2> QED BY <1>0, <1>1, <2>1, <2>2, <2>3
<1>6. CASE k = -1
  <2>1. \A j \in 0..Len(n) : j \in (k + 1)..Len(n)
    BY <1>6
  <2>2. HashFindNextHops(h, n) = NoHops
    BY <1>2, <1>6
  <2> QED BY <1>5, <2>1, <2>2 DEF HopsFound
<1>7. CASE k # -1
  <2>1. k \in has /\ k \in 0..Len(n) /\ ~(k < 0)
    BY <1>0, <1>1, <1>4, <1>7
  <2>2. HashFindNextHops(h, n) = EntryOf(h.real, Pfx(n, k)).hops /\ HashFindNextHops(h, n) # NoHops
    BY <1>2, <2>1 DEF EntryOf
  <2> QED BY <1>5, <2>1, <2>2 DEF HopsFound
<1> QED BY <1>6, <1>7

\* From the match back, the hash table passes no entry that has a strategy, and
\* the root's has one.
LEMMA HashChoiceFound ==
  ASSUME NEW h, IsHash(h), NEW n, IsName(n) PROVE ChoiceFound(h.real, n, HashFindStrategy(h, n))
<1> DEFINE len == FindLongestPrefixMatch(h, n)
           has == {k \in 0..len : /\ Pfx(n, k) \in DOMAIN h.real
                                  /\ h.real[Pfx(n, k)].strategy # NoStrategy}
           k == StopAt(has, len, -1)
<1>0. Len(n) \in Nat /\ Pfx(n, 0) = Root
  BY WholeName
<1>1. len \in (-1)..Len(n) /\ \A j \in 0..Len(n) : j > len => Pfx(n, j) \notin DOMAIN h.real
  BY MatchIs
<1>2. HashFindStrategy(h, n) = IF k < 0 THEN NoStrategy ELSE h.real[Pfx(n, k)].strategy
  BY DEF HashFindStrategy
<1> HIDE DEF len
<1>3. len \in Int /\ -1 \in Int /\ -1 <= len
  BY <1>0, <1>1
<1>4. k \in (-1)..len /\ (k = -1 \/ k \in has) /\ \A j \in (k + 1)..len : j \notin has
  <2> HIDE DEF has
  <2> QED BY <1>3, StopAtIs
<1> HIDE DEF k
<1>5. ASSUME NEW j \in (k + 1)..Len(n) PROVE EntryOf(h.real, Pfx(n, j)).strategy = NoStrategy
  <2>1. j \in 0..Len(n)
    BY <1>0, <1>1, <1>4
  <2>2. CASE j > len
    BY <1>1, <2>1, <2>2 DEF EntryOf, EmptyEntry
  <2>3. CASE j <= len
    BY <1>0, <1>1, <1>4, <2>1, <2>3 DEF EntryOf, EmptyEntry
  <2> QED BY <1>0, <1>1, <2>1, <2>2, <2>3
<1>6. EntryOf(h.real, Pfx(n, 0)).strategy # NoStrategy
  BY <1>0 DEF IsHash, IsTable, EntryOf
<1>7. k # -1
  <2> SUFFICES ASSUME k = -1 PROVE FALSE
    OBVIOUS
  <2>1. 0 \in (k + 1)..Len(n)
    BY <1>0
  <2> QED BY <1>5, <1>6, <2>1
<1>8. k \in has /\ k \in 0..Len(n) /\ ~(k < 0)
  BY <1>0, <1>1, <1>4, <1>7
<1>9. /\ HashFindStrategy(h, n) = EntryOf(h.real, Pfx(n, k)).strategy
      /\ HashFindStrategy(h, n) # NoStrategy
  BY <1>2, <1>8 DEF EntryOf
<1> QED BY <1>5, <1>8, <1>9 DEF ChoiceFound

\* Both tables are made with an entry for the root and no other.
LEMMA NewTablesAre ==
  /\ IsTree(NewTree(DefaultStrategy)) /\ IsHash(NewHashTable(DefaultStrategy))
  /\ NewHashTable(DefaultStrategy).real = NewTree(DefaultStrategy)
  /\ \A n : EntryOf(NewTree(DefaultStrategy), n).hops = NoHops
  /\ \A n : EntryOf(NewTree(DefaultStrategy), n).strategy =
              IF n = Root THEN DefaultStrategy ELSE NoStrategy
<1> DEFINE t == NewTree(DefaultStrategy)
           h == NewHashTable(DefaultStrategy)
           e == [EmptyEntry EXCEPT !.strategy = DefaultStrategy]
<1>1. e \in Entry /\ e.strategy = DefaultStrategy /\ e.hops = NoHops /\ DefaultStrategy # NoStrategy
  BY ValuesAssumption DEF EmptyEntry, Entry, NoHops
<1>2. t = [n \in {Root} |-> e]
  BY DEF NewTree, Root
<1>3. h = [real |-> t, virt |-> <<>>, virtNames |-> <<>>]
  BY DEF NewHashTable, NewTree, Root
<1> HIDE DEF t, h, e
<1>4. DOMAIN t = {Root} /\ t[Root] = e
  BY <1>2
<1>5. IsTable(t)
  BY <1>1, <1>2, <1>4, NamesAssumption DEF IsTable
<1>6. Len(Root) = 0 /\ Pfx(Root, 0) = Root
  BY DEF Root, Pfx
<1>7. IsTree(t)
  <2>1. \A k \in 0..Len(Root) : Pfx(Root, k) = Root
    BY <1>6
  <2> QED BY <1>4, <1>5, <2>1 DEF IsTree
<1>8. h.real = t /\ h.virt = <<>> /\ h.virtNames = <<>> /\ DOMAIN h.virt = {}
  BY <1>3
<1>9. IsHash(h)
  <2>1. \A n \in DOMAIN h.real : ~(Len(n) > VirtLen)
    BY <1>4, <1>6, <1>8, VirtLenAssumption
  <2> QED BY <1>3, <1>5, <1>8, <2>1 DEF IsHash
<1>10. \A n : EntryOf(t, n).hops = NoHops
  BY <1>1, <1>4 DEF EntryOf, EmptyEntry
<1>11. \A n : EntryOf(t, n).strategy = IF n = Root THEN DefaultStrategy ELSE NoStrategy
  BY <1>1, <1>4 DEF EntryOf, EmptyEntry
<1> QED BY <1>7, <1>8, <1>9, <1>10, <1>11 DEF t, h
-----------------------------------------------------------------------------
(***************************************************************************)
(* The RIB.                                                                *)
(***************************************************************************)
Routes == {reg[2] : reg \in Registrations}

\* Face and origin of the routes in a list; no two routes have the same.
Pairs(s) == {<<s[i].face, s[i].origin>> : i \in 1..Len(s)}
Distinct(s) ==
  \A i, j \in 1..Len(s) : s[i].face = s[j].face /\ s[i].origin = s[j].origin => i = j

\* A RIB: lists of distinct routes, at nodes closed under prefixes.
IsRib(r) ==
  /\ DOMAIN r \subseteq Names /\ Root \in DOMAIN r /\ r \in [DOMAIN r -> Seq(Routes)]
  /\ \A n \in DOMAIN r : \A k \in 0..Len(n) : Pfx(n, k) \in DOMAIN r
  /\ \A n \in DOMAIN r : \A i \in 1..Len(r[n]) : <<n, r[n][i]>> \in Registrations
  /\ \A n \in DOMAIN r : Distinct(r[n])

-----------------------------------------------------------------------------
\* Lists of routes.

\* A position in a set of positions that is not empty.
LEMMA FirstIs == ASSUME NEW S, S \subseteq Nat, S # {} PROVE First(S) \in S
<1>1. \E i \in S : \A j \in S : i <= j
  BY LeastNumber
<1> QED BY <1>1 DEF First

\* The position of a route in a list of distinct ones.
LEMMA WithRouteIs ==
  ASSUME NEW R, NEW s \in Seq(R), Distinct(s), NEW rt \in R
  PROVE  LET q == WithRoute(s, rt)
         IN /\ q \in Seq(R) /\ Distinct(q) /\ Pairs(q) = Pairs(s) \cup {<<rt.face, rt.origin>>}
            /\ \A i \in 1..Len(q) : q[i] = rt \/ \E j \in 1..Len(s) : q[i] = s[j]
<1> DEFINE same == SameRoute(s, rt)
           q == WithRoute(s, rt)
           p == First(same)
<1>0. Len(s) \in Nat /\ DOMAIN s = 1..Len(s) /\ s = [i \in 1..Len(s) |-> s[i]]
  BY LenProperties
<1>1. /\ same \subseteq 1..Len(s)
      /\ \A i \in 1..Len(s) : i \in same <=> s[i].face = rt.face /\ s[i].origin = rt.origin
  BY DEF SameRoute
<1>2. CASE same = {}
  <2>1. q = Append(s, rt)
    BY <1>2 DEF WithRoute
  <2>2. q \in Seq(R) /\ Len(q) = Len(s) + 1 /\ q[Len(s) + 1] = rt /\ \A i \in 1..Len(s) : q[i] = s[i]
    BY <2>1, <1>0, AppendProperties
  <2>3. \A i \in 1..Len(q) : i = Len(s) + 1 \/ i \in 1..Len(s)
    BY <1>0, <2>2
  <2>4. 1..Len(s) \subseteq 1..Len(q) /\ Len(s) + 1 \in 1..Len(q)
    BY <1>0, <2>2
  <2> HIDE DEF q, same
  <2>5. Distinct(q)
    <3> SUFFICES ASSUME NEW i \in 1..Len(q), NEW j \in 1..Len(q),
                        q[i].face = q[j].face, q[i].origin = q[j].origin
                 PROVE  i = j
      BY DEF Distinct
    <3> QED BY <1>1, <1>2, <2>2, <2>3 DEF Distinct
  <2>6. Pairs(q) = Pairs(s) \cup {<<rt.face, rt.origin>>}
    BY <2>2, <2>3, <2>4 DEF Pairs
  <2> QED BY <2>2, <2>3, <2>5, <2>6 DEF q
<1>3. CASE same # {}
  <2>1. p \in same /\ p \in 1..Len(s)
    <3>1. same \subseteq Nat
      BY <1>0, <1>1
    <3> HIDE DEF same
    <3> QED BY <1>1, <1>3, <3>1, FirstIs
  <2>2. q = [s EXCEPT ![p] = rt]
    BY <1>3 DEF WithRoute
  <2> HIDE DEF p, same, q
  <2>3. q \in Seq(R) /\ Len(q) = Len(s) /\ q[p] = rt /\ \A i \in 1..Len(s) \ {p} : q[i] = s[i]
    BY <1>0, <2>1, <2>2, ExceptSeq
  <2>4. s[p].face = rt.face /\ s[p].origin = rt.origin
    BY <1>1, <2>1
  <2>5. \A i \in 1..Len(s) : q[i].face = s[i].face /\ q[i].origin = s[i].origin
    BY <2>1, <2>3, <2>4
  <2>6. Distinct(q)
    BY <2>3, <2>5 DEF Distinct
  <2>7. Pairs(q) = Pairs(s)
    BY <2>3, <2>5 DEF Pairs
  <2>8. <<rt.face, rt.origin>> \in Pairs(s)
    BY <2>1, <2>4 DEF Pairs
  <2> QED BY <2>1, <2>3, <2>6, <2>7, <2>8 DEF q
<1> QED BY <1>2, <1>3

\* A list of distinct routes without one of them.
LEMMA RemoveAtIs ==
  ASSUME NEW R, NEW s \in Seq(R), Distinct(s), NEW p \in 1..Len(s)
  PROVE  LET q == RemoveAt(s, p)
         IN /\ q \in Seq(R) /\ Distinct(q) /\ Pairs(q) = Pairs(s) \ {<<s[p].face, s[p].origin>>}
            /\ \A i \in 1..Len(q) : \E j \in 1..Len(s) : q[i] = s[j]
<1> DEFINE q == RemoveAt(s, p)
           At(i) == IF i < p THEN i ELSE i + 1
<1>0. Len(s) \in Nat /\ Len(s) > 0 /\ p \in Nat
  BY LenProperties
<1>1. \A i \in 1..(Len(s) - 1) : At(i) \in 1..Len(s) /\ At(i) # p
  BY <1>0
<1>2. \A i, j \in 1..(Len(s) - 1) : At(i) = At(j) => i = j
  BY <1>0
<1>3. \A j \in 1..Len(s) : j # p => \E i \in 1..(Len(s) - 1) : At(i) = j
  <2> TAKE j \in 1..Len(s)
  <2> HAVE j # p
  <2>1. CASE j < p
    <3>1. j \in 1..(Len(s) - 1) /\ At(j) = j
      BY <1>0, <2>1
    <3> QED BY <3>1
  <2>2. CASE j > p
    <3>1. j - 1 \in 1..(Len(s) - 1) /\ At(j - 1) = j
      BY <1>0, <2>2
    <3> QED BY <3>1
  <2> QED BY <1>0, <2>1, <2>2
<1>4. q = [i \in 1..(Len(s) - 1) |-> s[At(i)]]
  BY <1>0 DEF RemoveAt
<1> HIDE DEF At, q
<1>5. q \in Seq(R) /\ Len(q) = Len(s) - 1 /\ \A i \in 1..(Len(s) - 1) : q[i] = s[At(i)]
  BY <1>0, <1>1, <1>4
<1>6. Distinct(q)
  BY <1>1, <1>2, <1>5 DEF Distinct
<1>7. \A i \in 1..Len(q) : \E j \in 1..Len(s) : q[i] = s[j]
  BY <1>1, <1>5
<1>8. ASSUME NEW x PROVE x \in Pairs(q) <=> x \in Pairs(s) /\ x # <<s[p].face, s[p].origin>>
  <2>1. ASSUME x \in Pairs(q) PROVE x \in Pairs(s) /\ x # <<s[p].face, s[p].origin>>
    <3>1. PICK i \in 1..(Len(s) - 1) : x = <<q[i].face, q[i].origin>>
      BY <1>5, <2>1 DEF Pairs
    <3>2. PICK j \in 1..Len(s) : j = At(i) /\ j # p /\ x = <<s[j].face, s[j].origin>>
      BY <1>1, <1>5, <3>1
    <3>3. ~(s[j].face = s[p].face /\ s[j].origin = s[p].origin)
      BY <3>2 DEF Distinct
    <3> QED BY <3>2, <3>3 DEF Pairs
  <2>2. ASSUME x \in Pairs(s), x # <<s[p].face, s[p].origin>> PROVE x \in Pairs(q)
    <3>1. PICK j \in 1..Len(s) : x = <<s[j].face, s[j].origin>>
      BY <2>2 DEF Pairs
    <3>2. PICK i \in 1..(Len(s) - 1) : At(i) = j
      BY <1>3, <2>2, <3>1
    <3>3. x = <<q[i].face, q[i].origin>> /\ i \in 1..Len(q)
      BY <1>5, <3>1, <3>2
    <3> QED BY <3>3 DEF Pairs
  <2> QED BY <2>1, <2>2
<1> QED BY <1>5, <1>6, <1>7, <1>8 DEF q

-----------------------------------------------------------------------------
\* Changes of the RIB.

\* q is r but for the routes of n, and for nodes without routes.
OnlyAt(r, q, n) ==
  /\ \A m \in DOMAIN r \ {n} : m \in DOMAIN q /\ q[m] = r[m]
  /\ \A m \in DOMAIN q \ (DOMAIN r \cup {n}) : q[m] = <<>>

Told(r, n) == IF n \in DOMAIN r THEN Pairs(r[n]) ELSE {}

\* What is registered.
LEMMA RegistrationIs ==
  ASSUME NEW reg \in Registrations
  PROVE  /\ reg = <<reg[1], reg[2]>> /\ reg[1] \in Names /\ reg[2] \in Routes
         /\ reg[2].face \in Faces /\ reg[2].cost \in Costs /\ reg # NoRequest
<1>1. reg = <<reg[1], reg[2]>> /\ reg[1] \in Names /\ reg[2].face \in Faces /\ reg[2].cost \in Costs
  BY RegistrationsAssumption
<1>2. reg[2] \in Routes
  BY DEF Routes
<1>3. <<reg[1], reg[2]>> # <<>>
  OBVIOUS
<1> QED BY <1>1, <1>2, <1>3 DEF NoRequest

\* The fields of a route.
LEMMA RouteIs == ASSUME NEW rt \in Routes PROVE rt.face \in Faces /\ rt.cost \in Costs /\ rt.cost \in Nat
BY RegistrationsAssumption, ValuesAssumption DEF Routes

\* A RIB with a route more, or one replaced.
LEMMA AddRouteIs ==
  ASSUME NEW r, IsRib(r), NEW reg \in Registrations
  PROVE  LET n == reg[1]
             rt == reg[2]
             q == [FillTree(r, n) EXCEPT ![n] = WithRoute(@, rt)]
         IN /\ IsRib(q) /\ OnlyAt(r, q, n) /\ n \in DOMAIN q
            /\ Told(q, n) = Told(r, n) \cup {<<rt.face, rt.origin>>}
<1> DEFINE n == reg[1]
           rt == reg[2]
           path == {Pfx(n, k) : k \in 0..Len(n)}
           w == FillTree(r, n)
           q == [w EXCEPT ![n] = WithRoute(@, rt)]
<1>0. n \in Names /\ rt \in Routes /\ <<n, rt>> \in Registrations
  BY RegistrationIs
<1>1. n \in path /\ path \subseteq Names /\ \A m \in path : \A j \in 0..Len(m) : Pfx(m, j) \in path
  BY <1>0, PathIs
<1>2. w = [m \in DOMAIN r \cup path |-> IF m \in DOMAIN r THEN r[m] ELSE <<>>]
  BY DEF FillTree
<1> HIDE DEF n, rt, path
<1>3. DOMAIN w = DOMAIN r \cup path /\ \A m \in DOMAIN w : w[m] = IF m \in DOMAIN r THEN r[m] ELSE <<>>
  BY <1>2
<1>4. DOMAIN q = DOMAIN w /\ q[n] = WithRoute(w[n], rt) /\ \A m \in DOMAIN w \ {n} : q[m] = w[m]
  BY <1>1, <1>2
<1>5. <<>> \in Seq(Routes) /\ Distinct(<<>>) /\ Len(<<>>) = 0 /\ Pairs(<<>>) = {}
  BY DEF Distinct, Pairs
<1>6. \A m \in DOMAIN w : w[m] \in Seq(Routes) /\ Distinct(w[m])
  BY <1>3, <1>5 DEF IsRib
<1>7. n \in DOMAIN w
  BY <1>1, <1>3
<1>8. /\ q[n] \in Seq(Routes) /\ Distinct(q[n])
      /\ Pairs(q[n]) = Pairs(w[n]) \cup {<<rt.face, rt.origin>>}
      /\ \A i \in 1..Len(q[n]) : q[n][i] = rt \/ \E j \in 1..Len(w[n]) : q[n][i] = w[n][j]
  BY <1>0, <1>4, <1>6, <1>7, WithRouteIs
<1>9. q = [m \in DOMAIN q |-> q[m]]
  BY <1>2
<1> HIDE DEF w, q
<1>10. \A m \in DOMAIN q : q[m] \in Seq(Routes) /\ Distinct(q[m])
  BY <1>4, <1>6, <1>8
<1>11. q \in [DOMAIN q -> Seq(Routes)]
  BY <1>9, <1>10
<1>12. \A m \in DOMAIN w : \A i \in 1..Len(w[m]) : <<m, w[m][i]>> \in Registrations
  BY <1>3, <1>5 DEF IsRib
<1>13. \A m \in DOMAIN q : \A i \in 1..Len(q[m]) : <<m, q[m][i]>> \in Registrations
  BY <1>0, <1>4, <1>7, <1>8, <1>12
<1>14. \A m \in DOMAIN q : \A k \in 0..Len(m) : Pfx(m, k) \in DOMAIN q
  BY <1>1, <1>3, <1>4 DEF IsRib
<1>15. DOMAIN q \subseteq Names /\ Root \in DOMAIN q
  BY <1>1, <1>3, <1>4 DEF IsRib
<1>16. IsRib(q)
  BY <1>10, <1>11, <1>13, <1>14, <1>15 DEF IsRib
<1>17. OnlyAt(r, q, n)
  BY <1>3, <1>4 DEF OnlyAt
<1>18. Told(q, n) = Told(r, n) \cup {<<rt.face, rt.origin>>}
  BY <1>3, <1>4, <1>5, <1>7, <1>8 DEF Told
<1> QED BY <1>4, <1>7, <1>16, <1>17, <1>18 DEF q, w, n, rt

\* Pruning a node takes no route.
LEMMA PruneNodeIs ==
  ASSUME NEW r, IsRib(r), NEW n \in DOMAIN r
  PROVE  LET q == PruneNode(r, n)
         IN IsRib(q) /\ OnlyAt(r, q, n) /\ Told(q, n) = Told(r, n)
<1> DEFINE q == PruneNode(r, n)
<1>1. CASE ~(n # Root /\ Below(n, DOMAIN r) = {n} /\ r[n] = <<>>)
  <2>1. q = r
    BY <1>1 DEF PruneNode
  <2> HIDE DEF q
  <2>2. IsRib(q) /\ OnlyAt(r, q, n) /\ Told(q, n) = Told(r, n)
    BY <2>1 DEF OnlyAt
  <2> QED BY <2>2 DEF q
<1>2. CASE n # Root /\ Below(n, DOMAIN r) = {n} /\ r[n] = <<>>
  <2>1. q = [m \in DOMAIN r \ {n} |-> r[m]]
    BY <1>2 DEF PruneNode
  <2>2. DOMAIN q = DOMAIN r \ {n} /\ \A m \in DOMAIN q : q[m] = r[m]
    BY <2>1
  <2>3. q \in [DOMAIN q -> Seq(Routes)]
    BY <2>1 DEF IsRib
  <2> HIDE DEF q
  <2>4. ASSUME NEW m \in DOMAIN q, NEW k \in 0..Len(m) PROVE Pfx(m, k) \in DOMAIN q
    <3>1. m \in DOMAIN r /\ m # n /\ IsName(m) /\ Pfx(m, k) \in DOMAIN r
      BY <2>2, NamesAssumption DEF IsRib
    <3>2. Len(m) \in Nat /\ Len(Pfx(m, k)) = k
      BY <3>1, PrefixIs, WholeName
    <3>3. Pfx(m, k) # n
      BY <1>2, <3>1, <3>2 DEF Below, IsPrefixOf
    <3> QED BY <2>2, <3>1, <3>3
  <2>5. IsRib(q)
    BY <1>2, <2>2, <2>3, <2>4 DEF IsRib
  <2>6. Pairs(<<>>) = {}
    BY DEF Pairs
  <2>7. OnlyAt(r, q, n) /\ Told(q, n) = Told(r, n)
    BY <1>2, <2>2, <2>6 DEF OnlyAt, Told
  <2> QED BY <2>5, <2>7 DEF q
<1> QED BY <1>1, <1>2

\* A RIB with a route less.
LEMMA DropRouteIs ==
  ASSUME NEW r, IsRib(r), NEW n \in DOMAIN r, NEW p \in 1..Len(r[n])
  PROVE  LET q == PruneNode([r EXCEPT ![n] = RemoveAt(@, p)], n)
         IN /\ IsRib(q) /\ OnlyAt(r, q, n)
            /\ Told(q, n) = Told(r, n) \ {<<r[n][p].face, r[n][p].origin>>}
<1> DEFINE w == [r EXCEPT ![n] = RemoveAt(@, p)]
           q == PruneNode(w, n)
           pair == <<r[n][p].face, r[n][p].origin>>
<1>1. w = [r EXCEPT ![n] = RemoveAt(r[n], p)]
  OBVIOUS
<1>2. r[n] \in Seq(Routes) /\ Distinct(r[n]) /\ r = [m \in DOMAIN r |-> r[m]]
  BY DEF IsRib
<1>3. /\ DOMAIN w = DOMAIN r /\ w[n] = RemoveAt(r[n], p)
      /\ \A m \in DOMAIN r \ {n} : w[m] = r[m]
  BY <1>1
<1>4. /\ w[n] \in Seq(Routes) /\ Distinct(w[n]) /\ Pairs(w[n]) = Pairs(r[n]) \ {pair}
      /\ \A i \in 1..Len(w[n]) : \E j \in 1..Len(r[n]) : w[n][i] = r[n][j]
  <2> DEFINE s == r[n]
             x == RemoveAt(s, p)
  <2>1. s \in Seq(Routes) /\ Distinct(s) /\ p \in 1..Len(s)
    BY <1>2
  <2> HIDE DEF s
  <2>2. /\ x \in Seq(Routes) /\ Distinct(x) /\ Pairs(x) = Pairs(s) \ {<<s[p].face, s[p].origin>>}
        /\ \A i \in 1..Len(x) : \E j \in 1..Len(s) : x[i] = s[j]
    BY <2>1, RemoveAtIs
  <2>3. w[n] = x
    BY <1>3 DEF s
  <2> HIDE DEF x, w
  <2> QED BY <2>2, <2>3 DEF s
<1>5. w \in [DOMAIN w -> Seq(Routes)]
  BY <1>1, <1>3, <1>4 DEF IsRib
<1> HIDE DEF w, pair
<1>6. \A m \in DOMAIN w : \A i \in 1..Len(w[m]) : <<m, w[m][i]>> \in Registrations
  BY <1>3, <1>4 DEF IsRib
<1>7. IsRib(w)
  BY <1>3, <1>4, <1>5, <1>6 DEF IsRib
<1>8. IsRib(q) /\ OnlyAt(w, q, n) /\ Told(q, n) = Told(w, n)
  BY <1>3, <1>7, PruneNodeIs
<1> HIDE DEF q
<1>9. OnlyAt(r, q, n) /\ Told(q, n) = Told(r, n) \ {pair}
  BY <1>3, <1>4, <1>8 DEF OnlyAt, Told
<1> QED BY <1>8, <1>9 DEF w, q, pair

\* The routes of a node are routes, and there is one cost for a face.
LEMMA MinCostIs ==
  ASSUME NEW r, IsRib(r), NEW n \in Names
  PROVE  /\ MinCostRoutes(r, n) \subseteq Faces \X Costs
         /\ \A f, c, d : <<f, c>> \in MinCostRoutes(r, n) /\ <<f, d>> \in MinCostRoutes(r, n) => c = d
<1> DEFINE all == AllRoutes(r, n)
           best == {x \in all : \A y \in all : y.face = x.face => x.cost <= y.cost}
<1>1. CASE n \notin DOMAIN r
  BY <1>1 DEF MinCostRoutes
<1>2. CASE n \in DOMAIN r /\ r[n] = <<>>
  BY <1>2 DEF MinCostRoutes
<1>3. CASE n \in DOMAIN r /\ r[n] # <<>>
  <2>1. MinCostRoutes(r, n) = {<<rt.face, rt.cost>> : rt \in best}
    BY <1>3 DEF MinCostRoutes
  <2>2. \A m \in DOMAIN r : r[m] \in Seq(Routes) /\ \A i \in 1..Len(r[m]) : r[m][i] \in Routes
    BY DEF IsRib
  <2>3. \A m \in DOMAIN r : OwnRoutes(r, m) \subseteq Routes /\ PassedOn(r[m]) \subseteq Routes
    BY <2>2 DEF OwnRoutes, PassedOn
  <2>4. \A k \in 0..Len(n) : Pfx(n, k) \in DOMAIN r
    BY <1>3 DEF IsRib
  <2>5. all \subseteq Routes
    BY <1>3, <2>3, <2>4 DEF AllRoutes
  <2>6. \A rt \in all : rt.face \in Faces /\ rt.cost \in Costs /\ rt.cost \in Nat
    BY <2>5, RouteIs
  <2> HIDE DEF all
  <2>7. MinCostRoutes(r, n) \subseteq Faces \X Costs
    BY <2>1, <2>6
  <2>8. ASSUME NEW f, NEW c, NEW d, <<f, c>> \in MinCostRoutes(r, n), <<f, d>> \in MinCostRoutes(r, n)
        PROVE  c = d
    <3>1. PICK x \in best : <<f, c>> = <<x.face, x.cost>>
      BY <2>1, <2>8
    <3>2. PICK y \in best : <<f, d>> = <<y.face, y.cost>>
      BY <2>1, <2>8
    <3>3. x \in all /\ y \in all /\ x.face = y.face /\ c = x.cost /\ d = y.cost
      BY <3>1, <3>2
    <3>4. x.cost <= y.cost /\ y.cost <= x.cost
      BY <3>1, <3>2, <3>3
    <3> QED BY <2>6, <3>3, <3>4
  <2> QED BY <2>7, <2>8
<1> QED BY <1>1, <1>2, <1>3

\* A change at a node is of no consequence but for the node and those below it.
LEMMA ElsewhereSame ==
  ASSUME NEW r, IsRib(r), NEW q, IsRib(q), NEW n \in Names, OnlyAt(r, q, n),
         NEW m \in Names, m # n, m \notin Below(n, DOMAIN q)
  PROVE  MinCostRoutes(q, m) = MinCostRoutes(r, m)
<1>1. CASE m \notin DOMAIN q
  <2>1. m \notin DOMAIN r
    BY <1>1 DEF OnlyAt
  <2> QED BY <1>1, <2>1 DEF MinCostRoutes
<1>2. CASE m \in DOMAIN q /\ m \notin DOMAIN r
  <2>1. q[m] = <<>>
    BY <1>2 DEF OnlyAt
  <2> QED BY <1>2, <2>1 DEF MinCostRoutes
<1>3. CASE m \in DOMAIN q /\ m \in DOMAIN r
  <2>1. IsName(m) /\ IsName(n) /\ ~IsPrefixOf(n, m)
    BY <1>3, NamesAssumption DEF Below
  <2>2. \A k \in 0..Len(m) : Pfx(m, k) # n
    <3> SUFFICES ASSUME NEW k \in 0..Len(m), Pfx(m, k) = n PROVE FALSE
      OBVIOUS
    <3>1. Len(m) \in Nat /\ Len(n) = k
      BY <2>1, PrefixIs, WholeName
    <3> QED BY <2>1, <3>1 DEF IsPrefixOf
  <2>3. \A k \in 0..Len(m) : Pfx(m, k) \in DOMAIN r /\ q[Pfx(m, k)] = r[Pfx(m, k)]
    BY <1>3, <2>2 DEF IsRib, OnlyAt
  <2>4. q[m] = r[m]
    BY <1>3 DEF OnlyAt
  <2>5. AllRoutes(q, m) = AllRoutes(r, m)
    <3>1. {PassedOn(q[Pfx(m, k)]) : k \in 0..Len(m)} = {PassedOn(r[Pfx(m, k)]) : k \in 0..Len(m)}
      BY <2>3
    <3> QED BY <2>4, <3>1 DEF AllRoutes, OwnRoutes
  <2> QED BY <1>3, <2>4, <2>5 DEF MinCostRoutes
<1> QED BY <1>1, <1>2, <1>3

-----------------------------------------------------------------------------
\* The inductive invariant.

HopsAt(t, n) == EntryOf(t, n).hops

\* The next hops a RIB stands for.
AsHops(pairs) == [f \in Faces |-> LET cs == {c \in Costs : <<f, c>> \in pairs}
                                  IN IF cs = {} THEN Ignored ELSE CHOOSE c \in cs : TRUE]
Flat(r, n) == AsHops(MinCostRoutes(r, n))

\* The same, while the next hops in add are still to be inserted at a.
Partly(r, n, a, add) ==
  [f \in Faces |-> IF n = a /\ \E c \in Costs : <<f, c>> \in add THEN Ignored ELSE Flat(r, n)[f]]

\* What the walk, the clean-up and the requests range over.
Types ==
  /\ refresh \subseteq Names /\ at \in Names /\ adding \subseteq Faces \X Costs
  /\ owner \in {"nobody", "mgmt", "face"}
  /\ cleanup = [face |-> cleanup.face, todo |-> cleanup.todo, scope |-> cleanup.scope]
  /\ cleanup.todo \subseteq DOMAIN rib
  /\ live \subseteq Faces /\ dying \subseteq Faces \ live /\ edited \subseteq Names
  /\ checked = NoRequest \/ checked \in Registrations

\* A walk is only under way while the lock is held.
Guarded ==
  /\ ~Locked => refresh = {} /\ adding = {}
  /\ owner # "face" => cleanup.todo = {}

\* The entries that are not to be rewritten, and have not been edited, are what
\* the RIB says; the one being rewritten lacks what is still to be inserted.
Following ==
  /\ adding \subseteq MinCostRoutes(rib, at)
  /\ \A n \in Names \ (edited \cup refresh) :
       /\ HopsAt(hash.real, n) = Partly(rib, n, at, adding)
       /\ n # Root => HopsAt(tree, n) = Partly(rib, n, at, adding)

\* The announced routes are the client routes of the RIB.
Announced ==
  /\ advertised \subseteq Names \X Faces
  /\ \A n \in Names, f \in Faces : <<n, f>> \in advertised <=> <<f, Client>> \in Told(rib, n)

\* The inductive invariant.
IInv == IsTree(tree) /\ IsHash(hash) /\ IsRib(rib) /\ Types /\ Guarded /\ Following /\ Announced

\* The next hops a RIB stands for are those of its cheapest routes.
LEMMA FlatIs ==
  ASSUME NEW r, IsRib(r), NEW n \in Names, NEW f \in Faces
  PROVE  /\ \A c \in Costs : <<f, c>> \in MinCostRoutes(r, n) => Flat(r, n)[f] = c
         /\ (\A c \in Costs : <<f, c>> \notin MinCostRoutes(r, n)) => Flat(r, n)[f] = Ignored
<1> DEFINE cs == {c \in Costs : <<f, c>> \in MinCostRoutes(r, n)}
<1>1. Flat(r, n)[f] = IF cs = {} THEN Ignored ELSE CHOOSE c \in cs : TRUE
  BY DEF Flat, AsHops
<1>2. ASSUME NEW c \in Costs, <<f, c>> \in MinCostRoutes(r, n) PROVE Flat(r, n)[f] = c
  <2>1. \A d \in cs : d = c
    BY <1>2, MinCostIs
  <2>2. c \in cs
    BY <1>2
  <2> HIDE DEF cs
  <2>3. (CHOOSE d \in cs : TRUE) \in cs
    BY <2>2
  <2> QED BY <1>1, <2>1, <2>2, <2>3
<1>3. (\A c \in Costs : <<f, c>> \notin MinCostRoutes(r, n)) => Flat(r, n)[f] = Ignored
  BY <1>1
<1> QED BY <1>2, <1>3

\* With nothing to be inserted an entry is all there.
LEMMA PartlyWhole == ASSUME NEW r, NEW n, NEW a PROVE Partly(r, n, a, {}) = Flat(r, n)
BY DEF Partly, Flat, AsHops

\* With everything to be inserted it is empty.
LEMMA PartlyEmpty ==
  ASSUME NEW r, IsRib(r), NEW n \in Names PROVE Partly(r, n, n, MinCostRoutes(r, n)) = NoHops
<1>1. \A f \in Faces : (\A c \in Costs : <<f, c>> \notin MinCostRoutes(r, n)) => Flat(r, n)[f] = Ignored
  BY FlatIs
<1> QED BY <1>1 DEF Partly, NoHops

\* Another entry is not concerned.
LEMMA PartlyElsewhere ==
  ASSUME NEW r, NEW n, NEW a, NEW add, NEW b, NEW new, n # a \/ add = {}, n # b \/ new = {}
  PROVE  Partly(r, n, a, add) = Partly(r, n, b, new)
BY DEF Partly

\* A next hop that is inserted is there.
LEMMA PartlyInsert ==
  ASSUME NEW r, IsRib(r), NEW n \in Names, NEW add, add \subseteq MinCostRoutes(r, n),
         NEW hop \in add
  PROVE  [Partly(r, n, n, add) EXCEPT ![hop[1]] = hop[2]] = Partly(r, n, n, add \ {hop})
<1>1. PICK f \in Faces, c \in Costs : hop = <<f, c>>
  BY MinCostIs
<1>2. \A d \in Costs : <<f, d>> \in add => d = c
  BY <1>1, MinCostIs
<1>3. Flat(r, n)[f] = c
  BY <1>1, FlatIs
<1>4. \A d \in Costs : <<f, d>> \notin add \ {hop}
  BY <1>1, <1>2
<1>5. \A g \in Faces \ {f} : \A d \in Costs : <<g, d>> \in add \ {hop} <=> <<g, d>> \in add
  BY <1>1
<1> DEFINE P == Partly(r, n, n, add)
           Q == Partly(r, n, n, add \ {hop})
<1>6. P = [g \in Faces |-> P[g]] /\ Q = [g \in Faces |-> Q[g]]
  BY DEF Partly
<1>7. Q[f] = c
  BY <1>3, <1>4 DEF Partly
<1>8. \A g \in Faces \ {f} : Q[g] = P[g]
  BY <1>5 DEF Partly
<1> HIDE DEF P, Q
<1>9. [P EXCEPT ![f] = c] = Q
  BY <1>6, <1>7, <1>8
<1> QED BY <1>1, <1>9 DEF P, Q

\* u has the next hops h at n, and elsewhere those of t.
HopsOnly(t, u, n, h) == HopsAt(u, n) = h /\ \A m \in Names \ {n} : HopsAt(u, m) = HopsAt(t, m)

\* A change of one entry, as seen by its next hops.
LEMMA HopsChange ==
  ASSUME NEW t, NEW u, NEW n, NEW e, Changes(t, u, n, e)
  PROVE  HopsOnly(t, u, n, e.hops)
BY DEF Changes, HopsAt, HopsOnly

-----------------------------------------------------------------------------
\* The steps.

\* The invariant holds of the empty RIB and the new tables.
LEMMA InitIs == Init => IInv
<1> SUFFICES ASSUME Init PROVE IInv
  OBVIOUS
<1>0. rib = [n \in {Root} |-> <<>>] /\ DOMAIN rib = {Root} /\ rib[Root] = <<>>
  BY DEF Init, Root
<1>1. IsTree(tree) /\ IsHash(hash) /\ \A n : HopsAt(tree, n) = NoHops /\ HopsAt(hash.real, n) = NoHops
  BY NewTablesAre DEF Init, HopsAt
<1>2. <<>> \in Seq(Routes) /\ Distinct(<<>>) /\ Len(<<>>) = 0 /\ Pairs(<<>>) = {}
  BY DEF Distinct, Pairs
<1>3. \A k \in 0..Len(Root) : Pfx(Root, k) = Root
  BY DEF Root, Pfx
<1>4. IsRib(rib)
  <2>1. rib \in [DOMAIN rib -> Seq(Routes)]
    BY <1>0, <1>2
  <2> QED BY <1>0, <1>2, <1>3, <2>1, NamesAssumption DEF IsRib
<1>5. Types
  BY NamesAssumption DEF Init, Types, NoCleanup, Root
<1>6. Guarded
  BY DEF Init, Guarded, Locked, NoCleanup
<1>7. \A n \in Names : MinCostRoutes(rib, n) = {}
  BY <1>0 DEF MinCostRoutes
<1>8. ASSUME NEW n \in Names PROVE Partly(rib, n, at, adding) = NoHops
  <2>1. Partly(rib, n, at, adding) = Partly(rib, n, n, MinCostRoutes(rib, n))
    BY <1>7 DEF Init, Partly
  <2> QED BY <1>4, <2>1, PartlyEmpty
<1>9. Following
  BY <1>1, <1>8 DEF Init, Following
<1>10. \A n : Told(rib, n) = {}
  BY <1>0, <1>2 DEF Told
<1>11. Announced
  BY <1>10 DEF Init, Announced
<1> QED BY <1>1, <1>4, <1>5, <1>6, <1>9, <1>11 DEF IInv

\* The parts of the invariant that do not speak of the FIB.
LEMMA RibUnchanged ==
  ASSUME IInv, UNCHANGED <<rib, advertised>>
  PROVE  IsRib(rib)' /\ Announced'
BY DEF IInv, Announced

\* RefreshEntry (the head of updateNexthopsEnc's walk at a node): the node's entry is
\* cleared and its flattened next hops wait to be inserted.
LEMMA RefreshEntryStep == IInv /\ RefreshEntry => IInv'
<1> SUFFICES ASSUME IInv, RefreshEntry PROVE IInv'
  OBVIOUS
<1>1. PICK n \in NextNodes : Clear(n)
  BY DEF RefreshEntry
<1>2. /\ n \in refresh /\ n \in Names /\ adding = {}
      /\ UNCHANGED <<rib, owner, cleanup, live, dying, checked, advertised>>
  BY <1>1 DEF NextNodes, RefreshEntry, IInv, Types
<1>3. /\ refresh' = refresh \ {n} /\ at' = n /\ adding' = MinCostRoutes(rib, n)
      /\ tree' = TreeClearNextHops(tree, n, n = Root)
      /\ hash' = HashClearNextHops(hash, n)
      /\ edited' = edited \ {n}
  BY <1>1 DEF Clear
<1>4. IsTree(tree) /\ IsHash(hash) /\ IsRib(rib) /\ IsTable(tree) /\ IsTable(hash.real)
  BY DEF IInv, IsTree, IsHash
<1>5. IsTree(tree)' /\ (n # Root => Changes(tree, tree', n, WithoutHops(EntryOf(tree, n))))
                    /\ (n = Root => tree' = tree)
  <2>1. (n = Root) \in BOOLEAN
    OBVIOUS
  <2> QED BY <1>2, <1>3, <1>4, <2>1, TreeClearIs
<1>6. IsHash(hash)' /\ Changes(hash.real, hash'.real, n, WithoutHops(EntryOf(hash.real, n)))
  BY <1>2, <1>3, <1>4, HashClearIs
<1>7. EntryOf(tree, n) \in Entry /\ EntryOf(hash.real, n) \in Entry
  BY <1>4, EntryTyped
<1>8. /\ HopsAt(hash'.real, n) = NoHops
      /\ \A m \in Names \ {n} : HopsAt(hash'.real, m) = HopsAt(hash.real, m)
  <2>1. WithoutHops(EntryOf(hash.real, n)).hops = NoHops
    BY <1>7, WithoutHopsIs
  <2>2. HopsOnly(hash.real, hash'.real, n, WithoutHops(EntryOf(hash.real, n)).hops)
    BY <1>6, HopsChange
  <2> QED BY <2>1, <2>2 DEF HopsOnly
<1>9. /\ n # Root => HopsAt(tree', n) = NoHops
      /\ \A m \in Names \ {n} : HopsAt(tree', m) = HopsAt(tree, m)
  <2>1. CASE n = Root
    BY <1>5, <2>1
  <2>2. CASE n # Root
    <3>1. WithoutHops(EntryOf(tree, n)).hops = NoHops
      BY <1>7, WithoutHopsIs
    <3>2. HopsOnly(tree, tree', n, WithoutHops(EntryOf(tree, n)).hops)
      BY <1>5, <2>2, HopsChange
    <3> QED BY <3>1, <3>2 DEF HopsOnly
  <2> QED BY <2>1, <2>2
<1>10. Partly(rib', n, at', adding') = NoHops
  BY <1>2, <1>3, <1>4, PartlyEmpty
<1>11. ASSUME NEW m \in Names \ {n} PROVE Partly(rib', m, at', adding') = Partly(rib, m, at, adding)
  BY <1>2, <1>3, PartlyElsewhere
<1>12. Following'
  <2>1. adding' \subseteq MinCostRoutes(rib', at')
    BY <1>2, <1>3
  <2>2. ASSUME NEW m \in Names \ (edited' \cup refresh')
        PROVE  /\ HopsAt(hash'.real, m) = Partly(rib', m, at', adding')
               /\ m # Root => HopsAt(tree', m) = Partly(rib', m, at', adding')
    <3>1. CASE m = n
      BY <1>8, <1>9, <1>10, <3>1
    <3>2. CASE m # n
      <4>1. m \in Names \ (edited \cup refresh)
        BY <1>3, <3>2
      <4> QED BY <1>8, <1>9, <1>11, <3>2, <4>1 DEF IInv, Following
    <3> QED BY <3>1, <3>2
  <2> QED BY <2>1, <2>2 DEF Following
<1>13. MinCostRoutes(rib, n) \subseteq Faces \X Costs
  BY <1>2, <1>4, MinCostIs
<1>14. Types'
  BY <1>2, <1>3, <1>13 DEF IInv, Types
<1>15. Guarded'
  BY <1>2, <1>3 DEF IInv, Guarded, Locked
<1>16. IsRib(rib)' /\ Announced'
  BY <1>2, RibUnchanged
<1> QED BY <1>5, <1>6, <1>12, <1>14, <1>15, <1>16 DEF IInv

\* InsertHop: one more of the waiting next hops is in both tables.
LEMMA InsertHopStep == IInv /\ InsertHop => IInv'
<1> SUFFICES ASSUME IInv, InsertHop PROVE IInv'
  OBVIOUS
<1>1. PICK hop \in adding :
        /\ adding' = adding \ {hop}
        /\ tree' = TreeInsertNextHop(tree, at, hop[1], hop[2])
        /\ hash' = HashInsertNextHop(hash, at, hop[1], hop[2])
        /\ UNCHANGED <<rib, refresh, at, owner, cleanup, live, dying, checked, advertised, edited>>
  BY DEF InsertHop
<1>2. hop[1] \in Faces /\ hop[2] \in Costs /\ hop[2] \in Costs \cup {Ignored} /\ at \in Names
  BY DEF IInv, Types
<1>3. IsTree(tree) /\ IsHash(hash) /\ IsRib(rib) /\ IsTable(tree) /\ IsTable(hash.real)
  BY DEF IInv, IsTree, IsHash
<1>4. IsTree(tree)' /\ Changes(tree, tree', at, WithHop(EntryOf(tree, at), hop[1], hop[2]))
  BY <1>1, <1>2, <1>3, TreeInsertIs
<1>5. /\ IsHash(hash)'
      /\ Changes(hash.real, hash'.real, at, WithHop(EntryOf(hash.real, at), hop[1], hop[2]))
  BY <1>1, <1>2, <1>3, HashInsertIs
<1>6. EntryOf(tree, at) \in Entry /\ EntryOf(hash.real, at) \in Entry
  BY <1>3, EntryTyped
<1>7. /\ HopsAt(hash'.real, at) = [HopsAt(hash.real, at) EXCEPT ![hop[1]] = hop[2]]
      /\ \A m \in Names \ {at} : HopsAt(hash'.real, m) = HopsAt(hash.real, m)
  <2>1. WithHop(EntryOf(hash.real, at), hop[1], hop[2]).hops =
          [EntryOf(hash.real, at).hops EXCEPT ![hop[1]] = hop[2]]
    BY <1>2, <1>6, WithHopIs
  <2>2. HopsOnly(hash.real, hash'.real, at, WithHop(EntryOf(hash.real, at), hop[1], hop[2]).hops)
    BY <1>5, HopsChange
  <2>3. HopsAt(hash.real, at) = EntryOf(hash.real, at).hops
    BY DEF HopsAt
  <2> QED BY <2>1, <2>2, <2>3 DEF HopsOnly
<1>8. /\ HopsAt(tree', at) = [HopsAt(tree, at) EXCEPT ![hop[1]] = hop[2]]
      /\ \A m \in Names \ {at} : HopsAt(tree', m) = HopsAt(tree, m)
  <2>1. WithHop(EntryOf(tree, at), hop[1], hop[2]).hops =
          [EntryOf(tree, at).hops EXCEPT ![hop[1]] = hop[2]]
    BY <1>2, <1>6, WithHopIs
  <2>2. HopsOnly(tree, tree', at, WithHop(EntryOf(tree, at), hop[1], hop[2]).hops)
    BY <1>4, HopsChange
  <2>3. HopsAt(tree, at) = EntryOf(tree, at).hops
    BY DEF HopsAt
  <2> QED BY <2>1, <2>2, <2>3 DEF HopsOnly
<1>9. adding \subseteq MinCostRoutes(rib, at)
  BY DEF IInv, Following
<1>10. [Partly(rib, at, at, adding) EXCEPT ![hop[1]] = hop[2]] = Partly(rib', at, at', adding')
  BY <1>1, <1>2, <1>3, <1>9, PartlyInsert
<1>11. ASSUME NEW m \in Names \ {at} PROVE Partly(rib', m, at', adding') = Partly(rib, m, at, adding)
  BY <1>1, PartlyElsewhere
<1>12. Following'
  <2>1. adding' \subseteq MinCostRoutes(rib', at')
    BY <1>1, <1>9
  <2>2. ASSUME NEW m \in Names \ (edited' \cup refresh')
        PROVE  /\ HopsAt(hash'.real, m) = Partly(rib', m, at', adding')
               /\ m # Root => HopsAt(tree', m) = Partly(rib', m, at', adding')
    <3>0. /\ HopsAt(hash.real, m) = Partly(rib, m, at, adding)
          /\ m # Root => HopsAt(tree, m) = Partly(rib, m, at, adding)
      BY <1>1 DEF IInv, Following
    <3>1. CASE m = at
      BY <1>7, <1>8, <1>10, <3>0, <3>1
    <3>2. CASE m # at
      BY <1>7, <1>8, <1>11, <3>0, <3>2
    <3> QED BY <3>1, <3>2
  <2> QED BY <2>1, <2>2 DEF Following
<1>13. Types'
  BY <1>1 DEF IInv, Types
<1>14. Guarded'
  BY <1>1 DEF IInv, Guarded, Locked
<1>15. IsRib(rib)' /\ Announced'
  BY <1>1, RibUnchanged
<1> QED BY <1>4, <1>5, <1>12, <1>13, <1>14, <1>15 DEF IInv

\* Steps that leave the RIB, the FIB and the walk over it alone.
LEMMA FibUnchanged ==
  ASSUME IInv, UNCHANGED <<rib, refresh, adding, advertised, tree, hash, edited>>,
         at' = at \/ adding = {}
  PROVE  IsTree(tree)' /\ IsHash(hash)' /\ IsRib(rib)' /\ Following' /\ Announced'
<1>1. IsTree(tree)' /\ IsHash(hash)' /\ IsRib(rib)' /\ Announced'
  BY DEF IInv, Announced
<1>2. ASSUME NEW m PROVE Partly(rib', m, at', adding') = Partly(rib, m, at, adding)
  BY PartlyElsewhere
<1>3. adding' \subseteq MinCostRoutes(rib', at')
  BY DEF IInv, Following
<1> QED BY <1>1, <1>2, <1>3 DEF IInv, Following

\* Unlock: the RIB is free again once nothing waits.
LEMMA UnlockStep == IInv /\ Unlock => IInv'
<1> SUFFICES ASSUME IInv, Unlock PROVE IInv'
  OBVIOUS
<1>1. /\ refresh = {} /\ adding = {} /\ owner' = "nobody" /\ cleanup' = NoCleanup /\ at' = Root
      /\ UNCHANGED <<rib, refresh, adding, live, dying, checked, advertised, tree, hash, edited>>
  BY DEF Unlock, Refreshing, Root
<1>2. Types'
  BY <1>1, NamesAssumption DEF IInv, Types, NoCleanup
<1>3. Guarded'
  BY <1>1 DEF Guarded, NoCleanup
<1> QED BY <1>1, <1>2, <1>3, FibUnchanged DEF IInv

\* RegisterCheck: the face exists when the request is looked at.
LEMMA RegisterCheckStep == IInv /\ RegisterCheck => IInv'
<1> SUFFICES ASSUME IInv, RegisterCheck PROVE IInv'
  OBVIOUS
<1>1. /\ checked' \in Registrations
      /\ UNCHANGED <<rib, refresh, at, adding, owner, cleanup, live, dying, advertised,
                     tree, hash, edited>>
  BY DEF RegisterCheck
<1>2. Types'
  BY <1>1 DEF IInv, Types
<1>3. Guarded'
  BY <1>1 DEF IInv, Guarded, Locked
<1> QED BY <1>1, <1>2, <1>3, FibUnchanged DEF IInv

\* FaceRemove: the face leaves the table, its routes stay for the clean-up.
LEMMA FaceRemoveStep == IInv /\ FaceRemove => IInv'
<1> SUFFICES ASSUME IInv, FaceRemove PROVE IInv'
  OBVIOUS
<1>1. PICK f \in live :
        /\ live' = live \ {f} /\ dying' = dying \cup {f}
        /\ UNCHANGED <<rib, refresh, at, adding, owner, cleanup, checked, advertised,
                       tree, hash, edited>>
  BY DEF FaceRemove
<1>2. Types'
  BY <1>1 DEF IInv, Types
<1>3. Guarded'
  BY <1>1 DEF IInv, Guarded, Locked
<1> QED BY <1>1, <1>2, <1>3, FibUnchanged DEF IInv

\* CleanUpFace: the clean-up takes the lock and lists the nodes to visit.
LEMMA CleanUpFaceStep == IInv /\ CleanUpFace => IInv'
<1> SUFFICES ASSUME IInv, CleanUpFace PROVE IInv'
  OBVIOUS
<1>1. PICK f \in dying :
        /\ dying' = dying \ {f}
        /\ cleanup' = [face |-> f, todo |-> DOMAIN rib, scope |-> <<>>]
  BY DEF CleanUpFace
<1>2. /\ ~Locked /\ owner' = "face"
      /\ UNCHANGED <<rib, refresh, at, adding, live, checked, advertised, tree, hash, edited>>
  BY DEF CleanUpFace
<1>3. Types'
  BY <1>1, <1>2 DEF IInv, Types
<1>4. Guarded'
  BY <1>2 DEF IInv, Guarded, Locked
<1> QED BY <1>2, <1>3, <1>4, FibUnchanged DEF IInv

\* An edit of one entry of the FIB.
LEMMA EditStep ==
  ASSUME IInv, NEW n \in Names, NEW e, NEW d, IsTree(tree)', IsHash(hash)',
         Changes(tree, tree', n, e), Changes(hash.real, hash'.real, n, d),
         edited' = edited \cup {n},
         UNCHANGED <<rib, refresh, at, adding, owner, cleanup, live, dying, checked, advertised>>
  PROVE  IInv'
<1>1. \A m \in Names \ {n} : HopsAt(hash'.real, m) = HopsAt(hash.real, m) /\ HopsAt(tree', m) = HopsAt(tree, m)
  <2>1. HopsOnly(hash.real, hash'.real, n, d.hops)
    BY HopsChange
  <2>2. HopsOnly(tree, tree', n, e.hops)
    BY HopsChange
  <2> QED BY <2>1, <2>2 DEF HopsOnly
<1>2. Following'
  BY <1>1 DEF IInv, Following
<1>3. Types'
  BY DEF IInv, Types
<1>4. Guarded'
  BY DEF IInv, Guarded, Locked
<1> QED BY <1>2, <1>3, <1>4, RibUnchanged DEF IInv

\* FibAdd: management inserts a next hop of its own.
LEMMA FibAddStep == IInv /\ FibAdd => IInv'
<1> SUFFICES ASSUME IInv, FibAdd PROVE IInv'
  OBVIOUS
<1>1. PICK e \in FibEdits, c \in Costs :
        /\ tree' = TreeInsertNextHop(tree, e[1], e[2], c)
        /\ hash' = HashInsertNextHop(hash, e[1], e[2], c)
        /\ edited' = edited \cup {e[1]}
  BY DEF FibAdd
<1>2. e[1] \in Names /\ e[2] \in Faces /\ IsTree(tree) /\ IsHash(hash)
  BY EditsAssumption DEF IInv
<1>3. IsTree(tree)' /\ Changes(tree, tree', e[1], WithHop(EntryOf(tree, e[1]), e[2], c))
  BY <1>1, <1>2, TreeInsertIs
<1>4. /\ IsHash(hash)'
      /\ Changes(hash.real, hash'.real, e[1], WithHop(EntryOf(hash.real, e[1]), e[2], c))
  BY <1>1, <1>2, HashInsertIs
<1>5. UNCHANGED <<rib, refresh, at, adding, owner, cleanup, live, dying, checked, advertised>>
  BY DEF FibAdd
<1> QED BY <1>1, <1>2, <1>3, <1>4, <1>5, EditStep

\* FibRemove: management removes a next hop.
LEMMA FibRemoveStep == IInv /\ FibRemove => IInv'
<1> SUFFICES ASSUME IInv, FibRemove PROVE IInv'
  OBVIOUS
<1>1. PICK e \in FibEdits :
        /\ tree' = TreeRemoveNextHop(tree, e[1], e[2])
        /\ hash' = HashRemoveNextHop(hash, e[1], e[2])
        /\ edited' = edited \cup {e[1]}
  BY DEF FibRemove
<1>2. e[1] \in Names /\ e[2] \in Faces /\ IsTree(tree) /\ IsHash(hash)
  BY EditsAssumption DEF IInv
<1>3. IsTree(tree)' /\ Changes(tree, tree', e[1], WithHop(EntryOf(tree, e[1]), e[2], Ignored))
  BY <1>1, <1>2, TreeRemoveIs
<1>4. /\ IsHash(hash)'
      /\ Changes(hash.real, hash'.real, e[1], WithHop(EntryOf(hash.real, e[1]), e[2], Ignored))
  BY <1>1, <1>2, HashRemoveIs
<1>5. UNCHANGED <<rib, refresh, at, adding, owner, cleanup, live, dying, checked, advertised>>
  BY DEF FibRemove
<1> QED BY <1>1, <1>2, <1>3, <1>4, <1>5, EditStep

\* A change of one strategy, which no next hop depends on.
LEMMA ChoiceStep ==
  ASSUME IInv, NEW n \in Names, NEW s \in Strategies \cup {DefaultStrategy, NoStrategy},
         IsTree(tree)', IsHash(hash)',
         Changes(tree, tree', n, WithChoice(EntryOf(tree, n), s)),
         Changes(hash.real, hash'.real, n, WithChoice(EntryOf(hash.real, n), s)),
         UNCHANGED <<rib, refresh, at, adding, owner, cleanup, live, dying, checked, advertised, edited>>
  PROVE  IInv'
<1>0. EntryOf(tree, n) \in Entry /\ EntryOf(hash.real, n) \in Entry
  BY EntryTyped DEF IInv, IsTree, IsHash
<1>1. \A m \in Names : HopsAt(hash'.real, m) = HopsAt(hash.real, m) /\ HopsAt(tree', m) = HopsAt(tree, m)
  <2>1. /\ WithChoice(EntryOf(tree, n), s).hops = HopsAt(tree, n)
        /\ WithChoice(EntryOf(hash.real, n), s).hops = HopsAt(hash.real, n)
    BY <1>0, WithChoiceIs DEF HopsAt
  <2>2. HopsOnly(tree, tree', n, WithChoice(EntryOf(tree, n), s).hops)
    BY HopsChange
  <2>3. HopsOnly(hash.real, hash'.real, n, WithChoice(EntryOf(hash.real, n), s).hops)
    BY HopsChange
  <2> QED BY <2>1, <2>2, <2>3 DEF HopsOnly
<1>2. Following'
  BY <1>1 DEF IInv, Following
<1>3. Types'
  BY DEF IInv, Types
<1>4. Guarded'
  BY DEF IInv, Guarded, Locked
<1> QED BY <1>2, <1>3, <1>4, RibUnchanged DEF IInv

\* StrategySet: a strategy choice leaves every next hop alone.
LEMMA StrategySetStep == IInv /\ StrategySet => IInv'
<1> SUFFICES ASSUME IInv, StrategySet PROVE IInv'
  OBVIOUS
<1>1. PICK n \in ChoiceNames, s \in Strategies :
        tree' = TreeSetStrategy(tree, n, s) /\ hash' = HashSetStrategy(hash, n, s)
  BY DEF StrategySet
<1>2. n \in Names /\ IsTree(tree) /\ IsHash(hash) /\ s \in Strategies \cup {DefaultStrategy, NoStrategy}
  BY EditsAssumption DEF IInv
<1>3. IsTree(tree)' /\ Changes(tree, tree', n, WithChoice(EntryOf(tree, n), s))
  BY <1>1, <1>2, TreeSetIs
<1>4. IsHash(hash)' /\ Changes(hash.real, hash'.real, n, WithChoice(EntryOf(hash.real, n), s))
  BY <1>1, <1>2, HashSetIs
<1>5. UNCHANGED <<rib, refresh, at, adding, owner, cleanup, live, dying, checked, advertised, edited>>
  BY DEF StrategySet
<1> QED BY <1>2, <1>3, <1>4, <1>5, ChoiceStep

\* StrategyUnset: so does taking one back.
LEMMA StrategyUnsetStep == IInv /\ StrategyUnset => IInv'
<1> SUFFICES ASSUME IInv, StrategyUnset PROVE IInv'
  OBVIOUS
<1>1. PICK n \in ChoiceNames \ {<<>>} :
        tree' = TreeUnSetStrategy(tree, n) /\ hash' = HashUnSetStrategy(hash, n)
  BY DEF StrategyUnset
<1>2. /\ n \in Names /\ n \in Names \ {Root} /\ IsTree(tree) /\ IsHash(hash)
      /\ NoStrategy \in Strategies \cup {DefaultStrategy, NoStrategy}
  BY EditsAssumption DEF IInv, Root
<1>3. IsTree(tree)' /\ Changes(tree, tree', n, WithChoice(EntryOf(tree, n), NoStrategy))
  BY <1>1, <1>2, TreeUnSetIs
<1>4. /\ IsHash(hash)'
      /\ Changes(hash.real, hash'.real, n, WithChoice(EntryOf(hash.real, n), NoStrategy))
  BY <1>1, <1>2, HashUnSetIs
<1>5. UNCHANGED <<rib, refresh, at, adding, owner, cleanup, live, dying, checked, advertised, edited>>
  BY DEF StrategyUnset
<1> QED BY <1>2, <1>3, <1>4, <1>5, ChoiceStep

\* A change of the routes of n, after which the entries at and below n are to be
\* rewritten.
LEMMA RouteStep ==
  ASSUME IInv, NEW n \in Names, IsRib(rib)', OnlyAt(rib, rib', n), BeginRefresh(rib', n),
         refresh = {}, adding = {}, UNCHANGED <<tree, hash, edited>>
  PROVE  IsTree(tree)' /\ IsHash(hash)' /\ Following'
<1>1. refresh' = Below(n, DOMAIN rib') \cup {n} /\ at' = at /\ adding' = {}
  BY DEF BeginRefresh
<1>2. ASSUME NEW m \in Names \ (edited' \cup refresh')
      PROVE  /\ HopsAt(hash'.real, m) = Partly(rib', m, at', adding')
             /\ m # Root => HopsAt(tree', m) = Partly(rib', m, at', adding')
  <2>1. m \in Names \ (edited \cup refresh) /\ m # n /\ m \notin Below(n, DOMAIN rib')
    BY <1>1, <1>2
  <2>2. MinCostRoutes(rib', m) = MinCostRoutes(rib, m)
    BY <2>1, ElsewhereSame DEF IInv
  <2>3. Partly(rib', m, at', adding') = Partly(rib, m, at, adding)
    <3>1. Flat(rib', m) = Flat(rib, m)
      BY <2>2 DEF Flat
    <3> QED BY <1>1, <3>1 DEF Partly
  <2> QED BY <2>1, <2>3 DEF IInv, Following
<1> QED BY <1>1, <1>2 DEF IInv, Following

\* A route of n that comes, or goes, with its announcement.
LEMMA ToldMore ==
  ASSUME IInv, NEW n \in Names, NEW rt \in Routes, OnlyAt(rib, rib', n),
         Told(rib', n) = Told(rib, n) \cup {<<rt.face, rt.origin>>}, advertised' = Announce(n, rt)
  PROVE  Announced'
<1>0. \A m : m # n => Told(rib', m) = Told(rib, m)
  <2>1. Pairs(<<>>) = {}
    BY DEF Pairs
  <2> QED BY <2>1 DEF OnlyAt, Told
<1>1. rt.face \in Faces
  BY RouteIs
<1>2. advertised' \subseteq Names \X Faces
  BY <1>1 DEF IInv, Announced, Announce
<1>3. ASSUME NEW m \in Names, NEW f \in Faces
      PROVE  <<m, f>> \in advertised' <=> <<f, Client>> \in Told(rib', m)
  <2>0. <<m, f>> \in advertised <=> <<f, Client>> \in Told(rib, m)
    BY DEF IInv, Announced
  <2>1. <<m, f>> \in advertised' <=> <<m, f>> \in advertised \/ (rt.origin = Client /\ m = n /\ f = rt.face)
    BY DEF Announce
  <2>2. CASE m = n
    BY <2>0, <2>1, <2>2
  <2>3. CASE m # n
    BY <1>0, <2>0, <2>1, <2>3
  <2> QED BY <2>2, <2>3
<1> QED BY <1>2, <1>3 DEF Announced

\* A route less and its withdrawal keep RIB and announcements together.
LEMMA ToldLess ==
  ASSUME IInv, NEW n \in Names, NEW rt \in Routes, OnlyAt(rib, rib', n),
         Told(rib', n) = Told(rib, n) \ {<<rt.face, rt.origin>>}, advertised' = Withdraw(n, rt)
  PROVE  Announced'
<1>0. \A m : m # n => Told(rib', m) = Told(rib, m)
  <2>1. Pairs(<<>>) = {}
    BY DEF Pairs
  <2> QED BY <2>1 DEF OnlyAt, Told
<1>2. advertised' \subseteq Names \X Faces
  BY DEF IInv, Announced, Withdraw
<1>3. ASSUME NEW m \in Names, NEW f \in Faces
      PROVE  <<m, f>> \in advertised' <=> <<f, Client>> \in Told(rib', m)
  <2>0. <<m, f>> \in advertised <=> <<f, Client>> \in Told(rib, m)
    BY DEF IInv, Announced
  <2>1. <<m, f>> \in advertised' <=> <<m, f>> \in advertised /\ ~(rt.origin = Client /\ m = n /\ f = rt.face)
    BY DEF Withdraw
  <2>2. CASE m = n
    BY <2>0, <2>1, <2>2
  <2>3. CASE m # n
    BY <1>0, <2>0, <2>1, <2>3
  <2> QED BY <2>2, <2>3
<1> QED BY <1>2, <1>3 DEF Announced

\* RegisterAdd: the checked route is in the RIB, and the nodes it can affect wait
\* to be refreshed.
LEMMA RegisterAddStep == IInv /\ RegisterAdd => IInv'
<1> SUFFICES ASSUME IInv, RegisterAdd PROVE IInv'
  OBVIOUS
<1> DEFINE n == checked[1]
           rt == checked[2]
           q == [FillTree(rib, n) EXCEPT ![n] = WithRoute(@, rt)]
<1>1. checked \in Registrations /\ refresh = {} /\ adding = {} /\ owner = "nobody" /\ cleanup.todo = {}
  BY DEF RegisterAdd, IInv, Types, Guarded, Locked
<1>2. n \in Names /\ rt \in Routes
  BY <1>1, RegistrationIs
<1>3. rib' = q /\ advertised' = Announce(n, rt) /\ BeginRefresh(q, n)
  BY DEF RegisterAdd, AddEncRoute
<1>4. owner' = "mgmt" /\ checked' = NoRequest /\ UNCHANGED <<cleanup, live, dying, tree, hash, edited>>
  BY DEF RegisterAdd
<1>5. /\ IsRib(q) /\ OnlyAt(rib, q, n) /\ n \in DOMAIN q
      /\ Told(q, n) = Told(rib, n) \cup {<<rt.face, rt.origin>>}
  BY <1>1, AddRouteIs DEF IInv
<1> HIDE DEF q, n, rt
<1>6. /\ IsRib(rib)' /\ OnlyAt(rib, rib', n) /\ BeginRefresh(rib', n)
      /\ Told(rib', n) = Told(rib, n) \cup {<<rt.face, rt.origin>>}
  BY <1>3, <1>5
<1>7. IsTree(tree)' /\ IsHash(hash)' /\ Following'
  BY <1>1, <1>2, <1>4, <1>6, RouteStep
<1>8. Announced'
  BY <1>2, <1>3, <1>6, ToldMore
<1>9. refresh' \subseteq Names /\ at' = at /\ adding' = adding
  BY <1>2, <1>6 DEF BeginRefresh, Below, IsRib
<1>10. Types'
  BY <1>1, <1>4, <1>9 DEF IInv, Types
<1>11. Guarded'
  BY <1>1, <1>4 DEF Guarded, Locked
<1> QED BY <1>6, <1>7, <1>8, <1>10, <1>11 DEF IInv

\* Unregister: the route is out of the RIB, and the nodes it can affect wait to be
\* refreshed.
LEMMA UnregisterStep == IInv /\ Unregister => IInv'
<1> SUFFICES ASSUME IInv, Unregister PROVE IInv'
  OBVIOUS
<1>1. PICK reg \in Registrations : reg[1] \in DOMAIN rib /\ RemoveRouteEnc(reg[1], reg[2])
  BY DEF Unregister
<1> DEFINE n == reg[1]
           found == SameRoute(rib[n], reg[2])
           p == First(found)
<1>0. Guarded /\ owner = "nobody" /\ owner' = "mgmt"
  BY DEF Unregister, IInv, Locked
<1>2. /\ refresh = {} /\ adding = {} /\ cleanup.todo = {} /\ owner' = "mgmt"
      /\ UNCHANGED <<cleanup, live, dying, checked, tree, hash, edited>>
  <2>1. UNCHANGED <<cleanup, live, dying, checked, tree, hash, edited>>
    BY DEF Unregister
  <2> QED BY <1>0, <2>1 DEF Guarded, Locked
<1>3. n \in DOMAIN rib /\ n \in Names /\ IsRib(rib) /\ rib[n] \in Seq(Routes)
  BY <1>1, RegistrationIs DEF IInv, IsRib
<1>4. IsRib(rib)' /\ OnlyAt(rib, rib', n) /\ BeginRefresh(rib', n) /\ Announced'
  <2>1. CASE found = {}
    <3>1. rib' = PruneNode(rib, n) /\ advertised' = advertised /\ BeginRefresh(PruneNode(rib, n), n)
      BY <1>1, <2>1 DEF RemoveRouteEnc
    <3>2. IsRib(rib)' /\ OnlyAt(rib, rib', n) /\ Told(rib', n) = Told(rib, n)
      BY <1>3, <3>1, PruneNodeIs
    <3>3. Pairs(<<>>) = {}
      BY DEF Pairs
    <3>4. \A m : Told(rib', m) = Told(rib, m)
      <4> HIDE DEF n
      <4> QED BY <3>2, <3>3 DEF OnlyAt, Told
    <3>5. Announced'
      BY <3>1, <3>4 DEF IInv, Announced
    <3> QED BY <3>1, <3>2, <3>5
  <2>2. CASE found # {}
    <3> DEFINE q == PruneNode([rib EXCEPT ![n] = RemoveAt(@, p)], n)
               rt == rib[n][p]
    <3>1. rib' = q /\ advertised' = Withdraw(n, rt) /\ BeginRefresh(q, n)
      BY <1>1, <2>2 DEF RemoveRouteEnc
    <3>2. p \in 1..Len(rib[n]) /\ rt \in Routes
      <4>1. found \subseteq 1..Len(rib[n]) /\ found \subseteq Nat
        BY DEF SameRoute
      <4> HIDE DEF found
      <4>2. p \in found
        BY <2>2, <4>1, FirstIs
      <4>3. p \in 1..Len(rib[n])
        BY <4>1, <4>2
      <4> HIDE DEF p, n
      <4>4. rib[n][p] \in Routes
        BY <1>3, <4>3
      <4> QED BY <4>3, <4>4
    <3> HIDE DEF p, n
    <3>3. IsRib(q) /\ OnlyAt(rib, q, n) /\ Told(q, n) = Told(rib, n) \ {<<rt.face, rt.origin>>}
      BY <1>3, <3>2, DropRouteIs
    <3> HIDE DEF q, rt
    <3>4. IsRib(rib)' /\ OnlyAt(rib, rib', n) /\ BeginRefresh(rib', n)
      BY <3>1, <3>3
    <3>5. Announced'
      BY <1>3, <3>1, <3>2, <3>3, ToldLess
    <3> QED BY <3>4, <3>5 DEF n
  <2> QED BY <2>1, <2>2
<1> HIDE DEF n
<1>5. IsTree(tree)' /\ IsHash(hash)' /\ Following'
  BY <1>2, <1>3, <1>4, RouteStep
<1>6. refresh' \subseteq Names /\ at' = at /\ adding' = adding
  BY <1>3, <1>4 DEF BeginRefresh, Below, IsRib
<1>7. Types'
  BY <1>2, <1>6 DEF IInv, Types
<1>8. Guarded'
  BY <1>2 DEF Guarded, Locked
<1> QED BY <1>4, <1>5, <1>7, <1>8 DEF IInv

\* CleanUpEntry: one route of the removed face is out of the RIB, and the nodes it
\* can affect wait to be refreshed.
LEMMA CleanUpEntryStep == IInv /\ CleanUpEntry => IInv'
<1> SUFFICES ASSUME IInv, CleanUpEntry PROVE IInv'
  OBVIOUS
<1>1. PICK n \in CleanUpNodes :
        LET found == OfFace(rib[n], cleanup.face)
            r == [rib EXCEPT ![n] = RemoveAt(@, First(found))]
        IN /\ cleanup' = [cleanup EXCEPT !.todo = @ \ {n},
                                         !.scope = IF n = Root THEN n ELSE Parent(n)]
           /\ IF found = {} THEN UNCHANGED <<rib, advertised, refresh, at, adding>>
              ELSE /\ rib' = PruneNode(r, n)
                   /\ advertised' = Withdraw(n, rib[n][First(found)])
                   /\ BeginRefresh(PruneNode(r, n), n)
  BY DEF CleanUpEntry
<1> DEFINE found == OfFace(rib[n], cleanup.face)
           p == First(found)
<1>2. refresh = {} /\ adding = {} /\ UNCHANGED <<owner, live, dying, checked, tree, hash, edited>>
  BY DEF CleanUpEntry, Refreshing
<1>3. /\ n \in cleanup.todo /\ n \in DOMAIN rib /\ n \in Names /\ IsRib(rib)
      /\ rib[n] \in Seq(Routes) /\ owner = "face"
  BY DEF CleanUpNodes, Below, IInv, Types, Guarded, IsRib
<1>4. /\ cleanup' = [face |-> cleanup'.face, todo |-> cleanup'.todo, scope |-> cleanup'.scope]
      /\ cleanup'.todo = cleanup.todo \ {n}
  BY <1>1 DEF IInv, Types
<1>5. Guarded'
  BY <1>2, <1>3 DEF Guarded, Locked
<1>6. CASE found = {}
  <2>1. UNCHANGED <<rib, advertised, refresh, at, adding>>
    BY <1>1, <1>6
  <2>2. Types'
    BY <1>2, <1>4, <2>1 DEF IInv, Types
  <2> QED BY <1>2, <1>5, <2>1, <2>2, FibUnchanged DEF IInv
<1>7. CASE found # {}
  <2> DEFINE q == PruneNode([rib EXCEPT ![n] = RemoveAt(@, p)], n)
             rt == rib[n][p]
  <2>1. rib' = q /\ advertised' = Withdraw(n, rt) /\ BeginRefresh(q, n)
    BY <1>1, <1>7
  <2>2. p \in 1..Len(rib[n]) /\ rt \in Routes
    <3>1. found \subseteq 1..Len(rib[n]) /\ found \subseteq Nat
      BY DEF OfFace
    <3> HIDE DEF found
    <3>2. p \in found
      BY <1>7, <3>1, FirstIs
    <3>3. p \in 1..Len(rib[n])
      BY <3>1, <3>2
    <3> HIDE DEF p
    <3>4. rib[n][p] \in Routes
      BY <1>3, <3>3
    <3> QED BY <3>3, <3>4
  <2> HIDE DEF p
  <2>3. IsRib(q) /\ OnlyAt(rib, q, n) /\ Told(q, n) = Told(rib, n) \ {<<rt.face, rt.origin>>}
    BY <1>3, <2>2, DropRouteIs
  <2> HIDE DEF q, rt
  <2>4. IsRib(rib)' /\ OnlyAt(rib, rib', n) /\ BeginRefresh(rib', n)
    BY <2>1, <2>3
  <2>5. Announced'
    BY <1>3, <2>1, <2>2, <2>3, ToldLess
  <2>6. IsTree(tree)' /\ IsHash(hash)' /\ Following'
    BY <1>2, <1>3, <2>4, RouteStep
  <2>7. refresh' \subseteq Names /\ at' = at /\ adding' = adding
    BY <1>3, <2>4 DEF BeginRefresh, Below, IsRib
  <2>8. DOMAIN rib \ {n} \subseteq DOMAIN rib'
    BY <2>4 DEF OnlyAt
  <2>9. Types'
    BY <1>2, <1>4, <2>7, <2>8 DEF IInv, Types
  <2> QED BY <1>5, <2>4, <2>5, <2>6, <2>9 DEF IInv
<1> QED BY <1>6, <1>7

\* The invariant holds.
THEOREM Invariance == Spec => []IInv
<1>1. IInv /\ UNCHANGED vars => IInv'
  <2> SUFFICES ASSUME IInv, UNCHANGED vars PROVE IInv'
    OBVIOUS
  <2>1. UNCHANGED <<rib, refresh, at, adding, owner, cleanup, live, dying, checked, advertised,
                    tree, hash, edited>>
    BY DEF vars
  <2>2. Types'
    BY <2>1 DEF IInv, Types
  <2>3. Guarded'
    BY <2>1 DEF IInv, Guarded, Locked
  <2> QED BY <2>1, <2>2, <2>3, FibUnchanged DEF IInv
<1>2. IInv /\ Next => IInv'
  BY RefreshEntryStep, InsertHopStep, UnlockStep, RegisterCheckStep, RegisterAddStep, UnregisterStep,
     FibAddStep, FibRemoveStep, StrategySetStep, StrategyUnsetStep, FaceRemoveStep,
     CleanUpFaceStep, CleanUpEntryStep
     DEF Next
<1> QED BY <1>1, <1>2, InitIs, PTL DEF Spec

\* A node that is not the root has a parent in a set closed under prefixes.
LEMMA ParentIs ==
  ASSUME NEW S, S \subseteq Names, \A n \in S : \A k \in 0..Len(n) : Pfx(n, k) \in S
  PROVE  \A n \in S : n # Root => Parent(n) \in S
<1> SUFFICES ASSUME NEW n \in S, n # Root PROVE Parent(n) \in S
  OBVIOUS
<1>1. Len(n) \in Nat /\ Len(n) # 0
  BY NamesAssumption, WholeName
<1>2. Len(n) - 1 \in 0..Len(n)
  BY <1>1
<1> QED BY <1>2 DEF Parent

\* The next hops in a table.
LEMMA HopsInIs == ASSUME NEW t, NEW n \in Names PROVE HopsIn(t)[n] = HopsAt(t, n)
BY DEF HopsIn, HopsAt, EntryOf, EmptyEntry

\* Once the lock of the RIB is free, the FIB entry of every prefix that has not
\* been edited since is what the RIB says (updateNexthopsEnc), and the tables
\* have their shape, for any names, routes and faces.
THEOREM FibIsRight == Spec => []FibFollowsRib
<1>1. IInv => FibFollowsRib
  <2> SUFFICES ASSUME IInv PROVE FibFollowsRib
    OBVIOUS
  <2>1. /\ \A n \in DOMAIN rib : n # Root => Parent(n) \in DOMAIN rib
        /\ \A n \in DOMAIN tree : n # Root => Parent(n) \in DOMAIN tree
    <3>1. /\ DOMAIN rib \subseteq Names
          /\ \A n \in DOMAIN rib : \A k \in 0..Len(n) : Pfx(n, k) \in DOMAIN rib
      BY DEF IInv, IsRib
    <3>2. /\ DOMAIN tree \subseteq Names
          /\ \A n \in DOMAIN tree : \A k \in 0..Len(n) : Pfx(n, k) \in DOMAIN tree
      BY DEF IInv, IsTree, IsTable
    <3> QED BY <3>1, <3>2, ParentIs
  <2>2. TypeOK
    BY <2>1 DEF IInv, TypeOK, IsRib, IsTree, IsHash, IsTable, Types
  <2>3. ASSUME ~Locked, NEW n \in Names \ edited
        PROVE  /\ HopsIn(hash.real)[n] = Flattened(n)
               /\ n # Root => HopsIn(tree)[n] = Flattened(n)
    <3>1. refresh = {} /\ adding = {}
      BY <2>3 DEF IInv, Guarded
    <3>2. Partly(rib, n, at, adding) = Flat(rib, n)
      BY <3>1, PartlyWhole
    <3>3. Flattened(n) = Flat(rib, n)
      BY DEF Flattened, Flat, AsHops
    <3>4. HopsAt(hash.real, n) = Flat(rib, n) /\ (n # Root => HopsAt(tree, n) = Flat(rib, n))
      BY <3>1, <3>2 DEF IInv, Following
    <3> QED BY <3>3, <3>4, HopsInIs
  <2> QED BY <2>2, <2>3 DEF FibFollowsRib
<1> QED BY <1>1, Invariance, PTL

\* The routing daemon has been told of exactly the client routes in the RIB
\* (readvertiseAnnounce, readvertiseWithdraw), for any names, routes and faces.
THEOREM AdvertisedIsRight == Spec => []AdvertisedMatchesRib
<1>1. IInv => AdvertisedMatchesRib
  <2> SUFFICES ASSUME IInv PROVE AdvertisedMatchesRib
    OBVIOUS
  <2>1. \A n \in Names, f \in Faces :
          <<f, Client>> \in Told(rib, n) <=>
            n \in DOMAIN rib /\ \E rt \in OwnRoutes(rib, n) : rt.face = f /\ rt.origin = Client
    BY DEF Told, Pairs, OwnRoutes
  <2> DEFINE S == {nf \in Names \X Faces :
                     /\ nf[1] \in DOMAIN rib
                     /\ \E rt \in OwnRoutes(rib, nf[1]) : rt.face = nf[2] /\ rt.origin = Client}
  <2>2. \A n \in Names, f \in Faces : <<n, f>> \in advertised <=> <<n, f>> \in S
    BY <2>1 DEF IInv, Announced
  <2>3. S \subseteq Names \X Faces /\ advertised \subseteq Names \X Faces
    BY DEF IInv, Announced
  <2>4. advertised = S
    <3> HIDE DEF S
    <3> QED BY <2>2, <2>3
  <2> QED BY <2>4 DEF AdvertisedMatchesRib
<1> QED BY <1>1, Invariance, PTL

-----------------------------------------------------------------------------
\* Lookups, and the FIB-strategy table that both tables implement.

\* The prefixes of a name, by their length.
LEMMA PrefixOfIs ==
  ASSUME NEW n, IsName(n), NEW p, IsName(p)
  PROVE  IsPrefixOf(p, n) <=> Len(p) \in 0..Len(n) /\ p = Pfx(n, Len(p))
<1>1. Len(n) \in Nat /\ Len(p) \in Nat
  BY WholeName
<1> QED BY <1>1 DEF IsPrefixOf

\* The longest of some prefixes is unique.
LEMMA LongestIs ==
  ASSUME NEW n, IsName(n), NEW S, S \subseteq Names, NEW k \in 0..Len(n), Pfx(n, k) \in S,
         \A j \in (k + 1)..Len(n) : Pfx(n, j) \notin S
  PROVE  InTree!LongestIn(S, n) = Pfx(n, k)
<1> DEFINE p == Pfx(n, k)
<1>1. Len(n) \in Nat /\ Len(p) = k /\ IsName(p)
  BY PrefixIs, WholeName
<1>2. IsPrefixOf(p, n)
  BY <1>1, PrefixOfIs
<1>3. ASSUME NEW q \in S, IsPrefixOf(q, n) PROVE Len(q) \in 0..k /\ q = Pfx(n, Len(q))
  <2>1. Len(q) \in 0..Len(n) /\ q = Pfx(n, Len(q))
    BY <1>3, NamesAssumption, PrefixOfIs
  <2> QED BY <1>1, <2>1
<1>4. ASSUME NEW q \in S, IsPrefixOf(q, n), \A x \in S : IsPrefixOf(x, n) => Len(x) <= Len(q)
      PROVE  q = p
  <2>1. k <= Len(q)
    BY <1>1, <1>2, <1>4
  <2>2. Len(q) = k
    BY <1>1, <1>3, <1>4, <2>1
  <2> QED BY <1>3, <1>4, <2>2
<1> HIDE DEF p
<1>5. p \in S /\ \A x \in S : IsPrefixOf(x, n) => Len(x) <= Len(p)
  BY <1>1, <1>3 DEF p
<1>6. InTree!LongestIn(S, n) =
        CHOOSE q \in S : IsPrefixOf(q, n) /\ \A x \in S : IsPrefixOf(x, n) => Len(x) <= Len(q)
  BY DEF InTree!LongestIn, InTree!IsPrefixOf, InTree!Pfx, IsPrefixOf, Pfx
<1> QED BY <1>2, <1>4, <1>5, <1>6 DEF p

\* What a lookup finds, if it passes nothing, is what the longest prefix has.
LEMMA HopsFoundIs ==
  ASSUME NEW t, IsTable(t), NEW n, IsName(n), NEW h, HopsFound(t, n, h)
  PROVE  h = InTree!FindNextHops(HopsIn(t), n)
<1> DEFINE have == {p \in Names : IsPrefixOf(p, n) /\ HopsIn(t)[p] # NoHops}
<1>0. Len(n) \in Nat
  BY WholeName
<1>1. InTree!FindNextHops(HopsIn(t), n) =
        IF have = {} THEN NoHops ELSE HopsIn(t)[InTree!LongestIn(have, n)]
  BY DEF InTree!FindNextHops, InTree!IsPrefixOf, InTree!Pfx, InTree!NoHops, InTree!Ignored,
         IsPrefixOf, Pfx, NoHops, Ignored
<1>2. ASSUME NEW j \in 0..Len(n) PROVE Pfx(n, j) \in have <=> EntryOf(t, Pfx(n, j)).hops # NoHops
  <2>1. IsName(Pfx(n, j)) /\ Len(Pfx(n, j)) = j
    BY PrefixIs
  <2>2. IsPrefixOf(Pfx(n, j), n)
    BY <1>0, <2>1, PrefixOfIs
  <2>3. CASE Pfx(n, j) \in Names
    BY <2>2, <2>3, HopsInIs DEF HopsAt
  <2>4. CASE Pfx(n, j) \notin Names
    BY <2>4 DEF EntryOf, EmptyEntry, IsTable
  <2> QED BY <2>3, <2>4
<1>3. \A p \in have : \E j \in 0..Len(n) : p = Pfx(n, j)
  BY NamesAssumption, PrefixOfIs
<1>4. have \subseteq Names
  OBVIOUS
<1> HIDE DEF have
<1>5. CASE h = NoHops /\ \A j \in 0..Len(n) : EntryOf(t, Pfx(n, j)).hops = NoHops
  <2>1. have = {}
    BY <1>2, <1>3, <1>5
  <2> QED BY <1>1, <1>5, <2>1
<1>6. ASSUME NEW k \in 0..Len(n), h = EntryOf(t, Pfx(n, k)).hops, h # NoHops,
             \A j \in (k + 1)..Len(n) : EntryOf(t, Pfx(n, j)).hops = NoHops
      PROVE  h = InTree!FindNextHops(HopsIn(t), n)
  <2>1. Pfx(n, k) \in have
    BY <1>2, <1>6
  <2>2. \A j \in (k + 1)..Len(n) : Pfx(n, j) \notin have
    BY <1>0, <1>2, <1>6, AboveIsWithin
  <2>3. InTree!LongestIn(have, n) = Pfx(n, k)
    BY <1>4, <2>1, <2>2, LongestIs
  <2>4. HopsIn(t)[Pfx(n, k)] = h
    BY <1>4, <1>6, <2>1, HopsInIs DEF HopsAt
  <2> QED BY <1>1, <2>1, <2>3, <2>4
<1> QED BY <1>5, <1>6 DEF HopsFound

\* The strategies of the abstract table are those of the entries.
LEMMA ChoicesInIs == ASSUME NEW t, NEW n \in Names PROVE ChoicesIn(t)[n] = EntryOf(t, n).strategy
BY DEF ChoicesIn, EntryOf, EmptyEntry

\* A lookup that stops at the last strategy on the way down finds the strategy of
\* the longest prefix with one.
LEMMA ChoiceFoundIs ==
  ASSUME NEW t, IsTable(t), NEW n, IsName(n), NEW s, ChoiceFound(t, n, s)
  PROVE  s = InTree!FindStrategy(ChoicesIn(t), n)
<1> DEFINE have == {p \in Names : IsPrefixOf(p, n) /\ ChoicesIn(t)[p] # NoStrategy}
<1>0. Len(n) \in Nat
  BY WholeName
<1>1. InTree!FindStrategy(ChoicesIn(t), n) = ChoicesIn(t)[InTree!LongestIn(have, n)]
  BY DEF InTree!FindStrategy, InTree!IsPrefixOf, InTree!Pfx, InTree!NoStrategy,
         IsPrefixOf, Pfx, NoStrategy
<1>2. ASSUME NEW j \in 0..Len(n) PROVE Pfx(n, j) \in have <=> EntryOf(t, Pfx(n, j)).strategy # NoStrategy
  <2>1. IsName(Pfx(n, j)) /\ Len(Pfx(n, j)) = j
    BY PrefixIs
  <2>2. IsPrefixOf(Pfx(n, j), n)
    BY <1>0, <2>1, PrefixOfIs
  <2>3. CASE Pfx(n, j) \in Names
    BY <2>2, <2>3, ChoicesInIs
  <2>4. CASE Pfx(n, j) \notin Names
    BY <2>4 DEF EntryOf, EmptyEntry, IsTable
  <2> QED BY <2>3, <2>4
<1>3. have \subseteq Names
  OBVIOUS
<1> HIDE DEF have
<1>4. PICK k \in 0..Len(n) :
        /\ s = EntryOf(t, Pfx(n, k)).strategy /\ s # NoStrategy
        /\ \A j \in (k + 1)..Len(n) : EntryOf(t, Pfx(n, j)).strategy = NoStrategy
  BY DEF ChoiceFound
<1>5. Pfx(n, k) \in have
  BY <1>2, <1>4
<1>6. \A j \in (k + 1)..Len(n) : Pfx(n, j) \notin have
  BY <1>0, <1>2, <1>4, AboveIsWithin
<1>7. InTree!LongestIn(have, n) = Pfx(n, k)
  BY <1>3, <1>5, <1>6, LongestIs
<1>8. ChoicesIn(t)[Pfx(n, k)] = s
  BY <1>3, <1>4, <1>5, ChoicesInIs
<1> QED BY <1>1, <1>7, <1>8

\* Looking a name up finds in both tables, in every state, what the longest
\* prefix with next hops (or with a strategy) has (FindNextHopsEnc and
\* FindStrategyEnc of both), for any names and any virtual length.
THEOREM LookupIsRight == Spec => []LookupIsLongestPrefix
<1>1. IInv => LookupIsLongestPrefix
  <2> SUFFICES ASSUME IInv, NEW n \in LookupNames
               PROVE  /\ TreeFindNextHops(tree, n) = InTree!FindNextHops(HopsIn(tree), n)
                      /\ TreeFindStrategy(tree, n) = InTree!FindStrategy(ChoicesIn(tree), n)
                      /\ HashFindNextHops(hash, n) = InHash!FindNextHops(HopsIn(hash.real), n)
                      /\ HashFindStrategy(hash, n) = InHash!FindStrategy(ChoicesIn(hash.real), n)
    BY DEF LookupIsLongestPrefix
  <2>0. IsName(n) /\ IsTree(tree) /\ IsTable(tree) /\ IsHash(hash) /\ IsTable(hash.real)
    BY EditsAssumption DEF IInv, IsTree, IsHash
  <2>1. TreeFindNextHops(tree, n) = InTree!FindNextHops(HopsIn(tree), n)
    BY <2>0, TreeHopsFound, HopsFoundIs
  <2>2. TreeFindStrategy(tree, n) = InTree!FindStrategy(ChoicesIn(tree), n)
    BY <2>0, TreeChoiceFound, ChoiceFoundIs
  <2>3. HashFindNextHops(hash, n) = InTree!FindNextHops(HopsIn(hash.real), n)
    BY <2>0, HashHopsFound, HopsFoundIs
  <2>4. HashFindStrategy(hash, n) = InTree!FindStrategy(ChoicesIn(hash.real), n)
    BY <2>0, HashChoiceFound, ChoiceFoundIs
  <2>5. \A S : InTree!LongestIn(S, n) = InHash!LongestIn(S, n)
    BY DEF InTree!LongestIn, InHash!LongestIn, InTree!IsPrefixOf, InHash!IsPrefixOf, InTree!Pfx, InHash!Pfx
  <2>6. \A h : InTree!FindNextHops(h, n) = InHash!FindNextHops(h, n)
    BY <2>5 DEF InTree!FindNextHops, InHash!FindNextHops, InTree!IsPrefixOf, InHash!IsPrefixOf,
                InTree!Pfx, InHash!Pfx, InTree!NoHops, InHash!NoHops, InTree!Ignored, InHash!Ignored
  <2>7. \A s : InTree!FindStrategy(s, n) = InHash!FindStrategy(s, n)
    BY <2>5 DEF InTree!FindStrategy, InHash!FindStrategy, InTree!IsPrefixOf, InHash!IsPrefixOf,
                InTree!Pfx, InHash!Pfx, InTree!NoStrategy, InHash!NoStrategy
  <2> QED BY <2>1, <2>2, <2>3, <2>4, <2>6, <2>7
<1> QED BY <1>1, Invariance, PTL

\* A function on S that differs from another in one place.
DiffersAt(F, G, S, n) ==
  F = [m \in S |-> F[m]] /\ G = [m \in S |-> G[m]] /\ n \in S /\ \A m \in S \ {n} : G[m] = F[m]

\* Such a function is the other one with that place changed.
LEMMA ExceptIs ==
  ASSUME NEW S, NEW F, NEW G, NEW n, DiffersAt(F, G, S, n)
  PROVE  G = [F EXCEPT ![n] = G[n]]
<1> DEFINE Q == [F EXCEPT ![n] = G[n]]
<1>1. Q = [m \in S |-> Q[m]] /\ \A m \in S : Q[m] = G[m]
  BY DEF DiffersAt
<1> HIDE DEF Q
<1>2. G = Q
  BY <1>1 DEF DiffersAt
<1> QED BY <1>2 DEF Q

\* A change of one entry, as the FIB-strategy table sees it.
LEMMA ViewHop ==
  ASSUME NEW t, IsTable(t), NEW u, NEW n \in Names, NEW f \in Faces, NEW c \in Costs \cup {Ignored},
         Changes(t, u, n, WithHop(EntryOf(t, n), f, c))
  PROVE  HopsIn(u) = [HopsIn(t) EXCEPT ![n][f] = c] /\ ChoicesIn(u) = ChoicesIn(t)
<1> DEFINE e == WithHop(EntryOf(t, n), f, c)
<1>1. e.hops = [EntryOf(t, n).hops EXCEPT ![f] = c] /\ e.strategy = EntryOf(t, n).strategy
  BY EntryTyped, WithHopIs
<1> HIDE DEF e
<1>2. EntryOf(u, n) = e /\ \A m \in Names \ {n} : EntryOf(u, m) = EntryOf(t, m)
  BY DEF Changes, e
<1>3. /\ HopsIn(t) = [m \in Names |-> EntryOf(t, m).hops]
      /\ HopsIn(u) = [m \in Names |-> EntryOf(u, m).hops]
  BY DEF HopsIn, EntryOf, EmptyEntry
<1>4. HopsIn(u) = [HopsIn(t) EXCEPT ![n][f] = c]
  <2> DEFINE F == HopsIn(t)
             G == HopsIn(u)
  <2>1. DiffersAt(F, G, Names, n)
    BY <1>2, <1>3 DEF DiffersAt
  <2>2. G[n] = [F[n] EXCEPT ![f] = c]
    BY <1>1, <1>2, <1>3
  <2> HIDE DEF F, G
  <2>3. G = [F EXCEPT ![n] = G[n]]
    BY <2>1, ExceptIs
  <2> QED BY <2>2, <2>3 DEF F, G
<1>5. ChoicesIn(u) = ChoicesIn(t)
  <2>1. \A m \in Names : EntryOf(u, m).strategy = EntryOf(t, m).strategy
    BY <1>1, <1>2
  <2>2. /\ ChoicesIn(t) = [m \in Names |-> EntryOf(t, m).strategy]
        /\ ChoicesIn(u) = [m \in Names |-> EntryOf(u, m).strategy]
    BY DEF ChoicesIn, EntryOf, EmptyEntry
  <2> QED BY <2>1, <2>2
<1> QED BY <1>4, <1>5

\* A cleared entry is an abstract entry without next hops.
LEMMA ViewClear ==
  ASSUME NEW t, IsTable(t), NEW u, NEW n \in Names, Changes(t, u, n, WithoutHops(EntryOf(t, n)))
  PROVE  HopsIn(u) = [HopsIn(t) EXCEPT ![n] = NoHops] /\ ChoicesIn(u) = ChoicesIn(t)
<1> DEFINE e == WithoutHops(EntryOf(t, n))
<1>1. e.hops = NoHops /\ e.strategy = EntryOf(t, n).strategy
  BY EntryTyped, WithoutHopsIs
<1> HIDE DEF e
<1>2. EntryOf(u, n) = e /\ \A m \in Names \ {n} : EntryOf(u, m) = EntryOf(t, m)
  BY DEF Changes, e
<1>3. /\ HopsIn(t) = [m \in Names |-> EntryOf(t, m).hops]
      /\ HopsIn(u) = [m \in Names |-> EntryOf(u, m).hops]
  BY DEF HopsIn, EntryOf, EmptyEntry
<1>4. HopsIn(u) = [HopsIn(t) EXCEPT ![n] = NoHops]
  <2> DEFINE F == HopsIn(t)
             G == HopsIn(u)
  <2>1. DiffersAt(F, G, Names, n)
    BY <1>2, <1>3 DEF DiffersAt
  <2>2. G[n] = NoHops
    BY <1>1, <1>2, <1>3
  <2> HIDE DEF F, G
  <2>3. G = [F EXCEPT ![n] = G[n]]
    BY <2>1, ExceptIs
  <2> QED BY <2>2, <2>3 DEF F, G
<1>5. ChoicesIn(u) = ChoicesIn(t)
  <2>1. \A m \in Names : EntryOf(u, m).strategy = EntryOf(t, m).strategy
    BY <1>1, <1>2
  <2>2. /\ ChoicesIn(t) = [m \in Names |-> EntryOf(t, m).strategy]
        /\ ChoicesIn(u) = [m \in Names |-> EntryOf(u, m).strategy]
    BY DEF ChoicesIn, EntryOf, EmptyEntry
  <2> QED BY <2>1, <2>2
<1> QED BY <1>4, <1>5

\* An entry with another strategy is an abstract entry with that strategy.
LEMMA ViewChoice ==
  ASSUME NEW t, IsTable(t), NEW u, NEW n \in Names,
         NEW s \in Strategies \cup {DefaultStrategy, NoStrategy},
         Changes(t, u, n, WithChoice(EntryOf(t, n), s))
  PROVE  ChoicesIn(u) = [ChoicesIn(t) EXCEPT ![n] = s] /\ HopsIn(u) = HopsIn(t)
<1> DEFINE e == WithChoice(EntryOf(t, n), s)
<1>1. e.strategy = s /\ e.hops = EntryOf(t, n).hops
  BY EntryTyped, WithChoiceIs
<1> HIDE DEF e
<1>2. EntryOf(u, n) = e /\ \A m \in Names \ {n} : EntryOf(u, m) = EntryOf(t, m)
  BY DEF Changes, e
<1>3. /\ ChoicesIn(t) = [m \in Names |-> EntryOf(t, m).strategy]
      /\ ChoicesIn(u) = [m \in Names |-> EntryOf(u, m).strategy]
  BY DEF ChoicesIn, EntryOf, EmptyEntry
<1>4. ChoicesIn(u) = [ChoicesIn(t) EXCEPT ![n] = s]
  <2> DEFINE F == ChoicesIn(t)
             G == ChoicesIn(u)
  <2>1. DiffersAt(F, G, Names, n)
    BY <1>2, <1>3 DEF DiffersAt
  <2>2. G[n] = s
    BY <1>1, <1>2, <1>3
  <2> HIDE DEF F, G
  <2>3. G = [F EXCEPT ![n] = G[n]]
    BY <2>1, ExceptIs
  <2> QED BY <2>2, <2>3 DEF F, G
<1>5. HopsIn(u) = HopsIn(t)
  <2>1. \A m \in Names : EntryOf(u, m).hops = EntryOf(t, m).hops
    BY <1>1, <1>2
  <2>2. /\ HopsIn(t) = [m \in Names |-> EntryOf(t, m).hops]
        /\ HopsIn(u) = [m \in Names |-> EntryOf(u, m).hops]
    BY DEF HopsIn, EntryOf, EmptyEntry
  <2> QED BY <2>1, <2>2
<1> QED BY <1>4, <1>5

\* The name tree implements the FIB-strategy table (FibStrategyTree), for any
\* names, faces and strategies.
THEOREM TreeRefines == Spec => TreeImplementsFib
<1>1. Init => InTree!Init
  <2> SUFFICES ASSUME Init PROVE InTree!Init
    OBVIOUS
  <2>1. HopsIn(tree) = [n \in Names |-> NoHops]
    BY NewTablesAre DEF Init, HopsIn, EntryOf, EmptyEntry
  <2>2. ChoicesIn(tree) = [n \in Names |-> IF n = Root THEN DefaultStrategy ELSE NoStrategy]
    BY NewTablesAre DEF Init, ChoicesIn, EntryOf, EmptyEntry
  <2> QED BY <2>1, <2>2 DEF InTree!Init, InTree!NoHops, InTree!Ignored, InTree!Root, InTree!NoStrategy,
                            NoHops, Ignored, Root, NoStrategy
<1>2. IInv /\ [Next]_vars => [InTree!Next]_(InTree!vars)
  <2> SUFFICES ASSUME IInv, [Next]_vars PROVE InTree!Next \/ UNCHANGED InTree!vars
    OBVIOUS
  <2>0. IsTree(tree) /\ IsTable(tree) /\ IsRib(rib)
    BY DEF IInv, IsTree
  <2>1. ASSUME tree' = tree PROVE UNCHANGED InTree!vars
    BY <2>1 DEF InTree!vars
  <2>2. CASE RefreshEntry
    <3>1. PICK n \in NextNodes : Clear(n)
      BY <2>2 DEF RefreshEntry
    <3>2. n \in Names /\ tree' = TreeClearNextHops(tree, n, n = Root) /\ (n = Root) \in BOOLEAN
      BY <3>1 DEF Clear, NextNodes, IInv, Types
    <3>3. CASE n = Root
      BY <2>0, <2>1, <3>2, <3>3, TreeClearIs
    <3>4. CASE n # Root
      <4>1. Changes(tree, tree', n, WithoutHops(EntryOf(tree, n)))
        BY <2>0, <3>2, <3>4, TreeClearIs
      <4>2. /\ HopsIn(tree') = [HopsIn(tree) EXCEPT ![n] = NoHops]
            /\ ChoicesIn(tree') = ChoicesIn(tree)
        BY <2>0, <3>2, <4>1, ViewClear
      <4>3. InTree!ClearNextHops(n)
        BY <4>2 DEF InTree!ClearNextHops, InTree!NoHops, InTree!Ignored, NoHops, Ignored
      <4> QED BY <3>2, <4>3 DEF InTree!Next
    <3> QED BY <3>3, <3>4
  <2>3. CASE InsertHop
    <3>1. PICK hop \in adding : tree' = TreeInsertNextHop(tree, at, hop[1], hop[2])
      BY <2>3 DEF InsertHop
    <3>2. hop[1] \in Faces /\ hop[2] \in Costs /\ hop[2] \in Costs \cup {Ignored} /\ at \in Names
      BY DEF IInv, Types
    <3>3. Changes(tree, tree', at, WithHop(EntryOf(tree, at), hop[1], hop[2]))
      BY <2>0, <3>1, <3>2, TreeInsertIs
    <3>4. /\ HopsIn(tree') = [HopsIn(tree) EXCEPT ![at][hop[1]] = hop[2]]
          /\ ChoicesIn(tree') = ChoicesIn(tree)
      BY <2>0, <3>2, <3>3, ViewHop
    <3>5. InTree!InsertNextHop(at, hop[1], hop[2])
      BY <3>4 DEF InTree!InsertNextHop
    <3> QED BY <3>2, <3>5 DEF InTree!Next
  <2>4. CASE FibAdd
    <3>1. PICK e \in FibEdits, c \in Costs : tree' = TreeInsertNextHop(tree, e[1], e[2], c)
      BY <2>4 DEF FibAdd
    <3>2. e[1] \in Names /\ e[2] \in Faces /\ c \in Costs \cup {Ignored}
      BY EditsAssumption
    <3>3. Changes(tree, tree', e[1], WithHop(EntryOf(tree, e[1]), e[2], c))
      BY <2>0, <3>1, <3>2, TreeInsertIs
    <3>4. /\ HopsIn(tree') = [HopsIn(tree) EXCEPT ![e[1]][e[2]] = c]
          /\ ChoicesIn(tree') = ChoicesIn(tree)
      BY <2>0, <3>2, <3>3, ViewHop
    <3>5. InTree!InsertNextHop(e[1], e[2], c)
      BY <3>4 DEF InTree!InsertNextHop
    <3> QED BY <3>2, <3>5 DEF InTree!Next
  <2>5. CASE FibRemove
    <3>1. PICK e \in FibEdits : tree' = TreeRemoveNextHop(tree, e[1], e[2])
      BY <2>5 DEF FibRemove
    <3>2. e[1] \in Names /\ e[2] \in Faces /\ Ignored \in Costs \cup {Ignored}
      BY EditsAssumption
    <3>3. Changes(tree, tree', e[1], WithHop(EntryOf(tree, e[1]), e[2], Ignored))
      BY <2>0, <3>1, <3>2, TreeRemoveIs
    <3>4. /\ HopsIn(tree') = [HopsIn(tree) EXCEPT ![e[1]][e[2]] = Ignored]
          /\ ChoicesIn(tree') = ChoicesIn(tree)
      BY <2>0, <3>2, <3>3, ViewHop
    <3>5. InTree!RemoveNextHop(e[1], e[2])
      BY <3>4 DEF InTree!RemoveNextHop, InTree!Ignored, Ignored
    <3> QED BY <3>2, <3>5 DEF InTree!Next
  <2>6. CASE StrategySet
    <3>1. PICK n \in ChoiceNames, s \in Strategies : tree' = TreeSetStrategy(tree, n, s)
      BY <2>6 DEF StrategySet
    <3>2. n \in Names /\ s \in Strategies \cup {DefaultStrategy, NoStrategy}
      BY EditsAssumption
    <3>3. Changes(tree, tree', n, WithChoice(EntryOf(tree, n), s))
      BY <2>0, <3>1, <3>2, TreeSetIs
    <3>4. ChoicesIn(tree') = [ChoicesIn(tree) EXCEPT ![n] = s] /\ HopsIn(tree') = HopsIn(tree)
      BY <2>0, <3>2, <3>3, ViewChoice
    <3>5. InTree!SetStrategy(n, s)
      BY <3>4 DEF InTree!SetStrategy
    <3> QED BY <3>2, <3>5 DEF InTree!Next
  <2>7. CASE StrategyUnset
    <3>1. PICK n \in ChoiceNames \ {<<>>} : tree' = TreeUnSetStrategy(tree, n)
      BY <2>7 DEF StrategyUnset
    <3>2. /\ n \in Names /\ n \in Names \ {Root} /\ n # Root
          /\ NoStrategy \in Strategies \cup {DefaultStrategy, NoStrategy}
      BY EditsAssumption DEF Root
    <3>3. Changes(tree, tree', n, WithChoice(EntryOf(tree, n), NoStrategy))
      BY <2>0, <3>1, <3>2, TreeUnSetIs
    <3>4. /\ ChoicesIn(tree') = [ChoicesIn(tree) EXCEPT ![n] = NoStrategy]
          /\ HopsIn(tree') = HopsIn(tree)
      BY <2>0, <3>2, <3>3, ViewChoice
    <3>5. InTree!UnSetStrategy(n)
      BY <3>2, <3>4 DEF InTree!UnSetStrategy, InTree!NoStrategy, NoStrategy, InTree!Root, Root
    <3> QED BY <3>2, <3>5 DEF InTree!Next
  <2>8. CASE \/ Unlock \/ RegisterCheck \/ RegisterAdd \/ Unregister
             \/ FaceRemove \/ CleanUpFace \/ CleanUpEntry \/ UNCHANGED vars
    BY <2>1, <2>8 DEF Unlock, RegisterCheck, RegisterAdd, Unregister, FaceRemove, CleanUpFace,
                      CleanUpEntry, vars
  <2> QED BY <2>2, <2>3, <2>4, <2>5, <2>6, <2>7, <2>8 DEF Next
<1> QED BY <1>1, <1>2, Invariance, PTL DEF Spec, TreeImplementsFib, InTree!Spec
\* The hash table implements the FIB-strategy table (FibStrategyHashTable), for
\* any names, faces, strategies and virtual length.
THEOREM HashRefines == Spec => HashImplementsFib
<1>1. Init => InHash!Init
  <2> SUFFICES ASSUME Init PROVE InHash!Init
    OBVIOUS
  <2>1. HopsIn(hash.real) = [n \in Names |-> NoHops]
    BY NewTablesAre DEF Init, HopsIn, EntryOf, EmptyEntry
  <2>2. ChoicesIn(hash.real) = [n \in Names |-> IF n = Root THEN DefaultStrategy ELSE NoStrategy]
    BY NewTablesAre DEF Init, ChoicesIn, EntryOf, EmptyEntry
  <2> QED BY <2>1, <2>2 DEF InHash!Init, InHash!NoHops, InHash!Ignored, InHash!Root, InHash!NoStrategy,
                            NoHops, Ignored, Root, NoStrategy
<1>2. IInv /\ [Next]_vars => [InHash!Next]_(InHash!vars)
  <2> SUFFICES ASSUME IInv, [Next]_vars PROVE InHash!Next \/ UNCHANGED InHash!vars
    OBVIOUS
  <2>0. IsHash(hash) /\ IsTable(hash.real) /\ IsRib(rib)
    BY DEF IInv, IsHash
  <2>1. ASSUME hash' = hash PROVE UNCHANGED InHash!vars
    BY <2>1 DEF InHash!vars
  <2>2. CASE RefreshEntry
    <3>1. PICK n \in NextNodes : Clear(n)
      BY <2>2 DEF RefreshEntry
    <3>2. n \in Names /\ hash' = HashClearNextHops(hash, n)
      BY <3>1 DEF Clear, NextNodes, IInv, Types
    <3>3. Changes(hash.real, hash'.real, n, WithoutHops(EntryOf(hash.real, n)))
      BY <2>0, <3>2, HashClearIs
    <3>4. /\ HopsIn(hash'.real) = [HopsIn(hash.real) EXCEPT ![n] = NoHops]
          /\ ChoicesIn(hash'.real) = ChoicesIn(hash.real)
      BY <2>0, <3>2, <3>3, ViewClear
    <3>5. InHash!ClearNextHops(n)
      BY <3>4 DEF InHash!ClearNextHops, InHash!NoHops, InHash!Ignored, NoHops, Ignored
    <3> QED BY <3>2, <3>5 DEF InHash!Next
  <2>3. CASE InsertHop
    <3>1. PICK hop \in adding : hash' = HashInsertNextHop(hash, at, hop[1], hop[2])
      BY <2>3 DEF InsertHop
    <3>2. hop[1] \in Faces /\ hop[2] \in Costs /\ hop[2] \in Costs \cup {Ignored} /\ at \in Names
      BY DEF IInv, Types
    <3>3. Changes(hash.real, hash'.real, at, WithHop(EntryOf(hash.real, at), hop[1], hop[2]))
      BY <2>0, <3>1, <3>2, HashInsertIs
    <3>4. /\ HopsIn(hash'.real) = [HopsIn(hash.real) EXCEPT ![at][hop[1]] = hop[2]]
          /\ ChoicesIn(hash'.real) = ChoicesIn(hash.real)
      BY <2>0, <3>2, <3>3, ViewHop
    <3>5. InHash!InsertNextHop(at, hop[1], hop[2])
      BY <3>4 DEF InHash!InsertNextHop
    <3> QED BY <3>2, <3>5 DEF InHash!Next
  <2>4. CASE FibAdd
    <3>1. PICK e \in FibEdits, c \in Costs : hash' = HashInsertNextHop(hash, e[1], e[2], c)
      BY <2>4 DEF FibAdd
    <3>2. e[1] \in Names /\ e[2] \in Faces /\ c \in Costs \cup {Ignored}
      BY EditsAssumption
    <3>3. Changes(hash.real, hash'.real, e[1], WithHop(EntryOf(hash.real, e[1]), e[2], c))
      BY <2>0, <3>1, <3>2, HashInsertIs
    <3>4. /\ HopsIn(hash'.real) = [HopsIn(hash.real) EXCEPT ![e[1]][e[2]] = c]
          /\ ChoicesIn(hash'.real) = ChoicesIn(hash.real)
      BY <2>0, <3>2, <3>3, ViewHop
    <3>5. InHash!InsertNextHop(e[1], e[2], c)
      BY <3>4 DEF InHash!InsertNextHop
    <3> QED BY <3>2, <3>5 DEF InHash!Next
  <2>5. CASE FibRemove
    <3>1. PICK e \in FibEdits : hash' = HashRemoveNextHop(hash, e[1], e[2])
      BY <2>5 DEF FibRemove
    <3>2. e[1] \in Names /\ e[2] \in Faces /\ Ignored \in Costs \cup {Ignored}
      BY EditsAssumption
    <3>3. Changes(hash.real, hash'.real, e[1], WithHop(EntryOf(hash.real, e[1]), e[2], Ignored))
      BY <2>0, <3>1, <3>2, HashRemoveIs
    <3>4. /\ HopsIn(hash'.real) = [HopsIn(hash.real) EXCEPT ![e[1]][e[2]] = Ignored]
          /\ ChoicesIn(hash'.real) = ChoicesIn(hash.real)
      BY <2>0, <3>2, <3>3, ViewHop
    <3>5. InHash!RemoveNextHop(e[1], e[2])
      BY <3>4 DEF InHash!RemoveNextHop, InHash!Ignored, Ignored
    <3> QED BY <3>2, <3>5 DEF InHash!Next
  <2>6. CASE StrategySet
    <3>1. PICK n \in ChoiceNames, s \in Strategies : hash' = HashSetStrategy(hash, n, s)
      BY <2>6 DEF StrategySet
    <3>2. n \in Names /\ s \in Strategies \cup {DefaultStrategy, NoStrategy}
      BY EditsAssumption
    <3>3. Changes(hash.real, hash'.real, n, WithChoice(EntryOf(hash.real, n), s))
      BY <2>0, <3>1, <3>2, HashSetIs
    <3>4. /\ ChoicesIn(hash'.real) = [ChoicesIn(hash.real) EXCEPT ![n] = s]
          /\ HopsIn(hash'.real) = HopsIn(hash.real)
      BY <2>0, <3>2, <3>3, ViewChoice
    <3>5. InHash!SetStrategy(n, s)
      BY <3>4 DEF InHash!SetStrategy
    <3> QED BY <3>2, <3>5 DEF InHash!Next
  <2>7. CASE StrategyUnset
    <3>1. PICK n \in ChoiceNames \ {<<>>} : hash' = HashUnSetStrategy(hash, n)
      BY <2>7 DEF StrategyUnset
    <3>2. /\ n \in Names /\ n \in Names \ {Root} /\ n # Root
          /\ NoStrategy \in Strategies \cup {DefaultStrategy, NoStrategy}
      BY EditsAssumption DEF Root
    <3>3. Changes(hash.real, hash'.real, n, WithChoice(EntryOf(hash.real, n), NoStrategy))
      BY <2>0, <3>1, <3>2, HashUnSetIs
    <3>4. /\ ChoicesIn(hash'.real) = [ChoicesIn(hash.real) EXCEPT ![n] = NoStrategy]
          /\ HopsIn(hash'.real) = HopsIn(hash.real)
      BY <2>0, <3>2, <3>3, ViewChoice
    <3>5. InHash!UnSetStrategy(n)
      BY <3>2, <3>4 DEF InHash!UnSetStrategy, InHash!NoStrategy, NoStrategy, InHash!Root, Root
    <3> QED BY <3>2, <3>5 DEF InHash!Next
  <2>8. CASE \/ Unlock \/ RegisterCheck \/ RegisterAdd \/ Unregister
             \/ FaceRemove \/ CleanUpFace \/ CleanUpEntry \/ UNCHANGED vars
    BY <2>1, <2>8 DEF Unlock, RegisterCheck, RegisterAdd, Unregister, FaceRemove, CleanUpFace,
                      CleanUpEntry, vars
  <2> QED BY <2>2, <2>3, <2>4, <2>5, <2>6, <2>7, <2>8 DEF Next
<1> QED BY <1>1, <1>2, Invariance, PTL DEF Spec, HashImplementsFib, InHash!Spec
=============================================================================
