------------------------------ MODULE FibEntries ------------------------------
(***************************************************************************)
(* Names, next hops and strategy choices, as the FIB-strategy table        *)
(* (fib-strategy.go) and its two implementations hold them.  The next hops *)
(* of a prefix are a cost per face: the list in the code holds a face at   *)
(* most once and no caller depends on its order.                           *)
(***************************************************************************)
EXTENDS Integers, Sequences

CONSTANTS Names,       \* the name prefixes: a prefix-closed set of sequences
          Faces,       \* face ids
          Costs,       \* route costs
          Strategies,  \* strategy names
          DefaultStrategy

Root == <<>>

NoStrategy == "none"

\* The cost of a face that is no next hop.
Ignored == -1

NoHops == [f \in Faces |-> Ignored]

EmptyEntry == [hops |-> NoHops, strategy |-> NoStrategy]

\* The first k components of a name.
Pfx(n, k) == SubSeq(n, 1, k)

IsPrefixOf(p, n) == Len(p) <= Len(n) /\ Pfx(n, Len(p)) = p

\* A name is a sequence of components.
IsName(n) == n \in Seq({n[i] : i \in DOMAIN n})

ASSUME NamesAssumption ==
  /\ Root \in Names
  /\ \A n \in Names : IsName(n) /\ \A k \in 0..Len(n) : Pfx(n, k) \in Names

ASSUME ValuesAssumption == Costs \subseteq Nat /\ NoStrategy \notin Strategies \cup {DefaultStrategy}

\* A loop that counts down from hi: where it stops, at the first length in S, or
\* at lo if it meets none.
StopAt(S, hi, lo) ==
  LET down[k \in lo..hi] == IF k = lo \/ k \in S THEN k ELSE down[k - 1]
  IN down[hi]
=============================================================================
