------------------------------- MODULE FibTree -------------------------------
(***************************************************************************)
(* The FIB-strategy table as a name tree (fib-strategy-tree.go).           *)
(*                                                                         *)
(* A tree is a function from the names of its nodes to their next hops and *)
(* strategy; the node set always holds the root and is closed under        *)
(* prefixes.  Operators return the tree after the operation.               *)
(***************************************************************************)
EXTENDS FibEntries

NewTree(default) == [n \in {<<>>} |-> [EmptyEntry EXCEPT !.strategy = default]]

\* findLongestPrefixEntryEnc descends while there is a child for the next
\* component: depth[k] is how deep it gets from k.
FindLongestPrefixEntry(t, name) ==
  LET depth[k \in 0..Len(name)] ==
        IF k < Len(name) /\ Pfx(name, k + 1) \in DOMAIN t THEN depth[k + 1] ELSE k
  IN Pfx(name, depth[0])

FindExactMatchEntry(t, name) == FindLongestPrefixEntry(t, name) = name

\* fillTreeToPrefixEnc: nodes for the missing components.
FillTreeToPrefix(t, name) ==
  LET missing == {Pfx(name, k) : k \in 0..Len(name)} \ DOMAIN t
  IN [n \in DOMAIN t \cup missing |-> IF n \in missing THEN EmptyEntry ELSE t[n]]

HasChildren(t, n) == \E m \in DOMAIN t : Len(m) > Len(n) /\ IsPrefixOf(n, m)

\* Mutant: strategy choices are no reason to keep a node.
PruneIfNoHops(t, n) ==
  IF n # <<>> /\ ~HasChildren(t, n) /\ t[n].hops = NoHops
  THEN [m \in DOMAIN t \ {n} |-> t[m]]
  ELSE t

\* pruneIfEmpty walks up over the nodes that carry nothing, but only ever looks
\* for the node it started from among the children: that node alone goes.
PruneIfEmpty(t, n) ==
  IF n # <<>> /\ ~HasChildren(t, n) /\ t[n] = EmptyEntry
  THEN [m \in DOMAIN t \ {n} |-> t[m]]
  ELSE t

TreeInsertNextHop(t, name, face, cost) ==
  [FillTreeToPrefix(t, name) EXCEPT ![name].hops[face] = cost]

\* isNil: the caller passed no name at all, as the RIB does for its root.
TreeClearNextHops(t, name, isNil) ==
  IF isNil \/ ~FindExactMatchEntry(t, name) THEN t
  ELSE [t EXCEPT ![name].hops = NoHops]

TreeRemoveNextHop(t, name, face) ==
  IF ~FindExactMatchEntry(t, name) THEN t
  ELSE PruneIfEmpty([t EXCEPT ![name].hops[face] = Ignored], name)

TreeSetStrategy(t, name, s) == [FillTreeToPrefix(t, name) EXCEPT ![name].strategy = s]

TreeUnSetStrategy(t, name) ==
  IF ~FindExactMatchEntry(t, name) THEN t
  ELSE PruneIfEmpty([t EXCEPT ![name].strategy = NoStrategy], name)

\* From the longest matching node up to the first that has next hops, or to the
\* root.
TreeFindNextHops(t, name) ==
  LET len == Len(FindLongestPrefixEntry(t, name))
      has == {k \in 0..len : t[Pfx(name, k)].hops # NoHops}
  IN t[Pfx(name, StopAt(has, len, 0))].hops

TreeFindStrategy(t, name) ==
  LET len == Len(FindLongestPrefixEntry(t, name))
      has == {k \in 0..len : t[Pfx(name, k)].strategy # NoStrategy}
  IN t[Pfx(name, StopAt(has, len, 0))].strategy
=============================================================================
