------------------------------- MODULE Engine -------------------------------
(***************************************************************************)
(* The pending Interests of an application's engine (std/engine/basic):    *)
(* a name trie (simple_trie.go) whose nodes hold the Interests, and one    *)
(* timer per Interest, which keeps a pointer to the node.  Nodes are       *)
(* objects with an identity: one that is pruned is no longer found by      *)
(* name, but lives on as long as a timer, or a node below it, points to    *)
(* it.  Such a node still prunes, by its key, whatever its old parent has  *)
(* under that key by then.                                                 *)
(*                                                                         *)
(* The operators take a heap of nodes to the next one; the code runs each  *)
(* of them under pitLock.                                                  *)
(***************************************************************************)
EXTENDS Integers, Sequences, FiniteSets, TLC

Root == 0
NewTrie == [x \in {Root} |-> [name |-> <<>>, par |-> Root, kids |-> {}, val |-> <<>>]]

Prefix(n, k) == SubSeq(n, 1, k)

\* PrefixMatch: down from x as far as there are nodes for the name.
RECURSIVE MatchFrom(_, _, _)
MatchFrom(h, x, n) ==
  LET down == {k \in h[x].kids : h[k].name = Prefix(n, Len(h[x].name) + 1)}
  IN IF Len(n) <= Len(h[x].name) \/ down = {} THEN x
     ELSE MatchFrom(h, CHOOSE k \in down : TRUE, n)

PrefixMatch(h, n) == MatchFrom(h, Root, n)

\* ExactMatch finds the node of the name itself.
ExactMatch(h, n) == h[PrefixMatch(h, n)].name = n

Fresh(h) == CHOOSE k \in 1..Cardinality(DOMAIN h) : k \notin DOMAIN h

\* MatchAlways: the nodes of the name that are missing are made.  The heap is
\* the one member of the set (a bound value, which TLC computes once).
RECURSIVE MatchAlways(_, _)
MatchAlways(h, n) ==
  UNION {LET new == [name |-> Prefix(n, Len(h[x].name) + 1), par |-> x, kids |-> {}, val |-> <<>>]
         IN IF h[x].name = n THEN {h}
            ELSE UNION {MatchAlways(g, n) :
                          g \in {(k :> new) @@ [h EXCEPT ![x].kids = @ \cup {k}] : k \in {Fresh(h)}}} :
           x \in {PrefixMatch(h, n)}}

\* PruneIf, with the predicate "no value" or, for Prune, the one always true.
RECURSIVE PruneIf(_, _, _)
PruneIf(h, x, always) ==
  IF x = Root \/ h[x].kids # {} \/ ~(always \/ h[x].val = <<>>) THEN h
  ELSE PruneIf([h EXCEPT ![h[x].par].kids = {k \in @ : h[k].name # h[x].name}],
               h[x].par, always)

RECURSIVE Below(_, _)
Below(h, x) == {x} \cup UNION {Below(h, k) : k \in h[x].kids}

InTrie(h) == Below(h, Root)

RECURSIVE Above(_, _)
Above(h, x) == {x} \cup IF x = Root THEN {} ELSE Above(h, h[x].par)

\* The nodes something still points to; the others are garbage.
Collect(h, pointed) ==
  LET kept == UNION {Below(h, y) : y \in {Root} \cup UNION {Above(h, x) : x \in pointed}}
  IN [x \in kept |-> h[x]]
-----------------------------------------------------------------------------
Without(seq, S) == SelectSeq(seq, LAMBDA e : e \notin S)

\* Express: the Interest e joins the node x of its name.
Injected(h, x, e) == [h EXCEPT ![x].val = Append(@, e)]

\* onDataMatch: the Interests that Data of name n answers, from node x upward.
RECURSIVE MatchedFrom(_, _, _)
MatchedFrom(h, x, n) ==
  SelectSeq(h[x].val, LAMBDA e : h[x].name = n \/ e.canBePrefix)
    \o IF x = Root THEN <<>> ELSE MatchedFrom(h, h[x].par, n)

Matched(h, n) == MatchedFrom(h, PrefixMatch(h, n), n)

onDataMatch(h, n, popped) ==
  LET live == InTrie(h)
  IN PruneIf([x \in DOMAIN h |->
                IF x \in live THEN [h[x] EXCEPT !.val = Without(@, popped)] ELSE h[x]],
             PrefixMatch(h, n), FALSE)

\* onNack: every Interest of exactly this name.
Nacked(h, n) ==
  IF ExactMatch(h, n) THEN h[PrefixMatch(h, n)].val ELSE <<>>

onNack(h, n) ==
  LET x == PrefixMatch(h, n)
  IN IF ExactMatch(h, n) THEN PruneIf([h EXCEPT ![x].val = <<>>], x, TRUE) ELSE h

\* onExpressTimeout, run for node x when the Interests in due are past their deadline.
onExpressTimeout(h, x, due) == PruneIf([h EXCEPT ![x].val = Without(@, due)], x, FALSE)
=============================================================================
