----------------------------- MODULE FibStrategy -----------------------------
(***************************************************************************)
(* What the users of the FIB-strategy table rely on (the interface         *)
(* FibStrategy): a set of next hops with costs and a strategy choice per   *)
(* prefix, changed by one operation at a time, and looked up by the        *)
(* longest prefix that has what is looked for.  FibTree and FibHashTable   *)
(* hold the two implementations; Rib shows that both implement this.       *)
(***************************************************************************)
EXTENDS FibEntries

VARIABLES hops,        \* per prefix, the cost of each next hop
          strat        \* per prefix, the strategy chosen for it, if any

\* The longest prefix of n in S, which holds one.
LongestIn(S, n) == CHOOSE p \in S : /\ IsPrefixOf(p, n)
                                    /\ \A q \in S : IsPrefixOf(q, n) => Len(q) <= Len(p)

\* FindNextHopsEnc: the next hops of the longest prefix that has any.
FindNextHops(h, n) ==
  LET have == {p \in Names : IsPrefixOf(p, n) /\ h[p] # NoHops}
  IN IF have = {} THEN NoHops ELSE h[LongestIn(have, n)]

\* FindStrategyEnc: the choice of the longest prefix that has one.
FindStrategy(s, n) == s[LongestIn({p \in Names : IsPrefixOf(p, n) /\ s[p] # NoStrategy}, n)]

Init ==
  /\ hops = [n \in Names |-> NoHops]
  /\ strat = [n \in Names |-> IF n = Root THEN DefaultStrategy ELSE NoStrategy]

InsertNextHop(n, f, c) == hops' = [hops EXCEPT ![n][f] = c] /\ UNCHANGED strat

\* Whether the root prefix can be cleared is left open: one implementation
\* ignores the request.
ClearNextHops(n) ==
  /\ hops' = [hops EXCEPT ![n] = NoHops] \/ (n = Root /\ UNCHANGED hops)
  /\ UNCHANGED strat

RemoveNextHop(n, f) == hops' = [hops EXCEPT ![n][f] = Ignored] /\ UNCHANGED strat

SetStrategy(n, s) == strat' = [strat EXCEPT ![n] = s] /\ UNCHANGED hops

\* The root always has a strategy, so that every lookup finds one.
UnSetStrategy(n) == n # Root /\ strat' = [strat EXCEPT ![n] = NoStrategy] /\ UNCHANGED hops

Next ==
  \E n \in Names :
    \/ ClearNextHops(n)
    \/ UnSetStrategy(n)
    \/ \E f \in Faces : RemoveNextHop(n, f) \/ \E c \in Costs : InsertNextHop(n, f, c)
    \/ \E s \in Strategies : SetStrategy(n, s)

vars == <<hops, strat>>

Spec == Init /\ [][Next]_vars
=============================================================================
