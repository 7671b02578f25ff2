---------------------------- MODULE ContentStore ----------------------------
(***************************************************************************)
(* The Content Store half of the PIT-CS tree (fw/table/pit-cs-tree.go) and *)
(* its LRU replacement policy (fw/table/cs-lru.go), as operators on        *)
(*   cs  : name -> remaining freshness, or NotCached                       *)
(*   lru : the replacement queue, least recently used name first.          *)
(* The wire bytes of a cached packet are not represented.                  *)
(***************************************************************************)
EXTENDS PacketDomains, FiniteSetsExt, Functions

\* The node of m is the node of n or above it: findLongestPrefixEntryEnc follows
\* one component of the name at each node.
IsPrefix(m, n) == Len(m) <= Len(n) /\ m = SubSeq(n, 1, Len(m))

NotCached == -1

EmptyCs == [n \in Names |-> NotCached]

Cached(cs) == {n \in Names : cs[n] # NotCached}

\* A cached packet may answer an Interest unless it is stale and the Interest
\* asks for fresh Data.
Acceptable(cs, key, n) == cs[n] # NotCached /\ (~key.mbf \/ cs[n] > 0)

\* The names FindMatchingDataFromCS may return. With CanBePrefix the search
\* walks down from the Interest's node, in no particular order among siblings,
\* and stops at the first acceptable entry of each branch.
FindMatchingDataFromCS(cs, key) ==
  IF ~key.cbp
  THEN {n \in {key.name} : Acceptable(cs, key, n)}
  ELSE {n \in Names :
          /\ IsPrefix(key.name, n)
          /\ Acceptable(cs, key, n)
          /\ \A m \in Names : IsPrefix(key.name, m) /\ IsPrefix(m, n) /\ m # n
                                => ~Acceptable(cs, key, m)}

\* AfterRefresh and BeforeUse: the entry becomes the most recently used.
MoveToBack(lru, n) ==
  LET i == CHOOSE j \in DOMAIN lru : lru[j] = n
  IN Append(SubSeq(lru, 1, i - 1) \o SubSeq(lru, i + 1, Len(lru)), n)

\* What a hit does to the queue: only the exact-match branch calls BeforeUse.
AfterHit(lru, key, n) == IF key.cbp THEN lru ELSE MoveToBack(lru, n)

\* Mutant: the evicted names leave the queue and stay in the store.
EvictFromQueueOnly(st, capacity) ==
  [st EXCEPT !.lru = IF Len(@) > capacity THEN Tail(@) ELSE @]

\* EvictEntries: drop from the front of the queue until it fits.
EvictEntries(st, capacity) ==
  LET excess == IF Len(st.lru) > capacity THEN Len(st.lru) - capacity ELSE 0
      victims == Range(SubSeq(st.lru, 1, excess))
  IN [cs  |-> [n \in Names |-> IF n \in victims THEN NotCached ELSE st.cs[n]],
      lru |-> SubSeq(st.lru, excess + 1, Len(st.lru))]

\* A refresh keeps the queue's length and does not evict.
InsertData(cs, lru, n, freshness, capacity) ==
  IF cs[n] # NotCached
  THEN [cs |-> [cs EXCEPT ![n] = freshness], lru |-> MoveToBack(lru, n)]
  ELSE EvictEntries([cs |-> [cs EXCEPT ![n] = freshness], lru |-> Append(lru, n)],
                    capacity)

\* The queue lists exactly the cached names, and each of them once.
QueueListsStore(cs, lru) ==
  /\ Range(lru) = Cached(cs)
  /\ \A i, j \in DOMAIN lru : lru[i] = lru[j] => i = j

\* Freshness runs out with time.
AgeCs(cs) == [n \in Names |-> IF cs[n] > 0 THEN cs[n] - 1 ELSE cs[n]]
=============================================================================
