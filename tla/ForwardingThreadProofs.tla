----------------------- MODULE ForwardingThreadProofs -----------------------
(***************************************************************************)
(* What holds of a forwarding thread for any faces, names, packets, token  *)
(* table and Content Store settings.                                       *)
(***************************************************************************)
EXTENDS ForwardingThread, SequenceTheorems, FiniteSetTheorems, TLAPS

\* Zenon first: preparing a leaf for it takes far less than for the SMT solver.
USE ZenonT(5), SMTT(30), ZenonT(60), SMTT(60)

-----------------------------------------------------------------------------
(***************************************************************************)
(* The Content Store: what its operations keep true of the store and its   *)
(* replacement queue, for any set of names and any capacity.               *)
(***************************************************************************)
\* A store and a queue of the right types.
StoreType(kept, order) == /\ kept \in [Names -> Nat \cup {NotCached}]
                      /\ order \in Seq(Names)

\* Taking a listed name out of a queue without repetitions and putting it at the
\* back (AfterRefresh, BeforeUse) keeps what the queue lists and its length.
LEMMA MoveToBackKeeps ==
  ASSUME NEW kept, NEW order, StoreType(kept, order), QueueListsStore(kept, order),
         NEW n \in Cached(kept)
  PROVE  /\ MoveToBack(order, n) \in Seq(Names)
         /\ Len(MoveToBack(order, n)) = Len(order)
         /\ QueueListsStore(kept, MoveToBack(order, n))
<1> DEFINE i == CHOOSE j \in DOMAIN order : order[j] = n
           q == MoveToBack(order, n)
<1>1. i \in 1 .. Len(order) /\ order[i] = n
  BY DEF QueueListsStore, Range, StoreType
<1>2. n \in Names /\ order \in Seq(Names)
  BY DEF Cached, StoreType
<1> DEFINE r == SubSeq(order, 1, i - 1) \o SubSeq(order, i + 1, Len(order))
<1>3. /\ r \in Seq(Names)
      /\ Len(r) = Len(order) - 1
      /\ \A j \in 1 .. Len(order) - 1 : r[j] = IF j < i THEN order[j] ELSE order[j + 1]
  <2> HIDE DEF i
  <2> DEFINE a == SubSeq(order, 1, i - 1)
             b == SubSeq(order, i + 1, Len(order))
  <2>1. a \in Seq(Names) /\ Len(a) = i - 1 /\ \A j \in 1 .. i - 1 : a[j] = order[j]
    BY <1>1, <1>2, SubSeqProperties
  <2>2. /\ b \in Seq(Names) /\ Len(b) = Len(order) - i
        /\ \A j \in 1 .. Len(order) - i : b[j] = order[i + j]
    BY <1>1, <1>2, SubSeqProperties
  <2>3. r = a \o b
    OBVIOUS
  <2> HIDE DEF a, b, r
  <2>4. r \in Seq(Names) /\ Len(r) = Len(order) - 1
    <3>1. r \in Seq(Names) /\ Len(r) = Len(a) + Len(b)
      BY <2>1, <2>2, <2>3, ConcatProperties
    <3>2. Len(order) \in Nat
      BY <1>2
    <3> QED BY <1>1, <2>1, <2>2, <3>1, <3>2
  <2>5. ASSUME NEW j \in 1 .. Len(order) - 1
        PROVE  r[j] = IF j < i THEN order[j] ELSE order[j + 1]
    <3>1. CASE j < i
      BY <1>1, <1>2, <2>1, <2>2, <2>3, <3>1, ConcatProperties
    <3>2. CASE ~(j < i)
      <4>1. r[j] = b[j - (i - 1)]
        BY <1>1, <1>2, <2>1, <2>2, <2>3, <3>2, ConcatProperties
      <4>2. j - (i - 1) \in 1 .. Len(order) - i /\ i + (j - (i - 1)) = j + 1
        BY <1>1, <1>2, <3>2
      <4> QED BY <2>2, <3>2, <4>1, <4>2
    <3> QED BY <3>1, <3>2
  <2> QED BY <2>4, <2>5
<1>4. q = Append(r, n)
  BY DEF MoveToBack
<1>5. /\ q \in Seq(Names)
      /\ Len(q) = Len(order)
      /\ \A j \in 1 .. Len(order) : q[j] = IF j < i THEN order[j]
                                         ELSE IF j < Len(order) THEN order[j + 1] ELSE n
  <2> HIDE DEF i, q, r
  <2> QED BY <1>1, <1>2, <1>3, <1>4
<1>6. \A j, k \in DOMAIN order : order[j] = order[k] => j = k
  BY DEF QueueListsStore
<1>7. \A j, k \in DOMAIN q : q[j] = q[k] => j = k
  <2> HIDE DEF i, q
  <2> SUFFICES ASSUME NEW j \in 1 .. Len(order), NEW k \in 1 .. Len(order), j < k
               PROVE  q[j] # q[k]
    BY <1>2, <1>5
  <2> DEFINE at(m) == IF m < i THEN m ELSE IF m < Len(order) THEN m + 1 ELSE i
  <2>1. \A m \in 1 .. Len(order) : at(m) \in DOMAIN order /\ q[m] = order[at(m)]
    BY <1>1, <1>2, <1>5
  <2>2. at(j) # at(k)
    BY <1>1, <1>2
  <2> HIDE DEF at
  <2> QED BY <1>6, <2>1, <2>2
<1>8. Range(q) = Range(order)
  <2> HIDE DEF i, q
  <2>1. \A j \in DOMAIN q : \E k \in DOMAIN order : q[j] = order[k]
    BY <1>1, <1>2, <1>5
  <2>2. \A k \in DOMAIN order : \E j \in DOMAIN q : q[j] = order[k]
    <3> TAKE k \in DOMAIN order
    <3>1. CASE k < i
      BY <1>1, <1>2, <1>5, <3>1
    <3>2. CASE k = i
      BY <1>1, <1>2, <1>5, <3>2
    <3>3. CASE k > i
      <4>1. k - 1 \in DOMAIN q /\ q[k - 1] = order[k]
        BY <1>1, <1>2, <1>5, <3>3
      <4> QED BY <4>1
    <3> QED BY <1>1, <1>2, <3>1, <3>2, <3>3
  <2> QED BY <2>1, <2>2 DEF Range
<1> QED
  <2> HIDE DEF i, q
  <2>1. QueueListsStore(kept, q)
    BY <1>7, <1>8 DEF QueueListsStore
  <2> QED BY <1>5, <2>1 DEF q

\* A hit moves the entry to the back of the queue or leaves the queue alone.
LEMMA AfterHitKeeps ==
  ASSUME NEW kept, NEW order, StoreType(kept, order), QueueListsStore(kept, order),
         NEW key, NEW n \in FindMatchingDataFromCS(kept, key), key.name \in Names
  PROVE  /\ AfterHit(order, key, n) \in Seq(Names)
         /\ Len(AfterHit(order, key, n)) = Len(order)
         /\ QueueListsStore(kept, AfterHit(order, key, n))
<1>1. n \in Cached(kept)
  BY DEF FindMatchingDataFromCS, Acceptable, Cached
<1> QED BY <1>1, MoveToBackKeeps DEF AfterHit, StoreType

\* Eviction keeps the back of the queue and drops from the store exactly the
\* names that leave the queue; what remains fits the capacity.
LEMMA EvictEntriesKeeps ==
  ASSUME NEW kept, NEW order, StoreType(kept, order), QueueListsStore(kept, order),
         NEW capacity \in Nat
  PROVE  LET st == EvictEntries([cs |-> kept, lru |-> order], capacity)
         IN /\ StoreType(st.cs, st.lru)
            /\ QueueListsStore(st.cs, st.lru)
            /\ Len(st.lru) <= capacity
<1> DEFINE excess == IF Len(order) > capacity THEN Len(order) - capacity ELSE 0
           victims == Range(SubSeq(order, 1, excess))
           cs2 == [m \in Names |-> IF m \in victims THEN NotCached ELSE kept[m]]
           lru2 == SubSeq(order, excess + 1, Len(order))
<1>1. EvictEntries([cs |-> kept, lru |-> order], capacity) = [cs |-> cs2, lru |-> lru2]
  BY DEF EvictEntries
<1>2. /\ order \in Seq(Names) /\ Len(order) \in Nat
      /\ kept \in [Names -> Nat \cup {NotCached}]
      /\ excess \in 0 .. Len(order) /\ Len(order) - excess <= capacity
  BY DEF StoreType
<1> HIDE DEF excess
<1>3. /\ lru2 \in Seq(Names) /\ Len(lru2) = Len(order) - excess
      /\ \A j \in 1 .. Len(order) - excess : lru2[j] = order[excess + j]
  BY <1>2, SubSeqProperties
<1>4. victims = {order[j] : j \in 1 .. excess}
  <2> DEFINE v == SubSeq(order, 1, excess)
  <2>1. v \in Seq(Names) /\ Len(v) = excess /\ \A j \in 1 .. excess : v[j] = order[j]
    BY <1>2, SubSeqProperties
  <2> QED BY <2>1 DEF Range
<1> HIDE DEF victims, lru2
<1>5. StoreType(cs2, lru2)
  BY <1>2, <1>3 DEF StoreType
<1>6. \A j, k \in DOMAIN order : order[j] = order[k] => j = k
  BY DEF QueueListsStore
<1>7. \A j, k \in DOMAIN lru2 : lru2[j] = lru2[k] => j = k
  <2> TAKE j, k \in DOMAIN lru2
  <2>0. /\ DOMAIN lru2 = 1 .. Len(order) - excess
        /\ DOMAIN order = 1 .. Len(order)
    BY <1>2, <1>3, LenProperties
  <2>1. /\ excess + j \in DOMAIN order /\ lru2[j] = order[excess + j] /\ j \in Int
        /\ excess + k \in DOMAIN order /\ lru2[k] = order[excess + k] /\ k \in Int
    BY <1>2, <1>3, <2>0
  <2>2. lru2[j] = lru2[k] => excess + j = excess + k
    BY <1>6, <2>1
  <2> QED BY <1>2, <2>1, <2>2
<1>8. Range(lru2) = {order[j] : j \in excess + 1 .. Len(order)}
  <2>1. \A j \in DOMAIN lru2 : excess + j \in excess + 1 .. Len(order) /\ lru2[j] = order[excess + j]
    BY <1>2, <1>3
  <2>2. \A j \in excess + 1 .. Len(order) : j - excess \in DOMAIN lru2 /\ lru2[j - excess] = order[j]
    BY <1>2, <1>3
  <2> QED BY <2>1, <2>2 DEF Range
<1>9. Range(lru2) = Cached(cs2)
  <2>1. Cached(kept) = {order[j] : j \in 1 .. Len(order)}
    BY <1>2 DEF QueueListsStore, Range
  <2>2. Cached(cs2) = Cached(kept) \ victims
    BY DEF Cached
  <2>3. \A j \in 1 .. excess, k \in excess + 1 .. Len(order) : order[j] # order[k]
    BY <1>2, <1>6
  <2>4. 1 .. Len(order) = (1 .. excess) \cup (excess + 1 .. Len(order))
    BY <1>2
  <2> HIDE DEF cs2
  <2> QED BY <1>4, <1>8, <2>1, <2>2, <2>3, <2>4
<1>10. QueueListsStore(cs2, lru2)
  BY <1>7, <1>9 DEF QueueListsStore
<1> DEFINE st == EvictEntries([cs |-> kept, lru |-> order], capacity)
<1>11. st.cs = cs2 /\ st.lru = lru2
  BY <1>1
<1>12. Len(lru2) <= capacity
  BY <1>2, <1>3
<1> HIDE DEF cs2
<1>13. StoreType(st.cs, st.lru) /\ QueueListsStore(st.cs, st.lru) /\ Len(st.lru) <= capacity
  BY <1>5, <1>10, <1>11, <1>12
<1> QED BY <1>13

\* Inserting Data keeps the store and its queue in step, and the queue only
\* grows within the capacity.
LEMMA InsertDataKeeps ==
  ASSUME NEW kept, NEW order, StoreType(kept, order), QueueListsStore(kept, order),
         NEW n \in Names, NEW fresh \in Nat, NEW capacity \in Nat
  PROVE  LET st == InsertData(kept, order, n, fresh, capacity)
         IN /\ StoreType(st.cs, st.lru)
            /\ QueueListsStore(st.cs, st.lru)
            /\ Len(st.lru) > Len(order) => Len(st.lru) <= capacity
<1> DEFINE cs2 == [kept EXCEPT ![n] = fresh]
<1>1. cs2 \in [Names -> Nat \cup {NotCached}] /\ Cached(cs2) = Cached(kept) \cup {n}
  BY DEF StoreType, Cached, NotCached
<1> HIDE DEF cs2
<1>2. CASE kept[n] # NotCached
  <2>1. n \in Cached(kept)
    BY <1>2 DEF Cached
  <2>2. Cached(cs2) = Cached(kept)
    BY <1>1, <2>1
  <2>3. InsertData(kept, order, n, fresh, capacity) = [cs |-> cs2, lru |-> MoveToBack(order, n)]
    BY <1>2 DEF InsertData, cs2
  <2>4. /\ MoveToBack(order, n) \in Seq(Names)
        /\ Len(MoveToBack(order, n)) = Len(order)
        /\ QueueListsStore(kept, MoveToBack(order, n))
    BY <2>1, MoveToBackKeeps
  <2>5. StoreType(cs2, MoveToBack(order, n))
    BY <1>1, <2>4 DEF StoreType
  <2>6. QueueListsStore(cs2, MoveToBack(order, n))
    BY <2>2, <2>4 DEF QueueListsStore
  <2>7. Len(order) \in Nat
    BY DEF StoreType
  <2> QED BY <2>3, <2>4, <2>5, <2>6, <2>7
<1>3. CASE kept[n] = NotCached
  <2> DEFINE q == Append(order, n)
  <2>1. /\ q \in Seq(Names) /\ Len(q) = Len(order) + 1 /\ Len(order) \in Nat
        /\ \A j \in 1 .. Len(order) : q[j] = order[j]
        /\ q[Len(order) + 1] = n
    BY AppendProperties DEF StoreType
  <2>2. n \notin Range(order)
    BY <1>3 DEF Cached, QueueListsStore
  <2> HIDE DEF q
  <2>3. Range(order) = {order[j] : j \in 1 .. Len(order)}
    BY DEF Range, StoreType
  <2>4. \A j, k \in DOMAIN q : q[j] = q[k] => j = k
    <3>1. \A j, k \in 1 .. Len(order) : order[j] = order[k] => j = k
      BY DEF QueueListsStore, StoreType
    <3> QED BY <2>1, <2>2, <2>3, <3>1
  <2>5. Range(q) = Range(order) \cup {n}
    BY <2>1, <2>3 DEF Range
  <2>6. StoreType(cs2, q) /\ QueueListsStore(cs2, q)
    BY <1>1, <2>1, <2>4, <2>5 DEF StoreType, QueueListsStore
  <2>7. InsertData(kept, order, n, fresh, capacity)
          = EvictEntries([cs |-> cs2, lru |-> q], capacity)
    BY <1>3 DEF InsertData, cs2, q
  <2> QED BY <2>6, <2>7, EvictEntriesKeeps
<1> QED BY <1>2, <1>3

\* Time changes no name's presence in the store.
LEMMA AgeCsKeeps ==
  ASSUME NEW kept, NEW order, StoreType(kept, order), QueueListsStore(kept, order)
  PROVE  StoreType(AgeCs(kept), order) /\ QueueListsStore(AgeCs(kept), order)
<1>1. AgeCs(kept) \in [Names -> Nat \cup {NotCached}] /\ Cached(AgeCs(kept)) = Cached(kept)
  <2>1. \A m \in Names : kept[m] \in Nat \cup {-1}
    BY DEF StoreType, NotCached
  <2>2. \A m \in Names : /\ AgeCs(kept)[m] \in Nat \cup {-1}
                         /\ AgeCs(kept)[m] = -1 <=> kept[m] = -1
    <3> SUFFICES ASSUME NEW m \in Names
                 PROVE  /\ AgeCs(kept)[m] \in Nat \cup {-1}
                        /\ AgeCs(kept)[m] = -1 <=> kept[m] = -1
      OBVIOUS
    <3>1. AgeCs(kept)[m] = IF kept[m] > 0 THEN kept[m] - 1 ELSE kept[m]
      BY DEF AgeCs
    <3>2. CASE kept[m] = -1
      BY <3>1, <3>2
    <3>3. CASE kept[m] \in Nat
      BY <3>1, <3>3
    <3> QED BY <2>1, <3>2, <3>3
  <2>3. AgeCs(kept) = [m \in Names |-> AgeCs(kept)[m]]
    BY DEF AgeCs
  <2> QED BY <2>2, <2>3 DEF Cached, NotCached
<1> QED BY <1>1 DEF StoreType, QueueListsStore
-----------------------------------------------------------------------------
(***************************************************************************)
(* The PIT: what the operators on entries return, and how its two kinds of *)
(* change keep the tokens sound.                                           *)
(***************************************************************************)
\* A PIT entry whose expiration InsertInterest has cancelled.
OpenEntry == [token : Tokens, in : [Faces -> InRec \cup {None}],
              out : [Faces -> OutRec \cup {None}], exp : {Cancelled}, sat : BOOLEAN]

\* The key of an Interest that may arrive.
LEMMA KeyOfType ==
  ASSUME NEW i \in Interests
  PROVE  KeyOf(i) \in Keys /\ KeyOf(i).name = i.name /\ i \in Interest
BY ThreadAssumption DEF KeyOf, Keys

\* Keys are about names, and no key is None.
LEMMA KeyType ==
  ASSUME NEW k \in Keys
  PROVE  k.name \in Names /\ k # None
BY ThreadAssumption DEF Keys, KeyOf, Interest

\* An entry is not None.
LEMMA EntryIsSome == \A e \in PitEntry : e # None
BY ThreadAssumption

\* InsertInterest yields an entry with its expiration cancelled: a new one with
\* the next token, or the one there was.
LEMMA InsertInterestType ==
  ASSUME TypeOK, NEW k \in Keys, nPitToken < MaxInterests
  PROVE  /\ InsertInterest(k) \in OpenEntry
         /\ pit[k] = None => InsertInterest(k).token = nPitToken + 1
         /\ pit[k] # None => /\ InsertInterest(k).token = pit[k].token
                             /\ InsertInterest(k).in = pit[k].in
<1>1. nPitToken + 1 \in Tokens
  BY ThreadAssumption DEF TypeOK, Tokens
<1>2. CASE pit[k] = None
  BY <1>1, <1>2 DEF InsertInterest, NewEntry, OpenEntry
<1>3. CASE pit[k] # None
  <2>1. pit[k] \in PitEntry
    BY <1>3 DEF TypeOK
  <2>2. InsertInterest(k) = [pit[k] EXCEPT !.exp = Cancelled]
    BY <1>3 DEF InsertInterest
  <2> QED BY <1>3, <2>1, <2>2 DEF PitEntry, OpenEntry
<1> QED BY <1>2, <1>3

\* A new or renewed in-record (InsertInRecord) leaves the rest of the entry alone.
LEMMA InsertInRecordType ==
  ASSUME NEW e \in OpenEntry, NEW f \in Faces, NEW i \in Interest, i.nonce # None
  PROVE  /\ InsertInRecord(e, f, i) \in OpenEntry
         /\ InsertInRecord(e, f, i).token = e.token
<1>1. [nonce |-> i.nonce, exp |-> i.life] \in InRec
  BY DEF Interest, InRec
<1> QED BY <1>1 DEF InsertInRecord, OpenEntry

\* After the caller's guard the expiration timer runs: it is no longer cancelled.
LEMMA ExtendExpirationType ==
  ASSUME NEW e \in OpenEntry, NEW life \in Nat
  PROVE  /\ ExtendExpiration(e, life) \in PitEntry
         /\ ExtendExpiration(e, life).token = e.token
BY DEF ExtendExpiration, OpenEntry, PitEntry, Cancelled

\* New out-records keep the entry's type, its token and its in-records.
LEMMA InsertOutRecordsType ==
  ASSUME NEW e \in PitEntry, NEW S, NEW i \in Interest, i.nonce # None
  PROVE  /\ InsertOutRecords(e, S, i) \in PitEntry
         /\ InsertOutRecords(e, S, i).token = e.token
<1>1. [nonce |-> i.nonce, sup |-> Suppression] \in OutRec
  BY ThreadAssumption DEF Interest, OutRec
<1>2. [g \in Faces |-> IF g \in S THEN [nonce |-> i.nonce, sup |-> Suppression] ELSE e.out[g]]
         \in [Faces -> OutRec \cup {None}]
  BY <1>1 DEF PitEntry
<1> QED BY <1>2 DEF InsertOutRecords, PitEntry

\* Data ends what is pending on an entry and keeps the entry's token.
LEMMA SatisfiedType ==
  ASSUME NEW e \in PitEntry
  PROVE  /\ Satisfied(e) \in PitEntry
         /\ Satisfied(e).token = e.token
         /\ \A f \in Faces : Satisfied(e).in[f] = None
BY DEF Satisfied, PitEntry

\* Time changes no record's presence and no token.
LEMMA AgeEntryType ==
  ASSUME NEW e \in PitEntry
  PROVE  AgeEntry(e) \in PitEntry /\ AgeEntry(e).token = e.token
<1>1. \A t \in Nat : Less(t) \in Nat
  BY DEF Less
<1>2. \A f \in Faces : (IF e.in[f] = None THEN None ELSE [e.in[f] EXCEPT !.exp = Less(@)])
                         \in InRec \cup {None}
  BY <1>1 DEF PitEntry, InRec
<1>3. \A f \in Faces : (IF e.out[f] = None THEN None ELSE [e.out[f] EXCEPT !.sup = Less(@)])
                         \in OutRec \cup {None}
  BY <1>1 DEF PitEntry, OutRec
<1> QED BY <1>1, <1>2, <1>3 DEF AgeEntry, PitEntry

\* Inserting, sweeping and ageing keep the Dead Nonce List a map of pairs to times.
LEMMA DnlTypes ==
  ASSUME dnl \in [Names \X Nonces -> Nat \cup {NotListed}], NEW S
  PROVE  /\ InsertAll(dnl, S) \in [Names \X Nonces -> Nat \cup {NotListed}]
         /\ RemoveAll(dnl, S) \in [Names \X Nonces -> Nat \cup {NotListed}]
         /\ AgeDnl(dnl) \in [Names \X Nonces -> Nat \cup {NotListed}]
<1>1. InsertAll(dnl, S) \in [Names \X Nonces -> Nat \cup {NotListed}]
  BY DnlAssumption DEF InsertAll
<1>2. RemoveAll(dnl, S) \in [Names \X Nonces -> Nat \cup {NotListed}]
  BY DEF RemoveAll
<1>3. AgeDnl(dnl) \in [Names \X Nonces -> Nat \cup {NotListed}]
  <2>1. \A p \in Names \X Nonces :
          (IF dnl[p] > 0 THEN dnl[p] - 1 ELSE dnl[p]) \in Nat \cup {NotListed}
    <3> SUFFICES ASSUME NEW p \in Names \X Nonces
                 PROVE  (IF dnl[p] > 0 THEN dnl[p] - 1 ELSE dnl[p]) \in Nat \cup {NotListed}
      OBVIOUS
    <3>1. dnl[p] \in Nat \cup {-1}
      BY DEF NotListed
    <3> QED BY <3>1 DEF NotListed
  <2> QED BY <2>1 DEF AgeDnl
<1> QED BY <1>1, <1>2, <1>3

\* What the outgoing pipelines send are packets on existing faces.
LEMMA OutTypes ==
  ASSUME faces \subseteq Faces, NEW T, NEW k \in Keys, NEW n \in Names,
         NEW g \in Faces \cup {None}, NEW i, NEW f
  PROVE  /\ OutInterests(Sendable(T, i, f), k, g) \subseteq Packet
         /\ OutData(T, k, n, g) \subseteq Packet
         /\ OutNacks(T, k, g) \subseteq Packet
BY KeyType DEF OutInterests, Sendable, OutData, OutNacks, Packet

\* A Data packet sent says which face, which entry and which Data it is for.
LEMMA OutDataIs ==
  ASSUME NEW T, NEW k, NEW n, NEW g, NEW p \in OutData(T, k, n, g)
  PROVE  p.face \in T /\ p.key = k /\ p.name = n /\ p.from = g
BY DEF OutData
-----------------------------------------------------------------------------
(***************************************************************************)
(* The two ways in which actions change the PIT.                           *)
(***************************************************************************)
\* Entries change but none comes or goes and none gets another token.
LEMMA TokensKept ==
  ASSUME TypeOK, TokenTableSound, TokensTraceable,
         UNCHANGED <<pitTokens, nPitToken, issued>>,
         nInInterests' \in Nat, nInInterests' >= nInInterests,
         \A k \in Keys : /\ pit'[k] = None <=> pit[k] = None
                         /\ pit[k] # None => pit'[k].token = pit[k].token
  PROVE  TokenTableSound' /\ TokensTraceable'
<1>1. TokenTableSound'
  <2>1. \A s \in DOMAIN pitTokens : pitTokens[s] # None => pitTokens[s] \in Keys
    BY DEF TypeOK
  <2> QED BY <2>1 DEF TokenTableSound, Slot
<1>2. TokensTraceable'
  <2>1. Live' = Live
    BY DEF Live
  <2>2. \A k \in Live : pit'[k].token = pit[k].token
    BY DEF Live
  <2>3. nPitToken' <= nInInterests'
    BY DEF TypeOK, TokensTraceable
  <2> QED BY <2>1, <2>2, <2>3 DEF TokensTraceable
<1> QED BY <1>1, <1>2

\* An Interest puts its entry e at key k, with the next token if it is new, and
\* perhaps goes out with that token.
LEMMA TokensAfterInsert ==
  ASSUME TypeOK, TokenTableSound, TokensTraceable,
         NEW k \in Keys, NEW e \in PitEntry, TakeToken(k),
         pit' = [pit EXCEPT ![k] = e],
         pit[k] = None => e.token = nPitToken + 1,
         pit[k] # None => e.token = pit[k].token,
         nInInterests < MaxInterests, nInInterests' = nInInterests + 1,
         issued' \in [Tokens -> [Faces -> Keys \cup {None}]],
         \A t \in Tokens \ {e.token} : issued'[t] = issued[t],
         \A f \in Faces : issued'[e.token][f] \in {issued[e.token][f], k}
  PROVE  /\ pit' \in [Keys -> PitEntry \cup {None}]
         /\ pitTokens' \in [0 .. PitTokenSlots - 1 -> Keys \cup {None}]
         /\ nPitToken' \in 0 .. MaxInterests
         /\ TokenTableSound' /\ TokensTraceable'
<1> USE ThreadAssumption
<1>0. /\ nPitToken \in Nat /\ nInInterests \in Nat /\ nPitToken <= nInInterests
      /\ MaxInterests \in Nat /\ e # None /\ k # None /\ e.token \in Tokens
  BY KeyType DEF TypeOK, TokensTraceable, PitEntry
<1>1. pit' \in [Keys -> PitEntry \cup {None}]
  BY DEF TypeOK
<1>2. \A t \in Nat : Slot(t) \in 0 .. PitTokenSlots - 1
  BY DEF Slot
<1>3. CASE pit[k] # None
  <2>1. UNCHANGED <<nPitToken, pitTokens>> /\ e.token = pit[k].token
    BY <1>3 DEF TakeToken
  <2>2. /\ \A j \in Keys : pit'[j] = None <=> pit[j] = None
        /\ \A j \in Keys : pit[j] # None => pit'[j].token = pit[j].token
    BY <1>0, <1>3, <2>1 DEF TypeOK
  <2>3. TokenTableSound'
    <3>1. \A s \in DOMAIN pitTokens : pitTokens[s] # None => pitTokens[s] \in Keys
      BY DEF TypeOK
    <3> QED BY <2>1, <2>2, <3>1 DEF TokenTableSound, Slot
  <2>4. TokensTraceable'
    <3>1. Live' = Live /\ k \in Live
      BY <1>3, <2>2 DEF Live
    <3>2. \A j \in Live : pit'[j].token = pit[j].token /\ pit[j].token \in Tokens
      BY <2>2 DEF Live, TypeOK, PitEntry
    <3>3. \A j \in Live : pit[j].token = e.token => j = k
      BY <1>3, <2>1 DEF Live, TokenTableSound
    <3>4. nPitToken' <= nInInterests'
      BY <1>0, <2>1
    <3>5. ASSUME NEW t \in Tokens, NEW f \in Faces, issued'[t][f] # None
          PROVE  t <= nPitToken'
      <4>1. CASE t = e.token
        BY <2>1, <3>1, <4>1 DEF TokensTraceable
      <4>2. CASE t # e.token
        BY <2>1, <3>5, <4>2 DEF TokensTraceable
      <4> QED BY <4>1, <4>2
    <3>6. ASSUME NEW j \in Live, NEW f \in Faces
          PROVE  issued'[pit'[j].token][f] \in {None, j}
      <4>1. CASE j = k
        BY <1>3, <2>1, <3>1, <3>2, <4>1 DEF TokensTraceable
      <4>2. CASE j # k
        BY <3>2, <3>3, <4>2 DEF TokensTraceable
      <4> QED BY <4>1, <4>2
    <3>7. \A j \in Live : pit'[j].token <= nPitToken'
      BY <2>1, <3>2 DEF TokensTraceable
    <3> QED BY <3>1, <3>4, <3>5, <3>6, <3>7 DEF TokensTraceable
  <2> QED BY <1>1, <2>1, <2>3, <2>4 DEF TypeOK
<1>4. CASE pit[k] = None
  <2>1. /\ nPitToken' = nPitToken + 1 /\ e.token = nPitToken + 1
        /\ pitTokens' = [pitTokens EXCEPT ![Slot(nPitToken + 1)] = k]
    BY <1>4 DEF TakeToken
  <2>2. pitTokens' \in [0 .. PitTokenSlots - 1 -> Keys \cup {None}]
    BY <2>1 DEF TypeOK
  <2>3. nPitToken' \in 0 .. MaxInterests
    BY <1>0, <2>1
  <2>4. \A j \in Keys : pit'[j] = IF j = k THEN e ELSE pit[j]
    BY DEF TypeOK
  <2>5. \A j \in Keys : pit[j] # None => /\ j # k /\ pit[j].token \in Tokens
                                        /\ pit[j].token <= nPitToken
    BY <1>4 DEF TypeOK, TokensTraceable, Live, PitEntry
  <2>6. TokenTableSound'
    <3>1. ASSUME NEW s \in DOMAIN pitTokens', pitTokens'[s] # None
          PROVE  pit'[pitTokens'[s]] # None /\ Slot(pit'[pitTokens'[s]].token) = s
      <4>1. s \in 0 .. PitTokenSlots - 1 /\ s \in DOMAIN pitTokens
        BY <2>2 DEF TypeOK
      <4>2. CASE s = Slot(nPitToken + 1)
        BY <1>0, <2>1, <2>4, <4>1, <4>2 DEF TypeOK
      <4>3. CASE s # Slot(nPitToken + 1)
        <5>1. pitTokens'[s] = pitTokens[s] /\ pitTokens[s] \in Keys
          BY <2>1, <3>1, <4>1, <4>3 DEF TypeOK
        <5>2. pit[pitTokens[s]] # None /\ Slot(pit[pitTokens[s]].token) = s
          BY <3>1, <4>1, <5>1 DEF TokenTableSound
        <5> QED BY <2>4, <2>5, <5>1, <5>2
      <4> QED BY <4>2, <4>3
    <3>2. ASSUME NEW i \in Keys, NEW j \in Keys, pit'[i] # None, pit'[j] # None,
                 pit'[i].token = pit'[j].token
          PROVE  i = j
      <4>1. \A l \in Keys : pit[l] # None => pit[l].token # nPitToken + 1
        BY <1>0, <2>5 DEF Tokens
      <4> QED BY <2>1, <2>4, <3>2, <4>1 DEF TokenTableSound
    <3>3. \A s : Slot(s)' = Slot(s)
      BY DEF Slot
    <3> QED BY <3>1, <3>2 DEF TokenTableSound, Slot
  <2>7. TokensTraceable'
    <3>1. Live' = Live \cup {k}
      BY <1>0, <2>4 DEF Live
    <3>2. nPitToken' <= nInInterests'
      BY <1>0, <2>1
    <3>3. ASSUME NEW t \in Tokens, NEW f \in Faces, issued'[t][f] # None
          PROVE  t <= nPitToken'
      <4>1. CASE t = e.token
        BY <1>0, <2>1, <4>1
      <4>2. CASE t # e.token
        <5>1. t <= nPitToken
          BY <3>3, <4>2 DEF TokensTraceable
        <5> QED BY <1>0, <2>1, <5>1 DEF Tokens
      <4> QED BY <4>1, <4>2
    <3>4. ASSUME NEW j \in Live'
          PROVE  /\ pit'[j].token <= nPitToken'
                 /\ \A f \in Faces : issued'[pit'[j].token][f] \in {None, j}
      <4>1. CASE j = k
        <5>1. \A f \in Faces : issued[e.token][f] = None
          BY <1>0, <2>1 DEF TokensTraceable
        <5>2. pit'[j] = e
          BY <2>4, <4>1
        <5>3. e.token <= nPitToken'
          BY <1>0, <2>1
        <5>4. \A f \in Faces : issued'[e.token][f] \in {None, k}
          BY <5>1
        <5> QED BY <4>1, <5>2, <5>3, <5>4
      <4>2. CASE j # k
        <5>1. j \in Live /\ j \in Keys /\ pit'[j] = pit[j]
          BY <2>4, <3>1, <4>2 DEF Live
        <5>2. /\ pit[j].token \in Tokens \ {e.token}
              /\ pit[j].token <= nPitToken
              /\ pit[j].token \in Int
          BY <1>0, <2>1, <2>5, <5>1 DEF Live, Tokens
        <5>3. \A f \in Faces : issued[pit[j].token][f] \in {None, j}
          BY <5>1 DEF TokensTraceable
        <5>4. pit[j].token <= nPitToken'
          BY <1>0, <2>1, <5>2
        <5>5. issued'[pit[j].token] = issued[pit[j].token]
          BY <5>2
        <5> QED BY <5>1, <5>3, <5>4, <5>5
      <4> QED BY <4>1, <4>2
    <3> QED BY <3>2, <3>3, <3>4 DEF TokensTraceable
  <2> QED BY <1>1, <2>2, <2>3, <2>6, <2>7
<1> QED BY <1>3, <1>4
-----------------------------------------------------------------------------

\* The inductive invariant. The token table is sound only because tokens are
\* fresh and traceable, and the queue's type needs every cached name to be listed.
IInv == TypeOK /\ TokenTableSound /\ TokensTraceable /\ LruMatchesStore

-----------------------------------------------------------------------------
(***************************************************************************)
(* One lemma per action: it keeps the inductive invariant, delivers only   *)
(* solicited Data and does not let the store outgrow its capacity.         *)
(***************************************************************************)
StepOK == IInv' /\ SolicitedDelivery /\ StoreGrowthBounded

\* A step that sends no Data delivers nothing unsolicited.
LEMMA NoDataSent ==
  ASSUME \A p \in out' : p.type # "data"
  PROVE  SolicitedDelivery
BY DEF SolicitedDelivery

\* A step that leaves the queue alone does not let the store grow.
LEMMA QueueUnchanged ==
  ASSUME lru \in Seq(Names), lru' = lru
  PROVE  StoreGrowthBounded
<1>1. Len(lru) \in Nat
  OBVIOUS
<1> QED BY ONLY <1>1, lru' = lru DEF StoreGrowthBounded

\* An action that leaves the PIT, the tokens and the Content Store alone and
\* sends no Data.
LEMMA QuietStep ==
  ASSUME IInv, UNCHANGED <<tables, store>>,
         csConf' \in CsConfigs, faces' \subseteq Faces,
         dnl' \in [Names \X Nonces -> Nat \cup {NotListed}],
         nInInterests' \in 0 .. MaxInterests, nInInterests' >= nInInterests,
         nUnsatisfied' = nUnsatisfied,
         out' \subseteq Packet, \A p \in out' : p.type # "data"
  PROVE  StepOK
<1>1. TypeOK'
  BY DEF IInv, TypeOK, tables, store
<1>2. UNCHANGED <<pit, pitTokens, nPitToken, issued, cs, lru>>
  BY DEF tables, store
<1>3. TokenTableSound' /\ TokensTraceable'
  <2>1. nInInterests' \in Nat
    BY ThreadAssumption
  <2> QED BY <1>2, <2>1, TokensKept DEF IInv
<1>4. LruMatchesStore'
  BY <1>2 DEF IInv, LruMatchesStore, QueueListsStore, Cached
<1>5. lru \in Seq(Names)
  BY DEF IInv, TypeOK
<1>6. SolicitedDelivery /\ StoreGrowthBounded
  BY <1>2, <1>5, NoDataSent, QueueUnchanged
<1> QED BY <1>1, <1>3, <1>4, <1>6 DEF StepOK, IInv

\* The actions that refuse a packet.
LEMMA RefusalStep ==
  ASSUME IInv, out' = {}, UNCHANGED <<tables, store, csConf, dnl, faces, nUnsatisfied>>,
         \/ nInInterests' = nInInterests
         \/ nInInterests < MaxInterests /\ nInInterests' = nInInterests + 1
  PROVE  StepOK
<1>1. /\ csConf' \in CsConfigs /\ faces' \subseteq Faces
      /\ dnl' \in [Names \X Nonces -> Nat \cup {NotListed}]
      /\ UNCHANGED <<tables, store>> /\ nUnsatisfied' = nUnsatisfied
  BY DEF IInv, TypeOK
<1>2. nInInterests' \in 0 .. MaxInterests /\ nInInterests' >= nInInterests
  BY ThreadAssumption DEF IInv, TypeOK
<1> QED BY <1>1, <1>2, QuietStep

\* processIncomingNack changes no table and sends no Data.
LEMMA NackStep ==
  ASSUME IInv, NEW k \in Keys, NEW f \in Faces, AfterReceiveNack(k, f)
  PROVE  StepOK
<1>1. PICK j \in FindInterestExactMatch(k) : out' = OutNacks(InFaces(pit[j]) \ {f}, j, f)
  BY DEF AfterReceiveNack
<1>2. j \in Keys
  BY DEF FindInterestExactMatch, Live
<1>3. out' \subseteq Packet
  BY <1>1, <1>2, KeyType, OutTypes DEF IInv, TypeOK
<1>4. \A p \in out' : p.type # "data"
  BY <1>1 DEF OutNacks
<1>5. /\ csConf' \in CsConfigs /\ faces' \subseteq Faces
      /\ dnl' \in [Names \X Nonces -> Nat \cup {NotListed}]
      /\ UNCHANGED <<tables, store>> /\ nUnsatisfied' = nUnsatisfied
      /\ nInInterests' \in 0 .. MaxInterests /\ nInInterests' >= nInInterests
  BY ThreadAssumption DEF IInv, TypeOK, AfterReceiveNack
<1> QED BY <1>3, <1>4, <1>5, QuietStep

\* The entry a received Interest leaves before it is sent on or answered.
LEMMA ReceivedEntry ==
  ASSUME IInv, NEW i \in Interests, NEW f \in Faces, ReceiveInterest(i, f), ~Looping(i)
  PROVE  LET k == KeyOf(i)
             e == InsertInRecord(InsertInterest(k), f, i)
         IN /\ e \in OpenEntry
            /\ pit[k] = None => e.token = nPitToken + 1
            /\ pit[k] # None => e.token = pit[k].token
<1>1. nPitToken < MaxInterests
  BY ThreadAssumption DEF IInv, TypeOK, TokensTraceable, ReceiveInterest
<1>2. KeyOf(i) \in Keys /\ i \in Interest /\ i.nonce # None
  BY KeyOfType DEF Looping
<1> DEFINE e0 == InsertInterest(KeyOf(i))
<1>3. /\ e0 \in OpenEntry
      /\ pit[KeyOf(i)] = None => e0.token = nPitToken + 1
      /\ pit[KeyOf(i)] # None => e0.token = pit[KeyOf(i)].token
  BY <1>1, <1>2, InsertInterestType DEF IInv
<1> HIDE DEF e0
<1>4. /\ InsertInRecord(e0, f, i) \in OpenEntry
      /\ InsertInRecord(e0, f, i).token = e0.token
  BY <1>2, <1>3, InsertInRecordType
<1> QED BY <1>3, <1>4 DEF e0

\* An Interest that is sent on, through InsertInterest to the strategy's SendInterest.
LEMMA ForwardStep ==
  ASSUME IInv, NEW i \in Interests, NEW f \in Faces, ForwardInterest(i, f)
  PROVE  StepOK
<1> DEFINE k == KeyOf(i)
           e == ExtendExpiration(InsertInRecord(InsertInterest(k), f, i), i.life)
           targets == IF i.nexthop # None THEN {i.nexthop}
                      ELSE StrategyTargets(i, e, AllowedNextHops(i, f, e))
           sent == Sendable(targets, i, f)
           e2 == InsertOutRecords(e, sent, i)
<1>1. /\ ReceiveInterest(i, f) /\ ~Looping(i)
      /\ TakeToken(k)
      /\ pit' = [pit EXCEPT ![k] = e2]
      /\ issued' = [issued EXCEPT ![e.token] = [g \in Faces |-> IF g \in sent THEN k ELSE @[g]]]
      /\ out' = OutInterests(sent, k, f)
      /\ UNCHANGED store
  BY DEF ForwardInterest
<1>2. dnl' = dnl \/ \E S : dnl' = InsertAll(dnl, S)
  BY DEF ForwardInterest
<1>3. i \in Interest /\ i.nonce # None /\ i.life \in Nat /\ k \in Keys
  BY <1>1, KeyOfType DEF Looping, Interest
<1>4. /\ e \in PitEntry
      /\ pit[k] = None => e.token = nPitToken + 1
      /\ pit[k] # None => e.token = pit[k].token
  <2> DEFINE o == InsertInRecord(InsertInterest(k), f, i)
  <2>1. /\ o \in OpenEntry
        /\ pit[k] = None => o.token = nPitToken + 1
        /\ pit[k] # None => o.token = pit[k].token
    BY <1>1, ReceivedEntry
  <2>2. e = ExtendExpiration(o, i.life)
    OBVIOUS
  <2> HIDE DEF o, k, e
  <2> QED BY <1>3, <2>1, <2>2, ExtendExpirationType
<1>5. sent \subseteq Faces
  BY DEF Sendable, IInv, TypeOK
<1>6. out' \subseteq Packet /\ \A p \in out' : p.type # "data"
  <2> HIDE DEF k, e, targets
  <2>1. out' = OutInterests(Sendable(targets, i, f), k, f)
    BY <1>1
  <2>2. \A p \in out' : p.type # "data"
    BY ONLY <2>1 DEF OutInterests
  <2>3. faces \subseteq Faces /\ k.name \in Names
    BY <1>3, KeyType DEF IInv, TypeOK
  <2>4. out' \subseteq Packet
    BY <1>3, <2>1, <2>3, OutTypes
  <2> QED BY <2>2, <2>4
<1> HIDE DEF k, e, targets, sent
<1>7. e2 \in PitEntry /\ e2.token = e.token
  BY <1>3, <1>4, InsertOutRecordsType
<1>8. /\ issued' \in [Tokens -> [Faces -> Keys \cup {None}]]
      /\ \A t \in Tokens \ {e2.token} : issued'[t] = issued[t]
      /\ \A g \in Faces : issued'[e2.token][g] \in {issued[e2.token][g], k}
  <2>1. issued \in [Tokens -> [Faces -> Keys \cup {None}]] /\ e.token \in Tokens
    BY <1>4 DEF IInv, TypeOK, PitEntry
  <2> QED BY <1>1, <1>3, <1>7, <2>1
<1> HIDE DEF e2
<1>9. nInInterests < MaxInterests /\ nInInterests' = nInInterests + 1
  BY <1>1 DEF ReceiveInterest
<1>10. /\ pit' \in [Keys -> PitEntry \cup {None}]
       /\ pitTokens' \in [0 .. PitTokenSlots - 1 -> Keys \cup {None}]
       /\ nPitToken' \in 0 .. MaxInterests
       /\ TokenTableSound' /\ TokensTraceable'
  <2>1. /\ pit[k] = None => e2.token = nPitToken + 1
        /\ pit[k] # None => e2.token = pit[k].token
    BY <1>4, <1>7
  <2>2. TakeToken(k) /\ pit' = [pit EXCEPT ![k] = e2] /\ e2 \in PitEntry
    BY <1>1, <1>7
  <2> QED BY <1>3, <1>8, <1>9, <2>1, <2>2, TokensAfterInsert DEF IInv
<1>11. dnl' \in [Names \X Nonces -> Nat \cup {NotListed}]
  BY <1>2, DnlTypes DEF IInv, TypeOK
<1>12. /\ UNCHANGED <<cs, lru, csConf, faces, nUnsatisfied>>
       /\ nInInterests' \in 0 .. MaxInterests
  BY <1>1, <1>9, ThreadAssumption DEF ReceiveInterest, store, IInv, TypeOK
<1>13. TypeOK'
  BY <1>6, <1>8, <1>10, <1>11, <1>12 DEF IInv, TypeOK
<1>14. LruMatchesStore'
  BY <1>12 DEF IInv, LruMatchesStore, QueueListsStore, Cached
<1>15. lru \in Seq(Names)
  BY DEF IInv, TypeOK
<1>16. SolicitedDelivery /\ StoreGrowthBounded
  BY <1>6, <1>12, <1>15, NoDataSent, QueueUnchanged
<1> QED BY <1>10, <1>13, <1>14, <1>16 DEF StepOK, IInv

\* An Interest the Content Store answers.
LEMMA HitStep ==
  ASSUME IInv, NEW i \in Interests, NEW f \in Faces, ContentStoreHit(i, f)
  PROVE  StepOK
<1> DEFINE k == KeyOf(i)
           o == InsertInRecord(InsertInterest(k), f, i)
           e == [o EXCEPT !.exp = 0, !.in[f] = None]
<1>1. /\ ReceiveInterest(i, f) /\ ~Looping(i)
      /\ TakeToken(k)
      /\ pit' = [pit EXCEPT ![k] = e]
      /\ UNCHANGED <<issued, cs, dnl>>
  BY DEF ContentStoreHit
<1>2. PICK n \in FindMatchingDataFromCS(cs, k) : /\ lru' = AfterHit(lru, k, n)
                                                 /\ out' = OutData({f}, k, n, None)
  BY DEF ContentStoreHit
<1>3. k \in Keys /\ k.name \in Names /\ n \in Names
  BY KeyOfType, KeyType DEF FindMatchingDataFromCS
<1>4. /\ o \in OpenEntry
      /\ pit[k] = None => o.token = nPitToken + 1
      /\ pit[k] # None => o.token = pit[k].token
  BY <1>1, ReceivedEntry
<1> HIDE DEF k, o
<1>5. e \in PitEntry /\ e.token = o.token /\ e.in[f] = None
  BY <1>4 DEF OpenEntry, PitEntry
<1> HIDE DEF e
<1>6. nInInterests < MaxInterests /\ nInInterests' = nInInterests + 1
  BY <1>1 DEF ReceiveInterest
<1>7. /\ issued' \in [Tokens -> [Faces -> Keys \cup {None}]]
      /\ \A t \in Tokens \ {e.token} : issued'[t] = issued[t]
      /\ \A g \in Faces : issued'[e.token][g] \in {issued[e.token][g], k}
  BY <1>1 DEF IInv, TypeOK
<1>8. /\ pit' \in [Keys -> PitEntry \cup {None}]
      /\ pitTokens' \in [0 .. PitTokenSlots - 1 -> Keys \cup {None}]
      /\ nPitToken' \in 0 .. MaxInterests
      /\ TokenTableSound' /\ TokensTraceable'
  BY <1>1, <1>3, <1>4, <1>5, <1>6, <1>7, TokensAfterInsert DEF IInv
<1>9. /\ lru' \in Seq(Names) /\ Len(lru') = Len(lru)
      /\ QueueListsStore(cs, lru')
  BY <1>2, <1>3, AfterHitKeeps DEF IInv, LruMatchesStore, StoreType, TypeOK
<1>10. LruMatchesStore'
  BY <1>1, <1>9 DEF LruMatchesStore, QueueListsStore, Cached
<1>11. out' \subseteq Packet
  BY <1>2, <1>3, OutTypes DEF IInv, TypeOK
<1>12. /\ UNCHANGED <<cs, dnl, csConf, faces, nUnsatisfied>>
       /\ nInInterests' \in 0 .. MaxInterests
  BY <1>1, <1>6, ThreadAssumption DEF ReceiveInterest, IInv, TypeOK
<1>13. TypeOK'
  BY <1>7, <1>8, <1>9, <1>11, <1>12 DEF IInv, TypeOK
<1>14. StoreGrowthBounded
  <2>1. Len(lru) \in Nat
    BY DEF IInv, TypeOK
  <2> QED BY <1>9, <2>1 DEF StoreGrowthBounded
<1>15. SolicitedDelivery
  <2>1. \A p \in out' : p.face = f /\ p.key = k /\ p.name = n /\ p.from = None
    <3> SUFFICES ASSUME NEW p \in out'
                 PROVE  p.face = f /\ p.key = k /\ p.name = n /\ p.from = None
      OBVIOUS
    <3>1. p \in OutData({f}, k, n, None)
      BY <1>2
    <3>2. p.face \in {f} /\ p.key = k /\ p.name = n /\ p.from = None
      BY <3>1, OutDataIs
    <3> QED BY <3>2
  <2>2. pit'[k] = e /\ e # None
    BY <1>1, <1>3, <1>5, ThreadAssumption DEF IInv, TypeOK
  <2>3. Matches(k, n)
    BY <1>3 DEF Matches, FindMatchingDataFromCS
  <2> QED BY <1>5, <2>1, <2>2, <2>3 DEF SolicitedDelivery
<1> QED BY <1>8, <1>10, <1>13, <1>14, <1>15 DEF StepOK, IInv

\* Data is stored, or not, before any entry is looked for.
LEMMA ReceiveDataKeeps ==
  ASSUME IInv, NEW d \in DataPackets, NEW f, ReceiveData(d, f)
  PROVE  /\ d.name \in Names
         /\ cs' \in [Names -> Nat \cup {NotCached}] /\ lru' \in Seq(Names)
         /\ LruMatchesStore' /\ StoreGrowthBounded
         /\ UNCHANGED <<pitTokens, nPitToken, issued, csConf, faces, nInInterests, nUnsatisfied>>
<1>1. d.name \in Names /\ d.fresh \in Nat /\ csConf.capacity \in Nat
  BY ThreadAssumption DEF IInv, TypeOK
<1>2. StoreType(cs, lru) /\ QueueListsStore(cs, lru) /\ Len(lru) \in Nat
  BY DEF IInv, TypeOK, StoreType, LruMatchesStore
<1> DEFINE st == InsertData(cs, lru, d.name, d.fresh, csConf.capacity)
<1>3. /\ StoreType(st.cs, st.lru)
      /\ QueueListsStore(st.cs, st.lru)
      /\ Len(st.lru) > Len(lru) => Len(st.lru) <= csConf.capacity
  BY <1>1, <1>2, InsertDataKeeps
<1>4. \/ cs' = st.cs /\ lru' = st.lru
      \/ cs' = cs /\ lru' = lru
  BY DEF ReceiveData, StoreData, store
<1> HIDE DEF st
<1>5. StoreType(cs', lru') /\ QueueListsStore(cs', lru') /\ StoreGrowthBounded
  <2>1. CASE cs' = st.cs /\ lru' = st.lru
    BY <1>3, <2>1 DEF StoreGrowthBounded
  <2>2. CASE cs' = cs /\ lru' = lru
    BY <1>2, <2>2 DEF StoreGrowthBounded
  <2> QED BY <1>4, <2>1, <2>2
<1>6. LruMatchesStore'
  BY <1>5 DEF LruMatchesStore, QueueListsStore, Cached
<1> QED BY <1>1, <1>5, <1>6 DEF StoreType, ReceiveData

\* Data that finds no entry touches only the Content Store.
LEMMA UnsolicitedStep ==
  ASSUME IInv, NEW d \in DataPackets, NEW f \in Faces, NEW t, UnsolicitedData(d, f, t)
  PROVE  StepOK
<1>1. /\ cs' \in [Names -> Nat \cup {NotCached}] /\ lru' \in Seq(Names)
      /\ LruMatchesStore' /\ StoreGrowthBounded
      /\ UNCHANGED <<pitTokens, nPitToken, issued, csConf, faces, nInInterests, nUnsatisfied>>
  BY ReceiveDataKeeps DEF UnsolicitedData
<1>2. UNCHANGED <<pit, dnl>> /\ out' = {}
  BY DEF UnsolicitedData
<1>3. TokenTableSound' /\ TokensTraceable'
  <2>1. nInInterests' \in Nat /\ nInInterests' >= nInInterests
    BY <1>1, ThreadAssumption DEF IInv, TypeOK
  <2> QED BY <1>1, <1>2, <2>1, TokensKept DEF IInv
<1>4. TypeOK'
  BY <1>1, <1>2 DEF IInv, TypeOK
<1> QED BY <1>1, <1>2, <1>3, <1>4 DEF StepOK, IInv, SolicitedDelivery

\* The entry found by an echoed token is one the Data answers, although
\* FindInterestPrefixMatchByDataEnc compares only the token.
LEMMA FoundEntriesMatch ==
  ASSUME IInv, NEW n \in Names, NEW f \in Faces, NEW t \in EchoedTokens(n, f),
         NEW k \in FindInterestPrefixMatchByData(n, t)
  PROVE  k \in Keys /\ pit[k] \in PitEntry /\ Matches(k, n)
<1> DEFINE j == pitTokens[Slot(t)]
<1>1. CASE t # NoToken /\ j # None /\ pit[j].token = t
  <2>1. k = j
    BY <1>1 DEF FindInterestPrefixMatchByData
  <2>2. t \in Tokens /\ issued[t][f] # None /\ Matches(issued[t][f], n)
    BY <1>1 DEF EchoedTokens
  <2>3. Slot(t) \in DOMAIN pitTokens
    BY <2>2, ThreadAssumption DEF IInv, TypeOK, Slot, Tokens
  <2>4. j \in Keys /\ pit[j] # None
    BY <1>1, <2>3 DEF IInv, TypeOK, TokenTableSound
  <2>5. issued[t][f] = j
    BY <1>1, <2>2, <2>4 DEF IInv, TokensTraceable, Live
  <2> HIDE DEF j
  <2> QED BY <2>1, <2>2, <2>4, <2>5 DEF IInv, TypeOK
<1>2. CASE ~(t # NoToken /\ j # None /\ pit[j].token = t)
  BY <1>2 DEF FindInterestPrefixMatchByData, Live, IInv, TypeOK
<1> QED BY <1>1, <1>2

\* Data that answers the entries M: their records go, their tokens stay.
LEMMA SatisfyKeeps ==
  ASSUME IInv, NEW d \in DataPackets, NEW f \in Faces, ReceiveData(d, f),
         NEW M, M \subseteq Keys, \A k \in M : pit[k] \in PitEntry /\ Matches(k, d.name),
         \A p \in out' : \E k \in M : p \in OutData(InFaces(pit[k]), k, d.name, f),
         pit' = [k \in Keys |-> pit'[k]],
         \A k \in Keys : pit'[k] = IF k \in M THEN Satisfied(pit[k]) ELSE pit[k],
         dnl' \in [Names \X Nonces -> Nat \cup {NotListed}]
  PROVE  StepOK
<1>1. /\ d.name \in Names
      /\ cs' \in [Names -> Nat \cup {NotCached}] /\ lru' \in Seq(Names)
      /\ LruMatchesStore' /\ StoreGrowthBounded
      /\ UNCHANGED <<pitTokens, nPitToken, issued, csConf, faces, nInInterests, nUnsatisfied>>
  BY ReceiveDataKeeps
<1>2. \A k \in M : /\ pit'[k] \in PitEntry /\ pit'[k].token = pit[k].token
                   /\ \A g \in Faces : pit'[k].in[g] = None
  <2> SUFFICES ASSUME NEW k \in M
               PROVE  /\ pit'[k] \in PitEntry /\ pit'[k].token = pit[k].token
                      /\ \A g \in Faces : pit'[k].in[g] = None
    OBVIOUS
  <2>1. pit'[k] = Satisfied(pit[k])
    OBVIOUS
  <2> QED BY <2>1, SatisfiedType
<1>3. \A k \in M : pit[k] # None /\ pit'[k] # None
  BY <1>2, EntryIsSome
<1>4. \A k \in Keys \ M : pit'[k] = pit[k]
  OBVIOUS
<1>5. pit' \in [Keys -> PitEntry \cup {None}]
  BY <1>2, <1>4 DEF IInv, TypeOK
<1>6. TokenTableSound' /\ TokensTraceable'
  <2>1. nInInterests' \in Nat /\ nInInterests' >= nInInterests
    BY <1>1, ThreadAssumption DEF IInv, TypeOK
  <2>2. \A k \in Keys : /\ pit'[k] = None <=> pit[k] = None
                        /\ pit[k] # None => pit'[k].token = pit[k].token
    BY <1>2, <1>3, <1>4
  <2> QED BY <1>1, <2>1, <2>2, TokensKept DEF IInv
<1>7. out' \subseteq Packet
  <2>1. \A k \in M : OutData(InFaces(pit[k]), k, d.name, f) \subseteq Packet
    BY <1>1, OutTypes DEF IInv, TypeOK
  <2> QED BY <2>1
<1>8. TypeOK'
  BY <1>1, <1>5, <1>7 DEF IInv, TypeOK
<1>9. SolicitedDelivery
  <2> SUFFICES ASSUME NEW p \in out'
               PROVE  /\ Matches(p.key, p.name)
                      /\ pit[p.key] # None /\ pit[p.key].in[p.face] # None
                      /\ pit'[p.key] # None /\ pit'[p.key].in[p.face] = None
    BY DEF SolicitedDelivery
  <2>1. PICK k \in M : p \in OutData(InFaces(pit[k]), k, d.name, f)
    OBVIOUS
  <2>2. p.key = k /\ p.name = d.name /\ p.face \in InFaces(pit[k])
    BY <2>1 DEF OutData
  <2>3. p.face \in Faces /\ pit[k].in[p.face] # None
    BY <2>2 DEF InFaces
  <2> QED BY <1>2, <1>3, <2>2, <2>3
<1> QED BY <1>1, <1>6, <1>8, <1>9 DEF StepOK, IInv

\* Data that finds one entry: the single-match branch of processIncomingData.
LEMMA SatisfyEntryStep ==
  ASSUME IInv, NEW d \in DataPackets, NEW f \in Faces, NEW t \in EchoedTokens(d.name, f),
         SatisfyEntry(d, f, t)
  PROVE  StepOK
<1>1. PICK k \in Live : /\ FindInterestPrefixMatchByData(d.name, t) = {k}
                        /\ out' = OutData(InFaces(pit[k]), k, d.name, f)
                        /\ dnl' = InsertAll(dnl, {d.name} \X OutNonces(k))
                        /\ pit' = [pit EXCEPT ![k] = Satisfied(pit[k])]
  BY DEF SatisfyEntry
<1>2. ReceiveData(d, f) /\ d.name \in Names
  BY ThreadAssumption DEF SatisfyEntry
<1>3. k \in Keys /\ pit[k] \in PitEntry /\ Matches(k, d.name)
  BY <1>1, <1>2, FoundEntriesMatch
<1> DEFINE M == {k}
<1>4. \A p \in out' : \E j \in M : p \in OutData(InFaces(pit[j]), j, d.name, f)
  BY <1>1
<1>5. /\ pit' = [j \in Keys |-> pit'[j]]
      /\ \A j \in Keys : pit'[j] = IF j \in M THEN Satisfied(pit[j]) ELSE pit[j]
  BY <1>1, <1>3 DEF IInv, TypeOK
<1>6. dnl' \in [Names \X Nonces -> Nat \cup {NotListed}]
  BY <1>1, DnlTypes DEF IInv, TypeOK
<1>7. M \subseteq Keys /\ \A j \in M : pit[j] \in PitEntry /\ Matches(j, d.name)
  BY <1>3
<1> HIDE DEF M
<1> QED BY <1>2, <1>4, <1>5, <1>6, <1>7, SatisfyKeeps

\* Data that finds several entries: the multi-match branch of processIncomingData.
LEMMA SatisfyEntriesStep ==
  ASSUME IInv, NEW d \in DataPackets, NEW f \in Faces, NEW t \in EchoedTokens(d.name, f),
         SatisfyEntries(d, f, t)
  PROVE  StepOK
<1> DEFINE M == FindInterestPrefixMatchByData(d.name, t)
<1>1. /\ ReceiveData(d, f)
      /\ out' = UNION {OutData(InFaces(pit[k]) \ {f}, k, d.name, f) : k \in M}
      /\ pit' = [k \in Keys |-> IF k \in M THEN Satisfied(pit[k]) ELSE pit[k]]
      /\ \E S : dnl' = InsertAll(dnl, S)
  BY DEF SatisfyEntries
<1>2. d.name \in Names
  BY ThreadAssumption
<1>3. M \subseteq Keys /\ \A k \in M : pit[k] \in PitEntry /\ Matches(k, d.name)
  BY <1>2, FoundEntriesMatch
<1>4. dnl' \in [Names \X Nonces -> Nat \cup {NotListed}]
  BY <1>1, DnlTypes DEF IInv, TypeOK
<1>5. \A p \in out' : \E k \in M : p \in OutData(InFaces(pit[k]), k, d.name, f)
  <2> SUFFICES ASSUME NEW p \in out'
               PROVE  \E k \in M : p \in OutData(InFaces(pit[k]), k, d.name, f)
    OBVIOUS
  <2>1. PICK k \in M : p \in OutData(InFaces(pit[k]) \ {f}, k, d.name, f)
    BY <1>1
  <2>2. p \in OutData(InFaces(pit[k]), k, d.name, f)
    BY <2>1 DEF OutData
  <2> QED BY <2>2
<1>6. /\ pit' = [k \in Keys |-> pit'[k]]
      /\ \A k \in Keys : pit'[k] = IF k \in M THEN Satisfied(pit[k]) ELSE pit[k]
  BY <1>1
<1> HIDE DEF M
<1> QED BY <1>1, <1>3, <1>4, <1>5, <1>6, SatisfyKeeps

\* PitCsTree.Update removes the expired entries and their token slots.
LEMMA UpdateStep ==
  ASSUME IInv, Update
  PROVE  StepOK
<1> DEFINE E == {k \in Live : pit[k].exp = 0}
           U == UNION {{k} \X InFaces(pit[k]) : k \in {j \in E : ~pit[j].sat}}
<1>1. /\ \E S : dnl' = InsertAll(dnl, S)
      /\ nUnsatisfied' = nUnsatisfied + Cardinality(U)
      /\ pit' = [k \in Keys |-> IF k \in E THEN None ELSE pit[k]]
      /\ pitTokens' = [s \in DOMAIN pitTokens |->
                         IF pitTokens[s] \in E THEN None ELSE pitTokens[s]]
      /\ out' = {}
      /\ UNCHANGED <<nPitToken, issued, cs, lru, csConf, faces, nInInterests>>
  BY DEF Update, store
<1>2. E \subseteq Keys
  BY DEF Live
<1>3. nUnsatisfied' \in Nat
  <2>1. IsFiniteSet(Keys)
    <3> DEFINE key == [i \in Interests |-> KeyOf(i)]
    <3>1. key \in Surjection(Interests, Keys)
      BY DEF Keys, Surjection
    <3> QED BY <3>1, ThreadAssumption, FS_Surjection
  <2>2. IsFiniteSet(Keys \X Faces)
    BY <2>1, ThreadAssumption, FS_Product
  <2>3. U \subseteq Keys \X Faces
    BY <1>2 DEF InFaces
  <2> HIDE DEF U
  <2>4. Cardinality(U) \in Nat
    BY <2>2, <2>3, FS_Subset, FS_CardinalityType
  <2> QED BY <1>1, <2>4 DEF IInv, TypeOK
<1> HIDE DEF U, E
<1>4. dnl' \in [Names \X Nonces -> Nat \cup {NotListed}]
  BY <1>1, DnlTypes DEF IInv, TypeOK
<1>5. TypeOK'
  BY <1>1, <1>2, <1>3, <1>4 DEF IInv, TypeOK
<1>6. \A k \in Keys : pit'[k] # None => k \notin E /\ pit[k] # None /\ pit'[k] = pit[k]
  BY <1>1
<1>7. TokenTableSound'
  <2>1. ASSUME NEW s \in DOMAIN pitTokens', pitTokens'[s] # None
        PROVE  pit'[pitTokens'[s]] # None /\ Slot(pit'[pitTokens'[s]].token) = s
    <3>1. /\ s \in DOMAIN pitTokens /\ pitTokens'[s] = pitTokens[s]
          /\ pitTokens[s] \in Keys \ E
      BY <1>1, <2>1 DEF IInv, TypeOK
    <3>2. pit'[pitTokens[s]] = pit[pitTokens[s]]
      BY <1>1, <3>1
    <3> QED BY <2>1, <3>1, <3>2 DEF IInv, TokenTableSound
  <2>2. \A j, k \in Keys :
          pit'[j] # None /\ pit'[k] # None /\ pit'[j].token = pit'[k].token => j = k
    BY <1>6 DEF IInv, TokenTableSound
  <2> QED BY <2>1, <2>2 DEF TokenTableSound, Slot
<1>8. TokensTraceable'
  <2>1. \A k \in Live' : k \in Live /\ pit'[k] = pit[k]
    BY <1>6 DEF Live
  <2> QED BY <1>1, <2>1 DEF IInv, TokensTraceable
<1>9. LruMatchesStore'
  BY <1>1 DEF IInv, LruMatchesStore, QueueListsStore, Cached
<1>10. SolicitedDelivery /\ StoreGrowthBounded
  <2>1. lru \in Seq(Names)
    BY DEF IInv, TypeOK
  <2>2. SolicitedDelivery
    BY <1>1, NoDataSent
  <2>3. StoreGrowthBounded
    BY <1>1, <2>1, QueueUnchanged
  <2> QED BY <2>2, <2>3
<1> QED BY <1>5, <1>7, <1>8, <1>9, <1>10 DEF StepOK, IInv

\* Time passing changes timers only.
LEMMA TickStep ==
  ASSUME IInv, Tick
  PROVE  StepOK
<1>1. \A k \in Keys : pit[k] # None => pit[k] \in PitEntry
  BY DEF IInv, TypeOK
<1>2. \A k \in Keys : /\ pit[k] # None => /\ pit'[k] \in PitEntry
                                         /\ pit'[k].token = pit[k].token
                      /\ pit[k] = None => pit'[k] = None
  BY <1>1, AgeEntryType DEF Tick
<1>3. pit' \in [Keys -> PitEntry \cup {None}]
  <2>1. pit' = [k \in Keys |-> pit'[k]]
    BY DEF Tick
  <2> QED BY <1>2, <2>1
<1>4. \A k \in Keys : pit'[k] = None <=> pit[k] = None
  BY <1>2, ThreadAssumption
<1>5. /\ cs' = AgeCs(cs) /\ dnl' = AgeDnl(dnl) /\ out' = {}
      /\ UNCHANGED <<pitTokens, nPitToken, issued, lru, csConf, faces, nInInterests,
                     nUnsatisfied>>
  BY DEF Tick
<1>6. StoreType(cs', lru') /\ QueueListsStore(cs', lru')
  BY <1>5, AgeCsKeeps DEF IInv, TypeOK, StoreType, LruMatchesStore
<1>7. LruMatchesStore'
  BY <1>6 DEF LruMatchesStore, QueueListsStore, Cached
<1>8. dnl' \in [Names \X Nonces -> Nat \cup {NotListed}]
  BY <1>5, DnlTypes DEF IInv, TypeOK
<1>9. TypeOK'
  BY <1>3, <1>5, <1>6, <1>8 DEF IInv, TypeOK, StoreType
<1>10. TokenTableSound' /\ TokensTraceable'
  <2>1. nInInterests' \in Nat /\ nInInterests' >= nInInterests
    BY <1>5, ThreadAssumption DEF IInv, TypeOK
  <2> QED BY <1>2, <1>4, <1>5, <2>1, TokensKept DEF IInv
<1>11. SolicitedDelivery /\ StoreGrowthBounded
  <2>1. lru \in Seq(Names)
    BY DEF IInv, TypeOK
  <2> QED BY <1>5, <2>1, NoDataSent, QueueUnchanged
<1> QED BY <1>7, <1>9, <1>10, <1>11 DEF StepOK, IInv
-----------------------------------------------------------------------------
(***************************************************************************)
(* The results.                                                            *)
(***************************************************************************)
\* The initial state meets the invariant.
LEMMA InitInv == Init => IInv
<1> SUFFICES ASSUME Init PROVE IInv
  OBVIOUS
<1> USE ThreadAssumption DEF Init
<1>1. TypeOK
  BY DEF TypeOK, EmptyCs, EmptyDnl, NotCached, NotListed
<1>2. TokenTableSound
  BY DEF TokenTableSound
<1>3. TokensTraceable
  <2>1. \A t \in Tokens, f \in Faces : issued[t][f] = None
    OBVIOUS
  <2>2. Live = {}
    BY DEF Live
  <2> QED BY <2>1, <2>2 DEF TokensTraceable
<1>4. LruMatchesStore
  BY DEF LruMatchesStore, QueueListsStore, Range, Cached, EmptyCs
<1> QED BY <1>1, <1>2, <1>3, <1>4 DEF IInv

\* Every step of the thread keeps the invariant and meets the action properties.
LEMMA NextStep == IInv /\ Next => StepOK
<1> SUFFICES ASSUME IInv, Next PROVE StepOK
  OBVIOUS
<1>1. ASSUME NEW f \in Faces, NEW i \in Interests, processIncomingInterest(i, f)
      PROVE  StepOK
  <2>1. CASE RejectInterest(i, f)
    BY <2>1, RefusalStep DEF RejectInterest
  <2>2. CASE DropInterest(i, f)
    BY <2>2, RefusalStep DEF DropInterest, ReceiveInterest
  <2>3. CASE AfterReceiveLoopedInterest(i, f)
    BY <2>3, RefusalStep DEF AfterReceiveLoopedInterest, ReceiveInterest
  <2>4. CASE ContentStoreHit(i, f)
    BY <2>4, HitStep
  <2>5. CASE ForwardInterest(i, f)
    BY <2>5, ForwardStep
  <2> QED BY <1>1, <2>1, <2>2, <2>3, <2>4, <2>5 DEF processIncomingInterest
<1>2. ASSUME NEW f \in Faces, NEW d \in DataPackets, processIncomingData(d, f)
      PROVE  StepOK
  <2>1. CASE RejectData(d, f)
    BY <2>1, RefusalStep DEF RejectData
  <2>2. ASSUME NEW t \in EchoedTokens(d.name, f),
               UnsolicitedData(d, f, t) \/ SatisfyEntry(d, f, t) \/ SatisfyEntries(d, f, t)
        PROVE  StepOK
    BY <2>2, UnsolicitedStep, SatisfyEntryStep, SatisfyEntriesStep
  <2> QED BY <1>2, <2>1, <2>2 DEF processIncomingData
<1>3. ASSUME NEW f \in Faces, NEW t \in Tokens, issued[t][f] # None,
             processIncomingNack(issued[t][f], f)
      PROVE  StepOK
  <2>1. issued[t][f] \in Keys
    BY <1>3 DEF IInv, TypeOK
  <2>2. CASE RejectNack(issued[t][f], f)
    BY <2>2, RefusalStep DEF RejectNack
  <2>3. CASE AfterReceiveNack(issued[t][f], f)
    BY <2>1, <2>3, NackStep
  <2> QED BY <1>3, <2>2, <2>3 DEF processIncomingNack
<1> DEFINE Same == /\ UNCHANGED <<tables, store>> /\ nUnsatisfied' = nUnsatisfied
                   /\ nInInterests' \in 0 .. MaxInterests /\ nInInterests' >= nInInterests
                   /\ out' = {}
<1>4. CASE RemoveExpiredEntries
  <2>1. Same /\ csConf' \in CsConfigs /\ faces' \subseteq Faces
    BY <1>4, ThreadAssumption DEF RemoveExpiredEntries, IInv, TypeOK
  <2>2. dnl' \in [Names \X Nonces -> Nat \cup {NotListed}]
    BY <1>4, DnlTypes DEF RemoveExpiredEntries, IInv, TypeOK
  <2> QED BY <2>1, <2>2, QuietStep
<1>5. ASSUME NEW c \in CsConfigs, ConfigureCs(c)
      PROVE  StepOK
  <2>1. /\ Same /\ csConf' \in CsConfigs /\ faces' \subseteq Faces
        /\ dnl' \in [Names \X Nonces -> Nat \cup {NotListed}]
    BY <1>5, ThreadAssumption DEF ConfigureCs, IInv, TypeOK
  <2> QED BY <2>1, QuietStep
<1>6. ASSUME NEW f \in Faces, CloseFace(f)
      PROVE  StepOK
  <2>1. /\ Same /\ csConf' \in CsConfigs /\ faces' \subseteq Faces
        /\ dnl' \in [Names \X Nonces -> Nat \cup {NotListed}]
    BY <1>6, ThreadAssumption DEF CloseFace, IInv, TypeOK
  <2> QED BY <2>1, QuietStep
<1> QED BY <1>1, <1>2, <1>3, <1>4, <1>5, <1>6, UpdateStep, TickStep DEF Next

\* The inductive invariant holds of every state the thread reaches.
THEOREM Invariant == Spec => []IInv
<1>1. IInv /\ UNCHANGED vars => IInv'
  <2> SUFFICES ASSUME IInv, UNCHANGED vars PROVE IInv'
    OBVIOUS
  <2>1. TypeOK'
    BY DEF IInv, vars, TypeOK
  <2>2. TokenTableSound' /\ TokensTraceable'
    BY DEF IInv, vars, TokenTableSound, TokensTraceable, Live, Slot
  <2>3. LruMatchesStore'
    BY DEF IInv, vars, LruMatchesStore, QueueListsStore, Cached
  <2> QED BY <2>1, <2>2, <2>3 DEF IInv
<1>2. IInv /\ [Next]_vars => IInv'
  BY <1>1, NextStep DEF StepOK
<1> QED BY <1>2, InitInv, PTL DEF Spec

\* Every variable keeps its type.
THEOREM TypeCorrect == Spec => []TypeOK
<1>1. IInv => TypeOK
  BY DEF IInv
<1> QED BY <1>1, Invariant, PTL

\* The token lookup table never refers to an entry that RemoveInterest returned
\* to the pool or to an entry of another slot, whatever the size of the table.
THEOREM TokenTableCorrect == Spec => [](TokenTableSound /\ TokensTraceable)
<1>1. IInv => TokenTableSound /\ TokensTraceable
  BY DEF IInv
<1> QED BY <1>1, Invariant, PTL

\* The LRU queue lists the cached names exactly, whatever the capacities chosen.
THEOREM QueueCorrect == Spec => []LruMatchesStore
<1>1. IInv => LruMatchesStore
  BY DEF IInv
<1> QED BY <1>1, Invariant, PTL

\* Data reaches only faces with a pending Interest that it answers, although the
\* lookup by PIT token compares no names.
THEOREM DeliveryCorrect == Spec => SolicitedDeliveryProp
<1>1. IInv /\ [Next]_vars => [SolicitedDelivery]_vars
  BY NextStep DEF StepOK
<1> QED BY <1>1, Invariant, PTL DEF Spec, SolicitedDeliveryProp

\* The Content Store never grows past the capacity in force.
THEOREM CapacityCorrect == Spec => StoreGrowthBoundedProp
<1>1. IInv /\ [Next]_vars => [StoreGrowthBounded]_vars
  BY NextStep DEF StepOK
<1> QED BY <1>1, Invariant, PTL DEF Spec, StoreGrowthBoundedProp

-----------------------------------------------------------------------------
(***************************************************************************)
(* The nonces of entries that end.                                         *)
(***************************************************************************)
\* A pair that is inserted is found, whether it was there or not.
LEMMA InsertedIsFound ==
  ASSUME NEW pairs, NEW n \in Names, NEW x \in Nonces, <<n, x>> \in pairs
  PROVE  Find(InsertAll(dnl, pairs), n, x)
<1>1. DnlLifetime # NotListed
  BY DnlAssumption DEF NotListed
<1> QED BY <1>1 DEF Find, InsertAll

\* The nonce of an out-record.
LEMMA OutNonceIs ==
  ASSUME IInv, NEW k \in Keys, NEW g \in Faces, pit[k] # None, pit[k].out[g] # None
  PROVE  pit[k].out[g].nonce \in OutNonces(k) /\ pit[k].out[g].nonce \in Nonces /\ k.name \in Names
<1>1. pit[k] \in PitEntry
  BY DEF IInv, TypeOK
<1>2. pit[k].out[g] \in OutRec
  BY <1>1 DEF PitEntry
<1>3. pit[k].out[g].nonce \in Nonces
  BY <1>2 DEF OutRec
<1>4. pit[k].out[g].nonce \in OutNonces(k)
  BY DEF OutNonces
<1> QED BY <1>3, <1>4, KeyType

\* Every out-record stays, with this nonce or another.
OutKept == \A k \in Keys : \A g \in Faces :
             pit[k] # None /\ pit[k].out[g] # None => pit'[k] # None /\ pit'[k].out[g] # None

\* Such a step ends nothing.
LEMMA NothingEnds == ASSUME OutKept PROVE EndedNonceIsDead
BY DEF OutKept, EndedNonceIsDead

\* An Interest that is sent on, or answered from the Content Store, keeps the
\* out-records of its entry.
LEMMA InterestKeepsOut ==
  ASSUME IInv, NEW i \in Interests, NEW f \in Faces, ForwardInterest(i, f) \/ ContentStoreHit(i, f)
  PROVE  OutKept
<1> DEFINE k == KeyOf(i)
           o == InsertInRecord(InsertInterest(k), f, i)
<1>1. k \in Keys /\ ReceiveInterest(i, f) /\ ~Looping(i)
  BY KeyOfType DEF ForwardInterest, ContentStoreHit
<1>2. o \in OpenEntry
  BY <1>1, ReceivedEntry
<1>3. ASSUME pit[k] # None PROVE o.out = pit[k].out
  <2>1. pit[k] \in PitEntry
    BY <1>1, <1>3 DEF IInv, TypeOK
  <2> DEFINE e0 == [pit[k] EXCEPT !.exp = Cancelled]
  <2>2. InsertInterest(k) = e0
    BY <1>3 DEF InsertInterest
  <2>3. e0.out = pit[k].out
    BY <2>1 DEF PitEntry
  <2>4. e0 = [token |-> e0.token, in |-> e0.in, out |-> e0.out, exp |-> e0.exp, sat |-> e0.sat]
    BY <2>1 DEF PitEntry
  <2> HIDE DEF e0
  <2>5. InsertInRecord(e0, f, i).out = e0.out
    BY <2>4 DEF InsertInRecord
  <2> QED BY <2>2, <2>3, <2>5
<1>4. pit \in [Keys -> PitEntry \cup {None}]
  BY DEF IInv, TypeOK
<1> HIDE DEF k, o
<1>5. CASE ContentStoreHit(i, f)
  <2> DEFINE w == [o EXCEPT !.exp = 0, !.in[f] = None]
  <2>1. pit' = [pit EXCEPT ![k] = w]
    BY <1>5 DEF ContentStoreHit, k, o
  <2>2. w.out = o.out
    BY <1>2 DEF OpenEntry
  <2>3. w # None
    <3>1. w \in PitEntry
      BY <1>2 DEF OpenEntry, PitEntry
    <3> QED BY <3>1, EntryIsSome
  <2> HIDE DEF w
  <2> QED BY <1>1, <1>3, <1>4, <2>1, <2>2, <2>3 DEF OutKept
<1>6. CASE ForwardInterest(i, f)
  <2> DEFINE e == ExtendExpiration(o, i.life)
  <2>1. PICK S : pit' = [pit EXCEPT ![k] = InsertOutRecords(e, S, i)]
    BY <1>6 DEF ForwardInterest, k, o
  <2>2. i \in Interest /\ i.nonce # None /\ i.life \in Nat
    BY <1>1, KeyOfType DEF Looping, Interest
  <2>3. e \in PitEntry /\ e.out = o.out
    BY <1>2, <2>2, ExtendExpirationType DEF ExtendExpiration, OpenEntry
  <2> HIDE DEF e
  <2> DEFINE w == InsertOutRecords(e, S, i)
  <2>4. w \in PitEntry
    BY <2>2, <2>3, InsertOutRecordsType
  <2>5. w # None
    BY <2>4, EntryIsSome
  <2>6. ASSUME NEW g \in Faces, e.out[g] # None PROVE w.out[g] # None
    <3> DEFINE rec == [nonce |-> i.nonce, sup |-> Suppression]
               outs == [h \in Faces |-> IF h \in S THEN rec ELSE e.out[h]]
    <3>1. rec \in OutRec
      BY <2>2, ThreadAssumption DEF Interest, OutRec
    <3>2. rec # None
      BY <3>1, ThreadAssumption
    <3>3. w.out = outs
      BY <2>3 DEF InsertOutRecords, PitEntry
    <3> HIDE DEF w, rec
    <3> QED BY <2>6, <3>2, <3>3
  <2> HIDE DEF w
  <2> QED BY <1>1, <1>3, <1>4, <2>1, <2>3, <2>5, <2>6 DEF OutKept, w
<1> QED BY <1>5, <1>6

\* Time ends no record.
LEMMA TickKeepsOut == ASSUME IInv, Tick PROVE OutKept
<1> SUFFICES ASSUME NEW k \in Keys, NEW g \in Faces, pit[k] # None, pit[k].out[g] # None
             PROVE  pit'[k] # None /\ pit'[k].out[g] # None
  BY DEF OutKept
<1>1. pit[k] \in PitEntry
  BY DEF IInv, TypeOK
<1>2. pit'[k] = AgeEntry(pit[k])
  BY DEF Tick
<1>3. AgeEntry(pit[k]) \in PitEntry
  BY <1>1, AgeEntryType
<1>4. pit'[k] # None
  BY <1>2, <1>3, EntryIsSome
<1> DEFINE r == pit[k].out[g]
           aged == [r EXCEPT !.sup = Less(@)]
<1>5. r \in OutRec
  BY <1>1 DEF PitEntry
<1>6. AgeEntry(pit[k]).out[g] = aged
  BY <1>1 DEF AgeEntry, PitEntry
<1> HIDE DEF r
<1>7. aged \in OutRec
  BY <1>5 DEF OutRec, Less
<1>8. aged # None
  BY <1>7, ThreadAssumption
<1> QED BY <1>2, <1>4, <1>6, <1>8

\* finalizeInterest: the entries that are removed leave their nonces.
LEMMA UpdateEnds == ASSUME IInv, Update PROVE EndedNonceIsDead
<1> DEFINE E == {k \in Live : pit[k].exp = 0}
           pairs == UNION {{k.name} \X OutNonces(k) : k \in E}
<1>1. dnl' = InsertAll(dnl, pairs) /\ pit' = [k \in Keys |-> IF k \in E THEN None ELSE pit[k]]
  BY DEF Update
<1> SUFFICES ASSUME NEW k \in Keys, NEW g \in Faces, pit[k] # None, pit[k].out[g] # None,
                    pit'[k] = None \/ (pit'[k].out[g] = None /\ Sole(k))
             PROVE  Find(dnl', k.name, pit[k].out[g].nonce)
  BY DEF EndedNonceIsDead
<1>2. k \in E
  BY <1>1
<1>3. /\ pit[k].out[g].nonce \in OutNonces(k) /\ pit[k].out[g].nonce \in Nonces
      /\ k.name \in Names
  BY OutNonceIs
<1>4. <<k.name, pit[k].out[g].nonce>> \in pairs
  BY <1>2, <1>3
<1> HIDE DEF E, pairs
<1> QED BY <1>1, <1>3, <1>4, InsertedIsFound

\* Data that ends the only entry it can answer leaves the nonces it was sent with,
\* under the name of the Data, which is the entry's.
LEMMA SatisfyEnds ==
  ASSUME IInv, NEW d \in DataPackets, NEW f \in Faces, NEW t \in EchoedTokens(d.name, f),
         SatisfyEntry(d, f, t)
  PROVE  EndedNonceIsDead
<1>1. PICK j \in Live : /\ FindInterestPrefixMatchByData(d.name, t) = {j}
                        /\ dnl' = InsertAll(dnl, {d.name} \X OutNonces(j))
                        /\ pit' = [pit EXCEPT ![j] = Satisfied(pit[j])]
  BY DEF SatisfyEntry
<1>2. d.name \in Names
  BY ThreadAssumption
<1>3. j \in Keys /\ pit[j] \in PitEntry /\ Matches(j, d.name)
  BY <1>1, <1>2, FoundEntriesMatch
<1> SUFFICES ASSUME NEW k \in Keys, NEW g \in Faces, pit[k] # None, pit[k].out[g] # None,
                    pit'[k] = None \/ (pit'[k].out[g] = None /\ Sole(k))
             PROVE  Find(dnl', k.name, pit[k].out[g].nonce)
  BY DEF EndedNonceIsDead
<1>4. k = j
  BY <1>1 DEF IInv, TypeOK
<1>5. pit'[k] # None
  <2>1. Satisfied(pit[j]) \in PitEntry
    BY <1>3, SatisfiedType
  <2>2. pit'[j] = Satisfied(pit[j])
    BY <1>1, <1>3 DEF IInv, TypeOK
  <2> QED BY <1>4, <2>1, <2>2, EntryIsSome
<1>6. k.name = d.name
  BY <1>3, <1>4, <1>5 DEF Sole, Matches
<1>7. /\ pit[k].out[g].nonce \in OutNonces(k) /\ pit[k].out[g].nonce \in Nonces
      /\ k.name \in Names
  BY OutNonceIs
<1>8. <<k.name, pit[k].out[g].nonce>> \in {d.name} \X OutNonces(j)
  BY <1>4, <1>6, <1>7
<1> QED BY <1>1, <1>7, <1>8, InsertedIsFound

\* None of several entries that Data answers is the only one.
LEMMA SeveralEnd ==
  ASSUME IInv, NEW d \in DataPackets, NEW f \in Faces, NEW t \in EchoedTokens(d.name, f),
         SatisfyEntries(d, f, t)
  PROVE  EndedNonceIsDead
<1> DEFINE M == FindInterestPrefixMatchByData(d.name, t)
<1>1. /\ Cardinality(M) > 1
      /\ pit' = [k \in Keys |-> IF k \in M THEN Satisfied(pit[k]) ELSE pit[k]]
  BY DEF SatisfyEntries
<1>2. d.name \in Names
  BY ThreadAssumption
<1>3. \A k \in M : k \in Keys /\ pit[k] \in PitEntry /\ Matches(k, d.name)
  BY <1>2, FoundEntriesMatch
<1> HIDE DEF M
<1> SUFFICES ASSUME NEW k \in Keys, NEW g \in Faces, pit[k] # None, pit[k].out[g] # None,
                    pit'[k] = None \/ (pit'[k].out[g] = None /\ Sole(k))
             PROVE  FALSE
  BY DEF EndedNonceIsDead
<1>4. k \in M
  BY <1>1
<1>5. pit'[k] # None
  <2>1. Satisfied(pit[k]) \in PitEntry
    BY <1>3, <1>4, SatisfiedType
  <2> QED BY <1>1, <1>4, <2>1, EntryIsSome
<1>6. k.name = d.name
  BY <1>3, <1>4, <1>5 DEF Sole, Matches
<1>7. \A j \in M : j \in Live
  BY <1>3, EntryIsSome DEF Live
<1>8. \A j \in M : j = k
  BY <1>3, <1>5, <1>6, <1>7 DEF Sole
<1>9. M = {k}
  BY <1>4, <1>8
<1>10. Cardinality({k}) = 1
  BY FS_Singleton
<1> QED BY <1>1, <1>9, <1>10

\* When an entry ends by its timer, or by Data that has its exact name and answers
\* no other, the nonces it was last sent out with are in the Dead Nonce List: for
\* any faces, names, lifetimes and number of Interests.
THEOREM NonceCorrect == Spec => EndedNonceIsDeadProp
<1>1. IInv /\ [Next]_vars => [EndedNonceIsDead]_vars
  <2> SUFFICES ASSUME IInv, Next PROVE EndedNonceIsDead
    OBVIOUS
  <2>1. CASE pit' = pit
    BY <2>1, NothingEnds DEF OutKept
  <2>2. ASSUME NEW f \in Faces, NEW i \in Interests, processIncomingInterest(i, f)
        PROVE  EndedNonceIsDead
    <3>1. CASE ForwardInterest(i, f) \/ ContentStoreHit(i, f)
      BY <3>1, InterestKeepsOut, NothingEnds
    <3>2. CASE RejectInterest(i, f) \/ DropInterest(i, f) \/ AfterReceiveLoopedInterest(i, f)
      BY <2>1, <3>2 DEF RejectInterest, DropInterest, AfterReceiveLoopedInterest, tables
    <3> QED BY <2>2, <3>1, <3>2 DEF processIncomingInterest
  <2>3. ASSUME NEW f \in Faces, NEW d \in DataPackets, processIncomingData(d, f)
        PROVE  EndedNonceIsDead
    <3>1. ASSUME NEW t \in EchoedTokens(d.name, f), SatisfyEntry(d, f, t) \/ SatisfyEntries(d, f, t)
          PROVE  EndedNonceIsDead
      BY <3>1, SatisfyEnds, SeveralEnd
    <3>2. ASSUME NEW t, RejectData(d, f) \/ UnsolicitedData(d, f, t) PROVE EndedNonceIsDead
      BY <2>1, <3>2 DEF RejectData, UnsolicitedData, tables
    <3> QED BY <2>3, <3>1, <3>2 DEF processIncomingData
  <2>4. ASSUME NEW f \in Faces, NEW t, processIncomingNack(issued[t][f], f) PROVE EndedNonceIsDead
    BY <2>1, <2>4 DEF processIncomingNack, RejectNack, AfterReceiveNack, tables
  <2>5. CASE Update
    BY <2>5, UpdateEnds
  <2>6. CASE Tick
    BY <2>6, TickKeepsOut, NothingEnds
  <2>7. CASE RemoveExpiredEntries
    BY <2>1, <2>7 DEF RemoveExpiredEntries, tables
  <2>8. ASSUME NEW c \in CsConfigs, ConfigureCs(c) PROVE EndedNonceIsDead
    BY <2>1, <2>8 DEF ConfigureCs, tables
  <2>9. ASSUME NEW f \in Faces, CloseFace(f) PROVE EndedNonceIsDead
    BY <2>1, <2>9 DEF CloseFace, tables
  <2> QED BY <2>2, <2>3, <2>4, <2>5, <2>6, <2>7, <2>8, <2>9 DEF Next
<1> QED BY <1>1, Invariant, PTL DEF Spec, EndedNonceIsDeadProp
=============================================================================
