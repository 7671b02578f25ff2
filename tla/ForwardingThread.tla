-------------------------- MODULE ForwardingThread --------------------------
(***************************************************************************)
(* One forwarding thread of the forwarder (fw/fw/thread.go) with its PIT   *)
(* and Content Store (fw/table/pit-cs-tree.go, pit-cs.go, cs-lru.go), its  *)
(* Dead Nonce List, and the best-route and multicast strategies.           *)
(*                                                                         *)
(* The thread is one goroutine: each handler runs to completion, so each   *)
(* is one action. What interleaves with it is the arrival of packets, the  *)
(* passage of time, faces closing and management changing the Content      *)
(* Store. All times are what remains of them; Tick lets one unit pass.     *)
(***************************************************************************)
EXTENDS ContentStore, DeadNonceList

CONSTANTS
  Faces, LocalFaces, AdHocFaces,   \* all faces, those of local scope, ad-hoc links
  Hints, RegionHints,      \* forwarding hints; those under the producer region
  LocalhostNames, LocalhopNames,   \* names whose first component is the scope
  FibNextHops,             \* name or hint -> next hops, cheapest first
  FindStrategy,            \* name -> "best-route" or "multicast"
  Interests, DataPackets,  \* the packets that may arrive
  CsConfigs,               \* Content Store settings management may choose
  PitTokenSlots,           \* size of the token lookup table
  Suppression,             \* MulticastSuppressionTime, in ticks
  MaxInterests             \* bound: Interests accepted in a behaviour, so that
                           \* the tokens (uint32 in the code) do not wrap

VARIABLES
  pit,          \* key -> PIT entry, or None
  pitTokens,    \* token slot -> key of the entry it points to, or None
  nPitToken,    \* the last PIT token given out
  issued,       \* token -> faces -> key it was sent there for, or None: what
                \* the node behind a face can echo
  cs, lru,      \* Content Store and its replacement queue
  csConf,       \* [capacity, admit, serve]
  dnl,          \* Dead Nonce List
  faces,        \* the faces that exist
  nInInterests, nUnsatisfied,   \* counters
  out           \* the packets sent by the last step

tables == <<pit, pitTokens, nPitToken, issued>>
store == <<cs, lru>>
vars == <<pit, pitTokens, nPitToken, issued, cs, lru, csConf, dnl, faces,
          nInInterests, nUnsatisfied, out>>

NoHopLimit == -1

Interest == [name : Names, cbp : BOOLEAN, mbf : BOOLEAN, hints : Seq(Hints),
             nonce : Nonces \cup {None}, life : Nat, hop : Nat \cup {NoHopLimit},
             nexthop : Faces \cup {None}]

\* The hint that stays on the Interest: none in the producer region.
FhName(hints) == IF hints = <<>> \/ (\E h \in Range(hints) : h \in RegionHints)
                 THEN None
                 ELSE hints[1]

KeyOf(i) == [name |-> i.name, cbp |-> i.cbp, mbf |-> i.mbf, hint |-> FhName(i.hints)]

Keys == {KeyOf(i) : i \in Interests}

Tokens == 1 .. MaxInterests
NoToken == 0

InRec == [nonce : Nonces, exp : Nat]
OutRec == [nonce : Nonces, sup : Nat]
PitEntry == [token : Tokens, in : [Faces -> InRec \cup {None}],
             out : [Faces -> OutRec \cup {None}], exp : Nat, sat : BOOLEAN]

\* A packet sent: on which face, for which entry, with which name, and the
\* face it came from (OutPkt.InFace), None being the Content Store.
Packet == [type : {"interest", "data", "nack"}, face : Faces, key : Keys, name : Names,
           from : Faces \cup {None}]

ASSUME ThreadAssumption ==
  /\ LocalFaces \subseteq Faces /\ AdHocFaces \subseteq Faces
  /\ LocalhostNames \subseteq Names /\ LocalhopNames \subseteq Names
  /\ IsFiniteSet(Faces)
  /\ Interests \subseteq Interest /\ IsFiniteSet(Interests)
  /\ DataPackets \subseteq [name : Names, fresh : Nat]
  /\ CsConfigs \subseteq [capacity : Nat, admit : BOOLEAN, serve : BOOLEAN]
  /\ FibNextHops \in [Names \cup Hints -> Seq(Faces)]
  /\ FindStrategy \in [Names -> {"best-route", "multicast"}]
  /\ PitTokenSlots \in Nat \ {0} /\ Suppression \in Nat /\ MaxInterests \in Nat
  /\ None \notin PitEntry \cup InRec \cup OutRec \cup Keys \cup Faces \cup Hints
-----------------------------------------------------------------------------
(***************************************************************************)
(* The PIT.                                                                *)
(***************************************************************************)
Live == {k \in Keys : pit[k] # None}

Slot(token) == token % PitTokenSlots

Cancelled == -1

NewEntry(token) == [token |-> token, in |-> [f \in Faces |-> None],
                    out |-> [f \in Faces |-> None], exp |-> Cancelled, sat |-> FALSE]

\* InsertInterest: the entry of the key, its expiration cancelled.
InsertInterest(k) == IF pit[k] = None THEN NewEntry(nPitToken + 1)
                                      ELSE [pit[k] EXCEPT !.exp = Cancelled]

\* The nonce is pending from another face.
IsDuplicate(k, f, nonce) ==
  /\ pit[k] # None
  /\ \E g \in Faces \ {f} : pit[k].in[g] # None /\ pit[k].in[g].nonce = nonce

InsertInRecord(e, f, i) == [e EXCEPT !.in[f] = [nonce |-> i.nonce, exp |-> i.life]]

InsertOutRecords(e, S, i) ==
  [e EXCEPT !.out = [g \in Faces |-> IF g \in S THEN [nonce |-> i.nonce, sup |-> Suppression]
                                                ELSE e.out[g]]]

\* Mutant: the comparison the wrong way round.
ExtendExpirationReversed(e, life) == IF life < e.exp THEN [e EXCEPT !.exp = life] ELSE e

\* The guard of the caller: the timer only moves to a later time.
ExtendExpiration(e, life) == IF life > e.exp THEN [e EXCEPT !.exp = life] ELSE e

Matches(k, n) == IF k.cbp THEN IsPrefix(k.name, n) ELSE k.name = n

\* Mutant: the token stored in the entry of the slot is not compared.
FindByTokenSlotOnly(n, token) ==
  IF token # NoToken /\ pitTokens[Slot(token)] # None
  THEN {pitTokens[Slot(token)]}
  ELSE {j \in Live : Matches(j, n)}

\* FindInterestPrefixMatchByDataEnc: by token if the slot's entry has that
\* token, else by name. The token branch does not look at the name.
FindInterestPrefixMatchByData(n, token) ==
  LET k == pitTokens[Slot(token)]
  IN IF token # NoToken /\ k # None /\ pit[k].token = token
     THEN {k}
     ELSE {j \in Live : Matches(j, n)}

OutNonces(k) == {pit[k].out[g].nonce : g \in {h \in Faces : pit[k].out[h] # None}}

InFaces(e) == {g \in Faces : e.in[g] # None}
-----------------------------------------------------------------------------
(***************************************************************************)
(* Sending. Each operator is the set of packets its pipeline sends.        *)
(***************************************************************************)
InScope(f, n) == f \in LocalFaces \/ n \notin LocalhostNames

\* processOutgoingInterest: the faces of T the Interest really leaves on.
Sendable(T, i, f) == {g \in T : /\ g \in faces
                                /\ g # f \/ g \in AdHocFaces
                                /\ i.hop # 1 \/ g \in LocalFaces}

OutInterests(S, k, from) == {[type |-> "interest", face |-> g, key |-> k, name |-> k.name,
                              from |-> from] : g \in S}

\* processOutgoingData, to the faces of T.
OutData(T, k, n, from) ==
  {[type |-> "data", face |-> g, key |-> k, name |-> n, from |-> from] :
     g \in {h \in T : h \in faces /\ InScope(h, n)}}

\* processOutgoingNack, to the faces of T.
OutNacks(T, k, from) ==
  {[type |-> "nack", face |-> g, key |-> k, name |-> k.name, from |-> from] :
     g \in {h \in T : h \in faces /\ InScope(h, k.name)}}
-----------------------------------------------------------------------------
(***************************************************************************)
(* processIncomingInterest: one action per way out of the handler.         *)
(***************************************************************************)
\* The checks before the Interest is counted. The face may be gone: it can
\* close while the packet waits in the thread's queue.
Admissible(i, f) == f \in faces /\ i.hop # 0 /\ InScope(f, i.name)

RejectInterest(i, f) ==
  /\ ~Admissible(i, f)
  /\ out' = {}
  /\ UNCHANGED <<tables, store, csConf, dnl, faces, nInInterests, nUnsatisfied>>

ReceiveInterest(i, f) ==
  /\ Admissible(i, f)
  /\ nInInterests < MaxInterests
  /\ nInInterests' = nInInterests + 1
  /\ UNCHANGED <<csConf, faces, nUnsatisfied>>

Looping(i) == i.nonce # None => Find(dnl, i.name, i.nonce)

DropInterest(i, f) ==
  /\ ReceiveInterest(i, f)
  /\ Looping(i)
  /\ out' = {}
  /\ UNCHANGED <<tables, store, dnl>>

\* A nonce that is pending from another face: both strategies drop it.
AfterReceiveLoopedInterest(i, f) ==
  /\ ReceiveInterest(i, f)
  /\ ~Looping(i) /\ IsDuplicate(KeyOf(i), f, i.nonce)
  /\ out' = {}
  /\ UNCHANGED <<tables, store, dnl>>

\* The entry of an Interest that is neither looping nor a duplicate.
Pending(k, f) == pit[k] # None /\ pit[k].in[f] # None

\* What inserting the key does to the token table.
TakeToken(k) ==
  IF pit[k] = None
  THEN /\ nPitToken' = nPitToken + 1
       /\ pitTokens' = [pitTokens EXCEPT ![Slot(nPitToken + 1)] = k]
  ELSE UNCHANGED <<nPitToken, pitTokens>>

\* The Content Store answers: the entry expires now and the in-record that was
\* just made is used up. Other downstreams of the entry are not answered.
ContentStoreHit(i, f) ==
  LET k == KeyOf(i)
      e == InsertInRecord(InsertInterest(k), f, i)
  IN /\ ReceiveInterest(i, f)
     /\ ~Looping(i) /\ ~IsDuplicate(k, f, i.nonce)
     /\ ~Pending(k, f) /\ csConf.serve
     /\ \E n \in FindMatchingDataFromCS(cs, k) :
          /\ lru' = AfterHit(lru, k, n)
          /\ out' = OutData({f}, k, n, None)
     /\ TakeToken(k)
     /\ pit' = [pit EXCEPT ![k] = [e EXCEPT !.exp = 0, !.in[f] = None]]
     /\ UNCHANGED <<issued, cs, dnl>>

\* The next hops the strategy may use: not the incoming face, no face with an
\* in-record, and for /localhop only local faces (a missing face passes).
AllowedNextHops(i, f, e) ==
  LET lookup == IF FhName(i.hints) = None THEN i.name ELSE FhName(i.hints)
      localOnly == f \notin LocalFaces /\ i.name \in LocalhopNames
      allowed(g) == /\ g # f
                    /\ localOnly => g \notin faces \/ g \in LocalFaces
                    /\ e.in[g] = None
  IN SelectSeq(FibNextHops[lookup], allowed)

\* A different nonce went out within the suppression interval.
Suppressed(e, nonce) == \E g \in Faces : /\ e.out[g] # None
                                         /\ e.out[g].nonce # nonce
                                         /\ e.out[g].sup > 0

\* The faces AfterReceiveInterest of the strategy calls SendInterest for:
\* best-route (strict least-cost mode) takes the cheapest, multicast all.
StrategyTargets(i, e, hops) ==
  IF hops = <<>> THEN {}
  ELSE IF FindStrategy[i.name] = "best-route" THEN {hops[1]}
  ELSE IF Suppressed(e, i.nonce) THEN {}
  ELSE Range(hops)

ForwardInterest(i, f) ==
  LET k == KeyOf(i)
      e == ExtendExpiration(InsertInRecord(InsertInterest(k), f, i), i.life)
      targets == IF i.nexthop # None
                 THEN {i.nexthop}
                 ELSE StrategyTargets(i, e, AllowedNextHops(i, f, e))
      sent == Sendable(targets, i, f)
  IN /\ ReceiveInterest(i, f)
     /\ ~Looping(i) /\ ~IsDuplicate(k, f, i.nonce)
     /\ \/ Pending(k, f) \/ ~csConf.serve
        \/ FindMatchingDataFromCS(cs, k) = {}
     /\ dnl' = IF Pending(k, f)
               THEN InsertAll(dnl, {<<i.name, pit[k].in[f].nonce>>})
               ELSE dnl
     /\ TakeToken(k)
     /\ pit' = [pit EXCEPT ![k] = InsertOutRecords(e, sent, i)]
     /\ issued' = [issued EXCEPT ![e.token] = [g \in Faces |-> IF g \in sent THEN k ELSE @[g]]]
     /\ out' = OutInterests(sent, k, f)
     /\ UNCHANGED store

processIncomingInterest(i, f) == \/ RejectInterest(i, f)
                                 \/ DropInterest(i, f)
                                 \/ AfterReceiveLoopedInterest(i, f)
                                 \/ ContentStoreHit(i, f)
                                 \/ ForwardInterest(i, f)
-----------------------------------------------------------------------------
(***************************************************************************)
(* processIncomingData. A token on a Data packet is one this thread sent   *)
(* on that face, on an Interest the Data answers; or there is no token.    *)
(***************************************************************************)
EchoedTokens(n, f) ==
  {NoToken} \cup {t \in Tokens : issued[t][f] # None /\ Matches(issued[t][f], n)}

Satisfied(e) == [e EXCEPT !.exp = 0, !.sat = TRUE, !.in = [f \in Faces |-> None],
                          !.out = [f \in Faces |-> None]]

StoreData(d) ==
  LET st == InsertData(cs, lru, d.name, d.fresh, csConf.capacity)
  IN IF csConf.admit THEN cs' = st.cs /\ lru' = st.lru ELSE UNCHANGED store

RejectData(d, f) ==
  /\ ~(f \in faces /\ InScope(f, d.name))
  /\ out' = {}
  /\ UNCHANGED <<tables, store, csConf, dnl, faces, nInInterests, nUnsatisfied>>

ReceiveData(d, f) ==
  /\ f \in faces /\ InScope(f, d.name)
  /\ StoreData(d)
  /\ UNCHANGED <<pitTokens, nPitToken, issued, csConf, faces, nInInterests, nUnsatisfied>>

UnsolicitedData(d, f, token) ==
  /\ ReceiveData(d, f)
  /\ FindInterestPrefixMatchByData(d.name, token) = {}
  /\ out' = {}
  /\ UNCHANGED <<pit, dnl>>

\* Mutant: the records are cleared before their nonces are listed as dead.
SatisfyEntryClearsFirst(d, f, token) ==
  /\ ReceiveData(d, f)
  /\ \E k \in Live :
       /\ FindInterestPrefixMatchByData(d.name, token) = {k}
       /\ out' = OutData(InFaces(pit[k]), k, d.name, f)
       /\ pit' = [pit EXCEPT ![k] = Satisfied(pit[k])]
  /\ dnl' = dnl

\* One matching entry: the strategy's AfterReceiveData answers every in-record,
\* the face the Data came from included.
SatisfyEntry(d, f, token) ==
  /\ ReceiveData(d, f)
  /\ \E k \in Live :
       /\ FindInterestPrefixMatchByData(d.name, token) = {k}
       /\ out' = OutData(InFaces(pit[k]), k, d.name, f)
       /\ dnl' = InsertAll(dnl, {d.name} \X OutNonces(k))
       /\ pit' = [pit EXCEPT ![k] = Satisfied(pit[k])]

\* Several matching entries, the longest names first: the nonces recorded are
\* those of the first entry, and the Data's own face is not answered.
SatisfyEntries(d, f, token) ==
  LET M == FindInterestPrefixMatchByData(d.name, token)
  IN /\ ReceiveData(d, f)
     /\ Cardinality(M) > 1
     /\ \E first \in {k \in M : \A j \in M : Len(j.name) <= Len(k.name)} :
          dnl' = InsertAll(dnl, {d.name} \X OutNonces(first))
     /\ out' = UNION {OutData(InFaces(pit[k]) \ {f}, k, d.name, f) : k \in M}
     /\ pit' = [k \in Keys |-> IF k \in M THEN Satisfied(pit[k]) ELSE pit[k]]

processIncomingData(d, f) == \/ RejectData(d, f)
                             \/ \E token \in EchoedTokens(d.name, f) :
                                  \/ UnsolicitedData(d, f, token)
                                  \/ SatisfyEntry(d, f, token)
                                  \/ SatisfyEntries(d, f, token)
-----------------------------------------------------------------------------
(***************************************************************************)
(* processIncomingNack. A NACK carries back an Interest this thread sent   *)
(* on that face, perhaps long ago.                                         *)
(* With or without a matching token the entry is found by name and flags   *)
(* alone; any next hop's NACK is passed to all other downstreams.          *)
(***************************************************************************)
FindInterestExactMatch(k) == {j \in Live : j.name = k.name /\ j.cbp = k.cbp /\ j.mbf = k.mbf}

RejectNack(k, f) ==
  /\ f \notin faces \/ FindInterestExactMatch(k) = {}
  /\ out' = {}
  /\ UNCHANGED <<tables, store, csConf, dnl, faces, nInInterests, nUnsatisfied>>

AfterReceiveNack(k, f) ==
  /\ f \in faces
  /\ \E j \in FindInterestExactMatch(k) : out' = OutNacks(InFaces(pit[j]) \ {f}, j, f)
  /\ UNCHANGED <<tables, store, csConf, dnl, faces, nInInterests, nUnsatisfied>>

processIncomingNack(k, f) == RejectNack(k, f) \/ AfterReceiveNack(k, f)
-----------------------------------------------------------------------------
(***************************************************************************)
(* Timers, management and faces.                                           *)
(***************************************************************************)
\* Mutant: the removed entry stays in the token table.
UpdateKeepsTokens ==
  LET E == {k \in Live : pit[k].exp = 0}
  IN /\ E # {}
     /\ dnl' = InsertAll(dnl, UNION {{k.name} \X OutNonces(k) : k \in E})
     /\ pit' = [k \in Keys |-> IF k \in E THEN None ELSE pit[k]]
     /\ out' = {}
     /\ UNCHANGED <<pitTokens, nPitToken, issued, store, csConf, faces, nInInterests, nUnsatisfied>>

\* PitCsTree.Update with finalizeInterest and RemoveInterest for each entry.
Update ==
  LET E == {k \in Live : pit[k].exp = 0}
  IN /\ E # {}
     /\ dnl' = InsertAll(dnl, UNION {{k.name} \X OutNonces(k) : k \in E})
     /\ nUnsatisfied' = nUnsatisfied +
          Cardinality(UNION {{k} \X InFaces(pit[k]) : k \in {j \in E : ~pit[j].sat}})
     /\ pit' = [k \in Keys |-> IF k \in E THEN None ELSE pit[k]]
     /\ pitTokens' = [s \in DOMAIN pitTokens |->
                        IF pitTokens[s] \in E THEN None ELSE pitTokens[s]]
     /\ out' = {}
     /\ UNCHANGED <<nPitToken, issued, store, csConf, faces, nInInterests>>

RemoveExpiredEntries ==
  /\ \E S \in Sweeps(dnl) \ {{}} : dnl' = RemoveAll(dnl, S)
  /\ out' = {}
  /\ UNCHANGED <<tables, store, csConf, faces, nInInterests, nUnsatisfied>>

Less(t) == IF t > 0 THEN t - 1 ELSE t

AgeEntry(e) ==
  [e EXCEPT !.exp = Less(e.exp),
            !.in = [f \in Faces |-> IF e.in[f] = None THEN None
                                    ELSE [e.in[f] EXCEPT !.exp = Less(@)]],
            !.out = [f \in Faces |-> IF e.out[f] = None THEN None
                                     ELSE [e.out[f] EXCEPT !.sup = Less(@)]]]

Tick ==
  /\ pit' = [k \in Keys |-> IF pit[k] = None THEN None ELSE AgeEntry(pit[k])]
  /\ cs' = AgeCs(cs)
  /\ dnl' = AgeDnl(dnl)
  /\ out' = {}
  /\ UNCHANGED <<pitTokens, nPitToken, issued, lru, csConf, faces, nInInterests, nUnsatisfied>>

\* The cs/config command; a smaller capacity takes effect at the next insertion.
ConfigureCs(c) ==
  /\ csConf' = c
  /\ out' = {}
  /\ UNCHANGED <<tables, store, dnl, faces, nInInterests, nUnsatisfied>>

\* A face is removed. Its number is never used again, and its PIT records stay.
CloseFace(f) ==
  /\ f \in faces
  /\ faces' = faces \ {f}
  /\ out' = {}
  /\ UNCHANGED <<tables, store, csConf, dnl, nInInterests, nUnsatisfied>>
-----------------------------------------------------------------------------
Init ==
  /\ pit = [k \in Keys |-> None]
  /\ pitTokens = [s \in 0 .. PitTokenSlots - 1 |-> None]
  /\ nPitToken = 0
  /\ issued = [t \in Tokens |-> [f \in Faces |-> None]]
  /\ cs = EmptyCs /\ lru = <<>>
  /\ csConf \in CsConfigs
  /\ dnl = EmptyDnl
  /\ faces = Faces
  /\ nInInterests = 0 /\ nUnsatisfied = 0
  /\ out = {}

Next ==
  \/ \E f \in Faces, i \in Interests : processIncomingInterest(i, f)
  \/ \E f \in Faces, d \in DataPackets : processIncomingData(d, f)
  \/ \E f \in Faces : \E t \in {u \in Tokens : issued[u][f] # None} :
       processIncomingNack(issued[t][f], f)
  \/ Update
  \/ RemoveExpiredEntries
  \/ Tick
  \/ \E c \in CsConfigs : ConfigureCs(c)
  \/ \E f \in Faces : CloseFace(f)

Spec == Init /\ [][Next]_vars
-----------------------------------------------------------------------------
(***************************************************************************)
(* Correctness.                                                            *)
(***************************************************************************)
\* Every variable holds a value of the type the program declares for it.
TypeOK ==
  /\ pit \in [Keys -> PitEntry \cup {None}]
  /\ pitTokens \in [0 .. PitTokenSlots - 1 -> Keys \cup {None}]
  /\ nPitToken \in 0 .. MaxInterests
  /\ issued \in [Tokens -> [Faces -> Keys \cup {None}]]
  /\ cs \in [Names -> Nat \cup {NotCached}]
  /\ lru \in Seq(Names)
  /\ csConf \in CsConfigs
  /\ dnl \in [Names \X Nonces -> Nat \cup {NotListed}]
  /\ faces \subseteq Faces
  /\ nInInterests \in 0 .. MaxInterests
  /\ nUnsatisfied \in Nat
  /\ out \subseteq Packet

\* The token lookup table never points to an entry that RemoveInterest has
\* returned to the pool, nor to one whose token belongs in another slot, and no
\* two entries have the same token.
TokenTableSound ==
  /\ \A s \in DOMAIN pitTokens :
       pitTokens[s] # None => /\ pit[pitTokens[s]] # None
                              /\ Slot(pit[pitTokens[s]].token) = s
  /\ \A j, k \in Keys : pit[j] # None /\ pit[k] # None /\ pit[j].token = pit[k].token => j = k

\* A token that comes back from upstream belongs to the entry that now has it,
\* or to none: tokens are never given out twice, so an entry created later for
\* another name cannot be taken for the one the token was sent for.
TokensTraceable ==
  /\ nPitToken <= nInInterests
  /\ \A t \in Tokens, f \in Faces : issued[t][f] # None => t <= nPitToken
  /\ \A k \in Live : /\ pit[k].token <= nPitToken
                     /\ \A f \in Faces : issued[pit[k].token][f] \in {None, k}

\* Data goes only to a face with a pending Interest that the Data answers, or
\* that was just received and is answered from the Content Store, and the
\* in-record is used up. The token lookup of processIncomingData does not
\* compare names: this says it never has to.
SolicitedDelivery ==
  \A p \in out' : p.type = "data" =>
     /\ Matches(p.key, p.name)
     /\ p.from # None => pit[p.key] # None /\ pit[p.key].in[p.face] # None
     /\ pit'[p.key] # None /\ pit'[p.key].in[p.face] = None

SolicitedDeliveryProp == [][SolicitedDelivery]_vars

\* The replacement queue lists exactly the cached names, each once, so that
\* EvictEntries can always reach every entry it has to evict.
LruMatchesStore == QueueListsStore(cs, lru)

\* The store, which is as long as its queue, never grows past its capacity: only
\* a capacity that management has since lowered can be exceeded, and then the
\* store does not grow.
StoreGrowthBounded ==
  Len(lru') > Len(lru) => Len(lru') <= csConf.capacity

StoreGrowthBoundedProp == [][StoreGrowthBounded]_vars

\* The only entry that Data with its exact name can answer.
Sole(k) == ~k.cbp /\ \A j \in Live : Matches(j, k.name) => j = k

\* When an entry ends, a late copy of its Interest is recognised: the nonces it was
\* last sent out with are dead. This holds for every entry that finalizeInterest
\* removes, and for one that Data answers if it has an exact name and no other
\* entry matches: Data records the nonces under its own name, and only those of
\* the first entry that it answers.
EndedNonceIsDead ==
  \A k \in Keys : \A g \in Faces :
     /\ pit[k] # None /\ pit[k].out[g] # None
     /\ pit'[k] = None \/ (pit'[k].out[g] = None /\ Sole(k))
     => Find(dnl', k.name, pit[k].out[g].nonce)

EndedNonceIsDeadProp == [][EndedNonceIsDead]_vars

\* Once Interests stop arriving the PIT and the Dead Nonce List drain: no entry
\* is left out of the expiry queue and no nonce out of the sweep.
TablesDrain == <>[](Live = {} /\ \A p \in Names \X Nonces : dnl[p] = NotListed)
=============================================================================
