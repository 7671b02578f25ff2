----------------------------- MODULE SvSyncProofs -----------------------------
(***************************************************************************)
(* What holds of a sync group for any nodes, boot times and bounds.        *)
(***************************************************************************)
EXTENDS SvSync, TLAPS

\* Zenon first: preparing a leaf for it takes far less than for the SMT solver.
USE ZenonT(5), SMTT(30), ZenonT(60), SMTT(60)

\* No number is higher than the publications so far.
Upto == [Keys -> 0..pubs]

Types ==
  /\ mortal \subseteq Nodes
  /\ pubs \in 0..MaxPubs /\ restarts \in Nat
  /\ boot \in [Nodes -> Nat] /\ next \in [Nodes -> 0..pubs]
  /\ sv \in [Nodes -> Upto] /\ merge \in [Nodes -> Upto]
  /\ suppress \in [Nodes -> BOOLEAN] /\ sent \subseteq Upto
  /\ touched \in [Nodes -> SUBSET Nodes]
  /\ wires \in [Passive -> [Keys -> Upto]]
  /\ stored \in [Nodes -> SUBSET Upto]

\* A vector that knows nothing of boot times to come, and of no publisher more
\* than the publisher itself (unless it has forgotten some in a restart).
Lags(v) ==
  \A n \in Active, b \in Nat : <<n, b>> \in Keys =>
    /\ b > boot[n] => v[<<n, b>>] = 0
    /\ b = boot[n] /\ n \notin stale => v[<<n, b>>] <= sv[n][<<n, b>>]

\* All vectors, wherever they are, are of this kind.
NoneAhead ==
  /\ \A v \in sent : Lags(v)
  /\ \A m \in Nodes : Lags(sv[m])
  /\ \A m \in Nodes : \A v \in stored[m] : Lags(v)
  /\ \A m \in Passive, k \in Keys : Lags(wires[m][k])

OwnKeys == \A n \in Active : next[n] # 0 => Own(n) \in Keys

\* The inductive invariant.  That nobody else moves a node's own entry is true
\* because no vector around is ahead of it.
IInv == Types /\ NoneAhead /\ OwnKeys /\ NumberedAsRead /\ PassiveKeepsAll

StepOK == IInv' /\ SilenceIsCovered

-----------------------------------------------------------------------------
\* The initial states.
LEMMA Initially == Init => IInv
<1> SUFFICES ASSUME Init PROVE IInv
  OBVIOUS
<1>1. Types
  BY SvsAssumption DEF Init, Types, Upto, Zero
<1>2. NoneAhead
  BY SvsAssumption DEF Init, NoneAhead, Lags, Zero, Active
<1>3. OwnKeys /\ NumberedAsRead
  BY DEF Init, OwnKeys, NumberedAsRead, Active
<1>4. PassiveKeepsAll
  BY SvsAssumption DEF Init, PassiveKeepsAll, Zero
<1> QED BY <1>1, <1>2, <1>3, <1>4 DEF IInv

\* The invariant gives the checked type invariant.
LEMMA TypesGiveTypeOK == Types => TypeOK
<1> SUFFICES ASSUME Types PROVE TypeOK
  OBVIOUS
<1>1. Upto \subseteq Vectors
  BY SvsAssumption DEF Types, Upto, Vectors
<1> QED BY <1>1, SvsAssumption DEF Types, TypeOK

\* A vector stays behind when the boot times stay and no own entry goes back.
LEMMA LagsKept ==
  ASSUME Types, Types', boot' = boot, stale \subseteq stale',
         \A n \in Active : n \notin stale' /\ Own(n) \in Keys => sv[n][Own(n)] <= sv'[n][Own(n)],
         NEW v \in [Keys -> Nat], Lags(v)
  PROVE  Lags(v)'
<1> SUFFICES ASSUME NEW n \in Active, NEW b \in Nat, <<n, b>> \in Keys
             PROVE  /\ b > boot[n] => v[<<n, b>>] = 0
                    /\ b = boot[n] /\ n \notin stale' => v[<<n, b>>] <= sv'[n][<<n, b>>]
  BY DEF Lags
<1>1. b > boot[n] => v[<<n, b>>] = 0
  BY DEF Lags
<1>2. ASSUME b = boot[n], n \notin stale' PROVE v[<<n, b>>] <= sv'[n][<<n, b>>]
  <2>1. v[<<n, b>>] <= sv[n][<<n, b>>] /\ sv[n][<<n, b>>] <= sv'[n][<<n, b>>]
    BY <1>2 DEF Lags, Own
  <2>2. n \in Nodes /\ sv[n] \in Upto /\ sv'[n] \in Upto'
    BY DEF Types, Active
  <2>3. v[<<n, b>>] \in Nat /\ sv[n][<<n, b>>] \in Nat /\ sv'[n][<<n, b>>] \in Nat
    BY <2>2 DEF Types, Upto
  <2> QED BY <2>1, <2>3
<1> QED BY <1>1, <1>2


\* What is left alone stays behind.
LEMMA VectorsKept ==
  ASSUME IInv, Types', boot' = boot, stale \subseteq stale',
         \A n \in Active : n \notin stale' /\ Own(n) \in Keys => sv[n][Own(n)] <= sv'[n][Own(n)]
  PROVE  /\ \A v \in sent : Lags(v)'
         /\ \A m \in Nodes : \A v \in stored[m] : Lags(v)'
         /\ \A m \in Nodes, v \in [Keys -> Nat] : v = sv[m] => Lags(v)'
         /\ \A m \in Passive, k \in Keys, v \in [Keys -> Nat] : v = wires[m][k] => Lags(v)'
<1>1. Upto \subseteq [Keys -> Nat]
  BY DEF IInv, Types, Upto
<1>2. ASSUME NEW v \in [Keys -> Nat], Lags(v) PROVE Lags(v)'
  BY <1>2, LagsKept DEF IInv
<1>3. \A v \in sent : Lags(v)'
  BY <1>1, <1>2 DEF IInv, Types, NoneAhead
<1>4. \A m \in Nodes : \A v \in stored[m] : Lags(v)'
  BY <1>1, <1>2 DEF IInv, Types, NoneAhead
<1>5. \A m \in Nodes, v \in [Keys -> Nat] : v = sv[m] => Lags(v)'
  BY <1>2 DEF IInv, NoneAhead
<1>6. \A m \in Passive, k \in Keys, v \in [Keys -> Nat] : v = wires[m][k] => Lags(v)'
  BY <1>2 DEF IInv, NoneAhead
<1> QED BY <1>3, <1>4, <1>5, <1>6

-----------------------------------------------------------------------------
(***************************************************************************)
(* One lemma per action.                                                   *)
(***************************************************************************)

\* GetSeqNo reads the own number.
LEMMA GetSeqNoStep == ASSUME IInv, NEW n \in Active, GetSeqNo(n) PROVE StepOK
<1>1. /\ UNCHANGED <<mortal, boot, sv, suppress, merge, touched, sent, wires, stored, stale, restarts>>
      /\ pubs' = pubs + 1 /\ pubs < MaxPubs /\ Own(n) \in Keys
      /\ next' = [next EXCEPT ![n] = sv[n][Own(n)] + 1]
  BY DEF GetSeqNo
<1>2. pubs \in Nat /\ pubs' \in 0..MaxPubs /\ Upto \subseteq Upto' /\ n \in Nodes
  BY <1>1, SvsAssumption DEF IInv, Types, Upto, Active
<1>3. sv[n][Own(n)] \in 0..pubs
  BY <1>1, <1>2 DEF IInv, Types, Upto
<1>4. Types'
  <2>1. next' \in [Nodes -> 0..pubs']
    BY <1>1, <1>2, <1>3 DEF IInv, Types
  <2>2. wires \in [Passive -> [Keys -> Upto']] /\ stored \in [Nodes -> SUBSET (Upto')]
    BY <1>2 DEF IInv, Types
  <2>3. sv \in [Nodes -> Upto'] /\ merge \in [Nodes -> Upto'] /\ sent \subseteq Upto'
    BY <1>2 DEF IInv, Types
  <2> QED BY <1>1, <1>2, <2>1, <2>2, <2>3 DEF IInv, Types
<1>5. NoneAhead'
  BY <1>1 DEF IInv, NoneAhead, Lags
<1>6. OwnKeys' /\ NumberedAsRead'
  BY <1>1, <1>2 DEF IInv, OwnKeys, NumberedAsRead, Own, Active, Types
<1>7. PassiveKeepsAll' /\ SilenceIsCovered
  BY <1>1 DEF IInv, PassiveKeepsAll, SilenceIsCovered
<1> QED BY <1>4, <1>5, <1>6, <1>7 DEF StepOK, IInv

\* IncrSeqNo raises the own number by one.
LEMMA IncrSeqNoStep == ASSUME IInv, NEW n \in Active, IncrSeqNo(n) PROVE StepOK
<1>1. /\ UNCHANGED <<mortal, boot, suppress, merge, touched, sent, wires, stored, stale, pubs, restarts>>
      /\ next[n] # 0 /\ next' = [next EXCEPT ![n] = 0]
      /\ \/ next[n] = sv[n][Own(n)] + 1 /\ sv' = [sv EXCEPT ![n][Own(n)] = @ + 1]
         \/ sv' = sv
  BY DEF IncrSeqNo
<1>2. n \in Nodes /\ n \notin Passive /\ Own(n) \in Keys /\ pubs \in Nat
  BY <1>1, SvsAssumption DEF IInv, OwnKeys, Active, Types
<1>3. sv[n][Own(n)] \in Nat /\ next[n] \in 0..pubs
  BY <1>2 DEF IInv, Types, Upto
<1>4. sv' \in [Nodes -> Upto]
  <2>1. CASE sv' = sv
    BY <2>1 DEF IInv, Types
  <2>2. CASE next[n] = sv[n][Own(n)] + 1 /\ sv' = [sv EXCEPT ![n][Own(n)] = @ + 1]
    <3>1. sv[n] \in Upto /\ sv[n][Own(n)] + 1 \in 0..pubs
      BY <1>2, <1>3, <2>2 DEF IInv, Types
    <3>2. [sv[n] EXCEPT ![Own(n)] = @ + 1] \in Upto
      BY <1>2, <3>1 DEF Upto
    <3> QED BY <1>2, <2>2, <3>2 DEF IInv, Types
  <2> QED BY <1>1, <2>1, <2>2
<1>5. Types'
  <2>1. Upto' = Upto
    BY <1>1 DEF Upto
  <2>2. next' \in [Nodes -> 0..pubs]
    BY <1>1, <1>2 DEF IInv, Types
  <2> QED BY <1>1, <1>4, <2>1, <2>2 DEF IInv, Types
<1>6. \A m \in Nodes, k \in Keys : k # Own(n) \/ m # n => sv'[m][k] = sv[m][k]
  BY <1>1, <1>2 DEF IInv, Types, Upto
<1>7. sv[n][Own(n)] <= sv'[n][Own(n)]
  BY <1>1, <1>2, <1>3 DEF IInv, Types, Upto
<1>8. \A m \in Nodes, k \in Keys : sv[m][k] <= sv'[m][k]
  BY <1>6, <1>7 DEF IInv, Types, Upto
<1>9. NoneAhead'
  <2>1. /\ \A v \in sent : Lags(v)'
        /\ \A m \in Nodes : \A v \in stored[m] : Lags(v)'
        /\ \A m \in Nodes, v \in [Keys -> Nat] : v = sv[m] => Lags(v)'
        /\ \A m \in Passive, k \in Keys, v \in [Keys -> Nat] : v = wires[m][k] => Lags(v)'
    <3>1. \A m \in Active : m \notin stale' /\ Own(m) \in Keys => sv[m][Own(m)] <= sv'[m][Own(m)]
      BY <1>8 DEF Active
    <3> QED BY <1>1, <1>5, <3>1, VectorsKept
  <2>2. \A m \in Passive, k \in Keys : Lags(wires[m][k])'
    <3>1. \A m \in Passive, k \in Keys : wires[m][k] \in [Keys -> Nat] /\ wires' = wires
      BY <1>1 DEF IInv, Types, Upto
    <3> QED BY <2>1, <3>1
  <2>3. \A m \in Nodes : Lags(sv[m])'
    <3> SUFFICES ASSUME NEW m \in Nodes PROVE Lags(sv[m])'
      OBVIOUS
    <3>1. sv[m] \in [Keys -> Nat]
      BY DEF IInv, Types, Upto
    <3>2. PICK v \in [Keys -> Nat] : v = sv[m] /\ Lags(v)'
      BY <2>1, <3>1
    <3>3. ASSUME NEW j \in Active, NEW b \in Nat, <<j, b>> \in Keys
          PROVE /\ b > boot'[j] => sv'[m][<<j, b>>] = 0
                /\ b = boot'[j] /\ j \notin stale' => sv'[m][<<j, b>>] <= sv'[j][<<j, b>>]
      <4>1. CASE m = n /\ <<j, b>> = Own(n)
        <5>1. j = n /\ b = boot[n] /\ boot' = boot
          BY <1>1, <4>1 DEF Own
        <5>2. sv'[n][<<j, b>>] \in Nat /\ ~(b > boot[j])
          BY <1>2, <1>4, <3>3, <5>1 DEF Upto
        <5> QED BY <4>1, <5>1, <5>2
      <4>2. CASE ~(m = n /\ <<j, b>> = Own(n))
        BY <1>6, <3>2, <3>3, <4>2 DEF Lags
      <4> QED BY <4>1, <4>2
    <3> QED BY <3>3 DEF Lags
  <2> QED BY <1>1, <2>1, <2>2, <2>3 DEF NoneAhead
<1>10. OwnKeys' /\ NumberedAsRead'
  <2>1. OwnKeys'
    BY <1>1, <1>2 DEF IInv, OwnKeys, Own, Active, Types
  <2>2. ASSUME NEW m \in Active, m \notin stale', next'[m] # 0
        PROVE  next'[m] = sv'[m][Own(m)'] + 1
    <3>1. m \in Nodes /\ m # n /\ next'[m] = next[m] /\ Own(m)' = Own(m)
      BY <1>1, <1>2, <2>2 DEF IInv, Types, Active, Own
    <3>2. Own(m) \in Keys /\ next[m] = sv[m][Own(m)] + 1
      BY <1>1, <2>2, <3>1 DEF IInv, OwnKeys, NumberedAsRead
    <3> QED BY <1>6, <3>1, <3>2
  <2> QED BY <2>1, <2>2 DEF NumberedAsRead
<1>11. PassiveKeepsAll' /\ SilenceIsCovered
  <2>1. PassiveKeepsAll'
    BY <1>1, <1>2, <1>6, SvsAssumption DEF IInv, PassiveKeepsAll
  <2> QED BY <1>1, <2>1 DEF SilenceIsCovered
<1> QED BY <1>5, <1>9, <1>10, <1>11 DEF StepOK, IInv

\* timerExpired ends the suppression state when the vectors heard cover what is known.
LEMMA TimerExpiredStep == ASSUME IInv, NEW n \in Nodes, timerExpired(n) PROVE StepOK
<1>1. /\ UNCHANGED <<mortal, boot, sv, next, touched, sent, wires, stored, stale, pubs, restarts>>
      /\ Covers(merge[n], sv[n]) /\ suppress' = [suppress EXCEPT ![n] = FALSE]
      /\ merge' = [merge EXCEPT ![n] = Zero]
  BY DEF timerExpired
<1>2. Types'
  <2>1. Zero \in Upto /\ Upto' = Upto
    BY <1>1 DEF IInv, Types, Upto, Zero
  <2> QED BY <1>1, <2>1 DEF IInv, Types
<1>3. NoneAhead'
  BY <1>1 DEF IInv, NoneAhead, Lags
<1>4. OwnKeys' /\ NumberedAsRead' /\ PassiveKeepsAll'
  BY <1>1 DEF IInv, OwnKeys, NumberedAsRead, Own, PassiveKeepsAll
<1>5. SilenceIsCovered
  BY <1>1 DEF IInv, Types, SilenceIsCovered
<1> QED BY <1>2, <1>3, <1>4, <1>5 DEF StepOK, IInv

\* sendSyncInterest sends vectors that the node has.
LEMMA SendStep == ASSUME IInv, NEW n \in Nodes, sendSyncInterest(n) PROVE StepOK
<1>1. /\ UNCHANGED <<mortal, boot, sv, next, touched, wires, stored, stale, pubs, restarts>>
      /\ sent' = sent \cup (IF n \in Passive THEN Kept(n) ELSE {sv[n]})
      /\ suppress' = IF n \in Passive THEN suppress ELSE [suppress EXCEPT ![n] = FALSE]
      /\ merge' = IF n \in Passive THEN merge ELSE [merge EXCEPT ![n] = Zero]
  BY DEF sendSyncInterest
<1>2. \A v \in sent' : v \in Upto /\ Lags(v)
  BY <1>1 DEF IInv, Types, NoneAhead, Kept
<1>3. Types'
  <2>1. Zero \in Upto /\ Upto' = Upto
    BY <1>1 DEF IInv, Types, Upto, Zero
  <2> QED BY <1>1, <1>2, <2>1 DEF IInv, Types
<1>4. NoneAhead'
  BY <1>1, <1>2 DEF IInv, NoneAhead, Lags
<1>5. OwnKeys' /\ NumberedAsRead' /\ PassiveKeepsAll'
  BY <1>1 DEF IInv, OwnKeys, NumberedAsRead, Own, PassiveKeepsAll
<1>6. SilenceIsCovered
  BY <1>1 DEF IInv, Types, SilenceIsCovered
<1> QED BY <1>3, <1>4, <1>5, <1>6 DEF StepOK, IInv

\* Save stores vectors that the node has.
LEMMA SaveStep == ASSUME IInv, NEW n \in Nodes, Save(n) PROVE StepOK
<1>1. /\ UNCHANGED <<mortal, boot, sv, next, suppress, merge, touched, sent, wires, stale, pubs, restarts>>
      /\ stored' = [stored EXCEPT ![n] = IF n \in Passive THEN Kept(n) ELSE {sv[n]}]
  BY DEF Save
<1>2. \A v \in IF n \in Passive THEN Kept(n) ELSE {sv[n]} : v \in Upto /\ Lags(v)
  BY DEF IInv, Types, NoneAhead, Kept
<1>3. Types'
  <2>1. stored' \in [Nodes -> SUBSET Upto] /\ Upto' = Upto
    BY <1>1, <1>2 DEF IInv, Types, Upto
  <2> QED BY <1>1, <2>1 DEF IInv, Types
<1>4. NoneAhead'
  <2>1. \A m \in Nodes : \A v \in stored'[m] : Lags(v)
    BY <1>1, <1>2 DEF IInv, Types, NoneAhead
  <2> QED BY <1>1, <2>1 DEF IInv, NoneAhead, Lags
<1>5. OwnKeys' /\ NumberedAsRead' /\ PassiveKeepsAll'
  BY <1>1 DEF IInv, OwnKeys, NumberedAsRead, Own, PassiveKeepsAll
<1>6. SilenceIsCovered
  BY <1>1 DEF SilenceIsCovered
<1> QED BY <1>3, <1>4, <1>5, <1>6 DEF StepOK, IInv

\* onReceiveStateVector.  The node's own entry stays: no vector is ahead of it.
LEMMA ReceiveStep == ASSUME IInv, NEW n \in Nodes, NEW v \in sent, Receive(n, v) PROVE StepOK
<1> DEFINE merged == [k \in Keys |-> IF suppress[n] /\ k \in Applied(n, v) THEN Join(merge[n], v)[k]
                                     ELSE merge[n][k]]
           after == [k \in Keys |-> IF k \in Newer(n, v) THEN v[k] ELSE sv[n][k]]
<1>1. /\ UNCHANGED <<mortal, boot, next, sent, stored, stale, pubs, restarts>>
      /\ sv' = [sv EXCEPT ![n] = after]
      /\ touched' = [touched EXCEPT ![n] = @ \cup {k[1] : k \in Newer(n, v)}]
      /\ wires' = IF n \in Passive THEN [wires EXCEPT ![n] = Keep(n, v)] ELSE wires
  BY DEF Receive, IInv, Types
<1>2. merge' = [merge EXCEPT ![n] = merged] \/ merge' = [merge EXCEPT ![n] = Zero]
  BY DEF Receive
<1>3. \/ suppress' = suppress
      \/ suppress' = [suppress EXCEPT ![n] = TRUE]
      \/ /\ suppress' = [suppress EXCEPT ![n] = FALSE] /\ ~IsOutdated(n, v)
         /\ \A k \in Keys : v[k] > 0 => ~FarFuture(n, k)
  BY DEF Receive
<1>4. v \in Upto /\ sv[n] \in Upto /\ merge[n] \in Upto /\ pubs \in Nat
  BY DEF IInv, Types
<1>5. after \in Upto /\ merged \in Upto /\ Zero \in Upto
  <2>1. after \in Upto
    BY <1>4 DEF Upto
  <2>2. merged \in Upto
    BY <1>4 DEF Upto, Join
  <2>3. Zero \in Upto
    BY <1>4 DEF Upto, Zero
  <2> QED BY <2>1, <2>2, <2>3
<1> HIDE DEF merged
<1>6. Types'
  <2>1. sv' \in [Nodes -> Upto] /\ merge' \in [Nodes -> Upto]
    BY <1>1, <1>2, <1>5 DEF IInv, Types
  <2>2. suppress' \in [Nodes -> BOOLEAN]
    BY <1>3 DEF IInv, Types
  <2>3. touched' \in [Nodes -> SUBSET Nodes]
    <3>1. \A k \in Newer(n, v) : k[1] \in Nodes
      BY SvsAssumption DEF Newer, Applied
    <3> QED BY <1>1, <3>1 DEF IInv, Types
  <2>4. wires' \in [Passive -> [Keys -> Upto]]
    <3>1. n \in Passive => Keep(n, v) \in [Keys -> Upto]
      BY <1>4 DEF Keep, IInv, Types
    <3> QED BY <1>1, <3>1 DEF IInv, Types
  <2>5. Upto' = Upto
    BY <1>1 DEF Upto
  <2> QED BY <1>1, <2>1, <2>2, <2>3, <2>4, <2>5 DEF IInv, Types
<1>7. \A k \in Keys : sv[n][k] <= after[k] /\ after[k] \in {v[k], sv[n][k]}
  BY <1>4 DEF Newer, Upto
<1>8. \A m \in Nodes, k \in Keys : sv[m][k] <= sv'[m][k]
  BY <1>1, <1>7 DEF IInv, Types, Upto
<1>9. NoneAhead'
  <2>1. /\ \A w \in sent : Lags(w)'
        /\ \A m \in Nodes : \A w \in stored[m] : Lags(w)'
        /\ \A m \in Nodes, w \in [Keys -> Nat] : w = sv[m] => Lags(w)'
        /\ \A m \in Passive, k \in Keys, w \in [Keys -> Nat] : w = wires[m][k] => Lags(w)'
    BY <1>1, <1>6, <1>8, VectorsKept DEF Active
  <2>2. \A w \in Upto : w \in [Keys -> Nat]
    BY <1>4 DEF Upto
  <2>3. \A m \in Nodes : sv[m] \in [Keys -> Nat]
    BY <2>2 DEF IInv, Types
  <2>4. \A m \in Passive, k \in Keys : wires[m][k] \in [Keys -> Nat]
    BY <2>2 DEF IInv, Types
  <2>5. ASSUME NEW m \in Nodes PROVE Lags(sv[m])'
    <3>1. CASE m # n
      <4>1. sv'[m] = sv[m]
        BY <1>1, <3>1 DEF IInv, Types
      <4>2. PICK w \in [Keys -> Nat] : w = sv[m]
        BY <2>3
      <4>3. Lags(w)'
        BY <2>1, <4>2
      <4> QED BY <4>1, <4>2, <4>3 DEF Lags
    <3>2. CASE m = n
      <4>1. sv'[m] = after
        BY <1>1, <3>2 DEF IInv, Types
      <4>2. PICK w \in [Keys -> Nat] : w = sv[n]
        BY <2>3
      <4>3. Lags(w)' /\ Lags(v)'
        BY <2>1, <4>2
      <4>4. \A k \in Keys : sv'[m][k] = v[k] \/ sv'[m][k] = w[k]
        BY <1>7, <4>1, <4>2
      <4> QED BY <4>3, <4>4 DEF Lags
    <3> QED BY <3>1, <3>2
  <2>6. ASSUME NEW m \in Passive, NEW k \in Keys PROVE Lags(wires[m][k])'
    <3>1. wires'[m][k] = v \/ wires'[m][k] = wires[m][k]
      BY <1>1 DEF Keep, IInv, Types
    <3>2. PICK w \in [Keys -> Nat] : w = wires[m][k]
      BY <2>4
    <3>3. Lags(w)' /\ Lags(v)'
      BY <2>1, <3>2
    <3> QED BY <3>1, <3>2, <3>3 DEF Lags
  <2> QED BY <1>1, <2>1, <2>5, <2>6 DEF NoneAhead
<1>10. OwnKeys'
  BY <1>1 DEF IInv, OwnKeys, Own
<1>11. NumberedAsRead'
  <2> SUFFICES ASSUME NEW m \in Active, m \notin stale, next[m] # 0
               PROVE  next[m] = sv'[m][Own(m)] + 1
    BY <1>1 DEF NumberedAsRead, Own
  <2>1. next[m] = sv[m][Own(m)] + 1 /\ Own(m) \in Keys /\ m \in Nodes
    BY DEF IInv, NumberedAsRead, OwnKeys, Active
  <2>2. sv'[m][Own(m)] = sv[m][Own(m)]
    <3>1. CASE m # n
      BY <1>1, <3>1 DEF IInv, Types
    <3>2. CASE m = n
      <4>1. boot[m] \in Nat /\ Own(m) = <<m, boot[m]>>
        BY <2>1 DEF IInv, Types, Own
      <4>2. v[Own(m)] <= sv[m][Own(m)]
        BY <2>1, <4>1 DEF IInv, NoneAhead, Lags
      <4>3. Own(m) \notin Newer(n, v)
        BY <1>4, <2>1, <3>2, <4>2 DEF Newer, Upto
      <4> QED BY <1>1, <2>1, <3>2, <4>3 DEF IInv, Types
    <3> QED BY <3>1, <3>2
  <2> QED BY <2>1, <2>2
<1>12. PassiveKeepsAll'
  <2> SUFFICES ASSUME NEW m \in Passive, NEW k \in Keys PROVE wires'[m][k][k] = sv'[m][k]
    BY DEF PassiveKeepsAll
  <2>1. wires[m][k][k] = sv[m][k] /\ m \in Nodes
    BY SvsAssumption DEF IInv, PassiveKeepsAll
  <2>2. CASE m # n
    BY <1>1, <2>1, <2>2 DEF IInv, Types
  <2>3. CASE m = n
    <3>1. sv'[m][k] = after[k] /\ wires'[m][k] = Keep(n, v)[k]
      BY <1>1, <2>1, <2>3 DEF IInv, Types
    <3>2. v[k] \in Nat /\ sv[n][k] \in Nat
      BY <1>4 DEF Upto
    <3> QED BY <2>1, <2>3, <3>1, <3>2 DEF Keep, Older, Newer
  <2> QED BY <2>2, <2>3
<1>13. SilenceIsCovered
  <2> SUFFICES ASSUME NEW m \in Nodes, suppress[m], ~suppress'[m]
               PROVE  \E w \in sent : Covers(w, sv'[m]) /\ sv'[m] = Join(sv[m], w)
    BY DEF SilenceIsCovered
  <2>1. /\ m = n /\ ~IsOutdated(n, v)
        /\ \A k \in Keys : v[k] > 0 => ~FarFuture(n, k)
    BY <1>3 DEF IInv, Types
  <2>2. \A k \in Keys : v[k] \in Nat /\ sv[n][k] \in Nat
    BY <1>4 DEF Upto
  <2>3. Applied(n, v) = {k \in Keys : v[k] > 0}
    BY <2>1 DEF Applied
  <2>4. \A k \in Keys : sv[n][k] <= v[k]
    BY <2>1, <2>2, <2>3 DEF IsOutdated, Older
  <2>5. sv'[m] = after
    BY <1>1, <2>1 DEF IInv, Types
  <2>6. \A k \in Keys : after[k] = v[k]
    BY <2>2, <2>3, <2>4 DEF Newer
  <2>7. Covers(v, sv'[m])
    BY <2>2, <2>5, <2>6 DEF Covers
  <2>8. after = Join(sv[m], v)
    BY <2>1, <2>2, <2>4, <2>6 DEF Join
  <2> QED BY <2>5, <2>7, <2>8
<1> QED BY <1>6, <1>9, <1>10, <1>11, <1>12, <1>13 DEF StepOK, IInv

\* A restart: under a new boot time no vector has an entry of it yet; from a
\* saved state the node's own entry goes back only when this is marked stale.
LEMMA RestartStep ==
  ASSUME IInv, NEW n \in mortal, NEW restore \in BOOLEAN, Restart(n, restore) PROVE StepOK
<1>1. PICK v \in IF restore /\ n \in Active THEN stored[n] ELSE {Zero} :
        /\ sv' = [sv EXCEPT ![n] = v]
        /\ stale' = IF restore /\ n \in Active /\ v[Own(n)] < sv[n][Own(n)]
                    THEN stale \cup {n} ELSE stale
  BY DEF Restart
<1>2. /\ n \in Nodes /\ restarts' = restarts + 1
      /\ boot' = [boot EXCEPT ![n] = IF restore THEN boot[n] ELSE boot[n] + 1]
      /\ next' = [next EXCEPT ![n] = 0]
      /\ suppress' = [suppress EXCEPT ![n] = FALSE] /\ merge' = [merge EXCEPT ![n] = Zero]
      /\ touched' = [touched EXCEPT ![n] = {}]
      /\ wires' = IF n \in Passive THEN [wires EXCEPT ![n] = [k \in Keys |-> Zero]] ELSE wires
      /\ UNCHANGED <<mortal, sent, stored, pubs>>
  BY DEF Restart, BootTime, IInv, Types
<1>3. Zero \in Upto /\ v \in Upto /\ sv[n] \in Upto /\ boot[n] \in Nat
  <2>1. Zero \in Upto
    BY DEF IInv, Types, Upto, Zero
  <2> QED BY <1>1, <1>2, <2>1 DEF IInv, Types
<1>4. \A m \in Nodes \ {n} : boot'[m] = boot[m] /\ sv'[m] = sv[m] /\ next'[m] = next[m]
  BY <1>1, <1>2 DEF IInv, Types
<1>5. /\ sv'[n] = v /\ next'[n] = 0
      /\ boot'[n] = IF restore THEN boot[n] ELSE boot[n] + 1
  BY <1>1, <1>2 DEF IInv, Types
<1>6. Types'
  <2>1. Upto' = Upto
    BY <1>2 DEF Upto
  <2>2. sv' \in [Nodes -> Upto] /\ merge' \in [Nodes -> Upto] /\ boot' \in [Nodes -> Nat]
    BY <1>1, <1>2, <1>3 DEF IInv, Types
  <2>3. next' \in [Nodes -> 0..pubs]
    BY <1>2, SvsAssumption DEF IInv, Types
  <2>4. suppress' \in [Nodes -> BOOLEAN] /\ touched' \in [Nodes -> SUBSET Nodes]
    BY <1>2 DEF IInv, Types
  <2>5. wires' \in [Passive -> [Keys -> Upto]]
    BY <1>2, <1>3 DEF IInv, Types
  <2>6. restarts' \in Nat
    BY <1>2 DEF IInv, Types
  <2> QED BY <1>2, <2>1, <2>2, <2>3, <2>4, <2>5, <2>6 DEF IInv, Types
<1>7. ASSUME NEW w \in [Keys -> Nat], Lags(w) PROVE Lags(w)'
  <2> SUFFICES ASSUME NEW j \in Active, NEW b \in Nat, <<j, b>> \in Keys
               PROVE  /\ b > boot'[j] => w[<<j, b>>] = 0
                      /\ b = boot'[j] /\ j \notin stale' => w[<<j, b>>] <= sv'[j][<<j, b>>]
    BY DEF Lags
  <2>1. /\ b > boot[j] => w[<<j, b>>] = 0
        /\ b = boot[j] /\ j \notin stale => w[<<j, b>>] <= sv[j][<<j, b>>]
    BY <1>7 DEF Lags
  <2>2. j \in Nodes /\ stale \subseteq stale'
    BY <1>1 DEF Active
  <2>3. CASE j # n
    BY <1>4, <2>1, <2>2, <2>3
  <2>4. CASE j = n /\ restore
    <3>1. boot'[j] = boot[j]
      BY <1>5, <2>4
    <3>2. ASSUME b = boot[j], j \notin stale' PROVE w[<<j, b>>] <= v[<<j, b>>]
      <4>1. w[<<j, b>>] <= sv[n][<<j, b>>] /\ <<j, b>> = Own(n)
        BY <2>1, <2>2, <2>4, <3>2 DEF Own
      <4>2. w[<<j, b>>] \in Nat /\ sv[n][<<j, b>>] \in Nat /\ v[<<j, b>>] \in Nat
        BY <1>3 DEF Upto
      <4>3. ~(v[Own(n)] < sv[n][Own(n)])
        BY <1>1, <2>4, <3>2
      <4> QED BY <4>1, <4>2, <4>3
    <3> QED BY <1>5, <2>1, <2>4, <3>1, <3>2
  <2>5. CASE j = n /\ ~restore
    <3>1. boot'[j] = boot[j] + 1
      BY <1>5, <2>5
    <3>2. b > boot'[j] \/ b = boot'[j] => w[<<j, b>>] = 0
      BY <1>3, <2>1, <2>5, <3>1
    <3>3. sv'[j][<<j, b>>] \in Nat
      BY <1>3, <1>5, <2>5 DEF Upto
    <3> QED BY <3>2, <3>3
  <2> QED BY <2>3, <2>4, <2>5
<1>8. \A w \in Upto : w \in [Keys -> Nat]
  BY DEF Upto, IInv, Types
<1>9. Lags(Zero) /\ Lags(v)
  <2>1. Lags(Zero)
    <3>1. ASSUME NEW j \in Active, NEW b \in Nat, <<j, b>> \in Keys
          PROVE  Zero[<<j, b>>] = 0 /\ sv[j][<<j, b>>] \in Nat
      BY <3>1 DEF Zero, IInv, Types, Upto, Active
    <3> QED BY <3>1 DEF Lags
  <2> QED BY <1>1, <1>2, <2>1 DEF IInv, NoneAhead
<1>10. NoneAhead'
  <2>1. \A w \in sent : Lags(w)'
    BY <1>7, <1>8 DEF IInv, Types, NoneAhead
  <2>2. \A m \in Nodes : \A w \in stored[m] : Lags(w)'
    BY <1>7, <1>8 DEF IInv, Types, NoneAhead
  <2>3. ASSUME NEW m \in Nodes PROVE Lags(sv[m])'
    <3>1. PICK w \in [Keys -> Nat] : w = (IF m = n THEN v ELSE sv[m]) /\ Lags(w)
      BY <1>3, <1>8, <1>9 DEF IInv, Types, NoneAhead
    <3>2. Lags(w)' /\ sv'[m] = w
      BY <1>4, <1>5, <1>7, <3>1
    <3> QED BY <3>2 DEF Lags
  <2>4. ASSUME NEW m \in Passive, NEW k \in Keys PROVE Lags(wires[m][k])'
    <3>1. wires'[m][k] = Zero \/ wires'[m][k] = wires[m][k]
      BY <1>2 DEF IInv, Types
    <3>2. PICK w \in [Keys -> Nat] : w = wires'[m][k] /\ Lags(w)
      BY <1>3, <1>8, <1>9, <3>1 DEF IInv, Types, NoneAhead
    <3>3. Lags(w)'
      BY <1>7, <3>2
    <3> QED BY <3>2, <3>3 DEF Lags
  <2> QED BY <1>2, <2>1, <2>2, <2>3, <2>4 DEF NoneAhead
<1>11. OwnKeys' /\ NumberedAsRead'
  <2> SUFFICES ASSUME NEW m \in Active, next'[m] # 0
               PROVE  /\ Own(m)' \in Keys
                      /\ m \notin stale' => next'[m] = sv'[m][Own(m)'] + 1
    BY DEF OwnKeys, NumberedAsRead
  <2>1. m # n /\ m \in Nodes
    BY <1>5 DEF Active
  <2>2. Own(m)' = Own(m) /\ sv'[m] = sv[m] /\ next'[m] = next[m] /\ stale \subseteq stale'
    BY <1>1, <1>4, <2>1 DEF Own
  <2> QED BY <2>2 DEF IInv, OwnKeys, NumberedAsRead
<1>12. PassiveKeepsAll'
  <2> SUFFICES ASSUME NEW m \in Passive, NEW k \in Keys PROVE wires'[m][k][k] = sv'[m][k]
    BY DEF PassiveKeepsAll
  <2>1. wires[m][k][k] = sv[m][k] /\ m \in Nodes
    BY SvsAssumption DEF IInv, PassiveKeepsAll
  <2>2. CASE m # n
    BY <1>2, <1>4, <2>1, <2>2 DEF IInv, Types
  <2>3. CASE m = n
    <3>1. v = Zero
      BY <1>1, <2>3 DEF Active
    <3> QED BY <1>2, <1>5, <2>3, <3>1 DEF IInv, Types
  <2> QED BY <2>2, <2>3
<1>13. SilenceIsCovered
  BY <1>2 DEF SilenceIsCovered, IInv, Types
<1> QED BY <1>6, <1>10, <1>11, <1>12, <1>13 DEF StepOK, IInv

-----------------------------------------------------------------------------
\* Every step keeps the invariant, and silences nobody wrongly.
LEMMA Steps == ASSUME IInv, [Next]_vars PROVE StepOK
<1>1. CASE UNCHANGED vars
  <2>1. Types'
    BY <1>1 DEF vars, IInv, Types, Upto
  <2>2. NoneAhead'
    BY <1>1 DEF vars, IInv, NoneAhead, Lags
  <2>3. OwnKeys' /\ NumberedAsRead' /\ PassiveKeepsAll' /\ SilenceIsCovered
    BY <1>1 DEF vars, IInv, OwnKeys, NumberedAsRead, Own, PassiveKeepsAll, SilenceIsCovered
  <2> QED BY <2>1, <2>2, <2>3 DEF StepOK, IInv
<1>2. ASSUME NEW n \in Active, GetSeqNo(n) PROVE StepOK
  BY <1>2, GetSeqNoStep
<1>3. ASSUME NEW n \in Active, IncrSeqNo(n) PROVE StepOK
  BY <1>3, IncrSeqNoStep
<1>4. ASSUME NEW n \in Nodes, NEW v \in sent, Receive(n, v) PROVE StepOK
  BY <1>4, ReceiveStep
<1>5. ASSUME NEW n \in Nodes, timerExpired(n) PROVE StepOK
  BY <1>5, TimerExpiredStep
<1>6. ASSUME NEW n \in Nodes, sendSyncInterest(n) PROVE StepOK
  BY <1>6, SendStep
<1>7. ASSUME NEW n \in mortal, Save(n) PROVE StepOK
  BY <1>7, SaveStep DEF IInv, Types
<1>8. ASSUME NEW n \in mortal, NEW restore \in BOOLEAN, Restart(n, restore) PROVE StepOK
  BY <1>8, RestartStep
<1> QED BY <1>1, <1>2, <1>3, <1>4, <1>5, <1>6, <1>7, <1>8 DEF Next

\* IInv is an invariant.
THEOREM Invariance == Spec => []IInv
<1>1. IInv /\ [Next]_vars => IInv'
  BY Steps DEF StepOK
<1> QED BY Initially, <1>1, PTL DEF Spec

\* The type invariant: no sequence number passes the number of publications.
THEOREM TypesHold == Spec => []TypeOK
<1>1. IInv => TypeOK
  BY TypesGiveTypeOK DEF IInv
<1> QED BY Invariance, <1>1, PTL

\* An object gets the number it was produced under: produceObject never panics
\* in a process that did not restart from a state older than its publications.
THEOREM NumbersHold == Spec => []NumberedAsRead
<1>1. IInv => NumberedAsRead
  BY DEF IInv
<1> QED BY Invariance, <1>1, PTL

\* A passive node has kept, for every entry it knows, a signed vector with it.
THEOREM PassiveHolds == Spec => []PassiveKeepsAll
<1>1. IInv => PassiveKeepsAll
  BY DEF IInv
<1> QED BY Invariance, <1>1, PTL

\* No node leaves the suppression state in silence while it knows something
\* that the vectors it heard do not cover.
THEOREM SilenceHolds == Spec => SilenceIsCoveredProp
<1>1. IInv /\ [Next]_vars => [SilenceIsCovered]_vars
  BY Steps DEF StepOK
<1> QED BY Invariance, <1>1, PTL DEF Spec, SilenceIsCoveredProp
=============================================================================
