------------------------- MODULE MCForwardingTables -------------------------
(***************************************************************************)
(* Four kinds of traffic, one for a behaviour: what tells tokens apart,    *)
(* what the Content Store tells apart (on one next hop), what the scope    *)
(* checks tell apart, and what the nonces and lifetimes of one exact name  *)
(* tell apart (with time that passes for ever).                            *)
(***************************************************************************)
EXTENDS MCForwardingThread

VARIABLE traffic     \* which of the traffics below

MCAllNames == MCNames3 \cup MCScopeNames
MCStrategies == [n \in Names |-> IF n \in MCScopeNames THEN "multicast" ELSE "best-route"]
MCUpInterests == {[i EXCEPT !.nexthop = up] : i \in MCCsInterests}
MCAllInterests == MCExact \cup MCTokenInterests \cup MCUpInterests \cup MCScopeInterests
MCAllData == MCDataA \cup MCDataOfEither \cup MCCsData \cup MCScopeData
MCAllConfigs == MCNoCs \cup MCOneCs \cup MCCsConfigs

Traffics ==
  <<[interests |-> MCTokenInterests, data |-> MCDataOfEither, faces |-> Faces, configs |-> MCNoCs,
     closing |-> {con, up}, most |-> 3],
    [interests |-> MCUpInterests, data |-> MCCsData, faces |-> {con, up},
     configs |-> MCCsConfigs, closing |-> {}, most |-> 2],
    [interests |-> MCScopeInterests, data |-> MCScopeData, faces |-> Faces, configs |-> MCNoCs,
     closing |-> Faces, most |-> 2],
    [interests |-> MCExact, data |-> MCDataA, faces |-> Faces, configs |-> MCOneCs,
     closing |-> {con, up}, most |-> 3]>>

T == Traffics[traffic]

MCInit == Init /\ traffic \in DOMAIN Traffics /\ csConf \in T.configs

MCNext ==
  /\ UNCHANGED traffic
  /\ \/ /\ nInInterests < T.most
        /\ \E f \in T.faces, i \in T.interests : processIncomingInterest(i, f)
     \/ \E f \in T.faces, d \in T.data : processIncomingData(d, f)
     \/ \E f \in Faces : \E t \in {u \in Tokens : issued[u][f] # None} :
          processIncomingNack(issued[t][f], f)
     \/ Update
     \/ RemoveExpiredEntries
     \/ Tick
     \/ \E c \in T.configs : ConfigureCs(c)
     \/ \E f \in T.closing : CloseFace(f)

\* The thread keeps taking its tickers' events, and time passes.
Timed == traffic = 4

MCSpec ==
  /\ MCInit /\ [][MCNext]_<<vars, traffic>>
  /\ WF_vars(Timed /\ Update) /\ WF_vars(Timed /\ Tick) /\ WF_vars(Timed /\ RemoveExpiredEntries)

\* TablesDrain, where time passes: no path through Interests, Data and Nacks leaves
\* a PIT entry out of the expiry queue or a nonce out of the sweep.
TimedTablesDrain == Timed => TablesDrain
=============================================================================
