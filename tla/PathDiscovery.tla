---------------------------- MODULE PathDiscovery ----------------------------
(***************************************************************************)
(* The path-discovery (PD) half of the Multipath strategy                  *)
(* (fw/fw/multipath.go) at one node for one prefix. A node learns which of *)
(* its next hops lead to the producer: next hops are grouped into tiers of *)
(* equal cost and probed tier by tier; a NoRoute NACK, or a PD Interest    *)
(* that arrives from it, excludes a face; Data tells when an upstream has  *)
(* settled its tier and itself.                                            *)
(*                                                                         *)
(* All forwarding threads share the PathDiscoveryInfo of the prefix and    *)
(* hold its mutex throughout a handler, so each handler is one action.     *)
(* Helpers are functions from an info record to the next one, as the       *)
(* methods are on *PathDiscoveryInfo.                                      *)
(***************************************************************************)
EXTENDS Integers, Sequences, FiniteSets, Functions

CONSTANTS
  Faces,
  Fibs,            \* FIB entries of the prefix: functions from faces to costs
  Roles,           \* what the node's name may make it to the prefix (see below)
  ProbeIndices     \* bound: the probe indices the consumer gets to

\* "producer": named /pro... and the prefix is its own. "consumer": named
\* /con... and the PD Interests of its own application arrive, and those of
\* others. "router": neither, so that every PD Interest is irrelevant.
ASSUME PathDiscoveryAssumption ==
  /\ IsFiniteSet(Faces)
  /\ \A fib \in Fibs : DOMAIN fib \subseteq Faces /\ \A f \in DOMAIN fib : fib[f] \in Nat
  /\ Roles \subseteq {"producer", "consumer", "router"}
  /\ ProbeIndices \subseteq Nat

VARIABLES
  role,        \* the node's role, which its name fixes
  info,        \* the PathDiscoveryInfo
  fib,         \* the FIB entry now
  asked,       \* the upstream faces a PD Interest was sent to, which may answer
  tierSaid, nodeSaid,   \* history: the faces whose Data said "tier (node) converged"
  out          \* what the last step sent: PD Interests upstream, NACKs and Data down

vars == <<role, info, fib, asked, tierSaid, nodeSaid, out>>

NewInfo == [IsInitialized |-> FALSE, TierList |-> <<>>, CurrentTier |-> 1, ProbeIndex |-> 0,
            WaitList |-> <<>>, Probed |-> <<>>, RR |-> 1, ConvergedTier |-> {},
            ConvergedNode |-> {}, IsNodeConverged |-> FALSE, Valid |-> {},
            IsInvalidNode |-> FALSE, IsPdFrozen |-> FALSE, Frozen |-> {}, Recover |-> {},
            DtValid |-> {}]

TierFaces(tiers) == UNION {tiers[k] : k \in DOMAIN tiers}
-----------------------------------------------------------------------------
\* groupHopSnapshotsByCost: tier k has the faces of the k-th smallest cost.
Costs(hops) == {hops[f] : f \in DOMAIN hops}

Rank(hops, c) == Cardinality({d \in Costs(hops) : d <= c})

groupHopsByCost(hops) ==
  [k \in 1 .. Cardinality(Costs(hops)) |-> {f \in DOMAIN hops : Rank(hops, hops[f]) = k}]

\* The elements of s that are in S, in their order.
Keep(s, S) ==
  LET kept[n \in 0 .. Len(s)] ==
        IF n = 0 THEN <<>>
        ELSE IF s[n] \in S THEN Append(kept[n - 1], s[n]) ELSE kept[n - 1]
  IN kept[Len(s)]

removeFromProbed(s, f) ==
  LET j == CHOOSE k \in DOMAIN s : s[k] = f
  IN IF f \in Range(s) THEN [k \in 1 .. Len(s) - 1 |-> IF k < j THEN s[k] ELSE s[k + 1]] ELSE s

removeFromWaitList(tiers, S) == [k \in DOMAIN tiers |-> tiers[k] \ S]

\* Mutant: the face stays in the wait list.
ExcludeNotWaiting(i, f) == [i EXCEPT !.Valid = @ \ {f},
                                     !.ConvergedTier = @ \ {f},
                                     !.ConvergedNode = @ \ {f},
                                     !.Probed = removeFromProbed(@, f)]

\* "Exclude ingress face from valid/wait/converged/probed".
Exclude(i, f) == [i EXCEPT !.Valid = @ \ {f},
                           !.WaitList = removeFromWaitList(@, {f}),
                           !.ConvergedTier = @ \ {f},
                           !.ConvergedNode = @ \ {f},
                           !.Probed = removeFromProbed(@, f)]

\* Mutant: data transmission takes the faces of the old tier list.
localNodeConvergedOldTiers(i) ==
  [i EXCEPT !.ConvergedTier = {},
            !.IsNodeConverged = TRUE,
            !.TierList = Keep(i.WaitList, Range(i.WaitList) \ {{}}),
            !.DtValid = TierFaces(i.TierList)]

\* The tiers that are left become the tier list, and data transmission starts
\* with their faces. CurrentTier and WaitList stay as they are.
localNodeConverged(i) ==
  [i EXCEPT !.ConvergedTier = {},
            !.IsNodeConverged = TRUE,
            !.TierList = Keep(i.WaitList, Range(i.WaitList) \ {{}}),
            !.DtValid = TierFaces(i.WaitList)]

\* The elements of S in some order.
Listed(S) == CHOOSE s \in Bijection(1 .. Cardinality(S), S) : TRUE

\* The tier's faces are probed from now on, in the order of the FIB entry, which
\* is arbitrary. At the producer this ends path discovery.
ProbeTier(i, k) ==
  IF k > Len(i.WaitList) THEN i
  ELSE LET tier == i.WaitList[k]
           j == [i EXCEPT !.Probed = @ \o Listed(tier \ Range(@)),
                          !.ConvergedTier = @ \cup tier]
       IN IF ~i.IsNodeConverged /\ role = "producer" THEN localNodeConverged(j) ELSE j

ProbeNextTier(i) == ProbeTier([i EXCEPT !.CurrentTier = @ + 1], i.CurrentTier + 1)

\* TierGrouping and StartPathDiscovery. Tiers whose cost is at least twice that
\* of the first are not used; they stay in the tier list.
StartPathDiscovery(i, hops) ==
  LET tiers == groupHopsByCost(hops)
      cheap == {f \in DOMAIN hops : \/ Rank(hops, hops[f]) = 1
                                    \/ \A g \in DOMAIN hops : hops[f] < 2 * hops[g]}
      wait == [k \in DOMAIN tiers |-> tiers[k] \cap cheap]
  IN ProbeTier([i EXCEPT !.TierList = tiers, !.WaitList = wait, !.CurrentTier = 1,
                         !.Valid = cheap, !.ConvergedNode = cheap, !.RR = 1], 1)

\* refreshPathDiscoverySnapshot: faces that are gone are forgotten, the rest
\* regrouped by their costs now. New faces are not taken up.
refreshSnapshot(i, hops) ==
  IF DOMAIN hops = {} THEN i
  ELSE LET gone == i.Valid \ DOMAIN hops
           valid == i.Valid \cap DOMAIN hops
           tiers == groupHopsByCost(hops)
           filtered == [k \in DOMAIN tiers |-> tiers[k] \cap valid]
           probed == Keep(i.Probed, valid)
       IN [i EXCEPT !.Valid = valid,
                    !.ConvergedTier = @ \ gone, !.ConvergedNode = @ \ gone,
                    !.Frozen = @ \ gone, !.Recover = @ \ gone,
                    !.TierList = filtered, !.WaitList = filtered,
                    !.Probed = probed,
                    !.RR = IF @ > Len(probed) THEN 1 ELSE @,
                    !.CurrentTier = IF @ > Len(tiers) THEN Len(tiers) ELSE @]

areHigherTiersEmpty(i) == \A k \in DOMAIN i.WaitList : k > i.CurrentTier => i.WaitList[k] = {}

\* Mutant: one face that is not valid is enough.
isCurrentTierInvalid(i) ==
  IF i.CurrentTier > Len(i.TierList) THEN TRUE
  ELSE ~(i.TierList[i.CurrentTier] \subseteq i.Valid)

isCurrentTierAllInvalid(i) ==
  IF i.CurrentTier > Len(i.TierList) THEN TRUE
  ELSE i.TierList[i.CurrentTier] \cap i.Valid = {}

\* From the current tier on nothing is valid any more, and the node converges.
skipTier(i) ==
  LET dropped == UNION {i.WaitList[k] : k \in {m \in DOMAIN i.WaitList : m >= i.CurrentTier}}
      j == [i EXCEPT !.WaitList = [k \in DOMAIN @ |-> IF k >= i.CurrentTier THEN {} ELSE @[k]],
                     !.Valid = @ \ dropped,
                     !.ConvergedNode = @ \ dropped]
  IN IF i.IsNodeConverged THEN j ELSE localNodeConverged(j)

SkipIfAllInvalid(i) == IF isCurrentTierAllInvalid(i) THEN skipTier(i) ELSE i
-----------------------------------------------------------------------------
(***************************************************************************)
(* handlePathDiscoveryInterest. The next hops it is given are those of the *)
(* FIB entry without the incoming face f and without the faces in X that   *)
(* have an in-record for the same Interest.                                *)
(***************************************************************************)
NextHops(f, X) == [g \in DOMAIN fib \ (X \cup {f}) |-> fib[g]]

Relevant(own) == role = "producer" \/ (role = "consumer" /\ own)

Nack(reason) == [type |-> "nack", reason |-> reason]

\* An irrelevant Interest marks the node invalid for the prefix, for good.
PdInterestRefused(own) ==
  /\ ~Relevant(own) \/ info.IsInvalidNode
  /\ info' = [info EXCEPT !.IsInvalidNode = TRUE]
  /\ out' = {Nack("NoRoute")}
  /\ UNCHANGED <<role, fib, asked, tierSaid, nodeSaid>>

Initialized(idx, hops) ==
  IF info.IsInitialized THEN info
  ELSE StartPathDiscovery([info EXCEPT !.IsInitialized = TRUE, !.ProbeIndex = idx], hops)

\* The next stage begins with a fresh view of the next hops.
Refreshed(i, idx, hops) ==
  IF ~i.IsNodeConverged /\ idx > i.ProbeIndex THEN refreshSnapshot(i, hops) ELSE i

OutOfRange(i, idx, hops) ==
  /\ ~i.IsNodeConverged
  /\ \/ idx < i.ProbeIndex
     \/ /\ idx > i.ProbeIndex
        /\ LET r == Refreshed(i, idx, hops) IN r.CurrentTier >= Len(r.WaitList)

Advanced(i, idx, hops) ==
  IF ~i.IsNodeConverged /\ idx > i.ProbeIndex
  THEN ProbeNextTier([Refreshed(i, idx, hops) EXCEPT !.ProbeIndex = idx])
  ELSE i

\* An Interest from a face that is itself being probed: its whole tier is to go,
\* once each of the tier's faces has been sent one more Interest. (The error
\* return for a probed face in no tier cannot happen: see CollectionsAgree.)
Freeze(i, f) ==
  LET tier == UNION {i.WaitList[k] : k \in {m \in DOMAIN i.WaitList : f \in i.WaitList[m]}}
  IN IF i.IsPdFrozen THEN i
     ELSE [i EXCEPT !.IsPdFrozen = TRUE, !.Frozen = @ \cup tier, !.Recover = @ \cup tier]

ManageIngress(i, f) == IF f \in Range(i.Probed) THEN Freeze(i, f) ELSE Exclude(i, f)

\* What the handler has made of info when it comes to the check for valid
\* upstreams. After convergence the stages are over.
Managed(i, f, idx, hops) ==
  IF i.IsNodeConverged THEN i
  ELSE SkipIfAllInvalid(ManageIngress(Advanced(i, idx, hops), f))

\* The frozen faces have all had their Interest: the delayed removal.
Thaw(i, g) ==
  IF ~i.IsPdFrozen \/ g \notin i.Frozen THEN i
  ELSE IF i.Frozen # {g} THEN [i EXCEPT !.Frozen = @ \ {g}]
  ELSE [i EXCEPT !.IsPdFrozen = FALSE, !.Frozen = {}, !.Recover = {},
                 !.Valid = @ \ i.Recover,
                 !.WaitList = removeFromWaitList(@, i.Recover),
                 !.ConvergedTier = @ \ i.Recover,
                 !.ConvergedNode = @ \ i.Recover,
                 !.Probed = Keep(@, Faces \ i.Recover)]

PdInterestAccepted(own) == /\ Relevant(own) /\ ~info.IsInvalidNode
                           /\ UNCHANGED <<role, fib, tierSaid, nodeSaid>>

PdInterestOutOfRange(f, idx, X) ==
  LET hops == NextHops(f, X)
      i == Initialized(idx, hops)
  IN /\ OutOfRange(i, idx, hops)
     /\ info' = Refreshed(i, idx, hops)
     /\ out' = {}
     /\ UNCHANGED asked

PdInterestNoRoute(f, idx, X) ==
  LET hops == NextHops(f, X)
      i == Initialized(idx, hops)
      m == Managed(i, f, idx, hops)
  IN /\ ~OutOfRange(i, idx, hops)
     /\ ~i.IsNodeConverged /\ m.Valid = {}
     /\ info' = [m EXCEPT !.IsInvalidNode = TRUE]
     /\ out' = {Nack("NoRoute")}
     /\ UNCHANGED asked

PdInterestUnsent(f, idx, X) ==
  LET hops == NextHops(f, X)
      i == Initialized(idx, hops)
      m == Managed(i, f, idx, hops)
  IN /\ ~OutOfRange(i, idx, hops)
     /\ i.IsNodeConverged \/ m.Valid # {}
     /\ m.Probed = <<>>
     /\ info' = m
     /\ out' = {}
     /\ UNCHANGED asked

\* Round robin over the probed faces. An Interest is not sent back to where it
\* came from; the turn is used up and the face thawed all the same.
PdInterestForwarded(f, idx, X) ==
  LET hops == NextHops(f, X)
      i == Initialized(idx, hops)
      m == Managed(i, f, idx, hops)
      turn == IF m.RR > Len(m.Probed) THEN 1 ELSE m.RR
      outFace == m.Probed[turn]
  IN /\ ~OutOfRange(i, idx, hops)
     /\ i.IsNodeConverged \/ m.Valid # {}
     /\ m.Probed # <<>>
     /\ info' = Thaw([m EXCEPT !.RR = (turn % Len(m.Probed)) + 1], outFace)
     /\ out' = {[type |-> "interest", face |-> g] : g \in {outFace} \ {f}}
     /\ asked' = asked \cup ({outFace} \ {f})

handlePathDiscoveryInterest(f, idx, X, own) ==
  \/ PdInterestRefused(own)
  \/ /\ PdInterestAccepted(own)
     /\ \/ PdInterestOutOfRange(f, idx, X)
        \/ PdInterestNoRoute(f, idx, X)
        \/ PdInterestUnsent(f, idx, X)
        \/ PdInterestForwarded(f, idx, X)
-----------------------------------------------------------------------------
(***************************************************************************)
(* handlePathDiscoveryNack and handlePathDiscoveryData, for an answer from *)
(* upstream face f. Answers may come late, long after f was excluded.      *)
(***************************************************************************)
PdNackAtInvalidNode ==
  /\ info.IsInvalidNode
  /\ out' = {Nack("NoRoute")}
  /\ UNCHANGED <<role, info, fib, asked, tierSaid, nodeSaid>>

\* While frozen the face is kept; the tier may still be skipped.
AfterNoRoute(f) == SkipIfAllInvalid(IF info.IsPdFrozen THEN info ELSE Exclude(info, f))

PdNackLastUpstream(f) ==
  /\ ~info.IsInvalidNode
  /\ AfterNoRoute(f).Valid = {}
  /\ info' = [AfterNoRoute(f) EXCEPT !.IsInvalidNode = TRUE]
  /\ out' = {Nack("NoRoute")}
  /\ UNCHANGED <<role, fib, asked, tierSaid, nodeSaid>>

PdNackAbsorbed(f) ==
  /\ ~info.IsInvalidNode
  /\ AfterNoRoute(f).Valid # {}
  /\ info' = AfterNoRoute(f)
  /\ out' = {Nack("None")}
  /\ UNCHANGED <<role, fib, asked, tierSaid, nodeSaid>>

\* An upstream saw the Interest loop: passed on.
PdNackNone ==
  /\ out' = {Nack("None")}
  /\ UNCHANGED <<role, info, fib, asked, tierSaid, nodeSaid>>

handlePathDiscoveryNack(f) == \/ PdNackAtInvalidNode
                              \/ PdNackLastUpstream(f)
                              \/ PdNackAbsorbed(f)
                              \/ PdNackNone

\* The Data's TierConverged flag was set.
AfterTierConverged(f) ==
  LET i == IF info.IsPdFrozen THEN info ELSE [info EXCEPT !.ConvergedTier = @ \ {f}]
  IN IF i.ConvergedTier = {} /\ ~i.IsNodeConverged /\ areHigherTiersEmpty(i)
     THEN localNodeConverged(i)
     ELSE i

\* Mutant: the flag of the one upstream is passed on as it is.
handleDataFlagKept(f, tier, node) ==
  LET i == IF tier THEN AfterTierConverged(f) ELSE info
      j == IF node THEN [i EXCEPT !.ConvergedNode = @ \ {f}] ELSE i
  IN /\ info' = j
     /\ out' = {[type |-> "data", tier |-> tier,
                 node |-> node /\ j.IsNodeConverged /\ j.ConvergedNode = {}]}
     /\ tierSaid' = IF tier THEN tierSaid \cup {f} ELSE tierSaid
     /\ nodeSaid' = IF node THEN nodeSaid \cup {f} ELSE nodeSaid
     /\ UNCHANGED <<role, fib, asked>>

\* Both flags are rewritten on the way down.
handlePathDiscoveryData(f, tier, node) ==
  LET i == IF tier THEN AfterTierConverged(f) ELSE info
      j == IF node THEN [i EXCEPT !.ConvergedNode = @ \ {f}] ELSE i
  IN /\ info' = j
     /\ out' = {[type |-> "data",
                 tier |-> role = "producer" \/ (tier /\ i.ConvergedTier = {}),
                 node |-> node /\ j.IsNodeConverged /\ j.ConvergedNode = {}]}
     /\ tierSaid' = IF tier THEN tierSaid \cup {f} ELSE tierSaid
     /\ nodeSaid' = IF node THEN nodeSaid \cup {f} ELSE nodeSaid
     /\ UNCHANGED <<role, fib, asked>>

\* Data that does not decode is passed on, or dropped, without effect.
PdDataUndecodable ==
  /\ out' = {}
  /\ UNCHANGED <<role, info, fib, asked, tierSaid, nodeSaid>>

\* Routing changes the FIB entry of the prefix.
ChangeFib(new) ==
  /\ fib' = new
  /\ out' = {}
  /\ UNCHANGED <<role, info, asked, tierSaid, nodeSaid>>
-----------------------------------------------------------------------------
Init == /\ role \in Roles
        /\ info = NewInfo
        /\ fib \in Fibs
        /\ asked = {} /\ tierSaid = {} /\ nodeSaid = {} /\ out = {}

\* The faces other than f that may have an in-record. They are told apart only
\* when the handler looks at the next hops: to start, and for a new stage.
InRecords(f, idx) ==
  IF info.IsInitialized /\ (info.IsNodeConverged \/ idx <= info.ProbeIndex)
  THEN {{}}
  ELSE SUBSET (DOMAIN fib \ {f})

Next ==
  \/ \E f \in Faces, idx \in ProbeIndices, own \in BOOLEAN : \E X \in InRecords(f, idx) :
       handlePathDiscoveryInterest(f, idx, X, own)
  \/ \E f \in asked : handlePathDiscoveryNack(f)
  \/ \E f \in asked, tier, node \in BOOLEAN : handlePathDiscoveryData(f, tier, node)
  \/ asked # {} /\ PdDataUndecodable
  \/ \E new \in Fibs : ChangeFib(new)

Spec == Init /\ [][Next]_vars
-----------------------------------------------------------------------------
(***************************************************************************)
(* Correctness.                                                            *)
(***************************************************************************)
PathDiscoveryInfo ==
  [IsInitialized : BOOLEAN, TierList : Seq(SUBSET Faces), CurrentTier : Nat,
   ProbeIndex : Nat, WaitList : Seq(SUBSET Faces), Probed : Seq(Faces), RR : Nat \ {0},
   ConvergedTier : SUBSET Faces, ConvergedNode : SUBSET Faces,
   IsNodeConverged : BOOLEAN, Valid : SUBSET Faces, IsInvalidNode : BOOLEAN,
   IsPdFrozen : BOOLEAN, Frozen : SUBSET Faces, Recover : SUBSET Faces,
   DtValid : SUBSET Faces]

\* Every field of PathDiscoveryInfo keeps its type.
TypeOK ==
  /\ role \in Roles
  /\ info \in PathDiscoveryInfo
  /\ fib \in Fibs
  /\ asked \subseteq Faces /\ tierSaid \subseteq Faces /\ nodeSaid \subseteq Faces

\* Through every exclusion, refresh, skip and thaw the collections agree on which
\* upstreams are valid. The wait list holds exactly these: none is probed in a later
\* stage after it was excluded, and none is left out of the stages. Until the node
\* converges it waits only for faces that it probes, and probes only valid ones:
\* otherwise a tier could never be settled. It never waits for an excluded upstream
\* to converge, and a valid one it no longer waits for has said that it converged.
\* (The types are checked along with this.)
CollectionsAgree ==
  /\ TypeOK
  /\ TierFaces(info.WaitList) = info.Valid
  /\ ~info.IsNodeConverged => /\ info.ConvergedTier \subseteq Range(info.Probed)
                              /\ Range(info.Probed) \subseteq info.Valid
  /\ info.ConvergedNode \subseteq info.Valid
  /\ info.Valid \ info.ConvergedNode \subseteq nodeSaid

\* "Node converged" is passed downstream only when this node has converged and
\* each upstream that is still valid has said so itself; before it converges, a
\* consumer-side node passes "tier converged" only when each face it probes has.
ConvergenceHonest ==
  \A p \in out' : p.type = "data" =>
     /\ p.node => info'.IsNodeConverged /\ info'.Valid \subseteq nodeSaid'
     /\ p.tier /\ ~info'.IsNodeConverged /\ role # "producer"
          => Range(info'.Probed) \subseteq tierSaid'

ConvergenceHonestProp == [][ConvergenceHonest]_vars

\* Data transmission starts once, with every upstream that is still valid and
\* none that an earlier step excluded; and convergence is never taken back. (The
\* step itself may thaw a tier after the faces were handed over.)
DtStartsWithValid ==
  IF info'.IsNodeConverged /\ ~info.IsNodeConverged
  THEN /\ info'.Valid \subseteq info'.DtValid
       /\ info'.DtValid \subseteq IF info.IsInitialized THEN info.Valid ELSE info'.Valid
  ELSE /\ info'.DtValid = info.DtValid
       /\ info.IsNodeConverged => info'.IsNodeConverged

DtStartsWithValidProp == [][DtStartsWithValid]_vars

\* "If all faces in the current tier are invalid, we skip the rest of the tiers":
\* while discovery goes on, a NACK from one face, however late, leaves the other faces
\* of the current tier valid. (After convergence it need not: updateAfterPathDiscovery
\* drops the empty tiers of TierList, which CurrentTier still indexes.)
NackSparesCurrentTier ==
  ~info.IsNodeConverged /\ info.CurrentTier \in DOMAIN info.WaitList =>
    \A f \in asked :
      ~(info.WaitList[info.CurrentTier] \ {f} \subseteq info'.Valid) =>
        ~(PdNackLastUpstream(f) \/ PdNackAbsorbed(f))

NackSparesCurrentTierProp == [][NackSparesCurrentTier]_vars
=============================================================================
