----------------------------- MODULE DtScheduler -----------------------------
(***************************************************************************)
(* The data-transmission (DT) half of the Multipath strategy               *)
(* (fw/fw/multipath.go): how the forwarding threads of one node share its  *)
(* upstream faces. A thread assigns every DT Interest to one face by smooth*)
(* weighted round robin and queues it, together with the PIT entry it came *)
(* from. Every face has one control state that all threads share: a token  *)
(* bucket filled at the face's rate, the demand of each thread and the     *)
(* budget granted to it. Whichever thread's ticker is due first runs the   *)
(* scheduler epoch, which turns tokens into budgets; each thread then      *)
(* spends its own budgets on its own queues. A face failure, injected once *)
(* after path discovery, moves the queued Interests to other faces.        *)
(*                                                                         *)
(* A queue, its round-robin state and the demand of a thread are written   *)
(* by that thread alone; the rest of a control state is only touched under *)
(* its mutex. So an arrival is one step, the epoch one step per face, and  *)
(* a drain is a step that takes the budget and then one per packet.        *)
(*                                                                         *)
(* Floats are fixed-point numbers, Scale units to the packet.              *)
(***************************************************************************)
EXTENDS Integers, SequencesExt, FiniteSetsExt

CONSTANTS
  NumThreads,      \* CfgNumThreads
  Faces,           \* the upstream faces
  Flows,           \* the prefixes: the first component of the Interests' names
  NextHops,        \* the sets of next hops the FIB may give
  Discovered,      \* the sets of faces that path discovery may end with
  Entries,         \* PIT entry objects (see DtPit)
  None,
  Rates,           \* the rates a face may be given, dtFaceInitRate among them
  InitRate,        \* dtFaceInitRate
  Elapsed,         \* the times between two refills, in units of 1 / Scale
  Scale,
  BurstCap,        \* dtFaceTokenBurstCapPackets
  QuotaCap,        \* dtThreadQuotaCapPackets
  MaxSend,         \* dtSchedulerMaxSendPerTick
  ForcedPerRound,  \* dtLivenessForcedPacketsPerStarvedRound
  ForcedMax,       \* dtLivenessForcedPacketsMax
  MaxInterests     \* bound: the Interests that arrive

ASSUME DtAssumption ==
  /\ NumThreads \in Nat \ {0} /\ Scale \in Nat \ {0} /\ MaxSend \in Nat \ {0}
  /\ IsFiniteSet(Faces) /\ Faces \subseteq Nat \ {0} /\ Faces # {}
  /\ NextHops \subseteq (SUBSET Faces) \ {{}} /\ Discovered \subseteq SUBSET Faces
  /\ Rates \subseteq Nat \ {0} /\ InitRate \in Rates
  /\ Elapsed \subseteq Nat
  /\ BurstCap \in Nat \ {0} /\ QuotaCap \in Nat /\ BurstCap < QuotaCap
  /\ ForcedPerRound \in Nat /\ ForcedMax \in Nat /\ MaxInterests \in Nat

VARIABLES
  control,     \* face -> its dtFaceControlState
  local,       \* thread -> its part of the strategy: queues, credits, face order
  drain,       \* thread -> the drain it is in the middle of, or None
  DtValid,     \* prefix -> DtValidFaces once path discovery has converged, or None
  failure,     \* the node's injected face failure
  arrived      \* the number of Interests so far

vars == <<control, local, drain, DtValid, failure, arrived>>

Threads == 0 .. NumThreads - 1

Zero == [t \in Threads |-> 0]

\* The sum of a slice that has one element per thread.
Total(slice) ==
  LET upTo[n \in 0 .. NumThreads] == IF n = 0 THEN 0 ELSE upTo[n - 1] + slice[n - 1]
  IN upTo[NumThreads]

NewControl == [activated |-> FALSE, rate |-> 0, tokens |-> 0, forced |-> 0,
               demand |-> Zero, budget |-> Zero, carry |-> Zero, budgetRR |-> 0,
               sampled |-> FALSE, sent |-> FALSE]

NewLocal == [queue |-> [p \in Flows |-> <<>>],
             credits |-> [p \in Flows |-> <<>>],
             order |-> <<>>,
             prefixes |-> [f \in Faces |-> <<>>],
             prefixRR |-> [f \in Faces |-> 0],
             applied |-> FALSE]
-----------------------------------------------------------------------------
\* noteDtThreadDemand: a thread whose demand is gone loses budget and carry.
noteDtThreadDemand(c, t, delta) ==
  LET d == Max({c.demand[t] + delta, 0}) IN
  [c EXCEPT !.demand[t] = d,
            !.budget[t] = IF d = 0 THEN 0 ELSE @,
            !.carry[t] = IF d = 0 THEN 0 ELSE @]

\* noteLocalPrefixEligibleForFace: drains visit the faces of order, and for a
\* face the prefixes listed for it.
noteLocalPrefixEligibleForFace(s, f, p) ==
  [s EXCEPT !.order = IF f \in ToSet(@) THEN @ ELSE Append(@, f),
            !.prefixes[f] = IF p \in ToSet(@) THEN @ ELSE Append(@, p)]

\* selectDtAssignedFaceWRR: every candidate earns its rate; the richest, the
\* smallest of equals, is selected and pays what all earned. Credits of faces
\* that are no candidates are forgotten.
dtCurrentFaceWeight(c, f) == Max({c[f].rate, 1})

Raised(credits, c, faces) ==
  [f \in faces |-> dtCurrentFaceWeight(c, f) +
                     (IF f \in DOMAIN credits THEN credits[f] ELSE 0)]

Richest(credits) ==
  CHOOSE f \in DOMAIN credits : \A g \in DOMAIN credits :
    credits[f] > credits[g] \/ (credits[f] = credits[g] /\ f <= g)

SelectFace(credits, c, faces) == Richest(Raised(credits, c, faces))

Credits(credits, c, faces) ==
  LET raised == Raised(credits, c, faces) IN
  [raised EXCEPT ![Richest(raised)] = @ - MapThenSumSet(LAMBDA f : dtCurrentFaceWeight(c, f), faces)]

\* enqueueLocalDtInterest, for an Interest just assigned. x pairs the thread's
\* part of the strategy with the control states.
enqueueLocalDtInterest(x, t, p, item) ==
  [s |-> noteLocalPrefixEligibleForFace(
           [x.s EXCEPT !.queue[p] = Append(@, item)], item.face, p),
   c |-> [x.c EXCEPT ![item.face] = noteDtThreadDemand(@, t, 1)]]
-----------------------------------------------------------------------------
\* reassignLocalDtInterestsFromFailedFace, for item i of prefix p: it goes to
\* one of its other candidates or, when it has none, of the faces that path
\* discovery found; with none of either it stays.
Survivors(item, p, blocked) ==
  IF item.cand \ {blocked} # {} THEN item.cand \ {blocked}
  ELSE (IF DtValid[p] = None THEN {} ELSE DtValid[p]) \ {blocked}

\* Mutant: the demand for the new face is not noted.
ForgetDemand(c, t, old, new) == [c EXCEPT ![old] = noteDtThreadDemand(@, t, -1)]

MoveDemand(c, t, old, new) ==
  [c EXCEPT ![old] = noteDtThreadDemand(@, t, -1), ![new] = noteDtThreadDemand(@, t, 1)]

ReassignItem(x, t, p, i, blocked) ==
  LET item == x.s.queue[p][i]
      faces == Survivors(item, p, blocked)
      new == SelectFace(x.s.credits[p], x.c, faces)
  IN IF item.face # blocked \/ faces = {} THEN x
     ELSE [s |-> [noteLocalPrefixEligibleForFace(x.s, new, p)
                    EXCEPT !.queue[p][i] = [item EXCEPT !.face = new, !.cand = faces],
                           !.credits[p] = Credits(@, x.c, faces)],
           c |-> MoveDemand(x.c, t, blocked, new)]

ReassignPrefix(x, t, p, blocked) ==
  FoldLeft(LAMBDA y, i : ReassignItem(y, t, p, i, blocked), x,
           [i \in 1 .. Len(x.s.queue[p]) |-> i])

\* syncDtFailureState: once per activation, a thread moves what it has queued.
\* The prefixes are visited in the order ps.
syncDtFailureState(x, t, ps) ==
  IF failure.state = "active" /\ ~x.s.applied
  THEN LET y == FoldLeft(LAMBDA z, p : ReassignPrefix(z, t, p, failure.face), x, ps)
       IN [y EXCEPT !.s.applied = TRUE]
  ELSE x

Blocked(f) == failure.state = "active" /\ failure.face = f
-----------------------------------------------------------------------------
\* handleDataTransmissionInterest. The faces are those path discovery found,
\* or all next hops if it has not converged or found none, without the failed
\* one. With at most one valid face the Interest is sent at once. Otherwise the faces are activated;
\* since that gives each of them a rate, all are ready for shaping and the
\* bootstrap modes of the code are never entered.
\* Mutant: the failed face is not filtered out.
WithFailedFace(p, hops) == IF DtValid[p] \in {None, {}} THEN hops ELSE DtValid[p]

DtFaces(p, hops) ==
  {f \in (IF DtValid[p] \in {None, {}} THEN hops ELSE DtValid[p]) : ~Blocked(f)}

RateControlled(p) == DtValid[p] = None \/ Cardinality(DtValid[p]) > 1

ensureDtControlActivated(c, faces) ==
  [f \in Faces |->
     IF f \in faces /\ ~c[f].activated
     THEN [c[f] EXCEPT !.activated = TRUE, !.rate = InitRate] ELSE c[f]]

Assign(x, t, p, e, faces) ==
  LET c == ensureDtControlActivated(x.c, faces)
      item == [entry |-> e, cand |-> faces,
               face |-> SelectFace(x.s.credits[p], c, faces)]
  IN enqueueLocalDtInterest(
       [s |-> [x.s EXCEPT !.credits[p] = Credits(@, c, faces)], c |-> c], t, p, item)

handleDataTransmissionInterest(t, p, e, hops) ==
  /\ drain[t] = None
  /\ arrived < MaxInterests
  /\ arrived' = arrived + 1
  /\ \E ps \in SetToSeqs(Flows) :
       LET x == syncDtFailureState([s |-> local[t], c |-> control], t, ps)
           faces == DtFaces(p, hops)
           y == IF faces # {} /\ RateControlled(p)
                THEN Assign(x, t, p, e, faces) ELSE x
       IN /\ local' = [local EXCEPT ![t] = y.s]
          /\ control' = y.c
  /\ UNCHANGED <<drain, DtValid, failure>>
-----------------------------------------------------------------------------
\* refillDtFaceTokensLocked and reclaimDtLegacyBudgetLocked: unspent budgets go
\* back to the tokens, of which then at most one packet's worth is retained.
Retain(tokens) == Min({tokens, Scale})

\* Mutant: fractions of a packet are not kept.
WholeTokens(c, minted) == [c EXCEPT !.tokens = Scale * ((@ + minted) \div Scale)]

refillDtFaceTokens(c, minted) ==
  [c EXCEPT !.tokens = Min({@ + minted, BurstCap * Scale})]

reclaimDtLegacyBudget(c) ==
  LET leftover == Total(c.budget) IN
  [c EXCEPT !.budget = Zero,
            !.tokens = IF leftover > 0 THEN Retain(@ + leftover * Scale) ELSE @]

\* assignDtWeightedThreadBudgetLocked: whole shares of the available packets,
\* in proportion to one plus the demand and with the fraction carried over;
\* then the rest one by one to the thread with the largest carry, in the
\* rotation that starts at budgetRR. g is the pair of budgets and carries.
Active(c) == {t \in Threads : c.demand[t] > 0}

Share(c, avail, t) ==
  (avail * Scale * (1 + c.demand[t])) \div
    (Cardinality(Active(c)) + Total(c.demand)) + c.carry[t]

Turn(c, t) == (t - c.budgetRR + NumThreads) % NumThreads

WholeShares(c, avail) ==
  [budget |-> [t \in Threads |->
     IF t \in Active(c)
     THEN c.budget[t] + Min({Share(c, avail, t) \div Scale, QuotaCap - c.budget[t]})
     ELSE c.budget[t]],
   carry |-> [t \in Threads |->
     IF t \in Active(c) THEN Share(c, avail, t) % Scale ELSE c.carry[t]]]

Ahead(c, g, t, u) ==
  g.carry[t] > g.carry[u] \/ (g.carry[t] = g.carry[u] /\ Turn(c, t) <= Turn(c, u))

\* Mutant: the thread that is given a packet keeps its carry.
CarryKept(c, g) ==
  LET open == {t \in Active(c) : g.budget[t] < QuotaCap}
      best == CHOOSE t \in open : \A u \in open : Ahead(c, g, t, u)
  IN IF open = {} THEN g ELSE [g EXCEPT !.budget[best] = @ + 1]

GiveOne(c, g) ==
  LET open == {t \in Active(c) : g.budget[t] < QuotaCap}
      best == CHOOSE t \in open : \A u \in open : Ahead(c, g, t, u)
  IN IF open = {} THEN g
     ELSE [g EXCEPT !.budget[best] = @ + 1, !.carry[best] = 0]

assignDtWeightedThreadBudget(c, avail) ==
  LET whole == WholeShares(c, avail)
      rest == avail - Total(whole.budget) + Total(c.budget)
  IN FoldLeft(LAMBDA g, i : GiveOne(c, g), whole, [i \in 1 .. rest |-> i])

\* allocateDtFaceBudgetsLegacy: whole tokens become budgets; without one, a
\* forced packet of the liveness guard does. r is the control state after the
\* refill and the reclaim, g the budgets and carries assigned.
Forcing(r) == r.tokens < Scale /\ r.forced > 0

Available(r) == IF Forcing(r) THEN 1 ELSE r.tokens \div Scale

Granted(r, g) ==
  LET unassigned == Available(r) - Total(g.budget)
      kept == r.tokens % Scale
  IN [r EXCEPT !.budget = g.budget, !.carry = g.carry,
               !.forced = IF Forcing(r) THEN @ - 1 ELSE @,
               !.tokens = IF unassigned > 0 THEN Retain(kept + unassigned * Scale) ELSE kept,
               !.budgetRR = (@ + 1) % NumThreads]

allocateDtFaceBudgetsLegacy(f, c) ==
  \E r \in {reclaimDtLegacyBudget(c)} :
    \/ /\ Available(r) = 0
       /\ control' = [control EXCEPT ![f] = r]
    \/ /\ Available(r) > 0
       /\ \E g \in {assignDtWeightedThreadBudget(r, Available(r))} :
            control' = [control EXCEPT ![f] = Granted(r, g)]

\* allocateDtFaceBudgets: a face nobody wants anything from mints nothing.
allocateDtFaceBudgets(f, c, minted) ==
  \/ /\ Total(c.demand) = 0
     /\ \E r \in {reclaimDtLegacyBudget(c)} :
          control' = [control EXCEPT ![f] = [r EXCEPT !.tokens = Retain(@)]]
  \/ /\ Total(c.demand) > 0
     /\ \E r \in {refillDtFaceTokens(c, minted)} : allocateDtFaceBudgetsLegacy(f, r)

clearDtFaceBlockedState(c) ==
  [c EXCEPT !.tokens = 0, !.forced = 0, !.budget = Zero, !.carry = Zero]

\* faceSendRateEstimationCore: the control law, a function of measured queues
\* and bandwidth, gives the face some rate; a face with demand that has sent
\* nothing since the last round is primed with forced packets.
faceSendRateEstimationCore(c, rate) ==
  [c EXCEPT !.rate = rate,
            !.forced = IF c.sampled /\ Total(c.demand) > 0 /\ ~c.sent
                       THEN Min({@ + ForcedPerRound, ForcedMax}) ELSE @,
            !.sampled = TRUE, !.sent = FALSE]

\* runDtControllerTick for face f, in the OnTick of some thread: the rate is
\* adjusted if that is due, then tokens are minted and budgets granted.
Estimated(c, due) ==
  IF due THEN {faceSendRateEstimationCore(c, r) : r \in Rates} ELSE {c}

runDtControllerTick(f, due) ==
  /\ \E t \in Threads : drain[t] = None
  /\ control[f].activated
  /\ \/ /\ Blocked(f)
        /\ control' = [control EXCEPT ![f] = clearDtFaceBlockedState(@)]
     \/ /\ ~Blocked(f)
        /\ \E c \in Estimated(control[f], due), d \in Elapsed :
             allocateDtFaceBudgets(f, c, d * c.rate)
  /\ UNCHANGED <<local, drain, DtValid, failure, arrived>>
-----------------------------------------------------------------------------
\* OnTick of thread t up to its drains: it applies a failure that has started.
ApplyFailure(t) ==
  /\ drain[t] = None
  /\ failure.state = "active" /\ ~local[t].applied
  /\ \E ps \in SetToSeqs(Flows) :
       LET x == syncDtFailureState([s |-> local[t], c |-> control], t, ps) IN
       /\ local' = [local EXCEPT ![t] = x.s]
       /\ control' = x.c
  /\ UNCHANGED <<drain, DtValid, failure, arrived>>

\* drainLocalDtQueues visits the faces of the thread's order, and
\* drainDtInterestForFace takes the budget of a face that has pending Interests.
takeDtThreadBudget(t, f) ==
  LET grant == Min({control[f].budget[t], MaxSend}) IN
  /\ drain[t] = None
  /\ f \in ToSet(local[t].order)
  /\ failure.state = "active" => local[t].applied
  /\ ~Blocked(f)
  /\ control[f].demand[t] > 0
  /\ grant > 0
  /\ control' = [control EXCEPT ![f].budget[t] = @ - grant]
  /\ drain' = [drain EXCEPT ![t] = [face |-> f, left |-> grant, used |-> FALSE]]
  /\ UNCHANGED <<local, DtValid, failure, arrived>>

\* dequeueDtInterestForFaceRR: the prefixes of the face in round robin, and in
\* the queue of the first that has one, the first Interest assigned to the face.
Assigned(s, f, p) == {i \in DOMAIN s.queue[p] : s.queue[p][i].face = f}

Rotation(s, f) ==
  LET ps == s.prefixes[f] IN
  [i \in 1 .. Len(ps) |-> ((s.prefixRR[f] + i - 1) % Len(ps)) + 1]

Pending(s, f) == {i \in DOMAIN Rotation(s, f) :
                    Assigned(s, f, s.prefixes[f][Rotation(s, f)[i]]) # {}}

\* One round of the loop of drainDtInterestForFace: send the next Interest with
\* the PIT entry queued with it, or give up what is left of the budget.
Finish(t, c, d) ==
  /\ drain' = [drain EXCEPT ![t] = IF d.left = 0 THEN None ELSE d]
  /\ control' = IF d.left = 0 /\ d.used THEN [c EXCEPT ![d.face].sent = TRUE] ELSE c

Place(s, f) ==
  LET k == Rotation(s, f)[Min(Pending(s, f))]
      p == s.prefixes[f][k]
  IN [rr |-> k, prefix |-> p, index |-> Min(Assigned(s, f, p))]

SendNext(t) ==
  LET d == drain[t]
      next == Place(local[t], d.face)
  IN /\ Pending(local[t], d.face) # {}
     /\ local' = [local EXCEPT ![t].queue[next.prefix] = RemoveAt(@, next.index),
                               ![t].prefixRR[d.face] = next.rr]
     /\ \E ok \in BOOLEAN :
          Finish(t, [control EXCEPT ![d.face] = noteDtThreadDemand(@, t, -1)],
                 [d EXCEPT !.left = @ - 1, !.used = @ \/ ok])

NothingPending(t) ==
  /\ Pending(local[t], drain[t].face) = {}
  /\ Finish(t, control, [drain[t] EXCEPT !.left = 0])
  /\ UNCHANGED local

drainDtInterestForFace(t) ==
  /\ drain[t] # None
  /\ SendNext(t) \/ NothingPending(t)
  /\ UNCHANGED <<DtValid, failure, arrived>>
-----------------------------------------------------------------------------
\* Path discovery converges for prefix p on some faces, which arms the failure
\* once all prefixes have converged (armDtFailureAfterPdConvergence): of the
\* smallest face, and only if there are two. With several valid faces, they are
\* activated.
Converged == {p \in Flows : DtValid[p] # None}

Converge(p, faces) ==
  LET candidates == UNION {DtValid'[q] : q \in Converged \cup {p}} IN
  /\ DtValid[p] = None
  /\ DtValid' = [DtValid EXCEPT ![p] = faces]
  /\ failure' = IF Converged \cup {p} # Flows THEN failure
                ELSE IF Cardinality(candidates) > 1
                THEN [state |-> "armed", face |-> Min(candidates)]
                ELSE [failure EXCEPT !.state = "recovered"]
  /\ control' = IF Cardinality(faces) > 1 THEN ensureDtControlActivated(control, faces)
                ELSE control
  /\ UNCHANGED <<local, drain, arrived>>

\* dtFailureSnapshot, at the first call after the start and the end of the
\* failure window. When no call falls into the window, it passes unnoticed.
FailureStarts ==
  /\ failure.state = "armed"
  /\ failure' = [failure EXCEPT !.state = "active"]
  /\ UNCHANGED <<control, local, drain, DtValid, arrived>>

FailureEnds ==
  /\ failure.state = "active"
  /\ failure' = [failure EXCEPT !.state = "recovered"]
  /\ UNCHANGED <<control, local, drain, DtValid, arrived>>

-----------------------------------------------------------------------------
Init ==
  /\ control = [f \in Faces |-> NewControl]
  /\ local = [t \in Threads |-> NewLocal]
  /\ drain = [t \in Threads |-> None]
  /\ DtValid = [p \in Flows |-> None]
  /\ failure = [state |-> "off", face |-> 0]
  /\ arrived = 0

Arrival(t, e) ==
  \E p \in Flows, hops \in NextHops : handleDataTransmissionInterest(t, p, e, hops)

Tick ==
  \/ \E f \in Faces, due \in BOOLEAN : runDtControllerTick(f, due)
  \/ \E t \in Threads : ApplyFailure(t)
  \/ \E t \in Threads, f \in Faces : takeDtThreadBudget(t, f)
  \/ \E t \in Threads : drainDtInterestForFace(t)

Event ==
  \/ \E p \in Flows, faces \in Discovered : Converge(p, faces)
  \/ FailureStarts
  \/ FailureEnds

Next == Tick \/ Event \/ \E t \in Threads, e \in Entries : Arrival(t, e)

Spec == Init /\ [][Next]_vars
-----------------------------------------------------------------------------
Items == [entry : Entries, cand : SUBSET Faces, face : Faces]

Amounts == [Threads -> 0 .. BurstCap + 1]

\* Every part of the scheduler's state has the type of the code's field.
TypeOK ==
  /\ control \in [Faces -> [activated : BOOLEAN, rate : Rates \cup {0},
                            tokens : 0 .. BurstCap * Scale, forced : 0 .. ForcedMax,
                            demand : [Threads -> 0 .. MaxInterests], budget : Amounts,
                            carry : [Threads -> 0 .. Scale - 1], budgetRR : Threads,
                            sampled : BOOLEAN, sent : BOOLEAN]]
  /\ \A t \in Threads :
       /\ \A p \in Flows : \A i \in DOMAIN local[t].queue[p] : local[t].queue[p][i] \in Items
       /\ local[t].applied \in BOOLEAN
       /\ drain[t] = None \/ drain[t] \in [face : Faces, left : 1 .. MaxSend, used : BOOLEAN]
  /\ \A p \in Flows : DtValid[p] = None \/ DtValid[p] \subseteq Faces
  /\ failure \in [state : {"off", "armed", "active", "recovered"}, face : Faces \cup {0}]
  /\ arrived \in 0 .. MaxInterests

QueuedFor(t, f) == UNION {{<<p, i>> : i \in Assigned(local[t], f, p)} : p \in Flows}

\* demandByThread, from which budgets are computed and which alone makes a
\* drain look at the queues, counts exactly the Interests that the thread has
\* queued for the face: through arrivals, drains and the reassignment of a
\* failed face. One short, and the last Interest is never sent. And drains come
\* to each of them: its face is in the thread's face order, its prefix in the
\* face's list, and the face is activated, wherever it was moved. The exception is
\* a face that path discovery found alone for the prefix: nothing activates it, so
\* an Interest queued before and moved there when another face fails waits until
\* some other prefix activates the face. (The types are checked along with this.)
QueuesAccounted ==
  /\ TypeOK
  /\ \A t \in Threads, f \in Faces :
       LET queued == QueuedFor(t, f)
       IN /\ control[f].demand[t] = Cardinality(queued)
          /\ \A q \in queued : /\ control[f].activated \/ DtValid[q[1]] = {f}
                               /\ f \in ToSet(local[t].order)
                               /\ q[1] \in ToSet(local[t].prefixes[f])

\* While a face failure is active, a thread that has noticed it has nothing
\* queued for the failed face, except Interests with no other candidate.
FailedFaceIsVacated ==
  \A t \in Threads, p \in Flows : \A i \in DOMAIN local[t].queue[p] :
    LET item == local[t].queue[p][i] IN
    failure.state = "active" /\ local[t].applied /\ item.face = failure.face
      => item.cand = {failure.face}

\* What a face may still send: its tokens, the packets of the liveness guard,
\* the budgets granted, and the budgets taken and not spent.
Taken(f) ==
  Total([t \in Threads |-> IF drain[t] # None /\ drain[t].face = f THEN drain[t].left ELSE 0])

Holdings(f) ==
  control[f].tokens + Scale * (control[f].forced + Total(control[f].budget) + Taken(f))

\* What an epoch may add: the tokens that the rate mints and, for a face that
\* has sent nothing since the last round, the packets of the liveness guard.
Epoch == UNCHANGED <<local, drain, DtValid, failure, arrived>>

Income(f) ==
  Max(Elapsed) * control'[f].rate
    + (IF control[f].sampled /\ ~control[f].sent THEN Scale * ForcedPerRound ELSE 0)

\* The scheduler hands out no packet twice: what a face may send grows only in
\* an epoch and by no more than its income, whatever is rounded, carried over,
\* reclaimed and regranted while threads take budgets concurrently. This is
\* checked for two threads; the carries of three can add up to over a packet.
NoOverGrant ==
  [][\A f \in Faces : Holdings(f)' <= Holdings(f) + (IF Epoch THEN Income(f) ELSE 0)]_vars

\* No thread starves (dtThreadActiveBaseWeight): the Interests that a thread
\* has queued for a face are all sent, however the rate, the other threads'
\* demand and the order of their ticks vary, and without the liveness guard.
QueuesDrain ==
  \A t \in Threads, f \in Faces : control[f].demand[t] > 0 ~> control[f].demand[t] = 0
=============================================================================
