---------------------------- MODULE MCDtScheduler ----------------------------
(***************************************************************************)
(* Two instances of DtScheduler for TLC, told apart by `failing`.          *)
(***************************************************************************)
EXTENDS DtScheduler

CONSTANTS a, b
VARIABLE failing   \* which instance this is

MCvars == <<vars, failing>>

MCNextHops == {{1}, {1, 2}}
MCDiscovered == {{1}, {2}, {1, 2}}

\* Without a failure: the threads share the budget of one face, with every rate
\* and the packets of the liveness guard. Thread 1 has one Interest at a time.
Sharing ==
  \/ Tick
  \/ \E t \in Threads, e \in Entries :
       /\ t = 1 => control[1].demand[1] = 0
       /\ handleDataTransmissionInterest(t, a, e, {1})

\* With a failure: a next hop is joined by another, and path discovery finds one
\* of them or both, up to an exchange of the prefixes. Interests queued for the
\* failed face have other candidates, find some among the valid faces, or have
\* none. Two Interests arrive, the first at thread 0, and no rate adjustment is due.
Failing ==
  /\ \/ Tick
     \/ Event
     \/ \E t \in Threads, e \in Entries : (arrived = 0 => t = 0) /\ Arrival(t, e)
  /\ arrived' <= 2
  /\ DtValid'[a] \in {None, {2}, {1, 2}} /\ DtValid'[b] \in {None, {1}, {1, 2}}
  /\ \A f \in Faces : ~control'[f].sampled

MCInit == Init /\ failing \in BOOLEAN

MCNext ==
  /\ IF failing THEN Failing ELSE Sharing
  /\ UNCHANGED failing

\* Without a failure, the tickers of the threads keep running, so the epoch does
\* (that a rate adjustment is ever due is not assumed), and a drain that was begun
\* goes on. The epoch may take back a budget before its thread comes to spend it,
\* when that thread's tick is late; since all tickers have the same period, no
\* thread's ticks are late for ever (strong fairness).
MCSpec ==
  /\ MCInit /\ [][MCNext]_MCvars
  /\ WF_vars(~failing /\ runDtControllerTick(1, FALSE))
  /\ \A t \in Threads :
       /\ WF_vars(~failing /\ drainDtInterestForFace(t))
       /\ SF_vars(~failing /\ takeDtThreadBudget(t, 1))

\* QueuesDrain, where no face fails: the Interests that a thread has queued are
\* all sent (dtThreadActiveBaseWeight), whatever the rates, the other thread's
\* demand and the order of the ticks.
SharedQueuesDrain == ~failing => QueuesDrain
=============================================================================
