-------------------------------- MODULE SvSync --------------------------------
(***************************************************************************)
(* State vector sync (svs.go, svs_map.go): the nodes of a group tell each  *)
(* other, in Sync Interests, the last sequence number they know of every   *)
(* publisher and boot time.  A node that hears an outdated vector enters   *)
(* the suppression state, in which it waits for somebody else to answer.   *)
(* A passive node publishes nothing: it keeps the signed vectors of others *)
(* and sends these.                                                        *)
(*                                                                         *)
(* Sync Interests may be lost, delayed and overtaken; nodes restart, under *)
(* a new boot time or from a saved state.  Timers may expire at any time,  *)
(* and whether an update is recent is a choice.                            *)
(***************************************************************************)
EXTENDS Integers, FiniteSets

CONSTANTS Nodes,       \* numbered in the canonical order of their names
          Keys,        \* the <<node, boot time>> pairs that may publish
          Passive,     \* the passive nodes
          Setups,      \* pairs of the nodes whose clock is days ahead of the
                       \* others' and the nodes that may restart
          MaxPubs,     \* bound on the publications
          MaxRestarts

ASSUME SvsAssumption ==
  /\ Keys \subseteq Nodes \X Nat /\ Passive \subseteq Nodes
  /\ Setups \subseteq (SUBSET Nodes) \X (SUBSET Nodes)
  /\ MaxPubs \in Nat

VARIABLES skewed, mortal,  \* one of the pairs in Setups
          boot,        \* per node, its boot time
          sv,          \* per node, its state vector
          next,        \* per node, the number of the object just produced, or 0
          suppress,    \* per node, is it in the suppression state?
          merge,       \* what it has heard there (Zero outside: it is cleared on entry)
          touched,     \* per node, the names that have an mtime
          sent,        \* the vectors that have been sent, and may still arrive
          wires,       \* per passive node and key, the vector it has kept
          stored,      \* per node, what its persistent store holds: the state
                       \* vector the application saved, or the vectors kept
          down,        \* the nodes whose process has panicked
          stale,       \* the nodes restarted from a state that lacks own publications
          pubs, restarts

vars == <<skewed, mortal, boot, sv, next, suppress, merge, touched, sent, wires, stored, down,
          stale, pubs, restarts>>

Zero == [k \in Keys |-> 0]
Join(v, w) == [k \in Keys |-> IF v[k] < w[k] THEN w[k] ELSE v[k]]
Covers(v, w) == \A k \in Keys : w[k] <= v[k]
Own(n) == <<n, boot[n]>>
Active == Nodes \ Passive

Init ==
  /\ \E setup \in Setups : skewed = setup[1] /\ mortal = setup[2]
  /\ boot = [n \in Nodes |-> 1]
  /\ sv = [n \in Nodes |-> Zero] /\ next = [n \in Nodes |-> 0]
  /\ suppress = [n \in Nodes |-> FALSE] /\ merge = [n \in Nodes |-> Zero]
  /\ touched = [n \in Nodes |-> {}]
  /\ sent = {}
  /\ wires = [n \in Passive |-> [k \in Keys |-> Zero]]
  /\ stored = [n \in Nodes |-> {}]
  /\ down = {} /\ stale = {} /\ pubs = 0 /\ restarts = 0

-----------------------------------------------------------------------------
\* Publishing, in two steps: the number is read and the object produced, and
\* then the sequence number goes up and a Sync Interest is on its way.  The
\* process ends if it is not the number that was read.

GetSeqNo(n) ==
  /\ Own(n) \in Keys /\ next[n] = 0 /\ pubs < MaxPubs
  /\ next' = [next EXCEPT ![n] = sv[n][Own(n)] + 1]
  /\ pubs' = pubs + 1
  /\ UNCHANGED <<skewed, mortal, boot, sv, suppress, merge, touched, sent, wires, stored,
                 down, stale, restarts>>

IncrSeqNo(n) ==
  /\ next[n] # 0
  /\ next' = [next EXCEPT ![n] = 0]
  /\ IF next[n] = sv[n][Own(n)] + 1
     THEN sv' = [sv EXCEPT ![n][Own(n)] = @ + 1] /\ UNCHANGED down
     ELSE down' = down \cup {n} /\ UNCHANGED sv
  /\ UNCHANGED <<skewed, mortal, boot, suppress, merge, touched, sent, wires, stored, stale,
                 pubs, restarts>>

-----------------------------------------------------------------------------
\* onReceiveStateVector.

\* Does n find the boot time of k more than a day ahead of its own clock?
FarFuture(n, k) == k[1] \in skewed /\ n \notin skewed

\* The walk over the entries goes by name and then from the newest boot time.
Before(j, k) == j[1] < k[1] \/ (j[1] = k[1] /\ j[2] > k[2])

\* What it has applied when it ends, at a far future boot time at the latest.
Applied(n, v) ==
  {k \in Keys : v[k] > 0 /\ \A j \in Keys : v[j] > 0 /\ FarFuture(n, j) => Before(k, j)}

Newer(n, v) == {k \in Applied(n, v) : v[k] > sv[n][k]}
Older(n, v) == {k \in Applied(n, v) : v[k] < sv[n][k]}

\* Mutant: only the entries of the vector are compared.
OutdatedIfOlder(n, v) == Older(n, v) # {}

\* Something known is newer, or missing.
IsOutdated(n, v) == Older(n, v) # {} \/ \E k \in Keys : sv[n][k] > 0 /\ v[k] = 0

\* Every outdated entry is one of a name that has just been updated: in the
\* suppression period (a choice, for a name with an mtime) or by this vector.
JustNow(n, v, k) == \E j \in Newer(n, v) : j[1] = k[1] /\ j[2] > k[2]
MustDrop(n, v) == Older(n, v) # {} /\ \A k \in Older(n, v) : JustNow(n, v, k)
MayDrop(n, v) ==
  Older(n, v) # {} /\ \A k \in Older(n, v) : k[1] \in touched[n] \/ JustNow(n, v, k)

\* Mutant: the last vector that has the entry.
KeepLast(n, v) ==
  [k \in Keys |-> IF v[k] > 0 THEN v ELSE wires[n][k]]

\* The vectors kept: one per entry that is not older than what is known.
Keep(n, v) ==
  [k \in Keys |-> IF k \in Applied(n, v) \ Older(n, v) THEN v ELSE wires[n][k]]

Receive(n, v) ==
  /\ v \in sent
  /\ sv' = [sv EXCEPT ![n] = [k \in Keys |-> IF k \in Newer(n, v) THEN v[k] ELSE @[k]]]
  /\ touched' = [touched EXCEPT ![n] = @ \cup {k[1] : k \in Newer(n, v)}]
  /\ wires' = IF n \in Passive THEN [wires EXCEPT ![n] = Keep(n, v)] ELSE wires
  /\ LET whole == \A k \in Keys : v[k] > 0 => ~FarFuture(n, k)
         merged == [k \in Keys |-> IF suppress[n] /\ k \in Applied(n, v) THEN Join(merge[n], v)[k]
                                   ELSE merge[n][k]]
     IN \/ ~whole /\ merge' = [merge EXCEPT ![n] = merged] /\ UNCHANGED suppress
        \/ /\ whole /\ ~IsOutdated(n, v)
           /\ suppress' = [suppress EXCEPT ![n] = FALSE]
           /\ merge' = [merge EXCEPT ![n] = Zero]
        \/ /\ whole /\ IsOutdated(n, v) /\ (suppress[n] \/ MayDrop(n, v))
           /\ merge' = [merge EXCEPT ![n] = merged] /\ UNCHANGED suppress
        \/ /\ whole /\ IsOutdated(n, v) /\ ~suppress[n] /\ ~MustDrop(n, v)
           /\ suppress' = [suppress EXCEPT ![n] = TRUE]
           /\ merge' = [merge EXCEPT ![n] = Zero]
  /\ UNCHANGED <<skewed, mortal, boot, next, sent, stored, down, stale, pubs, restarts>>

-----------------------------------------------------------------------------
\* Sending.

\* In the suppression state, when nothing is left to say.  In every other case
\* the expired timer has sendSyncInterest run.
timerExpired(n) ==
  /\ suppress[n] /\ Covers(merge[n], sv[n])
  /\ suppress' = [suppress EXCEPT ![n] = FALSE] /\ merge' = [merge EXCEPT ![n] = Zero]
  /\ UNCHANGED <<skewed, mortal, boot, sv, next, touched, sent, wires, stored, down,
                 stale, pubs, restarts>>


\* passiveWires.
Kept(n) == {wires[n][k] : k \in Keys} \ {Zero}

\* It runs in a goroutine of its own when the timer has expired, after every
\* publication and when a face has come up: at any time.  An active node leaves
\* the suppression state; a passive one sends what it has kept and stays in it.
sendSyncInterest(n) ==
  /\ sent' = sent \cup IF n \in Passive THEN Kept(n) ELSE {sv[n]}
  /\ suppress' = IF n \in Passive THEN suppress ELSE [suppress EXCEPT ![n] = FALSE]
  /\ merge' = IF n \in Passive THEN merge ELSE [merge EXCEPT ![n] = Zero]
  /\ UNCHANGED <<skewed, mortal, boot, sv, next, touched, wires, stored, down, stale,
                 pubs, restarts>>

-----------------------------------------------------------------------------
\* Persistence.

\* The application saves the state, persistPassiveWires the vectors kept.
Save(n) ==
  /\ n \in Passive => Kept(n) # {}
  /\ stored' = [stored EXCEPT ![n] = IF n \in Passive THEN Kept(n) ELSE {sv[n]}]
  /\ UNCHANGED <<skewed, mortal, boot, sv, next, suppress, merge, touched, sent, wires,
                 down, stale, pubs, restarts>>

\* Mutant: the boot time stays.
BootTimeKept(n, restore) == boot[n]

BootTime(n, restore) == IF restore THEN boot[n] ELSE boot[n] + 1

\* A restart under a new boot time, with nothing; or (restore) from what was
\* saved.  A passive node starts with nothing and hears the vectors of its store.
Restart(n, restore) ==
  /\ restarts < MaxRestarts /\ restarts' = restarts + 1
  /\ IF restore THEN n \in Passive \/ stored[n] # {} ELSE <<n, boot[n] + 1>> \in Keys
  /\ boot' = [boot EXCEPT ![n] = BootTime(n, restore)]
  /\ \E v \in IF restore /\ n \in Active THEN stored[n] ELSE {Zero} :
       /\ sv' = [sv EXCEPT ![n] = v]
       /\ stale' = IF restore /\ n \in Active /\ v[Own(n)] < sv[n][Own(n)]
                   THEN stale \cup {n} ELSE stale
  /\ next' = [next EXCEPT ![n] = 0]
  /\ suppress' = [suppress EXCEPT ![n] = FALSE] /\ merge' = [merge EXCEPT ![n] = Zero]
  /\ touched' = [touched EXCEPT ![n] = {}]
  /\ wires' = IF n \in Passive THEN [wires EXCEPT ![n] = [k \in Keys |-> Zero]] ELSE wires
  /\ down' = down \ {n}
  /\ UNCHANGED <<skewed, mortal, sent, stored, pubs>>

Next ==
  \/ \E n \in Active \ down : GetSeqNo(n) \/ IncrSeqNo(n)
  \/ \E n \in Nodes \ down : \E v \in sent : Receive(n, v)
  \/ \E n \in Nodes \ down : timerExpired(n) \/ sendSyncInterest(n)
  \/ \E n \in mortal \ down : Save(n)
  \/ \E n \in mortal, restore \in BOOLEAN : Restart(n, restore)

Spec == Init /\ [][Next]_vars

\* What the nodes send when their timer expires, and what of it is under way.
Current == {sv[s] : s \in Active \ down} \cup UNION {Kept(s) : s \in Passive}
Repeated == Current \cap sent

\* The vectors now sent do not, together, hold all that n knows.  Only then is n
\* bound to send some time: as long as others say it again, each up-to-date vector
\* resets the timer of n, and in the suppression state n stays silent when those
\* it has heard cover what it knows.
Unsaid(n) == Repeated = {} \/ \E k \in Keys : \A v \in Repeated : v[k] < sv[n][k]

\* A passive node's period may be a year: it sends when an outdated vector has
\* brought it into the suppression state, and what it then heard lacks something.
Prompt(n) ==
  /\ ~suppress[n]
  /\ \E s \in Active \ down : sv[s] \in sent /\ IsOutdated(n, sv[s]) /\ Receive(n, sv[s])
  /\ suppress'[n]
Answer(n) ==
  suppress[n] /\ ~Covers(merge[n], sv[n]) /\ sendSyncInterest(n)

Learn(n) == n \notin down /\ \E v \in Repeated : Newer(n, v) # {} /\ Receive(n, v)

\* What is sent again and again gets through some time.  Late copies of vectors no
\* node sends any more are finitely many: an answer they have made needless is
\* needless finitely often.
Fairness ==
  /\ \A n \in Nodes : WF_vars(Learn(n))
  /\ \A n \in Active : WF_vars(n \notin down /\ Unsaid(n) /\ sendSyncInterest(n))
  /\ \A n \in Passive : WF_vars(Prompt(n)) /\ WF_vars(timerExpired(n)) /\ SF_vars(Answer(n))

FairSpec == Spec /\ Fairness

-----------------------------------------------------------------------------
Vectors == [Keys -> 0..MaxPubs]

\* Types.
TypeOK ==
  /\ sv \in [Nodes -> Vectors] /\ merge \in [Nodes -> Vectors]
  /\ suppress \in [Nodes -> BOOLEAN] /\ sent \subseteq Vectors
  /\ \A n \in Nodes :
       touched[n] \subseteq Nodes /\ stored[n] \subseteq Vectors /\ next[n] \in 0..MaxPubs

\* The object that has been produced gets the number it was produced under:
\* nobody else moves a node's own entry (produceObject panics on a mismatch).
\* The exception is a node restarted from a state saved before its last
\* publications, which hears of these from the others.
NumberedAsRead ==
  \A n \in Active \ stale : next[n] # 0 => next[n] = sv[n][Own(n)] + 1

\* A passive node can pass on all it knows: for every entry it has kept a signed
\* vector with just this number, also after it was loaded back from the store
\* in any order (the wire is kept when its number is at least the known one).
PassiveKeepsAll ==
  \A n \in Passive, k \in Keys : wires[n][k][k] = sv[n][k]

\* A node leaves the suppression state by sending, or when the vectors it has
\* heard in it, together, cover all it knows (timerExpired, the check for missing
\* entries): silence never hides an entry others lack.
SilenceIsCovered ==
  \A n \in Nodes : suppress[n] /\ ~suppress'[n] =>
    \/ Covers(merge[n], sv[n])
    \/ sv[n] \in sent'
    \/ \E v \in sent : Covers(v, sv'[n]) /\ sv'[n] = Join(sv[n], v)
    \/ restarts' > restarts

\* That is so of every step that ends the suppression state.
SilenceIsCoveredProp == [][SilenceIsCovered]_vars

\* Boot times the others accept.
Accepted(k) == k[1] \notin skewed

=============================================================================
