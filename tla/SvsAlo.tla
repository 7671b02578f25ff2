-------------------------------- MODULE SvsAlo --------------------------------
(***************************************************************************)
(* SvsALO: in-order delivery of a publisher's publications to one          *)
(* subscriber on top of state vector sync (svs_alo.go, svs_alo_data.go,    *)
(* svs_alo_initial_state.go), with its snapshot strategies (snapshot_*.go).*)
(*                                                                         *)
(* The subscriber hears of new sequence numbers (what SvSync promises of   *)
(* these is the subject of SvSync), fetches objects and snapshots, queues  *)
(* them for the application and may crash and restart from the state the   *)
(* application saved.  The publisher may restart under a new boot time.    *)
(* Congestion, failed fetches and stale caches are choices.                *)
(*                                                                         *)
(* "repo" is the history strategy in repo mode: snapshots are fetched for  *)
(* persistence as they appear, and delivered only when far behind.         *)
(***************************************************************************)
EXTENDS Integers, Sequences, FiniteSets

CONSTANTS MaxBoot,          \* boot times of the publisher are 1..MaxBoot
          MaxPubs,          \* its sequence numbers are 1..MaxPubs
          Threshold,        \* publications between snapshots
          MaxBreaks,        \* bound on the subscriber's crashes and absences
          Limits            \* per snapshot strategy ("null", "latest", "history",
                            \* "repo"), the pipeline size in use and the bounds on
                            \* boots, on publications over all boots, on absences,
                            \* and on what the subscriber publishes itself

VARIABLES strategy,    \* the snapshot strategy, the same at both
          boot,        \* the publisher's boot time
          prod,        \* per boot, the last publication in the publisher's store
          top,         \* per boot, the last publication it has announced
          sv,          \* per boot, the subscriber's state vector entry
          es,          \* per boot known to the subscriber, its svsDataState
          fetch,       \* per <<boot, seq>>, how many fetches are outstanding
          snap,        \* per boot, the snapshot fetch under way
          subscribed,
          outpipe,     \* publications on their way to the application
          at,          \* per boot, the last the application has handled in this run
          commit,      \* the state about to be saved by the subscriber's callback
          own,         \* the state about to be saved after an own publication
          saved,       \* the saved state
          repoKnown,   \* per boot, the last snapshot fetched in repo mode
          handled,     \* per boot, all the application has ever handled
          forgone,     \* per boot, what it may never get (for the properties)
          crashes, unsubs, owns

publisher == <<strategy, boot, prod, top>>
app == <<at, handled, commit, own, saved, crashes, unsubs, owns>>
vars == <<publisher, sv, es, fetch, snap, subscribed, outpipe, repoKnown, forgone, app>>

Strategies == DOMAIN Limits
Limit == Limits[strategy]
Boots == 1..MaxBoot
MaxPipelineSize == Limit.pipeline
Seqs == 1..MaxPubs
W == 2^30              \* sequence numbers are unsigned: their differences wrap
NoSnap == [stage |-> "none", known |-> 0, left |-> <<>>]
NoState == <<>>
Zero == [b \in Boots |-> 0]

Least(a, b) == IF a < b THEN a ELSE b
Greatest(a, b) == IF a > b THEN a ELSE b
Newest(S) == CHOOSE x \in S : \A y \in S : y <= x

NewEntry == [known |-> 0, latest |-> 0, pending |-> 0, pubs |-> {}, block |-> 0]

\* parseInstanceState: an entry per boot that has a number.
FromState(s) ==
  [b \in {x \in Boots : s[x] > 0} |->
    [NewEntry EXCEPT !.known = s[b], !.latest = s[b], !.pending = s[b]]]

Init ==
  /\ strategy \in Strategies
  /\ boot = 1 /\ prod = Zero /\ top = Zero /\ sv = Zero
  /\ es = FromState(Zero)
  /\ fetch = [k \in Boots \X Seqs |-> 0]
  /\ snap = [b \in Boots |-> NoSnap]
  /\ subscribed = TRUE
  /\ outpipe = <<>> /\ at = Zero
  /\ handled = [b \in Boots |-> {}] /\ forgone = [b \in Boots |-> {}]
  /\ commit = NoState /\ own = NoState /\ saved = Zero /\ repoKnown = Zero
  /\ crashes = 0 /\ unsubs = 0 /\ owns = 0

-----------------------------------------------------------------------------
\* The publisher.

\* The snapshots taken after n publications: onPublication takes one at the
\* first and then whenever Threshold have been added.
Snaps(n) == {s \in 1..n : (s - 1) % Threshold = 0}

\* takeSnap removes publications older than these from the store.
EvictedLatest(n) ==
  LET last == Newest(Snaps(n))
  IN IF n > 0 /\ last >= 4 * Threshold THEN last - 3 * Threshold ELSE 0

EvictedHistory(n) ==
  IF Cardinality(Snaps(n)) <= 4 THEN 0
  ELSE Newest({s \in Snaps(n) : Cardinality({r \in Snaps(n) : r >= s}) >= 3})

Evicted(n) ==
  CASE strategy = "latest" -> EvictedLatest(n)
    [] strategy \in {"history", "repo"} -> EvictedHistory(n)
    [] strategy = "null" -> 0

\* produceObject puts the object, and then a snapshot, into the store before
\* the sequence number goes up.
Produce ==
  /\ prod[boot] = top[boot]
  /\ Cardinality({<<b, s>> \in Boots \X Seqs : s <= prod[b]}) < Limit.pubs
  /\ prod' = [prod EXCEPT ![boot] = @ + 1]
  /\ UNCHANGED <<strategy, boot, top, sv, es, fetch, snap, subscribed, outpipe, repoKnown, forgone, app>>

Announce ==
  /\ top[boot] < prod[boot]
  /\ top' = [top EXCEPT ![boot] = prod[boot]]
  /\ UNCHANGED <<strategy, boot, prod, sv, es, fetch, snap, subscribed, outpipe, repoKnown, forgone, app>>

\* A restart under a new boot time.
Reboot ==
  /\ boot < Limit.boots /\ prod[boot] = top[boot] /\ top[boot] > 0
  /\ boot' = boot + 1
  /\ UNCHANGED <<strategy, prod, top, sv, es, fetch, snap, subscribed, outpipe, repoKnown, forgone, app>>

-----------------------------------------------------------------------------
\* consumeCheck.  The operators take the entries and return the new ones.

SnapDue(e, threshold) ==
  e.block = 0 /\ ((e.latest - e.pending) % W >= threshold \/ e.known = 0)

\* onUpdate of SnapshotNodeLatest: only the latest boot counts, all others are
\* blocked for good.
OnUpdateLatest(s) ==
  [b \in DOMAIN s |->
    IF b = Newest(DOMAIN s) THEN IF SnapDue(s[b], 2 * Threshold) THEN [s[b] EXCEPT !.block = 1]
                             ELSE s[b]
    ELSE IF s[b].block = -1 THEN s[b]
    ELSE [s[b] EXCEPT !.block = -1, !.known = s[b].latest, !.pending = s[b].latest]]

\* The number up to which snapshots are not asked for.
SnapKnown(s, b) == IF strategy = "repo" THEN repoKnown'[b] ELSE s[b].known

\* onUpdate of SnapshotNodeHistory.  In repo mode the last snapshot fetched counts,
\* not what has been delivered.
OnUpdateHistory(s) ==
  LET due(b) == IF strategy = "repo"
                THEN SnapDue([s[b] EXCEPT !.pending = SnapKnown(s, b), !.known = SnapKnown(s, b)],
                             Threshold + 1)
                ELSE SnapDue(s[b], 2 * Threshold)
  IN [b \in DOMAIN s |->
       IF s[b].pending < s[b].latest /\ due(b) THEN [s[b] EXCEPT !.block = 1] ELSE s[b]]

OnUpdate(s) ==
  IF DOMAIN s = {} THEN s
  ELSE CASE strategy = "latest" -> OnUpdateLatest(s)
         [] strategy \in {"history", "repo"} -> OnUpdateHistory(s)
         [] strategy = "null" -> s

\* Mutant: no fetch at all while the client is congested.
RoomUncongested(total, congested) ==
  Greatest(0, (IF congested THEN 0 ELSE MaxPipelineSize + 1) - total)

\* How many more fetches may start when there are so many.
Room(total, congested) ==
  Greatest(0, (IF congested THEN Least(2, MaxPipelineSize + 1) ELSE MaxPipelineSize + 1) - total)

\* The walk over the boots, with the pending fetches of all boots so far.
Walk(s, congested) ==
  LET walk[b \in 0..MaxBoot] ==
        IF b = 0 THEN [es |-> s, total |-> 0, full |-> FALSE, started |-> {}]
        ELSE IF walk[b - 1].full \/ b \notin DOMAIN s THEN walk[b - 1]
        ELSE LET w == walk[b - 1]
                 total == (w.total + s[b].pending - s[b].known) % W
                 gap == s[b].latest - s[b].pending
                 n == Least(gap, Room(total, congested))
             IN IF s[b].block # 0 \/ gap <= 0 THEN [w EXCEPT !.total = total]
                ELSE [es |-> [w.es EXCEPT ![b].pending = @ + n],
                      total |-> total + n, full |-> n < gap,
                      started |-> w.started \cup {<<b, s[b].pending + i>> : i \in 1..n}]
  IN walk[MaxBoot]

\* Applied to the entries s, with f the fetches and q the snapshot fetches left.
consumeCheck(s, f, q) ==
  IF ~subscribed' THEN es' = s /\ fetch' = f /\ snap' = q
  ELSE \E congested \in BOOLEAN : \E u \in {OnUpdate(s)} : \E w \in {Walk(u, congested)} :
         /\ es' = w.es
         /\ fetch' = [k \in DOMAIN f |-> IF k \in w.started THEN f[k] + 1 ELSE f[k]]
         /\ snap' = [b \in Boots |->
              IF b \in DOMAIN s /\ u[b].block = 1 /\ s[b].block = 0
              THEN [NoSnap EXCEPT !.stage = IF strategy = "latest" THEN "latest" ELSE "history",
                                  !.known = SnapKnown(s, b)] ELSE q[b]]

\* onSvsUpdate, with what SvSync tells: a higher number.
SvsUpdate(b) ==
  /\ \E high \in (sv[b] + 1)..top[b] :
       /\ sv' = [sv EXCEPT ![b] = high]
       /\ LET e == IF b \in DOMAIN es THEN es[b] ELSE NewEntry
              s == [x \in DOMAIN es \cup {b} |-> IF x = b THEN [e EXCEPT !.latest = high] ELSE es[x]]
          IN /\ UNCHANGED <<subscribed, repoKnown>>
             /\ consumeCheck(s, fetch, snap)
  /\ UNCHANGED <<publisher, outpipe, forgone, app>>

-----------------------------------------------------------------------------
\* What reaches the application: entries lo..seq of a boot, and the state that
\* goes with it.

\* Mutant: the state counts what is being fetched.
StateOfPending(s) == [b \in Boots |-> IF b \in DOMAIN s THEN s[b].pending ELSE 0]

StateOf(s) == [b \in Boots |-> IF b \in DOMAIN s THEN s[b].known ELSE 0]

\* queuePub addresses it to the subscribers of the moment, if there are any.
Pub(b, lo, seq, s) ==
  [boot |-> b, lo |-> lo, seq |-> seq, state |-> StateOf(s), to |-> subscribed]

\* Mutant: delivery in any order.
DrainAny(s, b) ==
  LET e == s[b]
      seq == Newest(e.pubs)
  IN [es |-> [s EXCEPT ![b].known = seq, ![b].pubs = @ \ {seq}],
      out |-> <<Pub(b, seq, seq, [s EXCEPT ![b].known = seq])>>]

\* The publications that are next in order, one by one.
Drain(s, b) ==
  LET drain[n \in 0..MaxPubs] ==
        IF n = 0 THEN [es |-> s, out |-> <<>>]
        ELSE LET d == drain[n - 1]
                 next == d.es[b].known + 1
                 moved == [d.es EXCEPT ![b].known = next, ![b].pubs = @ \ {next}]
             IN IF next \notin d.es[b].pubs THEN d
                ELSE [es |-> moved, out |-> Append(d.out, Pub(b, next, next, moved))]
  IN drain[MaxPubs]

Less(f, k) == [f EXCEPT ![k] = @ - 1]

\* What has been fetched for nobody is to be fetched again.
GiveBack(e, seq) == [e EXCEPT !.pending = Least(@, seq - 1)]

\* The callback of consumeObject: the object is there (ok) or an error, which
\* starts the fetch over two seconds later.
FetchDone(b, seq, ok) ==
  /\ fetch[<<b, seq>>] > 0
  /\ ok => seq > Evicted(prod[b]) /\ seq <= prod[b]
  /\ UNCHANGED <<subscribed, repoKnown>>
  /\ LET e == es[b]
         over == Less(fetch, <<b, seq>>)
     IN \/ /\ seq <= e.known
           /\ consumeCheck(es, over, snap) /\ UNCHANGED outpipe
        \/ /\ seq > e.known /\ (e.block # 0 \/ ~subscribed)
           /\ consumeCheck([es EXCEPT ![b] = GiveBack(e, seq)], over, snap)
           /\ UNCHANGED outpipe
        \/ /\ seq > e.known /\ e.block = 0 /\ subscribed /\ ~ok
           /\ consumeCheck(es, fetch, snap) /\ UNCHANGED outpipe
        \/ /\ seq > e.known /\ e.block = 0 /\ subscribed /\ ok
           /\ \E d \in {Drain([es EXCEPT ![b].pubs = @ \cup {seq}], b)} :
                /\ consumeCheck(d.es, over, snap)
                /\ outpipe' = outpipe \o d.out
  /\ UNCHANGED <<publisher, sv, forgone, app>>

-----------------------------------------------------------------------------
\* Snapshots.  A fetch may find an older version than the newest.

Forgo(b, S) == forgone' = [forgone EXCEPT ![b] = @ \cup S]

\* A snapshot is queued.  If nobody subscribes, nobody will handle it.
QueueSnap(b, lo, v, s) ==
  /\ outpipe' = Append(outpipe, Pub(b, lo, v, s))
  /\ Forgo(b, IF subscribed THEN {} ELSE lo..v)

\* handleSnap of SnapshotNodeLatest, for the snapshot taken at seq v.
handleSnap(b, v, ok) ==
  /\ snap[b].stage = "latest" /\ v \in Snaps(prod[b])
  /\ UNCHANGED <<subscribed, repoKnown>>
  /\ LET e == es[b]
         q == [snap EXCEPT ![b] = NoSnap]
         jump == [es EXCEPT ![b] = [e EXCEPT !.block = 0, !.known = v,
                                             !.pending = Greatest(e.pending, v)]]
     IN \/ /\ e.block # 1
           /\ consumeCheck(es, fetch, q) /\ UNCHANGED <<outpipe, forgone>>
        \/ /\ e.block = 1 /\ (~ok \/ e.known >= v)
           /\ consumeCheck([es EXCEPT ![b].block = 0], fetch, q) /\ UNCHANGED <<outpipe, forgone>>
        \/ /\ e.block = 1 /\ ok /\ e.known < v
           /\ consumeCheck(jump, fetch, q)
           /\ QueueSnap(b, 1, v, jump)
  /\ UNCHANGED <<publisher, sv, app>>

Ascending(S) ==
  [i \in 1..Cardinality(S) |-> CHOOSE x \in S : Cardinality({y \in S : y <= x}) = i]

\* handleIndex of SnapshotNodeHistory: the index as of snapshot v is there, and
\* the snapshots it lists are fetched one by one.
handleIndex(b, v) ==
  /\ snap[b].stage = "history" /\ v \in Snaps(prod[b])
  /\ snap' = [snap EXCEPT ![b].stage = "list",
                          ![b].left = Ascending({s \in Snaps(v) : s > snap[b].known})]
  /\ UNCHANGED <<publisher, sv, es, fetch, subscribed, outpipe, repoKnown, forgone, app>>

\* One snapshot of the list, of the publications since the one before it.  Those
\* already known are left out.  In repo mode a snapshot that is not far behind is
\* kept from the application, which is to get its publications one by one.
HistorySnap(b) ==
  /\ snap[b].stage = "list" /\ snap[b].left # <<>>
  /\ UNCHANGED subscribed
  /\ LET v == Head(snap[b].left)
         e == es[b]
         lo == Greatest(Greatest(0, v - Threshold), e.known) + 1
         q == [snap EXCEPT ![b].left = Tail(@)]
         jump == [es EXCEPT ![b].known = v, ![b].pending = Greatest(@, v)]
         kept == strategy = "repo" /\ e.latest <= v + 2 * Threshold
     IN /\ repoKnown' = IF strategy = "repo" THEN [repoKnown EXCEPT ![b] = v] ELSE repoKnown
        /\ IF kept \/ e.known >= v
           THEN consumeCheck(es, fetch, q) /\ UNCHANGED outpipe /\ Forgo(b, lo..v)
           ELSE consumeCheck(jump, fetch, q) /\ QueueSnap(b, lo, v, jump)
  /\ UNCHANGED <<publisher, sv, app>>

\* The end of the list, or an error on the way, unblocks the boot.
HistoryOver(b, failed) ==
  /\ \/ snap[b].stage = "list" /\ (failed \/ snap[b].left = <<>>)
     \/ snap[b].stage = "history" /\ failed
  /\ UNCHANGED <<subscribed, repoKnown>>
  /\ consumeCheck([es EXCEPT ![b].block = 0], fetch, [snap EXCEPT ![b] = NoSnap])
  /\ UNCHANGED <<publisher, sv, outpipe, forgone, app>>

-----------------------------------------------------------------------------
\* The application: it handles a publication and then saves its state.

QueueOf(b) == SelectSeq(outpipe, LAMBDA p : p.boot = b)
Queued(b) == UNION {QueueOf(b)[i].lo..QueueOf(b)[i].seq : i \in 1..Len(QueueOf(b))}

Handle ==
  /\ outpipe # <<>> /\ commit = NoState
  /\ LET p == Head(outpipe)
     IN /\ at' = [at EXCEPT ![p.boot] = p.seq]
        /\ handled' = [handled EXCEPT ![p.boot] = IF p.to THEN @ \cup p.lo..p.seq ELSE @]
        /\ commit' = IF p.to THEN p.state ELSE commit
  /\ outpipe' = Tail(outpipe)
  /\ UNCHANGED <<publisher, sv, es, fetch, snap, subscribed, repoKnown, forgone, own, saved,
                 crashes, unsubs, owns>>

Commit ==
  /\ commit # NoState
  /\ saved' = commit
  /\ commit' = NoState
  /\ UNCHANGED <<publisher, sv, es, fetch, snap, subscribed, outpipe, repoKnown, forgone, at,
                 handled, own, crashes, unsubs, owns>>

\* It publishes something itself, on another goroutine, and saves the state that
\* Publish returns.  This covers what is still queued.
Publish ==
  /\ own = NoState /\ owns < Limit.owns
  /\ own' = StateOf(es) /\ owns' = owns + 1
  /\ forgone' = [b \in Boots |-> forgone[b] \cup Queued(b)]
  /\ UNCHANGED <<publisher, sv, es, fetch, snap, subscribed, outpipe, repoKnown, at, handled,
                 commit, saved, crashes, unsubs>>

CommitOwn ==
  /\ own # NoState
  /\ saved' = own
  /\ own' = NoState
  /\ UNCHANGED <<publisher, sv, es, fetch, snap, subscribed, outpipe, repoKnown, forgone, at,
                 handled, commit, crashes, unsubs, owns>>

Unsubscribe ==
  /\ subscribed /\ unsubs < Limit.absences /\ crashes + unsubs < MaxBreaks
  /\ subscribed' = FALSE /\ unsubs' = unsubs + 1
  /\ UNCHANGED <<publisher, sv, es, fetch, snap, outpipe, repoKnown, forgone, at, handled,
                 commit, own, saved, crashes, owns>>

Subscribe ==
  /\ ~subscribed /\ subscribed' = TRUE
  /\ UNCHANGED repoKnown
  /\ consumeCheck(es, fetch, snap)
  /\ UNCHANGED <<publisher, sv, outpipe, forgone, app>>

\* A crash, and a restart from the saved state; what the application has done
\* stays done.  initialize has one more snapshot fetched again.
Crash ==
  /\ crashes + unsubs < MaxBreaks /\ crashes' = crashes + 1
  /\ sv' = saved /\ es' = FromState(saved)
  /\ fetch' = [k \in DOMAIN fetch |-> 0]
  /\ snap' = [b \in Boots |-> NoSnap]
  /\ subscribed' = TRUE /\ outpipe' = <<>>
  /\ at' = saved
  /\ commit' = NoState /\ own' = NoState
  /\ repoKnown' = IF strategy = "repo" THEN [b \in Boots |-> Greatest(0, saved[b] - Threshold)]
                  ELSE repoKnown
  /\ UNCHANGED <<publisher, handled, forgone, saved, unsubs, owns>>

Next ==
  \/ Produce \/ Announce \/ Reboot
  \/ \E b \in Boots : SvsUpdate(b) \/ HistorySnap(b)
  \/ \E b \in Boots, seq \in Seqs, ok \in BOOLEAN : FetchDone(b, seq, ok) \/ handleSnap(b, seq, ok)
  \/ \E b \in Boots, v \in Seqs : handleIndex(b, v)
  \/ \E b \in Boots, failed \in BOOLEAN : HistoryOver(b, failed)
  \/ Handle \/ Commit \/ Publish \/ CommitOwn
  \/ Unsubscribe \/ Subscribe \/ Crash

Spec == Init /\ [][Next]_vars

\* Timers run, answers come in the end, and goroutines are scheduled.  A list of
\* snapshots that keeps failing half way gets through some time.
SnapCurrent(b) == prod[b] > 0 /\ LET v == Newest(Snaps(prod[b]))
                                  IN handleSnap(b, v, TRUE) \/ handleIndex(b, v)
Fairness ==
  /\ WF_vars(Announce) /\ WF_vars(Handle) /\ WF_vars(Commit) /\ WF_vars(CommitOwn)
  /\ \A b \in Boots : /\ WF_vars(SvsUpdate(b)) /\ SF_vars(SnapCurrent(b))
                       /\ SF_vars(HistorySnap(b)) /\ WF_vars(HistoryOver(b, FALSE))
                       /\ \A seq \in Seqs : WF_vars(FetchDone(b, seq, TRUE))

FairSpec == Spec /\ Fairness

-----------------------------------------------------------------------------
\* Types.
TypeOK ==
  /\ strategy \in Strategies /\ boot \in Boots
  /\ \A b \in Boots : top[b] <= prod[b] /\ sv[b] <= prod[b] /\ saved[b] <= prod[b]
  /\ \A b \in DOMAIN es : es[b] \in [known : 0..MaxPubs, latest : 0..MaxPubs,
                                     pending : 0..MaxPubs, pubs : SUBSET Seqs, block : {-1, 0, 1}]
  /\ \A k \in DOMAIN fetch : fetch[k] \in Nat
  /\ \A b \in Boots : snap[b].stage # "none" => b \in DOMAIN es

\* Pending behind Known: the difference wraps, and no more fetches are started.
Wrapped(b) == es[b].pending < es[b].known

\* What is queued for the application goes on, boot by boot, where it has got
\* to: each publication is the next one, each snapshot leaves no gap, nothing
\* comes twice, and the queue ends at Known (consumeObject, handleSnap,
\* handleIndex: fetches that end out of order, snapshots that overtake them,
\* retries).  Only in repo mode there may be a gap, of publications that came in
\* a snapshot kept from the application.  Pending falls behind Known only after
\* an absence.  (The types are checked along with this.)
QueueInOrder ==
  /\ TypeOK
  /\ \A b \in DOMAIN es :
       LET q == QueueOf(b)
           before(i) == IF i = 1 THEN at[b] ELSE q[i - 1].seq
       IN /\ \A i \in 1..Len(q) :
               /\ q[i].seq > before(i)
               /\ \A n \in (before(i) + 1)..(q[i].lo - 1) : strategy = "repo" /\ n \in forgone[b]
          /\ es[b].block # -1 => before(Len(q) + 1) = es[b].known
          /\ Wrapped(b) => unsubs > 0

\* With "latest" only the newest boot counts.
Counts(b) == strategy = "latest" => b = boot

\* The saved state covers nothing the application has not handled, so that a
\* restart from it loses nothing: at-least-once delivery (instanceState,
\* queuePub).  The exceptions are what was queued when the application published
\* and saved the state it got back, what was in a snapshot that nobody subscribed
\* to, and in repo mode what was in a snapshot kept from the application.
CommittedWasHandled ==
  \A b \in Boots : Counts(b) => 1..saved[b] \subseteq handled[b] \cup forgone[b]

AllHandled ==
  \A b \in Boots : Counts(b) =>
    1..top[b] \subseteq handled[b] \cup IF crashes + unsubs > 0 \/ strategy = "repo" THEN forgone[b]
                                       ELSE {}

\* The next publication can be had neither from the publisher, which has evicted
\* it, nor from a snapshot, which repo mode has fetched and kept.
Unavailable ==
  strategy = "repo" /\ \E b \in DOMAIN es : /\ es[b].known + 1 \in forgone[b]
                                           /\ es[b].known < Evicted(prod[b])

\* Whoever is subscribed in the end gets everything that has been announced,
\* through failures, snapshots, absences and a restart (consumeCheck is called
\* after every event that may make room), but for the exceptions above.  It hangs
\* when Pending has wrapped, and in repo mode when a publication is unavailable.
EverythingArrives ==
  <>[]subscribed => <>[](AllHandled \/ Unavailable \/ \E b \in DOMAIN es : Wrapped(b))
=============================================================================
