----------------------------- MODULE SegFetcher -----------------------------
(***************************************************************************)
(* The object client's segment fetcher (std/object/client_consume*.go and  *)
(* expressr.go) on top of the engine's pending Interests.  An application  *)
(* consumes one object in several streams: one of a versioned name goes to *)
(* the fetcher at once, one of the bare name first asks for any segment    *)
(* (fetchDataByPrefix) to learn the version.                               *)
(*                                                                         *)
(* Several goroutines run the fetcher's code: the application's (add), the *)
(* engine's (results of Data and Nacks) and one for each timer that goes   *)
(* off.  A step is a stretch of code between two points where another      *)
(* goroutine can get in: taking Interests out of the trie, handling one    *)
(* result, looking for a stream with work, taking its next segment,        *)
(* expressing it, and counting it.  The code takes the segment             *)
(* (seg = Pending, Pending++) under no lock: two goroutines that do so at  *)
(* once have a data race, and the model gives them every outcome           *)
(* (TakeTogether).                                                         *)
(*                                                                         *)
(* All Data are signed with one key.  Until its certificate is in the      *)
(* cache, Data that arrive wait for it to be fetched, and are stored when  *)
(* it comes, long after the goroutine that received them has gone on.      *)
(***************************************************************************)
EXTENDS Engine, SequencesExt

CONSTANTS Streams,     \* the ConsumeStates
          Versioned,   \* those whose name has a version
          MaxRetries,  \* maxRetries of the fetcher
          Retries,     \* Retries of fetchDataByPrefix
          Setups       \* instances: the streams consumed, the segments of the
                       \* object, the fixed congestion window, the timers that may
                       \* be running at once, whether the certificate is cached,
                       \* and what goes wrong and how often, at most

\* An Interest or its Data is lost, refused Data, Nacks, an Interest cannot be
\* made or sent, Cancel, a data race, the certificate cannot be had.
FaultKinds == {"loss", "refused", "congestion", "duplicate", "noroute", "send", "cancel", "race",
               "certificate"}

ASSUME FetcherAssumption ==
  /\ Versioned \subseteq Streams
  /\ MaxRetries \in Nat \ {0} /\ Retries \in Nat
  /\ Setups \subseteq [consumed : SUBSET Streams, segCnt : Nat \ {0}, window : Nat \ {0},
                      timers : SUBSET STRING, cached : BOOLEAN, faults : SUBSET FaultKinds, maxFaults : Nat]

VARIABLES trie,        \* the engine's PIT
          timers,      \* the armed timer of an Interest: the node it points to
          state,       \* ConsumeState of each stream
          fetcher,     \* the rrSegFetcher
          job,         \* what each goroutine is doing
          cert,        \* "cached" from the start, "missing" or "fetched"
          validating,  \* the Interests whose Data wait for the certificate
          asked,       \* every Interest expressed
          failed,      \* those check() has given an error itself
          faults,      \* the faults so far
          setup        \* the instance

vars == <<trie, timers, state, fetcher, job, cert, validating, asked, failed, faults, setup>>

SegCnt == setup.segCnt
Window == setup.window

ByPrefix == -1
Procs == {"app", "engine"} \cup setup.timers
\* An Interest: the stream, the segment asked for, the retries left, and which
\* of those it is that goroutines racing for a segment make alike.
Interest(s, seg, retries, twin) ==
  [s |-> s, seg |-> seg, retries |-> retries, twin |-> twin, canBePrefix |-> seg = ByPrefix]
Interests ==
  {Interest(s, ByPrefix, r, 0) : s \in Streams, r \in 0..Retries}
    \cup {Interest(s, seg, r, t) : s \in Streams, seg \in 0..(SegCnt + Cardinality(Procs)),
                                  r \in 1..MaxRetries, t \in 0..Cardinality(Procs)}
Idle == [at |-> "idle", on |-> {}, next |-> {}, todo |-> <<>>]

NameOf(seg) == IF seg = ByPrefix THEN <<"object">> ELSE <<"object", seg>>

Init ==
  /\ setup \in Setups
  /\ trie = NewTrie
  /\ timers = <<>>
  /\ state = [s \in Streams |-> [begun |-> FALSE, complete |-> FALSE, end |-> "none", segCnt |-> -1,
                                 content |-> {}, fetching |-> 0, pending |-> 0, tx |-> 0]]
  /\ fetcher = [streams |-> <<>>, rr |-> 0, outstanding |-> 0, retx |-> <<>>]
  /\ job = [p \in Procs |-> Idle]
  /\ asked = {} /\ failed = {} /\ validating = {}
  /\ cert = IF setup.cached THEN "cached" ELSE "missing"
  /\ faults = [count |-> 0, kinds |-> {}]

Faulty(kind) == kind \in setup.faults /\ faults.count < setup.maxFaults
Fault(kind) == [count |-> faults.count + 1, kinds |-> faults.kinds \cup {kind}]
Waiting == UNION {ToSet(trie[x].val) : x \in DOMAIN trie}
-----------------------------------------------------------------------------
\* finalizeError, Cancel and the callback of a stream that is complete.
Finished(st, end) == IF st.complete THEN st ELSE [st EXCEPT !.complete = TRUE, !.end = end]

\* findWork: the round robin, which drops complete streams as it meets them.
RECURSIVE findWork(_, _, _)
findWork(streams, rr, i) ==
  LET at == (rr + 1) % Len(streams)
      s == streams[at + 1]
      left == SelectSeq(streams, LAMBDA t : t # s)
      busy == \/ state[s].segCnt = -1 /\ state[s].pending > 0
              \/ state[s].segCnt > 0 /\ state[s].pending >= state[s].segCnt
  IN CASE i >= Len(streams) -> [streams |-> streams, rr |-> rr, work |-> {}]
       [] i < Len(streams) /\ state[s].complete ->
            IF left = <<>> THEN [streams |-> left, rr |-> 0, work |-> {}]
            ELSE findWork(left, IF at = 0 THEN Len(left) - 1 ELSE at - 1, i)
       [] i < Len(streams) /\ ~state[s].complete /\ busy -> findWork(streams, at, i + 1)
       [] OTHER -> [streams |-> streams, rr |-> at, work |-> {s}]

Taking(p, s) == job[p].at = "take" /\ job[p].on = {s}

\* One round of check(), up to the Interest or the stream it
\* has chosen.  Two goroutines that choose the same stream race.
Check(p) ==
  /\ job[p].at = "check"
  /\ \/ /\ fetcher.outstanding >= Window
        /\ job' = [job EXCEPT ![p].at = "idle"]
        /\ UNCHANGED <<fetcher, faults>>
     \/ /\ fetcher.outstanding < Window /\ fetcher.retx # <<>>
        /\ fetcher' = [fetcher EXCEPT !.retx = Tail(@)]
        /\ job' = [job EXCEPT ![p].at = "send", ![p].next = {Head(fetcher.retx)}]
        /\ UNCHANGED faults
     \/ /\ fetcher.outstanding < Window /\ fetcher.retx = <<>>
        /\ \E f \in {findWork(fetcher.streams, fetcher.rr, 0)} :
             /\ fetcher' = [fetcher EXCEPT !.streams = f.streams, !.rr = f.rr]
             /\ job' = [job EXCEPT ![p].on = f.work,
                                   ![p].at = IF f.work = {} THEN "idle" ELSE "take"]
             /\ IF \E q \in Procs, s \in f.work : Taking(q, s)
                THEN Faulty("race") /\ faults' = Fault("race") ELSE UNCHANGED faults
  /\ UNCHANGED <<trie, timers, state, cert, validating, asked, failed, setup>>

\* The next segment of the stream findWork returned.
NextOf(s) ==
  LET same == {e \in asked \cup UNION {job[p].next : p \in Procs} :
                 e.s = s /\ e.seg = state[s].pending /\ e.retries = MaxRetries}
  IN Interest(s, state[s].pending, MaxRetries, Cardinality(same))

Take(p) ==
  \E s \in job[p].on :
    /\ Taking(p, s)
    /\ job' = [job EXCEPT ![p].at = "send", ![p].on = {}, ![p].next = {NextOf(s)}]
    /\ state' = [state EXCEPT ![s].pending = @ + 1]
    /\ UNCHANGED <<trie, timers, fetcher, cert, validating, asked, failed, faults, setup>>

\* Both read Pending before either has counted it up, once or twice.
TakeTogether(p, q) ==
  \E s \in job[p].on, n \in 1..2 :
    /\ p # q /\ Taking(p, s) /\ Taking(q, s)
    /\ job' = [job EXCEPT ![p].at = "send", ![p].on = {}, ![p].next = {NextOf(s)},
                          ![q].at = "send", ![q].on = {},
                          ![q].next = {[NextOf(s) EXCEPT !.twin = @ + 1]}]
    /\ state' = [state EXCEPT ![s].pending = @ + n]
    /\ UNCHANGED <<trie, timers, fetcher, cert, validating, asked, failed, faults, setup>>

\* The Interest e cannot be made or sent: its result is an error, which counts
\* one down although none has been counted (ExpressR counts nothing).
SendFails(p, e) ==
  /\ Faulty("send") /\ faults' = Fault("send")
  /\ failed' = failed \cup {e}
  /\ fetcher' = [fetcher EXCEPT !.outstanding = IF e.canBePrefix THEN @ ELSE @ - 1]
  /\ state' = [state EXCEPT ![e.s] = Finished(@, "error")]
  /\ job' = [job EXCEPT ![p].next = {},
               ![p].at = IF e.canBePrefix \/ state[e.s].complete THEN "idle" ELSE "check"]

\* Express, from the fetcher or from ExpressR.  An Interest whose sending
\* fails stays in the trie.
Express(p) ==
  /\ job[p].at = "send"
  /\ \E e \in job[p].next :
       \/ /\ \E t \in MatchAlways(trie, NameOf(e.seg)) : \E x \in {PrefixMatch(t, NameOf(e.seg))} :
               /\ trie' = Injected(t, x, e)
               /\ timers' = (e :> x) @@ timers
          /\ asked' = asked \cup {e}
          /\ \/ /\ job' = [job EXCEPT ![p].next = {},
                             ![p].at = IF e.canBePrefix THEN "idle" ELSE "count"]
                /\ UNCHANGED <<state, fetcher, failed, faults>>
             \/ SendFails(p, e)
       \/ SendFails(p, e) /\ UNCHANGED <<trie, timers, asked>>
  /\ UNCHANGED <<cert, validating, setup>>

\* incrementOutstanding, when the Interest may already have its result.
Count(p) ==
  /\ job[p].at = "count"
  /\ fetcher' = [fetcher EXCEPT !.outstanding = @ + 1]
  /\ job' = [job EXCEPT ![p].at = "check"]
  /\ UNCHANGED <<trie, timers, state, cert, validating, asked, failed, faults, setup>>

\* Consume: add() for a versioned name, else fetchDataByPrefix.
Consume(s) ==
  /\ s \in setup.consumed /\ ~state[s].begun /\ job["app"].at = "idle"
  /\ state' = [state EXCEPT ![s].begun = TRUE]
  /\ IF s \in Versioned
     THEN /\ fetcher' = [fetcher EXCEPT !.streams = Append(@, s)]
          /\ job' = [job EXCEPT !["app"].at = "check"]
     ELSE /\ job' = [job EXCEPT !["app"].at = "send",
                       !["app"].next = {Interest(s, ByPrefix, Retries, 0)}]
          /\ UNCHANGED fetcher
  /\ UNCHANGED <<trie, timers, cert, validating, asked, failed, faults, setup>>

Cancel(s) ==
  /\ Faulty("cancel") /\ state[s].begun /\ ~state[s].complete
  /\ faults' = Fault("cancel")
  /\ state' = [state EXCEPT ![s] = Finished(@, "cancelled")]
  /\ UNCHANGED <<trie, timers, fetcher, job, cert, validating, asked, failed, setup>>
-----------------------------------------------------------------------------
\* enqueueForRetransmission, with the retries already counted down.
Requeued(e, s) == IF e.retries = 1 THEN Finished(s, "error") ELSE s
\* Mutant: the segment is not queued.
RequeueNever(e, q) == q
Requeue(e, q) == IF e.retries = 1 THEN q ELSE Append(q, [e EXCEPT !.retries = @ - 1])

\* Mutant: the last segment completes the stream.
StoredLast(st, seg) ==
  LET known == IF st.segCnt = -1 THEN [st EXCEPT !.segCnt = SegCnt, !.tx = SegCnt] ELSE st
      got == [known EXCEPT !.content = @ \cup {seg}, !.tx = @ - 1]
  IN IF seg = SegCnt - 1 THEN Finished(got, "success") ELSE got

\* handleValidatedData: the segment is stored, the window moves over what is there.
Stored(st, seg) ==
  LET known == IF st.segCnt = -1 THEN [st EXCEPT !.segCnt = SegCnt, !.tx = SegCnt] ELSE st
      got == [known EXCEPT !.content = @ \cup {seg}, !.tx = @ - 1]
      upto == CHOOSE k \in got.fetching..SegCnt :
                /\ got.fetching..(k - 1) \subseteq got.content
                /\ k \notin got.content
      moved == IF got.fetching = seg THEN [got EXCEPT !.fetching = upto] ELSE got
  IN IF got.fetching = seg /\ moved.fetching = moved.segCnt /\ moved.tx = 0
     THEN Finished(moved, "success") ELSE moved

\* Mutant: the result of a complete stream is not counted.
DecrementUnlessComplete(st) ==
  IF st.complete THEN fetcher ELSE [fetcher EXCEPT !.outstanding = @ - 1]

\* decrementOutstanding, whatever has become of the stream.
decrementOutstanding(st) == [fetcher EXCEPT !.outstanding = @ - 1]

\* The streams left when st is what has become of stream s.
Left(streams, s, st) ==
  IF st.end = "success" THEN SelectSeq(streams, LAMBDA t : t # s) ELSE streams

\* ValidateExt calls back at once, or when the certificate has come.
AwaitsCertificate(res) == res = "data" /\ cert = "missing"

\* handleResult: the fetcher's callback for the Interest e.  Data that wait for
\* the certificate are stored later; the look for more work is now.
handleResult(p, e, res) ==
  LET st == state[e.s]
      again == res \in {"timeout", "congestion"}
      st1 == CASE res = "data" -> IF AwaitsCertificate(res) THEN st ELSE Stored(st, e.seg)
               [] again -> Requeued(e, st)
               [] res = "duplicate" -> st
               [] OTHER -> Finished(st, "error")
      less == decrementOutstanding(st)
  IN IF st.complete
     THEN /\ fetcher' = less
          /\ job' = [job EXCEPT ![p].todo = Tail(@)]
          /\ UNCHANGED <<state, validating>>
     ELSE /\ state' = [state EXCEPT ![e.s] = st1]
          /\ fetcher' = [less EXCEPT !.retx = IF again THEN Requeue(e, @) ELSE @,
                                     !.streams = Left(@, e.s, st1)]
          /\ validating' = IF AwaitsCertificate(res) THEN validating \cup {e} ELSE validating
          /\ job' = [job EXCEPT ![p].todo = Tail(@), ![p].at = "check"]

\* Mutant: a timeout is not tried again.
PrefixResultOnce(p, e, res) ==
  LET left == [job EXCEPT ![p].todo = Tail(@)]
  IN IF res = "data"
     THEN /\ fetcher' = [fetcher EXCEPT !.streams = Append(@, e.s)]
          /\ job' = [left EXCEPT ![p].at = "check"]
          /\ UNCHANGED <<state, validating>>
     ELSE /\ job' = left
          /\ UNCHANGED <<fetcher, state, validating>>

\* ExpressR's callback: again on a timeout; the version is known on valid Data.
PrefixResult(p, e, res) ==
  LET left == [job EXCEPT ![p].todo = Tail(@)]
  IN CASE AwaitsCertificate(res) ->
            /\ validating' = validating \cup {e}
            /\ job' = left
            /\ UNCHANGED <<state, fetcher>>
       [] res = "data" /\ ~AwaitsCertificate(res) ->
            /\ fetcher' = [fetcher EXCEPT !.streams = Append(@, e.s)]
            /\ job' = [left EXCEPT ![p].at = "check"]
            /\ UNCHANGED <<state, validating>>
       [] res = "timeout" /\ e.retries > 0 ->
            /\ job' = [left EXCEPT ![p].at = "send", ![p].next = {[e EXCEPT !.retries = @ - 1]}]
            /\ UNCHANGED <<state, fetcher, validating>>
       [] OTHER ->
            /\ state' = [state EXCEPT ![e.s] = Finished(@, "error")]
            /\ job' = left
            /\ UNCHANGED <<fetcher, validating>>

\* The callback of the next Interest the goroutine took out of the trie.
Callback(p) ==
  /\ job[p].at = "idle" /\ job[p].todo # <<>>
  /\ \E r \in {Head(job[p].todo)} :
       IF r.e.canBePrefix THEN PrefixResult(p, r.e, r.res) ELSE handleResult(p, r.e, r.res)
  /\ UNCHANGED <<trie, timers, cert, asked, failed, faults, setup>>

Free(p) == job[p].at = "idle" /\ job[p].todo = <<>>

\* The Interests popped, which leaves the trie h, are called back by p; the
\* timers that are left are the armed ones.
Popped(p, popped, res, h, armed) ==
  /\ job' = [job EXCEPT ![p].todo = [i \in 1..Len(popped) |-> [e |-> popped[i], res |-> res]]]
  /\ timers' = [e \in armed |-> timers[e]]
  /\ trie' = Collect(h, {timers[e] : e \in armed})
  /\ UNCHANGED <<state, fetcher, cert, validating, asked, failed, setup>>

\* onData: a segment arrives that an Interest, still in the trie, asks for.
onDataPacket(seg, res) ==
  /\ Free("engine")
  /\ \E popped \in {Matched(trie, NameOf(seg))} :
       /\ popped # <<>>
       /\ \E h \in {onDataMatch(trie, NameOf(seg), ToSet(popped))} :
            Popped("engine", popped, res, h, DOMAIN timers \ ToSet(popped))

onData(seg) == onDataPacket(seg, "data") /\ UNCHANGED faults

\* One that is refused: not valid, or without a usable FinalBlockId.
onRefusedData(seg) ==
  Faulty("refused") /\ onDataPacket(seg, "refused") /\ faults' = Fault("refused")

onNackPacket(seg, reason) ==
  /\ Free("engine") /\ Faulty(reason)
  /\ \E popped \in {Nacked(trie, NameOf(seg))} :
       /\ popped # <<>>
       /\ \E h \in {onNack(trie, NameOf(seg))} :
            Popped("engine", popped, reason, h, DOMAIN timers \ ToSet(popped))
  /\ faults' = Fault(reason)

\* Each Interest has a timer of its own.
StillArmed(e) == DOMAIN timers \ {e}

\* The timer of e, on a goroutine of its own.  The Interests of its node that were
\* expressed before e are due as well, and so may be later ones.  A timer whose
\* Interest another one of the same node has already taken out still runs.
Timeout(e) ==
  /\ \E p \in setup.timers : Free(p)
  /\ \E x \in {timers[e]}, p \in {CHOOSE t \in setup.timers : Free(t)} :
       \E k \in 0..Len(trie[x].val) :
         \E popped \in {SubSeq(trie[x].val, 1, k)} :
           /\ e \in ToSet(trie[x].val) => e \in ToSet(popped)
           /\ IF x \in InTrie(trie) /\ \E d \in ToSet(popped) : d.seg < SegCnt
              THEN Faulty("loss") /\ faults' = Fault("loss")
              ELSE UNCHANGED faults
           /\ \E h \in {onExpressTimeout(trie, x, ToSet(popped))} :
                Popped(p, popped, "timeout", h, StillArmed(e))

\* The certificate that the Data of e wait for comes in, and they are valid; a
\* stream's segment is stored, and nothing looks for more work.
onCertificate(e) ==
  /\ Free("engine")
  /\ cert' = "fetched" /\ validating' = validating \ {e}
  /\ IF e.canBePrefix
     THEN /\ fetcher' = [fetcher EXCEPT !.streams = Append(@, e.s)]
          /\ job' = [job EXCEPT !["engine"].at = "check"]
          /\ UNCHANGED state
     ELSE /\ state' = [state EXCEPT ![e.s] = Stored(@, e.seg)]
          /\ fetcher' = [fetcher EXCEPT !.streams = Left(@, e.s, state'[e.s])]
          /\ UNCHANGED job
  /\ UNCHANGED <<trie, timers, asked, failed, faults, setup>>

\* It cannot be had, or it is not valid.
onNoCertificate(e) ==
  /\ Faulty("certificate") /\ faults' = Fault("certificate")
  /\ validating' = validating \ {e}
  /\ state' = [state EXCEPT ![e.s] = Finished(@, "error")]
  /\ UNCHANGED <<trie, timers, fetcher, job, cert, asked, failed, setup>>
-----------------------------------------------------------------------------
Work(p) == Check(p) \/ Take(p) \/ (\E q \in Procs : TakeTogether(p, q)) 
           \/ Express(p) \/ Count(p) \/ Callback(p)

Next ==
  \/ \E p \in Procs : Work(p)
  \/ \E s \in Streams : Consume(s) \/ Cancel(s)
  \/ \E seg \in 0..(SegCnt - 1) : onData(seg) \/ onRefusedData(seg)
  \/ \E seg \in ByPrefix..(SegCnt - 1), reason \in {"congestion", "duplicate", "noroute"} :
       onNackPacket(seg, reason)
  \/ \E e \in DOMAIN timers : Timeout(e)
  \/ \E e \in validating : onCertificate(e) \/ onNoCertificate(e)

\* What goes on without a fault: goroutines are scheduled, the producer answers
\* an Interest that can be matched, and the timer of any other goes off.
Progress ==
  \/ \E p \in Procs : Work(p)
  \/ \E s \in Streams : Consume(s)
  \/ \E seg \in 0..(SegCnt - 1) : onData(seg)
  \/ \E e \in DOMAIN timers : (timers[e] \notin InTrie(trie) \/ e.seg >= SegCnt) /\ Timeout(e)
  \/ \E e \in validating : onCertificate(e)

Spec == Init /\ [][Next]_vars /\ WF_vars(Progress)
-----------------------------------------------------------------------------
TypeOK ==
  /\ \A x \in DOMAIN trie : ToSet(trie[x].val) \subseteq Interests
  /\ DOMAIN timers \subseteq asked /\ asked \subseteq Interests
  /\ \A s \in Streams : /\ state[s].segCnt \in {-1, SegCnt}
                        /\ state[s].pending \in 0..(SegCnt + Cardinality(Procs))
                        /\ state[s].fetching \in 0..SegCnt
                        /\ state[s].end \in {"none", "success", "error", "cancelled"}
  /\ fetcher.outstanding \in Int /\ ToSet(fetcher.retx) \subseteq Interests
  /\ \A p \in Procs : /\ job[p].at \in {"idle", "check", "take", "send", "count"}
                       /\ job[p].next \subseteq Interests

InFlight ==
  {e \in Waiting \cup UNION {{r.e : r \in ToSet(job[p].todo)} : p \in Procs} : ~e.canBePrefix}

Counting == {p \in Procs : job[p].at = "count"}

\* The fetcher's counter is the Interests that are on their way, less those
\* expressed and not yet counted; one that could not be sent has taken one off it,
\* and a second one if its timer has given it a result as well.  What is on its way
\* exceeds the window by no more than the goroutines that had seen room for one at
\* the same time, and two for each that could not be sent (IsCongested, Express and
\* incrementOutstanding are apart).  (The types are checked along with this.)
WindowHeld ==
  LET lost == {e \in failed : ~e.canBePrefix}
      sent == Cardinality(InFlight \ lost)
  IN /\ TypeOK
     /\ fetcher.outstanding = sent - Cardinality(Counting) - Cardinality(lost)
                                - Cardinality((lost \cap asked) \ InFlight)
     /\ sent <= Window + Cardinality(Procs) - 1 + 2 * Cardinality(lost)

\* A segment a stream has begun to fetch is in one place until the stream is
\* complete: fetched, on its way, waiting to be sent again, being sent or waiting
\* for the certificate.  Only a Nack for a duplicate, which handleResult ignores,
\* loses one, and a race for a segment may ask for one twice or skip one.
SegmentsAccounted ==
  faults.kinds \cap {"duplicate", "race"} # {}
  \/ \A s \in Streams : ~state[s].complete =>
       \A seg \in 0..(state[s].pending - 1) :
         LET places == ToSet(fetcher.retx) \cup InFlight \cup validating
                         \cup UNION {job[p].next : p \in Procs}
             here == {e \in places : e.s = s /\ e.seg = seg}
         IN IF seg \in state[s].content THEN here = {} ELSE Cardinality(here) = 1

\* A stream reported as a success has all segments, none of which is still
\* being asked for: handleValidatedData counts every segment once.
SuccessIsWhole ==
  \A s \in Streams : state[s].end = "success" =>
    /\ state[s].content = 0..(SegCnt - 1)
    /\ "race" \in faults.kinds \/ \A e \in InFlight \cup ToSet(fetcher.retx) : e.s # s

\* Every stream is completed, with the object or with an error, although
\* Interests are lost, cut off from the trie or not sent.  Not so after a Nack for
\* a duplicate, after a Cancel (the results of a cancelled stream return without
\* looking for the work of the others), after a race for a segment, and when the
\* certificate was fetched: what is stored then is not followed by a check().
StreamsComplete ==
  \A s \in Streams :
    [](state[s].begun => <>(\/ state[s].complete \/ cert = "fetched"
                            \/ faults.kinds \cap {"duplicate", "cancel", "race"} # {}))

\* Consume fetches an object with a given name: what has begun is completed.
ConsumeCompletes == \A s \in Streams : state[s].begun ~> state[s].complete
=============================================================================
