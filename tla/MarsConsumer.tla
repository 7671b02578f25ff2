----------------------------- MODULE MarsConsumer -----------------------------
(***************************************************************************)
(* One flow of the MARS consumer (apps/consumer/consumer.go): path         *)
(* discovery (PD), tier by tier until the nodes report convergence, and    *)
(* then data transmission (DT) of MaxPackets packets with retransmissions. *)
(*                                                                         *)
(* Four goroutines meet here: the sender (runFlow), the retransmission     *)
(* controller's scheduler, the callbacks of the engine, and the            *)
(* coordination of the flows.  They share the flow's context under its     *)
(* lock and read its mode and name without.  The rate control that hands   *)
(* out the sender's tokens is a choice.                                    *)
(***************************************************************************)
EXTENDS Integers, Sequences, FiniteSets

CONSTANTS MaxPackets,
          MaxTier,          \* bound on the tiers probed
          RehearsalBudget,
          OtherFlows,       \* number of other flows
          Setups            \* modes the consumer is started in, with the bounds below

ASSUME MarsAssumption ==
  /\ MaxPackets \in Nat /\ MaxTier \in Nat /\ RehearsalBudget \in Nat /\ OtherFlows \in Nat
  /\ \A setup \in Setups : setup.mode \in {"PD", "DT"} /\ setup.tokens \in Nat

VARIABLES limits,           \* bounds on the transmissions of a name, on the Interests of
                            \* one tick, and on faults
          mode, pd,         \* the flow's mode, and its state in path discovery
          pdFinishedCount,  \* flows that have finished path discovery
          reset,            \* is there a signal in resetSignal?
          pending,          \* pendingSends: per name, has it been retransmitted?
          total, finished,  \* pktsReceivedTotal, isFinished
          retxQueue, retxQueued,
          active, pq,       \* the controller's names, and timers per name
          expired,          \* the name whose PD timeout is being handled, or None
          seqNum, tokens,   \* the sender's counters
          hand,             \* the Interest it is sending, or None
          copies,           \* the transmissions the engine has, and their callbacks
          sent,             \* per DT sequence number, how often it was recorded
          received,         \* the DT sequence numbers counted
          faults,           \* how many Nacks, ended lifetimes and contents without
                            \* sense there were
          quirks            \* what has happened that spoils the bookkeeping

vars == <<limits, mode, pd, pdFinishedCount, reset, pending, total, finished, retxQueue,
          retxQueued, active, pq, expired, seqNum, tokens, hand, copies, sent, received, faults, quirks>>
flow == <<limits, mode, pd, pdFinishedCount, reset>>
account == <<total, finished, sent, received, faults>>
queues == <<retxQueue, retxQueued>>
control == <<active, pq, expired>>
sender == <<seqNum, tokens, hand>>

Seqs == 1..MaxPackets
Names == ({"pd"} \X (0..MaxTier) \X Seqs) \cup ({"dt"} \X {0} \X Seqs)
None == <<>>
Flags == [tier : BOOLEAN, node : BOOLEAN]
Pdless == [tier |-> 0, paused |-> FALSE, stop |-> FALSE, outstanding |-> 0, rehearsal |-> 0,
           rehearsed |-> FALSE, finished |-> FALSE]

\* baseName with the sequence number; read without the lock.
NameFor(seq) == IF mode = "PD" THEN <<"pd", pd.tier, seq>> ELSE <<"dt", 0, seq>>

\* sendSingleInterest, to its first effect: the name is fixed here.
sendSingleInterest(seq, again) ==
  hand' = [name |-> NameFor(seq), seq |-> seq, retx |-> again, stage |-> "record"]

Init ==
  /\ \E setup \in Setups : mode = setup.mode /\ limits = setup
  /\ pd = Pdless /\ pdFinishedCount = 0 /\ reset = FALSE
  /\ pending = [n \in {} |-> FALSE] /\ total = 0 /\ finished = FALSE
  /\ retxQueue = <<>> /\ retxQueued = {}
  /\ active = {} /\ pq = [n \in Names |-> 0] /\ expired = None
  /\ seqNum = 0 /\ tokens = 0 /\ hand = None
  /\ copies = {}
  /\ sent = [s \in Seqs |-> 0] /\ received = {} /\ faults = 0 /\ quirks = {}

Without(n) == [x \in DOMAIN pending \ {n} |-> pending[x]]

-----------------------------------------------------------------------------
\* The sender: runFlow.

\* The select of the loop. A case that is ready is taken some time, also after
\* doneCh was closed.
Selecting == hand = None /\ tokens = 0 /\ "over" \notin quirks

\* TOTAL_DURATION is over, or the flow is done.
Return ==
  /\ Selecting
  /\ quirks' = quirks \cup {"over"}
  /\ UNCHANGED <<flow, pending, account, queues, control, sender, copies>>

\* Mutant: the sequence numbers are not started again.
ResettingTokens ==
  /\ Selecting /\ reset
  /\ reset' = FALSE /\ tokens' = 0
  /\ UNCHANGED <<limits, mode, pd, pdFinishedCount, pending, account, queues, control, seqNum, hand,
                 copies, quirks>>

\* The reset signal is taken.
Resetting ==
  /\ Selecting /\ reset
  /\ reset' = FALSE /\ seqNum' = 0 /\ tokens' = 0
  /\ UNCHANGED <<limits, mode, pd, pdFinishedCount, pending, account, queues, control, hand, copies, quirks>>

\* A tick: in path discovery, is there something to send at all?
Tick ==
  /\ Selecting
  /\ \/ mode = "DT" /\ UNCHANGED pd
     \/ /\ mode = "PD" /\ ~pd.stop /\ pd.rehearsal > 0
        /\ pd' = [pd EXCEPT !.rehearsal = @ - 1]
     \/ mode = "PD" /\ ~pd.stop /\ pd.rehearsal = 0 /\ ~pd.paused /\ UNCHANGED pd
  /\ \E n \in 0..limits.tokens : tokens' = n
  /\ UNCHANGED <<limits, mode, pdFinishedCount, reset, pending, account, queues, control, seqNum, hand,
                 copies, quirks>>

\* PopRetransmission: the first that is still wanted, and the queue behind it.
Wanted(i) == retxQueue[i] \in retxQueued /\ NameFor(retxQueue[i]) \in DOMAIN pending /\ ~finished
Pop == IF \E i \in 1..Len(retxQueue) : Wanted(i)
       THEN CHOOSE i \in 1..Len(retxQueue) : Wanted(i) /\ \A j \in 1..i - 1 : ~Wanted(j)
       ELSE 0

\* One round of the token loop: a retransmission, a new packet, or nothing.
Pick ==
  /\ hand = None /\ tokens > 0
  /\ LET i == IF mode = "DT" THEN Pop ELSE 0
         dropped == IF i = 0 THEN Len(retxQueue) ELSE i
     IN /\ IF mode = "DT"
           THEN /\ retxQueue' = SubSeq(retxQueue, dropped + 1, Len(retxQueue))
                /\ retxQueued' = retxQueued \ {retxQueue[j] : j \in 1..dropped}
           ELSE UNCHANGED queues
        /\ \/ /\ i > 0
              /\ sendSingleInterest(retxQueue[i], TRUE)
              /\ tokens' = tokens - 1 /\ UNCHANGED seqNum
           \/ /\ i = 0 /\ seqNum < MaxPackets
              /\ seqNum' = seqNum + 1
              /\ sendSingleInterest(seqNum + 1, FALSE)
              /\ tokens' = tokens - 1
           \/ i = 0 /\ seqNum >= MaxPackets /\ tokens' = 0 /\ UNCHANGED <<seqNum, hand>>
  /\ UNCHANGED <<flow, pending, account, control, copies, quirks>>

\* Mutant: an entry that is there is left as it is.
EntryKept(n) == IF n \in DOMAIN pending THEN pending[n] ELSE hand.retx

\* The entry of a name when it is sent: retransmitted, or as if for the first time.
Entry(n) == hand.retx

\* RecordInterestSend, in the mode of the moment.
RecordInterestSend ==
  /\ hand # None /\ hand.stage = "record"
  /\ LET n == hand.name
     IN /\ pending' = [x \in DOMAIN pending \cup {n} |-> IF x = n THEN Entry(n) ELSE pending[x]]
        /\ pd' = IF mode = "PD" /\ ~hand.retx THEN [pd EXCEPT !.outstanding = @ + 1] ELSE pd
        /\ sent' = IF mode = "DT" /\ n[1] = "dt" THEN [sent EXCEPT ![n[3]] = @ + 1] ELSE sent
        /\ quirks' = quirks \cup (IF mode = "DT" /\ reset THEN {"early"} ELSE {})
                            \cup (IF n[1] = "dt" /\ n \notin DOMAIN pending /\ hand.retx
                                  THEN {"again"} ELSE {})
  /\ hand' = [hand EXCEPT !.stage = "arm"]
  /\ UNCHANGED <<limits, mode, pdFinishedCount, reset, total, finished, received, faults, queues,
                 control, seqNum, tokens, copies>>

\* The controller's Add, and Express.
Arm ==
  /\ hand # None /\ hand.stage = "arm"
  /\ active' = active \cup {hand.name}
  /\ pq' = [pq EXCEPT ![hand.name] = @ + 1]
  /\ LET old == {c.id : c \in {d \in copies : d.name = hand.name}}
         id == CHOOSE i \in 1..Cardinality(old) + limits.copies + 1 : \A j \in old : i > j
     IN copies' = copies \cup {[name |-> hand.name, id |-> id, at |-> "out"]}
  /\ hand' = None
  /\ UNCHANGED <<flow, pending, account, queues, expired, seqNum, tokens, quirks>>

-----------------------------------------------------------------------------
\* The retransmission controller: StartScheduler.

QueueRetransmission(seq) ==
  IF finished \/ seq \in retxQueued THEN UNCHANGED queues
  ELSE retxQueue' = Append(retxQueue, seq) /\ retxQueued' = retxQueued \cup {seq}

RtoExpires(n) ==
  /\ expired = None /\ pq[n] > 0
  /\ mode = "DT" => sent[n[3]] < limits.copies
  /\ pq' = [pq EXCEPT ![n] = @ - 1]
  /\ \/ /\ n \in active /\ mode = "DT"
        /\ QueueRetransmission(n[3])
        /\ UNCHANGED <<active, expired>>
     \/ /\ n \in active /\ mode = "PD"
        /\ active' = active \ {n} /\ expired' = n /\ UNCHANGED queues
     \/ n \notin active /\ UNCHANGED <<active, expired, queues>>
  /\ UNCHANGED <<flow, pending, account, sender, copies, quirks>>

\* Mutant: the next tier comes before the end.
checkTierFirst(p) ==
  IF p.paused /\ p.outstanding = 0 THEN [p EXCEPT !.tier = @ + 1, !.paused = FALSE]
  ELSE IF p.stop /\ p.outstanding = 0 THEN [p EXCEPT !.finished = TRUE]
  ELSE p

\* p is the state so far.
checkPdState(p) ==
  IF p.stop /\ p.outstanding = 0 THEN [p EXCEPT !.finished = TRUE]
  ELSE IF p.paused /\ p.outstanding = 0 THEN [p EXCEPT !.tier = @ + 1, !.paused = FALSE]
  ELSE p

\* Mutant: the count stays.
LessNever(p) == p

\* One Interest less is outstanding.
Less(p) == [p EXCEPT !.outstanding = IF @ > 0 THEN @ - 1 ELSE 0]

\* checkAllPdFinished, run once per flow.
Counted(p) == pdFinishedCount' = IF p.finished /\ ~pd.finished THEN pdFinishedCount + 1
                                 ELSE pdFinishedCount

OnTimeout ==
  /\ expired # None
  /\ pending' = Without(expired)
  /\ LET p == IF mode = "PD" THEN checkPdState(Less(pd)) ELSE pd
     IN p.tier <= MaxTier /\ pd' = p /\ Counted(p)
  /\ expired' = None
  /\ quirks' = IF mode = "PD" /\ expired \notin DOMAIN pending THEN quirks \cup {"late"} ELSE quirks
  /\ UNCHANGED <<limits, mode, reset, account, queues, active, pq, sender, copies>>

-----------------------------------------------------------------------------
\* The engine's callbacks.  First the controller stops tracking the name and,
\* but for Data, a queued retransmission of the number is called off.  A lifetime
\* of 4 s ends after the timer of its transmission, at most MAX_RTO = 1.5 s.

Later(c) == {d \in copies : d.name = c.name /\ d.id > c.id}

Answer(c, what) ==
  /\ c \in copies /\ c.at = "out"
  /\ faults' = IF what = "data" THEN faults ELSE faults + 1
  /\ faults' <= limits.faults
  /\ what = "timeout" => pq[c.name] <= Cardinality(Later(c))
  /\ copies' = {IF d = c THEN [c EXCEPT !.at = what] ELSE d : d \in copies}
  /\ active' = active \ {c.name}
  /\ retxQueued' = IF what = "data" THEN retxQueued ELSE retxQueued \ {c.name[3]}
  /\ quirks' = IF what = "data" THEN quirks ELSE quirks \cup {what}
  /\ UNCHANGED <<flow, pending, total, finished, sent, received, retxQueue, pq, expired, sender>>

\* Then OnNack, and nothing more when the lifetime is over.
OnNack(c) ==
  /\ c \in copies /\ c.at = "nack"
  /\ copies' = copies \ {c}
  /\ pending' = Without(c.name)
  /\ pd' = IF mode = "PD" THEN Less(pd) ELSE pd
  /\ UNCHANGED <<limits, mode, pdFinishedCount, reset, account, queues, control, sender, quirks>>

LifetimeOver(c) ==
  /\ c \in copies /\ c.at = "timeout"
  /\ copies' = copies \ {c}
  /\ UNCHANGED <<flow, pending, account, queues, control, sender, quirks>>

\* What the flags of a discovery packet do.
Converging(p, flags) ==
  IF flags.node /\ ~p.stop THEN [p EXCEPT !.stop = TRUE]
  ELSE IF flags.tier /\ ~p.paused THEN [p EXCEPT !.paused = TRUE] ELSE p

FalseConvergence(p, flags) ==
  IF ~(p.paused /\ ~flags.tier) THEN p
  ELSE IF p.rehearsed THEN [p EXCEPT !.paused = FALSE]
  ELSE [p EXCEPT !.paused = FALSE, !.rehearsed = TRUE, !.rehearsal = RehearsalBudget]

\* OnData: nothing without a pending entry, or when all is done.
OnDataNothing(c) ==
  /\ c \in copies /\ c.at = "data"
  /\ c.name \notin DOMAIN pending \/ finished
  /\ copies' = copies \ {c}
  /\ pending' = Without(c.name)
  /\ UNCHANGED <<flow, account, queues, control, sender, quirks>>

OnDataPD(c, flags) ==
  /\ c \in copies /\ c.at = "data" /\ c.name \in DOMAIN pending /\ ~finished /\ mode = "PD"
  /\ copies' = copies \ {c}
  /\ pending' = Without(c.name)
  /\ LET p == checkPdState(FalseConvergence(Converging(Less(pd), flags), flags))
     IN p.tier <= MaxTier /\ pd' = p /\ Counted(p)
  /\ UNCHANGED <<limits, mode, reset, account, queues, control, sender, quirks>>

\* Content that does not parse is dropped before anything looks at the state.
OnDataUnparsed(c) ==
  /\ c \in copies /\ c.at = "data" /\ c.name \in DOMAIN pending /\ ~finished
  /\ faults < limits.faults /\ faults' = faults + 1
  /\ copies' = copies \ {c}
  /\ pending' = Without(c.name)
  /\ pd' = IF mode = "PD" THEN Less(pd) ELSE pd
  /\ quirks' = quirks \cup {"unparsed"}
  /\ UNCHANGED <<limits, mode, pdFinishedCount, reset, total, finished, sent, received, queues,
                 control, sender>>

\* Mutant: one packet is missing.
EnoughButOne(n) == n >= MaxPackets - 1

Enough(n) == n >= MaxPackets

\* In data transmission a discovery packet does not parse as any other.
OnDataDT(c) ==
  /\ c \in copies /\ c.at = "data" /\ c.name \in DOMAIN pending /\ ~finished /\ mode = "DT"
  /\ copies' = copies \ {c}
  /\ pending' = Without(c.name)
  /\ \/ /\ c.name[1] = "dt"
        /\ total' = total + 1
        /\ finished' = Enough(total + 1)
        /\ received' = received \cup {c.name[3]}
        /\ retxQueued' = retxQueued \ {c.name[3]}
     \/ c.name[1] = "pd" /\ UNCHANGED <<total, finished, received, retxQueued>>
  /\ UNCHANGED <<flow, sent, faults, retxQueue, control, sender, quirks>>

-----------------------------------------------------------------------------
\* Coordination.

OtherFinished ==
  /\ pdFinishedCount - (IF pd.finished THEN 1 ELSE 0) < OtherFlows /\ mode = "PD"
  /\ pdFinishedCount' = pdFinishedCount + 1
  /\ UNCHANGED <<limits, mode, pd, reset, pending, account, queues, control, sender, copies, quirks>>

initDTState ==
  /\ pending' = [n \in {} |-> FALSE] /\ total' = 0 /\ finished' = FALSE
  /\ retxQueue' = <<>> /\ retxQueued' = {}

\* When all flows have finished: a new start under the other mode, and a signal
\* to the sender.
startDataTransmission ==
  /\ mode = "PD" /\ pdFinishedCount = OtherFlows + 1
  /\ mode' = "DT" /\ initDTState /\ reset' = TRUE
  /\ UNCHANGED <<limits, pd, pdFinishedCount, sent, received, faults, control, sender, copies, quirks>>

SenderStep == Resetting \/ Tick \/ Pick \/ RecordInterestSend \/ Arm
CallbackStep(c) ==
  \/ OnNack(c) \/ LifetimeOver(c) \/ OnDataNothing(c) \/ OnDataUnparsed(c) \/ OnDataDT(c)
  \/ \E flags \in Flags : OnDataPD(c, flags)

Next ==
  \/ SenderStep \/ Return \/ OnTimeout \/ OtherFinished \/ startDataTransmission
  \/ \E n \in Names : RtoExpires(n)
  \/ \E c \in copies : CallbackStep(c) \/ \E what \in {"data", "nack", "timeout"} : Answer(c, what)

Spec == Init /\ [][Next]_vars

\* The goroutines run, Go's select takes a ready signal some time, and the network
\* answers what is asked often enough.
FairSpec ==
  /\ Spec
  /\ WF_vars(SenderStep) /\ SF_vars(Resetting)
  /\ WF_vars(OnTimeout \/ \E n \in Names : RtoExpires(n))
  /\ WF_vars(\E c \in copies : CallbackStep(c) \/ Answer(c, "data"))
  /\ WF_vars(OtherFinished) /\ WF_vars(startDataTransmission)

-----------------------------------------------------------------------------
\* The variables have the types of the code's fields; a queued retransmission has
\* its place in the queue, and no number is queued that was never a packet's.
TypeOK ==
  /\ mode \in {"PD", "DT"} /\ reset \in BOOLEAN /\ finished \in BOOLEAN
  /\ pd.tier \in 0..MaxTier /\ pd.outstanding \in Nat /\ pd.rehearsal \in 0..RehearsalBudget
  /\ pdFinishedCount \in 0..OtherFlows + 1
  /\ DOMAIN pending \subseteq Names /\ active \subseteq Names
  /\ total \in 0..MaxPackets /\ received \subseteq Seqs
  /\ \A i \in 1..Len(retxQueue) : retxQueue[i] \in Seqs
  /\ \A s \in retxQueued : \E i \in 1..Len(retxQueue) : retxQueue[i] = s
  /\ seqNum \in 0..MaxPackets /\ tokens \in 0..limits.tokens

\* OutstandingPD, which decides when a tier or the whole discovery is over, counts
\* the Interests whose answer is awaited: exactly, and never more than them when a Nack
\* follows a timeout, or a timeout a Data it has met, and both count. (The types are
\* checked along with this.)
OutstandingMatches ==
  /\ TypeOK
  /\ mode = "PD" =>
       /\ pd.outstanding <= Cardinality(DOMAIN pending)
       /\ quirks \cap {"nack", "late"} = {} => pd.outstanding = Cardinality(DOMAIN pending)

\* Karn's rule: only a packet sent once yields an RTT sample, so an awaited packet that
\* has been sent again is marked; unless Interests were sent between the change of the
\* mode and the sender's reset, which starts the numbers again.
ResentIsMarked ==
  "early" \notin quirks =>
    \A n \in DOMAIN pending : n[1] = "dt" /\ sent[n[3]] > 1 => pending[n]

\* The flow finishes with every packet, not with one of them counted twice; unless a
\* packet was sent again whose Data had been counted, or the numbers started again.
FinishedIsComplete ==
  finished /\ quirks \cap {"early", "again"} = {} => received = Seqs

\* Discovery that is told to stop comes to its end, and so do all flows of it; unless
\* the last Interest counted as outstanding went with a Nack or with content that did
\* not parse, after which nothing looks at the state (OnNack, OnDataUnparsed).
Unnoticed == pd.outstanding = 0 /\ ~pd.finished /\ quirks \cap {"nack", "unparsed"} # {}

DiscoveryEnds == pd.stop ~> (mode = "DT" \/ Unnoticed)

\* The transmission finishes, unless a packet was called off by a Nack, the end of a
\* lifetime or content that did not parse, or TOTAL_DURATION was over.
TransmissionFinishes ==
  mode = "DT" ~> (finished \/ quirks \cap {"nack", "timeout", "unparsed", "over"} # {})
=============================================================================
