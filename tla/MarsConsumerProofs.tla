-------------------------- MODULE MarsConsumerProofs --------------------------
(***************************************************************************)
(* The bookkeeping of a transmission of any length, with any number of     *)
(* retransmissions, Nacks, ended lifetimes and contents without sense.     *)
(***************************************************************************)
EXTENDS MarsConsumer, FiniteSetTheorems, SequenceTheorems, WellFoundedInduction, TLAPS

\* Zenon first: preparing a leaf for it takes far less than for the SMT solver.
USE ZenonT(5), SMTT(30), ZenonT(60), SMTT(60)

PdStates == [tier : 0..MaxTier, paused : BOOLEAN, stop : BOOLEAN, outstanding : Nat,
             rehearsal : Int, rehearsed : BOOLEAN, finished : BOOLEAN]

Types ==
  /\ mode \in {"PD", "DT"} /\ reset \in BOOLEAN /\ finished \in BOOLEAN /\ pd \in PdStates
  /\ DOMAIN pending \subseteq Names /\ retxQueue \in Seq(Seqs)
  /\ seqNum \in 0..MaxPackets /\ tokens \in Nat /\ limits.tokens \in Nat
  /\ sent \in [Seqs -> Nat] /\ received \subseteq Seqs /\ total \in Nat
  /\ hand # None =>
       hand \in [name : Names, seq : Seqs, retx : BOOLEAN, stage : {"record", "arm"}]

Dt(s) == <<"dt", 0, s>>

\* The packet is about to be sent, and for the first time.
InHand(s) == hand # None /\ hand.stage = "record" /\ hand.name = Dt(s)
Fresh(s) == InHand(s) /\ ~hand.retx
Seen(s) == s \in received \/ Dt(s) \in DOMAIN pending

\* The numbers sent and awaited are those that the sender has come to, and the
\* signal to start again finds none.
SentInOrder ==
  "early" \notin quirks =>
    /\ mode = "PD" \/ reset => \A s \in Seqs : sent[s] = 0
    /\ mode = "PD" => ~reset /\ \A s \in Seqs : ~InHand(s)
    /\ reset => \A n \in DOMAIN pending : n[1] # "dt"
    /\ mode = "DT" /\ ~reset => \A s \in Seqs :
         /\ s > seqNum \/ Fresh(s) => sent[s] = 0
         /\ Dt(s) \in DOMAIN pending \/ InHand(s) => s <= seqNum

\* What has been counted is not awaited any more, and was counted once; what the
\* sender has for the first time is neither.
CountedOnce ==
  quirks \cap {"early", "again"} = {} =>
    /\ total = Cardinality(received)
    /\ mode = "PD" \/ reset => received = {}
    /\ \A s \in received : Dt(s) \notin DOMAIN pending
    /\ \A s \in Seqs : Seen(s) => ~Fresh(s)
    /\ mode = "DT" /\ ~reset => \A s \in received : s <= seqNum

EndCounted == finished => total >= MaxPackets

\* The inductive invariant.
IInv == Types /\ SentInOrder /\ CountedOnce /\ EndCounted /\ ResentIsMarked

-----------------------------------------------------------------------------
\* The packets.
LEMMA SeqsFinite == IsFiniteSet(Seqs) /\ Cardinality(Seqs) = MaxPackets /\ 0 \in 0..MaxPackets
<1>1. 1 \in Int /\ MaxPackets \in Nat /\ MaxPackets \in Int
  BY MarsAssumption
<1>2. IsFiniteSet(1..MaxPackets) /\ Cardinality(1..MaxPackets) = MaxPackets
  BY <1>1, FS_Interval
<1> QED BY <1>1, <1>2 DEF Seqs

\* A set of natural numbers has a least element.
LEMMA LeastNatural == ASSUME NEW T, T \subseteq Nat, T # {} PROVE \E x \in T : \A y \in T : ~(y < x)
<1>1. \E x \in T : \A y \in T : <<y, x>> \notin OpToRel(<, Nat)
  BY NatLessThanWellFounded, WFMin
<1>2. \A x, y \in Nat : y < x => <<y, x>> \in OpToRel(<, Nat)
  BY DEF OpToRel
<1> QED BY <1>1, <1>2

\* The initial states.
LEMMA Initially == Init => IInv
<1> SUFFICES ASSUME Init PROVE IInv
  OBVIOUS
<1>1. Types
  <2>1. PICK setup \in Setups : mode = setup.mode /\ limits = setup
    BY DEF Init
  <2>2. mode \in {"PD", "DT"} /\ limits.tokens \in Nat
    BY <2>1, MarsAssumption
  <2>3. pd \in PdStates
    BY MarsAssumption DEF Init, Pdless, PdStates
  <2>4. retxQueue \in Seq(Seqs)
    BY DEF Init
  <2>5. pending = [n \in {} |-> FALSE] /\ DOMAIN pending = {}
    BY DEF Init
  <2>6. sent \in [Seqs -> Nat] /\ received = {} /\ hand = None /\ seqNum = 0 /\ total = 0 /\ tokens = 0
    BY DEF Init
  <2>7. reset = FALSE /\ finished = FALSE
    BY DEF Init
  <2>8. 0 \in 0..MaxPackets
    BY MarsAssumption
  <2>9. reset \in BOOLEAN /\ finished \in BOOLEAN /\ received \subseteq Seqs
    BY <2>6, <2>7
  <2> QED BY <2>2, <2>3, <2>4, <2>5, <2>6, <2>8, <2>9 DEF Types
<1>2. SentInOrder /\ ResentIsMarked
  BY DEF Init, SentInOrder, ResentIsMarked, Fresh, InHand
<1>3. CountedOnce
  BY FS_EmptySet DEF Init, CountedOnce, Fresh, InHand, Seen
<1>4. EndCounted
  BY DEF Init, EndCounted
<1> QED BY <1>1, <1>2, <1>3, <1>4 DEF IInv

\* The helpers of path discovery keep its state a state.
LEMMA PdStatesKept ==
  ASSUME MaxTier \in Nat, NEW p \in PdStates, NEW flags \in Flags
  PROVE  /\ Less(p) \in PdStates
         /\ Converging(p, flags) \in PdStates
         /\ FalseConvergence(p, flags) \in PdStates
         /\ checkPdState(p).tier <= MaxTier => checkPdState(p) \in PdStates
<1>1. Less(p) \in PdStates
  BY DEF Less, PdStates
<1>2. Converging(p, flags) \in PdStates
  <2>1. [p EXCEPT !.stop = TRUE] \in PdStates /\ [p EXCEPT !.paused = TRUE] \in PdStates
    BY DEF PdStates
  <2> QED BY <2>1 DEF Converging
<1>3. FalseConvergence(p, flags) \in PdStates
  <2>1. [p EXCEPT !.paused = FALSE] \in PdStates
    BY DEF PdStates
  <2>2. RehearsalBudget \in Int
    BY MarsAssumption
  <2>3. [p EXCEPT !.paused = FALSE, !.rehearsed = TRUE, !.rehearsal = RehearsalBudget] \in PdStates
    BY <2>2 DEF PdStates
  <2> QED BY <2>1, <2>3 DEF FalseConvergence
<1>4. checkPdState(p).tier <= MaxTier => checkPdState(p) \in PdStates
  <2>1. p.tier \in Nat
    BY DEF PdStates
  <2>2. [p EXCEPT !.finished = TRUE] \in PdStates
    BY DEF PdStates
  <2> DEFINE next == [p EXCEPT !.tier = @ + 1, !.paused = FALSE]
  <2>3. next.tier = p.tier + 1
    BY DEF PdStates
  <2>4. next.tier <= MaxTier => p.tier + 1 \in 0..MaxTier
    BY <2>1, <2>3
  <2>5. p.tier + 1 \in 0..MaxTier => next \in PdStates
    BY DEF PdStates
  <2> QED BY <2>2, <2>4, <2>5 DEF checkPdState
<1> QED BY <1>1, <1>2, <1>3, <1>4

\* Steps that count nothing, send nothing and at most stop waiting.
LEMMA BookkeepingKept ==
  ASSUME IInv, Types', UNCHANGED <<mode, reset, seqNum, sent, total, received, finished>>,
         hand' = hand \/ hand' = None,
         quirks \subseteq quirks', DOMAIN pending' \subseteq DOMAIN pending,
         \A n \in DOMAIN pending' : pending'[n] = pending[n]
  PROVE  IInv'
<1>1. SentInOrder'
  BY DEF IInv, Types, SentInOrder, Fresh, InHand
<1>2. CountedOnce'
  BY DEF IInv, Types, CountedOnce, Fresh, InHand, Seen
<1>3. EndCounted' /\ ResentIsMarked'
  BY DEF IInv, EndCounted, ResentIsMarked
<1> QED BY <1>1, <1>2, <1>3 DEF IInv

\* Waiting for a name ends.
LEMMA WithoutShrinks ==
  ASSUME NEW n
  PROVE  /\ DOMAIN Without(n) = DOMAIN pending \ {n}
         /\ \A x \in DOMAIN Without(n) : Without(n)[x] = pending[x]
BY DEF Without

-----------------------------------------------------------------------------
\* The controller's steps.
LEMMA ControllerStep ==
  ASSUME IInv, OnTimeout \/ \E n \in Names : RtoExpires(n) PROVE IInv'
<1>1. CASE OnTimeout
  <2>1. pd' \in PdStates
    <3>1. [tier |-> TRUE, node |-> TRUE] \in Flags
      BY DEF Flags
    <3>2. Less(pd) \in PdStates
      BY <3>1, PdStatesKept, MarsAssumption DEF IInv, Types
    <3>3. CASE mode = "PD"
      BY <1>1, <3>1, <3>2, <3>3, PdStatesKept, MarsAssumption DEF OnTimeout
    <3>4. CASE mode # "PD"
      BY <1>1, <3>4 DEF OnTimeout, IInv, Types
    <3> QED BY <3>3, <3>4
  <2>2. /\ UNCHANGED <<limits, mode, reset, seqNum, tokens, hand, sent, total, received, finished,
                       retxQueue>>
        /\ quirks \subseteq quirks' /\ pending' = Without(expired)
    BY <1>1 DEF OnTimeout, account, queues, sender
  <2>3. Types'
    BY <2>1, <2>2, WithoutShrinks DEF IInv, Types
  <2> QED BY <2>2, <2>3, WithoutShrinks, BookkeepingKept
<1>2. ASSUME NEW n \in Names, RtoExpires(n) PROVE IInv'
  <2>1. UNCHANGED <<limits, mode, pd, reset, seqNum, tokens, hand, sent, total, received, finished,
                    pending, quirks>>
    BY <1>2 DEF RtoExpires, flow, account, sender
  <2>2. retxQueue' \in Seq(Seqs)
    <3>1. n[3] \in Seqs
      BY DEF Names
    <3>2. retxQueue' = retxQueue \/ retxQueue' = Append(retxQueue, n[3])
      BY <1>2 DEF RtoExpires, QueueRetransmission, queues
    <3>3. retxQueue \in Seq(Seqs)
      BY DEF IInv, Types
    <3>4. \A s \in Seqs : Append(retxQueue, s) \in Seq(Seqs)
      BY <3>3
    <3> QED BY <3>1, <3>2, <3>3, <3>4
  <2>3. Types'
    BY <2>1, <2>2 DEF IInv, Types
  <2> QED BY <2>1, <2>3, BookkeepingKept
<1> QED BY <1>1, <1>2

\* The callbacks that count no packet, and the other flows.
LEMMA CallbackKept ==
  ASSUME IInv, NEW c,
         \/ OnNack(c) \/ LifetimeOver(c) \/ OnDataNothing(c) \/ OnDataUnparsed(c) \/ OtherFinished
         \/ \E flags \in Flags : OnDataPD(c, flags)
         \/ \E what \in {"data", "nack", "timeout"} : Answer(c, what)
  PROVE  IInv'
<1>1. /\ UNCHANGED <<limits, mode, reset, seqNum, tokens, hand, sent, total, received, finished,
                     retxQueue>>
      /\ quirks \subseteq quirks'
      /\ pending' = pending \/ pending' = Without(c.name)
  BY DEF OnNack, LifetimeOver, OnDataNothing, OnDataUnparsed, OtherFinished, OnDataPD, Answer, flow,
         account, queues, sender
<1>2. pd' \in PdStates
  <2>1. pd \in PdStates
    BY DEF IInv, Types
  <2>2. CASE \E flags \in Flags : OnDataPD(c, flags)
    <3>1. PICK flags \in Flags : OnDataPD(c, flags)
      BY <2>2
    <3>2. FalseConvergence(Converging(Less(pd), flags), flags) \in PdStates
      BY <2>1, PdStatesKept, MarsAssumption
    <3>3. /\ pd' = checkPdState(FalseConvergence(Converging(Less(pd), flags), flags))
          /\ pd'.tier <= MaxTier
      BY <3>1 DEF OnDataPD
    <3> QED BY <3>2, <3>3, PdStatesKept, MarsAssumption
  <2>3. CASE OnNack(c) \/ OnDataUnparsed(c)
    <3>1. [tier |-> TRUE, node |-> TRUE] \in Flags
      BY DEF Flags
    <3> QED BY <2>1, <2>3, <3>1, PdStatesKept, MarsAssumption DEF OnNack, OnDataUnparsed
  <2> QED BY <2>1, <2>2, <2>3 DEF LifetimeOver, OnDataNothing, OtherFinished, Answer, flow
<1>3. DOMAIN pending' \subseteq DOMAIN pending /\ \A n \in DOMAIN pending' : pending'[n] = pending[n]
  BY <1>1, WithoutShrinks
<1>4. Types'
  BY <1>1, <1>2, <1>3 DEF IInv, Types
<1> QED BY <1>1, <1>3, <1>4, BookkeepingKept

\* A packet is counted.  It was awaited, so it has not been counted before.
LEMMA OnDataStep == ASSUME IInv, NEW c, OnDataDT(c) PROVE IInv'
<1>1. /\ UNCHANGED <<limits, mode, pd, reset, seqNum, tokens, hand, sent, retxQueue, quirks>>
      /\ pending' = Without(c.name) /\ c.name \in DOMAIN pending /\ mode = "DT"
  BY DEF OnDataDT, flow, sender
<1>2. DOMAIN pending' \subseteq DOMAIN pending /\ \A n \in DOMAIN pending' : pending'[n] = pending[n]
  BY <1>1, WithoutShrinks
<1>3. CASE UNCHANGED <<total, finished, received>>
  <2>1. Types'
    BY <1>1, <1>2, <1>3 DEF IInv, Types
  <2> QED BY <1>1, <1>2, <1>3, <2>1, BookkeepingKept
<1>4. ASSUME c.name[1] = "dt", total' = total + 1, finished' = Enough(total + 1),
             received' = received \cup {c.name[3]}
      PROVE  IInv'
  <2> DEFINE s == c.name[3]
  <2>1. s \in Seqs /\ c.name = Dt(s)
    BY <1>1, <1>4 DEF IInv, Types, Names, Dt
  <2> HIDE DEF s
  <2>2. received' = received \cup {s}
    BY <1>4 DEF s
  <2>3. Types'
    BY <1>1, <1>2, <1>4, <2>1, <2>2 DEF IInv, Types, Enough
  <2>4. SentInOrder'
    BY <1>1, <1>2 DEF IInv, SentInOrder, Fresh, InHand
  <2>5. EndCounted'
    BY <1>4 DEF EndCounted, Enough
  <2>6. ResentIsMarked'
    BY <1>1, <1>2 DEF IInv, ResentIsMarked
  <2>7. CountedOnce'
    <3> SUFFICES ASSUME quirks \cap {"early", "again"} = {}
                 PROVE  /\ total' = Cardinality(received')
                        /\ ~reset
                        /\ \A t \in received' : Dt(t) \notin DOMAIN pending'
                        /\ \A t \in Seqs : Seen(t)' => ~Fresh(t)
                        /\ \A t \in received' : t <= seqNum
      BY <1>1 DEF CountedOnce, Fresh, InHand
    <3>1. /\ total = Cardinality(received)
          /\ \A t \in received : Dt(t) \notin DOMAIN pending
          /\ \A t \in Seqs : Seen(t) => ~Fresh(t)
      BY DEF IInv, CountedOnce
    <3>2. ~reset
      BY <1>1, <1>4 DEF IInv, SentInOrder
    <3>3. s <= seqNum /\ \A t \in received : t <= seqNum
      BY <1>1, <2>1, <3>2 DEF IInv, SentInOrder, CountedOnce
    <3>4. s \notin received
      BY <1>1, <2>1, <3>1
    <3>5. IsFiniteSet(received)
      BY SeqsFinite, FS_Subset DEF IInv, Types
    <3>6. total' = Cardinality(received')
      BY <1>4, <2>2, <3>1, <3>4, <3>5, FS_AddElement
    <3>7. \A t \in received' : Dt(t) \notin DOMAIN pending'
      BY <1>1, <2>1, <2>2, <3>1, WithoutShrinks
    <3>8. \A t \in Seqs : Seen(t)' => Seen(t)
      BY <1>1, <1>2, <2>1, <2>2 DEF Seen
    <3> QED BY <2>2, <3>1, <3>2, <3>3, <3>6, <3>7, <3>8
  <2> QED BY <2>3, <2>4, <2>5, <2>6, <2>7 DEF IInv
<1> QED BY <1>3, <1>4 DEF OnDataDT

\* The change of the mode finds nothing sent and nothing counted.
LEMMA StartStep == ASSUME IInv, startDataTransmission PROVE IInv'
<1>1. /\ UNCHANGED <<limits, pd, sent, received, seqNum, tokens, hand, quirks>>
      /\ mode = "PD" /\ mode' = "DT" /\ reset' = TRUE /\ DOMAIN pending' = {}
      /\ total' = 0 /\ finished' = FALSE /\ retxQueue' = <<>>
  BY DEF startDataTransmission, initDTState, sender
<1>2. Types'
  <2>1. retxQueue' \in Seq(Seqs)
    BY <1>1
  <2> QED BY <1>1, <2>1 DEF IInv, Types
<1>3. SentInOrder' /\ EndCounted' /\ ResentIsMarked'
  BY <1>1 DEF IInv, SentInOrder, EndCounted, ResentIsMarked
<1>4. CountedOnce'
  BY <1>1, FS_EmptySet DEF IInv, CountedOnce, Seen
<1> QED BY <1>2, <1>3, <1>4 DEF IInv

-----------------------------------------------------------------------------
\* The sender's ticks.
LEMMA TickStep == ASSUME IInv, Tick PROVE IInv'
<1>1. /\ UNCHANGED <<limits, mode, reset, pending, total, finished, sent, received, retxQueue,
                     seqNum, hand, quirks>>
      /\ tokens' \in 0..limits.tokens
  BY DEF Tick, account, queues
<1>2. pd' \in PdStates
  <2>1. pd \in PdStates
    BY DEF IInv, Types
  <2>2. [pd EXCEPT !.rehearsal = @ - 1] \in PdStates
    BY <2>1 DEF PdStates
  <2> QED BY <2>1, <2>2 DEF Tick
<1>3. tokens' \in Nat
  BY <1>1 DEF IInv, Types
<1>4. Types'
  BY <1>1, <1>2, <1>3 DEF IInv, Types
<1> QED BY <1>1, <1>4, BookkeepingKept

\* The sender's end.
LEMMA ReturnStep == ASSUME IInv, Return PROVE IInv'
<1>1. /\ UNCHANGED <<limits, mode, pd, reset, pending, total, finished, sent, received, retxQueue,
                     seqNum, tokens, hand>>
      /\ quirks \subseteq quirks'
  BY DEF Return, flow, account, queues, sender
<1>2. Types'
  BY <1>1 DEF IInv, Types
<1> QED BY <1>1, <1>2, BookkeepingKept

\* The signal is taken with empty hands.
LEMMA ResettingStep == ASSUME IInv, Resetting PROVE IInv'
<1>1. /\ UNCHANGED <<limits, mode, pd, pending, total, finished, sent, received, retxQueue, hand, quirks>>
      /\ hand = None /\ reset /\ reset' = FALSE /\ seqNum' = 0 /\ tokens' = 0
  BY DEF Resetting, Selecting, account, queues
<1>2. Types'
  BY <1>1, SeqsFinite DEF IInv, Types
<1>3. SentInOrder' /\ EndCounted' /\ ResentIsMarked'
  BY <1>1 DEF IInv, SentInOrder, EndCounted, ResentIsMarked, Fresh, InHand, Dt
<1>4. CountedOnce'
  BY <1>1 DEF IInv, CountedOnce, Fresh, InHand, Seen
<1> QED BY <1>2, <1>3, <1>4 DEF IInv

\* The Interest is handed over.
LEMMA ArmStep == ASSUME IInv, Arm PROVE IInv'
<1>1. /\ UNCHANGED <<limits, mode, pd, reset, pending, total, finished, sent, received, retxQueue,
                     seqNum, tokens, quirks>>
      /\ hand' = None
  BY DEF Arm, flow, account, queues
<1>2. Types'
  BY <1>1 DEF IInv, Types
<1> QED BY <1>1, <1>2, BookkeepingKept

\* What PopRetransmission finds is in the queue.
LEMMA PopInQueue ==
  ASSUME retxQueue \in Seq(Seqs)
  PROVE  /\ Pop \in 0..Len(retxQueue)
         /\ Pop > 0 => retxQueue[Pop] \in Seqs /\ NameFor(retxQueue[Pop]) \in DOMAIN pending
<1>1. Len(retxQueue) \in Nat /\ \A i \in 1..Len(retxQueue) : retxQueue[i] \in Seqs
  BY LenProperties, ElementOfSeq
<1>2. ASSUME \E i \in 1..Len(retxQueue) : Wanted(i) PROVE Pop \in 1..Len(retxQueue) /\ Wanted(Pop)
  <2> DEFINE T == {i \in 1..Len(retxQueue) : Wanted(i)}
  <2>1. T \subseteq Nat /\ T # {}
    BY <1>1, <1>2
  <2>2. PICK x \in T : \A y \in T : ~(y < x)
    <3> HIDE DEF T
    <3> QED BY <2>1, LeastNatural
  <2>3. x \in 1..Len(retxQueue) /\ Wanted(x) /\ \A j \in 1..x - 1 : ~Wanted(j)
    <3>1. x \in 1..Len(retxQueue) /\ Wanted(x)
      OBVIOUS
    <3>2. ASSUME NEW j \in 1..x - 1 PROVE ~Wanted(j)
      <4>1. j \in 1..Len(retxQueue) /\ j < x
        BY <1>1, <3>1
      <4> QED BY <2>2, <4>1
    <3> QED BY <3>1, <3>2
  <2>4. \E i \in 1..Len(retxQueue) : Wanted(i) /\ \A j \in 1..i - 1 : ~Wanted(j)
    BY <2>3
  <2>5. Pop = CHOOSE i \in 1..Len(retxQueue) : Wanted(i) /\ \A j \in 1..i - 1 : ~Wanted(j)
    BY <1>2 DEF Pop
  <2> QED BY <2>4, <2>5
<1>3. CASE ~\E i \in 1..Len(retxQueue) : Wanted(i)
  BY <1>1, <1>3 DEF Pop
<1> QED BY <1>1, <1>2, <1>3 DEF Wanted

\* What the sender picks: a packet that is awaited, again, or the next number,
\* which nothing counted or awaited has.
LEMMA PickKept ==
  ASSUME IInv, Types', UNCHANGED <<mode, reset, pending, total, finished, sent, received, quirks>>,
         seqNum' = seqNum \/ seqNum' = seqNum + 1,
         \A s \in Seqs : InHand(s)' => mode = "DT",
         \A s \in Seqs : InHand(s)' => Dt(s) \in DOMAIN pending \/ s = seqNum',
         \A s \in Seqs : Fresh(s)' => s = seqNum + 1
  PROVE  IInv'
<1>1. seqNum \in Nat /\ seqNum' \in Nat /\ received \subseteq Seqs /\ \A s \in Seqs : s \in Nat
  BY MarsAssumption DEF IInv, Types, Seqs
<1>2. SentInOrder'
  <2> SUFFICES ASSUME "early" \notin quirks PROVE SentInOrder'
    BY DEF SentInOrder
  <2>1. /\ mode = "PD" \/ reset => \A s \in Seqs : sent[s] = 0
        /\ mode = "PD" => ~reset
        /\ reset => \A n \in DOMAIN pending : n[1] # "dt"
        /\ mode = "DT" /\ ~reset => \A s \in Seqs :
             (s > seqNum => sent[s] = 0) /\ (Dt(s) \in DOMAIN pending => s <= seqNum)
    BY DEF IInv, SentInOrder
  <2>2. ASSUME mode = "DT", ~reset, NEW s \in Seqs
        PROVE  /\ s > seqNum' \/ Fresh(s)' => sent[s] = 0
               /\ Dt(s) \in DOMAIN pending \/ InHand(s)' => s <= seqNum'
    BY <1>1, <2>1, <2>2
  <2> QED BY <2>1, <2>2 DEF SentInOrder
<1>3. EndCounted' /\ ResentIsMarked'
  BY DEF IInv, EndCounted, ResentIsMarked
<1>4. CountedOnce'
  <2> SUFFICES ASSUME quirks \cap {"early", "again"} = {} PROVE CountedOnce'
    BY DEF CountedOnce
  <2>1. /\ total = Cardinality(received)
        /\ mode = "PD" \/ reset => received = {}
        /\ \A s \in received : Dt(s) \notin DOMAIN pending
        /\ mode = "DT" /\ ~reset => \A s \in received : s <= seqNum
    BY DEF IInv, CountedOnce
  <2>2. /\ reset => \A n \in DOMAIN pending : n[1] # "dt"
        /\ mode = "DT" /\ ~reset => \A s \in Seqs : Dt(s) \in DOMAIN pending => s <= seqNum
    BY DEF IInv, SentInOrder
  <2>3. ASSUME NEW s \in Seqs, Seen(s), Fresh(s)' PROVE FALSE
    <3>1. mode = "DT" /\ s = seqNum + 1
      BY <2>3 DEF Fresh
    <3>2. CASE reset
      BY <2>1, <2>2, <2>3, <3>2 DEF Seen, Dt
    <3>3. CASE ~reset
      BY <1>1, <2>1, <2>2, <2>3, <3>1, <3>3 DEF Seen
    <3> QED BY <3>2, <3>3
  <2>4. \A s \in Seqs : Seen(s)' = Seen(s)
    BY DEF Seen
  <2>5. mode = "DT" /\ ~reset => \A s \in received : s <= seqNum'
    BY <1>1, <2>1
  <2> QED BY <2>1, <2>3, <2>4, <2>5 DEF CountedOnce
<1> QED BY <1>2, <1>3, <1>4 DEF IInv

\* The token loop picks what is sent next.
LEMMA PickStep == ASSUME IInv, Pick PROVE IInv'
<1> DEFINE i == IF mode = "DT" THEN Pop ELSE 0
           dropped == IF i = 0 THEN Len(retxQueue) ELSE i
<1>1. /\ UNCHANGED <<limits, mode, pd, reset, pending, total, finished, sent, received, quirks>>
      /\ hand = None
  BY DEF Pick, flow, account
<1>2. /\ retxQueue' = IF mode = "DT" THEN SubSeq(retxQueue, dropped + 1, Len(retxQueue)) ELSE retxQueue
      /\ \/ /\ i > 0 /\ sendSingleInterest(retxQueue[i], TRUE)
            /\ tokens' = tokens - 1 /\ seqNum' = seqNum
         \/ /\ i = 0 /\ seqNum < MaxPackets /\ seqNum' = seqNum + 1
            /\ sendSingleInterest(seqNum + 1, FALSE) /\ tokens' = tokens - 1
         \/ i = 0 /\ tokens' = 0 /\ seqNum' = seqNum /\ hand' = hand
  BY DEF Pick, queues
<1>3. /\ tokens \in Nat /\ tokens > 0 /\ seqNum \in Nat /\ seqNum <= MaxPackets /\ MaxPackets \in Nat
      /\ retxQueue \in Seq(Seqs) /\ mode \in {"PD", "DT"} /\ pd.tier \in 0..MaxTier
  BY MarsAssumption DEF IInv, Types, Pick, PdStates
<1>4. /\ Len(retxQueue) \in Nat /\ i \in 0..Len(retxQueue)
      /\ i > 0 => mode = "DT" /\ retxQueue[i] \in Seqs /\ NameFor(retxQueue[i]) \in DOMAIN pending
  BY <1>3, PopInQueue, LenProperties
<1> HIDE DEF i
<1>5. retxQueue' \in Seq(Seqs)
  <2>1. dropped \in Nat
    BY <1>4
  <2>2. SubSeq(retxQueue, dropped + 1, Len(retxQueue)) \in Seq(Seqs)
    <3>1. \A j \in dropped + 1..Len(retxQueue) : retxQueue[j] \in Seqs
      BY <1>3, <1>4, <2>1, ElementOfSeq
    <3> QED BY <1>3, <1>4, <2>1, <3>1, SubSeqProperties
  <2> QED BY <1>2, <1>3, <2>2
<1>6. \A s \in Seqs : NameFor(s) \in Names
  BY <1>3 DEF NameFor, Names
<1>7. ASSUME tokens' \in Nat, seqNum' \in 0..MaxPackets, hand' # None =>
               hand' \in [name : Names, seq : Seqs, retx : BOOLEAN, stage : {"record", "arm"}]
      PROVE  Types'
  BY <1>1, <1>5, <1>7 DEF IInv, Types
<1>8. CASE i > 0 /\ sendSingleInterest(retxQueue[i], TRUE) /\ tokens' = tokens - 1 /\ seqNum' = seqNum
  <2> DEFINE s0 == retxQueue[i]
  <2>1. s0 \in Seqs /\ NameFor(s0) \in Names /\ NameFor(s0) = Dt(s0) /\ Dt(s0) \in DOMAIN pending
    BY <1>4, <1>6, <1>8 DEF NameFor, Dt
  <2>2. hand' = [name |-> NameFor(s0), seq |-> s0, retx |-> TRUE, stage |-> "record"]
    BY <1>8 DEF sendSingleInterest
  <2> HIDE DEF s0
  <2>3. hand'.retx = TRUE /\ hand'.name = Dt(s0)
    BY <2>1, <2>2
  <2>4. tokens' \in Nat /\ seqNum' \in 0..MaxPackets
    BY <1>3, <1>8
  <2>5. hand' \in [name : Names, seq : Seqs, retx : BOOLEAN, stage : {"record", "arm"}]
    BY <2>1, <2>2
  <2>6. Types'
    BY <1>7, <2>4, <2>5
  <2>7. seqNum' = seqNum \/ seqNum' = seqNum + 1
    BY <1>8
  <2>8. UNCHANGED <<mode, reset, pending, total, finished, sent, received, quirks>>
    BY <1>1
  <2>9. mode = "DT"
    BY <1>4, <1>8
  <2>10. \A s \in Seqs : InHand(s)' => Dt(s) \in DOMAIN pending
    BY <2>1, <2>3 DEF InHand
  <2>11. \A s \in Seqs : ~Fresh(s)'
    BY <2>3 DEF Fresh
  <2> QED BY <2>6, <2>7, <2>8, <2>9, <2>10, <2>11, PickKept
<1>9. CASE /\ i = 0 /\ seqNum < MaxPackets /\ seqNum' = seqNum + 1
           /\ sendSingleInterest(seqNum + 1, FALSE) /\ tokens' = tokens - 1
  <2> DEFINE s0 == seqNum + 1
  <2>1. s0 \in Seqs /\ tokens' \in Nat /\ seqNum' \in 0..MaxPackets
    BY <1>3, <1>9 DEF Seqs
  <2>2. hand' = [name |-> NameFor(s0), seq |-> s0, retx |-> FALSE, stage |-> "record"]
    BY <1>9 DEF sendSingleInterest
  <2>3. NameFor(s0) \in Names
    BY <1>6, <2>1
  <2>4. hand' \in [name : Names, seq : Seqs, retx : BOOLEAN, stage : {"record", "arm"}]
    <3> HIDE DEF s0
    <3> QED BY <2>1, <2>2, <2>3
  <2>5. Types'
    BY <1>7, <2>1, <2>4
  <2>6. ASSUME NEW s \in Seqs, InHand(s)' PROVE mode = "DT" /\ s = seqNum + 1 /\ seqNum' = s
    <3>1. NameFor(s0) = Dt(s)
      BY <2>2, <2>6 DEF InHand
    <3> QED BY <1>3, <1>9, <3>1 DEF NameFor, Dt
  <2>7. \A s \in Seqs : Fresh(s)' => s = seqNum + 1
    BY <2>6 DEF Fresh
  <2>8. UNCHANGED <<mode, reset, pending, total, finished, sent, received, quirks>>
    BY <1>1
  <2>9. \A s \in Seqs : InHand(s)' => mode = "DT" /\ s = seqNum'
    BY <2>6
  <2> QED BY <1>9, <2>5, <2>7, <2>8, <2>9, PickKept
<1>10. CASE i = 0 /\ tokens' = 0 /\ seqNum' = seqNum /\ hand' = hand
  <2>1. Types'
    BY <1>1, <1>3, <1>7, <1>10
  <2> QED BY <1>1, <1>10, <2>1, BookkeepingKept
<1> QED BY <1>2, <1>8, <1>9, <1>10

\* A packet that is sent again is marked, and one sent again that is not awaited
\* any more is on record.
LEMMA RecordStep == ASSUME IInv, RecordInterestSend PROVE IInv'
<1> DEFINE n == hand.name
<1>1. /\ UNCHANGED <<limits, mode, reset, total, finished, received, retxQueue, seqNum, tokens>>
      /\ hand # None /\ hand.stage = "record" /\ hand' = [hand EXCEPT !.stage = "arm"]
      /\ pending' = [x \in DOMAIN pending \cup {n} |-> IF x = n THEN hand.retx ELSE pending[x]]
      /\ pd' = IF mode = "PD" /\ ~hand.retx THEN [pd EXCEPT !.outstanding = @ + 1] ELSE pd
      /\ sent' = IF mode = "DT" /\ n[1] = "dt" THEN [sent EXCEPT ![n[3]] = @ + 1] ELSE sent
      /\ quirks \subseteq quirks'
      /\ mode = "DT" /\ reset => "early" \in quirks'
      /\ n[1] = "dt" /\ n \notin DOMAIN pending /\ hand.retx => "again" \in quirks'
  BY DEF RecordInterestSend, Entry, queues
<1>2. /\ hand \in [name : Names, seq : Seqs, retx : BOOLEAN, stage : {"record", "arm"}]
      /\ sent \in [Seqs -> Nat] /\ mode \in {"PD", "DT"} /\ pd \in PdStates /\ DOMAIN pending \subseteq Names
      /\ seqNum \in Nat /\ \A s \in Seqs : s \in Nat
  BY <1>1, MarsAssumption DEF IInv, Types, Seqs
<1>3. \A x \in Names : x[3] \in Seqs /\ (x[1] = "dt" => x = Dt(x[3]))
  BY DEF Names, Dt
<1>4. n \in Names /\ hand.retx \in BOOLEAN
  BY <1>2
<1>5. /\ hand' \in [name : Names, seq : Seqs, retx : BOOLEAN, stage : {"record", "arm"}]
      /\ hand'.stage = "arm"
  BY <1>1, <1>2
<1>6. Types'
  <2>1. pd' \in PdStates
    <3>1. [pd EXCEPT !.outstanding = @ + 1] \in PdStates
      BY <1>2 DEF PdStates
    <3> QED BY <1>1, <1>2, <3>1
  <2>2. sent' \in [Seqs -> Nat]
    BY <1>1, <1>2, <1>3, <1>4
  <2>3. DOMAIN pending' \subseteq Names
    BY <1>1, <1>2, <1>4
  <2> QED BY <1>1, <1>5, <2>1, <2>2, <2>3 DEF IInv, Types
<1>7. \A s : ~InHand(s)' /\ ~Fresh(s)'
  BY <1>5 DEF InHand, Fresh
<1>8. \A s \in Seqs : sent'[s] = IF mode = "DT" /\ n = Dt(s) THEN sent[s] + 1 ELSE sent[s]
  BY <1>1, <1>2, <1>3, <1>4 DEF Dt
<1>9. \A s \in Seqs : n = Dt(s) => n[1] = "dt" /\ InHand(s) /\ (~hand.retx => Fresh(s))
  BY <1>1 DEF InHand, Fresh, Dt
<1>10. DOMAIN pending' = DOMAIN pending \cup {n} /\ pending'[n] = hand.retx
  BY <1>1
<1>11. \A x \in DOMAIN pending : x # n => pending'[x] = pending[x]
  BY <1>1
<1> HIDE DEF n
<1>12. SentInOrder'
  <2> SUFFICES ASSUME "early" \notin quirks' PROVE SentInOrder'
    BY DEF SentInOrder
  <2>1. "early" \notin quirks /\ ~(mode = "DT" /\ reset)
    BY <1>1
  <2>2. CASE mode = "PD"
    <3>1. ~reset /\ \A s \in Seqs : sent[s] = 0
      BY <2>1, <2>2 DEF IInv, SentInOrder
    <3>2. \A s \in Seqs : sent'[s] = 0
      BY <1>8, <2>2, <3>1
    <3> QED BY <1>1, <1>7, <2>2, <3>1, <3>2 DEF SentInOrder
  <2>3. CASE mode = "DT" /\ ~reset
    <3>1. \A s \in Seqs : /\ s > seqNum => sent[s] = 0
                          /\ Dt(s) \in DOMAIN pending \/ InHand(s) => s <= seqNum
      BY <2>1, <2>3 DEF IInv, SentInOrder
    <3>2. \A s \in Seqs : n = Dt(s) => s <= seqNum
      BY <1>9, <3>1
    <3>3. \A s \in Seqs : /\ s > seqNum => sent'[s] = 0
                          /\ Dt(s) \in DOMAIN pending' => s <= seqNum
      BY <1>2, <1>8, <1>10, <3>1, <3>2
    <3> QED BY <1>1, <1>7, <2>3, <3>3 DEF SentInOrder
  <2> QED BY <1>2, <2>1, <2>2, <2>3
<1>13. EndCounted'
  BY <1>1 DEF IInv, EndCounted
<1>14. ResentIsMarked'
  <2> SUFFICES ASSUME "early" \notin quirks', NEW x \in DOMAIN pending', x[1] = "dt", sent'[x[3]] > 1
               PROVE  pending'[x]
    BY DEF ResentIsMarked
  <2>1. "early" \notin quirks /\ ~(mode = "DT" /\ reset)
    BY <1>1
  <2>2. x \in Names /\ x[3] \in Seqs /\ x = Dt(x[3])
    BY <1>2, <1>3, <1>4, <1>10
  <2>3. CASE x # n
    <3>1. sent'[x[3]] = sent[x[3]] /\ x \in DOMAIN pending
      BY <1>8, <1>10, <2>2, <2>3
    <3> QED BY <1>11, <2>1, <2>3, <3>1 DEF IInv, ResentIsMarked
  <2>4. CASE x = n
    <3>1. ASSUME ~hand.retx PROVE FALSE
      <4>1. Fresh(x[3])
        BY <1>9, <2>2, <2>4, <3>1
      <4>2. sent[x[3]] = 0
        BY <1>2, <2>1, <2>2, <4>1 DEF IInv, SentInOrder
      <4>3. sent'[x[3]] = 0 \/ sent'[x[3]] = 1
        BY <1>8, <2>2, <4>2
      <4> QED BY <4>3
    <3> QED BY <1>4, <1>10, <2>4, <3>1
  <2> QED BY <2>3, <2>4
<1>15. CountedOnce'
  <2> SUFFICES ASSUME quirks' \cap {"early", "again"} = {} PROVE CountedOnce'
    BY DEF CountedOnce
  <2>1. quirks \cap {"early", "again"} = {}
    BY <1>1
  <2>2. /\ total = Cardinality(received)
        /\ mode = "PD" \/ reset => received = {}
        /\ \A s \in received : Dt(s) \notin DOMAIN pending
        /\ \A s \in Seqs : Seen(s) => ~Fresh(s)
        /\ mode = "DT" /\ ~reset => \A s \in received : s <= seqNum
    BY <2>1 DEF IInv, CountedOnce
  <2>3. ASSUME NEW s \in received PROVE n # Dt(s)
    <3>1. s \in Seqs /\ ~Fresh(s) /\ Dt(s) \notin DOMAIN pending
      BY <2>2 DEF Seen, IInv, Types
    <3>2. n = Dt(s) => n[1] = "dt" /\ hand.retx
      BY <1>4, <1>9, <3>1
    <3> QED BY <1>1, <3>1, <3>2 DEF n
  <2> QED BY <1>1, <1>7, <1>10, <2>2, <2>3 DEF CountedOnce
<1> QED BY <1>6, <1>12, <1>13, <1>14, <1>15 DEF IInv

-----------------------------------------------------------------------------
\* Every step keeps the invariant.
LEMMA Steps == ASSUME IInv, [Next]_vars PROVE IInv'
<1>1. CASE UNCHANGED vars
  <2>1. Types'
    BY <1>1 DEF vars, IInv, Types
  <2> QED BY <1>1, <2>1, BookkeepingKept DEF vars
<1>2. CASE SenderStep \/ Return
  BY <1>2, ResettingStep, TickStep, PickStep, RecordStep, ArmStep, ReturnStep DEF SenderStep
<1>3. CASE OnTimeout \/ \E n \in Names : RtoExpires(n)
  BY <1>3, ControllerStep
<1>4. CASE OtherFinished \/ startDataTransmission
  BY <1>4, CallbackKept, StartStep
<1>5. ASSUME NEW c \in copies,
             CallbackStep(c) \/ \E what \in {"data", "nack", "timeout"} : Answer(c, what)
      PROVE  IInv'
  BY <1>5, CallbackKept, OnDataStep DEF CallbackStep
<1> QED BY <1>1, <1>2, <1>3, <1>4, <1>5 DEF Next

\* IInv is an invariant.
THEOREM Invariance == Spec => []IInv
<1>1. IInv /\ [Next]_vars => IInv'
  BY Steps
<1> QED BY Initially, <1>1, PTL DEF Spec

\* Karn's rule is kept for any number of packets: an awaited packet that was sent
\* more than once is marked as retransmitted.
THEOREM MarksHold == Spec => []ResentIsMarked
<1>1. IInv => ResentIsMarked
  BY DEF IInv
<1> QED BY Invariance, <1>1, PTL

\* A flow that finishes has every packet: what it counts are different packets,
\* so MaxPackets of them are all.
THEOREM CompletenessHolds == Spec => []FinishedIsComplete
<1>1. IInv => FinishedIsComplete
  <2> SUFFICES ASSUME IInv, finished, quirks \cap {"early", "again"} = {} PROVE received = Seqs
    BY DEF FinishedIsComplete
  <2>1. total = Cardinality(received) /\ total >= MaxPackets /\ received \subseteq Seqs
    BY DEF IInv, CountedOnce, EndCounted, Types
  <2>2. Cardinality(received) <= Cardinality(Seqs)
    BY <2>1, SeqsFinite, FS_Subset
  <2>3. Cardinality(received) = Cardinality(Seqs)
    BY <2>1, <2>2, SeqsFinite, MarsAssumption DEF IInv, Types
  <2> QED BY <2>1, <2>3, SeqsFinite, FS_Subset
<1> QED BY Invariance, <1>1, PTL

-----------------------------------------------------------------------------
(***************************************************************************)
(* The outstanding Interests of path discovery.                            *)
(***************************************************************************)
\* The other flows that have finished path discovery.
Others == pdFinishedCount - (IF pd.finished THEN 1 ELSE 0)

\* The bounds of the counters, and the queue behind the set of queued numbers.
Bounds ==
  /\ pd.rehearsal \in 0..RehearsalBudget /\ active \subseteq Names
  /\ pdFinishedCount \in Int /\ Others \in 0..OtherFlows
  /\ total <= MaxPackets /\ (finished \/ total < MaxPackets \/ total = 0)
  /\ \A s \in retxQueued : \E i \in 1..Len(retxQueue) : retxQueue[i] = s
  /\ tokens <= limits.tokens

\* In discovery every Interest has a number of its own: the sender never starts
\* again and sends nothing twice.
OwnNumbers ==
  mode = "PD" =>
    /\ ~reset /\ ~finished
    /\ \A x \in DOMAIN pending : x[3] <= seqNum
    /\ hand # None => ~hand.retx
    /\ hand # None /\ hand.stage = "record" =>
         hand.name[3] = seqNum /\ \A x \in DOMAIN pending : x[3] < seqNum

\* A Nack whose callback is under way is on record.
NackNoted == \A c \in copies : c.at = "nack" => "nack" \in quirks

Awaited ==
  /\ IsFiniteSet(DOMAIN pending)
  /\ mode = "PD" =>
       /\ pd.outstanding <= Cardinality(DOMAIN pending)
       /\ quirks \cap {"nack", "late"} = {} => pd.outstanding = Cardinality(DOMAIN pending)

\* The inductive invariant of the count, on top of IInv's types.
CountInv == Bounds /\ OwnNumbers /\ NackNoted /\ Awaited

\* The helpers of path discovery leave the count to Less, and a flow that has
\* finished has finished.
LEMMA PdFields ==
  ASSUME NEW p \in PdStates, p.rehearsal \in 0..RehearsalBudget, NEW flags \in Flags
  PROVE  /\ Converging(p, flags).outstanding = p.outstanding
         /\ Converging(p, flags).finished = p.finished
         /\ Converging(p, flags).rehearsal = p.rehearsal
         /\ FalseConvergence(p, flags).outstanding = p.outstanding
         /\ FalseConvergence(p, flags).finished = p.finished
         /\ FalseConvergence(p, flags).rehearsal \in 0..RehearsalBudget
         /\ checkPdState(p).outstanding = p.outstanding
         /\ p.finished => checkPdState(p).finished
         /\ checkPdState(p).rehearsal = p.rehearsal
         /\ Less(p).outstanding = IF p.outstanding > 0 THEN p.outstanding - 1 ELSE 0
         /\ Less(p).finished = p.finished
         /\ Less(p).rehearsal = p.rehearsal
<1>1. RehearsalBudget \in 0..RehearsalBudget
  BY MarsAssumption
<1>2. /\ Converging(p, flags).outstanding = p.outstanding
      /\ Converging(p, flags).finished = p.finished
      /\ Converging(p, flags).rehearsal = p.rehearsal
  BY DEF Converging, PdStates
<1>3. /\ FalseConvergence(p, flags).outstanding = p.outstanding
      /\ FalseConvergence(p, flags).finished = p.finished
      /\ FalseConvergence(p, flags).rehearsal \in 0..RehearsalBudget
  BY <1>1 DEF FalseConvergence, PdStates
<1>4. /\ checkPdState(p).outstanding = p.outstanding
      /\ p.finished => checkPdState(p).finished
      /\ checkPdState(p).rehearsal = p.rehearsal
  BY DEF checkPdState, PdStates
<1>5. /\ Less(p).outstanding = IF p.outstanding > 0 THEN p.outstanding - 1 ELSE 0
      /\ Less(p).finished = p.finished
      /\ Less(p).rehearsal = p.rehearsal
  BY DEF Less, PdStates
<1> QED BY <1>2, <1>3, <1>4, <1>5

\* A flow that finishes is counted once, and it is not one of the others.
LEMMA CountedOthers ==
  ASSUME IInv, Bounds, pd' \in PdStates, Counted(pd'), pd.finished => pd'.finished
  PROVE  pdFinishedCount' \in Int /\ Others' = Others
<1>1. pd.finished \in BOOLEAN /\ pd'.finished \in BOOLEAN /\ pdFinishedCount \in Int
  BY DEF IInv, Types, PdStates, Bounds
<1> QED BY <1>1 DEF Counted, Others

\* A name less is awaited, and one Interest less counted.
LEMMA AwaitedLess ==
  ASSUME IInv, Awaited, mode' = mode, NEW n, pending' = Without(n), quirks \subseteq quirks',
         mode = "PD" => /\ pd'.outstanding = IF pd.outstanding > 0 THEN pd.outstanding - 1 ELSE 0
                        /\ n \in DOMAIN pending \/ quirks' \cap {"nack", "late"} # {}
  PROVE  Awaited'
<1> DEFINE D == DOMAIN pending
<1>1. DOMAIN pending' = D \ {n}
  BY WithoutShrinks
<1>2. IsFiniteSet(D) /\ Cardinality(D) \in Nat
  BY FS_CardinalityType DEF Awaited
<1>3. IsFiniteSet(D \ {n}) /\ Cardinality(D \ {n}) = IF n \in D THEN Cardinality(D) - 1 ELSE Cardinality(D)
  <2> HIDE DEF D
  <2> QED BY <1>2, FS_RemoveElement
<1>4. n \in D => Cardinality(D) > 0
  <2> HIDE DEF D
  <2> QED BY <1>2, FS_EmptySet
<1>5. pd.outstanding \in Nat
  BY DEF IInv, Types, PdStates
<1>6. ASSUME mode = "PD"
      PROVE  /\ pd'.outstanding <= Cardinality(D \ {n})
             /\ quirks' \cap {"nack", "late"} = {} => pd'.outstanding = Cardinality(D \ {n})
  <2>1. /\ pd.outstanding <= Cardinality(D)
        /\ quirks \cap {"nack", "late"} = {} => pd.outstanding = Cardinality(D)
    BY <1>6 DEF Awaited
  <2>2. pd'.outstanding = IF pd.outstanding > 0 THEN pd.outstanding - 1 ELSE 0
    BY <1>6
  <2>3. pd'.outstanding <= Cardinality(D \ {n})
    <3> HIDE DEF D
    <3> QED BY <1>2, <1>3, <1>4, <1>5, <2>1, <2>2
  <2>4. ASSUME quirks' \cap {"nack", "late"} = {} PROVE pd'.outstanding = Cardinality(D \ {n})
    <3>1. n \in D /\ quirks \cap {"nack", "late"} = {}
      BY <1>6, <2>4
    <3> HIDE DEF D
    <3> QED BY <1>2, <1>3, <1>4, <1>5, <2>1, <2>2, <3>1
  <2> QED BY <2>3, <2>4
<1> QED BY <1>1, <1>3, <1>6 DEF Awaited

\* Steps at which the sender stands still and nothing is counted but answers.
LEMMA NumbersKept ==
  ASSUME IInv, OwnNumbers, UNCHANGED <<mode, reset, finished, seqNum>>, hand' = hand \/ hand' = None,
         DOMAIN pending' \subseteq DOMAIN pending
  PROVE  OwnNumbers'
BY DEF OwnNumbers

\* The initial states.
LEMMA InitialCount == ASSUME Init PROVE CountInv
<1>1. PICK setup \in Setups : limits = setup
  BY DEF Init
<1>2. limits.tokens \in Nat
  BY <1>1, MarsAssumption
<1>3. /\ pd = Pdless /\ pdFinishedCount = 0 /\ reset = FALSE /\ finished = FALSE /\ total = 0
      /\ DOMAIN pending = {} /\ retxQueued = {} /\ active = {} /\ tokens = 0 /\ hand = None /\ copies = {}
  BY DEF Init
<1>4. pd.rehearsal = 0 /\ pd.finished = FALSE /\ pd.outstanding = 0
  BY <1>3 DEF Pdless
<1>5. Bounds
  BY <1>2, <1>3, <1>4, MarsAssumption DEF Bounds, Others
<1>6. OwnNumbers /\ NackNoted
  BY <1>3 DEF OwnNumbers, NackNoted
<1>7. Awaited
  BY <1>3, <1>4, FS_EmptySet DEF Awaited
<1> QED BY <1>5, <1>6, <1>7 DEF CountInv

\* OnTimeout: a late one, which finds its Interest answered, is on record.
LEMMA TimeoutCount == ASSUME IInv, IInv', CountInv, OnTimeout PROVE CountInv'
<1>1. /\ UNCHANGED <<limits, mode, reset, seqNum, tokens, hand, total, finished, retxQueue, retxQueued,
                     active, copies>>
      /\ quirks \subseteq quirks' /\ pending' = Without(expired)
      /\ mode = "PD" /\ expired \notin DOMAIN pending => "late" \in quirks'
      /\ pd' = (IF mode = "PD" THEN checkPdState(Less(pd)) ELSE pd) /\ Counted(pd')
  BY DEF OnTimeout, account, queues, sender
<1>2. pd \in PdStates /\ pd' \in PdStates /\ pd.rehearsal \in 0..RehearsalBudget
  BY DEF IInv, Types, CountInv, Bounds
<1>3. PICK flags : flags \in Flags
  <2>1. [tier |-> TRUE, node |-> TRUE] \in Flags
    BY DEF Flags
  <2> QED BY <2>1
<1>4. Less(pd) \in PdStates
  BY <1>2, <1>3, PdStatesKept, MarsAssumption
<1>5. /\ Less(pd).outstanding = IF pd.outstanding > 0 THEN pd.outstanding - 1 ELSE 0
      /\ Less(pd).finished = pd.finished /\ Less(pd).rehearsal = pd.rehearsal
  BY <1>2, <1>3, PdFields
<1>6. /\ checkPdState(Less(pd)).outstanding = Less(pd).outstanding
      /\ Less(pd).finished => checkPdState(Less(pd)).finished
      /\ checkPdState(Less(pd)).rehearsal = Less(pd).rehearsal
  BY <1>2, <1>3, <1>4, <1>5, PdFields
<1>7. /\ pd'.rehearsal = pd.rehearsal /\ (pd.finished => pd'.finished)
      /\ mode = "PD" => pd'.outstanding = IF pd.outstanding > 0 THEN pd.outstanding - 1 ELSE 0
  BY <1>1, <1>5, <1>6
<1>8. pdFinishedCount' \in Int /\ Others' = Others
  BY <1>1, <1>2, <1>7, CountedOthers DEF CountInv
<1>9. Bounds'
  BY <1>1, <1>7, <1>8 DEF CountInv, Bounds
<1>10. Awaited'
  BY <1>1, <1>7, AwaitedLess DEF CountInv
<1>11. OwnNumbers'
  BY <1>1, WithoutShrinks, NumbersKept DEF CountInv
<1>12. NackNoted'
  BY <1>1 DEF CountInv, NackNoted
<1> QED BY <1>9, <1>10, <1>11, <1>12 DEF CountInv

\* RtoExpires queues a number behind the others.
LEMMA RtoCount == ASSUME IInv, CountInv, NEW n \in Names, RtoExpires(n) PROVE CountInv'
<1>1. /\ UNCHANGED <<limits, mode, pd, pdFinishedCount, reset, seqNum, tokens, hand, total, finished,
                     pending, copies, quirks>>
      /\ active' \subseteq active
      /\ \/ UNCHANGED <<retxQueue, retxQueued>>
         \/ retxQueue' = Append(retxQueue, n[3]) /\ retxQueued' = retxQueued \cup {n[3]}
  BY DEF RtoExpires, QueueRetransmission, flow, account, sender, queues
<1>2. \A s \in retxQueued : \E i \in 1..Len(retxQueue) : retxQueue[i] = s
  BY DEF CountInv, Bounds
<1>3. \A s \in retxQueued' : \E i \in 1..Len(retxQueue') : retxQueue'[i] = s
  <2>1. CASE UNCHANGED <<retxQueue, retxQueued>>
    BY <1>2, <2>1
  <2>2. CASE retxQueue' = Append(retxQueue, n[3]) /\ retxQueued' = retxQueued \cup {n[3]}
    <3>1. retxQueue \in Seq(Seqs) /\ Len(retxQueue) \in Nat /\ n[3] \in Seqs
      BY LenProperties DEF IInv, Types, Names
    <3>2. /\ Len(retxQueue') = Len(retxQueue) + 1
          /\ \A i \in 1..Len(retxQueue) : retxQueue'[i] = retxQueue[i]
          /\ retxQueue'[Len(retxQueue) + 1] = n[3]
      BY <2>2, <3>1, AppendProperties
    <3>3. ASSUME NEW s \in retxQueued' PROVE \E i \in 1..Len(retxQueue') : retxQueue'[i] = s
      <4>1. CASE s = n[3]
        BY <3>1, <3>2, <4>1
      <4>2. CASE s \in retxQueued
        <5>1. PICK i \in 1..Len(retxQueue) : retxQueue[i] = s
          BY <1>2, <4>2
        <5>2. i \in 1..Len(retxQueue')
          BY <3>1, <3>2
        <5>3. retxQueue'[i] = s
          BY <3>2, <5>1
        <5> QED BY <5>2, <5>3
      <4> QED BY <2>2, <4>1, <4>2
    <3> QED BY <3>3
  <2> QED BY <1>1, <2>1, <2>2
<1>4. Bounds'
  BY <1>1, <1>3 DEF CountInv, Bounds, Others
<1>5. OwnNumbers' /\ NackNoted' /\ Awaited'
  BY <1>1 DEF CountInv, OwnNumbers, NackNoted, Awaited
<1> QED BY <1>4, <1>5 DEF CountInv

\* Answer notes a Nack before its callback acts on it.
LEMMA AnswerCount ==
  ASSUME IInv, CountInv, NEW c, NEW what \in {"data", "nack", "timeout"}, Answer(c, what)
  PROVE  CountInv'
<1>1. /\ UNCHANGED <<limits, mode, pd, pdFinishedCount, reset, seqNum, tokens, hand, total, finished,
                     pending, retxQueue>>
      /\ active' \subseteq active /\ retxQueued' \subseteq retxQueued
      /\ quirks \subseteq quirks' /\ (what = "nack" => "nack" \in quirks')
      /\ quirks' \subseteq quirks \cup {what}
      /\ copies' = {IF d = c THEN [c EXCEPT !.at = what] ELSE d : d \in copies} /\ c \in copies
  BY DEF Answer, flow, sender
<1>2. Bounds'
  BY <1>1 DEF CountInv, Bounds, Others
<1>3. OwnNumbers' /\ Awaited'
  BY <1>1 DEF CountInv, OwnNumbers, Awaited
<1>4. NackNoted'
  <2> SUFFICES ASSUME NEW d \in copies', d.at = "nack" PROVE "nack" \in quirks'
    BY DEF NackNoted
  <2>1. PICK e \in copies : d = IF e = c THEN [c EXCEPT !.at = what] ELSE e
    BY <1>1
  <2>2. CASE e # c
    BY <1>1, <2>1, <2>2 DEF CountInv, NackNoted
  <2>3. CASE e = c
    <3>1. [c EXCEPT !.at = what].at = what \/ [c EXCEPT !.at = what] = c
      OBVIOUS
    <3> QED BY <1>1, <2>1, <2>3, <3>1 DEF CountInv, NackNoted
  <2> QED BY <2>2, <2>3
<1> QED BY <1>2, <1>3, <1>4 DEF CountInv

\* The callbacks of the engine, and the other flows.
LEMMA CallbackCount ==
  ASSUME IInv, IInv', CountInv, NEW c \in copies,
         \/ OnNack(c) \/ LifetimeOver(c) \/ OnDataNothing(c) \/ OnDataUnparsed(c) \/ OnDataDT(c)
         \/ \E flags \in Flags : OnDataPD(c, flags)
  PROVE  CountInv'
<1>1. /\ UNCHANGED <<limits, mode, reset, seqNum, tokens, hand, retxQueue, active>>
      /\ quirks \subseteq quirks' /\ quirks' \subseteq quirks \cup {"unparsed"}
      /\ copies' \subseteq copies /\ retxQueued' \subseteq retxQueued
  BY DEF OnNack, LifetimeOver, OnDataNothing, OnDataUnparsed, OnDataDT, OnDataPD, flow, account, queues,
         control, sender
<1>2. NackNoted'
  BY <1>1 DEF CountInv, NackNoted
<1>3. pd \in PdStates /\ pd.rehearsal \in 0..RehearsalBudget
  BY DEF IInv, Types, CountInv, Bounds
<1>4. ASSUME NEW flags \in Flags
      PROVE  /\ Less(pd).outstanding = IF pd.outstanding > 0 THEN pd.outstanding - 1 ELSE 0
             /\ Less(pd).finished = pd.finished /\ Less(pd).rehearsal = pd.rehearsal
             /\ Less(pd) \in PdStates
  BY <1>3, PdFields, PdStatesKept, MarsAssumption
<1>5. CASE OnNack(c)
  <2>1. /\ UNCHANGED <<pdFinishedCount, total, finished, retxQueued>> /\ c.at = "nack"
        /\ pending' = Without(c.name) /\ pd' = IF mode = "PD" THEN Less(pd) ELSE pd
    BY <1>5 DEF OnNack, account, queues
  <2>2. [tier |-> TRUE, node |-> TRUE] \in Flags
    BY DEF Flags
  <2>3. /\ Less(pd).outstanding = IF pd.outstanding > 0 THEN pd.outstanding - 1 ELSE 0
        /\ Less(pd).finished = pd.finished /\ Less(pd).rehearsal = pd.rehearsal
    BY <1>4, <2>2
  <2>4. "nack" \in quirks
    BY <2>1 DEF CountInv, NackNoted
  <2>5. Awaited'
    BY <1>1, <2>1, <2>3, <2>4, AwaitedLess DEF CountInv
  <2>6. Bounds'
    BY <1>1, <2>1, <2>3 DEF CountInv, Bounds, Others
  <2>7. OwnNumbers'
    BY <1>1, <2>1, WithoutShrinks, NumbersKept DEF CountInv
  <2> QED BY <1>2, <2>5, <2>6, <2>7 DEF CountInv
<1>6. CASE LifetimeOver(c)
  <2>1. UNCHANGED <<pd, pdFinishedCount, pending, total, finished, retxQueued>>
    BY <1>6 DEF LifetimeOver, flow, account, queues
  <2>2. Bounds'
    BY <1>1, <2>1 DEF CountInv, Bounds, Others
  <2>3. OwnNumbers' /\ Awaited'
    BY <1>1, <2>1 DEF CountInv, OwnNumbers, Awaited
  <2> QED BY <1>2, <2>2, <2>3 DEF CountInv
<1>7. CASE OnDataNothing(c)
  <2>1. /\ UNCHANGED <<pd, pdFinishedCount, total, finished, retxQueued>>
        /\ c.name \notin DOMAIN pending \/ finished
        /\ pending' = Without(c.name)
    BY <1>7 DEF OnDataNothing, flow, account, queues
  <2>2. Bounds'
    <3>1. /\ UNCHANGED <<tokens, limits, active, retxQueue>> /\ Bounds
      BY <1>1 DEF CountInv
    <3> QED BY <2>1, <3>1 DEF Bounds, Others
  <2>3. OwnNumbers'
    BY <1>1, <2>1, WithoutShrinks, NumbersKept DEF CountInv
  <2>4. mode = "PD" => DOMAIN pending' = DOMAIN pending
    BY <2>1, WithoutShrinks DEF CountInv, OwnNumbers
  <2>5. IsFiniteSet(DOMAIN pending')
    BY <2>1, WithoutShrinks, FS_Subset DEF CountInv, Awaited
  <2>6. Awaited'
    BY <1>1, <2>1, <2>4, <2>5 DEF CountInv, Awaited
  <2> QED BY <1>2, <2>2, <2>3, <2>6 DEF CountInv
<1>8. CASE OnDataDT(c)
  <2>1. /\ UNCHANGED <<pd, pdFinishedCount>> /\ mode = "DT"
        /\ c.name \in DOMAIN pending /\ ~finished /\ pending' = Without(c.name)
        /\ \/ total' = total + 1 /\ finished' = Enough(total + 1)
           \/ UNCHANGED <<total, finished>>
    BY <1>8 DEF OnDataDT, flow
  <2>2. MaxPackets \in Nat /\ MaxPackets > 0 /\ total \in Nat
    <3>1. c.name \in Names /\ c.name[3] \in Seqs
      BY <2>1 DEF IInv, Types, Names
    <3>2. MaxPackets \in Nat
      BY MarsAssumption
    <3>3. total \in Nat
      BY DEF IInv, Types
    <3> QED BY <3>1, <3>2, <3>3 DEF Seqs
  <2>3. total' <= MaxPackets /\ (finished' \/ total' < MaxPackets \/ total' = 0)
    <3>1. total < MaxPackets \/ total = 0
      BY <2>1 DEF CountInv, Bounds
    <3>2. CASE total' = total + 1 /\ finished' = Enough(total + 1)
      <4>1. finished' \/ ~(total + 1 >= MaxPackets)
        BY <3>2 DEF Enough
      <4>2. total + 1 <= MaxPackets /\ (~(total + 1 >= MaxPackets) => total + 1 < MaxPackets)
        BY <2>2, <3>1
      <4> QED BY <3>2, <4>1, <4>2
    <3>3. CASE UNCHANGED <<total, finished>>
      BY <2>2, <3>1, <3>3
    <3> QED BY <2>1, <3>2, <3>3
  <2>4. Bounds'
    BY <1>1, <2>1, <2>3 DEF CountInv, Bounds, Others
  <2>5. IsFiniteSet(DOMAIN pending')
    BY <2>1, WithoutShrinks, FS_Subset DEF CountInv, Awaited
  <2>6. OwnNumbers' /\ Awaited'
    BY <1>1, <2>1, <2>5 DEF OwnNumbers, Awaited
  <2> QED BY <1>2, <2>4, <2>6 DEF CountInv
<1>9. ASSUME NEW flags \in Flags, OnDataPD(c, flags) PROVE CountInv'
  <2> DEFINE p1 == Less(pd)
             p2 == Converging(p1, flags)
             p3 == FalseConvergence(p2, flags)
  <2>1. /\ UNCHANGED <<total, finished, retxQueued>>
        /\ c.name \in DOMAIN pending /\ pending' = Without(c.name)
        /\ pd' = checkPdState(p3) /\ Counted(pd')
    BY <1>9 DEF OnDataPD, account, queues
  <2>2. /\ p1 \in PdStates /\ p1.finished = pd.finished /\ p1.rehearsal = pd.rehearsal
        /\ p1.outstanding = IF pd.outstanding > 0 THEN pd.outstanding - 1 ELSE 0
    BY <1>4
  <2> HIDE DEF p1
  <2>3. /\ p2 \in PdStates /\ p2.finished = p1.finished /\ p2.rehearsal = p1.rehearsal
        /\ p2.outstanding = p1.outstanding
    BY <1>3, <2>2, PdFields, PdStatesKept, MarsAssumption
  <2> HIDE DEF p2
  <2>4. /\ p3 \in PdStates /\ p3.finished = p2.finished /\ p3.rehearsal \in 0..RehearsalBudget
        /\ p3.outstanding = p2.outstanding
    BY <1>3, <2>2, <2>3, PdFields, PdStatesKept, MarsAssumption
  <2> HIDE DEF p3
  <2>5. /\ p3.finished => pd'.finished
        /\ pd'.rehearsal \in 0..RehearsalBudget /\ pd'.outstanding = p3.outstanding
    BY <2>1, <2>4, PdFields
  <2>6. pd' \in PdStates
    BY DEF IInv, Types
  <2>7. pdFinishedCount' \in Int /\ Others' = Others
    BY <2>1, <2>2, <2>3, <2>4, <2>5, <2>6, CountedOthers DEF CountInv
  <2>8. Bounds'
    BY <1>1, <2>1, <2>5, <2>7 DEF CountInv, Bounds
  <2>9. Awaited'
    BY <1>1, <2>1, <2>2, <2>3, <2>4, <2>5, AwaitedLess DEF CountInv
  <2>10. OwnNumbers'
    BY <1>1, <2>1, WithoutShrinks, NumbersKept DEF CountInv
  <2> QED BY <1>2, <2>8, <2>9, <2>10 DEF CountInv
<1>10. CASE OnDataUnparsed(c)
  <2>1. /\ UNCHANGED <<pdFinishedCount, total, finished, retxQueued>> /\ c.name \in DOMAIN pending
        /\ pending' = Without(c.name) /\ pd' = IF mode = "PD" THEN Less(pd) ELSE pd
    BY <1>10 DEF OnDataUnparsed, queues
  <2>2. [tier |-> TRUE, node |-> TRUE] \in Flags
    BY DEF Flags
  <2>3. /\ Less(pd).outstanding = IF pd.outstanding > 0 THEN pd.outstanding - 1 ELSE 0
        /\ Less(pd).finished = pd.finished /\ Less(pd).rehearsal = pd.rehearsal
    BY <1>4, <2>2
  <2>4. Awaited'
    BY <1>1, <2>1, <2>3, AwaitedLess DEF CountInv
  <2>5. Bounds'
    BY <1>1, <2>1, <2>3 DEF CountInv, Bounds, Others
  <2>6. OwnNumbers'
    BY <1>1, <2>1, WithoutShrinks, NumbersKept DEF CountInv
  <2> QED BY <1>2, <2>4, <2>5, <2>6 DEF CountInv
<1> QED BY <1>5, <1>6, <1>7, <1>8, <1>9, <1>10

\* The coordination of the flows.
LEMMA FlowsCount == ASSUME IInv, CountInv, OtherFinished \/ startDataTransmission PROVE CountInv'
<1>1. CASE OtherFinished
  <2>1. /\ UNCHANGED <<limits, mode, pd, reset, pending, total, finished, retxQueue, retxQueued, active,
                       seqNum, tokens, hand, copies, quirks>>
        /\ Others < OtherFlows /\ pdFinishedCount' = pdFinishedCount + 1
    BY <1>1 DEF OtherFinished, Others, account, queues, control, sender
  <2>2. pdFinishedCount \in Int /\ Others \in 0..OtherFlows
    BY DEF CountInv, Bounds
  <2>3. Others' = Others + 1
    BY <2>1, <2>2 DEF Others
  <2>4. Others' \in 0..OtherFlows /\ pdFinishedCount' \in Int
    BY <2>1, <2>2, <2>3, MarsAssumption
  <2>5. Bounds'
    BY <2>1, <2>4 DEF CountInv, Bounds
  <2>6. OwnNumbers' /\ NackNoted' /\ Awaited'
    BY <2>1 DEF CountInv, OwnNumbers, NackNoted, Awaited
  <2> QED BY <2>5, <2>6 DEF CountInv
<1>2. CASE startDataTransmission
  <2>1. /\ UNCHANGED <<limits, pd, pdFinishedCount, active, tokens, copies, quirks>>
        /\ mode' = "DT" /\ DOMAIN pending' = {} /\ total' = 0 /\ retxQueued' = {}
    BY <1>2 DEF startDataTransmission, initDTState, control, sender
  <2>2. Bounds'
    BY <2>1, MarsAssumption DEF CountInv, Bounds, Others
  <2>3. OwnNumbers' /\ NackNoted'
    BY <2>1 DEF CountInv, OwnNumbers, NackNoted
  <2>4. Awaited'
    BY <2>1, FS_EmptySet DEF Awaited
  <2> QED BY <2>2, <2>3, <2>4 DEF CountInv
<1> QED BY <1>1, <1>2

\* The sender: its signal and its ticks, and the hand-over of an Interest.
LEMMA SenderCount ==
  ASSUME IInv, IInv', CountInv, Resetting \/ Tick \/ Arm PROVE CountInv'
<1>1. /\ UNCHANGED <<limits, mode, pdFinishedCount, pending, total, finished, retxQueue, retxQueued, quirks>>
      /\ hand' = hand \/ hand' = None
  BY DEF Resetting, Tick, Arm, flow, account, queues
<1>2. pd' = pd \/ (pd.rehearsal > 0 /\ pd' = [pd EXCEPT !.rehearsal = @ - 1])
  <2>1. CASE Tick
    BY <2>1 DEF Tick
  <2>2. CASE Resetting
    BY <2>2 DEF Resetting
  <2>3. CASE Arm
    BY <2>3 DEF Arm, flow
  <2> QED BY <2>1, <2>2, <2>3
<1>3. pd \in PdStates /\ pd.rehearsal \in 0..RehearsalBudget
  BY DEF IInv, Types, CountInv, Bounds
<1>4. /\ pd'.outstanding = pd.outstanding /\ pd'.finished = pd.finished
      /\ pd'.rehearsal \in 0..RehearsalBudget
  BY <1>2, <1>3, MarsAssumption DEF PdStates
<1>5. active' \subseteq Names
  <2>1. active \subseteq Names /\ (hand # None => hand.name \in Names)
    BY DEF CountInv, Bounds, IInv, Types
  <2>2. active' = active \/ (hand # None /\ active' = active \cup {hand.name})
    <3>1. CASE Arm
      BY <3>1 DEF Arm
    <3>2. CASE Resetting
      BY <3>2 DEF Resetting, control
    <3>3. CASE Tick
      BY <3>3 DEF Tick, control
    <3> QED BY <3>1, <3>2, <3>3
  <2> QED BY <2>1, <2>2
<1>6. tokens' <= limits.tokens
  <2>1. tokens' = tokens \/ tokens' = 0 \/ tokens' \in 0..limits.tokens
    BY DEF Resetting, Tick, Arm
  <2> QED BY <2>1 DEF CountInv, Bounds, IInv, Types
<1>7. Bounds'
  BY <1>1, <1>4, <1>5, <1>6 DEF CountInv, Bounds, Others
<1>8. OwnNumbers'
  <2>1. CASE Resetting
    BY <1>1, <2>1 DEF CountInv, OwnNumbers, Resetting
  <2>2. CASE UNCHANGED <<reset, seqNum>>
    BY <1>1, <2>2, NumbersKept DEF CountInv
  <2> QED BY <2>1, <2>2 DEF Tick, Arm, flow
<1>9. NackNoted'
  <2>1. \A d \in copies' : d \in copies \/ d.at = "out"
    <3>1. CASE Arm
      <4>1. \E id : copies' = copies \cup {[name |-> hand.name, id |-> id, at |-> "out"]}
        BY <3>1 DEF Arm
      <4> QED BY <4>1
    <3>2. CASE Resetting \/ Tick
      BY <3>2 DEF Resetting, Tick
    <3> QED BY <3>1, <3>2
  <2> QED BY <1>1, <2>1 DEF CountInv, NackNoted
<1>10. Awaited'
  BY <1>1, <1>4 DEF CountInv, Awaited
<1> QED BY <1>7, <1>8, <1>9, <1>10 DEF CountInv

\* The sender's end.
LEMMA ReturnCount == ASSUME IInv, CountInv, Return PROVE CountInv'
<1>1. /\ UNCHANGED <<limits, mode, pd, pdFinishedCount, reset, pending, total, finished, retxQueue,
                     retxQueued, active, seqNum, tokens, hand, copies>>
      /\ quirks' = quirks \cup {"over"}
  BY DEF Return, flow, account, queues, control, sender
<1>2. Bounds'
  BY <1>1 DEF CountInv, Bounds, Others
<1>3. OwnNumbers' /\ NackNoted' /\ Awaited'
  BY <1>1 DEF CountInv, OwnNumbers, NackNoted, Awaited
<1> QED BY <1>2, <1>3 DEF CountInv

\* Pick: a number that leaves the queue leaves the set with it, and a new Interest
\* has a number above all that are awaited.
LEMMA PickCount == ASSUME IInv, IInv', CountInv, Pick PROVE CountInv'
<1> DEFINE i == IF mode = "DT" THEN Pop ELSE 0
           dropped == IF i = 0 THEN Len(retxQueue) ELSE i
<1>1. /\ UNCHANGED <<limits, mode, pd, pdFinishedCount, reset, pending, total, finished, active, copies,
                     quirks>>
      /\ hand = None
  BY DEF Pick, flow, account, control
<1>2. /\ IF mode = "DT"
         THEN /\ retxQueue' = SubSeq(retxQueue, dropped + 1, Len(retxQueue))
              /\ retxQueued' = retxQueued \ {retxQueue[j] : j \in 1..dropped}
         ELSE UNCHANGED <<retxQueue, retxQueued>>
      /\ \/ i > 0 /\ tokens' = tokens - 1
         \/ /\ i = 0 /\ seqNum' = seqNum + 1
            /\ sendSingleInterest(seqNum + 1, FALSE) /\ tokens' = tokens - 1
         \/ i = 0 /\ tokens' = 0 /\ UNCHANGED <<seqNum, hand>>
  BY DEF Pick, queues
<1>3. /\ retxQueue \in Seq(Seqs) /\ Len(retxQueue) \in Nat /\ i \in 0..Len(retxQueue)
      /\ tokens \in Nat /\ limits.tokens \in Nat /\ seqNum \in Nat
  <2>1. retxQueue \in Seq(Seqs)
    BY DEF IInv, Types
  <2>2. Len(retxQueue) \in Nat /\ Pop \in 0..Len(retxQueue)
    BY <2>1, PopInQueue, LenProperties
  <2>3. tokens \in Nat /\ limits.tokens \in Nat /\ seqNum \in 0..MaxPackets
    BY DEF IInv, Types
  <2> QED BY <2>1, <2>2, <2>3
<1>4. mode = "PD" => i = 0
  OBVIOUS
<1> HIDE DEF i
<1>5. \A s \in retxQueued' : \E j \in 1..Len(retxQueue') : retxQueue'[j] = s
  <2>1. \A s \in retxQueued : \E j \in 1..Len(retxQueue) : retxQueue[j] = s
    BY DEF CountInv, Bounds
  <2>2. CASE mode = "DT"
    <3>1. dropped \in 0..Len(retxQueue)
      BY <1>3
    <3> HIDE DEF dropped
    <3>2. /\ Len(retxQueue') = Len(retxQueue) - dropped
          /\ \A j \in 1..Len(retxQueue) - dropped : retxQueue'[j] = retxQueue[dropped + j]
      <4>1. \A j \in dropped + 1..Len(retxQueue) : retxQueue[j] \in Seqs
        BY <1>3, <3>1, ElementOfSeq
      <4>2. dropped + 1 \in Int /\ Len(retxQueue) \in Int /\ dropped + 1 <= Len(retxQueue) + 1
        BY <1>3, <3>1
      <4>3. retxQueue' = SubSeq(retxQueue, dropped + 1, Len(retxQueue))
        BY <1>2, <2>2
      <4> DEFINE rest == SubSeq(retxQueue, dropped + 1, Len(retxQueue))
      <4>4. /\ Len(rest) = IF dropped + 1 <= Len(retxQueue) THEN Len(retxQueue) - (dropped + 1) + 1 ELSE 0
            /\ \A j \in 1..Len(retxQueue) - (dropped + 1) + 1 : rest[j] = retxQueue[dropped + 1 + j - 1]
        BY <4>1, <4>2, SubSeqProperties
      <4> HIDE DEF rest
      <4>5. /\ Len(rest) = Len(retxQueue) - dropped
            /\ \A j \in 1..Len(retxQueue) - dropped : rest[j] = retxQueue[dropped + j]
        BY <1>3, <3>1, <4>4
      <4> QED BY <4>3, <4>5 DEF rest
    <3>3. ASSUME NEW s \in retxQueued' PROVE \E j \in 1..Len(retxQueue') : retxQueue'[j] = s
      <4>1. s \in retxQueued /\ \A j \in 1..dropped : retxQueue[j] # s
        BY <1>2, <2>2
      <4>2. PICK j \in 1..Len(retxQueue) : retxQueue[j] = s
        BY <2>1, <4>1
      <4>3. j - dropped \in 1..Len(retxQueue) - dropped /\ dropped + (j - dropped) = j
        BY <1>3, <3>1, <4>1, <4>2
      <4> QED BY <3>2, <4>2, <4>3
    <3> QED BY <3>3
  <2>3. CASE mode # "DT"
    BY <1>2, <2>1, <2>3
  <2> QED BY <2>2, <2>3
<1>6. Bounds'
  <2>1. tokens <= limits.tokens
    BY DEF CountInv, Bounds
  <2>2. tokens' = tokens - 1 \/ tokens' = 0
    BY <1>2
  <2>3. tokens' <= limits.tokens
    BY <1>3, <2>1, <2>2
  <2> QED BY <1>1, <1>5, <2>3 DEF CountInv, Bounds, Others
<1>7. OwnNumbers'
  <2> SUFFICES ASSUME mode = "PD" PROVE OwnNumbers'
    BY <1>1 DEF OwnNumbers
  <2>1. ~reset /\ ~finished /\ \A x \in DOMAIN pending : x[3] <= seqNum
    BY DEF CountInv, OwnNumbers
  <2>2. CASE UNCHANGED <<seqNum, hand>>
    BY <1>1, <2>1, <2>2 DEF OwnNumbers
  <2>3. CASE seqNum' = seqNum + 1 /\ sendSingleInterest(seqNum + 1, FALSE)
    <3>1. hand'.name[3] = seqNum + 1 /\ hand'.retx = FALSE
      BY <2>3 DEF sendSingleInterest, NameFor
    <3>2. \A x \in DOMAIN pending : x[3] < seqNum + 1
      <4>1. \A x \in DOMAIN pending : x[3] \in Nat
        BY MarsAssumption DEF IInv, Types, Names, Seqs
      <4> QED BY <1>3, <2>1, <4>1
    <3>3. \A x \in DOMAIN pending : x[3] <= seqNum + 1
      <4>1. \A x \in DOMAIN pending : x[3] \in Nat
        BY MarsAssumption DEF IInv, Types, Names, Seqs
      <4> QED BY <1>3, <3>2, <4>1
    <3> QED BY <1>1, <2>1, <2>3, <3>1, <3>2, <3>3 DEF OwnNumbers
  <2>4. ~(i > 0)
    BY <1>4
  <2> QED BY <1>2, <2>2, <2>3, <2>4
<1>8. NackNoted' /\ Awaited'
  BY <1>1 DEF CountInv, NackNoted, Awaited
<1> QED BY <1>6, <1>7, <1>8 DEF CountInv

\* RecordInterestSend: in discovery the name is new, so count and set grow together.
LEMMA RecordCount == ASSUME IInv, IInv', CountInv, RecordInterestSend PROVE CountInv'
<1> DEFINE n == hand.name
           D == DOMAIN pending
<1>1. /\ UNCHANGED <<limits, mode, pdFinishedCount, reset, total, finished, retxQueue, retxQueued, active,
                     seqNum, tokens, copies>>
      /\ hand # None /\ hand.stage = "record" /\ hand' = [hand EXCEPT !.stage = "arm"]
      /\ DOMAIN pending' = D \cup {n}
      /\ pd' = IF mode = "PD" /\ ~hand.retx THEN [pd EXCEPT !.outstanding = @ + 1] ELSE pd
      /\ quirks \subseteq quirks'
  BY DEF RecordInterestSend, queues, control
<1>2. /\ pd \in PdStates /\ seqNum \in Nat
      /\ hand \in [name : Names, seq : Seqs, retx : BOOLEAN, stage : {"record", "arm"}]
  BY <1>1 DEF IInv, Types
<1>3. hand'.stage = "arm" /\ hand'.retx = hand.retx
  BY <1>1, <1>2
<1>4. pd'.finished = pd.finished /\ pd'.rehearsal = pd.rehearsal
  BY <1>1, <1>2 DEF PdStates
<1>5. Bounds'
  BY <1>1, <1>4 DEF CountInv, Bounds, Others
<1>6. mode = "PD" => n[3] = seqNum /\ ~hand.retx /\ \A x \in D : x[3] < seqNum
  BY <1>1 DEF CountInv, OwnNumbers
<1>7. OwnNumbers'
  <2>1. mode = "PD" => \A x \in D \cup {n} : x[3] <= seqNum
    BY <1>1, <1>2, <1>6 DEF CountInv, OwnNumbers
  <2> QED BY <1>1, <1>3, <1>6, <2>1 DEF CountInv, OwnNumbers
<1>8. NackNoted'
  BY <1>1 DEF CountInv, NackNoted
<1>9. Awaited'
  <2>1. IsFiniteSet(D) /\ Cardinality(D) \in Nat
    BY FS_CardinalityType DEF CountInv, Awaited
  <2>2. mode = "PD" => n \notin D
    BY <1>2, <1>6
  <2>3. IsFiniteSet(D \cup {n}) /\ (n \notin D => Cardinality(D \cup {n}) = Cardinality(D) + 1)
    <3> HIDE DEF D, n
    <3> QED BY <2>1, FS_AddElement
  <2>4. ASSUME mode = "PD" PROVE pd'.outstanding = pd.outstanding + 1 /\ pd.outstanding \in Nat
    BY <1>1, <1>2, <1>6, <2>4 DEF PdStates
  <2>5. ASSUME mode = "PD"
        PROVE  /\ pd'.outstanding <= Cardinality(D \cup {n})
               /\ quirks' \cap {"nack", "late"} = {} => pd'.outstanding = Cardinality(D \cup {n})
    <3>1. /\ pd.outstanding <= Cardinality(D)
          /\ quirks \cap {"nack", "late"} = {} => pd.outstanding = Cardinality(D)
      BY <2>5 DEF CountInv, Awaited
    <3>2. Cardinality(D \cup {n}) = Cardinality(D) + 1
      BY <2>2, <2>3, <2>5
    <3>3. quirks' \cap {"nack", "late"} = {} => quirks \cap {"nack", "late"} = {}
      BY <1>1
    <3> HIDE DEF D, n
    <3> QED BY <2>1, <2>4, <2>5, <3>1, <3>2, <3>3
  <2> QED BY <1>1, <2>3, <2>5 DEF Awaited
<1> QED BY <1>5, <1>7, <1>8, <1>9 DEF CountInv

\* Every step keeps the count.
LEMMA CountSteps == ASSUME IInv, IInv', CountInv, [Next]_vars PROVE CountInv'
<1>1. CASE UNCHANGED vars
  BY <1>1 DEF vars, CountInv, Bounds, Others, OwnNumbers, NackNoted, Awaited
<1>2. CASE SenderStep \/ Return
  BY <1>2, SenderCount, PickCount, RecordCount, ReturnCount DEF SenderStep
<1>3. CASE OnTimeout \/ \E n \in Names : RtoExpires(n)
  BY <1>3, TimeoutCount, RtoCount
<1>4. CASE OtherFinished \/ startDataTransmission
  BY <1>4, FlowsCount
<1>5. ASSUME NEW c \in copies, CallbackStep(c) PROVE CountInv'
  BY <1>5, CallbackCount DEF CallbackStep
<1>6. ASSUME NEW c \in copies, NEW what \in {"data", "nack", "timeout"}, Answer(c, what) PROVE CountInv'
  BY <1>6, AnswerCount
<1> QED BY <1>1, <1>2, <1>3, <1>4, <1>5, <1>6 DEF Next

\* OutstandingPD counts the awaited Interests of path discovery for any number of
\* packets, tiers and flows: never more than there are, and exactly as many unless
\* a Nack, or a timeout that met a Data, was counted as well.
THEOREM OutstandingHolds == Spec => []OutstandingMatches
<1>1. IInv /\ CountInv => OutstandingMatches
  <2> SUFFICES ASSUME IInv, CountInv PROVE OutstandingMatches
    OBVIOUS
  <2>1. pdFinishedCount \in 0..OtherFlows + 1
    BY MarsAssumption DEF CountInv, Bounds, Others
  <2>2. /\ pd.tier \in 0..MaxTier /\ pd.outstanding \in Nat /\ total \in 0..MaxPackets
        /\ tokens \in 0..limits.tokens
    BY MarsAssumption DEF IInv, Types, PdStates, CountInv, Bounds
  <2>3. \A i \in 1..Len(retxQueue) : retxQueue[i] \in Seqs
    BY ElementOfSeq DEF IInv, Types
  <2>4. TypeOK
    BY <2>1, <2>2, <2>3 DEF TypeOK, IInv, Types, CountInv, Bounds
  <2> QED BY <2>4 DEF OutstandingMatches, CountInv, Awaited
<1>2. Init => CountInv
  BY InitialCount
<1>3. IInv /\ IInv' /\ CountInv /\ [Next]_vars => CountInv'
  BY CountSteps
<1> QED BY <1>1, <1>2, <1>3, Invariance, PTL DEF Spec
=============================================================================
