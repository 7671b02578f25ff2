---------------------------- MODULE MCSegFetcher ----------------------------
EXTENDS SegFetcher

MCStreams == {"a", "b"}
MCVersioned == {"a"}

Two == {"timer1", "timer2"}

\* Two streams that share nodes of the trie and a window of one.
Both == [consumed |-> {"a", "b"}, segCnt |-> 2, window |-> 1, timers |-> {"timer1"},
         cached |-> TRUE, faults |-> FaultKinds, maxFaults |-> 1]
\* One stream whose segments arrive in any order.
One == [Both EXCEPT !.consumed = {"a"}, !.segCnt = 3, !.window = 2, !.timers = Two,
                    !.maxFaults = 2]
\* Any fault; two losses; two faults on one stream, races for a shorter object
\* only; and Data that wait for a certificate.
MCSetups == {Both,
             [Both EXCEPT !.segCnt = 1, !.timers = Two, !.faults = {"loss"}, !.maxFaults = 2],
             [One EXCEPT !.faults = FaultKinds \ {"race"}],
             [One EXCEPT !.segCnt = 2],
             [Both EXCEPT !.cached = FALSE, !.faults = {"certificate"}],
             [One EXCEPT !.cached = FALSE, !.faults = {"loss", "certificate"}]}

\* One stream, and nothing goes wrong.
MCUncached == {[One EXCEPT !.cached = FALSE, !.faults = {}]}
=============================================================================
