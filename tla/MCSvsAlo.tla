------------------------------- MODULE MCSvsAlo -------------------------------
(***************************************************************************)
(* A publisher and a subscriber, under each snapshot strategy: two boot    *)
(* times, without snapshots one more fetch in the pipeline and an own      *)
(* publication, in repo mode the five publications of one boot it takes    *)
(* for a snapshot to be delivered after one that was not.                  *)
(***************************************************************************)
EXTENDS SvsAlo

MCLimit(boots, pubs, pipeline, absent, publish) ==
  [boots |-> boots, pubs |-> pubs, pipeline |-> pipeline, absences |-> absent, owns |-> publish]

MCLimits == [null |-> MCLimit(1, 4, 2, 1, 1), latest |-> MCLimit(2, 4, 1, 1, 0),
             history |-> MCLimit(2, 4, 1, 0, 0), repo |-> MCLimit(1, 5, 1, 0, 0)]
=============================================================================
