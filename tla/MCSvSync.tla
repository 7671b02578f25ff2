------------------------------- MODULE MCSvSync -------------------------------
(***************************************************************************)
(* Two publishers, the first of which may come back under a second boot    *)
(* time, and a passive node; the clock of the second may be days ahead.    *)
(***************************************************************************)
EXTENDS SvSync

MCKeys == {<<1, 1>>, <<1, 2>>, <<2, 1>>}
MCSetups == {<<{}, {1}>>, <<{}, {3}>>, <<{2}, {}>>}
=============================================================================
