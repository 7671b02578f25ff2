-------------------------------- MODULE MCRib --------------------------------
(***************************************************************************)
(* An instance of Rib for TLC.                                             *)
(***************************************************************************)
EXTENDS Rib

\* A chain of prefixes with a branch, deep enough that a prefix longer than the
\* virtual length has another below it.
MCNames == {<<>>, <<"a">>, <<"a", "b">>, <<"a", "b", "c">>}
MCLookupNames == MCNames \cup {<<"e">>, <<"a", "e">>, <<"a", "b", "c", "e">>}

Route(f, o, c, inherit, capture) ==
  [face |-> f, origin |-> o, cost |-> c, inherit |-> inherit, capture |-> capture]

\* Routes of two origins for one face and prefix, routes that are inherited, and one
\* that captures and overwrites, or is overwritten by, another of a different cost.
MCRegistrations ==
  {<<<<>>, Route(2, "static", 1, TRUE, FALSE)>>,
   <<<<"a", "b">>, Route(1, Client, 2, TRUE, FALSE)>>,
   <<<<"a", "b">>, Route(1, "static", 1, FALSE, FALSE)>>,
   <<<<"a", "b">>, Route(1, Client, 1, TRUE, TRUE)>>,
   <<<<"a", "b", "c">>, Route(2, Client, 2, FALSE, FALSE)>>}
MCFibEdits == {<<<<"a", "b">>, 1>>}
MCChoiceNames == {<<"a", "b">>}
=============================================================================
