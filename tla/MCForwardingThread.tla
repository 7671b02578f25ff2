------------------------- MODULE MCForwardingThread -------------------------
(***************************************************************************)
(* Instances of ForwardingThread for TLC.                                  *)
(***************************************************************************)
EXTENDS ForwardingThread

CONSTANTS con, peer, up, x, y

A == <<"a">>
AB == <<"a", "b">>

MkInterest(name, cbp, nonce, life) ==
  [name |-> name, cbp |-> cbp, mbf |-> FALSE, hints |-> <<>>, nonce |-> nonce,
   life |-> life, hop |-> NoHopLimit, nexthop |-> None]

AC == <<"a", "c">>

MCFib == [n \in Names \cup Hints |-> <<up, peer>>]
MCNoCs == {[capacity |-> 0, admit |-> FALSE, serve |-> FALSE]}
MCCsConfigs == {[capacity |-> 2, admit |-> TRUE, serve |-> TRUE],
                [capacity |-> 1, admit |-> TRUE, serve |-> FALSE]}
MCOneCs == {[capacity |-> 1, admit |-> TRUE, serve |-> TRUE]}

MCNames3 == {A, AB, AC}

\* With a Data packet that answers only the prefix Interest: a token that led to
\* the entry of another name would show.
MCTokenInterests == {MkInterest(A, TRUE, x, 1), MkInterest(AB, FALSE, y, 2)}
MCDataOfEither == {[name |-> A, fresh |-> 1], [name |-> AB, fresh |-> 1]}

\* One exact name, two nonces, two lifetimes.
MCExact == {MkInterest(A, FALSE, n, t) : n \in {x, y}, t \in {1, 2}}
MCDataA == {[name |-> A, fresh |-> 0]}

\* What the Content Store tells apart: prefix and freshness flags.
MCCsInterests == {MkInterest(A, TRUE, x, 1),
                  [MkInterest(A, TRUE, y, 1) EXCEPT !.mbf = TRUE],
                  MkInterest(AB, FALSE, x, 1)}
MCCsData == {[name |-> A, fresh |-> 0], [name |-> AB, fresh |-> 1], [name |-> AC, fresh |-> 1]}

\* Everything that can make the thread refuse an Interest or choose other next
\* hops: scope, hop limit, nonce, hints, an explicit next hop, multicast.
H1 == <<"h1">>
H2 == <<"h2">>
HopName == <<"localhop", "a">>
HostName == <<"localhost", "a">>
MCScopeNames == {HopName, HostName}
MCHints == {H1, H2}
MCRegion == {H2}
MCLocalhost == {HostName}
MCLocalhop == {HopName}
MCScopeInterests ==
  {MkInterest(HostName, FALSE, x, 1),
   [MkInterest(HopName, FALSE, x, 1) EXCEPT !.hop = 1],
   [MkInterest(HopName, FALSE, y, 1) EXCEPT !.hop = 0],
   [MkInterest(HopName, FALSE, y, 1) EXCEPT !.nexthop = peer],
   [MkInterest(HopName, FALSE, None, 1) EXCEPT !.hints = <<H1>>],
   [MkInterest(HopName, FALSE, y, 1) EXCEPT !.hints = <<H1>>],
   [MkInterest(HopName, FALSE, x, 1) EXCEPT !.hints = <<H1, H2>>]}
MCScopeData == {[name |-> n, fresh |-> 0] : n \in MCScopeNames}
=============================================================================
