--------------------------- MODULE PacketDomains ---------------------------
(***************************************************************************)
(* The values the tables of a forwarding thread range over.                *)
(***************************************************************************)
EXTENDS Integers, Sequences

CONSTANTS Names,      \* names of Interests and Data: sequences of components
          Nonces,     \* nonce values
          None        \* the absent value (Go's nil, or a missing map entry)

ASSUME NamesAssumption == /\ \A n \in Names : n \in Seq(STRING)
                          /\ None \notin Nonces /\ None \notin Names
=============================================================================
