--------------------------- MODULE DeadNonceList ---------------------------
(***************************************************************************)
(* The Dead Nonce List of a forwarding thread                              *)
(* (fw/table/dead-nonce-list.go): name and nonce pairs that were forwarded *)
(* and whose PIT state is gone. dnl maps a pair to the time it still has   *)
(* in the list; 0 is expired and waiting for the sweep, NotListed absent.  *)
(* The 64-bit hash of name + nonce is taken as injective.                  *)
(***************************************************************************)
EXTENDS PacketDomains, FiniteSets

CONSTANTS DnlLifetime,      \* CfgDeadNonceListLifetime, in ticks
          DnlBatch          \* at most this many are swept at a time (100)

ASSUME DnlAssumption == DnlLifetime \in Nat /\ DnlBatch \in Nat \ {0}

NotListed == -1

EmptyDnl == [p \in Names \X Nonces |-> NotListed]

Find(dnl, n, nonce) == dnl[<<n, nonce>>] # NotListed

\* Insert: a pair already in the list keeps its expiration.
InsertAll(dnl, pairs) ==
  [p \in Names \X Nonces |->
     IF p \in pairs /\ dnl[p] = NotListed THEN DnlLifetime ELSE dnl[p]]

Expired(dnl) == {p \in Names \X Nonces : dnl[p] = 0}

\* The sets of pairs one sweep of RemoveExpiredEntries may take.
Sweeps(dnl) == {S \in SUBSET Expired(dnl) :
                  \/ S = Expired(dnl) /\ Cardinality(S) <= DnlBatch
                  \/ Cardinality(S) = DnlBatch}

RemoveAll(dnl, pairs) == [p \in Names \X Nonces |->
                            IF p \in pairs THEN NotListed ELSE dnl[p]]

AgeDnl(dnl) == [p \in Names \X Nonces |-> IF dnl[p] > 0 THEN dnl[p] - 1 ELSE dnl[p]]
=============================================================================
