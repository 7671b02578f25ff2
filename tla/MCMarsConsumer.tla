--------------------------- MODULE MCMarsConsumer ---------------------------
(***************************************************************************)
(* A flow of two packets beside another flow: through discovery, with      *)
(* retransmissions or with faults, and straight into the transmission,     *)
(* with both.                                                              *)
(***************************************************************************)
EXTENDS MarsConsumer

MCSetups == {[mode |-> "PD", copies |-> 2, tokens |-> 1, faults |-> 0],
             [mode |-> "PD", copies |-> 1, tokens |-> 2, faults |-> 2],
             [mode |-> "DT", copies |-> 2, tokens |-> 2, faults |-> 2]}
=============================================================================
