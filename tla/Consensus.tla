------------------------------ MODULE Consensus ------------------------------
(***************************************************************************)
(* What one slot promises its replicas, without saying how: some proposed  *)
(* value is chosen, once, and stays chosen.  This is the promise the crate *)
(* documentation makes for Decision (src/src/types.rs).                    *)
(***************************************************************************)
CONSTANT Value

VARIABLE chosen

Init == chosen = {}

Choose == chosen = {} /\ \E v \in Value : chosen' = {v}

Spec == Init /\ [][Choose]_chosen
==============================================================================
