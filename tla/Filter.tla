------------------------------- MODULE Filter -------------------------------
(***************************************************************************)
(* The loop by which enqueue and apply_decision of src/src/replica.rs and  *)
(* execute of src/src/network/dedupe.rs pass over the values they know.    *)
(***************************************************************************)
EXTENDS Integers, Sequences

\* The values of the sequence that are not in seen, in their order.
Unseen(values, seen) ==
  LET kept[n \in 0 .. Len(values)] ==
        IF n = 0 THEN << >>
        ELSE IF values[n] \in seen THEN kept[n - 1]
        ELSE Append(kept[n - 1], values[n])
  IN  kept[Len(values)]
==============================================================================
