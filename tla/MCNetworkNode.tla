--------------------------- MODULE MCNetworkNode ---------------------------
(***************************************************************************)
(* The instances of NetworkNode that TLC checks: submissions of one value, *)
(* retries of it, and other nodes, one of which proposes a membership      *)
(* command.                                                                *)
(***************************************************************************)
EXTENDS NetworkNode, TLC

CONSTANTS a, x, y

MCIds == [i \in Request |-> <<a>>]
MCForeign == {<<x>>}
TwoForeign == {<<x>>, <<y>>}
\* The node starts in a joint epoch; the change that ends it removes the member
\* that proposes y.
MCLeft == [e \in 0 .. MaxEpoch |-> IF e = 0 THEN {} ELSE Foreign \ {<<x>>}]
Sym == Permutations(Request)
==============================================================================
