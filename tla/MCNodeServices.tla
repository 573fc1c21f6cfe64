--------------------------- MODULE MCNodeServices ---------------------------
(***************************************************************************)
(* The instances of NodeServices that TLC checks: two founders and a node  *)
(* that joins, and up to two calls of one request.                         *)
(***************************************************************************)
EXTENDS NodeServices, TLC

CONSTANTS q1, m1, m2, a, b

MCFor == [c \in Call |-> q1]
MCWanted == [r \in Request |-> {a}]
MCOutcome == 1 .. MaxSlot
MCQuorum == {{m1, m2}}
Pair == {<<a, b>>}
Singles == {<<a>>, <<b>>}
Sym == Permutations(Call)
==============================================================================
