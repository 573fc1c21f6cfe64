-------------------------- MODULE MCReplicaRuntime --------------------------
EXTENDS ReplicaRuntime, TLC

CONSTANT x   \* a value other members propose

MCForeign == {<<x>>}
Symmetry == Permutations(Value)
==============================================================================
