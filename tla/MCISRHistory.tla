---------------------------- MODULE MCISRHistory ----------------------------
EXTENDS ISRHistory

\* Two proposers, one of them with two priorities: keys that tie on the
\* priority and keys that do not.
MCProposal ==
  {[priority |-> k[1], proposer |-> k[2], value |-> k[2]] :
     k \in {<<1, 1>>, <<1, 2>>, <<2, 1>>}}
==============================================================================
