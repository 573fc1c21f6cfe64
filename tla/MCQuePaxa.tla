------------------------------ MODULE MCQuePaxa ------------------------------
EXTENDS QuePaxa, ClusterIdentity, TLC

\* Three replicas that tolerate one crash: two replies are a quorum.
MCQuorum == ReplySets(StableCluster(0, Recorder, 1))

\* Replica 3 alone names itself while the others agree on replica 1.
ThreeDiverges == [p \in Proposer |-> IF p = 3 THEN {3} ELSE {1}]

\* Replica 3 retries a call that fails.
ThreeRetries == [p \in Proposer |-> IF p = 3 THEN 2 ELSE 1]

\* Each proposer drives a batch of its own.  The retry of replica 3 follows a
\* restart that lost its batch, and drives another one, 0.
MCBatch == [p \in Proposer |-> [a \in 1 .. MaxAttempts[p] |-> IF a = 2 THEN 0 ELSE p]]

\* Recorders differ in nothing but their identity.
MCSymmetry == Permutations(Recorder)

\* What decides the future of a state: every variable but the history, and of
\* the requests those that can still have an effect.
MCView ==
  <<isr, bound, known, attempt, step, proposal, replies, decided,
    {m \in sent : ~Spent(m)}>>
==============================================================================
