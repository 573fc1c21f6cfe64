--------------------------- MODULE ClusterIdentity ---------------------------
(***************************************************************************)
(* One membership epoch of the cluster, and the only two ways to derive    *)
(* the next one (src/src/types.rs, ClusterIdentity).                       *)
(*                                                                         *)
(* An Option<T> of the code is a set with at most one element.  A member   *)
(* list is a set: normalize_members sorts the list and rejects duplicates, *)
(* so nothing but the set of members survives construction.                *)
(***************************************************************************)
EXTENDS Integers, FiniteSets

\* Fault: 2f members are taken to tolerate f crashes.
ToleratesFaultsOfHalf(members, f) == Cardinality(members) >= 2 * f

\* validate_fault_tolerance: n replicas tolerate f crashes when n >= 2f + 1.
ToleratesFaults(members, f) == Cardinality(members) >= 2 * f + 1

\* A stable epoch: every quorum has n - f of the members.
StableCluster(epoch, members, f) ==
  [epoch |-> epoch, members |-> members, maxFaults |-> f, joint |-> {}]

IsJoint(c) == c.joint # {}

\* The boxed JointMembership of a joint epoch.
JointPart(c) == CHOOSE j \in c.joint : TRUE

\* begin_joint: the voters of the joint epoch are the union of the old and the
\* new members, max_faults is the new budget, the old one moves into joint.
BeginJoint(c, newMembers, newFaults) ==
  [epoch     |-> c.epoch + 1,
   members   |-> c.members \union newMembers,
   maxFaults |-> newFaults,
   joint     |-> {[oldMembers   |-> c.members,
                   oldMaxFaults |-> c.maxFaults,
                   newMembers   |-> newMembers]}]

\* The conditions under which begin_joint returns Ok; maxEpoch stands for
\* u64::MAX, where checked_add fails.
CanBeginJoint(c, newMembers, newFaults, maxEpoch) ==
  /\ ~IsJoint(c)
  /\ newMembers # {}
  /\ ToleratesFaults(newMembers, newFaults)
  /\ c.epoch < maxEpoch

\* finalize_joint: only the new voters remain.
FinalizeJoint(c) ==
  StableCluster(c.epoch + 1, JointPart(c).newMembers, c.maxFaults)

CanFinalizeJoint(c, maxEpoch) ==
  /\ IsJoint(c)
  /\ c.epoch < maxEpoch
  /\ JointPart(c).newMembers # {}
  /\ ToleratesFaults(JointPart(c).newMembers, c.maxFaults)

\* Fault: off by one.
ThresholdPlusOne(members, f) == Cardinality(members) - f + 1

\* The n - f threshold of one voter set.
Threshold(members, f) == Cardinality(members) - f

MinOf(a, b) == IF a <= b THEN a ELSE b

\* Fault: every shared member is counted for both thresholds, also the ones
\* above a threshold.
QuorumSizeAllShared(c) ==
  IF IsJoint(c)
  THEN LET j == JointPart(c)
       IN  Threshold(j.oldMembers, j.oldMaxFaults) + Threshold(j.newMembers, c.maxFaults)
             - Cardinality(j.oldMembers \intersect j.newMembers)
  ELSE Threshold(c.members, c.maxFaults)

\* quorum_size: the smallest number of voters a quorum can have.  In a joint
\* epoch a shared member counts towards both thresholds.
QuorumSize(c) ==
  IF IsJoint(c)
  THEN LET j      == JointPart(c)
           old    == Threshold(j.oldMembers, j.oldMaxFaults)
           new    == Threshold(j.newMembers, c.maxFaults)
           shared == Cardinality(j.oldMembers \intersect j.newMembers)
       IN  old + new - MinOf(MinOf(shared, old), new)
  ELSE Threshold(c.members, c.maxFaults)

\* Fault: a joint epoch accepts a quorum of the new members alone.
HasQuorumOfNew(c, voters) ==
  IF IsJoint(c)
  THEN LET j == JointPart(c)
       IN  Cardinality(j.newMembers \intersect voters)
             >= Threshold(j.newMembers, c.maxFaults)
  ELSE /\ Cardinality(voters) >= QuorumSize(c)
       /\ voters \subseteq c.members

\* has_quorum: both thresholds in a joint epoch; in a stable epoch n - f
\* voters, all of them members.
HasQuorum(c, voters) ==
  IF IsJoint(c)
  THEN LET j == JointPart(c)
       IN  /\ Cardinality(j.oldMembers \intersect voters)
                >= Threshold(j.oldMembers, j.oldMaxFaults)
           /\ Cardinality(j.newMembers \intersect voters)
                >= Threshold(j.newMembers, c.maxFaults)
  ELSE /\ Cardinality(voters) >= QuorumSize(c)
       /\ voters \subseteq c.members

\* is_well_formed: what a configuration received from a peer must satisfy.
IsWellFormed(c) ==
  /\ c.members # {}
  /\ IF IsJoint(c)
     THEN LET j == JointPart(c)
          IN  /\ j.oldMembers # {} /\ j.newMembers # {}
              /\ ToleratesFaults(j.oldMembers, j.oldMaxFaults)
              /\ ToleratesFaults(j.newMembers, c.maxFaults)
              /\ c.members = j.oldMembers \union j.newMembers
     ELSE ToleratesFaults(c.members, c.maxFaults)

\* Fault: a joint epoch may restate the old fault budget.
IsSuccessorOfAnyBudget(next, previous) ==
  /\ IsWellFormed(next)
  /\ IsWellFormed(previous)
  /\ next.epoch = previous.epoch + 1
  /\ IF IsJoint(next)
     THEN ~IsJoint(previous) /\ JointPart(next).oldMembers = previous.members
     ELSE /\ IsJoint(previous)
          /\ next.members = JointPart(previous).newMembers
          /\ next.maxFaults = previous.maxFaults

\* is_successor_of: the two legal transitions, stable to joint and joint to
\* stable.
IsSuccessorOf(next, previous) ==
  /\ IsWellFormed(next)
  /\ IsWellFormed(previous)
  /\ next.epoch = previous.epoch + 1
  /\ IF IsJoint(next)
     THEN /\ ~IsJoint(previous)
          /\ JointPart(next).oldMembers = previous.members
          /\ JointPart(next).oldMaxFaults = previous.maxFaults
     ELSE /\ IsJoint(previous)
          /\ next.members = JointPart(previous).newMembers
          /\ next.maxFaults = previous.maxFaults

\* collect_quorum of the proposers stops at the reply that completes a quorum,
\* so the recorders that answered are a quorum that some member completes.
StopsAt(c, Q) ==
  /\ HasQuorum(c, Q)
  /\ \E last \in Q : ~HasQuorum(c, Q \ {last})

ReplySets(c) == {Q \in SUBSET c.members : StopsAt(c, Q)}

\* validate_recorders of the threaded proposer: besides the exact quorum size
\* of the configuration it demands at least a majority of the endpoints.
ProposerAcceptsQuorum(c) ==
  /\ QuorumSize(c) >= (Cardinality(c.members) \div 2) + 1
  /\ QuorumSize(c) <= Cardinality(c.members)
==============================================================================
