----------------------------- MODULE Membership -----------------------------
(***************************************************************************)
(* The sequence of membership epochs of one deployment: stable, joint,     *)
(* stable, and so on (src/src/types.rs, ClusterIdentity).  A step is the   *)
(* construction of the next configuration by the control plane followed    *)
(* by the test every node applies before it installs one,                  *)
(* is_successor_of.                                                        *)
(***************************************************************************)
EXTENDS ClusterIdentity

CONSTANTS
  Replica,    \* every replica that is ever a member
  MaxFaults,  \* bound on the fault budgets the control plane asks for
  MaxEpoch    \* the largest epoch number, u64::MAX in the code

ASSUME ReplicaAssumption == IsFiniteSet(Replica)
ASSUME MaxFaultsAssumption == MaxFaults \in Nat
ASSUME MaxEpochAssumption == MaxEpoch \in Nat

VARIABLE cluster

MemberSet == (SUBSET Replica) \ {{}}

StableClusters(epochs) ==
  {StableCluster(e, M, f) : e \in epochs, M \in MemberSet, f \in 0 .. MaxFaults}

JointMemberships ==
  [oldMembers : MemberSet, oldMaxFaults : 0 .. MaxFaults, newMembers : MemberSet]

\* ClusterIdentity::new accepts a first configuration at epoch 0.
ClusterInit == cluster \in {c \in StableClusters({0}) : ToleratesFaults(c.members, c.maxFaults)}

\* A node installs a configuration only when it succeeds its own.
InstallSuccessor(next) ==
  /\ IsSuccessorOf(next, cluster)
  /\ cluster' = next

StableToJoint(newMembers, newFaults) ==
  /\ CanBeginJoint(cluster, newMembers, newFaults, MaxEpoch)
  /\ InstallSuccessor(BeginJoint(cluster, newMembers, newFaults))

JointToStable ==
  /\ CanFinalizeJoint(cluster, MaxEpoch)
  /\ InstallSuccessor(FinalizeJoint(cluster))

ClusterNext ==
  \/ \E M \in MemberSet, f \in 0 .. MaxFaults : StableToJoint(M, f)
  \/ JointToStable

ClusterSpec == ClusterInit /\ [][ClusterNext]_cluster

------------------------------------------------------------------------------
(* Properties *)

\* The configuration in force is always a well-formed one over the known
\* replicas: what is_well_formed tests holds of everything the constructors
\* of ClusterIdentity build.
ClusterTypeOK ==
  /\ cluster.epoch \in 0 .. MaxEpoch
  /\ cluster.members \in MemberSet
  /\ cluster.maxFaults \in 0 .. MaxFaults
  /\ cluster.joint \in {{}} \union {{j} : j \in JointMemberships}
  /\ IsWellFormed(cluster)

\* Two quorums of one configuration share a recorder.  Per-slot agreement
\* rests on this alone (has_quorum).
QuorumsIntersect ==
  \A Q1, Q2 \in SUBSET cluster.members :
     HasQuorum(cluster, Q1) /\ HasQuorum(cluster, Q2) => Q1 \intersect Q2 # {}

\* No reconfiguration step ever switches between disjoint quorums: a quorum of
\* the configuration left and one of the configuration entered share a
\* recorder (the "safety boundary" of the doc comment of ClusterIdentity).
SuccessiveQuorumsIntersect ==
  [][\A Q1 \in SUBSET cluster.members, Q2 \in SUBSET cluster'.members :
        HasQuorum(cluster, Q1) /\ HasQuorum(cluster', Q2)
           => Q1 \intersect Q2 # {}]_cluster

\* Every epoch stays live when the members the fault budgets allow to crash
\* are down: the remaining members still hold a quorum, also in a joint epoch,
\* where each voter set loses at most its own budget (has_quorum).
QuorumSurvivesFaults ==
  \A crashed \in SUBSET cluster.members :
     (IF IsJoint(cluster)
      THEN LET j == JointPart(cluster)
           IN  /\ Cardinality(crashed \intersect j.oldMembers) <= j.oldMaxFaults
               /\ Cardinality(crashed \intersect j.newMembers) <= cluster.maxFaults
      ELSE Cardinality(crashed) <= cluster.maxFaults)
     => HasQuorum(cluster, cluster.members \ crashed)

\* quorum_size is exact: no quorum is smaller, and some quorum has that size.
\* collect_quorum gives up when fewer replies than quorum_size can still come.
QuorumSizeIsExact ==
  LET sizes == {Cardinality(Q) : Q \in {S \in SUBSET cluster.members : HasQuorum(cluster, S)}}
  IN  /\ QuorumSize(cluster) \in sizes
      /\ \A n \in sizes : QuorumSize(cluster) <= n

\* is_successor_of accepts exactly what begin_joint and finalize_joint build,
\* among all configurations a peer might send.
SuccessorsAreTheBuiltOnes ==
  LET candidates ==
        StableClusters({cluster.epoch, cluster.epoch + 1}) \union
        {[epoch |-> e, members |-> M, maxFaults |-> f, joint |-> {j}] :
           e \in {cluster.epoch, cluster.epoch + 1}, M \in {cluster.members, Replica},
           f \in 0 .. MaxFaults, j \in JointMemberships}
      built ==
        {BeginJoint(cluster, a[1], a[2]) :
           a \in {b \in MemberSet \X (0 .. MaxFaults) :
                    CanBeginJoint(cluster, b[1], b[2], cluster.epoch + 1)}}
        \union {FinalizeJoint(c) :
                  c \in {d \in {cluster} : CanFinalizeJoint(d, cluster.epoch + 1)}}
  IN  \A c \in candidates \union built : IsSuccessorOf(c, cluster) <=> c \in built

\* Every configuration the control plane may install can commit commands: the
\* proposers of that epoch accept its quorum size, so the finalize command of
\* a joint epoch can be proposed under it (validate_recorders).
ProposersAcceptEveryEpoch == ProposerAcceptsQuorum(cluster)
==============================================================================
