-------------------------- MODULE MCDurableRecorder --------------------------
EXTENDS DurableRecorder

\* Replica 1 is replaced by replica 4; the recorder is replica 2.
First == StableCluster(0, {1, 2, 3}, 1)
Joint == BeginJoint(First, {2, 3, 4}, 1)
MCEpochs == <<First, Joint, FinalizeJoint(Joint)>>
MCCommandOf == [c \in Range(MCEpochs) |-> c.epoch]

\* Slot 1 commits the joint epoch, slot 2 the stable one.  Slot 1 was decided by
\* two replicas, at different steps.
MCDecided ==
  {[slot |-> 1, value |-> 1, proposer |-> 1, step |-> 4],
   [slot |-> 1, value |-> 1, proposer |-> 1, step |-> 6],
   [slot |-> 2, value |-> 2, proposer |-> 3, step |-> 4]}

MCAnnouncements ==
  {<<d>> : d \in MCDecided} \union {<<d, e>> : d, e \in {x \in MCDecided : x.step = 4}}

Of1 == [priority |-> 1, proposer |-> 1, value |-> 1]
Of3 == [priority |-> 1, proposer |-> 3, value |-> 3]

\* Requests of the proposer of the proposal, under leader 3 or no leader; the
\* ones of slot 2 may have the decision of slot 1 attached.
MCRequests ==
  {[slot |-> s, from |-> k[1].proposer, leader |-> l, step |-> k[2], prop |-> k[1],
    known |-> << >>] :
     s \in 1 .. 2, l \in {{}, {3}}, k \in {<<Of1, 4>>, <<Of3, 4>>, <<Of3, 5>>}}
  \union
  {[slot |-> 2, from |-> 3, leader |-> {3}, step |-> 4, prop |-> Of3, known |-> <<d>>] :
     d \in {e \in MCDecided : e.slot = 1}}
==============================================================================
