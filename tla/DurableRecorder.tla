--------------------------- MODULE DurableRecorder ---------------------------
(***************************************************************************)
(* One recorder of a replicated log and its snapshot file                  *)
(* (src/src/recorder.rs): DurableRecorderCore around RecorderCore, over    *)
(* the file store, with saves that fail, crashes and restarts.             *)
(*                                                                         *)
(* An operation of RecorderCore is an operator that returns the set of     *)
(* states it may leave: one state for Ok, none for Err.  An operation that *)
(* fails is rolled back and leaves no trace, so it is no step.             *)
(***************************************************************************)
EXTENDS ISR, ClusterIdentity, Sequences, Functions

CONSTANTS
  Epochs,          \* the successive configurations of the cluster
  CommandOf,       \* the value ID of the command that names each of them
  MaxSlot,         \* the last log slot
  MaxStep,         \* RecorderLimits::max_step
  MaxActiveSlots,  \* RecorderLimits::max_active_slots
  MaxDecisions,    \* RecorderLimits::max_decisions
  Requests,        \* record requests, [slot, from, leader, step, prop, known]
  Decided,         \* the decisions replicas hold, [slot, value, proposer, step]
  Announcements,   \* the sequences of them that one inform_decisions call carries
  MaxAcked         \* bound on the number of record requests acknowledged

ASSUME EpochsAssumption ==
  /\ Epochs # << >> /\ Epochs \in Seq(Range(Epochs))
  /\ \A c \in Range(Epochs) : c.epoch \in Nat
  /\ \A i \in 1 .. Len(Epochs) - 1 : IsSuccessorOf(Epochs[i + 1], Epochs[i])
\* Slot consensus decides one value for a slot.
ASSUME DecidedAssumption ==
  \A d, e \in Decided : d.slot = e.slot => d.value = e.value
\* Slots, steps and the parts of a key are numbers.
ASSUME RequestsAssumption ==
  /\ \A q \in Requests : /\ q.slot \in 1 .. MaxSlot /\ q.step \in Nat
                        /\ q.prop.priority \in Nat /\ q.prop.proposer \in Nat
                        /\ q.known \in Seq(Decided)
  /\ \A d \in Decided : d.slot \in 1 .. MaxSlot /\ d.step \in Nat
  /\ Announcements \subseteq Seq(Decided)
ASSUME LimitsAssumption ==
  /\ MaxSlot \in Nat /\ MaxStep \in Nat /\ MaxAcked \in Nat
  /\ MaxActiveSlots \in Nat \ {0} /\ MaxDecisions \in Nat \ {0}

VARIABLES
  up,    \* the process runs
  core,  \* the RecorderCore in memory
  disk,  \* the snapshot in the file, if any
  acked  \* history: what was acknowledged to callers

vars == <<up, core, disk, acked>>

Slot == 1 .. MaxSlot

\* RecorderCore::new.
NewCore(cluster) ==
  [cluster   |-> cluster,
   slots     |-> [s \in Slot |-> {}],
   leaders   |-> [s \in Slot |-> {}],
   decisions |-> [s \in Slot |-> {}],
   floor     |-> 0]

Init ==
  /\ up = TRUE
  /\ core = NewCore(Epochs[1])
  /\ disk = {}
  /\ acked = [calls |-> {}, decisions |-> {}, floor |-> 0, epoch |-> Epochs[1].epoch]

------------------------------------------------------------------------------
(* RecorderCore *)

Known(c, replica) == replica \in c.cluster.members
Occupied(field) == {s \in Slot : field[s] # {}}

\* validate_decision.
ValidDecision(c, d) == Known(c, d.proposer) /\ d.step <= MaxStep

\* inform_decision: a decision at or below the floor is ignored, one for a slot
\* with a decision must agree with it.
InformDecision(c, d) ==
  IF d.slot <= c.floor \/ c.decisions[d.slot] # {}
  THEN {c2 \in {c} : /\ ValidDecision(c, d)
                     /\ d.slot > c.floor => \A e \in c.decisions[d.slot] : e.value = d.value}
  ELSE {c2 \in {[c EXCEPT !.decisions[d.slot] = {d}]} :
          /\ ValidDecision(c, d)
          /\ Cardinality(Occupied(c.decisions)) # MaxDecisions}

\* inform_decisions: one after the other, failing as a whole.
InformDecisions(c, ds) ==
  LET after[i \in 0 .. Len(ds)] ==
        IF i = 0 THEN {c} ELSE UNION {InformDecision(c2, ds[i]) : c2 \in after[i - 1]}
  IN  after[Len(ds)]

\* Fault: the bound leader is not compared.
AcceptsAnyLeader(c, q) ==
  /\ Known(c, q.from)
  /\ \A leader \in q.leader : Known(c, leader)
  /\ Known(c, q.prop.proposer)
  /\ q.step \in RoundOnePhaseZero .. MaxStep
  /\ q.slot > c.floor

\* validate_request, the pruning floor and the bound leader.
Accepts(c, q) ==
  /\ Known(c, q.from)
  /\ \A leader \in q.leader : Known(c, leader)
  /\ Known(c, q.prop.proposer)
  /\ q.step \in RoundOnePhaseZero .. MaxStep
  /\ q.slot > c.floor
  /\ c.leaders[q.slot] \in {{}, {q.leader}}

\* The register a record call starts from: entry(slot).or_default().
RegisterOf(c, slot) ==
  IF c.slots[slot] = {} THEN EmptyRegister ELSE CHOOSE reg \in c.slots[slot] : TRUE

\* Fault: the limit is off by one.
HasRoomForOneMore(c, slot) ==
  c.slots[slot] # {} \/ Cardinality(Occupied(c.slots)) <= MaxActiveSlots

HasRoom(c, slot) ==
  c.slots[slot] # {} \/ Cardinality(Occupied(c.slots)) # MaxActiveSlots

Record(c, q) ==
  {[c2 EXCEPT !.leaders[q.slot] = {q.leader},
              !.slots[q.slot] = {RecordISR(RegisterOf(c2, q.slot), q.step, q.prop)}] :
     c2 \in {c3 \in InformDecisions(c, q.known) : Accepts(c, q) /\ HasRoom(c3, q.slot)}}

\* Fault: the leader bindings are not pruned.
PruneThroughKeepsLeaders(c, slot) ==
  LET retain(field) == [s \in Slot |-> IF s > slot THEN field[s] ELSE {}]
  IN  [c EXCEPT !.slots = retain(@), !.decisions = retain(@),
                !.floor = IF slot > @ THEN slot ELSE @]

\* Fault: a late prune_through for an earlier slot lowers the floor.
PruneThroughLowersFloor(c, slot) ==
  LET retain(field) == [s \in Slot |-> IF s > slot THEN field[s] ELSE {}]
  IN  [c EXCEPT !.slots = retain(@), !.leaders = retain(@), !.decisions = retain(@),
                !.floor = slot]

\* prune_through, also install_state_transfer_floor.
PruneThrough(c, slot) ==
  LET retain(field) == [s \in Slot |-> IF s > slot THEN field[s] ELSE {}]
  IN  [c EXCEPT !.slots = retain(@), !.leaders = retain(@), !.decisions = retain(@),
                !.floor = IF slot > @ THEN slot ELSE @]

\* Fault: later slots need not be drained.
InstallMembershipUndrained(c, anchor, next) ==
  {c2 \in {[c EXCEPT !.cluster = next]} :
     /\ anchor.value = CommandOf[next]
     /\ c.cluster # next =>
          IsSuccessorOf(next, c.cluster) /\ c.decisions[anchor.slot] = {anchor}}

\* install_membership: the anchor must carry the command that names next, and
\* unless next is in force already be the decision retained for its slot, with
\* nothing held for a later slot.
InstallMembership(c, anchor, next) ==
  {c2 \in {[c EXCEPT !.cluster = next]} :
     /\ anchor.value = CommandOf[next]
     /\ c.cluster # next =>
          /\ IsSuccessorOf(next, c.cluster)
          /\ c.decisions[anchor.slot] = {anchor}
          /\ \A s \in Occupied(c.slots) \union Occupied(c.decisions) : s <= anchor.slot}

\* validate_isr_snapshot, with validate_proposal.
ValidRegister(c, reg) ==
  /\ reg.step \in RoundOnePhaseZero .. MaxStep
  /\ reg.first # {} /\ reg.current # {}
  /\ \A x \in reg.first \union reg.current \union reg.prior : Known(c, x.proposer)

\* restore: the tests a snapshot must pass under the configuration the process
\* is started with.
Restorable(snapshot, cluster) ==
  /\ snapshot.cluster = cluster
  /\ Cardinality(Occupied(snapshot.slots)) <= MaxActiveSlots
  /\ Cardinality(Occupied(snapshot.decisions)) <= MaxDecisions
  /\ \A s \in Occupied(snapshot.decisions) \union Occupied(snapshot.slots) :
        s > snapshot.floor
  /\ Occupied(snapshot.leaders) = Occupied(snapshot.slots)
  /\ \A s \in Slot :
        /\ \A d \in snapshot.decisions[s] : d.slot = s /\ ValidDecision(snapshot, d)
        /\ \A leader \in UNION snapshot.leaders[s] : Known(snapshot, leader)
        /\ \A reg \in snapshot.slots[s] : ValidRegister(snapshot, reg)

------------------------------------------------------------------------------
(* DurableRecorderCore::mutate, with the outcomes of FileRecorderStore::save *)

\* Fault: the caller gets its reply before the snapshot is saved.
AcknowledgeUnsaved(after, newAcked) ==
  /\ core' = after
  /\ acked' = newAcked
  /\ UNCHANGED <<up, disk>>

\* The snapshot is saved and the caller gets its reply.
Acknowledge(after, newAcked) ==
  /\ core' = after
  /\ disk' = {after}
  /\ acked' = newAcked
  /\ UNCHANGED up

\* restore_snapshot_state: every field of the snapshot but the configuration.
RollBack(after, before) == [before EXCEPT !.cluster = after.cluster]

\* The save returns an error, before or after the file was replaced.
SaveFails(after) ==
  /\ core' = RollBack(after, core)
  /\ disk' \in {disk, {after}}
  /\ UNCHANGED <<up, acked>>

\* The process dies in the save, before or after the file was replaced.
CrashInSave(after) ==
  /\ up' = FALSE
  /\ core' = NewCore(Epochs[1])
  /\ disk' \in {disk, {after}}
  /\ UNCHANGED acked

Mutate(afters, newAcked) ==
  /\ up
  /\ \E after \in afters :
        \/ Acknowledge(after, newAcked)
        \/ SaveFails(after)
        \/ CrashInSave(after)

\* What a sequence of decisions tells: which value which slot has.
Outcomes(ds) == {[slot |-> d.slot, value |-> d.value] : d \in Range(ds)}

RecordRequest(q) ==
  LET call == [slot |-> q.slot, leader |-> q.leader, step |-> q.step, prop |-> q.prop,
               epoch |-> core.cluster.epoch]
  IN  /\ call \in acked.calls \/ Cardinality(acked.calls) < MaxAcked
      /\ Mutate(Record(core, q),
                [acked EXCEPT !.calls = @ \union {call}, !.decisions = @ \union Outcomes(q.known)])

Inform(ds) ==
  Mutate(InformDecisions(core, ds), [acked EXCEPT !.decisions = @ \union Outcomes(ds)])

Prune(slot) ==
  Mutate({PruneThrough(core, slot)}, [acked EXCEPT !.floor = IF slot > @ THEN slot ELSE @])

Install(anchor, next) ==
  Mutate(InstallMembership(core, anchor, next), [acked EXCEPT !.epoch = next.epoch])

------------------------------------------------------------------------------

Crash ==
  /\ up
  /\ up' = FALSE
  /\ core' = NewCore(Epochs[1])
  /\ UNCHANGED <<disk, acked>>

\* DurableRecorderCore::new: the operator starts the process again with the
\* configuration of one of the epochs; restore accepts one or none of them.
Restart ==
  /\ ~up
  /\ up' = TRUE
  /\ \/ disk = {} /\ core' = NewCore(Epochs[1])
     \/ \E snapshot \in disk :
           /\ \E cluster \in Range(Epochs) : Restorable(snapshot, cluster)
           /\ core' = snapshot
  /\ UNCHANGED <<disk, acked>>

Next ==
  \/ \E q \in Requests : RecordRequest(q)
  \/ \E ds \in Announcements : Inform(ds)
  \/ \E slot \in Slot : Prune(slot)
  \/ \E anchor \in Decided, next \in Range(Epochs) : Install(anchor, next)
  \/ Crash
  \/ Restart

Spec == Init /\ [][Next]_vars

------------------------------------------------------------------------------
(* Properties *)

Option(S) == {{}} \union {{x} : x \in S}
Proposals == {q.prop : q \in Requests}
Register ==
  [step : RoundOnePhaseZero .. MaxStep, first : Option(Proposals),
   current : Option(Proposals), prior : Option(Proposals)]

\* A core within the limits of RecorderLimits, whatever requests came.
CoreOK(c) ==
  /\ c.cluster \in Range(Epochs)
  /\ c.slots \in [Slot -> Option(Register)]
  /\ c.leaders \in [Slot -> Option({q.leader : q \in Requests})]
  /\ c.decisions \in [Slot -> Option(Decided)]
  /\ c.floor \in 0 .. MaxSlot
  /\ Cardinality(Occupied(c.slots)) <= MaxActiveSlots
  /\ Cardinality(Occupied(c.decisions)) <= MaxDecisions

TypeOK ==
  /\ up \in BOOLEAN
  /\ CoreOK(core)
  /\ disk = {} \/ \E snapshot \in disk : disk = {snapshot} /\ CoreOK(snapshot)

\* An acknowledged record call is reflected in what c holds for the slot.
Reflects(c, call) ==
  \/ call.slot <= c.floor
  \/ /\ c.leaders[call.slot] = {call.leader}
     /\ \E reg \in c.slots[call.slot] :
           RecordISR(reg, call.step, call.prop) = reg

\* What was acknowledged survives: the file (and, while the process runs, the
\* memory) reflects every reply ever sent, whatever saves failed and wherever
\* crashes fell.  Registers and leader bindings are kept until the slot is
\* pruned, decisions too, and neither the floor nor the epoch goes back.
Holds(c) ==
  /\ \A call \in acked.calls : Reflects(c, call) /\ call.epoch <= c.cluster.epoch
  /\ \A d \in acked.decisions :
        d.slot <= c.floor \/ \E e \in c.decisions[d.slot] : e.value = d.value
  /\ acked.floor <= c.floor
  /\ acked.epoch <= c.cluster.epoch

AcknowledgedIsDurable ==
  /\ acked # [calls |-> {}, decisions |-> {}, floor |-> 0, epoch |-> Epochs[1].epoch]
       => disk # {}
  /\ \A snapshot \in disk : Holds(snapshot)
  /\ up => Holds(core)

\* A recorder never answers for one slot under two round-one leaders, also
\* across restarts: what keeps divergent schedules safe.
OneLeaderPerSlot ==
  \A a, b \in acked.calls : a.slot = b.slot => a.leader = b.leader

\* A pruned slot is never answered again: no acknowledgement of a record call
\* for a slot at or below a floor that was acknowledged before.
PrunedSlotsAreSilent ==
  [][\A call \in acked'.calls \ acked.calls : call.slot > acked.floor]_acked

\* Membership epochs do not overlap: a slot is answered in two epochs only when
\* it is not after the slot that committed the later one.  A slot after it sees
\* the recorder's replies of one configuration only, so the quorums of the old
\* one cannot decide it behind the back of the new one.
EpochsDoNotOverlap ==
  \A a, b \in acked.calls : a.slot = b.slot =>
     \A c \in Range(Epochs) : a.epoch < c.epoch /\ c.epoch <= b.epoch =>
        \E d \in Decided : d.value = CommandOf[c] /\ a.slot <= d.slot

\* The members an old epoch had and the one in force does not have.
Removed(c) == (UNION {Epochs[i].members : i \in DOMAIN Epochs}) \ c.cluster.members

\* The replicas a snapshot names in its registers, bindings and decisions.
Named(c) ==
  UNION {(UNION c.leaders[s]) \union {d.proposer : d \in c.decisions[s]}
           \union (UNION {{x.proposer : x \in reg.first \union reg.current \union reg.prior} :
                           reg \in c.slots[s]}) : s \in Slot}

\* The recorder can always be restarted from its own file, in the epoch the
\* file names, as long as the file names no replica that was removed: limits,
\* floor, bindings and registers pass the tests of restore.
SnapshotsRestore ==
  \A snapshot \in disk :
     Named(snapshot) \intersect Removed(snapshot) = {} => Restorable(snapshot, snapshot.cluster)

\* The recorder can always be restarted from its own file ("persist-before-ack
\* operation, and restart recovery").
RestartSucceeds == \A snapshot \in disk : Restorable(snapshot, snapshot.cluster)
==============================================================================
