----------------------------- MODULE EpochTuner -----------------------------
(***************************************************************************)
(* Leader schedules derived from the committed log: EpochTuner of          *)
(* src/src/runtime/schedule.rs at every replica, as ReplicaRuntime uses    *)
(* it, with one membership barrier, crashes and restarts.                  *)
(*                                                                         *)
(* The decisions are agreed.  The step a slot was decided at is not: a     *)
(* replica whose own propose call decides notes the step of that call, one *)
(* that hears of the decision the step of the replica it hears from.       *)
(* Replicas learn decisions and commit them at their own pace.             *)
(***************************************************************************)
EXTENDS Integers, FiniteSets, Sequences, SequencesExt

CONSTANTS
  Replica,       \* the replicas that run a tuner
  OldMembers,    \* the voters up to the barrier, in order
  NewMembers,    \* the voters after it
  Barrier,       \* the slot that anchors the membership change
  EpochSize,     \* slots per epoch
  PipelineLen,   \* slots a replica has in flight
  RetainedStatEpochs,   \* RETAINED_STAT_EPOCHS
  ReexploreEpochs,      \* AUTO_REEXPLORE_EPOCHS
  Steps,         \* the steps at which a slot may be decided, per slot
  Start,         \* the slot through which all replicas have committed at first
  MaxSlot        \* the last slot of the log

\* with_auto_schedules refuses shorter epochs.
ASSUME EpochAssumption == EpochSize \in Nat /\ PipelineLen \in 1 .. EpochSize
ASSUME SlotAssumption ==
  /\ MaxSlot \in Nat /\ Barrier \in Nat /\ Start \in 0 .. MaxSlot /\ Start < Barrier
  /\ RetainedStatEpochs \in Nat /\ ReexploreEpochs \in Nat \ {0}
  /\ Steps \in [1 .. MaxSlot -> SUBSET Nat]

VARIABLES
  decided, \* the steps at which replicas decided each slot
  armed,   \* the slots each replica has proposed and not committed
  heard,   \* the decided_step of the decisions each replica knows and cannot
           \* commit yet, 0 for the other slots
  tuner,   \* the tuner of each replica
  disk,    \* the tuner in its runtime snapshot
  derived  \* history: every schedule a replica ever derived

vars == <<decided, armed, heard, tuner, disk, derived>>

EpochOf(slot) == slot \div EpochSize
Slot == 1 .. MaxSlot
Epochs == 0 .. EpochOf(MaxSlot)

\* EpochTuner::new, and what reconfigure leaves.  A schedule is a sequence of
\* replicas, << >> where there is none; a statistic with no slots is absent.
NewTuner(members, through) ==
  [members |-> members, schedules |-> [e \in Epochs |-> << >>],
   stats |-> [e \in Epochs |-> [leader |-> 0, slots |-> 0, total |-> 0]],
   through |-> through]

------------------------------------------------------------------------------
(* Deriving a schedule *)

\* policy::rotated.
Rotated(seq, offset) == SubSeq(seq, offset + 1, Len(seq)) \o SubSeq(seq, 1, offset)

\* What the retained statistics say of a leader, up to epoch end.
Slots(t, leader, end) ==
  MapThenSumSet(LAMBDA e : t.stats[e].slots, {e \in 0 .. end : t.stats[e].leader = leader})
Total(t, leader, end) ==
  MapThenSumSet(LAMBDA e : t.stats[e].total, {e \in 0 .. end : t.stats[e].leader = leader})

\* compare_leader_fitness, then the ids: a comes before b.
Fitter(t, end, a, b) ==
  LET slotsA == Slots(t, a, end)
      slotsB == Slots(t, b, end)
      scoreA == Total(t, a, end) * slotsB
      scoreB == Total(t, b, end) * slotsA
  IN  IF slotsA > 0 /\ slotsB > 0
      THEN scoreA < scoreB \/ (scoreA = scoreB /\ a < b)
      ELSE slotsA > 0 \/ (slotsB = 0 /\ a < b)

\* Epochs that rotate the leader before any is ranked.
WarmupEpochs(t) == 2 * Len(t.members) + 1

\* From time to time the next member in turn leads whatever its rank.
Reexplore(t, ranked, e) ==
  LET exploited == e - WarmupEpochs(t)
      candidate == t.members[((exploited \div ReexploreEpochs) % Len(t.members)) + 1]
  IN  IF exploited > 0 /\ exploited % ReexploreEpochs = 0
      THEN <<candidate>> \o SelectSeq(ranked, LAMBDA r : r # candidate)
      ELSE ranked

\* Fault: the epoch before must be committed.
DeriveFromComplete(t, e) ==
  LET ranked == SetToSortSeq(Range(t.members), LAMBDA a, b : Fitter(t, e - 1, a, b))
  IN  IF e < WarmupEpochs(t) THEN {Rotated(t.members, e % Len(t.members))}
      ELSE IF t.through < e * EpochSize - 1 THEN {}
      ELSE {Reexplore(t, ranked, e)}

\* derive: the schedule of epoch e, or none when history is missing.
Derive(t, e) ==
  LET end == e - 2
      ranked == SetToSortSeq(Range(t.members), LAMBDA a, b : Fitter(t, end, a, b))
  IN  IF e < WarmupEpochs(t) THEN {Rotated(t.members, e % Len(t.members))}
      ELSE IF t.through < (end + 1) * EpochSize - 1 THEN {}
      ELSE {Reexplore(t, ranked, e)}

\* ensure_schedule: the cached schedule or a new one.
Schedule(t, e) == IF t.schedules[e] # << >> THEN {t.schedules[e]} ELSE Derive(t, e)

\* note_committed for the next slot.
NoteCommitted(t, step) ==
  LET slot == t.through + 1
      e == EpochOf(slot)
      kept(field, none) == [k \in Epochs |-> IF k >= e - RetainedStatEpochs THEN field[k] ELSE none]
  IN  {[t EXCEPT
          !.schedules = kept([@ EXCEPT ![e] = schedule], << >>),
          !.stats = kept([@ EXCEPT ![e].leader = IF @ = 0 THEN schedule[1] ELSE @,
                                   ![e].slots = @ + 1, ![e].total = @ + step],
                         [leader |-> 0, slots |-> 0, total |-> 0]),
          !.through = slot] : schedule \in Schedule(t, e)}

\* note_committed for the slots after t.through, decided at these steps.
NoteAll(t, steps) ==
  FoldLeft(LAMBDA ts, step : UNION {NoteCommitted(t1, step) : t1 \in ts}, {t}, steps)

------------------------------------------------------------------------------

\* Every replica has committed the slots up to Start, as it saw them decided.
Seen == {f \in [1 .. Start -> UNION Range(Steps)] : \A s \in 1 .. Start : f[s] \in Steps[s]}

Init ==
  \E prefix \in [Replica -> Seen] :
     /\ decided = [s \in Slot |-> IF s <= Start THEN {prefix[r][s] : r \in Replica} ELSE {}]
     /\ armed = [r \in Replica |-> {}]
     /\ heard = [r \in Replica |-> [s \in Slot |-> 0]]
     /\ tuner = [r \in Replica |-> CHOOSE t \in NoteAll(NewTuner(OldMembers, 0), prefix[r]) : TRUE]
     /\ disk = tuner
     /\ derived = {}

\* The schedules a replica holds are remembered.
Remember(t) ==
  derived' = derived \union
    {[members |-> t.members, epoch |-> e, schedule |-> t.schedules[e]] :
       e \in {k \in Epochs : t.schedules[k] # << >>}}

\* A slot is driven and committed under the voters of its side of the barrier:
\* recorders refuse requests of another epoch, and decisions of later slots are
\* delivered to a replica that has installed the membership change.
InForce(r, slot) ==
  tuner[r].members = IF slot > Barrier THEN NewMembers ELSE OldMembers

\* next_open_slot: the first slot after the committed prefix that is not in the
\* pipeline and whose decision has not been heard.
NextOpenSlot(r) ==
  Min({slot \in tuner[r].through + 1 .. MaxSlot + 1 :
         slot \in Slot => slot \notin armed[r] /\ heard[r][slot] = 0})

\* assign_deadlines: the schedules of the slots, as far as they can be derived.
Cached(t, slots) ==
  [t EXCEPT !.schedules =
     [e \in Epochs |->
        IF e \in {EpochOf(s) : s \in slots} /\ Derive(t, e) # {} /\ @[e] = << >>
        THEN CHOOSE schedule \in Derive(t, e) : TRUE ELSE @[e]]]

\* arm_available: the slot joins the pipeline and that is saved, then its
\* schedule is looked up.  A schedule that is derived is cached, and not saved
\* before something else is.
Arm(r) ==
  LET slot == NextOpenSlot(r)
      t == Cached(tuner[r], armed[r] \union {slot})
  IN  /\ slot \in Slot
      /\ InForce(r, slot)
      /\ Cardinality(armed[r]) < PipelineLen
      /\ armed' = [armed EXCEPT ![r] = @ \union {slot}]
      /\ disk' = [disk EXCEPT ![r] = tuner[r]]
      /\ tuner' = [tuner EXCEPT ![r] = t]
      /\ Remember(t)
      /\ UNCHANGED <<decided, heard>>

\* accept_decision for a decision with this decided_step: what is contiguous is
\* committed and fed to the statistics, and both are saved.  Without a schedule
\* for a committed slot it fails.
Accept(r, t, slot, step) ==
  LET known == [heard[r] EXCEPT ![slot] = step]
      through == tuner[r].through
      last == Max({s \in through .. MaxSlot : \A k \in through + 1 .. s : known[k] > 0})
      ready == [k \in 1 .. last - through |-> known[through + k]]
  IN  /\ slot > through /\ heard[r][slot] = 0
      /\ InForce(r, slot)
      /\ \E t2 \in NoteAll(t, ready) :
            /\ tuner' = [tuner EXCEPT ![r] = t2]
            /\ disk' = [disk EXCEPT ![r] = t2]
            /\ Remember(t2)
      /\ heard' = [heard EXCEPT ![r] = [s \in Slot |-> IF s > last THEN known[s] ELSE 0]]
      /\ armed' = [armed EXCEPT ![r] = {s \in @ : s > last}]

\* poll: every slot of the pipeline needs a schedule, then one is proposed.
\* The propose call decides the slot at a step of its own, or finds the decision
\* with the step of another.
Propose(r, slot, step) ==
  LET t == Cached(tuner[r], armed[r])
  IN  /\ slot \in armed[r]
      /\ \A s \in armed[r] : t.schedules[EpochOf(s)] # << >>
      /\ decided' = [decided EXCEPT ![slot] = @ \union {step}]
      /\ Accept(r, t, slot, step)

\* receive_decision: a replica hears of decisions in any order, each with the
\* step of the replica that announces it.
ReceiveDecision(r, slot, step) ==
  /\ step \in decided[slot]
  /\ UNCHANGED decided
  /\ Accept(r, tuner[r], slot, step)

\* Fault: reconfigure keeps the statistics.
ReconfigureKeepsStats(r) ==
  /\ tuner[r].through = Barrier
  /\ tuner[r].members = OldMembers
  /\ armed[r] = {}
  /\ tuner' = [tuner EXCEPT ![r] = [NewTuner(NewMembers, Barrier) EXCEPT !.stats = tuner[r].stats]]
  /\ disk' = [disk EXCEPT ![r] = tuner'[r]]
  /\ UNCHANGED <<decided, armed, heard, derived>>

\* install_membership at the barrier: later slots are driven by the new voters.
Reconfigure(r) ==
  /\ tuner[r].through = Barrier
  /\ tuner[r].members = OldMembers
  /\ armed[r] = {}
  /\ tuner' = [tuner EXCEPT ![r] = NewTuner(NewMembers, Barrier)]
  /\ disk' = [disk EXCEPT ![r] = tuner'[r]]
  /\ UNCHANGED <<decided, armed, heard, derived>>

\* The process restarts from its snapshot.
Restart(r) ==
  /\ tuner' = [tuner EXCEPT ![r] = disk[r]]
  /\ UNCHANGED <<decided, armed, heard, disk, derived>>

Next ==
  \E r \in Replica :
     \/ Arm(r)
     \/ \E slot \in Slot : \E step \in Steps[slot] : Propose(r, slot, step)
     \/ \E slot \in Slot : \E step \in Steps[slot] : ReceiveDecision(r, slot, step)
     \/ Reconfigure(r)
     \/ Restart(r)

Spec == Init /\ [][Next]_vars

------------------------------------------------------------------------------
(* Properties *)

\* A schedule orders all members, each once.
TypeOK ==
  /\ \A s \in Slot : decided[s] \subseteq Steps[s]
  /\ \A r \in Replica :
        /\ tuner[r].members \in {OldMembers, NewMembers}
        /\ Cardinality(armed[r]) <= PipelineLen
        /\ tuner[r].through \in {0} \union Slot
        /\ \A e \in Epochs :
              tuner[r].schedules[e] \in {<< >>} \union SetToSeqs(Range(tuner[r].members))

\* "Every replica derives the same schedule from the same committed prefix":
\* whenever a replica derives the schedule of an epoch, before or after others,
\* before or after a restart, the result is the same.
SchedulesAgree ==
  \A a, b \in derived : a.members = b.members /\ a.epoch = b.epoch => a = b

\* A replica without gaps in what it has heard never waits for history to arm a
\* slot: the pipeline is not longer than an epoch.
ScheduleAvailable ==
  \A r \in Replica : \A slot \in Slot :
     /\ slot \in tuner[r].through + 1 .. tuner[r].through + PipelineLen
     /\ InForce(r, slot)
     => Schedule(tuner[r], EpochOf(slot)) # {}

\* A replica can restart from its snapshot: restore finds the statistics
\* consistent with the members and the committed log.
SnapshotRestores ==
  \A r \in Replica : \A e \in Epochs :
     LET stat == disk[r].stats[e]
     IN  stat.slots > 0 => stat.leader \in Range(disk[r].members) /\ e <= EpochOf(disk[r].through)
==============================================================================
