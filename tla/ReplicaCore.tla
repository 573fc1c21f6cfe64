----------------------------- MODULE ReplicaCore -----------------------------
(***************************************************************************)
(* The log and the submission queue of one replica, ReplicaCore of         *)
(* src/src/replica.rs, as operators on its state.                          *)
(*                                                                         *)
(* An operation that may fail returns the set of states it may leave: one  *)
(* state for Ok, none for Err.  A batch is a sequence of value IDs; an     *)
(* absent decision and an empty proposal are << >>.                        *)
(***************************************************************************)
EXTENDS Integers, FiniteSets, Sequences, FiniteSetsExt, Functions, Filter

CONSTANTS
  MaxSlot,           \* bound on the length of the log
  BatchSize,         \* ReplicaConfig::batch_size
  PipelineLen,       \* ReplicaConfig::pipeline_len
  MaxPendingValues,  \* ReplicaConfig::max_pending_values
  MaxLogSlots,       \* ReplicaConfig::max_log_slots
  MaxTrackedValues   \* ReplicaConfig::max_tracked_value_ids

ASSUME ReplicaConfigAssumption ==
  /\ MaxSlot \in Nat
  /\ {BatchSize, PipelineLen, MaxPendingValues, MaxLogSlots, MaxTrackedValues} \subseteq Nat

Slot == 1 .. MaxSlot

\* A slot the log does not hold; LogSlot::default is never stored as such.
NoEntry == [proposed |-> << >>, decision |-> << >>, committed |-> FALSE]

\* ReplicaCore::new.  The genesis slot is left out: it is always committed.
NewReplica ==
  [log |-> [s \in Slot |-> NoEntry], pending |-> << >>, next |-> 1, floor |-> 0, seen |-> {}]

Retained(c) == {s \in Slot : c.log[s] # NoEntry}
Decided(c) == {s \in Slot : c.log[s].decision # << >>}
CommittedThrough(c) == c.next - 1

\* The slots with a proposal and no decision: the pending map of the runtimes.
Undecided(c) == {s \in Slot : c.log[s].proposed # << >> /\ c.log[s].decision = << >>}

EnsureLogCapacity(c, slot) ==
  slot \in Retained(c) \/ Cardinality(Retained(c)) < MaxLogSlots

\* Fault: a value that was seen before is queued again.
EnqueueAgain(c, values) ==
  IF Len(c.pending) + Len(values) <= MaxPendingValues
  THEN {[c EXCEPT !.pending = @ \o values, !.seen = @ \union Range(values)]}
  ELSE {}

\* enqueue, for values that are distinct.  Those seen before are dropped.
Enqueue(c, values) ==
  LET new == Unseen(values, c.seen)
  IN  IF /\ Len(c.pending) + Len(new) <= MaxPendingValues
         /\ Cardinality(c.seen) + Len(new) <= MaxTrackedValues
      THEN {[c EXCEPT !.pending = @ \o new, !.seen = @ \union Range(new)]}
      ELSE {}

InflightCount(c) ==
  Cardinality({s \in Slot : s >= c.next /\ ~c.log[s].committed /\ c.log[s].proposed # << >>})

\* next_open_slot: the lowest slot from the commit frontier on that is neither
\* decided nor claimed.
NextOpenSlot(c) ==
  Min({s \in c.next .. MaxSlot + 1 : s \in Slot => s \notin Decided(c) \union Undecided(c)})

\* note_proposed.
NoteProposed(c, slot, values) ==
  IF /\ Cardinality(Range(values)) = Len(values)
     /\ Cardinality(c.seen \union Range(values)) <= MaxTrackedValues
     /\ EnsureLogCapacity(c, slot)
  THEN {[c EXCEPT !.seen = @ \union Range(values), !.log[slot].proposed = values]}
  ELSE {}

CanPropose(c) == InflightCount(c) < PipelineLen /\ c.pending # << >>

\* next_proposal: the next batch leaves the queue first, whether or not it can
\* then be noted for its slot.
TakeBatch(c) == Max({1, Min({BatchSize, Len(c.pending)})})
Drained(c) == [c EXCEPT !.pending = SubSeq(@, TakeBatch(c) + 1, Len(@))]
NextProposal(c) ==
  NoteProposed(Drained(c), NextOpenSlot(c), SubSeq(c.pending, 1, TakeBatch(c)))

\* Fault: slots without a decision are committed over.
CommitReadySkipping(c) ==
  LET end == Max(Decided(c) \union {c.next - 1})
  IN  [c EXCEPT
         !.log = [s \in Slot |->
                    IF s \in c.next .. end
                    THEN [@[s] EXCEPT !.committed = TRUE, !.proposed = << >>]
                    ELSE @[s]],
         !.next = end + 1]

\* commit_ready: the decided slots that continue the committed prefix.
CommitReady(c) ==
  LET end == Max({s \in c.next - 1 .. MaxSlot : c.next .. s \subseteq Decided(c)})
  IN  [c EXCEPT
         !.log = [s \in Slot |->
                    IF s \in c.next .. end
                    THEN [@[s] EXCEPT !.committed = TRUE, !.proposed = << >>]
                    ELSE @[s]],
         !.next = end + 1]

\* Fault: what loses its slot is dropped.
RequeueNothing(c, slot, values) == << >>

\* What a decided slot gives back to the queue.
Requeue(c, slot, values) == Unseen(c.log[slot].proposed, Range(values))

\* apply_decision.  A decision that is known already changes nothing; one that
\* contradicts what is known is refused.
ApplyDecision(c, slot, values) ==
  IF c.log[slot].decision # << >>
  THEN {d \in {c} : c.log[slot].decision = values}
  ELSE IF /\ Cardinality(c.seen \union Range(values)) <= MaxTrackedValues
          /\ EnsureLogCapacity(c, slot)
          /\ \/ Requeue(c, slot, values) = << >>
             \/ Len(c.pending) + Len(Requeue(c, slot, values)) <= MaxPendingValues
       THEN {CommitReady([c EXCEPT !.pending = Requeue(c, slot, values) \o @,
                                   !.log[slot].decision = values,
                                   !.seen = @ \union Range(values)])}
       ELSE {}

\* prune_through, for a slot of the committed prefix.
PruneThrough(c, slot) ==
  LET through == Max({slot, c.floor})
  IN  [c EXCEPT
         !.log = [s \in Slot |-> IF s <= through /\ @[s].committed THEN NoEntry ELSE @[s]],
         !.floor = through]

\* restore accepts the state.
Restorable(c) ==
  /\ Len(c.pending) <= MaxPendingValues
  /\ Cardinality(Retained(c)) <= MaxLogSlots
  /\ Cardinality(c.seen) <= MaxTrackedValues
  /\ Range(c.pending) \subseteq c.seen
  /\ \A s \in Slot : Range(c.log[s].proposed) \union Range(c.log[s].decision) \subseteq c.seen
  /\ c.next > c.floor
  /\ \A s \in c.floor + 1 .. c.next - 1 : c.log[s].committed /\ s \in Decided(c)
  /\ \A s \in Slot : s >= c.next => ~c.log[s].committed
==============================================================================
