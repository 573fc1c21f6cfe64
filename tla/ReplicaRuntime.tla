--------------------------- MODULE ReplicaRuntime ---------------------------
(***************************************************************************)
(* One replica of a cluster (src/src/runtime.rs): a ReplicaRuntime over a  *)
(* ReplicaCore, an application and a snapshot file, with calls and saves   *)
(* that fail, crashes and restarts.  The other members act through slot    *)
(* consensus, which is what Consensus promises and QuePaxa delivers.       *)
(*                                                                         *)
(* The runtime runs one handler at a time; pc says where the handler is    *)
(* between two calls that leave the process.  The decisions and pending    *)
(* maps of the runtime always hold what the log of its core holds (Decided *)
(* and Undecided of ReplicaCore) and are not modelled twice.  Schedules    *)
(* and their statistics are those of EpochTuner, membership changes those  *)
(* of Membership.                                                          *)
(***************************************************************************)
EXTENDS ReplicaCore

CONSTANTS
  Member,           \* the members of the cluster, each with its recorder
  Foreign,          \* the batches other members propose
  Value,            \* the value IDs clients submit to this replica
  Noop,             \* the configured no-op value, if any
  CarefulTransfer,  \* export_checkpoint refuses slots that are not executed
  MaxCrashes,       \* bound on crashes
  MaxErrors         \* bound on saves and calls of the application that fail

ASSUME RuntimeAssumption ==
  /\ MaxCrashes \in Nat /\ MaxErrors \in Nat /\ CarefulTransfer \in BOOLEAN
  /\ Cardinality(Noop) <= 1 /\ Noop \cap Value = {}
  /\ \A b \in Foreign : b \in Seq(Range(b)) /\ b # << >>

VARIABLES
  pc,        \* where the handler is, "idle" between handlers
  mem,       \* the runtime in memory
  disk,      \* the snapshot in the file
  app,       \* the slots the application has executed
  offered,   \* external: the batches this replica proposed for each slot
  chosen,    \* external: the batch each slot decided, << >> before
  informed,  \* external: the recorders that hold the decision of each slot
  accepted,  \* the values whose submission returned Ok
  faults     \* crashes and errors so far

consensus == <<offered, chosen>>
vars == <<pc, mem, disk, app, consensus, informed, accepted, faults>>

\* ReplicaRuntime::new without a snapshot.
NewRuntime ==
  [core |-> NewReplica, executed |-> {}, notified |-> {}, announced |-> [s \in Slot |-> {}]]

Init ==
  /\ pc = "idle"
  /\ mem = NewRuntime
  /\ disk = NewRuntime
  /\ app = {}
  /\ offered = [s \in Slot |-> {}]
  /\ chosen = [s \in Slot |-> << >>]
  /\ informed = [s \in Slot |-> {}]
  /\ accepted = {}
  /\ faults = [crashes |-> 0, errors |-> 0]

------------------------------------------------------------------------------
(* Saving *)

\* persist: the snapshot of m is saved and the handler goes on at label next.
\* Or the save fails, and the handler with it: what it changed stays in memory,
\* and the file may have been replaced all the same.  Or the process stops
\* before the save and restarts from its file.
Persist(m, next) ==
  \/ /\ mem' = m
     /\ disk' = m
     /\ pc' = next
     /\ UNCHANGED faults
  \/ /\ faults.errors < MaxErrors
     /\ faults' = [faults EXCEPT !.errors = @ + 1]
     /\ mem' = m
     /\ \E d \in {disk, m} : disk' = d
     /\ pc' = "idle"
  \/ /\ faults.crashes < MaxCrashes
     /\ faults' = [faults EXCEPT !.crashes = @ + 1]
     /\ mem' = disk
     /\ pc' = "dispatch"
     /\ UNCHANGED disk

\* The handler goes on at label next with m in memory.
Continue(m, next) ==
  /\ mem' = m
  /\ pc' = next
  /\ UNCHANGED <<disk, faults>>

\* persist when something changed.
PersistChange(m, next) ==
  IF m = mem THEN Continue(m, next) ELSE Persist(m, next)

\* The process stops between two steps and restarts: new restores the file and
\* recover is called.
Crash ==
  /\ faults.crashes < MaxCrashes
  /\ mem # disk \/ pc # "idle"
  /\ faults' = [faults EXCEPT !.crashes = @ + 1]
  /\ mem' = disk
  /\ pc' = "dispatch"
  /\ UNCHANGED <<disk, app, consensus, informed, accepted>>

------------------------------------------------------------------------------
(* Submission and proposals *)

\* submit: a client hands a value to the replica, perhaps again.
Submit(v) ==
  /\ pc = "idle"
  /\ \E core \in Enqueue(mem.core, <<v>>) :
        Persist([mem EXCEPT !.core = core], "idle")
  /\ accepted' = IF faults' = faults THEN accepted \union {v} ELSE accepted
  /\ UNCHANGED <<app, consensus, informed>>

\* flush_decision_notifications: each decision goes to the recorders that have
\* not acknowledged it, and any of them may answer.
Flush(next) ==
  \E heard \in [Decided(mem.core) -> SUBSET Member] :
     LET m == [mem EXCEPT !.announced =
                 [s \in Slot |-> IF s \in Decided(mem.core) THEN @[s] \union heard[s] ELSE @[s]]]
     IN  /\ informed' = [s \in Slot |-> informed[s] \union m.announced[s]]
         /\ PersistChange(m, next)
         /\ UNCHANGED <<app, consensus, accepted>>

\* poll begins.
Poll == pc = "idle" /\ Flush("arm")

\* next_proposal, when it has a value to propose and a slot for it: it returns
\* the proposal, or fails.
ArmOne(a) ==
  IF a.failed \/ ~CanPropose(a.core) \/ NextOpenSlot(a.core) > MaxSlot THEN a
  ELSE IF NextProposal(a.core) = {} THEN [core |-> Drained(a.core), failed |-> TRUE]
  ELSE [core |-> CHOOSE c \in NextProposal(a.core) : TRUE, failed |-> FALSE]

\* next_proposal until the pipeline is full or the queue empty, or it fails.
ArmAll(core) ==
  LET armed[n \in 0 .. PipelineLen] ==
        IF n = 0 THEN [core |-> core, failed |-> FALSE] ELSE ArmOne(armed[n - 1])
  IN  armed[PipelineLen]

\* Fault: gaps are left to their proposer.
ArmNoGap(core) == {core}

\* arm_gap_noop: a no-op for the slot that blocks the commit frontier.
ArmGapNoop(core) ==
  IF Undecided(core) = {} /\ \E s \in Decided(core) : s > core.next
  THEN (UNION {NoteProposed(core, core.next, <<noop>>) : noop \in Noop})
         \union {c \in {core} : Noop = {}}
  ELSE {core}

\* arm_available, within poll.
Arm ==
  LET armed == ArmAll(mem.core)
  IN  /\ pc = "arm"
      /\ \/ /\ ~armed.failed
            /\ \E core \in ArmGapNoop(armed.core) :
                  PersistChange([mem EXCEPT !.core = core], "propose")
         \/ /\ armed.failed \/ ArmGapNoop(armed.core) = {}
            /\ Continue([mem EXCEPT !.core = armed.core], "idle")
      /\ UNCHANGED <<app, consensus, informed, accepted>>

------------------------------------------------------------------------------
(* Decisions *)

\* accept_decision up to its dispatch_committed.
AcceptDecision(slot, batch) ==
  LET core == mem.core
  IN  \/ slot <= core.floor /\ Continue(mem, "idle")
      \/ slot \in Decided(core) /\ Continue(mem, "dispatch")
      \/ /\ slot > core.floor /\ slot \notin Decided(core)
         /\ \/ \E c \in ApplyDecision(core, slot, batch) :
                  Persist([mem EXCEPT !.core = c], "dispatch")
            \/ /\ ApplyDecision(core, slot, batch) = {}
               /\ Continue(mem, "idle")

\* poll proposes a slot that is due: the propose call decides the slot or finds
\* its decision.
Propose(slot) ==
  /\ pc = "propose"
  /\ slot \in Undecided(mem.core)
  /\ offered' = [offered EXCEPT ![slot] = @ \union {mem.core.log[slot].proposed}]
  /\ \E batch \in IF chosen[slot] = << >> THEN offered'[slot] ELSE {chosen[slot]} :
        /\ chosen' = [chosen EXCEPT ![slot] = batch]
        /\ AcceptDecision(slot, batch)
  /\ UNCHANGED <<app, informed, accepted>>

\* The propose call fails; recorders may hold the proposal.
ProposeFails(slot) ==
  /\ pc = "propose"
  /\ slot \in Undecided(mem.core)
  /\ offered' = [offered EXCEPT ![slot] = @ \union {mem.core.log[slot].proposed}]
  /\ Continue(mem, "idle")
  /\ UNCHANGED <<chosen, app, informed, accepted>>

\* External: a slot decides what a member not modelled proposed, or completes
\* what a replica left with the recorders.
OthersDecide(slot) ==
  /\ chosen[slot] = << >>
  /\ \E batch \in Foreign \union offered[slot] : chosen' = [chosen EXCEPT ![slot] = batch]
  /\ UNCHANGED <<pc, mem, disk, app, offered, informed, accepted, faults>>

\* poll finds nothing due.
Wait ==
  /\ pc = "propose"
  /\ Continue(mem, "idle")
  /\ UNCHANGED <<app, consensus, informed, accepted>>

\* receive_decision.
ReceiveDecision(slot) ==
  /\ pc = "idle"
  /\ chosen[slot] # << >>
  /\ AcceptDecision(slot, chosen[slot])
  /\ UNCHANGED <<app, consensus, informed, accepted>>

\* recover.
Recover ==
  /\ pc = "idle"
  /\ Continue(mem, "dispatch")
  /\ UNCHANGED <<app, consensus, informed, accepted>>

\* The committed decisions that are not yet executed and reported.
Undelivered(m) ==
  {s \in Decided(m.core) : s <= CommittedThrough(m.core) /\ s \notin m.executed \cap m.notified}

\* dispatch_committed, one call at a time: the lowest slot is executed, then
\* reported to the client.
Execute ==
  LET s == Min(Undelivered(mem))
  IN  /\ pc = "dispatch"
      /\ Undelivered(mem) # {} /\ s \notin mem.executed
      /\ app' = app \union {s}
      /\ Persist([mem EXCEPT !.executed = @ \union {s}], "dispatch")
      /\ UNCHANGED <<consensus, informed, accepted>>

\* Before that, dispatch_committed saves the statistics of newly committed slots.
SaveStatistics ==
  /\ pc = "dispatch"
  /\ Undelivered(mem) \ mem.executed # {}
  /\ Persist(mem, "dispatch")
  /\ UNCHANGED <<app, consensus, informed, accepted>>

Notify ==
  LET s == Min(Undelivered(mem))
  IN  /\ pc = "dispatch"
      /\ Undelivered(mem) # {} /\ s \in mem.executed
      /\ Persist([mem EXCEPT !.notified = @ \union {s}], "dispatch")
      /\ UNCHANGED <<app, consensus, informed, accepted>>

\* execute or committed of the embedding application returns an error.
DispatchFails ==
  /\ pc = "dispatch"
  /\ Undelivered(mem) # {}
  /\ faults.errors < MaxErrors
  /\ faults' = [faults EXCEPT !.errors = @ + 1]
  /\ pc' = "idle"
  /\ UNCHANGED <<mem, disk, app, consensus, informed, accepted>>

\* accept_decision and recover end.
Announce == pc = "dispatch" /\ Undelivered(mem) = {} /\ Flush("idle")

------------------------------------------------------------------------------
(* Checkpoints and state transfer *)

\* checkpoint_through and create_state_transfer begin.  What the second flush of
\* create_state_transfer does, a larger first one does as well.
BeginCheckpoint == pc = "idle" /\ Flush("checkpoint")

\* Fault: one acknowledgement is enough.
AnnouncedOnce(m, slot) ==
  \A s \in Decided(m.core) : s <= slot => m.announced[s] # {}

\* ensure_fully_announced.
FullyAnnounced(m, slot) ==
  \A s \in Decided(m.core) : s <= slot => m.announced[s] = Member

\* Fault: the execution marks are kept.
PrunedKeepsExecuted(m, slot) ==
  [core |-> PruneThrough(m.core, slot),
   executed |-> m.executed,
   notified |-> {s \in m.notified : s > slot},
   announced |-> [s \in Slot |-> IF s > slot THEN m.announced[s] ELSE {}]]

\* What checkpoint_through leaves.
Pruned(m, slot) ==
  [core |-> PruneThrough(m.core, slot),
   executed |-> {s \in m.executed : s > slot},
   notified |-> {s \in m.notified : s > slot},
   announced |-> [s \in Slot |-> IF s > slot THEN m.announced[s] ELSE {}]]

CanCheckpoint(m, slot) ==
  /\ slot <= CommittedThrough(m.core)
  /\ \A s \in Undecided(m.core) : s > slot
  /\ FullyAnnounced(m, slot)

\* checkpoint_through, called once the application has made its state after
\* these slots durable.
CheckpointThrough(slot) ==
  /\ pc = "checkpoint"
  /\ CanCheckpoint(mem, slot)
  /\ 1 .. slot \subseteq app
  /\ Persist(Pruned(mem, slot), "idle")
  /\ UNCHANGED <<app, consensus, informed, accepted>>

\* create_state_transfer: the application exports its state first.  The package
\* holds that state and the snapshot this leaves; install_state_transfer makes
\* them the state of another replica.
CreateStateTransfer(slot) ==
  /\ pc = "checkpoint"
  /\ CanCheckpoint(mem, slot)
  /\ CarefulTransfer => 1 .. slot \subseteq app
  /\ Persist(Pruned(mem, slot), "idle")
  /\ UNCHANGED <<app, consensus, informed, accepted>>

\* Either of them refuses.
CheckpointFails ==
  /\ pc = "checkpoint"
  /\ Continue(mem, "idle")
  /\ UNCHANGED <<app, consensus, informed, accepted>>

\* A snapshot that new and install_state_transfer accept.
RestorableRuntime(m) ==
  /\ Restorable(m.core)
  /\ \A s \in Undecided(m.core) : s > CommittedThrough(m.core)
  /\ m.notified \subseteq m.executed
  /\ m.executed \subseteq Decided(m.core)
  /\ \A s \in Slot : m.announced[s] # {} => s \in Decided(m.core)

Next ==
  \/ \E slot \in Slot : OthersDecide(slot)
  \/ \E v \in Value : Submit(v)
  \/ Poll
  \/ Arm
  \/ \E slot \in Slot : Propose(slot) \/ ProposeFails(slot) \/ ReceiveDecision(slot)
  \/ Wait
  \/ Recover
  \/ SaveStatistics
  \/ Execute
  \/ Notify
  \/ DispatchFails
  \/ Announce
  \/ BeginCheckpoint
  \/ \E slot \in Slot : CheckpointThrough(slot) \/ CreateStateTransfer(slot)
  \/ CheckpointFails
  \/ Crash

Spec == Init /\ [][Next]_vars

\* The event loop polls again and again, a handler that has begun goes on, and
\* a slot that is proposed again and again reaches a quorum in the end.
Fairness ==
  /\ SF_vars(Poll) /\ WF_vars(Arm) /\ \A slot \in Slot : SF_vars(Propose(slot))
  /\ WF_vars(Wait) /\ WF_vars(Execute) /\ WF_vars(Notify) /\ WF_vars(Announce)
  /\ WF_vars(CheckpointFails)

FairSpec == Spec /\ Fairness

------------------------------------------------------------------------------
(* Properties *)

\* "commits decided slots in order": the application executes the log without
\* gaps, whatever fails and whenever the replica restarts or prunes its log.
ExecutedInOrder == \A s \in app : 1 .. s \subseteq app

\* "the losing values stay durable and are proposed again": a value whose
\* submission succeeded stays in the queue or in a proposal, in memory and in
\* the file, until some slot decides it.
NoValueLost ==
  \A v \in accepted :
     \/ \E s \in Slot : v \in Range(chosen[s])
     \/ \A m \in {mem, disk} :
           \/ v \in Range(m.core.pending)
           \/ \E s \in Slot : v \in Range(m.core.log[s].proposed)

\* The replica can always restart: its file passes the validation of new.
SnapshotRestores == RestorableRuntime(disk)

\* With a no-op value, an idle replica does not "stall behind a slot whose only
\* proposer died": unless a save or the application fails, it executes every
\* decision it knows in the end, restarts included.
KnownExecuted == \A s \in Slot : s \in Decided(mem.core) ~> (s \in app \/ faults.errors > 0)

\* A slot is pruned only when all recorders hold its decision, so a replica that
\* is behind can still learn it.
PrunedKnown == \A s \in 1 .. mem.core.floor : informed[s] = Member
==============================================================================
