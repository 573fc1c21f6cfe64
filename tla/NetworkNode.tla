---------------------------- MODULE NetworkNode ----------------------------
(***************************************************************************)
(* One networked node (src/src/network/node_runtime.rs): a                 *)
(* NetworkConsensusHandler over a ReplicaCore, an application and a        *)
(* snapshot file.  Its client submissions, announcements from peers and    *)
(* recovered proposals are tasks that run concurrently: they share the     *)
(* state under an async mutex and wait for the network without it.  The    *)
(* other nodes act through slot consensus, which is what Consensus         *)
(* promises and QuePaxa delivers.                                          *)
(*                                                                         *)
(* A section that holds the mutex is one step unless it executes: then the *)
(* task keeps the lock from step to step.  Hedging delays and step probes  *)
(* only say when a task takes its turn, and are left out; the schedules    *)
(* are those of EpochTuner.                                                *)
(***************************************************************************)
EXTENDS ReplicaCore

CONSTANTS
  Request,          \* the submissions of clients
  Ids,              \* the value IDs of each of them
  Foreign,          \* the batches other nodes propose
  Left,             \* those whose proposer is no member in each epoch
  Noop,             \* the configured no-op value, if any
  Command,          \* the value that stands for a membership command
  OwnThroughServer, \* the wirings considered: whether the node's client for its own
                    \* recorder calls its own server
  CarefulTransfer,  \* export_checkpoint refuses slots that are not executed
  MaxCrashes,       \* bound on crashes
  MaxErrors,        \* bound on saves, executions and calls that fail
  MaxFloor,         \* bound: once the log is pruned that far, it is not pruned again
  MaxEpoch          \* bound on membership epochs

ASSUME NodeAssumption ==
  /\ {MaxCrashes, MaxErrors, MaxFloor, MaxEpoch} \subseteq Nat
  /\ CarefulTransfer \in BOOLEAN /\ OwnThroughServer \subseteq BOOLEAN
  /\ \A i \in Request : /\ Ids[i] \in Seq(Range(Ids[i])) /\ Len(Ids[i]) <= BatchSize
                         /\ IsInjective(Ids[i])
  /\ \A b \in Foreign : b \in Seq(Range(b)) /\ b # << >>
  /\ Left \in [0 .. MaxEpoch -> SUBSET Foreign]

VARIABLES
  mem,       \* ConsensusState, and the epoch of the configuration
  disk,      \* the snapshot in the file
  late,      \* the saves that cancelled tasks have left to the blocking pool
  app,       \* the slots the application has executed
  task,      \* where each task is, and the slot it is about
  lock,      \* the state mutex while a task executes under it, and what is left
  transfer,  \* the progress of create_state_transfer
  install,   \* the progress of install_membership, the writer of the gate
  offered,   \* external: the batches this node proposed for each slot
  chosen,    \* external: the batch each slot decided, << >> before
  accepted,  \* the values whose submission was saved
  faults     \* crashes and errors so far, and whether a late save came after a newer one

consensus == <<offered, chosen>>
calls == <<transfer, install>>
vars == <<mem, disk, late, app, task, lock, calls, consensus, accepted, faults>>

\* The tasks: submit_inner of each request, the proposal that recover_inner
\* makes for each slot, and receive_decisions.  At most one announcement is
\* handled and one proposal recovered per slot at a time.
Submitter(i) == <<"submit", i>>
Driver(s) == <<"drive", s>>
Receiver == <<"receive", 0>>
Drivers == {Driver(s) : s \in Slot}
Task == {Submitter(i) : i \in Request} \union Drivers \union {Receiver}

Idle == [at |-> "off", slot |-> 0]
Unlocked == [by |-> << >>, todo |-> {}]

\* NetworkConsensusHandler::new without a snapshot.  The pending map always
\* holds what Undecided of ReplicaCore says and is not modelled twice.
NewNode == [core |-> NewReplica, known |-> {}, executed |-> {}, epoch |-> 0]

\* The proposers of the retained decisions are members of the configuration.
ProposersAreMembers(m) == \A s \in m.known : m.core.log[s].decision \notin Left[m.epoch]

\* restore and validate_state of a snapshot.
RestorableNode(m) ==
  /\ Restorable(m.core)
  /\ m.executed \subseteq m.known
  /\ m.known \subseteq Decided(m.core)
  /\ ProposersAreMembers(m)

Init ==
  /\ mem = NewNode
  /\ disk = NewNode
  /\ late = {}
  /\ app = {}
  /\ task = [a \in Task |-> Idle]
  /\ lock = Unlocked
  /\ transfer = Idle
  /\ install = "off"
  /\ offered = [s \in Slot |-> {}]
  /\ chosen = [s \in Slot |-> << >>]
  /\ accepted = {}
  /\ faults = [crashes |-> 0, errors |-> 0, overtaken |-> FALSE]

------------------------------------------------------------------------------
(* Locks and saves *)

Free == lock = Unlocked

\* Fault: readers pass a writer.
OpenToAll == task[Receiver].at \notin {"boot", "booting"}

\* membership_gate.read(): admits no reader behind a waiting or holding writer.
\* A restarted node serves nobody before it has recovered.
Open == install = "off" /\ task[Receiver].at \notin {"boot", "booting"}

Goto(a, at) == task' = [task EXCEPT ![a] = [at |-> at, slot |-> 0]]
Call(a, s) == task' = [task EXCEPT ![a] = [at |-> "call", slot |-> s]]

\* What an error does to the tasks: it ends its task, and with a recovered
\* proposal all that recover_inner drives; recovery after a restart is repeated.
Failed(a) ==
  [b \in Task |->
     IF b = Receiver /\ a = b /\ task[a].at \in {"boot", "booting"}
     THEN [task[a] EXCEPT !.at = "boot"]
     ELSE IF b = a \/ {a, b} \subseteq Drivers THEN Idle ELSE task[b]]

Err == /\ faults.errors < MaxErrors
       /\ faults' = [faults EXCEPT !.errors = @ + 1]

\* save_store(snapshot(m)) and the rollback to what was there before.  A save
\* that fails may have replaced the file.
Save(m) ==
  \/ mem' = m /\ disk' = m /\ UNCHANGED faults
  \/ Err /\ UNCHANGED mem /\ \E d \in {disk, m} : disk' = d
Saved == faults' = faults

\* The process stops and restarts from its file, which new validates; recover is
\* called before the node serves again.  A node whose file is refused stays down.
Restart(d) ==
  /\ RestorableNode(d)
  /\ faults.crashes < MaxCrashes
  /\ faults' = [faults EXCEPT !.crashes = @ + 1]
  /\ mem' = d
  /\ task' = [a \in Task |->
                IF a = Receiver THEN [at |-> "boot", slot |-> 0]
                ELSE IF task[a].at = "answered" THEN task[a] ELSE Idle]
  /\ lock' = Unlocked
  /\ transfer' = Idle
  /\ install' = "off"
  /\ late' = {}
  /\ UNCHANGED disk

Crash ==
  /\ mem # disk \/ \E a \in Task : task[a].at \notin {"off", "answered"}
  /\ Restart(disk)
  /\ UNCHANGED <<app, consensus, accepted>>

\* A save that outlived its task replaces the file.
LateSave ==
  \E m \in late :
     /\ disk' = m
     /\ late' = late \ {m}
     /\ faults' = [faults EXCEPT !.overtaken = @ \/ mem # m]
     /\ UNCHANGED <<mem, app, task, lock, calls, consensus, accepted>>

------------------------------------------------------------------------------
(* Submissions *)

\* submit_inner up to its loop.
Submit(i) ==
  /\ Open /\ Free
  /\ task[Submitter(i)].at = "off"
  /\ \/ \E core \in Enqueue(mem.core, Ids[i]) :
           /\ Save([mem EXCEPT !.core = core])
           /\ IF Saved
              THEN Goto(Submitter(i), "loop") /\ accepted' = accepted \union Range(Ids[i])
              ELSE UNCHANGED <<task, accepted>>
     \/ /\ Enqueue(mem.core, Ids[i]) = {}
        /\ UNCHANGED <<mem, disk, task, accepted, faults>>
  /\ UNCHANGED <<late, app, lock, calls, consensus>>

\* decision_for: the decisions that hold every value of the request.
DecisionsFor(i) ==
  {s \in mem.known : Range(Ids[i]) \subseteq Range(mem.core.log[s].decision)}

ProposalsFor(i) ==
  {s \in Undecided(mem.core) : Range(Ids[i]) \subseteq Range(mem.core.log[s].proposed)}

\* The proposal a task makes for slot s with m as its state: the recorders may
\* hold it from now on.
Offer(m, S) ==
  offered' = [s \in Slot |-> IF s \in S THEN offered[s] \union {m.core.log[s].proposed}
                             ELSE offered[s]]

\* One pass of the loop: the request is answered, joins a proposal that holds
\* all of it, proposes the head of the queue, or waits for progress.
Loop(i) ==
  LET me == Submitter(i)
      slot == NextOpenSlot(mem.core)
  IN  /\ task[me].at = "loop" /\ Free
      /\ \/ /\ DecisionsFor(i) # {}
            /\ task' = [task EXCEPT ![me] = [at |-> "answered", slot |-> Min(DecisionsFor(i))]]
            /\ UNCHANGED <<mem, disk, offered, faults>>
         \/ /\ DecisionsFor(i) = {} /\ ProposalsFor(i) # {}
            /\ Call(me, Min(ProposalsFor(i)))
            /\ Offer(mem, {Min(ProposalsFor(i))})
            /\ UNCHANGED <<mem, disk, faults>>
         \/ /\ DecisionsFor(i) \union ProposalsFor(i) = {}
            /\ CanPropose(mem.core) /\ slot <= MaxSlot
            /\ \/ \E core \in NextProposal(mem.core) :
                     /\ Save([mem EXCEPT !.core = core])
                     /\ IF Saved THEN Call(me, slot) /\ Offer(mem', {slot})
                                ELSE task' = Failed(me) /\ UNCHANGED offered
               \/ /\ NextProposal(mem.core) = {}
                  /\ mem' = [mem EXCEPT !.core = Drained(@)]
                  /\ task' = Failed(me)
                  /\ UNCHANGED <<disk, offered, faults>>
         \/ /\ DecisionsFor(i) \union ProposalsFor(i) = {}
            /\ ~CanPropose(mem.core) \/ slot > MaxSlot
            /\ Goto(me, "wait")
            /\ UNCHANGED <<mem, disk, offered, faults>>
      /\ UNCHANGED <<late, app, lock, calls, chosen, accepted>>

------------------------------------------------------------------------------
(* Proposals *)

\* Where a task goes on once its proposal has ended.
After(a) == IF a \in Drivers THEN "off" ELSE "loop"

\* wait_for_turn finds that the slot is no longer pending.
StandDown(a) ==
  /\ task[a].at = "call" /\ Free
  /\ task[a].slot \notin Undecided(mem.core)
  /\ Goto(a, After(a))
  /\ UNCHANGED <<mem, disk, late, app, lock, calls, consensus, accepted, faults>>

\* The proposal of a submission fails.
ProposeFails(i) ==
  /\ task[Submitter(i)].at = "call"
  /\ task' = Failed(Submitter(i))
  /\ UNCHANGED <<mem, disk, late, app, lock, calls, consensus, accepted, faults>>

------------------------------------------------------------------------------
(* Decisions *)

\* arm_gap_noop: a no-op for the slot that blocks the commit frontier.
ArmGapNoop(m) ==
  LET gap == m.core.next
  IN  IF /\ Undecided(m.core) = {}
         /\ \E s \in m.known : s > gap
         /\ gap \notin m.known /\ m.core.log[gap] = NoEntry
      THEN {[m EXCEPT !.core = c] :
               c \in (UNION {NoteProposed(m.core, gap, <<noop>>) : noop \in Noop})}
             \union {n \in {m} : Noop = {}}
      ELSE {m}

\* Fault: slots behind a gap are ready too.
ReadyPastGap(m) == m.known \ m.executed

\* execute_ready: the committed decisions that are not marked as executed.
Ready(m) == {s \in m.known : s <= CommittedThrough(m.core)} \ m.executed

\* What apply_decision commits: execute_decisions of accept_decision runs these.
NewlyCommitted(before, m) == before.core.next .. CommittedThrough(m.core)

\* External: what slot s may turn out to have decided, of what this and other
\* nodes proposed: the recorders refuse those that have left.  The choice is made
\* when this node learns of it.
Outcomes(s) ==
  IF chosen[s] = << >> THEN (Foreign \ Left[mem.epoch]) \union offered[s] ELSE {chosen[s]}

\* The states in which a decision is known, before and after a no-op is armed.
Applied(m, s, batch) ==
  {[m EXCEPT !.core = c, !.known = @ \union {s}] : c \in ApplyDecision(m.core, s, batch)}
WithDecision(m, s, batch) == UNION {ArmGapNoop(n) : n \in Applied(m, s, batch)}

\* accept_decision up to its executions, by task a.
AcceptDecision(a, s, batch) ==
  LET applied == Applied(mem, s, batch)
      armed == IF s \in mem.known THEN ArmGapNoop(mem) ELSE WithDecision(mem, s, batch)
  IN  \/ /\ s \in mem.known
         /\ mem' \in armed
         /\ lock' = [by |-> a, todo |-> Ready(mem')]
         /\ Goto(a, "executing")
         /\ UNCHANGED <<disk, faults>>
      \/ /\ s \notin mem.known
         /\ \E m \in armed :
               /\ Save(m)
               /\ IF Saved
                  THEN /\ lock' = [by |-> a, todo |-> NewlyCommitted(mem, m)]
                       /\ Goto(a, "executing")
                  ELSE task' = Failed(a) /\ UNCHANGED lock
      \/ /\ armed = {}
         /\ mem' \in IF s \in mem.known \/ applied = {} THEN {mem} ELSE applied
         /\ task' = Failed(a)
         /\ UNCHANGED <<disk, lock, faults>>

Accept(a, s) ==
  /\ Free
  /\ \E batch \in Outcomes(s) :
        /\ chosen' = [chosen EXCEPT ![s] = batch]
        /\ AcceptDecision(a, s, batch)
  /\ UNCHANGED <<late, app, calls, offered, accepted>>

\* propose_slot: propose returns the decision of the slot.
Decide(a) == task[a].at = "call" /\ Accept(a, task[a].slot)

\* receive_decisions: a peer, or this node itself, announces a decision.  The
\* recorder of the server sees it first, and refuses one of a replica that has
\* left.
Receive(s) ==
  /\ Open
  /\ task[Receiver].at = "off"
  /\ chosen[s] \notin Left[mem.epoch]
  /\ Accept(Receiver, s)

\* execute_decisions, one slot at a time: execute, mark, save.  When the save
\* fails the mark stays.
Execute(a) ==
  LET s == Min(lock.todo)
      m == [mem EXCEPT !.executed = @ \union {s}]
  IN  /\ lock.by = a /\ lock.todo # {}
      /\ app' = app \union {s}
      /\ \/ /\ mem' = m /\ disk' = m
            /\ lock' = [lock EXCEPT !.todo = @ \ {s}]
            /\ UNCHANGED <<late, task, calls, faults>>
         \/ /\ Err
            /\ mem' = m /\ \E d \in {disk, m} : disk' = d
            /\ lock' = Unlocked /\ task' = Failed(a)
            /\ UNCHANGED <<late, calls>>
         \/ Restart(disk)
      /\ UNCHANGED <<consensus, accepted>>

\* The application refuses to execute.
ExecuteFails(a) ==
  /\ lock.by = a /\ lock.todo # {}
  /\ Err
  /\ lock' = Unlocked
  /\ task' = Failed(a)
  /\ UNCHANGED <<mem, disk, late, app, calls, consensus, accepted>>

\* Fault: nobody is notified.
AcceptedSilently(a) ==
  /\ lock.by = a /\ lock.todo = {}
  /\ task[a].at = "executing"
  /\ lock' = Unlocked
  /\ Goto(a, IF a = Receiver THEN "recover" ELSE After(a))
  /\ UNCHANGED <<mem, disk, late, app, calls, consensus, accepted, faults>>

\* The end of accept_decision: notify_waiters wakes the submissions.
Accepted(a) ==
  /\ lock.by = a /\ lock.todo = {}
  /\ task[a].at = "executing"
  /\ lock' = Unlocked
  /\ task' = [b \in Task |->
                CASE b = a -> [at |-> IF a = Receiver THEN "recover" ELSE After(a), slot |-> 0]
                  [] task[b].at = "wait" -> [at |-> "loop", slot |-> 0]
                  [] OTHER -> task[b]]
  /\ UNCHANGED <<mem, disk, late, app, calls, consensus, accepted, faults>>

------------------------------------------------------------------------------
(* Recovery *)

\* recover_inner up to its executions.
Recover ==
  LET at == IF task[Receiver].at = "boot" THEN "booting" ELSE "resuming"
  IN  /\ task[Receiver].at \in {"boot", "recover"} /\ Free
      /\ \/ \E m \in ArmGapNoop(mem) :
               /\ IF m = mem THEN UNCHANGED <<mem, disk, faults>> ELSE Save(m)
               /\ IF Saved
                  THEN lock' = [by |-> Receiver, todo |-> Ready(m)] /\ Goto(Receiver, at)
                  ELSE task' = Failed(Receiver) /\ UNCHANGED lock
         \/ /\ ArmGapNoop(mem) = {}
            /\ task' = Failed(Receiver)
            /\ UNCHANGED <<mem, disk, lock, faults>>
      /\ UNCHANGED <<late, app, calls, consensus, accepted>>

\* recover_inner drives the pending proposals.
Drive ==
  /\ lock = [by |-> Receiver, todo |-> {}]
  /\ task[Receiver].at \in {"booting", "resuming"}
  /\ lock' = Unlocked
  /\ task' = [a \in Task |->
                CASE a = Receiver -> Idle
                  [] \E s \in Undecided(mem.core) : a = Driver(s) /\ task[a] = Idle ->
                        [at |-> "call", slot |-> a[2]]
                  [] OTHER -> task[a]]
  /\ Offer(mem, {s \in Undecided(mem.core) : task[Driver(s)] = Idle})
  /\ UNCHANGED <<mem, disk, late, app, calls, chosen, accepted, faults>>

\* A recovered proposal fails: recover_inner returns its error and drops the
\* others, wherever they wait.  One that waits for a save or an execution
\* leaves it to the blocking pool, gives up the lock and rolls nothing back.
RecoverFails(d) ==
  /\ task[d].at = "call"
  /\ Err
  /\ task' = Failed(d)
  /\ lock' = IF lock.by \in Drivers THEN Unlocked ELSE lock
  /\ \/ UNCHANGED <<mem, late, app, chosen>>
     \/ \E e \in Drivers \ {d} :
           /\ task[e].at = "call" /\ Free /\ task[e].slot \notin mem.known
           /\ \E batch \in Outcomes(task[e].slot) :
                 /\ chosen' = [chosen EXCEPT ![task[e].slot] = batch]
                 /\ mem' \in WithDecision(mem, task[e].slot, batch)
           /\ late' = late \union {mem'}
           /\ UNCHANGED app
     \/ /\ lock.by \in Drivers /\ lock.todo # {}
        /\ app' = app \union {Min(lock.todo)}
        /\ \/ UNCHANGED <<mem, late>>
           \/ /\ mem' = [mem EXCEPT !.executed = @ \union {Min(lock.todo)}]
              /\ late' = late \union {mem'}
        /\ UNCHANGED chosen
  /\ UNCHANGED <<disk, calls, offered, accepted>>

------------------------------------------------------------------------------
(* State transfer *)

CanTransfer(m, s) == s <= CommittedThrough(m.core) /\ \A t \in Undecided(m.core) : t > s

\* create_state_transfer up to its announcements, one call at a time.
BeginTransfer(s) ==
  /\ Open /\ Free
  /\ transfer = Idle
  /\ CanTransfer(mem, s) /\ mem.core.floor < MaxFloor
  /\ transfer' = [at |-> "export", slot |-> s]
  /\ UNCHANGED <<mem, disk, late, app, task, lock, install, consensus, accepted, faults>>

\* Every member has acknowledged the decisions, and the application exports its
\* state, both without the lock.
Export ==
  /\ transfer.at = "export"
  /\ CarefulTransfer => 1 .. transfer.slot \subseteq app
  /\ transfer' = [transfer EXCEPT !.at = "prune"]
  /\ UNCHANGED <<mem, disk, late, app, task, lock, install, consensus, accepted, faults>>

\* A member does not answer, or the application cannot export.
TransferFails ==
  /\ transfer.at = "export"
  /\ transfer' = Idle
  /\ UNCHANGED <<mem, disk, late, app, task, lock, install, consensus, accepted, faults>>

\* Fault: the execution marks are kept.
PrunedKeepsMarks(m, s) ==
  [m EXCEPT !.core = PruneThrough(@, s), !.known = {t \in @ : t > s}]

\* What create_state_transfer leaves of the state.
Pruned(m, s) ==
  [m EXCEPT !.core = PruneThrough(@, s),
            !.known = {t \in @ : t > s},
            !.executed = {t \in @ : t > s}]

\* The rest of create_state_transfer: the node prunes what the package covers.
Prune ==
  /\ transfer.at = "prune" /\ Free
  /\ IF CanTransfer(mem, transfer.slot)
     THEN Save(Pruned(mem, transfer.slot))
     ELSE UNCHANGED <<mem, disk, faults>>
  /\ transfer' = Idle
  /\ UNCHANGED <<late, app, task, lock, install, consensus, accepted>>

\* What the package of an idle source restores: one whose queue is empty and that
\* has neither proposed nor learnt anything beyond slot s.
Packaged(s) ==
  [NewNode EXCEPT !.core.next = s + 1, !.core.floor = s,
                  !.core.seen = UNION {Range(chosen'[t]) : t \in 1 .. s}]

\* install_state_transfer, before the node serves: the package must pass restore
\* and validate_state, the application imports, the snapshot is saved, then the
\* state is replaced.
InstallTransfer(s) ==
  /\ Open /\ Free
  /\ mem = NewNode /\ \A a \in Task : task[a] = Idle
  /\ chosen' \in [Slot -> (UNION {Outcomes(t) : t \in Slot}) \union {<< >>}]
  /\ \A t \in Slot : IF t <= s THEN chosen'[t] \in Outcomes(t) ELSE chosen'[t] = chosen[t]
  /\ RestorableNode(Packaged(s))
  /\ app' = app \union 1 .. s
  /\ Save(Packaged(s))
  /\ UNCHANGED <<late, task, lock, calls, offered, accepted>>

------------------------------------------------------------------------------
(* Membership changes *)

\* The slot of the decision a change is anchored to: the end of a log that has
\* nothing in flight.
Anchors(m) ==
  {s \in m.known : /\ s = CommittedThrough(m.core)
                   /\ Command \in Range(m.core.log[s].decision)
                   /\ Undecided(m.core) = {}
                   /\ \A t \in Retained(m.core) : t <= s}

\* install_membership waits for the gate as its writer.
BeginInstall ==
  /\ Open
  /\ mem.epoch < MaxEpoch /\ Anchors(mem) # {}
  /\ install' = "gate"
  /\ UNCHANGED <<mem, disk, late, app, task, lock, transfer, consensus, accepted, faults>>

\* It has the gate once no reader is left, checks that the node is drained, and
\* announces the retained decisions to every member, itself included.
AnnounceAll ==
  /\ install = "gate" /\ Free
  /\ transfer = Idle
  /\ \A a \in Task : task[a].at \in {"off", "answered"}
  /\ IF Anchors(mem) = {}
     THEN install' = "off" /\ UNCHANGED task
     ELSE /\ install' = "announce"
          /\ \/ TRUE \in OwnThroughServer /\ Goto(Receiver, "gate")
             \/ FALSE \in OwnThroughServer /\ UNCHANGED task
  /\ UNCHANGED <<mem, disk, late, app, lock, transfer, consensus, accepted, faults>>

\* The announcement to itself is a request like any other: it waits for the gate,
\* ahead of a later writer.
ReceiveOwn(s) ==
  /\ install # "announce"
  /\ task[Receiver].at = "gate"
  /\ s \in mem.known
  /\ Accept(Receiver, s)

\* TlsRpcClient::call gives up on it: disseminate_all lacks an acknowledgement.
OwnTimesOut ==
  /\ install = "announce"
  /\ task[Receiver].at = "gate"
  /\ install' = "off"
  /\ UNCHANGED <<mem, disk, late, app, task, lock, transfer, consensus, accepted, faults>>

\* All members have acknowledged and their recorders installed the change: the
\* configuration is replaced and saved.
InstallMembership ==
  /\ install = "announce" /\ Free
  /\ task[Receiver].at = "off"
  /\ Save([mem EXCEPT !.epoch = @ + 1])
  /\ install' = "off"
  /\ UNCHANGED <<late, app, task, lock, transfer, consensus, accepted>>

\* A member does not answer in time.
InstallFails ==
  /\ install = "announce"
  /\ Err
  /\ install' = "off"
  /\ UNCHANGED <<mem, disk, late, app, task, lock, transfer, consensus, accepted>>

------------------------------------------------------------------------------
(* The node *)

Next ==
  \/ \E i \in Request : Submit(i) \/ Loop(i) \/ ProposeFails(i)
  \/ \E a \in Task :
        StandDown(a) \/ Decide(a) \/ Execute(a) \/ ExecuteFails(a) \/ Accepted(a)
  \/ \E s \in Slot : Receive(s)
  \/ Recover
  \/ Drive
  \/ \E d \in Drivers : RecoverFails(d)
  \/ LateSave
  \/ \E s \in Slot : BeginTransfer(s) \/ InstallTransfer(s)
  \/ Export
  \/ TransferFails
  \/ Prune
  \/ BeginInstall
  \/ AnnounceAll
  \/ \E s \in Slot : ReceiveOwn(s)
  \/ OwnTimesOut
  \/ InstallMembership
  \/ InstallFails
  \/ Crash

Spec == Init /\ [][Next]_vars

\* The runtime schedules every task again and again, the lock is fair, and calls
\* return.
Fairness ==
  /\ \A a \in Task : /\ SF_vars(Decide(a)) /\ SF_vars(StandDown(a))
                     /\ WF_vars(Execute(a)) /\ WF_vars(Accepted(a))
  /\ \A i \in Request : SF_vars(Loop(i))
  /\ SF_vars(Recover) /\ WF_vars(Drive)
  /\ SF_vars(Prune) /\ WF_vars(TransferFails)
  /\ WF_vars(AnnounceAll) /\ WF_vars(\E s \in Slot : ReceiveOwn(s))
  /\ WF_vars(OwnTimesOut) /\ WF_vars(InstallMembership)

FairSpec == Spec /\ Fairness

------------------------------------------------------------------------------
(* Properties *)

Value == UNION {Range(Ids[i]) : i \in Request}

TypeOK ==
  /\ \A a \in Task : task[a].at \in {"off", "gate", "boot", "booting", "loop", "wait", "call",
                                      "executing", "recover", "resuming", "answered"}
  /\ lock.by # << >> => task[lock.by].at \in {"executing", "resuming", "booting"}
  /\ app \subseteq Slot
  /\ \A m \in {mem, disk} \union late :
        /\ m.core.next \in 1 .. MaxSlot + 1 /\ m.core.floor < m.core.next
        /\ m.executed \subseteq m.known /\ m.known \subseteq Decided(m.core)

\* The node "executes contiguous decisions in order": while nothing has failed,
\* the application executes the log without gaps, whichever tasks learn the
\* decisions and whenever the node restarts or prunes its log.
ExecutedInOrder == faults.errors = 0 => \A s \in app : 1 .. s \subseteq app

\* The same whatever fails.
ExecutedInOrderDespiteErrors == \A s \in app : 1 .. s \subseteq app

\* "the losing values stay durable and are proposed again in a later slot": a
\* value whose submission was saved stays in the queue or in a proposal, in
\* memory and in the file, until some slot decides it.
NoValueLost ==
  ~faults.overtaken => \A v \in accepted :
     \/ \E s \in Slot : v \in Range(chosen[s])
     \/ \A m \in {mem, disk} :
           \/ v \in Range(m.core.pending)
           \/ \E s \in Slot : v \in Range(m.core.log[s].proposed)

\* The node can restart at any time, unless it retains a decision of a member
\* that a membership change has removed: its file passes restore and
\* validate_state, whatever was pruned, saved late or saved by halves before.
SnapshotRestores == ProposersAreMembers(disk) => RestorableNode(disk)

\* The same after a removal, which validate_state refuses to restore.
RestartSucceeds == RestorableNode(disk)

\* No submission sleeps through its decision: while nothing has failed, one that
\* waits for progress has no decision the node knows.
NoLostWakeup ==
  faults.errors = 0 /\ Free
  => \A i \in Request : task[Submitter(i)].at = "wait" => DecisionsFor(i) = {}

\* "Retrying the same ID at the same runtime is suppressed durably": while
\* nothing has failed, a value of this node is decided in one slot only.
DecidedOnce ==
  faults.errors = 0
  => \A s, t \in Slot : Range(chosen[s]) \cap Range(chosen[t]) \cap Value # {} => s = t

\* "membership changes require an exact committed anchor and a drained
\* pipeline": the configuration changes only while no proposal is in flight.
ChangesWhenDrained ==
  [][mem'.epoch > mem.epoch =>
       /\ Anchors(mem) # {}
       /\ \A a \in Task : task[a].at # "call"]_vars

\* "Installs a drained, consensus-anchored stable/joint membership epoch without
\* restarting the async node runtime": once it announces the log, and unless
\* something fails, an installation completes.
InstallSucceeds ==
  \A e \in 0 .. MaxEpoch :
     install = "announce" /\ mem.epoch = e
     ~> mem.epoch > e \/ faults.errors > 0 \/ faults.crashes > 0
==============================================================================
