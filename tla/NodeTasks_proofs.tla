-------------------------- MODULE NodeTasks_proofs --------------------------
(***************************************************************************)
(* What the tasks of a networked node owe to each other (NetworkNode), on  *)
(* top of the invariant that NetworkNode_proofs establishes: decisions are *)
(* executed in order whichever task learns them, a waiting submission is   *)
(* woken by the task that learns its decision, and a configuration changes *)
(* only when the node is drained.                                          *)
(*                                                                         *)
(* All three rest on who holds the mutex, and on the fact that a task that *)
(* accepts a decision keeps it until what is committed has been executed.  *)
(* That takes NoopFits: accept_decision stops half way when it finds no    *)
(* room for a no-op.                                                       *)
(***************************************************************************)
EXTENDS NetworkNode_proofs

USE Zenon

------------------------------------------------------------------------------
(* Execution *)

\* What a state marks as executed, or no longer holds, has been executed.
Executing(m, done) ==
  m.executed \subseteq done /\ \A s \in Slot : s <= m.core.floor => s \in done

\* While nothing has failed: the mutex is held until all that is committed has
\* been executed, in order.
InOrder ==
  /\ lock.todo \subseteq 1 .. CommittedThrough(mem.core)
  /\ lock.by # << >> => \A s \in 1 .. CommittedThrough(mem.core) : s \in lock.todo \union app
  /\ lock.by = << >> /\ task[Receiver].at # "boot" => 1 .. CommittedThrough(mem.core) \subseteq app
  /\ \A s \in app : 1 .. s \subseteq app

ExecutingInv ==
  /\ \A m \in States : Executing(m, app)
  /\ transfer.at = "prune" => 1 .. transfer.slot \subseteq app
  /\ faults.errors = 0 => InOrder

\* What a step computes marks only executed slots.
LEMMA ExecutingStep ==
  ASSUME Standing(mem, chosen), Executing(mem, app), NEW m, Step(m),
         transfer.at = "prune" => 1 .. transfer.slot \subseteq app
  PROVE  Executing(m, app')
<1>1. /\ Standing(mem, chosen') /\ Grows /\ mem \in Node /\ app \subseteq app'
      /\ \A s \in Slot : s \in Nat /\ s >= 1
  <2>1. \A s \in Slot : s \in Nat /\ s >= 1
    BY SMT, ReplicaConfigAssumption DEF Slot
  <2> QED BY <2>1, StandingGrows DEF Step, Standing, Grows
<1>2. ASSUME m.executed = mem.executed, m.core.floor = mem.core.floor
      PROVE  Executing(m, app')
  BY <1>1, <1>2 DEF Executing
<1>3. CASE Submits(m) \/ Proposes(m) \/ Drains(m)
  <2>1. SameNode(m, mem)
    BY <1>1, <1>3, SubmitsFacts, ProposesFacts
  <2> QED BY <1>2, <2>1 DEF SameNode
<1>4. CASE Stays(m)
  BY <1>2, <1>4 DEF Stays
<1>5. CASE Decides(m)
  <2>1. \E slot : Deciding(m, mem, slot)
    BY <1>1, <1>5, DecidesFacts DEF Decides
  <2> QED BY <1>2, <2>1 DEF Deciding
<1>6. CASE Arms(m)
  <2>1. Arming(m, mem)
    BY <1>6, ArmGapNoopFacts DEF Arms
  <2> QED BY <1>2, <2>1 DEF Arming
<1>7. CASE Executes(m)
  <2>1. PICK s \in mem.known : s \in app' /\ m = [mem EXCEPT !.executed = @ \union {s}]
    BY <1>7 DEF Executes
  <2>2. s \in Slot
    BY <1>1, NodeParts
  <2>3. m.core = mem.core /\ m.executed = mem.executed \union {s}
    BY <1>1, <2>1, <2>2, OtherParts
  <2> QED BY <1>1, <2>1, <2>3 DEF Executing
<1>8. CASE Prunes(m)
  <2>1. PICK slot \in Slot : /\ transfer.at = "prune" /\ slot = transfer.slot
                             /\ CanTransfer(mem, slot) /\ m = Pruned(mem, slot)
    BY <1>8 DEF Prunes
  <2>2. LeavesPruned(mem, slot, m, PruneThrough(mem.core, slot))
    BY <2>1, PrunesStand
  <2>3. m.executed \subseteq mem.executed /\ m.core.floor \in {slot, mem.core.floor}
    BY <2>2 DEF LeavesPruned
  <2>4. ASSUME NEW s \in Slot, s <= slot PROVE s \in app
    <3>1. slot \in Nat /\ s \in Nat /\ s >= 1
      BY <1>1
    <3>2. s \in 1 .. slot
      BY SMT, <2>4, <3>1
    <3> QED BY <2>1, <3>2
  <2> QED BY <1>1, <2>3, <2>4 DEF Executing
<1>9. CASE Installs(m)
  <2>1. PICK s \in Slot : m = Packaged(s) /\ RestorableNode(m) /\ 1 .. s \subseteq app'
    BY <1>9 DEF Installs
  <2>2. m.executed = {} /\ m.core.floor = s
    BY <1>1, <2>1, PackagedStands DEF Grows, LeavesInstalled
  <2>3. ASSUME NEW t \in Slot, t <= s PROVE t \in app'
    <3>1. s \in Nat /\ t \in Nat /\ t >= 1
      BY <1>1
    <3>2. t \in 1 .. s
      BY SMT, <2>3, <3>1
    <3> QED BY <2>1, <3>2
  <2> QED BY <2>2, <2>3 DEF Executing
<1>10. CASE Renumbers(m)
  <2>1. m.core = mem.core /\ m.executed = mem.executed
    BY <1>1, <1>10, OtherParts DEF Renumbers
  <2> QED BY <1>2, <2>1
<1> QED BY <1>3, <1>4, <1>5, <1>6, <1>7, <1>8, <1>9, <1>10 DEF Step

\* The package of a state transfer covers executed slots only.
LEMMA TransferStep ==
  ASSUME CarefulTransfer, ControlInv, [Next]_vars, app \subseteq app', transfer'.at = "prune",
         transfer.at = "prune" => 1 .. transfer.slot \subseteq app
  PROVE  1 .. transfer'.slot \subseteq app'
<1>1. CASE transfer' = transfer
  BY <1>1
<1>2. CASE Export
  <2>1. PICK t, u : t = transfer /\ u = transfer'
    OBVIOUS
  <2>2. /\ t \in [at : {"off", "export", "prune"}, slot : 0 .. MaxSlot] /\ u = [t EXCEPT !.at = "prune"]
        /\ 1 .. t.slot \subseteq app
    BY <1>2, <2>1 DEF Export, ControlInv
  <2>3. u.slot = t.slot
    BY ONLY SMT, <2>2
  <2> QED BY <2>1, <2>2, <2>3
<1>3. transfer' # Idle /\ \A s : transfer' # [at |-> "export", slot |-> s]
  <2>1. \A s : [at |-> "export", slot |-> s].at = "export"
    BY SMT
  <2> QED BY <2>1, IdleTask
<1>4. ASSUME NEW a, Execute(a) PROVE transfer' = transfer
  BY <1>3, <1>4 DEF Execute, Restart, calls
<1>5. ASSUME Next, ~Export PROVE transfer' = transfer
  <2>1. ASSUME NEW i \in Request, Submit(i) \/ Loop(i) \/ ProposeFails(i) PROVE transfer' = transfer
    BY <2>1 DEF Submit, Loop, ProposeFails, calls
  <2>2. ASSUME NEW a \in Task, StandDown(a) \/ Decide(a) \/ ExecuteFails(a) \/ Accepted(a)
        PROVE  transfer' = transfer
    BY <2>2 DEF StandDown, Decide, Accept, ExecuteFails, Accepted, calls
  <2>3. ASSUME NEW s \in Slot, Receive(s) \/ ReceiveOwn(s) \/ BeginTransfer(s) \/ InstallTransfer(s)
        PROVE  transfer' = transfer
    BY <1>3, <2>3 DEF Receive, ReceiveOwn, Accept, BeginTransfer, InstallTransfer, calls
  <2>4. CASE Recover \/ Drive \/ LateSave \/ BeginInstall \/ AnnounceAll \/ OwnTimesOut
             \/ InstallMembership \/ InstallFails
    BY <2>4 DEF Recover, Drive, LateSave, BeginInstall, AnnounceAll, OwnTimesOut,
                InstallMembership, InstallFails, calls
  <2>5. ASSUME NEW d \in Drivers, RecoverFails(d) PROVE transfer' = transfer
    BY <2>5 DEF RecoverFails, calls
  <2>6. CASE TransferFails \/ Prune \/ Crash
    BY <1>3, <2>6 DEF TransferFails, Prune, Crash, Restart
  <2> QED BY <1>4, <1>5, <2>1, <2>2, <2>3, <2>4, <2>5, <2>6 DEF Next
<1>6. UNCHANGED vars => transfer' = transfer
  BY DEF vars, calls
<1> QED BY <1>1, <1>2, <1>5, <1>6

\* Steps that commit and execute nothing.
LEMMA InOrderSame ==
  ASSUME InOrder, mem'.core.next = mem.core.next, app' = app, lock' = lock,
         task'[Receiver].at # "boot" => task[Receiver].at # "boot"
  PROVE  InOrder'
<1>1. CommittedThrough(mem'.core) = CommittedThrough(mem.core)
  BY DEF CommittedThrough
<1> QED BY <1>1 DEF InOrder

\* The operations of a submission leave the frontier where it is.
LEMMA SubmissionNext ==
  ASSUME StandingInv, NEW i \in Request, Submit(i) \/ Loop(i)
  PROVE  /\ mem'.core.next = mem.core.next
         /\ lock = Unlocked /\ app' = app /\ lock' = lock /\ mem'.known = mem.known
         /\ mem'.epoch = mem.epoch /\ (disk' = disk \/ disk'.epoch = mem.epoch)
         /\ \A s \in Slot : mem'.core.log[s].decision = mem.core.log[s].decision
<1>1. /\ lock = Unlocked /\ app' = app /\ lock' = lock /\ chosen' = chosen /\ late' = late
      /\ Standing(mem, chosen) /\ faults \in Faults
  BY DEF Submit, Loop, Free, StandingInv, States, WorldOK, consensus
<1>2. \A m : Submits(m) \/ Proposes(m) \/ Drains(m) => SameNode(m, mem)
  BY <1>1, SubmitsFacts, ProposesFacts
<1>3. ASSUME NEW core \in Enqueue(mem.core, Ids[i]), Save([mem EXCEPT !.core = core]), Submit(i)
      PROVE  \E m : SameNode(m, mem) /\ mem' \in {mem, m} /\ disk' \in {disk, m}
  <2>1. PICK m : m = [mem EXCEPT !.core = core]
    OBVIOUS
  <2>2. (mem' = m /\ disk' = m /\ faults' = faults) \/ (mem' = mem /\ disk' \in {disk, m})
    BY <1>1, <1>3, <2>1, SaveMoves
  <2>3. SameNode(m, mem)
    <3>1. PICK b, q : b = mem.core /\ q = Ids[i]
      OBVIOUS
    <3>2. Sound(b, Values) /\ q \in Seq(Values) /\ IsInjective(q) /\ core \in Enqueue(b, q)
      BY <1>1, <1>3, <3>1, RequestBatch DEF Standing
    <3>3. /\ Sound(core, Values) /\ core.log = b.log /\ core.next = b.next /\ core.floor = b.floor
          /\ b.seen \subseteq core.seen
      BY ONLY SMTT(20), <3>2, EnqueueFacts
    <3>4. Decided(core) = Decided(b)
      BY <3>3 DEF Decided
    <3>5. mem \in Node
      BY <1>1 DEF Standing
    <3>6. m.core = core /\ m.known = mem.known /\ m.executed = mem.executed /\ m.epoch = mem.epoch
      BY <2>1, <3>5, OtherFields
    <3> QED BY <3>1, <3>3, <3>4, <3>6 DEF SameNode
  <2> QED BY <2>2, <2>3
<1>4. ASSUME NEW core \in NextProposal(mem.core), CanPropose(mem.core),
             NextOpenSlot(mem.core) <= MaxSlot, Save([mem EXCEPT !.core = core])
      PROVE  \E m : SameNode(m, mem) /\ mem' \in {mem, m} /\ disk' \in {disk, m}
  <2>1. PICK m : m = [mem EXCEPT !.core = core]
    OBVIOUS
  <2>2. (mem' = m /\ disk' = m) \/ (mem' = mem /\ disk' \in {disk, m})
    BY <1>1, <1>4, <2>1, SaveMoves
  <2>3. CASE disk' = m
    <3>1. Proposes(m)
      BY <1>4, <2>1, <2>3 DEF Proposes
    <3> QED BY <1>2, <2>2, <2>3, <3>1
  <2>4. CASE mem' = mem /\ disk' = disk
    <3>1. SameNode(mem, mem)
      BY DEF SameNode
    <3> QED BY <2>4, <3>1
  <2> QED BY <2>2, <2>3, <2>4
<1>5. ASSUME mem' = [mem EXCEPT !.core = Drained(@)], disk' = disk, CanPropose(mem.core),
             NextOpenSlot(mem.core) <= MaxSlot, NextProposal(mem.core) = {}
      PROVE  \E m : SameNode(m, mem) /\ mem' \in {mem, m} /\ disk' \in {disk, m}
  <2>1. Drains(mem')
    BY <1>5 DEF Drains
  <2> QED BY <1>2, <1>5, <2>1
<1>6. ASSUME mem' = mem, disk' = disk
      PROVE  \E m : SameNode(m, mem) /\ mem' \in {mem, m} /\ disk' \in {disk, m}
  BY <1>6 DEF SameNode
<1>7. \E m : SameNode(m, mem) /\ mem' \in {mem, m} /\ disk' \in {disk, m}
  <2>1. CASE Submit(i)
    BY <1>3, <1>6, <2>1 DEF Submit
  <2>2. CASE Loop(i)
    BY <1>4, <1>5, <1>6, <2>2 DEF Loop
  <2> QED BY <2>1, <2>2
<1> QED BY <1>1, <1>7 DEF SameNode

\* accept_decision holds the mutex to execute what it committed.
LEMMA AcceptOrder ==
  ASSUME StandingInv, ControlInv, InOrder, NoopFits, NEW a \in Task, NEW s \in Slot, Accept(a, s),
         OpenToAll, faults'.errors = 0
  PROVE  InOrder'
<1>1. /\ AcceptTakes(a, s) \/ AcceptStops(a, s)
      /\ lock = Unlocked /\ app' = app
  BY AcceptShape
<1>2. lock.by = << >> /\ lock.todo = {} /\ task[Receiver].at # "boot"
  BY <1>1, IdleTask DEF OpenToAll
<1>3. PICK b, n : b = mem.core /\ n = mem'
  OBVIOUS
<1>4. 1 .. b.next - 1 \subseteq app /\ b.next \in Nat /\ b.next >= 1
  <2>1. b \in CoreSet(Values)
    BY <1>3, NodeParts DEF StandingInv, States, Standing
  <2>2. b.next \in Nat /\ b.next >= 1
    BY SMT, <2>1, CoreParts
  <2> QED BY <1>2, <1>3, <2>2 DEF InOrder, CommittedThrough
<1>5. CASE AcceptTakes(a, s)
  <2>1. PICK T \in SUBSET Slot : lock' = [by |-> a, todo |-> T]
    BY <1>5, TakenKnown
  <2>2. lock'.by = a /\ lock'.todo = T /\ a # << >>
    BY <2>1, TaskNames
  <2>3. CASE Arming(n, mem) /\ lock' = [by |-> a, todo |-> Ready(n)]
    <3>1. n.core.next = b.next /\ n \in Node
      BY <1>3, <2>3 DEF Arming
    <3>2. T = Ready(n)
      <4>1. [by |-> a, todo |-> Ready(n)].todo = Ready(n)
        OBVIOUS
      <4> QED BY ONLY <2>2, <2>3, <4>1
    <3>3. \A t \in T : t \in Slot /\ t <= b.next - 1
      BY <3>1, <3>2, NodeParts DEF Ready, CommittedThrough
    <3>4. T \subseteq 1 .. b.next - 1
      BY SMTT(20), <1>4, <3>3, ReplicaConfigAssumption DEF Slot
    <3> QED BY <1>1, <1>2, <1>3, <1>4, <2>2, <3>1, <3>4 DEF InOrder, CommittedThrough
  <2>4. CASE Deciding(n, mem, s) /\ lock' = [by |-> a, todo |-> NewlyCommitted(mem, n)]
    <3>1. PICK k : k = n.core.next
      OBVIOUS
    <3>2. k >= b.next /\ k \in Nat
      <4>1. n.core \in CoreSet(Values)
        BY <2>4, NodeParts DEF Deciding
      <4>2. n.core.next \in Nat
        BY <4>1, CoreParts
      <4> QED BY <1>3, <2>4, <3>1, <4>2 DEF Deciding
    <3>3. T = b.next .. k - 1
      <4>1. [by |-> a, todo |-> NewlyCommitted(mem, n)].todo = NewlyCommitted(mem, n)
        OBVIOUS
      <4>2. T = NewlyCommitted(mem, n)
        BY ONLY <2>2, <2>4, <4>1
      <4> QED BY <1>3, <3>1, <4>2 DEF NewlyCommitted, CommittedThrough
    <3>4. T \subseteq 1 .. k - 1 /\ \A t \in 1 .. k - 1 : t \in T \/ t \in 1 .. b.next - 1
      BY ONLY SMTT(20), <1>4, <3>2, <3>3
    <3>5. \A t \in 1 .. k - 1 : t \in T \union app
      BY <1>4, <3>4
    <3>6. 1 .. CommittedThrough(mem'.core) = 1 .. k - 1
      BY <1>3, <3>1 DEF CommittedThrough
    <3> QED BY <1>1, <2>2, <3>4, <3>5, <3>6 DEF InOrder
  <2> QED BY <1>3, <1>5, <2>3, <2>4 DEF AcceptTakes
<1>6. CASE AcceptStops(a, s)
  <2>1. mem' = mem /\ lock' = lock
    BY <1>6 DEF AcceptStops
  <2> QED BY <1>1, <1>2, <2>1, InOrderSame
<1> QED BY <1>1, <1>5, <1>6

\* recover executes what was committed and has no mark.
LEMMA RecoverOrder ==
  ASSUME StandingInv, ControlInv, InOrder, Executing(mem, app), Recover, faults'.errors = 0
  PROVE  InOrder'
<1>1. /\ RecoverTakes \/ RecoverStops
      /\ lock = Unlocked /\ task[Receiver].at \in {"boot", "recover"} /\ app' = app
  BY RecoverShape
<1>2. lock.by = << >> /\ lock.todo = {}
  BY <1>1, IdleTask
<1>3. PICK b, n : b = mem.core /\ n = mem'
  OBVIOUS
<1>4. /\ b \in CoreSet(Values) /\ b.next \in Nat /\ b.next >= 1 /\ b.floor \in Nat
      /\ b.next <= MaxSlot + 1 /\ MaxSlot \in Nat /\ mem.known \subseteq Slot
  <2>1. b \in CoreSet(Values) /\ mem.known \subseteq Slot
    BY <1>3, NodeParts DEF StandingInv, States, Standing
  <2>2. b.next \in 1 .. MaxSlot + 1 /\ b.floor \in Nat
    BY <2>1, CoreParts
  <2> QED BY SMTT(20), <2>1, <2>2, ReplicaConfigAssumption
<1>5. CASE RecoverTakes
  <2>1. /\ n.core.next = b.next /\ n.known = mem.known /\ n.executed = mem.executed
        /\ lock' = [by |-> Receiver, todo |-> Ready(n)]
    BY <1>3, <1>5 DEF RecoverTakes, Arming
  <2>2. lock'.by = Receiver /\ lock'.todo = Ready(n) /\ Receiver # << >>
    BY <2>1, TaskNames
  <2>3. Ready(n) = {t \in mem.known : t <= b.next - 1} \ mem.executed
    BY <2>1 DEF Ready, CommittedThrough
  <2>4. Ready(n) \subseteq 1 .. b.next - 1
    <3>1. \A t \in Ready(n) : t \in Slot /\ t <= b.next - 1
      BY <1>4, <2>3
    <3> QED BY SMTT(20), <1>4, <3>1 DEF Slot
  <2>5. ASSUME NEW t \in 1 .. b.next - 1 PROVE t \in Ready(n) \union app
    <3>1. t \in Slot /\ t \in Nat /\ t <= b.next - 1
      BY SMTT(20), <1>4 DEF Slot
    <3>2. CASE t <= b.floor
      BY <1>3, <3>1, <3>2 DEF Executing
    <3>3. CASE ~(t <= b.floor)
      <4>1. t \in b.floor + 1 .. b.next - 1
        BY SMTT(20), <1>4, <3>1, <3>3
      <4>2. t \in Decided(b)
        BY <1>3, <4>1 DEF StandingInv, States, Standing, Sound, Orderly, Restorable
      <4>3. t \in mem.known
        BY <1>3, <3>3, <4>2 DEF StandingInv, States, Standing
      <4> QED BY <2>3, <3>1, <4>3 DEF Executing
    <3> QED BY <3>2, <3>3
  <2>6. 1 .. CommittedThrough(mem'.core) = 1 .. b.next - 1
    BY <1>3, <2>1 DEF CommittedThrough
  <2> QED BY <1>1, <2>2, <2>4, <2>5, <2>6 DEF InOrder
<1>6. CASE RecoverStops
  <2>1. mem' = mem /\ lock' = lock /\ task' = Failed(Receiver)
    BY <1>6 DEF RecoverStops
  <2>2. Ending(Receiver, Receiver, task'[Receiver])
    BY <2>1, FailedFacts, TaskNames
  <2>3. task'[Receiver].at # "boot" => task[Receiver].at # "boot"
    BY <2>2 DEF Ending
  <2> QED BY <1>1, <2>1, <2>3, InOrderSame
<1> QED BY <1>1, <1>5, <1>6

\* execute_decisions takes the first of what is left.
LEMMA ExecuteOrder ==
  ASSUME StandingInv, ControlInv, InOrder, NEW a \in Task, Execute(a), faults'.errors = 0
  PROVE  InOrder'
<1>1. PICK s, T : s = Min(T) /\ T = lock.todo
  OBVIOUS
<1>2. /\ s \in T /\ s \in Slot /\ (\A t \in T : s <= t) /\ app' = app \union {s}
      /\ lock.by = a /\ a # << >>
  BY <1>1, NextTodo, TaskNames DEF Execute
<1>3. PICK c : c = CommittedThrough(mem.core)
  OBVIOUS
<1>4. /\ s \in 1 .. c /\ c \in Int /\ T \subseteq 1 .. c
      /\ \A t \in 1 .. c : t \in T \union app
  <2>1. mem.core \in CoreSet(Values)
    BY NodeParts DEF StandingInv, States, Standing
  <2>2. mem.core.next \in Nat
    BY <2>1, CoreParts
  <2>3. c \in Int
    BY SMTT(20), <1>3, <2>2 DEF CommittedThrough
  <2> QED BY <1>1, <1>2, <1>3, <2>3 DEF InOrder
<1>5. \A t \in app' : 1 .. t \subseteq app'
  <2>1. ASSUME NEW t \in 1 .. s PROVE t \in app'
    <3>1. t = s \/ (t \in 1 .. c /\ ~(s <= t))
      BY ONLY SMTT(20), <1>4, t \in 1 .. s
    <3> QED BY <1>2, <1>4, <3>1
  <2> QED BY <1>2, <2>1 DEF InOrder
<1>6. CASE /\ mem' = [mem EXCEPT !.executed = @ \union {s}]
           /\ lock' = [lock EXCEPT !.todo = @ \ {s}] /\ task' = task
  <2>1. mem'.core = mem.core
    <3>1. mem' = [mem EXCEPT !.executed = mem.executed \union {s}] /\ mem \in Node
      BY <1>6 DEF StandingInv, States, Standing
    <3> QED BY <3>1, OtherFields
  <2>2. lock'.by = a /\ lock'.todo = T \ {s}
    <3>1. PICK l, k : l = lock /\ k = lock'
      OBVIOUS
    <3>2. l \in [by : Task \union {<< >>}, todo : SUBSET Slot] /\ k = [l EXCEPT !.todo = @ \ {s}]
      BY <1>6, <3>1 DEF ControlInv
    <3>3. k.by = l.by /\ k.todo = l.todo \ {s}
      BY ONLY SMTT(20), <3>2
    <3> QED BY <1>1, <1>2, <3>1, <3>3
  <2>3. CommittedThrough(mem'.core) = c
    BY <1>3, <2>1
  <2> QED BY <1>2, <1>4, <1>5, <2>2, <2>3 DEF InOrder
<1>7. CASE Err
  BY <1>7, ErrCounts DEF StandingInv, WorldOK
<1>8. CASE Restart(disk)
  <2>1. lock' = Unlocked /\ task'[Receiver] = [at |-> "boot", slot |-> 0]
    BY <1>8, TaskNames DEF Restart
  <2>2. lock'.by = << >> /\ lock'.todo = {} /\ task'[Receiver].at = "boot"
    <3>1. [at |-> "boot", slot |-> 0].at = "boot"
      OBVIOUS
    <3> QED BY ONLY <2>1, <3>1, IdleTask
  <2> QED BY <1>5, <2>2 DEF InOrder
<1> QED BY <1>1, <1>6, <1>7, <1>8 DEF Execute

\* The application imports what the package covers.
LEMMA InstallOrder ==
  ASSUME StandingInv, ControlInv, InOrder, NEW s \in Slot, InstallTransfer(s), faults'.errors = 0
  PROVE  InOrder'
<1>1. /\ lock = Unlocked /\ lock' = lock /\ app' = app \union 1 .. s /\ late' = late
      /\ Save(Packaged(s)) /\ faults \in Faults /\ RestorableNode(Packaged(s))
  BY DEF InstallTransfer, Free, StandingInv, WorldOK
<1>2. mem' = Packaged(s)
  BY <1>1, SaveMoves
<1>3. chosen' \in [Slot -> Seq(Values)]
  <2>1. \E k : Step(k)
    BY InstallTransferStep DEF StandingInv
  <2> QED BY <2>1 DEF Step, Grows
<1>4. mem'.core.next = s + 1
  BY <1>1, <1>2, <1>3, PackagedStands DEF LeavesInstalled
<1>5. s \in Nat /\ CommittedThrough(mem'.core) = s
  BY SMTT(20), <1>4, ReplicaConfigAssumption DEF Slot, CommittedThrough
<1>6. \A t \in 1 .. s : 1 .. t \subseteq 1 .. s
  BY SMT, <1>5
<1>7. \A t \in app' : 1 .. t \subseteq app'
  BY <1>1, <1>6 DEF InOrder
<1> QED BY <1>1, <1>5, <1>7, IdleTask DEF InOrder

\* Without failures every step executes the slots in their order.
LEMMA OrderNext ==
  ASSUME BaseInv, ExecutingInv, NoopFits, Next, faults.errors = 0, faults'.errors = 0
  PROVE  InOrder'
<1>1. StandingInv /\ ControlInv /\ InOrder /\ Executing(mem, app) /\ faults \in Faults
  BY DEF BaseInv, ExecutingInv, States, StandingInv, WorldOK
<1>2. ASSUME NEW i \in Request, Submit(i) \/ Loop(i) \/ ProposeFails(i) PROVE InOrder'
  <2>1. OpenToAll
    <3>1. CASE Submit(i)
      BY <3>1 DEF Submit, Open, OpenToAll
    <3>2. CASE Loop(i) \/ ProposeFails(i)
      <4>1. task[Submitter(i)].at \in {"loop", "call"} /\ Submitter(i) \in Task
        BY <3>2, TaskNames DEF Loop, ProposeFails
      <4> QED BY <1>1, <4>1, BusyOpen
    <3> QED BY <1>2, <3>1, <3>2
  <2>2. mem'.core.next = mem.core.next /\ app' = app /\ lock' = lock
    <3>1. CASE ProposeFails(i)
      BY <3>1 DEF ProposeFails
    <3> QED BY <1>1, <1>2, <3>1, SubmissionNext
  <2> QED BY <1>1, <2>1, <2>2, InOrderSame DEF OpenToAll
<1>3. ASSUME NEW a \in Task, StandDown(a) PROVE InOrder'
  <2>1. mem' = mem /\ app' = app /\ lock' = lock /\ task[a].at = "call"
    BY <1>3 DEF StandDown
  <2>2. OpenToAll
    BY <1>1, <2>1, BusyOpen
  <2> QED BY <1>1, <2>1, <2>2, InOrderSame DEF OpenToAll
<1>4. ASSUME NEW a \in Task, Decide(a) PROVE InOrder'
  <2>1. task[a].at = "call" /\ task[a].slot \in Slot /\ Accept(a, task[a].slot)
    BY <1>1, <1>4 DEF Decide, ControlInv
  <2>2. OpenToAll
    BY <1>1, <2>1, BusyOpen
  <2> QED BY <1>1, <2>1, <2>2, AcceptOrder
<1>5. ASSUME NEW a \in Task, Accepted(a) PROVE InOrder'
  <2>1. /\ lock.by = a /\ lock.todo = {} /\ lock' = Unlocked /\ mem' = mem /\ app' = app
        /\ a # << >>
    BY <1>5, TaskNames DEF Accepted
  <2>2. 1 .. CommittedThrough(mem.core) \subseteq app
    BY <1>1, <2>1 DEF InOrder
  <2> QED BY <1>1, <2>1, <2>2, IdleTask DEF InOrder
<1>6. ASSUME NEW s \in Slot, Receive(s) \/ ReceiveOwn(s) PROVE InOrder'
  <2>1. Accept(Receiver, s) /\ OpenToAll
    BY <1>6 DEF Receive, ReceiveOwn, Open, OpenToAll
  <2> QED BY <1>1, <2>1, AcceptOrder, TaskNames
<1>7. CASE Drive
  <2>1. /\ lock = [by |-> Receiver, todo |-> {}] /\ lock' = Unlocked /\ mem' = mem /\ app' = app
    BY <1>7 DEF Drive
  <2>2. lock.by = Receiver /\ lock.todo = {} /\ Receiver # << >>
    BY <2>1, TaskNames
  <2>3. 1 .. CommittedThrough(mem.core) \subseteq app
    BY <1>1, <2>2 DEF InOrder
  <2> QED BY <1>1, <2>1, <2>3, IdleTask DEF InOrder
<1>8. ASSUME NEW a, ExecuteFails(a) \/ InstallFails PROVE InOrder'
  <2>1. Err
    BY <1>8 DEF ExecuteFails, InstallFails
  <2> QED BY <1>1, <2>1, ErrCounts
<1>9. ASSUME NEW d \in Drivers, RecoverFails(d) PROVE InOrder'
  <2>1. Err
    BY <1>9 DEF RecoverFails
  <2> QED BY <1>1, <2>1, ErrCounts
<1>10. ASSUME \/ \E s \in Slot : BeginTransfer(s)
              \/ LateSave \/ Export \/ TransferFails \/ BeginInstall \/ OwnTimesOut
       PROVE  InOrder'
  <2>1. mem' = mem /\ app' = app /\ lock' = lock /\ task' = task
    BY <1>10 DEF BeginTransfer, LateSave, Export, TransferFails, BeginInstall, OwnTimesOut
  <2> QED BY <1>1, <2>1, InOrderSame
<1>11. CASE Prune
  <2>1. late' = late /\ app' = app /\ lock' = lock /\ task' = task /\ transfer.slot \in Slot
    BY <1>1, <1>11 DEF Prune, ControlInv
  <2>2. mem'.core.next = mem.core.next
    <3>1. CASE mem' = mem
      BY <3>1
    <3>2. CASE CanTransfer(mem, transfer.slot) /\ Save(Pruned(mem, transfer.slot))
      <4>1. LeavesPruned(mem, transfer.slot, Pruned(mem, transfer.slot),
                         PruneThrough(mem.core, transfer.slot))
        BY <1>1, <2>1, <3>2, PrunesStand DEF StandingInv, States
      <4>2. mem' = Pruned(mem, transfer.slot) \/ mem' = mem
        BY <1>1, <2>1, <3>2, SaveMoves
      <4> QED BY <4>1, <4>2 DEF LeavesPruned
    <3> QED BY <1>11, <3>1, <3>2 DEF Prune
  <2> QED BY <1>1, <2>1, <2>2, InOrderSame
<1>12. CASE AnnounceAll
  <2>1. mem' = mem /\ app' = app /\ lock' = lock /\ install = "gate"
    BY <1>12 DEF AnnounceAll
  <2>2. task[Receiver].at # "boot"
    BY <1>1, <2>1 DEF ControlInv
  <2> QED BY <1>1, <2>1, <2>2, InOrderSame
<1>13. CASE InstallMembership
  <2>1. /\ late' = late /\ app' = app /\ lock' = lock /\ task' = task
        /\ Save([mem EXCEPT !.epoch = @ + 1])
    BY <1>13 DEF InstallMembership
  <2>2. PICK m : m = [mem EXCEPT !.epoch = @ + 1]
    OBVIOUS
  <2>3. m.core = mem.core
    BY <1>1, <2>2, OtherParts DEF StandingInv, States, Standing
  <2>4. mem' = m \/ mem' = mem
    BY <1>1, <2>1, <2>2, SaveMoves
  <2>5. mem'.core.next = mem.core.next
    BY <2>3, <2>4
  <2> QED BY <1>1, <2>1, <2>5, InOrderSame
<1>14. CASE Crash
  <2>1. lock' = Unlocked /\ task'[Receiver] = [at |-> "boot", slot |-> 0] /\ app' = app
    BY <1>14, TaskNames DEF Crash, Restart
  <2>2. lock'.by = << >> /\ lock'.todo = {} /\ task'[Receiver].at = "boot"
    <3>1. [at |-> "boot", slot |-> 0].at = "boot"
      OBVIOUS
    <3> QED BY ONLY <2>1, <3>1, IdleTask
  <2> QED BY <1>1, <2>1, <2>2 DEF InOrder
<1> QED BY <1>1, <1>2, <1>3, <1>4, <1>5, <1>6, <1>7, <1>8, <1>9, <1>10, <1>11, <1>12, <1>13, <1>14,
           ExecuteOrder, RecoverOrder, InstallOrder DEF Next

\* Every step keeps the execution invariant,
LEMMA ExecutingNext ==
  ASSUME CarefulTransfer, NoopFits, BaseInv, ExecutingInv, [Next]_vars
  PROVE  ExecutingInv'
<1>1. StandingInv /\ ControlInv
  BY DEF BaseInv
<1>2. PICK m : Step(m)
  BY <1>1, StepShape
<1>3. app \subseteq app' /\ Counts
  BY <1>2 DEF Step, Grows
<1>4. \A n \in States' : Executing(n, app')
  <2>1. \A n \in States : Executing(n, app')
    BY <1>3 DEF ExecutingInv, Executing
  <2>2. Executing(m, app')
    BY <1>1, <1>2, ExecutingStep DEF ExecutingInv, StandingInv, States
  <2>3. \A n \in States' : n \in States \union {m}
    BY <1>2 DEF Step, Moves, States
  <2> QED BY <2>1, <2>2, <2>3
<1>5. transfer'.at = "prune" => 1 .. transfer'.slot \subseteq app'
  BY <1>1, <1>3, TransferStep DEF ExecutingInv
<1>6. ASSUME faults'.errors = 0 PROVE InOrder'
  <2>1. faults.errors = 0
    <3>1. faults.errors \in Nat /\ faults'.errors >= faults.errors
      BY <1>1, <1>3, FaultParts DEF Counts, StandingInv, WorldOK
    <3> QED BY SMTT(20), <1>6, <3>1
  <2>2. CASE UNCHANGED vars
    BY <2>1, <2>2, InOrderSame DEF ExecutingInv, vars
  <2> QED BY <1>6, <2>1, <2>2, OrderNext
<1> QED BY <1>4, <1>5, <1>6 DEF ExecutingInv

\* which holds at first.
LEMMA ExecutingInit == Init => ExecutingInv
<1> SUFFICES ASSUME Init PROVE ExecutingInv
  OBVIOUS
<1>1. mem = NewNode /\ States = {NewNode} /\ app = {} /\ lock = Unlocked /\ transfer.at # "prune"
  BY IdleTask DEF Init, States
<1>2. NewNode.executed = {} /\ NewNode.core.floor = 0 /\ NewNode.core.next = 1
  BY SMT DEF NewNode, NewReplica
<1>3. \A s \in Slot : ~(s <= 0)
  BY SMT, ReplicaConfigAssumption DEF Slot
<1>4. 1 .. CommittedThrough(mem.core) = {}
  BY SMT, <1>1, <1>2 DEF CommittedThrough
<1> QED BY <1>1, <1>2, <1>3, <1>4, IdleTask DEF ExecutingInv, Executing, InOrder

\* While nothing has failed, the application executes the log in order and
\* without gaps: it exports only what it has executed (CarefulTransfer), and the
\* limits leave room for the no-op (NoopFits).
THEOREM NodeExecutesInOrder ==
  ASSUME CarefulTransfer, NoopFits
  PROVE  Spec => []ExecutedInOrder
<1>1. Init => ExecutingInv
  BY ExecutingInit
<1>2. BaseInv /\ ExecutingInv /\ [Next]_vars => ExecutingInv'
  BY ExecutingNext
<1>3. ExecutingInv => ExecutedInOrder
  BY DEF ExecutingInv, InOrder, ExecutedInOrder
<1> QED BY <1>1, <1>2, <1>3, Base, PTL DEF Spec

------------------------------------------------------------------------------
(* Waking *)

\* A submission that sleeps although the node knows its decision.
Oversleeps(i) == task[Submitter(i)].at = "wait" /\ DecisionsFor(i) # {}

\* The task that executes under the mutex will notify it.
WillWake == lock.by # << >> /\ task[lock.by].at = "executing"

WakeInv == faults.errors = 0 => \A i \in Request : Oversleeps(i) => WillWake

\* A node that learns nothing finds no further decision for a request.
LEMMA NothingLearned ==
  ASSUME StandingInv, StandingInv', Grows, mem'.known \subseteq mem.known, NEW i
  PROVE  DecisionsFor(i)' \subseteq DecisionsFor(i)
<1>1. Standing(mem, chosen) /\ Standing(mem', chosen')
  BY DEF StandingInv, States
<1>2. ASSUME NEW s \in mem'.known PROVE mem'.core.log[s].decision = mem.core.log[s].decision
  <2>1. /\ s \in Decided(mem.core) /\ mem.core.log[s].decision = chosen[s]
        /\ s \in Decided(mem'.core) /\ mem'.core.log[s].decision = chosen'[s]
    BY <1>1 DEF Standing
  <2>2. s \in Slot /\ chosen[s] # << >>
    BY <2>1 DEF Decided
  <2> QED BY <2>1, <2>2 DEF Grows
<1> QED BY <1>2 DEF DecisionsFor

\* The tasks of an error do not fall asleep.
LEMMA FailedAwake ==
  ASSUME ControlInv, NEW a \in Task, task' = Failed(a), NEW i \in Request,
         task'[Submitter(i)].at = "wait"
  PROVE  task[Submitter(i)].at = "wait"
<1>1. Submitter(i) \in Task /\ Ending(a, Submitter(i), task'[Submitter(i)])
  BY FailedFacts, TaskNames
<1> QED BY <1>1 DEF Ending

\* A task that goes elsewhere does not fall asleep.
LEMMA GotoAwake ==
  ASSUME ControlInv, NEW a \in Task, NEW at, at # "wait", Goto(a, at), NEW i \in Request,
         task'[Submitter(i)].at = "wait"
  PROVE  task[Submitter(i)].at = "wait"
<1>1. [at |-> at, slot |-> 0].at = at
  BY SMT
<1>2. task'[Submitter(i)] = task[Submitter(i)] \/ task'[Submitter(i)] = [at |-> at, slot |-> 0]
  BY TaskNames DEF ControlInv, Goto
<1> QED BY <1>1, <1>2

\* After a restart nobody sleeps.
LEMMA RestartAwake ==
  ASSUME Restart(disk), NEW i \in Request
  PROVE  task'[Submitter(i)].at # "wait"
<1>1. Submitter(i) \in Task /\ Submitter(i) # Receiver
  BY TaskNames
<1>2. task'[Submitter(i)] = IF task[Submitter(i)].at = "answered" THEN task[Submitter(i)] ELSE Idle
  BY <1>1 DEF Restart
<1> QED BY <1>2, IdleTask

\* accept_decision holds the mutex until it has notified everyone.
LEMMA AcceptWakes ==
  ASSUME BaseInv, BaseInv', Grows, NoopFits, NEW a \in Task, NEW s \in Slot, Accept(a, s),
         faults'.errors = 0, \A i \in Request : Oversleeps(i) => WillWake
  PROVE  \A i \in Request : Oversleeps(i)' => WillWake'
<1>1. AcceptTakes(a, s) \/ AcceptStops(a, s)
  BY AcceptShape DEF BaseInv
<1>2. CASE AcceptTakes(a, s)
  <2>1. PICK T : lock' = [by |-> a, todo |-> T]
    BY <1>2 DEF AcceptTakes
  <2>2. lock'.by = a /\ a # << >>
    BY <2>1, TaskNames
  <2>3. task'[a].at = "executing"
    <3>1. task'[a] = [at |-> "executing", slot |-> 0]
      BY <1>2 DEF AcceptTakes, Goto, BaseInv, ControlInv
    <3>2. [at |-> "executing", slot |-> 0].at = "executing"
      OBVIOUS
    <3> QED BY ONLY <3>1, <3>2
  <2> QED BY <2>2, <2>3 DEF WillWake
<1>3. CASE AcceptStops(a, s)
  <2>1. mem' = mem /\ task' = Failed(a)
    BY <1>3 DEF AcceptStops
  <2>2. ~WillWake
    BY AcceptShape, IdleTask DEF BaseInv, WillWake
  <2>3. \A i \in Request : Oversleeps(i)' => Oversleeps(i)
    BY <2>1, FailedAwake, NothingLearned DEF BaseInv, Oversleeps
  <2> QED BY <2>2, <2>3
<1> QED BY <1>1, <1>2, <1>3

\* A submission sleeps only when it has looked for its decision under the mutex.
LEMMA SubmissionAwake ==
  ASSUME BaseInv, BaseInv', Grows, NEW j \in Request, Submit(j) \/ Loop(j), NEW i \in Request,
         Oversleeps(i)'
  PROVE  Oversleeps(i)
<1>1. PICK me, you : me = Submitter(j) /\ you = Submitter(i)
  OBVIOUS
<1>2. /\ me \in Task /\ you \in Task /\ (me = you => i = j)
      /\ task'[you].at = "wait" /\ DecisionsFor(i)' # {}
  <2>1. <<"submit", j>> = <<"submit", i>> => i = j
    BY SMT
  <2> QED BY <1>1, <2>1, TaskNames DEF Submitter, Oversleeps
<1>3. DecisionsFor(i) # {}
  <2>1. mem'.known = mem.known
    BY SubmissionNext DEF BaseInv
  <2> QED BY <1>2, <2>1, NothingLearned DEF BaseInv
<1>4. ASSUME NEW r, r.at # "wait", task' = [task EXCEPT ![me] = r] PROVE task[you].at = "wait"
  BY <1>2, <1>4 DEF BaseInv, ControlInv
<1>5. CASE task' = task
  BY <1>1, <1>2, <1>3, <1>5 DEF Oversleeps
<1>6. ASSUME NEW at, at # "wait", Goto(me, at) PROVE task[you].at = "wait"
  BY <1>1, <1>2, <1>6, GotoAwake DEF BaseInv
<1>7. CASE task' = Failed(me)
  <2>1. task[you].at = "wait"
    BY <1>1, <1>2, <1>7, FailedAwake DEF BaseInv
  <2> QED BY <1>1, <1>3, <2>1 DEF Oversleeps
<1>8. ASSUME NEW s, Call(me, s) \/ task' = [task EXCEPT ![me] = [at |-> "answered", slot |-> s]]
      PROVE  task[you].at = "wait"
  <2>1. [at |-> "call", slot |-> s].at # "wait" /\ [at |-> "answered", slot |-> s].at # "wait"
    BY SMT
  <2> QED BY <1>4, <1>8, <2>1 DEF Call
<1>9. ASSUME Goto(me, "wait"), DecisionsFor(j) = {} PROVE task[you].at = "wait"
  <2>1. me # you
    BY <1>2, <1>3, <1>9
  <2> QED BY <1>2, <1>9, <2>1 DEF Goto, BaseInv, ControlInv
<1>10. CASE Submit(j)
  BY <1>1, <1>3, <1>5, <1>6, <1>10 DEF Submit, Oversleeps
<1>11. CASE Loop(j)
  BY <1>1, <1>3, <1>7, <1>8, <1>9, <1>11 DEF Loop, Oversleeps
<1> QED BY <1>10, <1>11

\* A submission that would oversleep is one that the holder of the mutex wakes.
LEMMA WakeStep ==
  ASSUME BaseInv, BaseInv', Grows, NoopFits, Next, faults'.errors = 0,
         \A i \in Request : Oversleeps(i) => WillWake
  PROVE  \A i \in Request : Oversleeps(i)' => WillWake'
<1>1. StandingInv /\ ControlInv /\ StandingInv' /\ ControlInv' /\ faults \in Faults
  BY DEF BaseInv, StandingInv, WorldOK
<1>2. lock = Unlocked => ~WillWake
  BY IdleTask DEF WillWake
<1>3. ASSUME NEW i \in Request, task'[Submitter(i)].at = "wait" => task[Submitter(i)].at = "wait",
             mem'.known \subseteq mem.known
      PROVE  Oversleeps(i)' => Oversleeps(i)
  BY <1>1, <1>3, NothingLearned DEF Oversleeps
<1>4. ASSUME mem'.known \subseteq mem.known, task' = task, lock' = lock
      PROVE  \A i \in Request : Oversleeps(i)' => WillWake'
  <2>1. \A i \in Request : Oversleeps(i)' => Oversleeps(i)
    BY <1>3, <1>4
  <2> QED BY <1>4, <2>1 DEF WillWake
<1>5. ASSUME NEW j \in Request, Submit(j) \/ Loop(j)
      PROVE  \A i \in Request : Oversleeps(i)' => WillWake'
  <2>1. lock = Unlocked
    BY <1>5 DEF Submit, Loop, Free
  <2> QED BY <1>2, <1>5, <2>1, SubmissionAwake
<1>6. ASSUME NEW j \in Request, ProposeFails(j)
      PROVE  \A i \in Request : Oversleeps(i)' => WillWake'
  <2>1. /\ task' = Failed(Submitter(j)) /\ lock' = lock /\ mem' = mem
        /\ Submitter(j) \in Task /\ Submitter(j) \notin Drivers /\ task[Submitter(j)].at = "call"
    BY <1>6, TaskNames DEF ProposeFails
  <2>2. \A i \in Request : Oversleeps(i)' => Oversleeps(i)
    BY <1>1, <1>3, <2>1, FailedAwake
  <2>3. ASSUME WillWake PROVE WillWake'
    <3>1. lock.by \in Task /\ lock.by # Submitter(j)
      BY <1>1, <2>1, <2>3 DEF WillWake, ControlInv
    <3>2. task'[lock.by] = task[lock.by]
      BY <1>1, <2>1, <3>1, FailedFacts DEF Ending
    <3> QED BY <2>1, <2>3, <3>2 DEF WillWake
  <2> QED BY <2>2, <2>3
<1>7. ASSUME NEW a \in Task, StandDown(a)
      PROVE  \A i \in Request : Oversleeps(i)' => WillWake'
  <2>1. lock = Unlocked /\ mem' = mem /\ Goto(a, After(a)) /\ After(a) # "wait"
    BY <1>7 DEF StandDown, Free, After
  <2> QED BY <1>1, <1>2, <1>3, <2>1, GotoAwake
<1>8. ASSUME NEW a \in Task, Decide(a)
      PROVE  \A i \in Request : Oversleeps(i)' => WillWake'
  <2>1. task[a].slot \in Slot /\ Accept(a, task[a].slot)
    BY <1>1, <1>8 DEF Decide, ControlInv
  <2> QED BY <2>1, AcceptWakes
<1>9. ASSUME NEW s \in Slot, Receive(s) \/ ReceiveOwn(s)
      PROVE  \A i \in Request : Oversleeps(i)' => WillWake'
  BY <1>9, AcceptWakes, TaskNames DEF Receive, ReceiveOwn
<1>10. ASSUME NEW a \in Task, Execute(a)
       PROVE  \A i \in Request : Oversleeps(i)' => WillWake'
  <2>1. CASE Restart(disk)
    BY <2>1, RestartAwake DEF Oversleeps
  <2>2. CASE Err
    BY <1>1, <2>2, ErrCounts
  <2>3. ASSUME NEW s, mem' = [mem EXCEPT !.executed = @ \union {s}],
               lock' = [lock EXCEPT !.todo = @ \ {s}], task' = task
        PROVE  \A i \in Request : Oversleeps(i)' => WillWake'
    <3>1. mem'.known = mem.known
      <4>1. mem' = [mem EXCEPT !.executed = mem.executed \union {s}] /\ mem \in Node
        BY <1>1, <2>3 DEF StandingInv, States, Standing
      <4> QED BY <4>1, OtherFields
    <3>2. lock'.by = lock.by
      <4>1. PICK l, k : l = lock /\ k = lock'
        OBVIOUS
      <4>2. l \in [by : Task \union {<< >>}, todo : SUBSET Slot] /\ k = [l EXCEPT !.todo = @ \ {s}]
        BY <1>1, <2>3, <4>1 DEF ControlInv
      <4>3. k.by = l.by
        BY ONLY SMTT(20), <4>2
      <4> QED BY <4>1, <4>3
    <3>3. \A i \in Request : Oversleeps(i)' => Oversleeps(i)
      BY <1>3, <2>3, <3>1
    <3>4. WillWake => WillWake'
      BY <2>3, <3>2 DEF WillWake
    <3> QED BY <3>3, <3>4
  <2> QED BY <1>10, <2>1, <2>2, <2>3 DEF Execute
<1>11. ASSUME NEW a \in Task, Accepted(a)
       PROVE  \A i \in Request : Oversleeps(i)' => WillWake'
  <2>1. PICK at, x, y : /\ at = (IF a = Receiver THEN "recover" ELSE After(a))
                        /\ x = [at |-> at, slot |-> 0] /\ y = [at |-> "loop", slot |-> 0]
    OBVIOUS
  <2>2. x.at # "wait" /\ y.at # "wait"
    <3>1. x.at = at /\ y.at = "loop"
      BY SMTT(20), <2>1
    <3> QED BY <2>1, <3>1 DEF After
  <2>3. task' = [b \in Task |-> CASE b = a -> x
                                  [] task[b].at = "wait" -> y
                                  [] OTHER -> task[b]]
    BY <1>11, <2>1 DEF Accepted
  <2>4. \A b \in Task : task'[b] = x \/ task'[b] = y \/ (task'[b] = task[b] /\ task[b].at # "wait")
    BY SMTT(20), <2>3
  <2> QED BY <2>2, <2>4, TaskNames DEF Oversleeps
<1>12. CASE Recover
  <2>1. /\ RecoverTakes \/ RecoverStops
        /\ lock = Unlocked
    BY <1>1, <1>12, RecoverShape
  <2>2. CASE RecoverTakes
    <3>1. mem'.known = mem.known
      BY <2>2 DEF RecoverTakes, Arming
    <3>2. PICK at : at \in {"booting", "resuming"} /\ Goto(Receiver, at)
      BY <2>2 DEF RecoverTakes
    <3>3. at # "wait"
      BY <3>2
    <3>4. \A i \in Request : Oversleeps(i)' => Oversleeps(i)
      BY <1>1, <1>3, <3>1, <3>2, <3>3, GotoAwake, TaskNames
    <3> QED BY <1>2, <2>1, <3>4
  <2>3. CASE RecoverStops
    <3>1. mem' = mem /\ task' = Failed(Receiver)
      BY <2>3 DEF RecoverStops
    <3>2. \A i \in Request : Oversleeps(i)' => Oversleeps(i)
      BY <1>1, <1>3, <3>1, FailedAwake, TaskNames
    <3> QED BY <1>2, <2>1, <3>2
  <2> QED BY <2>1, <2>2, <2>3
<1>13. CASE Drive
  <2>1. /\ mem' = mem /\ lock = [by |-> Receiver, todo |-> {}]
        /\ task[Receiver].at \in {"booting", "resuming"}
    BY <1>13 DEF Drive
  <2>2. lock.by = Receiver /\ ~WillWake
    BY <2>1 DEF WillWake
  <2>3. ASSUME NEW i \in Request, task'[Submitter(i)].at = "wait" PROVE task[Submitter(i)].at = "wait"
    <3>1. /\ Submitter(i) \in Task /\ Submitter(i) # Receiver
          /\ ~ \E s \in Undecided(mem.core) : Submitter(i) = Driver(s) /\ task[Submitter(i)] = Idle
      BY ZenonT(40), TaskNames DEF Undecided
    <3>2. task'[Submitter(i)] = task[Submitter(i)]
      BY <1>13, <3>1 DEF Drive
    <3> QED BY <2>3, <3>2
  <2> QED BY <1>3, <2>1, <2>2, <2>3
<1>14. ASSUME Err PROVE \A i \in Request : Oversleeps(i)' => WillWake'
  BY <1>1, <1>14, ErrCounts
<1>15. ASSUME \/ \E s \in Slot : BeginTransfer(s)
              \/ LateSave \/ Export \/ TransferFails \/ BeginInstall \/ OwnTimesOut
       PROVE  \A i \in Request : Oversleeps(i)' => WillWake'
  <2>1. mem' = mem /\ lock' = lock /\ task' = task
    BY <1>15 DEF BeginTransfer, LateSave, Export, TransferFails, BeginInstall, OwnTimesOut
  <2> QED BY <1>4, <2>1
<1>16. CASE Prune
  <2>1. lock' = lock /\ task' = task /\ transfer.slot \in Slot /\ late' = late
    BY <1>1, <1>16 DEF Prune, ControlInv
  <2>2. CASE mem' = mem
    BY <1>4, <2>1, <2>2
  <2>3. CASE CanTransfer(mem, transfer.slot) /\ Save(Pruned(mem, transfer.slot))
    <3>1. LeavesPruned(mem, transfer.slot, Pruned(mem, transfer.slot),
                       PruneThrough(mem.core, transfer.slot))
      BY <1>1, <2>1, <2>3, PrunesStand DEF StandingInv, States
    <3>2. mem' = Pruned(mem, transfer.slot) \/ mem' = mem
      BY <1>1, <2>1, <2>3, SaveMoves
    <3>3. mem'.known \subseteq mem.known
      BY <3>1, <3>2 DEF LeavesPruned
    <3> QED BY <1>4, <2>1, <3>3
  <2> QED BY <1>16, <2>2, <2>3 DEF Prune
<1>17. CASE AnnounceAll
  <2>1. lock = Unlocked /\ mem' = mem /\ (task' = task \/ Goto(Receiver, "gate"))
    BY <1>17 DEF AnnounceAll, Free
  <2> QED BY <1>1, <1>2, <1>3, <2>1, GotoAwake, TaskNames
<1>18. CASE InstallMembership
  <2>1. lock' = lock /\ task' = task /\ late' = late /\ Save([mem EXCEPT !.epoch = @ + 1])
    BY <1>18 DEF InstallMembership
  <2>2. [mem EXCEPT !.epoch = @ + 1].known = mem.known
    BY <1>1, OtherParts DEF StandingInv, States, Standing
  <2>3. mem'.known = mem.known
    BY <1>1, <2>1, <2>2, SaveKnown
  <2> QED BY <1>4, <2>1, <2>3
<1>19. ASSUME NEW s \in Slot, InstallTransfer(s)
       PROVE  \A i \in Request : Oversleeps(i)' => WillWake'
  <2>1. task' = task /\ \A a \in Task : task[a] = Idle
    BY <1>19 DEF InstallTransfer
  <2> QED BY <2>1, IdleTask, TaskNames DEF Oversleeps
<1>20. CASE Crash
  BY <1>20, RestartAwake DEF Crash, Oversleeps
<1> QED BY <1>5, <1>6, <1>7, <1>8, <1>9, <1>10, <1>11, <1>12, <1>13, <1>14, <1>15, <1>16, <1>17,
           <1>18, <1>19, <1>20 DEF Next, ExecuteFails, InstallFails, RecoverFails

\* While nothing has failed, no submission sleeps through its decision, unless
\* the limits leave no room for the no-op: then accept_decision stops before it
\* notifies anyone.
THEOREM NodeWakesSubmissions ==
  ASSUME NoopFits
  PROVE  Spec => []NoLostWakeup
<1>1. Init => WakeInv
  <2>1. Init => \A i \in Request : task[Submitter(i)] = Idle
    BY TaskNames DEF Init
  <2> QED BY <2>1, IdleTask DEF WakeInv, Oversleeps
<1>2. BaseInv /\ BaseInv' /\ WakeInv /\ [Next]_vars => WakeInv'
  <2> SUFFICES ASSUME BaseInv, BaseInv', WakeInv, [Next]_vars, faults'.errors = 0
               PROVE  \A i \in Request : Oversleeps(i)' => WillWake'
    BY DEF WakeInv
  <2>1. PICK m : Step(m)
    BY StepShape DEF BaseInv
  <2>2. Grows /\ faults.errors = 0
    <3>1. Grows
      BY <2>1 DEF Step
    <3>2. faults.errors \in Nat /\ faults'.errors >= faults.errors
      BY <3>1, FaultParts DEF Grows, Counts, BaseInv, StandingInv, WorldOK
    <3> QED BY SMTT(20), <3>1, <3>2
  <2>3. CASE UNCHANGED vars
    BY <2>2, <2>3 DEF vars, WakeInv, Oversleeps, WillWake, DecisionsFor
  <2> QED BY <2>2, <2>3, WakeStep DEF WakeInv
<1>3. WakeInv => NoLostWakeup
  <2>1. Free => ~WillWake
    BY IdleTask DEF Free, WillWake
  <2> QED BY <2>1 DEF WakeInv, NoLostWakeup, Oversleeps
<1> QED BY <1>1, <1>2, <1>3, Base, PTL DEF Spec

------------------------------------------------------------------------------
(* Membership epochs *)

\* The log ends at an anchor and no proposal is in flight.
Rested == Anchors(mem) # {} /\ \A b \in Task : task[b].at # "call"

\* What a node does while install_membership announces its log: nothing.
Announcing ==
  /\ Rested /\ lock = Unlocked /\ transfer = Idle
  /\ \A b \in Task : Quiet(b) \/ task[b].at = "gate"

\* install_membership announces the log of a rested node; a file with a newer
\* epoch than memory, left by a save that failed, is that of a rested node.
EpochInv ==
  /\ \A m \in late : m.epoch <= mem.epoch
  /\ disk.epoch > mem.epoch => Rested
  /\ install = "announce" => Announcing

\* The epoch of what a step computes.
LEMMA EpochStep ==
  ASSUME Standing(mem, chosen), NEW m, Step(m)
  PROVE  /\ mem.epoch \in Nat /\ m.epoch \in Nat
         /\ m.epoch = mem.epoch \/ (m.epoch = mem.epoch + 1 /\ install = "announce")
<1>1. Standing(mem, chosen') /\ Grows /\ mem \in Node
  BY StandingGrows DEF Step, Standing
<1>2. mem.epoch \in Nat
  BY <1>1, NodeParts
<1>3. CASE Submits(m) \/ Proposes(m) \/ Drains(m)
  <2>1. SameNode(m, mem)
    BY <1>1, <1>3, SubmitsFacts, ProposesFacts
  <2> QED BY <1>2, <2>1 DEF SameNode
<1>4. CASE Stays(m)
  BY <1>2, <1>4 DEF Stays
<1>5. CASE Decides(m)
  <2>1. \E slot : Deciding(m, mem, slot)
    BY <1>1, <1>5, DecidesFacts DEF Decides
  <2> QED BY <1>2, <2>1 DEF Deciding
<1>6. CASE Arms(m)
  <2>1. Arming(m, mem)
    BY <1>6, ArmGapNoopFacts DEF Arms
  <2> QED BY <1>2, <2>1 DEF Arming
<1>7. CASE Executes(m)
  <2>1. PICK s \in mem.known : m = [mem EXCEPT !.executed = @ \union {s}]
    BY <1>7 DEF Executes
  <2>2. s \in Slot
    BY <1>1, NodeParts
  <2> QED BY <1>1, <1>2, <2>1, <2>2, OtherParts
<1>8. CASE Prunes(m)
  <2>1. PICK slot \in Slot : CanTransfer(mem, slot) /\ m = Pruned(mem, slot)
    BY <1>8 DEF Prunes
  <2>2. LeavesPruned(mem, slot, m, PruneThrough(mem.core, slot))
    BY <2>1, PrunesStand
  <2> QED BY <1>2, <2>2 DEF LeavesPruned
<1>9. CASE Installs(m)
  <2>1. PICK s \in Slot : m = Packaged(s) /\ RestorableNode(m)
    BY <1>9 DEF Installs
  <2>2. m.epoch = 0
    BY <1>1, <2>1, PackagedStands DEF Grows, LeavesInstalled
  <2>3. mem.epoch = 0
    BY <1>9 DEF Installs, NewNode
  <2> QED BY <1>2, <2>2, <2>3
<1>10. CASE Renumbers(m)
  <2>1. m.epoch = mem.epoch + 1 /\ m \in Node
    BY <1>1, <1>10, OtherParts DEF Renumbers
  <2> QED BY <1>2, <1>10, <2>1, NodeParts DEF Renumbers
<1> QED BY <1>3, <1>4, <1>5, <1>6, <1>7, <1>8, <1>9, <1>10 DEF Step

\* A rested node has no gap for a no-op.
LEMMA RestedArms ==
  ASSUME StandingInv, Anchors(mem) # {}
  PROVE  ArmGapNoop(mem) = {mem} /\ Undecided(mem.core) = {}
<1>1. PICK s \in Anchors(mem) : TRUE
  OBVIOUS
<1>2. /\ s = CommittedThrough(mem.core) /\ Undecided(mem.core) = {}
      /\ \A t \in Retained(mem.core) : t <= s
  BY <1>1 DEF Anchors
<1>3. mem.core \in CoreSet(Values) /\ mem.known \subseteq Decided(mem.core)
  BY NodeParts DEF StandingInv, States, Standing
<1>4. mem.known \subseteq Retained(mem.core) /\ mem.known \subseteq Slot
  <2>1. NoEntry.decision = << >>
    BY DEF NoEntry
  <2> QED BY <1>3, <2>1 DEF Retained, Decided
<1>5. ~ \E t \in mem.known : t > mem.core.next
  <2>1. mem.core.next \in Nat
    BY <1>3, CoreParts
  <2>2. \A t \in mem.known : t \in Slot /\ t <= mem.core.next - 1
    BY <1>2, <1>4 DEF CommittedThrough
  <2> QED BY SMTT(20), <2>1, <2>2, ReplicaConfigAssumption DEF Slot
<1> QED BY <1>2, <1>5 DEF ArmGapNoop

\* What the anchor depends on.
LEMMA SameAnchors ==
  ASSUME NEW m, NEW n, n.known = m.known, n.core.next = m.core.next, n.core.log = m.core.log
  PROVE  Anchors(n) = Anchors(m)
<1>1. Undecided(n.core) = Undecided(m.core) /\ Retained(n.core) = Retained(m.core)
  BY DEF Undecided, Retained
<1> QED BY <1>1 DEF Anchors, CommittedThrough

\* The tasks of an error call nobody.
LEMMA FailedQuiet ==
  ASSUME ControlInv, NEW a \in Task, task' = Failed(a), \A b \in Task : task[b].at # "call"
  PROVE  \A b \in Task : task'[b].at # "call"
BY FailedFacts DEF Ending

\* A task that moves elsewhere starts no call.
LEMMA GotoQuiet ==
  ASSUME ControlInv, NEW a \in Task, NEW at, at # "call", Goto(a, at),
         \A b \in Task : task[b].at # "call"
  PROVE  \A b \in Task : task'[b].at # "call"
<1>1. [at |-> at, slot |-> 0].at = at
  BY SMT
<1>2. \A b \in Task : task'[b] = task[b] \/ task'[b] = [at |-> at, slot |-> 0]
  BY DEF ControlInv, Goto
<1> QED BY <1>1, <1>2

\* A rested node stays so, or saves what it does.
LEMMA RestedLoop ==
  ASSUME StandingInv, ControlInv, NEW i \in Request, Submit(i) \/ Loop(i), Rested
  PROVE  Rested' \/ disk' = mem'
<1>1. /\ Standing(mem, chosen) /\ faults \in Faults /\ Submitter(i) \in Task
      /\ Undecided(mem.core) = {} /\ late' = late
  BY RestedArms, TaskNames DEF StandingInv, States, WorldOK, Rested, Submit, Loop
<1>2. ASSUME mem' = mem, task' = task PROVE Rested'
  BY <1>2 DEF Rested
<1>3. ASSUME NEW m, Save(m), IF Saved THEN TRUE ELSE task' = task \/ task' = Failed(Submitter(i))
      PROVE  Rested' \/ disk' = mem'
  <2>1. (mem' = m /\ disk' = m) \/ (mem' = mem /\ faults' # faults)
    BY <1>1, <1>3, SaveMoves
  <2>2. CASE mem' = mem /\ task' = Failed(Submitter(i))
    BY <1>1, <2>2, FailedQuiet DEF Rested
  <2> QED BY <1>2, <1>3, <2>1, <2>2 DEF Saved
<1>4. ASSUME NEW s, mem' = mem,
             task' = [task EXCEPT ![Submitter(i)] = [at |-> "answered", slot |-> s]]
      PROVE  Rested'
  <2>1. [at |-> "answered", slot |-> s].at # "call"
    BY SMTT(20)
  <2>2. \A b \in Task : task'[b] = task[b] \/ task'[b] = [at |-> "answered", slot |-> s]
    BY <1>4 DEF ControlInv
  <2>3. \A b \in Task : task'[b].at # "call"
    BY <2>1, <2>2 DEF Rested
  <2> QED BY <1>4, <2>3 DEF Rested
<1>5. ASSUME NEW at, at # "call", Goto(Submitter(i), at), mem' = mem
      PROVE  Rested'
  BY <1>1, <1>5, GotoQuiet DEF Rested
<1>6. ASSUME mem' = [mem EXCEPT !.core = Drained(@)], task' = Failed(Submitter(i)),
             CanPropose(mem.core)
      PROVE  Rested'
  <2>1. PICK b, c : b = mem.core /\ c = Drained(b)
    OBVIOUS
  <2>2. mem' = [mem EXCEPT !.core = c] /\ mem \in Node /\ b \in CoreSet(Values)
    BY <1>1, <1>6, <2>1, NodeParts DEF Standing
  <2>3. mem'.core = c /\ mem'.known = mem.known
    BY <2>2, OtherFields
  <2>4. c.log = b.log /\ c.next = b.next
    BY ONLY SMTT(20), <2>1, <2>2 DEF Drained, CoreSet
  <2>5. Anchors(mem') = Anchors(mem)
    BY <2>1, <2>3, <2>4, SameAnchors
  <2>6. \A a \in Task : task'[a].at # "call"
    BY <1>1, <1>6, FailedQuiet DEF Rested
  <2> QED BY <2>5, <2>6 DEF Rested
<1>7. ProposalsFor(i) = {}
  BY <1>1 DEF ProposalsFor
<1>8. CASE Submit(i)
  BY <1>2, <1>3, <1>8 DEF Submit
<1>9. CASE Loop(i)
  BY <1>3, <1>4, <1>5, <1>6, <1>7, <1>9 DEF Loop
<1> QED BY <1>8, <1>9

\* A node at rest stays at rest when a decision is accepted, or has saved it.
LEMMA RestedAccept ==
  ASSUME StandingInv, ControlInv, NoopFits, NEW a \in Task, NEW s \in Slot, Accept(a, s), Rested
  PROVE  Rested' \/ disk' = mem'
<1>1. AcceptTakes(a, s) \/ AcceptStops(a, s)
  BY AcceptShape
<1>2. CASE AcceptTakes(a, s) /\ disk' # mem'
  <2>1. mem' = mem /\ Goto(a, "executing")
    BY <1>2, RestedArms DEF AcceptTakes, Rested
  <2> QED BY <2>1, GotoQuiet DEF Rested
<1>3. CASE AcceptStops(a, s)
  <2>1. mem' = mem /\ task' = Failed(a)
    BY <1>3 DEF AcceptStops
  <2> QED BY <2>1, FailedQuiet DEF Rested
<1> QED BY <1>1, <1>2, <1>3

\* The same of every step.
LEMMA RestedStep ==
  ASSUME StandingInv, ControlInv, NoopFits, Next, Rested
  PROVE  Rested' \/ disk' = mem'
<1>1. faults \in Faults /\ mem \in Node /\ Undecided(mem.core) = {}
  BY RestedArms DEF StandingInv, WorldOK, States, Standing, Rested
<1>2. ASSUME mem' = mem, task' = task PROVE Rested'
  BY <1>2 DEF Rested
<1>3. ASSUME NEW i \in Request, ProposeFails(i) PROVE FALSE
  BY <1>3, TaskNames DEF ProposeFails, Rested
<1>4. ASSUME NEW a \in Task, StandDown(a) \/ Decide(a) PROVE FALSE
  BY <1>4 DEF StandDown, Decide, Rested
<1>5. ASSUME NEW d \in Drivers, RecoverFails(d) PROVE FALSE
  BY <1>5, TaskNames DEF RecoverFails, Rested
<1>6. ASSUME NEW a \in Task, Execute(a) PROVE Rested' \/ disk' = mem'
  <2>1. PICK s, m : s = Min(lock.todo) /\ m = [mem EXCEPT !.executed = @ \union {s}]
    OBVIOUS
  <2>2. Anchors(m) = Anchors(mem)
    <3>1. m = [mem EXCEPT !.executed = mem.executed \union {s}]
      BY <2>1
    <3>2. m.core = mem.core /\ m.known = mem.known
      BY ZenonT(40), <1>1, <3>1, OtherFields
    <3> QED BY <3>2, SameAnchors
  <2>3. CASE Restart(disk)
    BY <2>3 DEF Restart
  <2>4. CASE mem' = m /\ task' = Failed(a)
    BY <2>2, <2>4, FailedQuiet DEF Rested
  <2> QED BY <1>6, <2>1, <2>3, <2>4 DEF Execute
<1>7. ASSUME NEW a \in Task, ExecuteFails(a) PROVE Rested'
  BY <1>7, FailedQuiet DEF ExecuteFails, Rested
<1>8. ASSUME NEW a \in Task, Accepted(a) PROVE Rested'
  <2>1. PICK at, x, y : /\ at = (IF a = Receiver THEN "recover" ELSE After(a))
                        /\ x = [at |-> at, slot |-> 0] /\ y = [at |-> "loop", slot |-> 0]
    OBVIOUS
  <2>2. x.at # "call" /\ y.at # "call"
    <3>1. x.at = at /\ y.at = "loop"
      BY SMTT(20), <2>1
    <3> QED BY <2>1, <3>1 DEF After
  <2>3. task' = [b \in Task |-> CASE b = a -> x
                                  [] task[b].at = "wait" -> y
                                  [] OTHER -> task[b]]
    BY <1>8, <2>1 DEF Accepted
  <2>4. \A b \in Task : task'[b] = x \/ task'[b] = y \/ task'[b] = task[b]
    BY SMTT(20), <2>3
  <2>5. mem' = mem
    BY <1>8 DEF Accepted
  <2> QED BY <2>2, <2>4, <2>5 DEF Rested
<1>9. ASSUME NEW s \in Slot, Receive(s) \/ ReceiveOwn(s) PROVE Rested' \/ disk' = mem'
  BY <1>9, RestedAccept, TaskNames DEF Receive, ReceiveOwn
<1>10. CASE Recover
  <2>1. RecoverTakes \/ RecoverStops
    BY <1>10, RecoverShape
  <2>2. CASE RecoverTakes /\ mem' = mem
    <3>1. PICK at : at \in {"booting", "resuming"} /\ Goto(Receiver, at)
      BY <2>2 DEF RecoverTakes
    <3>2. at # "call"
      BY <3>1
    <3> QED BY <2>2, <3>1, <3>2, GotoQuiet, TaskNames DEF Rested
  <2>3. CASE RecoverStops
    BY <2>3, FailedQuiet, TaskNames DEF RecoverStops, Rested
  <2> QED BY <2>1, <2>2, <2>3 DEF RecoverTakes
<1>11. CASE Drive
  <2>1. /\ mem' = mem
        /\ task' = [a \in Task |->
                CASE a = Receiver -> Idle
                  [] \E s \in Undecided(mem.core) : a = Driver(s) /\ task[a] = Idle ->
                        [at |-> "call", slot |-> a[2]]
                  [] OTHER -> task[a]]
    BY <1>11 DEF Drive
  <2>2. ASSUME NEW a \in Task PROVE task'[a].at # "call"
    <3>1. ~ \E s \in Undecided(mem.core) : a = Driver(s) /\ task[a] = Idle
      BY <1>1
    <3>2. task'[a] = Idle \/ task'[a] = task[a]
      BY <2>1, <3>1
    <3> QED BY <3>2, IdleTask DEF Rested
  <2> QED BY <2>1, <2>2 DEF Rested
<1>12. ASSUME \/ \E s \in Slot : BeginTransfer(s)
              \/ LateSave \/ Export \/ TransferFails \/ BeginInstall \/ OwnTimesOut \/ InstallFails
       PROVE  Rested'
  <2>1. mem' = mem /\ task' = task
    BY <1>12 DEF BeginTransfer, LateSave, Export, TransferFails, BeginInstall, OwnTimesOut,
                 InstallFails
  <2> QED BY <1>2, <2>1
<1>13. ASSUME NEW m, Save(m), late' = late, task' = task PROVE Rested' \/ disk' = mem'
  BY <1>1, <1>2, <1>13, SaveMoves
<1>14. ASSUME Prune \/ InstallMembership \/ \E s \in Slot : InstallTransfer(s)
       PROVE  Rested' \/ disk' = mem'
  BY <1>2, <1>13, <1>14 DEF Prune, InstallMembership, InstallTransfer
<1>15. CASE AnnounceAll
  <2>1. mem' = mem /\ (task' = task \/ Goto(Receiver, "gate"))
    BY <1>15 DEF AnnounceAll
  <2> QED BY <1>2, <2>1, GotoQuiet, TaskNames DEF Rested
<1>16. CASE Crash
  BY <1>16 DEF Crash, Restart
<1> QED BY <1>3, <1>4, <1>5, <1>6, <1>7, <1>8, <1>9, <1>10, <1>11, <1>12, <1>14, <1>15, <1>16,
           RestedLoop DEF Next

\* While it announces the log the node does nothing else.
LEMMA AnnouncingStep ==
  ASSUME ControlInv, Next, Announcing, install = "announce", install' = "announce"
  PROVE  Announcing'
<1>1. /\ lock.by = << >> /\ lock.todo = {} /\ transfer.at = "off"
      /\ \A b \in Task : task[b].at \in {"off", "answered", "gate"}
  BY IdleTask DEF Announcing, Quiet
<1>2. ASSUME NEW i \in Request, Submit(i) \/ Loop(i) \/ ProposeFails(i) PROVE FALSE
  BY <1>1, <1>2, TaskNames DEF Submit, Open, Loop, ProposeFails
<1>3. ASSUME NEW a \in Task, StandDown(a) \/ Decide(a) \/ Execute(a) \/ ExecuteFails(a) \/ Accepted(a)
      PROVE  FALSE
  BY <1>1, <1>3 DEF StandDown, Decide, Execute, ExecuteFails, Accepted
<1>4. ASSUME NEW s \in Slot, Receive(s) \/ ReceiveOwn(s) \/ BeginTransfer(s) \/ InstallTransfer(s)
      PROVE  FALSE
  BY <1>4 DEF Receive, ReceiveOwn, BeginTransfer, InstallTransfer, Open
<1>5. ASSUME NEW d \in Drivers, RecoverFails(d) PROVE FALSE
  BY <1>1, <1>5, TaskNames DEF RecoverFails
<1>6. CASE Recover \/ Drive
  BY <1>1, <1>6, TaskNames DEF Recover, Drive
<1>7. CASE Export \/ TransferFails \/ Prune
  BY <1>1, <1>7 DEF Export, TransferFails, Prune
<1>8. CASE BeginInstall \/ AnnounceAll \/ OwnTimesOut \/ InstallMembership \/ InstallFails \/ Crash
  BY <1>8 DEF BeginInstall, Open, AnnounceAll, OwnTimesOut, InstallMembership, InstallFails,
              Crash, Restart
<1>9. CASE LateSave
  BY <1>9 DEF LateSave, calls, Announcing, Rested, Quiet
<1> QED BY <1>2, <1>3, <1>4, <1>5, <1>6, <1>7, <1>8, <1>9 DEF Next

\* An installation announces the log when the node rests.
LEMMA AnnouncingStarts ==
  ASSUME ControlInv, Next, install # "announce", install' = "announce"
  PROVE  Announcing'
<1>1. ASSUME NEW i \in Request, Submit(i) \/ Loop(i) \/ ProposeFails(i) PROVE install' = install
  BY <1>1 DEF Submit, Loop, ProposeFails, calls
<1>2. ASSUME NEW a \in Task, StandDown(a) \/ Decide(a) \/ Execute(a) \/ ExecuteFails(a) \/ Accepted(a)
      PROVE  install' = install
  <2>1. CASE Execute(a)
    BY <2>1 DEF Execute, Restart, calls
  <2> QED BY <1>2, <2>1 DEF StandDown, Decide, Accept, ExecuteFails, Accepted, calls
<1>3. ASSUME NEW s \in Slot, Receive(s) \/ ReceiveOwn(s) \/ BeginTransfer(s) \/ InstallTransfer(s)
      PROVE  install' = install
  BY <1>3 DEF Receive, ReceiveOwn, Accept, BeginTransfer, InstallTransfer, calls
<1>4. ASSUME NEW d \in Drivers, RecoverFails(d) PROVE install' = install
  BY <1>4 DEF RecoverFails, calls
<1>5. CASE Recover \/ Drive \/ LateSave \/ Export \/ TransferFails \/ Prune
  BY <1>5 DEF Recover, Drive, LateSave, Export, TransferFails, Prune, calls
<1>6. CASE BeginInstall \/ OwnTimesOut \/ InstallMembership \/ InstallFails \/ Crash
  BY <1>6 DEF BeginInstall, OwnTimesOut, InstallMembership, InstallFails, Crash, Restart
<1>7. CASE AnnounceAll
  <2>1. /\ mem' = mem /\ lock' = Unlocked /\ transfer' = Idle /\ Anchors(mem) # {}
        /\ task' = task \/ Goto(Receiver, "gate")
        /\ \A b \in Task : task[b].at \in {"off", "answered"}
    BY <1>7 DEF AnnounceAll, Free
  <2>2. [at |-> "gate", slot |-> 0].at = "gate"
    OBVIOUS
  <2>3. \A b \in Task : task'[b] = task[b] \/ task'[b] = [at |-> "gate", slot |-> 0]
    BY <2>1 DEF Goto, ControlInv
  <2>4. \A b \in Task : task'[b].at \in {"off", "answered", "gate"}
    BY <2>1, <2>2, <2>3
  <2> QED BY <2>1, <2>4 DEF Announcing, Rested, Quiet
<1> QED BY <1>1, <1>2, <1>3, <1>4, <1>5, <1>6, <1>7 DEF Next

\* Every step keeps the epoch invariant, and renumbers only a node at rest.
LEMMA EpochNext ==
  ASSUME NoopFits, BaseInv, EpochInv, [Next]_vars
  PROVE  EpochInv' /\ (mem'.epoch > mem.epoch => Rested)
<1>1. StandingInv /\ ControlInv /\ Standing(mem, chosen) /\ \A n \in States : n.epoch \in Nat
  BY NodeParts DEF BaseInv, StandingInv, States, Standing
<1>2. PICK m : Step(m)
  BY <1>1, StepShape
<1>3. /\ mem.epoch \in Nat /\ m.epoch \in Nat /\ disk.epoch \in Nat
      /\ m.epoch = mem.epoch \/ (m.epoch = mem.epoch + 1 /\ Rested)
      /\ m.epoch >= mem.epoch
  <2>1. mem.epoch \in Nat /\ m.epoch \in Nat /\ disk.epoch \in Nat
        /\ (m.epoch = mem.epoch \/ (m.epoch = mem.epoch + 1 /\ Rested))
    BY <1>1, <1>2, EpochStep DEF EpochInv, Announcing, States
  <2> QED BY SMT, <2>1
<1>4. /\ late' \subseteq late \union {mem'}
      /\ \/ /\ mem' \in {mem, m}
            /\ disk' \in {disk, m} \/ disk' \in late
         \/ mem' = disk /\ disk' = disk /\ late' = {}
  BY <1>2 DEF Step, Moves
<1>5. CASE UNCHANGED vars
  <2>1. /\ mem' = mem /\ disk' = disk /\ late' = late /\ install' = install /\ task' = task
        /\ lock' = lock /\ transfer' = transfer
    BY <1>5 DEF vars, calls
  <2>2. ~(mem.epoch > mem.epoch)
    BY SMTT(20), <1>3
  <2> QED BY <2>1, <2>2 DEF EpochInv, Announcing, Rested, Quiet
<1>6. CASE Next
  <2>1. mem'.epoch > mem.epoch => Rested
    <3>1. CASE mem' = mem \/ (m.epoch = mem.epoch /\ mem' = m)
      <4>1. ~(mem.epoch > mem.epoch)
        BY SMT, <1>3
      <4> QED BY <3>1, <4>1
    <3>2. CASE mem' = disk
      BY <3>2 DEF EpochInv
    <3> QED BY <1>3, <1>4, <3>1, <3>2
  <2>2. ASSUME NEW n \in late' PROVE n.epoch <= mem'.epoch
    <3>1. n \in late \union {mem'} /\ mem' \in {mem, m}
      BY <1>4, <2>2
    <3>2. CASE n \in late
      <4>1. n.epoch <= mem.epoch /\ n.epoch \in Nat
        BY <1>1, <3>2 DEF EpochInv, States
      <4>2. n.epoch <= m.epoch
        BY SMTT(20), <1>3, <4>1
      <4> QED BY <3>1, <4>1, <4>2
    <3>3. CASE n = mem'
      <4>1. m.epoch <= m.epoch /\ mem.epoch <= mem.epoch
        BY SMT, <1>3
      <4> QED BY <3>1, <3>3, <4>1
    <3> QED BY <3>1, <3>2, <3>3
  <2>3. ASSUME disk'.epoch > mem'.epoch PROVE Rested'
    <3>1. disk' # mem'
      <4>1. \A k \in Nat : ~(k > k)
        BY SMT
      <4> QED BY <1>1, <1>3, <1>4, <2>3, <4>1 DEF States
    <3>2. CASE Rested
      BY <1>1, <1>6, <3>1, <3>2, RestedStep
    <3>3. CASE ~Rested
      <4>1. m.epoch = mem.epoch /\ ~(disk.epoch > mem.epoch) /\ mem'.epoch = mem.epoch
        BY <1>3, <1>4, <3>1, <3>3 DEF EpochInv
      <4>2. ~(disk'.epoch > mem.epoch)
        <5>1. CASE disk' \in {disk, m}
          <6>1. ~(mem.epoch > mem.epoch)
            BY SMT, <1>3
          <6> QED BY <4>1, <5>1, <6>1
        <5>2. CASE disk' \in late
          <6>1. disk'.epoch <= mem.epoch /\ disk'.epoch \in Nat
            BY <1>1, <5>2 DEF EpochInv, States
          <6> QED BY SMTT(20), <1>3, <6>1
        <5> QED BY <1>4, <3>1, <5>1, <5>2
      <4> QED BY <2>3, <4>1, <4>2
    <3> QED BY <3>2, <3>3
  <2>4. install' = "announce" => Announcing'
    BY <1>1, <1>6, AnnouncingStep, AnnouncingStarts DEF EpochInv
  <2> QED BY <2>1, <2>2, <2>3, <2>4 DEF EpochInv
<1> QED BY <1>5, <1>6

\* The configuration changes only while no proposal is in flight and the log
\* ends at the anchor: by install_membership, or by a restart from a file that
\* it left behind.
THEOREM NodeChangesWhenDrained ==
  ASSUME NoopFits
  PROVE  Spec => ChangesWhenDrained
<1>1. Init => EpochInv
  <2>1. 0 \in Nat /\ ~(0 > 0)
    BY SMT
  <2>2. NewNode.epoch = 0
    BY DEF NewNode
  <2> QED BY <2>1, <2>2 DEF Init, EpochInv
<1>2. BaseInv /\ EpochInv /\ [Next]_vars => EpochInv'
  BY EpochNext
<1>3. BaseInv /\ EpochInv /\ [Next]_vars
      => [mem'.epoch > mem.epoch => /\ Anchors(mem) # {}
                                    /\ \A a \in Task : task[a].at # "call"]_vars
  BY EpochNext DEF Rested
<1> QED BY <1>1, <1>2, <1>3, Base, PTL DEF Spec, ChangesWhenDrained
==============================================================================
