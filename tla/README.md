# QuePaxa in TLA+

TLA+ modules, TLC configurations and TLAPS proofs for the QuePaxa crate in `src/`. Paths
below are relative to the directory that holds `src/` and `tla/`.

## 1. The system

A cluster of replicas agrees on a log of slots. Every replica plays three roles.

| Part | Source | State | Operations | Talks to |
| --- | --- | --- | --- | --- |
| Cluster identity | `types.rs` | members, fault budget, epoch, joint part | `stable`, `begin_joint`, `finalize_joint`, `quorum_size`, `has_quorum`, `is_successor_of` | everything |
| Interval summary register | `isr.rs` | step, first, current and prior aggregate | `record` | recorder |
| Proposer | `proposer.rs`, `network/async_proposer.rs` | step, proposal, replies of one call | `propose`, `collect_quorum` | recorders |
| Recorder | `recorder.rs`, `crash.rs` | a register, a leader binding and a decision per slot, floor, configuration, file | `record`, `inform_decisions`, `prune_through`, `install_membership`, `restore`, save with roll-back | proposers, runtimes |
| Replica log | `replica.rs` | log, queue, commit frontier, floor, seen IDs | `enqueue`, `next_proposal`, `note_proposed`, `apply_decision`, `prune_through`, `restore` | runtime |
| Replica runtime | `runtime.rs` | the log, executed, notified and announced marks, file | `submit`, `poll`, `receive_decision`, `recover`, `checkpoint_through`, `create_state_transfer`, `install_membership` | proposer, recorders, application |
| Schedules | `runtime/schedule.rs`, `policy.rs` | schedules and statistics per epoch | `ensure_schedule`, `derive`, `note_committed`, `reconfigure`, `restore` | runtime |
| Network node | `network/node_runtime.rs`, `network/server.rs` | the same as the runtime, under a lock that is released at every await | `submit`, `receive_decisions`, `recover`, state transfer, membership | peers, clients |
| Deduplication | `network/dedupe.rs` | submission journal, executed value IDs | `submit`, `execute` | node, application |
| Batches | `network/batch.rs`, `store.rs` | payloads by value ID, in a batch store with a file and in the recorder's value store | publish, fetch, `ensure_available`, prune | recorder, node |
| Transport | `network/{transport,wire,codec,tls}.rs` | connections | framing, encryption | all |
| Harnesses | `network/{chaos,load,report,metrics}.rs` | counters | | |

What makes it hard: record requests that outlive the call that sent them; two proposers on
one slot whose quorums differ; a fast path that decides before others have seen the slot;
replicas that name different leaders; saves that fail half way and processes that stop
between two saves; decisions that arrive out of order; limits that are reached in the
middle of an operation; membership epochs that overlap at the edges; async tasks that
interleave at every await and may be dropped at one; services whose files are written apart
from each other. `PROJECT.json` lists each of these hazards at its line.

What correctness means: one decision per slot, proposed by somebody; quorums that intersect
within and across epochs; what was acknowledged survives a crash; the application executes
the log in order and without gaps; accepted values are not lost; replicas always have
a schedule to go by; known decisions are executed in the end; a retried request gets the same
answer and its values are applied once; the payload of a decided value stays within reach of
whoever has yet to execute it.

## 2. Modules

```
Consensus            the promise of a slot
   ^ implements
QuePaxa   <- ISR     proposers and recorders on one slot
ISRHistory <- ISR    one register against its call history
Membership <- ClusterIdentity      chains of epochs
DurableRecorder <- ISR, ClusterIdentity   one recorder, many slots, its file
ReplicaRuntime <- ReplicaCore      one replica, its application and file
EpochTuner           schedules at every replica
NetworkNode <- ReplicaCore         the tasks of one networked node
RequestJournal       the retries of client requests at one node
NodeServices <- RequestJournal     payloads, applications and journals of all members
```

`MC*` modules and the `.cfg` files instantiate them. `Filter` is the loop that passes over
known values in `replica.rs` and `dedupe.rs`. `*_proofs` hold the proofs, `Lemmas` the facts
they share. Definitions whose comment starts with *Fault* are
deliberately wrong versions of the definition that follows them; nothing uses them, and
`PROJECT.json` names the property each of them breaks.

**ClusterIdentity, Membership.** `StableCluster`, `BeginJoint` and `FinalizeJoint` are the
constructors with their checks as `Can...` predicates, `QuorumSize` and `HasQuorum` the two
ways the code counts voters, `IsSuccessorOf` the test every node applies. A step of
`Membership` builds the next epoch and installs it when the test accepts it.
`StopsAt`, `ReplySets` and `ProposerAcceptsQuorum` are what the proposers make of a
configuration.

**ISR, ISRHistory.** `RecordISR` is `record` with its three cases (next step, later step,
same step; an earlier step changes nothing). `ISRHistory` keeps all calls and compares the
register with the summary of the history.

**QuePaxa.** One slot. A propose call is `Propose`, then one `Continue` per step of
`collect_quorum` and phase, until it decides, adopts a decision or fails; `GiveUp` is a
timeout or a restart, after which the call may be retried with fresh priorities. `Batch` gives
every call its batch: a process proposes what it holds for the slot again and again, and after a
restart it may propose another batch, because two places in the code propose what is not saved
(section 3). The set `sent` of
requests only grows, so requests are delayed, reordered, duplicated and lost without
actions of their own. A recorder binds a slot to the first leader it hears. The variable
`hist` is history; `MCView` hides it and the requests that can have no effect any more.

**DurableRecorder.** All operations of one recorder over its slots. An operation computes
its result from `core`; `Mutate` then saves it and acknowledges, or the save fails before
or after the rename and memory is rolled back (all of it except the configuration, as in
`restore_snapshot_state`), or the process stops. `Restart` may use the configuration of any
epoch, and `restore` accepts or refuses.

**ReplicaCore, ReplicaRuntime.** One replica. `pc` marks the points of a handler at which
it calls out of the process; every save may succeed, fail (memory keeps the change, the file
may or may not have it) or be cut by a crash. The other members are represented by what slot
consensus promises: `OthersDecide` gives a slot a foreign batch or completes one of ours,
`Propose` decides the slot or finds its decision. `offered` keeps what this replica ever
proposed, so a decision may be for a batch that a restart has forgotten. That slot consensus
chooses one batch is `BatchConsensus` of section 4: it holds when no replica proposes two batches
for the slot, and the same goes for `NetworkNode`. A transfer package
holds the state its creator is left with, so installing one adds no behaviour beyond a
replica that starts in that state.

**EpochTuner.** Replicas commit the same decisions at their own pace and derive schedules
from them. Each replica notes the step it saw: that of its own propose call when this decides, that
of the announcing replica otherwise (`decided` holds the steps of a slot). Initially all have
committed a prefix, each with steps of its own.

**NetworkNode.** `NetworkConsensusHandler` over the same `ReplicaCore`. Each submission, each
recovered proposal and the handling of announcements is a task; `task[a].at` is the await at
which it stands (`loop`, `wait` for progress, `call` of a proposal, `executing` under the
lock). A section that holds the state mutex is one step, except that executions keep the lock
from slot to slot. `Open` is the read half of `membership_gate`; `install` is the progress of
its writer. `Save` is `save_store` with the roll-back of its callers; executions have none,
as in the code. An error of one recovered proposal drops the others wherever they wait
(`RecoverFails`), and a save that had begun then ends by itself, perhaps late (`LateSave`).
Slot consensus chooses a decision when the node first learns of it, which loses nothing: no
other part of the node depends on the choice before. `Left[e]` are the foreign batches whose
proposer is no member in epoch `e`: recorders refuse them, `validate_state` refuses a file that
retains one (`ProposersAreMembers`), and a node whose file is refused stays down. `Packaged` is
the package of an idle source, with an empty queue and nothing proposed or learnt beyond its last
slot. Waiting for one's turn has no effect on
the state but the choice of the moment, so `call` stands for it too.

**RequestJournal.** `DeduplicatingSubmissionHandler` around a `FileSubmissionJournal`. A lock
object is named after the call that created it; `arc` is a call's reference, `locks` the map,
`DropLock` the test of `Arc::strong_count`.

**NodeServices.** The services of every member with a file each: batch stores with their
publisher and fetcher, the availability check and value store of recorders, the exactly-once
executor, and the journal at `Home`, which is `RequestJournal` step for step. A payload is
determined by its ID, so a store is a set of IDs. `executed` holds the marks of the runtimes,
slots below the pruning floor included. A failing save may or may not have replaced the file.
`Export` and `Package` are the two halves of `create_state_transfer`; `Join` installs the
package at a node that starts. `Acknowledged` asks that every member has executed the slots:
`disseminate_all` counts the acknowledgement of every recorder, and a server gives it only after its
node has accepted and executed the decisions (`server.rs:431`). That the source is among them rests
on a client for its own recorder that calls its own server, as in
`examples/networked_cluster.rs:94`; a source whose own recorder is in the process knows only that
the slots are committed.

The queue and pipeline of `EpochTuner` are reduced to the set of armed slots; `ReplicaRuntime`
leaves the schedules out, because a schedule only decides when and with which leader a slot
is proposed, and `QuePaxa` is safe for every schedule.

## 3. Runs

| Run | Instance | Shows |
| --- | --- | --- |
| `membership` | four replicas, budget one, four epochs | quorums intersect within an epoch and with the next one, survive the fault budget; `quorum_size` is the size of the smallest quorum; `is_successor_of` accepts exactly what the constructors build |
| `isr` | five calls, three steps, three keys | the register is the summary of its history; a repeated call changes nothing; it moves forward only |
| `slot` | three recorders, three proposers, one with another leader and a retry that carries another batch, to round two | all decisions credit one replica and carry a batch it proposed, the same one unless it proposed two; what is decided is carried on, the gather phases find a prior aggregate, the reserved priority belongs to one proposer per quorum, `Consensus` on the replica is implemented |
| `recorder` | two slots, limits of one, three epochs | acknowledged calls survive, one leader per slot, epochs do not overlap, pruned slots stay silent, the file restores |
| `tuner` | two replicas, slots 10 to 16, statistics of six epochs, barrier at 14 | no schedule is missing for the pipeline, snapshots restore |
| `runtime` | two slots, one value, a no-op, one error, one crash | execution without gaps, no accepted value lost, the file restores, pruned slots are known to all recorders; while nothing fails every decision a replica knows is executed |
| `node` | two submissions, two slots, a no-op, one error, one crash, both ways to reach its own recorder | execution in order, no value lost or decided twice, no lost wake-up, the file restores unless it retains a decision of a removed member, configurations change only when nothing is in flight |
| `services` | three members (one joins), two retries of a request, a batch of two values, one error, one crash | one outcome per request, one inner call at a time, no value applied twice, payloads and acknowledged publications stay |

Four runs end in a counterexample and show a disagreement between the code and what the
repository says of it; `findings` in `PROJECT.json` quotes the lines.

| Run | Shows |
| --- | --- |
| `tuner_schedules` | `SchedulesAgree` fails: slot 8 is decided by one replica on the fast path and by the other in phase two, their statistics differ, and they name different leaders for epoch 6. No retention floor is involved, and no restart. Safety does not depend on it: recorders bind a slot to the first leader they hear (`ReservedPriorityIsUnique`) |
| `node_noop` | a no-op that loses two gaps to other nodes waits in the queue twice; `next_proposal` then drains a batch that `note_proposed` refuses for the repetition, and the accepted value in it is neither queued nor proposed any more. The file follows with the next save |
| `node_membership` | a node that reaches its own recorder through its own server, as in `examples/networked_cluster.rs`, cannot install a membership change: its announcement to itself waits for the gate that the installation holds and times out. With the recorder in the process (`OwnThroughServer = {FALSE}`) the property holds |
| `services_transfer` | a slot executed between the export of the application and the snapshot of the runtime is marked executed in the package and missing from its checkpoint |

More came up that has no run. TLC refutes the properties of the first ten points on the
instances given; the last three come from reading the code for the models.

- `arm_available` leaves a batch in memory that it could not save, and the next `poll` proposes it
  (`runtime.rs:607`); a network node that hears of a known decision arms a no-op and does not save
  it (`node_runtime.rs:683`). After a crash the same replica may propose another batch for the slot
  under the same key, although `types.rs:427` says that a key "must identify at most one value for
  a slot". With a leader that does so, TLC refutes plain agreement on values and plain carrying of
  the decided value (`MaxStep = 5`, the leader's second call with another batch), while
  `Agreement` and `DecisionIsCarried` hold (244,011 states).
- `RestartSucceeds` (`NetworkNode`, the `node` instance): a node that retains a decision of a
  replica removed since then cannot restart from its own file, because `validate_state` wants every
  proposer to be a member (`node_runtime.rs:905`). `SnapshotRestores` says that nothing else stands
  in the way.

- A full log has the same effect as the repeated no-op: with `MaxLogSlots = 1` and two values
  (`ReplicaRuntime`, otherwise as in `runtime`) TLC refutes `NoValueLost`, because `next_proposal`
  drains the batch before `note_proposed` finds that the log is full (`replica.rs:232`).
- `accept_decision` leaves its changes in memory when `arm_gap_noop` fails for lack of room
  (`node_runtime.rs:694`): slots it has just committed are then neither saved, executed nor
  announced to waiting submissions. With one submission, three slots and no error or crash TLC
  refutes `ExecutedInOrder` of `NetworkNode` for `MaxTrackedValues = 2` and `NoLostWakeup` for
  `MaxLogSlots = 2`. `NoopFits` in the theorems of section 4 leaves these limits out.
- `ProposersAcceptEveryEpoch` (`Membership`, the `membership` instance): the threaded proposer
  refuses to work in joint epochs whose quorums are smaller than a majority of the union,
  such as {1,2,3} to {1,2,4} with one fault (`proposer.rs:682`).
- `DecidedStepAgreed` (`QuePaxa`, the `slot` instance): two replicas can hold the same
  decision with different decided steps, one from the fast path and one from phase two.
  `install_membership` compares the step, and `EpochStat` ("every replica computes identical
  values") adds it up.
- `RestartSucceeds` (`DurableRecorder`, the `recorder` instance): a recorder cannot restart
  from its own file once the file names a replica that was removed.
- `ExecutedInOrderDespiteErrors` (`NetworkNode`, one error, no crash): `accept_decision`
  executes only what it newly committed, so after a failed execution of slot 1 an announcement
  of slot 2 executes slot 2 first.
- The retention floor follows each replica's own commit point, so a replica that is behind ranks a
  longer window: with steps that all replicas agree on (slot 1 at step 6, the others at 4) and
  `RetainedStatEpochs = 4` TLC refutes `SchedulesAgree`, too.
- With `CarefulTransfer = FALSE` TLC refutes `ExecutedInOrder` of `ReplicaRuntime`:
  `create_state_transfer` prunes committed slots that a failed save or a failed `execute` has
  left unexecuted, unless `export_checkpoint` refuses them (that of `NoopStateMachine` does not).
- When the save after `install_membership` fails, a recorder goes on with the new
  configuration, although its comment promises that a failed save rolls the core back;
  `DurableRecorder` models this, and its properties hold all the same.
- A save that outlives a dropped proposal of a network node can replace a newer file. The
  condition `~faults.overtaken` of `NoValueLost` leaves these runs out; the next save repairs
  the file, a crash before it does not.
- A submission of a network node whose values are decided in two slots is never answered and
  keeps its read half of the membership gate, because `decision_for` looks for one decision
  that holds them all.

**Bounds.** Two replies are a quorum of three recorders, the smallest cluster that tolerates
a fault and the one where two quorums share a single recorder. Step 8 is phase zero of round
two, so the value that round one hands on is checked. Two priorities below and at the
reserved one give ties and strict orders. One active slot and one decision put the recorder
at its limits. Two slots and a pipeline of two give a gap, a decision out of order and a
prune with a slot left. In `node` two submissions of the same value share a slot, a queue and
a wake-up, while other nodes win slots and announce them in any order. In `services` the
two founders are the quorum and the third member can only join with a package; a publication
needs two acknowledgements, and one error or crash can fall between any two files. Three proposers put two leaders, a follower and a retry on one slot. In `node` a
membership change removes the proposer of one of the two foreign batches. Epochs of
two slots with two members put the end of the warm-up at slot 10, where the `tuner` run starts, with
every pair of views of slot 8; the ranked epochs, a re-exploration, a
retention floor above the first epochs (64 epochs in the code, 6 here) and a membership change in the
middle of the log follow. `tuner_schedules` starts at slot 8, so that its replicas decide it. `MaxCalls`, `MaxAttempts`,
`MaxAcked`, `MaxInformed`, `MaxErrors` and `MaxCrashes` bound what would repeat.

In `node_noop` the no-op is proposed for slots 1 and 2 and loses both, and a batch of three takes
both no-ops and the value.

Larger instances were checked apart from the runs, with no error found: the safety properties
of `ReplicaRuntime` with two values (562,318 states); `NetworkNode` with submissions of
different values (5,159,171 states) and of overlapping ones, <<a>> and <<b, a>> (3,306,589);
`NodeServices` without calls and with the batches <<a, b>> and <<a>> (934,712) or <<a>> and
<<b>> (1,943,442); and `JSpec` of `RequestJournal` with four calls, the inductive invariant
included (16,868). Two calls, as in `services`, do not show a `DropLock` without its reference
count; three do, and the theorem covers any number. The type invariants of `Membership`,
`QuePaxa`, `EpochTuner` and `NetworkNode` were checked on these instances or
on those of the runs.

**Deadlock** is not checked where the instance ends (the last epoch, call or slot), where a
slot is decided and nothing is left to do, for a node whose submissions are answered, and for
the recorder that cannot restart.

**Fairness** is assumed in `runtime` and `node_membership`. In `runtime` the event loop calls
`poll` again and again (strong fairness, as other handlers may run in between); a handler that
has begun goes on (weak fairness of `Arm`, `Wait`, `Execute`, `Notify`, `Announce`,
`CheckpointFails`); and a slot that is proposed again and again is decided (strong fairness of
`Propose`), which is what the protocol gives with probability one once a quorum of recorders
answers. `KnownExecuted` asks nothing once a save or the application has failed: a failed
execution is retried only by the next decision or by `recover`. In `node_membership` the
async runtime polls every task, tokio's mutex and gate are first come, first served (so a task
that waits for a lock gets it: strong fairness where other tasks may hold it meanwhile), and
calls return or time out. No fairness is assumed of clients, of other members or of incoming
decisions.

## 4. Proofs

All theorems hold for every value of the constants that satisfies the named assumptions.

**Slot protocol** (`QuePaxa_proofs`). Assumptions: quorums
intersect, each schedule names at most one leader, proposer ids and priorities are numbers.
Nothing is assumed of the batches: each call may carry another one.
`TypeCorrect`, `AgreementHolds`, `Validity`, `CarriedForward`, `GatherFinds`,
`ReservedUnique` and `Refinement` follow from one inductive invariant, `IInv` (`Invariance`).
What the slot agrees on is the *replica* whose batch it takes: `Refinement` shows `Consensus` for
it. The batch follows when that replica has proposed only one (`Agreement`,
`DecisionIsCarried`), and `BatchConsensus` shows `Consensus` for the batch when no replica
proposes two (`OneBatch`). Agreement is not inductive: nothing in it says why a proposer that has
not decided yet cannot decide something else. `IInv` therefore says where every request comes from.

- `RegisterInv`, `RecordedInv`, `ReplyInv`: registers are the ends of their histories, what
  they hold was requested under the leader they are bound to, and what a reply says stays true.
- `KeyInv`, `RequestInv`, `CallInv`: a request carries a batch that the replica it credits has
  proposed, the reserved priority identifies its leader, and a call's requests carry its proposal.
- `OriginInv`: a request past a phase rests on a quorum that completed it: `Reached` the
  step before, `Spread` in phase one, `Gathered` the best of phase two, `Opened` with the best first
  proposal of round one, and `Passed` every gate in between with a proposal of
  the same replica.
- `DecisionInv`: a decision has the evidence of a quorum, from the fast path or from phase two.

Two decisions then share a recorder between their quorums. `FastLock` shows that after a fast
decision no proposal of another replica passes the first gate; `SlowLock` that after a decision in
phase two none passes the gate of the next round; `OrderedAgreement` combines them. The proof
that `Next` preserves `IInv` has one lemma per kind of step, and `OriginStable` and
`EvidenceStable` show once and for all that nothing undoes an origin or an evidence.

**Membership** (second part of `DurableRecorder_proofs`). Assumption: finitely many replicas. The type invariant
is inductive because `is_successor_of` demands a well-formed configuration. The counting lemma
`TwoThresholds` gives `QuorumIntersection`, `SuccessiveIntersection` and, with
`RemainingVoters`, `QuorumAvailability`. `ReplySetsIntersect` discharges the quorum assumption
of the slot protocol for every configuration. `QuorumSizeExact` builds a quorum of exactly
`quorum_size` voters, for a joint epoch from a quorum of each part that overlaps the other as
much as the parts do; `SuccessorTestIsExact` goes through the cases of the test.

**Register** (second part of `QuePaxa_proofs`). The register covers every call made (`RegisterCovers`):
it has left the call's step or holds an aggregate at least as good. Hence repeated calls are
harmless (`Idempotence`), and it moves forward only (`RegisterForward`). `RegisterSummarises` is the
stronger invariant behind `SummaryOfHistory`: it names the first call at the register's step,
and with it the calls that the two aggregates are over.

**Recorder** (`DurableRecorder_proofs`). Assumptions: each epoch is a successor of the one
before, slot consensus decides one value per slot, slots, steps and parts of keys are numbers
and limits are positive. Every operation of `RecorderCore` leaves a core that is `Sound` (types, limits
and the tests of `restore`) and that `Grew` (it shows, above the floor, what the core before
showed). The three outcomes of `mutate` then leave only cores in memory and in the file that
grew from the ones before, so what was acknowledged stays reflected in both: `IInv`
(`Invariance`). None of the six properties is inductive without it: `acked` says nothing of
a file that a failed save replaced, or of a configuration that a roll-back kept. It yields
`TypeCorrect`, `AcknowledgedSurvives`, `LeaderIsBound`, `EpochsAreFenced`, `PrunedIsSilent` (an
action property) and `FileRestores`. `inform_decisions` is a loop; `InformStages` describes
the states it passes through.

**Replica log** (`ReplicaCore_proofs`). A core is `Sound` when `restore` would accept it and its
commit frontier is where `commit_ready` leaves it, and `Distinct` when no value waits twice and
no proposal lies behind a slot nobody claimed. One lemma per operation says that both are kept,
what becomes of the values that wait (`Live`), and when the operation succeeds.

**Replica runtime** (`ReplicaRuntime_proofs`). For any limits, members, values and numbers of
crashes and errors; foreign batches are not empty. `StepShape` describes every step once: the
runtime it computes, which memory and file hold afterwards or not, and what it does to the rest.
The invariants are about one runtime and are shown of the one in memory and of the one in the
file, because a crash may put the one in place of the other after any step.

- `StandingInv` (`StandingInvariant`): soundness, marks only on decided slots, decisions as
  consensus chose them, recorders informed of what is announced or pruned. It gives `FileRestores`
  (`SnapshotRestores`) and `PrunedIsKnown` (`PrunedKnown`).
- `ExecutingInv`: the application has executed what either runtime marks or has pruned. It gives
  `ExecutesInOrder` (`ExecutedInOrder`), under `CarefulTransfer`; section 3 says what
  happens without it. The point is that the lowest slot to deliver follows slots that are pruned
  or marked, also when the marks come from an older file.
- `KeepingInv`: every value a runtime has seen is chosen somewhere or waits in it, once. It gives
  `ValuesAreKept` (`NoValueLost`) when `PipelineLen > 0` and the log has room for all slots;
  section 3 shows the loss otherwise. `Distinct` is needed because `note_proposed` refuses
  a batch with repetitions after it has left the queue, and its last part because
  `arm_gap_noop` must find the queue empty when it claims a gap.

**Network node** (`NetworkNode_proofs`, and `NodeTasks_proofs` for the three theorems about its
tasks and epochs). For any requests with distinct IDs that fit a batch, any
limits, foreign batches, and numbers of errors, crashes and membership changes. As for the
runtime, `StepShape` describes every step once: the state `m` it computes, which memory, file and
late saves then hold or not, and what it does to consensus and to clients. What a step does
to the data is shown of one state; what it does to the tasks is shown apart. The theorem `Base`
combines the two parts of the inductive invariant:

- `StandingInv`: memory, the file *and every state that a late save may still write* are sound,
  mark only decided slots and hold the decisions that consensus chose. The late saves are the
  reason why the file alone is not inductive. It gives `NodeRestores` (`SnapshotRestores`: the file
  restores unless it retains a decision of a replica that has left), without
  any hypothesis on limits or failures.
- `ControlInv`: who may hold the mutex and where it stands, that the slots it executes are known,
  and that a node that starts does nothing else before it has recovered. With the first part it
  gives `NodeTypeCorrect`.

The other theorems add an invariant each; the first three are those of `NodeTasks_proofs`. Some have a hypothesis; each excludes a case in which
section 3 shows that the property fails, except where noted.

| Theorem (property) | Hypotheses | Invariant and argument |
| --- | --- | --- |
| `NodeExecutesInOrder` (`ExecutedInOrder`) | `CarefulTransfer`, `NoopFits` | `ExecutingInv`: what any state marks or has pruned has been executed, and while nothing failed the mutex is held until everything committed has been executed, lowest slot first |
| `NodeWakesSubmissions` (`NoLostWakeup`) | `NoopFits` | `WakeInv`: a submission that waits although its decision is known does so only while the task that will notify it holds the mutex |
| `NodeChangesWhenDrained` (`ChangesWhenDrained`) | `NoopFits` | `EpochInv`: while the log is announced for an installation, and whenever the file is an epoch ahead of memory, the node is at rest: no slot is open, no task proposes. The epoch may also change by a restart from a file that a failed installation left behind, which is why the file is part of it. No counterexample without the hypothesis is known; the proof uses that accepting a decision changes memory and file together |
| `NodeLosesNoValue` (`NoValueLost`) | `PlainQueue`: no no-op, room for all slots in the log | `KeepingInv`: in each state every value it has seen is decided or waits, once |
| `NodeDecidesOnce` (`DecidedOnce`) | `PlainQueue`, and `OwnIds`: other nodes propose none of this node's values | `OnceInv`: while nothing failed, file and memory agree, a value waits in one place, every batch ever offered that may still be decided is the one the slot holds, and decided values wait nowhere else. Without `OwnIds` another node may have the value decided as well, which is what the exactly-once executor is for |

`NoopFits` says that there is no no-op or that the limits leave room for it. Looking for `KeepingInv`
with a no-op led to `node_noop`: the invariant needs a queue without repetitions, and a no-op
that loses twice breaks it. The proof attempt also showed that the definition `Failed` (which tasks
an error ends) had overlapping cases, so that its value was left to TLC's order of evaluation; it
is now written without the overlap.

**Request journal** (`NodeServices_proofs`). For any number of calls and requests. The
inductive invariant `JInv` (`JournalInvariant`) adds to the types and to `OneInnerCall`
what each of the two properties rests on. `OutcomeInv`: the file is written before memory and
memory before an answer, so memory never runs ahead of the file and answers agree with memory;
this gives `OutcomesAgree` (the property `SameOutcome`). `LockInv`: while a call refers to a lock object, the map holds that
object for its request, which is what the test of the reference count protects; hence all calls of
a request under way queue at one object, and `RetriesTakeTurns` (`OneInnerCall`). `OneInnerCall` alone is not
inductive: a state in which two queued calls refer to different objects satisfies it.

**Services** (`NodeServices_proofs`). For any finite set of members, non-empty quorums,
non-empty batches without repetitions and numbers of faults. `PayloadsStayAvailable` (the property `PayloadsAvailable`) and
`PublicationsSurvive` (`PublishedSurvives`) follow from `PayloadInv`
(`PayloadInvariant`). The idea is a value that is *settled*: every active member has executed it,
and a node that joins with the current package will regard it as executed. A payload leaves a
store only when it is settled, and it stays settled (`PackageInv` relates the package to the
marks of the members). `StoreInv`, `AckInv`, `ValueInv` and `LogInv` then say of memory, of
acknowledged publications, of value stores and recorder replies, and of decisions that what
they mention is held durably or settled. `ValueInv` is needed because a recorder that fetched a
payload earlier vouches for it later without asking again. `NodeKeepsJournal` shows that the
composition implements `JSpec`, so the two theorems about the journal hold in it.

`ExecutedOnce` (`AppliedOnce`) follows from `ApplicationInv` (`ApplicationInvariant`): at a
founder the file of the application holds what its memory holds, and memory every value of the slots
its runtime has marked. So a slot that is executed again, or whose mark came late, finds its
values in the file, and the package a joining node starts from holds each value once.

Induction goes by the least counterexample (`LeastNatural` in `Lemmas`), which is how loops and
filters are reasoned about (`UnseenFacts`, `InformStages`, `ArmAllFacts`).

The inductive invariants were model-checked before they were proved: `ApplicationInv` on the
instance of `services` (1,543,596 states), those of `ReplicaRuntime` on the instance of `runtime`
and with three slots and two values (2,986,551 states), those of `NetworkNode` on the instance of
`node` with and without its no-op, and on part of the states with three slots and two errors.

The proof modules make Zenon the default prover (`USE Zenon`); leaves about arithmetic, records or
sequences cite `SMT`.

Only model-checked: `ScheduleAvailable` and `SnapshotRestores` of `EpochTuner`.
Its statistics are sums over the slots of an epoch, `note_committed` is folded over the newly
committed slots and a schedule is a sorted ranking; what these compute for every input takes
induction over data, which the prover does not have. Liveness under fairness (`KnownExecuted`,
`InstallSucceeds`) and the counterexamples of section 3 stay with TLC as well. So do `NoValueLost` and
`DecidedOnce` of a node with a no-op: the `node` run checks them with two slots, too few for the no-op
to lose twice and be proposed again, and `node_noop` shows the limit of the first.

## 5. What is left

Not modelled, and why:

- framing, codecs, encryption and connection handling: the models assume only that calls may be
  lost, delayed, repeated or time out;
- checksums, versions and size limits of files: a file is read back as it was written or the node
  does not start;
- harnesses, load generators, reports and metrics: they observe the system;
- hedging delays and their tuning: timing only, since every order of turns is explored;
- policies that compute manually installed schedules, and their installation: `QuePaxa` is safe
  for every schedule;
- the limits of requests to the batch service, and the contents of errors.

Left for later: the calls of the threaded runtime to the recorders in its own
`install_membership`, one by one; a composition of `NetworkNode` with several recorders in place
of the promise of slot consensus.
