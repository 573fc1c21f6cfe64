------------------------- MODULE NetworkNode_proofs -------------------------
(***************************************************************************)
(* The safety of a networked node (NetworkNode), for any requests, any     *)
(* limits, any batches of other nodes and any number of crashes, errors    *)
(* and membership changes.                                                 *)
(*                                                                         *)
(* The proof keeps what a step does to the data apart from what it does to *)
(* the tasks.  Every step is described once, by Step: the state m it       *)
(* computes, which memory, file and late saves then hold or not (Moves),   *)
(* and what it does to consensus and to the clients.  The invariants of    *)
(* the data are about one state, m, and hold of the one in memory, of the  *)
(* one in the file and of those that late saves may still put there:       *)
(*   - Standing: m passes restore and validate_state, and its decisions    *)
(*     are those consensus chose;                                          *)
(*   - Keeping: every value m has seen is chosen or waits in m, once.      *)
(* The invariants of the tasks say who holds the mutex and what it is for. *)
(***************************************************************************)
EXTENDS NetworkNode, ReplicaCore_proofs

USE Zenon

\* All value IDs.
Values == Value \union Noop \union (UNION {Range(b) : b \in Foreign})

Node == [core : CoreSet(Values), known : SUBSET Slot, executed : SUBSET Slot, epoch : Nat]

Faults == [crashes : Nat, errors : Nat, overtaken : BOOLEAN]

\* The types of what is outside the node.
WorldOK ==
  /\ app \subseteq Slot
  /\ offered \in [Slot -> SUBSET (Seq(Values) \ {<< >>})]
  /\ chosen \in [Slot -> Seq(Values)]
  /\ faults \in Faults

\* What makes a state one that the node can run with.
Standing(m, decided) ==
  /\ m \in Node
  /\ Sound(m.core, Values)
  /\ m.executed \subseteq m.known /\ m.known \subseteq Decided(m.core)
  /\ \A s \in Decided(m.core) : /\ s \in m.known \/ s <= m.core.floor
                                /\ m.core.log[s].decision = decided[s]

\* The states the node has or may come back to.
States == {mem, disk} \union late

StandingInv == WorldOK /\ \A m \in States : Standing(m, chosen)

\* Where a task may be, and what it is about.
Place ==
  {"off", "gate", "boot", "booting", "loop", "wait", "call", "executing", "recover", "resuming",
   "answered"}
TaskState == [at : Place, slot : 0 .. MaxSlot]
Holding == {"executing", "resuming", "booting"}
Quiet(b) == task[b].at \in {"off", "answered"}

\* Who holds the mutex, and what a restarted node does not do before it recovers.
ControlInv ==
  /\ task \in [Task -> TaskState]
  /\ \A b \in Task : task[b].at = "call" => task[b].slot \in Slot
  /\ lock \in [by : Task \union {<< >>}, todo : SUBSET Slot]
  /\ lock.todo \subseteq mem.known
  /\ lock.by = << >> => lock.todo = {}
  /\ transfer \in [at : {"off", "export", "prune"}, slot : 0 .. MaxSlot]
  /\ transfer.at # "off" => transfer.slot \in Slot
  /\ lock.by # << >> => /\ task[lock.by].at \in Holding
                        /\ task[lock.by].at # "executing" => lock.by = Receiver
  /\ task[Receiver].at \in {"boot", "booting"} =>
        /\ \A b \in Task \ {Receiver} : Quiet(b)
        /\ transfer = Idle /\ install = "off"

------------------------------------------------------------------------------
(* States *)

\* The parts of a state.
LEMMA NodeParts ==
  ASSUME NEW m \in Node
  PROVE  /\ m.core \in CoreSet(Values) /\ m.epoch \in Nat
         /\ m.known \subseteq Slot /\ m.executed \subseteq Slot
         /\ \A c \in CoreSet(Values) : /\ [m EXCEPT !.core = c] \in Node
                                       /\ [m EXCEPT !.core = c].core = c
                                       /\ [m EXCEPT !.core = c].known = m.known
                                       /\ [m EXCEPT !.core = c].executed = m.executed
                                       /\ [m EXCEPT !.core = c].epoch = m.epoch
BY SMT DEF Node

\* A state whose decisions and marks are those of another one.
LEMMA SameDecisions ==
  ASSUME NEW m, NEW decided, Standing(m, decided), NEW n \in Node, Sound(n.core, Values),
         n.known = m.known, n.executed = m.executed, Decided(n.core) = Decided(m.core),
         n.core.floor = m.core.floor,
         \A s \in Slot : n.core.log[s].decision = m.core.log[s].decision
  PROVE  Standing(n, decided)
<1>1. \A s \in Decided(m.core) : s \in Slot
  BY DEF Decided
<1> QED BY <1>1 DEF Standing

\* arm_gap_noop changes no decision.
Arming(n, m) ==
  /\ n \in Node /\ Sound(n.core, Values)
  /\ n.known = m.known /\ n.executed = m.executed /\ n.epoch = m.epoch
  /\ n.core.next = m.core.next /\ n.core.floor = m.core.floor
  /\ m.core.seen \subseteq n.core.seen
  /\ Decided(n.core) = Decided(m.core)
  /\ \A s \in Slot : n.core.log[s].decision = m.core.log[s].decision
  /\ n # m => Undecided(n.core) # {} /\ Undecided(m.core) = {}
  /\ Noop = {} => n = m

\* A no-op as a batch.
LEMMA NoopBatch ==
  ASSUME NEW noop \in Noop
  PROVE  <<noop>> \in Seq(Values) /\ <<noop>> # << >> /\ Range(<<noop>>) = {noop}
         /\ Len(<<noop>>) = 1
<1>1. PICK q : q = <<noop>>
  OBVIOUS
<1>2. noop \in Values
  BY DEF Values
<1>3. Len(q) = 1 /\ DOMAIN q = 1 .. 1 /\ q[1] = noop /\ q \in Seq(Values) /\ q # << >>
  BY SMT, <1>1, <1>2
<1>4. \A i : i \in DOMAIN q <=> i = 1
  BY SMT, <1>3
<1>5. Range(q) = {noop}
  BY SMT, <1>3, <1>4 DEF Range
<1> QED BY <1>1, <1>3, <1>5

\* The frontier behind which a slot is known.
LEMMA GapSlot ==
  ASSUME NEW m, NEW decided, Standing(m, decided), \E s \in m.known : s > m.core.next
  PROVE  m.core.next \in Slot /\ m.core.next \in Nat /\ m.core.next \notin Decided(m.core)
         /\ m.core.next > m.core.floor
<1>1. /\ m.core.next \in Nat /\ m.core.next >= 1 /\ MaxSlot \in Nat /\ m.core.floor \in Nat
      /\ m.core.next \notin Decided(m.core) /\ m.known \subseteq Slot
      /\ m.core.next > m.core.floor
  BY SMT, NodeParts, CoreParts, ReplicaConfigAssumption DEF Standing, Sound, Orderly, Restorable
<1> QED BY SMT, <1>1 DEF Slot

\* arm_gap_noop changes nothing or adds one no-op proposal, and the result stands.
LEMMA ArmGapNoopFacts ==
  ASSUME NEW m, NEW decided, Standing(m, decided), NEW n \in ArmGapNoop(m)
  PROVE  Arming(n, m) /\ Standing(n, decided)
<1>0. m \in Node /\ Sound(m.core, Values) /\ m.core \in CoreSet(Values)
  BY NodeParts DEF Standing
<1>1. CASE n = m
  BY <1>0, <1>1 DEF Arming
<1>2. CASE n # m
  <2>1. PICK noop \in Noop : /\ Undecided(m.core) = {} /\ \E s \in m.known : s > m.core.next
                             /\ \E c \in NoteProposed(m.core, m.core.next, <<noop>>) :
                                   n = [m EXCEPT !.core = c]
    <3>1. /\ Undecided(m.core) = {} /\ \E s \in m.known : s > m.core.next
          /\ \/ n \in {[m EXCEPT !.core = c] :
                       c \in (UNION {NoteProposed(m.core, m.core.next, <<noop>>) : noop \in Noop})}
             \/ n \in {k \in {m} : Noop = {}}
      BY <1>2 DEF ArmGapNoop
    <3>2. PICK c \in (UNION {NoteProposed(m.core, m.core.next, <<noop>>) : noop \in Noop}) :
             n = [m EXCEPT !.core = c]
      BY <1>2, <3>1
    <3>3. PICK noop \in Noop : c \in NoteProposed(m.core, m.core.next, <<noop>>)
      BY <3>2
    <3> QED BY <3>1, <3>2, <3>3
  <2>2. PICK c \in NoteProposed(m.core, m.core.next, <<noop>>) : n = [m EXCEPT !.core = c]
    BY <2>1
  <2>3. PICK slot, q, b : slot = m.core.next /\ q = <<noop>> /\ b = m.core
    OBVIOUS
  <2>4. /\ slot \in Slot /\ slot >= b.next /\ slot \notin Decided(b)
        /\ q \in Seq(Values) /\ q # << >> /\ Sound(b, Values) /\ c \in NoteProposed(b, slot, q)
    <3>1. slot \in Slot /\ slot \in Nat /\ slot \notin Decided(b)
      BY <2>1, <2>3, GapSlot
    <3>2. slot >= b.next
      BY SMT, <2>3, <3>1
    <3> QED BY <1>0, <2>2, <2>3, <3>1, <3>2, NoopBatch
  <2>5. /\ Sound(c, Values)
        /\ c.next = b.next /\ c.floor = b.floor /\ c.seen = b.seen \union Range(q)
        /\ Decided(c) = Decided(b) /\ Undecided(c) = Undecided(b) \union {slot}
        /\ \A s \in Slot : c.log[s].decision = b.log[s].decision
    BY ONLY SMT, <2>4, NoteProposedFacts
  <2>6. /\ n \in Node /\ n.core = c /\ n.known = m.known /\ n.executed = m.executed
        /\ n.epoch = m.epoch
    BY <1>0, <2>2, <2>5, NodeParts DEF Sound, Orderly
  <2>7. Standing(n, decided)
    BY ZenonT(40), <2>3, <2>5, <2>6, SameDecisions
  <2>8. Noop # {}
    OBVIOUS
  <2> QED BY <2>1, <2>3, <2>5, <2>6, <2>7, <2>8 DEF Arming
<1> QED BY <1>1, <1>2

\* A decision becomes known: nothing else does, and the commit frontier moves
\* over known decisions only.
Deciding(n, m, slot) ==
  /\ n \in Node /\ Sound(n.core, Values)
  /\ n.known = m.known \union {slot} /\ n.executed = m.executed /\ n.epoch = m.epoch
  /\ n.core.next >= m.core.next /\ n.core.floor = m.core.floor
  /\ \A s \in m.core.next .. n.core.next - 1 : s \in n.known
  /\ m.core.seen \subseteq n.core.seen
  /\ Decided(n.core) = Decided(m.core) \union {slot}
  /\ \A s \in Slot \ {slot} : n.core.log[s].decision = m.core.log[s].decision

\* Applying a decision the node does not know leaves a standing state.
LEMMA AppliedFacts ==
  ASSUME NEW m, NEW decided, Standing(m, decided), NEW slot \in Slot, slot \notin m.known,
         decided[slot] \in Seq(Values), decided[slot] # << >>,
         NEW n \in Applied(m, slot, decided[slot])
  PROVE  Deciding(n, m, slot) /\ Standing(n, decided)
<1>0. /\ m \in Node /\ Sound(m.core, Values) /\ m.core \in CoreSet(Values)
      /\ m.core.next \in Nat /\ m.core.floor \in Nat /\ m.core.next > m.core.floor
      /\ m.known \subseteq Slot
  BY NodeParts, CoreParts DEF Standing, Sound, Orderly, Restorable
<1>1. PICK c \in ApplyDecision(m.core, slot, decided[slot]) :
         n = [m EXCEPT !.core = c, !.known = @ \union {slot}]
  BY DEF Applied
<1>2. PICK b, values : b = m.core /\ values = decided[slot]
  OBVIOUS
<1>3. /\ Sound(c, Values) /\ c.floor = b.floor /\ c.next >= b.next /\ b.seen \subseteq c.seen
      /\ \A s \in b.next .. c.next - 1 : s \in Decided(c)
      /\ Decided(c) = Decided(b) \union {slot}
      /\ \A s \in Slot : c.log[s].decision = IF s = slot THEN values ELSE b.log[s].decision
  <2>1. CASE slot \in Decided(b)
    <3>1. c = b /\ b.log[slot].decision = values
      BY <1>1, <1>2, <2>1 DEF ApplyDecision, Decided
    <3>2. b.next .. b.next - 1 = {} /\ b.next >= b.next
      BY SMT, <1>0, <1>2
    <3> QED BY <1>0, <1>2, <2>1, <3>1, <3>2
  <2>2. CASE slot \notin Decided(b)
    <3>1. Sound(b, Values) /\ values \in Seq(Values) /\ values # << >> /\ c \in ApplyDecision(b, slot, values)
      BY <1>0, <1>1, <1>2
    <3> QED BY ONLY SMT, <2>2, <3>1, slot \in Slot, ApplyDecisionFacts
  <2> QED BY <2>1, <2>2
<1>4. c \in CoreSet(Values) /\ c.next \in Nat
  BY <1>3, CoreParts DEF Sound, Orderly
<1>5. /\ n \in Node /\ n.core = c /\ n.known = m.known \union {slot} /\ n.executed = m.executed
      /\ n.epoch = m.epoch
  <2>1. PICK k : k = m.known \union {slot} /\ k \in SUBSET Slot
    BY <1>0
  <2>2. n = [[m EXCEPT !.core = c] EXCEPT !.known = k]
    BY <1>1, <2>1
  <2>3. PICK d \in Node : /\ d = [m EXCEPT !.core = c] /\ d.core = c /\ d.known = m.known
                          /\ d.executed = m.executed /\ d.epoch = m.epoch
    BY <1>0, <1>4, NodeParts
  <2>4. n = [d EXCEPT !.known = k]
    BY <2>2, <2>3
  <2>5. n \in Node /\ n.known = k /\ n.core = d.core /\ n.executed = d.executed /\ n.epoch = d.epoch
    BY ONLY SMT, d \in Node, <2>1, <2>4 DEF Node
  <2> QED BY <2>1, <2>3, <2>5
<1>6. Standing(n, decided)
  <2>1. \A s \in Decided(b) : s \in Slot
    BY DEF Decided
  <2> QED BY ZenonT(40), <1>2, <1>3, <1>5, <2>1 DEF Standing
<1>7. ASSUME NEW s \in b.next .. c.next - 1 PROVE s \in n.known
  <2>1. s \in Decided(n.core)
    BY <1>3, <1>5
  <2>2. ~(s <= n.core.floor)
    BY SMT, <1>0, <1>2, <1>3, <1>4, <1>5
  <2> QED BY <1>6, <2>1, <2>2 DEF Standing
<1> QED BY <1>2, <1>3, <1>5, <1>6, <1>7 DEF Deciding

\* The same when arm_gap_noop follows the decision.
LEMMA WithDecisionFacts ==
  ASSUME NEW m, NEW decided, Standing(m, decided), NEW slot \in Slot, slot \notin m.known,
         decided[slot] \in Seq(Values), decided[slot] # << >>,
         NEW n \in WithDecision(m, slot, decided[slot])
  PROVE  Deciding(n, m, slot) /\ Standing(n, decided)
<1>1. PICK k \in Applied(m, slot, decided[slot]) : n \in ArmGapNoop(k)
  BY DEF WithDecision
<1>2. Deciding(k, m, slot) /\ Standing(k, decided)
  BY <1>1, AppliedFacts
<1>3. Arming(n, k) /\ Standing(n, decided)
  BY <1>1, <1>2, ArmGapNoopFacts
<1> QED BY <1>2, <1>3 DEF Deciding, Arming

\* The limits leave room for the no-op.
NoopFits ==
  Noop = {} \/ (MaxLogSlots >= MaxSlot /\ IsFiniteSet(Values) /\ Cardinality(Values) <= MaxTrackedValues)

\* With room for the no-op, arm_gap_noop does not fail.
LEMMA ArmGapNoopSucceeds ==
  ASSUME NEW m, NEW decided, Standing(m, decided), NoopFits
  PROVE  ArmGapNoop(m) # {}
<1>0. /\ m \in Node /\ Sound(m.core, Values) /\ m.core \in CoreSet(Values)
      /\ m.core.seen \subseteq Values
  BY NodeParts, CoreParts DEF Standing
<1>1. CASE ~(/\ Undecided(m.core) = {}
             /\ \E s \in m.known : s > m.core.next
             /\ m.core.next \notin m.known /\ m.core.log[m.core.next] = NoEntry)
  BY <1>1 DEF ArmGapNoop
<1>2. CASE Noop = {}
  BY <1>2 DEF ArmGapNoop
<1>3. ASSUME \E s \in m.known : s > m.core.next, m.core.log[m.core.next] = NoEntry,
             NEW noop \in Noop
      PROVE  \E c : c \in NoteProposed(m.core, m.core.next, <<noop>>)
  <2>1. PICK slot, q, b : slot = m.core.next /\ q = <<noop>> /\ b = m.core
    OBVIOUS
  <2>2. slot \in Slot
    BY <1>3, <2>1, GapSlot
  <2>3. Range(q) = {noop} /\ Len(q) = 1 /\ noop \in Values
    BY <2>1, NoopBatch DEF Values
  <2>4. Cardinality(Range(q)) = Len(q)
    BY <2>3, FS_Singleton
  <2>5. Cardinality(b.seen \union Range(q)) <= MaxTrackedValues
    <3>1. b.seen \union Range(q) \subseteq Values /\ IsFiniteSet(Values)
      BY <1>0, <1>3, <2>1, <2>3 DEF NoopFits
    <3>2. IsFiniteSet(b.seen \union Range(q))
          /\ Cardinality(b.seen \union Range(q)) <= Cardinality(Values)
      BY <3>1, FS_Subset
    <3>3. Cardinality(b.seen \union Range(q)) \in Nat /\ Cardinality(Values) \in Nat
          /\ MaxTrackedValues \in Nat
      BY <3>1, <3>2, FS_CardinalityType, ReplicaConfigAssumption
    <3>4. Cardinality(Values) <= MaxTrackedValues
      BY <1>3 DEF NoopFits
    <3> QED BY SMT, <3>2, <3>3, <3>4
  <2>6. EnsureLogCapacity(b, slot)
    <3>1. slot \in Slot \ Retained(b) /\ Retained(b) \subseteq Slot
      BY <1>3, <2>1, <2>2 DEF Retained
    <3>2. Cardinality(Retained(b)) < Cardinality(Slot)
      <4>1. /\ IsFiniteSet(Retained(b)) /\ IsFiniteSet(Retained(b) \union {slot})
            /\ Cardinality(Retained(b)) \in Nat /\ Cardinality(Retained(b) \union {slot}) \in Nat
            /\ Cardinality(Retained(b) \union {slot}) <= MaxSlot /\ MaxSlot = Cardinality(Slot)
        BY <3>1, SlotsFinite
      <4>2. Cardinality(Retained(b) \union {slot}) = Cardinality(Retained(b)) + 1
        BY <3>1, <4>1, FS_AddElement
      <4>3. MaxSlot \in Nat
        BY ReplicaConfigAssumption
      <4> QED BY SMT, <4>1, <4>2, <4>3
    <3>3. Cardinality(Slot) = MaxSlot /\ MaxLogSlots >= MaxSlot /\ MaxLogSlots \in Nat
          /\ MaxSlot \in Nat /\ Cardinality(Retained(b)) \in Nat
      BY <1>3, <3>1, SlotsFinite, ReplicaConfigAssumption DEF NoopFits
    <3>4. Cardinality(Retained(b)) < MaxLogSlots
      BY SMT, <3>2, <3>3
    <3> QED BY <3>4 DEF EnsureLogCapacity
  <2> QED BY <2>1, <2>4, <2>5, <2>6 DEF NoteProposed
<1>4. CASE /\ Undecided(m.core) = {} /\ \E s \in m.known : s > m.core.next
           /\ m.core.next \notin m.known /\ m.core.log[m.core.next] = NoEntry /\ Noop # {}
  <2>1. PICK noop \in Noop : TRUE
    BY <1>4
  <2>2. PICK c : c \in NoteProposed(m.core, m.core.next, <<noop>>)
    BY <1>3, <1>4
  <2>3. c \in (UNION {NoteProposed(m.core, m.core.next, <<k>>) : k \in Noop})
    BY <2>2
  <2>4. [m EXCEPT !.core = c] \in {[m EXCEPT !.core = d] :
               d \in (UNION {NoteProposed(m.core, m.core.next, <<k>>) : k \in Noop})}
    BY <2>3
  <2> QED BY <1>4, <2>4 DEF ArmGapNoop
<1> QED BY <1>1, <1>2, <1>4

------------------------------------------------------------------------------
(* Steps *)

\* The step computes m, which is then in memory, in the file or left to a late
\* save, or not; a restart loads the file, and a late save may replace it by
\* what is not in memory any more.
Moves(m) ==
  /\ late' \subseteq late \union {mem'}
  /\ \/ /\ mem' \in {mem, m}
        /\ disk' \in {disk, m} \/ (disk' \in late /\ faults'.overtaken)
     \/ mem' = disk /\ disk' = disk /\ late' = {}

\* Errors are counted.
Counts ==
  /\ faults' \in Faults
  /\ faults'.errors >= faults.errors
  /\ faults.overtaken => faults'.overtaken

\* Slots that are chosen stay so; what becomes chosen was proposed.
Grows ==
  /\ Counts
  /\ app \subseteq app' /\ app' \subseteq Slot
  /\ chosen' \in [Slot -> Seq(Values)]
  /\ \A s \in Slot : \/ chosen'[s] = chosen[s]
                     \/ /\ chosen[s] = << >> /\ chosen'[s] # << >>
                        /\ chosen'[s] \in Foreign \union offered[s]

\* Consensus is offered proposals that are in memory.
Offers ==
  /\ offered' = [s \in Slot |-> offered'[s]]
  /\ \A s \in Slot : \/ offered'[s] = offered[s]
                     \/ /\ s \in Undecided(mem'.core)
                        /\ offered'[s] = offered[s] \union {mem'.core.log[s].proposed}

Stays(m) == m = mem

Submits(m) ==
  \E i \in Request :
     /\ \E core \in Enqueue(mem.core, Ids[i]) : m = [mem EXCEPT !.core = core]
     /\ \/ accepted' = accepted
        \/ accepted' = accepted \union Range(Ids[i]) /\ mem' = m /\ disk' = m

Proposes(m) ==
  /\ CanPropose(mem.core) /\ NextOpenSlot(mem.core) <= MaxSlot
  /\ \E core \in NextProposal(mem.core) : m = [mem EXCEPT !.core = core]
  /\ mem' = m => disk' = m

Drains(m) ==
  /\ CanPropose(mem.core) /\ NextOpenSlot(mem.core) <= MaxSlot
  /\ NextProposal(mem.core) = {}
  /\ m = [mem EXCEPT !.core = Drained(@)]

Decides(m) ==
  \E slot \in Slot \ mem.known :
     /\ chosen'[slot] # << >>
     /\ m \in Applied(mem, slot, chosen'[slot]) \union WithDecision(mem, slot, chosen'[slot])

Arms(m) == m \in ArmGapNoop(mem)

Executes(m) == \E s \in mem.known : s \in app' /\ m = [mem EXCEPT !.executed = @ \union {s}]

Prunes(m) ==
  \E slot \in Slot : /\ transfer.at = "prune" /\ slot = transfer.slot /\ CanTransfer(mem, slot)
                     /\ m = Pruned(mem, slot)

Installs(m) ==
  /\ mem = NewNode
  /\ \E s \in Slot : m = Packaged(s) /\ RestorableNode(m) /\ 1 .. s \subseteq app'

Renumbers(m) == install = "announce" /\ m = [mem EXCEPT !.epoch = @ + 1]

Step(m) ==
  /\ Moves(m) /\ Grows /\ Offers
  /\ \/ Submits(m)
     \/ /\ accepted' = accepted
        /\ \/ Stays(m) \/ Proposes(m) \/ Drains(m) \/ Decides(m) \/ Arms(m)
           \/ Executes(m) \/ Prunes(m) \/ Installs(m) \/ Renumbers(m)

\* The parts of the counters.
LEMMA FaultParts ==
  ASSUME NEW f \in Faults
  PROVE  f.crashes \in Nat /\ f.errors \in Nat /\ f.overtaken \in BOOLEAN
BY SMT DEF Faults

\* A failed save is counted.
LEMMA ErrCounts ==
  ASSUME faults \in Faults, Err
  PROVE  Counts /\ faults' # faults /\ faults'.errors = faults.errors + 1 /\ faults'.errors # 0
         /\ faults'.overtaken = faults.overtaken
<1>1. PICK f : f = faults /\ f \in Faults
  OBVIOUS
<1>2. PICK e : e = faults'
  OBVIOUS
<1>3. e = [f EXCEPT !.errors = @ + 1]
  BY <1>1, <1>2 DEF Err
<1>4. /\ e \in Faults /\ e.errors = f.errors + 1 /\ e.overtaken = f.overtaken
      /\ f.errors \in Nat /\ e.errors >= f.errors /\ e # f /\ e.errors # 0
  BY ONLY SMT, <1>1, <1>3 DEF Faults
<1> QED BY <1>1, <1>2, <1>4 DEF Counts

\* Without a failure the counters stay.
LEMMA SameCounts ==
  ASSUME faults \in Faults, faults' = faults
  PROVE  Counts
<1>1. faults.errors \in Nat
  BY FaultParts
<1>2. faults.errors >= faults.errors
  BY SMT, <1>1
<1> QED BY <1>2 DEF Counts

\* A save installs the new state in memory and in the file, or fails and leaves
\* memory alone while the file holds either state.
LEMMA SaveMoves ==
  ASSUME faults \in Faults, NEW m, Save(m), late' = late
  PROVE  /\ Moves(m) /\ Counts
         /\ \/ mem' = m /\ disk' = m /\ faults' = faults
            \/ /\ mem' = mem /\ disk' \in {disk, m}
               /\ faults' # faults /\ faults'.errors = faults.errors + 1 /\ faults'.errors # 0
<1>1. CASE mem' = m /\ disk' = m /\ UNCHANGED faults
  BY <1>1, SameCounts DEF Moves
<1>2. CASE Err /\ UNCHANGED mem /\ \E d \in {disk, m} : disk' = d
  BY <1>2, ErrCounts DEF Moves
<1> QED BY <1>1, <1>2 DEF Save

\* A restart loads the file and drops what was still being written.
LEMMA RestartMoves ==
  ASSUME faults \in Faults, Restart(disk)
  PROVE  Moves(mem) /\ Counts /\ faults'.errors = faults.errors /\ mem' = disk /\ disk' = disk
         /\ late' = {}
<1>1. PICK f, e : f = faults /\ e = faults'
  OBVIOUS
<1>2. f \in Faults /\ e = [f EXCEPT !.crashes = @ + 1]
  BY <1>1 DEF Restart
<1>3. /\ e \in Faults /\ e.errors = f.errors /\ e.overtaken = f.overtaken
      /\ e.errors >= f.errors
  BY ONLY SMT, <1>2 DEF Faults
<1>4. mem' = disk /\ disk' = disk /\ late' = {}
  BY DEF Restart
<1> QED BY <1>1, <1>3, <1>4 DEF Moves, Counts

\* Nothing happens outside the node.
LEMMA GrowsNot ==
  ASSUME WorldOK, Counts, app' = app, consensus' = consensus
  PROVE  Grows /\ Offers
BY DEF WorldOK, Grows, Offers, consensus

\* What consensus may return for a slot.
LEMMA OutcomesTyped ==
  ASSUME WorldOK, NEW s \in Slot, NEW batch \in Outcomes(s)
  PROVE  /\ batch \in Seq(Values) /\ batch # << >>
         /\ \/ batch = chosen[s]
            \/ chosen[s] = << >> /\ batch \in Foreign \union offered[s]
<1>1. ASSUME NEW b \in Foreign PROVE b \in Seq(Values) /\ b # << >>
  <2>1. b \in Seq(Range(b)) /\ b # << >> /\ Range(b) \subseteq Values
    BY <1>1, NodeAssumption DEF Values
  <2> QED BY SMT, <2>1
<1>2. CASE chosen[s] = << >>
  BY <1>1, <1>2 DEF Outcomes, WorldOK
<1>3. CASE chosen[s] # << >>
  BY <1>3 DEF Outcomes, WorldOK
<1> QED BY <1>2, <1>3

\* The choice of one slot.
LEMMA ChoiceGrows ==
  ASSUME WorldOK, Counts, app \subseteq app', app' \subseteq Slot, NEW s \in Slot,
         NEW batch \in Outcomes(s), chosen' = [chosen EXCEPT ![s] = batch]
  PROVE  Grows /\ chosen'[s] = batch /\ chosen'[s] # << >>
<1>1. /\ batch \in Seq(Values) /\ batch # << >>
      /\ batch = chosen[s] \/ (chosen[s] = << >> /\ batch \in Foreign \union offered[s])
  BY OutcomesTyped
<1>2. \A t \in Slot : chosen'[t] = IF t = s THEN batch ELSE chosen[t]
  BY DEF WorldOK
<1>3. chosen' \in [Slot -> Seq(Values)]
  BY <1>1 DEF WorldOK
<1> QED BY <1>1, <1>2, <1>3 DEF Grows

\* Nothing is offered.
LEMMA OffersNot == ASSUME WorldOK, offered' = offered PROVE Offers
BY DEF WorldOK, Offers

\* An accepted decision is a step of the kinds above.
LEMMA AcceptStep ==
  ASSUME WorldOK, NEW a \in Task, NEW s \in Slot, Accept(a, s)
  PROVE  \E m : Step(m)
<1>1. PICK batch \in Outcomes(s) :
         chosen' = [chosen EXCEPT ![s] = batch] /\ AcceptDecision(a, s, batch)
  BY DEF Accept
<1>2. late' = late /\ app' = app /\ offered' = offered /\ accepted' = accepted
  BY DEF Accept
<1>3. faults \in Faults /\ app \subseteq Slot /\ Offers
  BY <1>2, OffersNot DEF WorldOK
<1>4. Counts => Grows /\ chosen'[s] = batch /\ chosen'[s] # << >>
  BY <1>1, <1>2, <1>3, ChoiceGrows
<1>5. CASE s \in mem.known /\ mem' \in ArmGapNoop(mem) /\ disk' = disk /\ faults' = faults
  <2>1. Moves(mem') /\ Counts
    BY <1>2, <1>3, <1>5, SameCounts DEF Moves
  <2> QED BY <1>2, <1>3, <1>4, <1>5, <2>1 DEF Step, Arms
<1>6. ASSUME s \notin mem.known, NEW m \in WithDecision(mem, s, batch), Save(m)
      PROVE  \E k : Step(k)
  <2>1. Moves(m) /\ Counts
    BY <1>2, <1>3, <1>6, SaveMoves
  <2>2. Decides(m)
    BY <1>4, <1>6, <2>1 DEF Decides
  <2> QED BY <1>2, <1>3, <1>4, <2>1, <2>2 DEF Step
<1>7. CASE mem' = mem /\ disk' = disk /\ faults' = faults
  <2>1. Moves(mem) /\ Counts
    BY <1>2, <1>3, <1>7, SameCounts DEF Moves
  <2> QED BY <1>2, <1>3, <1>4, <2>1 DEF Step, Stays
<1>8. CASE s \notin mem.known /\ mem' \in Applied(mem, s, batch) /\ disk' = disk /\ faults' = faults
  <2>1. Moves(mem') /\ Counts
    BY <1>2, <1>3, <1>8, SameCounts DEF Moves
  <2>2. Decides(mem')
    BY <1>4, <1>8, <2>1 DEF Decides
  <2> QED BY <1>2, <1>3, <1>4, <2>1, <2>2 DEF Step
<1> QED BY <1>1, <1>5, <1>6, <1>7, <1>8 DEF AcceptDecision

\* The next slot to execute.
LEMMA NextTodo ==
  ASSUME ControlInv, lock.todo # {}
  PROVE  /\ Min(lock.todo) \in lock.todo /\ Min(lock.todo) \in Slot /\ Min(lock.todo) \in mem.known
         /\ \A t \in lock.todo : Min(lock.todo) <= t
<1>1. PICK U : U = lock.todo
  OBVIOUS
<1>2. U \subseteq Slot /\ U \subseteq mem.known /\ U # {}
  BY <1>1 DEF ControlInv
<1>3. U \in SUBSET Nat
  BY SMT, <1>2, ReplicaConfigAssumption DEF Slot
<1>4. Min(U) \in U /\ \A t \in U : Min(U) <= t
  BY <1>2, <1>3, MinIs
<1> QED BY <1>1, <1>2, <1>4

\* So is a submission,
LEMMA SubmitStep ==
  ASSUME WorldOK, NEW i \in Request, Submit(i)
  PROVE  \E m : Step(m)
<1>1. late' = late /\ app' = app /\ consensus' = consensus /\ faults \in Faults
  BY DEF Submit, WorldOK
<1>2. CASE Enqueue(mem.core, Ids[i]) = {} /\ UNCHANGED <<mem, disk, task, accepted, faults>>
  <2>1. Moves(mem) /\ Counts
    BY <1>1, <1>2, SameCounts DEF Moves
  <2> QED BY <1>1, <1>2, <2>1, GrowsNot DEF Step, Stays
<1>3. ASSUME NEW core \in Enqueue(mem.core, Ids[i]), Save([mem EXCEPT !.core = core]),
             IF Saved THEN accepted' = accepted \union Range(Ids[i]) ELSE accepted' = accepted
      PROVE  \E m : Step(m)
  <2>1. PICK m : m = [mem EXCEPT !.core = core]
    OBVIOUS
  <2>2. /\ Moves(m) /\ Counts
        /\ (mem' = m /\ disk' = m) \/ faults' # faults
    BY <1>1, <1>3, <2>1, SaveMoves
  <2>3. Submits(m)
    BY <1>3, <2>1, <2>2 DEF Submits, Saved
  <2> QED BY <1>1, <2>2, <2>3, GrowsNot DEF Step
<1> QED BY <1>2, <1>3 DEF Submit

\* A step that computes nothing.
LEMMA StaysStep ==
  ASSUME WorldOK, mem' = mem, disk' = disk, late' = late, app' = app, consensus' = consensus,
         accepted' = accepted, Counts
  PROVE  \E m : Step(m)
<1>1. Moves(mem)
  BY DEF Moves
<1> QED BY <1>1, GrowsNot DEF Step, Stays

\* The least slot with a proposal for a request.
LEMMA ProposalFound ==
  ASSUME NEW i, ProposalsFor(i) # {}
  PROVE  Min(ProposalsFor(i)) \in Undecided(mem.core) /\ Min(ProposalsFor(i)) \in Slot
<1>1. PICK U : U = ProposalsFor(i)
  OBVIOUS
<1>2. U \subseteq Undecided(mem.core) /\ U \subseteq Slot /\ U # {}
  BY <1>1 DEF ProposalsFor, Undecided
<1>3. U \in SUBSET Nat
  BY SMT, <1>2, ReplicaConfigAssumption DEF Slot
<1>4. Min(U) \in U
  BY <1>2, <1>3, MinIs
<1> QED BY <1>1, <1>2, <1>4

\* What is offered is in memory.
LEMMA OfferOffers ==
  ASSUME WorldOK, NEW S, Offer(mem', S), S \cap Slot \subseteq Undecided(mem'.core)
  PROVE  Offers
BY DEF WorldOK, Offer, Offers

\* a turn of the proposal loop,
LEMMA LoopStep ==
  ASSUME StandingInv, NEW i \in Request, Loop(i)
  PROVE  \E m : Step(m)
<1>1. /\ late' = late /\ app' = app /\ chosen' = chosen /\ accepted' = accepted
      /\ WorldOK /\ faults \in Faults
  BY DEF Loop, StandingInv, WorldOK
<1>2. Counts => Grows
  BY <1>1 DEF Grows, WorldOK
<1>3. CASE UNCHANGED <<mem, disk, offered, faults>>
  BY <1>1, <1>3, StaysStep, SameCounts DEF consensus
<1>4. CASE ProposalsFor(i) # {} /\ Offer(mem, {Min(ProposalsFor(i))}) /\ UNCHANGED <<mem, disk, faults>>
  <2>1. Offer(mem', {Min(ProposalsFor(i))}) /\ Min(ProposalsFor(i)) \in Undecided(mem'.core)
    BY <1>4, ProposalFound
  <2>2. Offers
    BY <1>1, <2>1, OfferOffers
  <2>3. Moves(mem) /\ Counts
    BY <1>1, <1>4, SameCounts DEF Moves
  <2> QED BY <1>1, <1>2, <2>2, <2>3 DEF Step, Stays
<1>5. ASSUME CanPropose(mem.core), NextOpenSlot(mem.core) <= MaxSlot,
             NEW core \in NextProposal(mem.core), Save([mem EXCEPT !.core = core]),
             IF Saved THEN Offer(mem', {NextOpenSlot(mem.core)}) ELSE offered' = offered
      PROVE  \E m : Step(m)
  <2>1. PICK m : m = [mem EXCEPT !.core = core]
    OBVIOUS
  <2>2. /\ Moves(m) /\ Counts
        /\ (mem' = m /\ disk' = m /\ faults' = faults) \/ (mem' = mem /\ faults' # faults)
    BY <1>1, <1>5, <2>1, SaveMoves
  <2>3. mem \in Node /\ Sound(mem.core, Values) /\ mem.core \in CoreSet(Values)
    BY DEF StandingInv, States, Standing, Sound, Orderly
  <2>4. PICK b : b = mem.core
    OBVIOUS
  <2>5. Sound(core, Values) /\ Undecided(core) = Undecided(b) \union {NextOpenSlot(b)}
    <3>1. Sound(b, Values) /\ CanPropose(b) /\ NextOpenSlot(b) <= MaxSlot /\ core \in NextProposal(b)
      BY <1>5, <2>3, <2>4
    <3> QED BY ONLY SMT, <3>1, NextProposalFacts
  <2>6. m.core = core
    BY <2>1, <2>3, <2>5, NodeParts DEF Sound, Orderly
  <2>7. Offers
    <3>1. CASE faults' = faults
      BY <1>1, <1>5, <2>2, <2>4, <2>5, <2>6, <3>1, OfferOffers DEF Saved
    <3>2. CASE faults' # faults
      BY <1>1, <1>5, <3>2, OffersNot DEF Saved
    <3> QED BY <3>1, <3>2
  <2>8. mem' = m => disk' = m \/ Stays(m)
    BY <2>2 DEF Stays
  <2> QED BY <1>1, <1>2, <1>5, <2>1, <2>2, <2>7, <2>8 DEF Step, Proposes
<1>6. CASE /\ CanPropose(mem.core) /\ NextOpenSlot(mem.core) <= MaxSlot /\ NextProposal(mem.core) = {}
           /\ mem' = [mem EXCEPT !.core = Drained(@)] /\ UNCHANGED <<disk, offered, faults>>
  <2>1. Moves(mem') /\ Counts /\ Offers
    BY <1>1, <1>6, SameCounts, OffersNot DEF Moves
  <2> QED BY <1>1, <1>2, <1>6, <2>1 DEF Step, Drains
<1> QED BY <1>3, <1>4, <1>5, <1>6 DEF Loop

\* the execution of a committed slot,
LEMMA ExecuteStep ==
  ASSUME WorldOK, ControlInv, NEW a \in Task, Execute(a)
  PROVE  \E m : Step(m)
<1>1. PICK s : s = Min(lock.todo)
  OBVIOUS
<1>2. PICK m : m = [mem EXCEPT !.executed = @ \union {s}]
  OBVIOUS
<1>3. s \in Slot /\ s \in mem.known
  BY <1>1, NextTodo DEF Execute
<1>4. app' = app \union {s} /\ consensus' = consensus /\ accepted' = accepted /\ faults \in Faults
  BY <1>1 DEF Execute, WorldOK
<1>5. Counts => Grows /\ Offers
  BY <1>3, <1>4, OffersNot DEF WorldOK, Grows, consensus
<1>6. Executes(m)
  BY <1>2, <1>3, <1>4 DEF Executes
<1>7. CASE mem' = m /\ disk' = m /\ late' = late /\ faults' = faults
  <2>1. Moves(m) /\ Counts
    BY <1>4, <1>7, SameCounts DEF Moves
  <2> QED BY <1>4, <1>5, <1>6, <2>1 DEF Step
<1>8. CASE Err /\ mem' = m /\ (\E d \in {disk, m} : disk' = d) /\ late' = late
  <2>1. Moves(m) /\ Counts
    BY <1>4, <1>8, ErrCounts DEF Moves
  <2> QED BY <1>4, <1>5, <1>6, <2>1 DEF Step
<1>9. CASE Restart(disk)
  <2>1. Moves(mem) /\ Counts
    BY <1>4, <1>9, RestartMoves
  <2> QED BY <1>4, <1>5, <2>1 DEF Step, Stays
<1> QED BY <1>1, <1>2, <1>7, <1>8, <1>9 DEF Execute

\* a recovery whose task fails,
LEMMA RecoverFailsStep ==
  ASSUME WorldOK, ControlInv, NEW d \in Drivers, RecoverFails(d)
  PROVE  \E m : Step(m)
<1>1. Err /\ disk' = disk /\ offered' = offered /\ accepted' = accepted /\ faults \in Faults
  BY DEF RecoverFails, WorldOK
<1>2. Counts /\ Offers
  BY <1>1, ErrCounts, OffersNot
<1>3. CASE UNCHANGED <<mem, late, app, chosen>>
  BY <1>1, <1>2, <1>3, StaysStep DEF consensus
<1>4. ASSUME NEW e \in Drivers, task[e].at = "call", task[e].slot \notin mem.known,
             NEW batch \in Outcomes(task[e].slot),
             chosen' = [chosen EXCEPT ![task[e].slot] = batch],
             mem' \in WithDecision(mem, task[e].slot, batch), late' = late \union {mem'}, app' = app
      PROVE  \E m : Step(m)
  <2>1. task[e].slot \in Slot
    BY <1>4 DEF ControlInv, Task
  <2>2. Grows /\ chosen'[task[e].slot] = batch /\ chosen'[task[e].slot] # << >>
    BY <1>2, <1>4, <2>1, ChoiceGrows DEF WorldOK
  <2>3. Moves(mem')
    BY <1>1, <1>4 DEF Moves
  <2>4. Decides(mem')
    BY <1>4, <2>1, <2>2 DEF Decides
  <2> QED BY <1>1, <1>2, <2>2, <2>3, <2>4 DEF Step
<1>5. ASSUME lock.todo # {}, app' = app \union {Min(lock.todo)}, chosen' = chosen,
             \/ UNCHANGED <<mem, late>>
             \/ /\ mem' = [mem EXCEPT !.executed = @ \union {Min(lock.todo)}]
                /\ late' = late \union {mem'}
      PROVE  \E m : Step(m)
  <2>1. PICK s : s = Min(lock.todo) /\ s \in Slot /\ s \in mem.known
    BY <1>5, NextTodo
  <2>2. Grows
    BY <1>2, <1>5, <2>1 DEF Grows, WorldOK
  <2>3. CASE UNCHANGED <<mem, late>>
    BY <1>1, <1>2, <2>2, <2>3 DEF Step, Stays, Moves
  <2>4. CASE mem' = [mem EXCEPT !.executed = @ \union {s}] /\ late' = late \union {mem'}
    <3>1. Moves(mem') /\ Executes(mem')
      BY <1>1, <1>5, <2>1, <2>4 DEF Moves, Executes
    <3> QED BY <1>1, <1>2, <2>2, <3>1 DEF Step
  <2> QED BY <1>5, <2>1, <2>3, <2>4
<1> QED BY <1>3, <1>4, <1>5 DEF RecoverFails

\* and the installation of a transferred state.
LEMMA InstallTransferStep ==
  ASSUME WorldOK, NEW s \in Slot, InstallTransfer(s)
  PROVE  \E m : Step(m)
<1>1. /\ mem = NewNode /\ RestorableNode(Packaged(s)) /\ Save(Packaged(s))
      /\ app' = app \union 1 .. s /\ late' = late /\ offered' = offered /\ accepted' = accepted
      /\ faults \in Faults
  BY DEF InstallTransfer, WorldOK
<1>2. PICK m : m = Packaged(s)
  OBVIOUS
<1>3. Moves(m) /\ Counts /\ Offers
  BY <1>1, <1>2, SaveMoves, OffersNot
<1>4. 1 .. s \subseteq Slot
  BY SMT, ReplicaConfigAssumption DEF Slot
<1>5. /\ DOMAIN chosen' = Slot
      /\ \A t \in Slot : IF t <= s THEN chosen'[t] \in Outcomes(t) ELSE chosen'[t] = chosen[t]
  BY DEF InstallTransfer
<1>6. ASSUME NEW t \in Slot
      PROVE  /\ chosen'[t] \in Seq(Values)
             /\ \/ chosen'[t] = chosen[t]
                \/ /\ chosen[t] = << >> /\ chosen'[t] # << >>
                   /\ chosen'[t] \in Foreign \union offered[t]
  <2>1. CASE t <= s
    BY <1>5, <2>1, OutcomesTyped
  <2>2. CASE ~(t <= s)
    BY <1>5, <2>2 DEF WorldOK
  <2> QED BY <2>1, <2>2
<1>7. chosen' \in [Slot -> Seq(Values)]
  <2>1. chosen' = [t \in Slot |-> chosen'[t]]
    BY <1>5 DEF InstallTransfer
  <2> QED BY <1>6, <2>1
<1>8. Grows
  BY <1>1, <1>3, <1>4, <1>6, <1>7 DEF Grows, WorldOK
<1>9. Installs(m)
  BY <1>1, <1>2 DEF Installs
<1> QED BY <1>1, <1>3, <1>8, <1>9 DEF Step

\* Every step of the node is a Step.
LEMMA StepShape ==
  ASSUME StandingInv, ControlInv, [Next]_vars
  PROVE  \E m : Step(m)
<1>1. WorldOK /\ faults \in Faults
  BY DEF StandingInv, WorldOK
<1>2. CASE UNCHANGED vars
  BY <1>1, <1>2, StaysStep, SameCounts DEF vars
<1>3. ASSUME NEW i \in Request, Submit(i) \/ Loop(i) \/ ProposeFails(i) PROVE \E m : Step(m)
  <2>1. CASE ProposeFails(i)
    BY <1>1, <2>1, StaysStep, SameCounts DEF ProposeFails
  <2> QED BY <1>1, <1>3, <2>1, SubmitStep, LoopStep
<1>4. ASSUME NEW a \in Task, StandDown(a) \/ Decide(a) \/ Execute(a) \/ ExecuteFails(a) \/ Accepted(a)
      PROVE  \E m : Step(m)
  <2>1. CASE StandDown(a) \/ Accepted(a)
    BY <1>1, <2>1, StaysStep, SameCounts DEF StandDown, Accepted
  <2>2. CASE Decide(a)
    <3>1. task[a].slot \in Slot
      BY <2>2 DEF Decide, ControlInv
    <3> QED BY <1>1, <2>2, <3>1, AcceptStep DEF Decide
  <2>3. CASE Execute(a)
    BY <1>1, <2>3, ExecuteStep
  <2>4. CASE ExecuteFails(a)
    BY <1>1, <2>4, StaysStep, ErrCounts DEF ExecuteFails
  <2> QED BY <1>4, <2>1, <2>2, <2>3, <2>4
<1>5. ASSUME NEW s \in Slot, Receive(s) \/ ReceiveOwn(s) PROVE \E m : Step(m)
  <2>1. Receiver \in Task
    BY DEF Task
  <2> QED BY <1>1, <1>5, <2>1, AcceptStep DEF Receive, ReceiveOwn
<1>6. CASE Recover
  <2>1. late' = late /\ app' = app /\ consensus' = consensus /\ accepted' = accepted
    BY <1>6 DEF Recover
  <2>2. CASE UNCHANGED <<mem, disk, faults>>
    BY <1>1, <2>1, <2>2, StaysStep, SameCounts
  <2>3. ASSUME NEW m \in ArmGapNoop(mem), Save(m) PROVE \E k : Step(k)
    <3>1. Moves(m) /\ Counts
      BY <1>1, <2>1, <2>3, SaveMoves
    <3> QED BY <1>1, <2>1, <2>3, <3>1, GrowsNot DEF Step, Arms
  <2> QED BY <1>6, <2>2, <2>3 DEF Recover
<1>7. CASE Drive
  <2>1. /\ UNCHANGED <<mem, disk, late, app, chosen, accepted, faults>>
        /\ Offer(mem', {s \in Undecided(mem.core) : task[Driver(s)] = Idle})
    BY <1>7 DEF Drive
  <2>2. Offers
    BY <1>1, <2>1, OfferOffers
  <2>3. Moves(mem) /\ Counts
    BY <1>1, <2>1, SameCounts DEF Moves
  <2>4. Grows
    BY <1>1, <2>1, <2>3 DEF Grows, WorldOK
  <2> QED BY <2>1, <2>2, <2>3, <2>4 DEF Step, Stays
<1>8. ASSUME NEW d \in Drivers, RecoverFails(d) PROVE \E m : Step(m)
  BY <1>1, <1>8, RecoverFailsStep
<1>9. CASE LateSave
  <2>1. PICK m \in late : /\ disk' = m /\ late' = late \ {m}
                          /\ faults' = [faults EXCEPT !.overtaken = @ \/ mem # m]
                          /\ UNCHANGED <<mem, app, consensus, accepted>>
    BY <1>9 DEF LateSave
  <2>2. Counts /\ (disk' = mem \/ faults'.overtaken)
    <3>1. PICK f, e, o : f = faults /\ e = faults' /\ o = (f.overtaken \/ mem # m)
      OBVIOUS
    <3>2. o \in BOOLEAN /\ e = [f EXCEPT !.overtaken = o] /\ f \in Faults
      BY <1>1, <2>1, <3>1
    <3>3. e \in Faults /\ e.errors = f.errors /\ e.overtaken = o /\ e.errors >= f.errors
      BY ONLY SMT, <3>2 DEF Faults
    <3> QED BY <2>1, <3>1, <3>3 DEF Counts
  <2>3. Moves(mem)
    BY <2>1, <2>2 DEF Moves
  <2> QED BY <1>1, <2>1, <2>2, <2>3, GrowsNot DEF Step, Stays
<1>10. ASSUME NEW s \in Slot, BeginTransfer(s) \/ InstallTransfer(s) PROVE \E m : Step(m)
  <2>1. CASE BeginTransfer(s)
    BY <1>1, <2>1, StaysStep, SameCounts DEF BeginTransfer
  <2> QED BY <1>1, <1>10, <2>1, InstallTransferStep
<1>11. CASE Export \/ TransferFails \/ BeginInstall \/ OwnTimesOut
  BY <1>1, <1>11, StaysStep, SameCounts DEF Export, TransferFails, BeginInstall, OwnTimesOut
<1>12. CASE Prune
  <2>1. late' = late /\ app' = app /\ consensus' = consensus /\ accepted' = accepted
    BY <1>12 DEF Prune
  <2>2. CASE UNCHANGED <<mem, disk, faults>>
    BY <1>1, <2>1, <2>2, StaysStep, SameCounts
  <2>3. CASE CanTransfer(mem, transfer.slot) /\ Save(Pruned(mem, transfer.slot))
    <3>1. Moves(Pruned(mem, transfer.slot)) /\ Counts
      BY <1>1, <2>1, <2>3, SaveMoves
    <3>2. transfer.slot \in Slot /\ transfer.at = "prune"
      BY <1>12 DEF Prune, ControlInv
    <3> QED BY <1>1, <2>1, <2>3, <3>1, <3>2, GrowsNot DEF Step, Prunes
  <2> QED BY <1>12, <2>2, <2>3 DEF Prune
<1>13. CASE AnnounceAll
  BY <1>1, <1>13, StaysStep, SameCounts DEF AnnounceAll
<1>14. CASE InstallMembership
  <2>1. /\ late' = late /\ app' = app /\ consensus' = consensus /\ accepted' = accepted
        /\ Save([mem EXCEPT !.epoch = @ + 1]) /\ install = "announce"
    BY <1>14 DEF InstallMembership
  <2>2. Moves([mem EXCEPT !.epoch = @ + 1]) /\ Counts
    BY <1>1, <2>1, SaveMoves
  <2> QED BY <1>1, <2>1, <2>2, GrowsNot DEF Step, Renumbers
<1>15. CASE InstallFails
  BY <1>1, <1>15, StaysStep, ErrCounts DEF InstallFails
<1>16. CASE Crash
  <2>1. app' = app /\ consensus' = consensus /\ accepted' = accepted /\ Moves(mem) /\ Counts
    BY <1>1, <1>16, RestartMoves DEF Crash
  <2> QED BY <1>1, <2>1, GrowsNot DEF Step, Stays
<1> QED BY <1>2, <1>3, <1>4, <1>5, <1>6, <1>7, <1>8, <1>9, <1>10, <1>11, <1>12, <1>13, <1>14,
           <1>15, <1>16 DEF Next

------------------------------------------------------------------------------
(* Standing *)

\* A state stays one to run with while consensus chooses more.
LEMMA StandingGrows ==
  ASSUME NEW m, Standing(m, chosen), Grows
  PROVE  Standing(m, chosen')
<1>1. ASSUME NEW s \in Decided(m.core)
      PROVE  (s \in m.known \/ s <= m.core.floor) /\ m.core.log[s].decision = chosen'[s]
  <2>1. s \in Slot /\ m.core.log[s].decision # << >> /\ m.core.log[s].decision = chosen[s]
    BY DEF Standing, Decided
  <2>2. chosen'[s] = chosen[s]
    BY <2>1 DEF Grows
  <2> QED BY <2>1, <2>2 DEF Standing
<1> QED BY <1>1 DEF Standing

\* What pruning leaves of a state.
LeavesPruned(m, slot, n, d) ==
  /\ n \in Node /\ n.core = d /\ n.epoch = m.epoch
  /\ n.known = {s \in m.known : s > slot} /\ n.executed = {s \in m.executed : s > slot}
  /\ Sound(d, Values) /\ d.floor \in {slot, m.core.floor} /\ d.floor >= slot /\ d.floor >= m.core.floor
  /\ d.next = m.core.next /\ d.seen = m.core.seen /\ d.pending = m.core.pending
  /\ Decided(d) = {s \in Decided(m.core) : s > d.floor \/ s <= m.core.floor}
  /\ Undecided(d) = Undecided(m.core)
  /\ \A s \in Slot : s > d.floor \/ s <= m.core.floor => d.log[s] = m.core.log[s]
  /\ Live(d) = Live(m.core)
  /\ Distinct(m.core) => Distinct(d)

\* What prune_through leaves of a node.
LEMMA PrunedFacts ==
  ASSUME NEW m \in Node, Sound(m.core, Values), NEW slot \in Slot, slot <= CommittedThrough(m.core)
  PROVE  LeavesPruned(m, slot, Pruned(m, slot), PruneThrough(m.core, slot))
<1>1. PICK n, d, b : n = Pruned(m, slot) /\ d = PruneThrough(b, slot) /\ b = m.core
  OBVIOUS
<1>2. /\ Sound(d, Values) /\ d.next = b.next /\ d.seen = b.seen /\ d.pending = b.pending
      /\ d.floor \in {slot, b.floor} /\ d.floor >= slot /\ d.floor >= b.floor
      /\ Decided(d) = {s \in Decided(b) : s > d.floor \/ s <= b.floor}
      /\ Undecided(d) = Undecided(b)
      /\ \A s \in Slot : s > d.floor \/ s <= b.floor => d.log[s] = b.log[s]
      /\ Live(d) = Live(b)
      /\ Distinct(b) => Distinct(d)
  <2>1. Sound(b, Values) /\ slot <= CommittedThrough(b)
    BY <1>1
  <2> QED BY ONLY SMT, <1>1, <2>1, slot \in Slot, PruneThroughFacts
<1>3. d \in CoreSet(Values)
  BY <1>2 DEF Sound, Orderly
<1>4. PICK k, e : /\ k = {s \in m.known : s > slot} /\ e = {s \in m.executed : s > slot}
                  /\ k \in SUBSET Slot /\ e \in SUBSET Slot
  <2>1. m.known \subseteq Slot /\ m.executed \subseteq Slot
    BY NodeParts
  <2>2. {s \in m.known : s > slot} \in SUBSET Slot /\ {s \in m.executed : s > slot} \in SUBSET Slot
    BY <2>1
  <2> QED BY <2>2
<1>5. n = [core |-> d, known |-> k, executed |-> e, epoch |-> m.epoch]
  <2>1. n = [m EXCEPT !.core = d, !.known = k, !.executed = e]
    BY <1>1, <1>4 DEF Pruned
  <2> QED BY ONLY <2>1, m \in Node DEF Node
<1>6. n \in Node /\ n.core = d /\ n.epoch = m.epoch /\ n.known = k /\ n.executed = e
  BY <1>3, <1>4, <1>5, NodeParts DEF Node
<1> QED BY <1>1, <1>2, <1>4, <1>6 DEF LeavesPruned

\* A new node stands.
LEMMA NewStands == ASSUME NEW decided PROVE Standing(NewNode, decided)
<1>1. NewNode.core = NewReplica /\ NewNode.known = {} /\ NewNode.executed = {} /\ NewNode.epoch = 0
  BY DEF NewNode
<1>2. Sound(NewReplica, Values)
  BY NewSound
<1>3. NewNode \in Node
  BY SMT, <1>2 DEF NewNode, Node, Sound, Orderly
<1>4. Decided(NewReplica) = {}
  BY SMT DEF Decided, NewReplica, NoEntry
<1> QED BY <1>1, <1>2, <1>3, <1>4 DEF Standing

\* What a package restores.
LEMMA PackagedParts ==
  ASSUME NEW s \in Slot
  PROVE  LET m == Packaged(s)
             c == [log |-> [t \in Slot |-> NoEntry], pending |-> << >>, next |-> s + 1, floor |-> s,
                   seen |-> UNION {Range(chosen'[t]) : t \in 1 .. s}]
         IN  m = [core |-> c, known |-> {}, executed |-> {}, epoch |-> 0]
<1>1. PICK S : S = UNION {Range(chosen'[t]) : t \in 1 .. s}
  OBVIOUS
<1>2. Packaged(s) = [NewNode EXCEPT !.core.next = s + 1, !.core.floor = s, !.core.seen = S]
  BY <1>1 DEF Packaged
<1>3. PICK L, q : L = [t \in Slot |-> NoEntry] /\ q = << >>
  OBVIOUS
<1>4. NewNode = [core |-> [log |-> L, pending |-> q, next |-> 1, floor |-> 0, seen |-> {}],
                 known |-> {}, executed |-> {}, epoch |-> 0]
  BY <1>3 DEF NewNode, NewReplica
<1>5. Packaged(s) = [core |-> [log |-> L, pending |-> q, next |-> s + 1, floor |-> s, seen |-> S],
                     known |-> {}, executed |-> {}, epoch |-> 0]
  BY ONLY ZenonT(40), <1>2, <1>4
<1> QED BY <1>1, <1>3, <1>5

\* A new state with epoch + 1, or with one more mark.
LEMMA OtherParts ==
  ASSUME NEW m \in Node
  PROVE  /\ LET n == [m EXCEPT !.epoch = @ + 1]
            IN  n \in Node /\ n.core = m.core /\ n.known = m.known /\ n.executed = m.executed
                /\ n.epoch = m.epoch + 1
         /\ \A s \in Slot :
              LET n == [m EXCEPT !.executed = @ \union {s}]
              IN  n \in Node /\ n.core = m.core /\ n.known = m.known
                  /\ n.executed = m.executed \union {s} /\ n.epoch = m.epoch
BY SMT DEF Node

\* What an operation on the core leaves of a state.
LEMMA CoreStands ==
  ASSUME NEW m, NEW decided, Standing(m, decided), NEW core, Sound(core, Values),
         Decided(core) = Decided(m.core), core.floor = m.core.floor,
         \A s \in Slot : core.log[s].decision = m.core.log[s].decision,
         NEW n, n = [m EXCEPT !.core = core]
  PROVE  /\ Standing(n, decided) /\ n.core = core
         /\ n.known = m.known /\ n.executed = m.executed /\ n.epoch = m.epoch
<1>1. m \in Node /\ core \in CoreSet(Values)
  BY DEF Standing, Sound, Orderly
<1>2. /\ n \in Node /\ n.core = core /\ n.known = m.known /\ n.executed = m.executed
      /\ n.epoch = m.epoch
  BY <1>1, NodeParts
<1> QED BY ZenonT(40), <1>2, SameDecisions

\* The values of a request.
LEMMA RequestBatch ==
  ASSUME NEW i \in Request
  PROVE  Ids[i] \in Seq(Values) /\ IsInjective(Ids[i]) /\ Range(Ids[i]) \subseteq Value
<1>1. Ids[i] \in Seq(Range(Ids[i])) /\ IsInjective(Ids[i])
  BY NodeAssumption
<1>2. Range(Ids[i]) \subseteq Value /\ Range(Ids[i]) \subseteq Values
  BY DEF Value, Values
<1>3. Ids[i] \in Seq(Values)
  BY SMT, <1>1, <1>2
<1> QED BY <1>1, <1>2, <1>3

\* The operations on the queue keep the log's decisions.
SameNode(n, m) ==
  n.known = m.known /\ n.executed = m.executed /\ n.epoch = m.epoch
  /\ n.core.next = m.core.next /\ n.core.floor = m.core.floor
  /\ m.core.seen \subseteq n.core.seen
  /\ Decided(n.core) = Decided(m.core)
  /\ \A s \in Slot : n.core.log[s].decision = m.core.log[s].decision

\* A submission changes the queue only, and the result stands.
LEMMA SubmitsFacts ==
  ASSUME Standing(mem, chosen'), NEW m, Submits(m)
  PROVE  Standing(m, chosen') /\ SameNode(m, mem)
<1>1. PICK i \in Request : \E core \in Enqueue(mem.core, Ids[i]) : m = [mem EXCEPT !.core = core]
  BY DEF Submits
<1>2. PICK core \in Enqueue(mem.core, Ids[i]) : m = [mem EXCEPT !.core = core]
  BY <1>1
<1>3. PICK b, q : b = mem.core /\ q = Ids[i]
  OBVIOUS
<1>4. Sound(b, Values) /\ q \in Seq(Values) /\ IsInjective(q) /\ core \in Enqueue(b, q)
  BY <1>2, <1>3, RequestBatch DEF Standing
<1>5. /\ Sound(core, Values) /\ core.log = b.log /\ core.next = b.next /\ core.floor = b.floor
      /\ b.seen \subseteq core.seen
  BY ONLY SMT, <1>4, EnqueueFacts
<1>6. Decided(core) = Decided(b)
  BY <1>5 DEF Decided
<1>7. PICK decided : decided = chosen'
  OBVIOUS
<1>8. /\ Standing(m, decided) /\ m.core = core
      /\ m.known = mem.known /\ m.executed = mem.executed /\ m.epoch = mem.epoch
  <2>1. /\ Standing(mem, decided) /\ Sound(core, Values)
        /\ Decided(core) = Decided(mem.core) /\ core.floor = mem.core.floor
        /\ \A s \in Slot : core.log[s].decision = mem.core.log[s].decision
    BY <1>3, <1>5, <1>6, <1>7
  <2> QED BY ONLY <1>2, <2>1, CoreStands
<1> QED BY <1>3, <1>5, <1>6, <1>7, <1>8 DEF SameNode

\* A proposal moves values from the queue to a slot, and the result stands.
LEMMA ProposesFacts ==
  ASSUME Standing(mem, chosen'), NEW m, Proposes(m) \/ Drains(m)
  PROVE  Standing(m, chosen') /\ SameNode(m, mem)
<1>1. PICK b : b = mem.core
  OBVIOUS
<1>2. PICK core : m = [mem EXCEPT !.core = core] /\ (core \in NextProposal(b) \/ core = Drained(b))
  BY <1>1 DEF Proposes, Drains
<1>3. Sound(b, Values) /\ CanPropose(b) /\ NextOpenSlot(b) <= MaxSlot /\ b.pending # << >>
  BY <1>1 DEF Standing, Proposes, Drains, CanPropose
<1>4. /\ Sound(core, Values) /\ core.next = b.next /\ core.floor = b.floor /\ core.seen = b.seen
      /\ Decided(core) = Decided(b)
      /\ \A s \in Slot : core.log[s].decision = b.log[s].decision
  <2>1. CASE core \in NextProposal(b)
    BY ONLY SMT, <1>3, <2>1, NextProposalFacts
  <2>2. CASE core = Drained(b)
    BY ONLY SMT, <1>3, <2>2, DrainedFacts
  <2> QED BY <1>2, <2>1, <2>2
<1>5. PICK decided : decided = chosen'
  OBVIOUS
<1>6. /\ Standing(m, decided) /\ m.core = core
      /\ m.known = mem.known /\ m.executed = mem.executed /\ m.epoch = mem.epoch
  <2>1. /\ Standing(mem, decided) /\ Sound(core, Values)
        /\ Decided(core) = Decided(mem.core) /\ core.floor = mem.core.floor
        /\ \A s \in Slot : core.log[s].decision = mem.core.log[s].decision
    BY <1>1, <1>4, <1>5
  <2> QED BY ONLY <1>2, <2>1, CoreStands
<1> QED BY <1>1, <1>4, <1>5, <1>6 DEF SameNode

\* A decision taken from consensus leaves a standing state.
LEMMA DecidesFacts ==
  ASSUME Standing(mem, chosen'), Grows, NEW m, NEW slot \in Slot \ mem.known, chosen'[slot] # << >>,
         m \in Applied(mem, slot, chosen'[slot]) \union WithDecision(mem, slot, chosen'[slot])
  PROVE  Standing(m, chosen') /\ Deciding(m, mem, slot)
<1>1. PICK decided : decided = chosen'
  OBVIOUS
<1>2. /\ Standing(mem, decided) /\ slot \in Slot /\ slot \notin mem.known
      /\ decided[slot] \in Seq(Values) /\ decided[slot] # << >>
      /\ m \in Applied(mem, slot, decided[slot]) \/ m \in WithDecision(mem, slot, decided[slot])
  BY <1>1 DEF Grows
<1>3. Standing(m, decided) /\ Deciding(m, mem, slot)
  BY <1>2, AppliedFacts, WithDecisionFacts
<1> QED BY <1>1, <1>3

\* Pruning a transferable prefix leaves a standing state.
LEMMA PrunesStand ==
  ASSUME NEW m, NEW decided, Standing(m, decided), NEW slot \in Slot, CanTransfer(m, slot)
  PROVE  Standing(Pruned(m, slot), decided)
         /\ LeavesPruned(m, slot, Pruned(m, slot), PruneThrough(m.core, slot))
<1>1. m \in Node /\ Sound(m.core, Values) /\ slot <= CommittedThrough(m.core)
  BY DEF Standing, CanTransfer
<1>2. PICK n, d : /\ n = Pruned(m, slot) /\ d = PruneThrough(m.core, slot)
                  /\ LeavesPruned(m, slot, n, d)
  BY <1>1, PrunedFacts
<1>3. /\ m.core.floor \in Nat /\ d.floor \in Nat /\ slot \in Nat /\ \A s \in Slot : s \in Nat
      /\ d.floor >= slot /\ d.floor >= m.core.floor
      /\ Decided(m.core) \subseteq Slot
  BY <1>1, <1>2, CoreParts DEF LeavesPruned, Sound, Orderly, Decided
<1>4. ASSUME NEW s \in m.known, s > slot PROVE s \in Decided(d)
  <2>1. s \in Decided(m.core) /\ s \in Slot
    BY <1>3 DEF Standing
  <2>2. s > d.floor \/ s <= m.core.floor
    <3>1. d.floor = slot \/ d.floor = m.core.floor
      BY <1>2 DEF LeavesPruned
    <3> QED BY ONLY SMTT(20), <1>3, <1>4, <2>1, <3>1
  <2> QED BY <1>2, <2>1, <2>2 DEF LeavesPruned
<1>5. ASSUME NEW s \in Decided(d)
      PROVE  (s \in n.known \/ s <= d.floor) /\ d.log[s].decision = decided[s]
  <2>1. s \in Decided(m.core) /\ s \in Slot /\ (s > d.floor \/ s <= m.core.floor)
    BY <1>2, <1>3 DEF LeavesPruned
  <2>2. d.log[s] = m.core.log[s] /\ m.core.log[s].decision = decided[s]
        /\ (s \in m.known \/ s <= m.core.floor)
    BY <1>2, <2>1 DEF LeavesPruned, Standing
  <2>3. /\ s \in Nat /\ slot \in Nat /\ d.floor \in Nat /\ m.core.floor \in Nat
        /\ d.floor >= slot /\ d.floor >= m.core.floor
    BY <1>3, <2>1
  <2>4. (s > d.floor => s > slot) /\ (s <= m.core.floor => s <= d.floor)
    BY ONLY SMT, <2>3
  <2> QED BY <1>2, <2>1, <2>2, <2>4 DEF LeavesPruned
<1>6. n.executed \subseteq n.known /\ n.known \subseteq Decided(d)
  BY <1>2, <1>4 DEF LeavesPruned, Standing
<1>7. Standing(n, decided)
  BY <1>2, <1>5, <1>6 DEF LeavesPruned, Standing
<1> QED BY <1>2, <1>7

\* A package holds finitely many values.
LEMMA FiniteRanges ==
  ASSUME NEW f \in [Slot -> Seq(Values)], NEW s \in Slot
  PROVE  LET S == UNION {Range(f[t]) : t \in 1 .. s}
         IN  IsFiniteSet(S) /\ S \subseteq Values
<1>1. 1 .. s \subseteq Slot /\ s \in Nat
  BY SMT, ReplicaConfigAssumption DEF Slot
<1>2. \A t \in 1 .. s : IsFiniteSet(Range(f[t])) /\ Range(f[t]) \subseteq Values
  BY <1>1, RangeIs
<1>3. PICK R : R = {Range(f[t]) : t \in 1 .. s}
  OBVIOUS
<1>4. PICK g : g = [t \in 1 .. s |-> Range(f[t])]
  OBVIOUS
<1>5. g \in Surjection(1 .. s, R)
  BY <1>3, <1>4 DEF Surjection
<1>6. IsFiniteSet(1 .. s)
  BY <1>1, SlotsFinite
<1>7. IsFiniteSet(R)
  BY <1>5, <1>6, FS_Surjection
<1>8. IsFiniteSet(UNION R)
  BY <1>2, <1>3, <1>7, FS_UNION
<1>9. UNION R \subseteq Values
  BY <1>2, <1>3
<1> QED BY <1>3, <1>8, <1>9

\* What InstallTransfer leaves.
LeavesInstalled(m, s) ==
  /\ m.known = {} /\ m.executed = {} /\ m.epoch = 0
  /\ m.core.next = s + 1 /\ m.core.floor = s /\ m.core.pending = << >>
  /\ m.core.seen = UNION {Range(chosen'[t]) : t \in 1 .. s}
  /\ \A t \in Slot : m.core.log[t] = NoEntry
  /\ Decided(m.core) = {} /\ Undecided(m.core) = {}

\* The state a transfer packages stands once it passes validate_state.
LEMMA PackagedStands ==
  ASSUME chosen' \in [Slot -> Seq(Values)], NEW s \in Slot, RestorableNode(Packaged(s))
  PROVE  Standing(Packaged(s), chosen') /\ LeavesInstalled(Packaged(s), s)
<1>1. PICK m : m = Packaged(s)
  OBVIOUS
<1>2. PICK L, S : L = [t \in Slot |-> NoEntry] /\ S = UNION {Range(chosen'[t]) : t \in 1 .. s}
  OBVIOUS
<1>3. m = [core |-> [log |-> L, pending |-> << >>, next |-> s + 1, floor |-> s, seen |-> S],
           known |-> {}, executed |-> {}, epoch |-> 0]
  BY <1>1, <1>2, PackagedParts
<1>4. /\ m.core = [log |-> L, pending |-> << >>, next |-> s + 1, floor |-> s, seen |-> S]
      /\ m.core.log = L /\ m.core.pending = << >> /\ m.core.next = s + 1 /\ m.core.floor = s
      /\ m.core.seen = S /\ m.known = {} /\ m.executed = {} /\ m.epoch = 0
  BY <1>3
<1>5. IsFiniteSet(S) /\ S \subseteq Values
  <2>1. PICK f : f = chosen'
    OBVIOUS
  <2> QED BY <1>2, <2>1, FiniteRanges
<1>6. /\ NoEntry \in Entry(Values) /\ NoEntry.decision = << >> /\ NoEntry.proposed = << >>
      /\ NoEntry.committed = FALSE
  BY SMT DEF NoEntry, Entry
<1>7. /\ \A t \in Slot : m.core.log[t] = NoEntry
      /\ Decided(m.core) = {} /\ Undecided(m.core) = {}
  <2>1. \A t \in Slot : m.core.log[t] = NoEntry
    BY <1>2, <1>4
  <2> QED BY <1>6, <2>1 DEF Decided, Undecided
<1>8. s + 1 \in 1 .. MaxSlot + 1 /\ s \in 0 .. MaxSlot /\ << >> \in Seq(Values)
  BY SMT, ReplicaConfigAssumption DEF Slot
<1>9. m.core \in CoreSet(Values)
  <2>1. L \in [Slot -> Entry(Values)] /\ S \in SUBSET Values
    BY <1>2, <1>5, <1>6
  <2> QED BY ONLY SMT, <1>4, <1>8, <2>1 DEF CoreSet
<1>10. m \in Node
  BY SMT, <1>3, <1>4, <1>9 DEF Node
<1>11. Sound(m.core, Values)
  <2>1. Restorable(m.core)
    BY <1>1 DEF RestorableNode
  <2> QED BY <1>4, <1>5, <1>6, <1>7, <1>9, <2>1 DEF Sound, Orderly
<1>12. Standing(m, chosen')
  BY <1>4, <1>7, <1>10, <1>11 DEF Standing
<1> QED BY <1>1, <1>2, <1>4, <1>7, <1>12 DEF LeavesInstalled

\* What a step computes is again a state to run with.
LEMMA StandingStep ==
  ASSUME Standing(mem, chosen), NEW m, Step(m)
  PROVE  Standing(m, chosen')
<1>1. Standing(mem, chosen') /\ Grows /\ mem \in Node
  BY StandingGrows DEF Step, Standing
<1>2. CASE Submits(m)
  BY <1>1, <1>2, SubmitsFacts
<1>3. CASE Stays(m)
  BY <1>1, <1>3 DEF Stays
<1>4. CASE Proposes(m) \/ Drains(m)
  BY <1>1, <1>4, ProposesFacts
<1>5. CASE Decides(m)
  BY <1>1, <1>5, DecidesFacts DEF Decides
<1>6. CASE Arms(m)
  <2>1. PICK decided : decided = chosen'
    OBVIOUS
  <2> QED BY <1>1, <1>6, <2>1, ArmGapNoopFacts DEF Arms
<1>7. CASE Executes(m)
  <2>1. PICK s \in mem.known : m = [mem EXCEPT !.executed = @ \union {s}]
    BY <1>7 DEF Executes
  <2>2. s \in Slot
    BY <1>1, NodeParts
  <2>3. m \in Node /\ m.core = mem.core /\ m.known = mem.known /\ m.executed = mem.executed \union {s}
    BY <1>1, <2>1, <2>2, OtherParts
  <2> QED BY <1>1, <2>3 DEF Standing
<1>8. CASE Prunes(m)
  <2>1. PICK decided : decided = chosen'
    OBVIOUS
  <2> QED BY <1>1, <1>8, <2>1, PrunesStand DEF Prunes
<1>9. CASE Installs(m)
  BY <1>1, <1>9, PackagedStands DEF Installs, Grows
<1>10. CASE Renumbers(m)
  <2>1. m \in Node /\ m.core = mem.core /\ m.known = mem.known /\ m.executed = mem.executed
    BY <1>1, <1>10, OtherParts DEF Renumbers
  <2> QED BY <1>1, <2>1 DEF Standing
<1> QED BY <1>2, <1>3, <1>4, <1>5, <1>6, <1>7, <1>8, <1>9, <1>10 DEF Step

\* The first state of the node stands.
LEMMA StandingInit == Init => StandingInv
<1> SUFFICES ASSUME Init PROVE StandingInv
  OBVIOUS
<1>1. \A m \in States : Standing(m, chosen)
  BY NewStands DEF Init, States
<1>2. WorldOK
  BY SMT DEF Init, WorldOK, Faults
<1> QED BY <1>1, <1>2 DEF StandingInv

\* Every step keeps the states standing.
LEMMA StandingNext ==
  ASSUME StandingInv, ControlInv, [Next]_vars
  PROVE  StandingInv'
<1>1. PICK m : Step(m)
  BY StepShape
<1>2. \A n \in States : Standing(n, chosen')
  BY <1>1, StandingGrows DEF StandingInv, Step
<1>3. Standing(m, chosen')
  BY <1>1, StandingStep DEF StandingInv, States
<1>4. \A n \in States' : n \in States \union {m}
  BY <1>1 DEF Step, Moves, States
<1>5. \A n \in States' : Standing(n, chosen')
  BY <1>2, <1>3, <1>4
<1>6. offered' \in [Slot -> SUBSET (Seq(Values) \ {<< >>})]
  <2>1. Standing(mem', chosen')
    BY <1>5 DEF States
  <2>2. \A s \in Undecided(mem'.core) : mem'.core.log[s].proposed \in Seq(Values) \ {<< >>}
    BY <2>1, CoreParts DEF Standing, Sound, Orderly, Undecided
  <2>3. ASSUME NEW s \in Slot PROVE offered'[s] \in SUBSET (Seq(Values) \ {<< >>})
    <3>1. offered[s] \in SUBSET (Seq(Values) \ {<< >>})
      BY DEF StandingInv, WorldOK
    <3>2. \/ offered'[s] = offered[s]
          \/ /\ s \in Undecided(mem'.core)
             /\ offered'[s] = offered[s] \union {mem'.core.log[s].proposed}
      BY <1>1 DEF Step, Offers
    <3> QED BY <2>2, <3>1, <3>2
  <2> QED BY <1>1, <2>3 DEF Step, Offers
<1>7. WorldOK'
  BY <1>1, <1>6 DEF Step, Grows, Counts, WorldOK
<1> QED BY <1>5, <1>7 DEF StandingInv

------------------------------------------------------------------------------
(* Tasks *)

\* Tasks are told apart by their names.
LEMMA TaskNames ==
  /\ Receiver \in Task /\ Receiver \notin Drivers /\ << >> \notin Task
  /\ \A i : Submitter(i) # Receiver /\ Submitter(i) \notin Drivers
  /\ \A i \in Request : Submitter(i) \in Task
  /\ \A s \in Slot : Driver(s) \in Drivers /\ Driver(s) \in Task /\ Driver(s)[2] = s
  /\ Drivers \subseteq Task
<1>1. \A i, s : <<"submit", i>> # <<"drive", s>> /\ <<"submit", i>> # <<"receive", 0>>
                /\ <<"drive", s>> # <<"receive", 0>>
                /\ <<"submit", i>> # << >> /\ <<"drive", s>> # << >> /\ <<"receive", 0>> # << >>
                /\ <<"drive", s>>[2] = s
  BY SMT
<1> QED BY <1>1 DEF Task, Drivers, Submitter, Driver, Receiver

\* The fields of a task.
LEMMA TaskMade ==
  ASSUME NEW p \in Place, NEW k \in 0 .. MaxSlot
  PROVE  LET x == [at |-> p, slot |-> k] IN x \in TaskState /\ x.at = p /\ x.slot = k
BY SMT DEF TaskState

\* The idle task and the free mutex.
LEMMA IdleTask == /\ Idle \in TaskState /\ Idle.at = "off" /\ Idle.slot = 0 /\ 0 \in 0 .. MaxSlot
                  /\ Unlocked.by = << >> /\ Unlocked.todo = {}
<1>1. 0 \in 0 .. MaxSlot
  BY SMT, ReplicaConfigAssumption
<1>2. "off" \in Place
  BY DEF Place
<1> QED BY <1>1, <1>2, TaskMade DEF Idle, Unlocked

\* What an error does to the tasks.
Ending(a, b, x) ==
  /\ x \in TaskState
  /\ \/ x = task[b]
     \/ x.at = "off"
     \/ x.at = "boot" /\ b = Receiver /\ a = Receiver /\ task[b].at \in {"boot", "booting"}
  /\ b # a /\ ~({a, b} \subseteq Drivers) => x = task[b]
  /\ b = a /\ task[b].at \notin {"boot", "booting"} => x.at = "off"
  /\ b = a /\ a = Receiver /\ task[b].at \in {"boot", "booting"} => x.at = "boot"

\* A failing task ends, and a driver takes the other drivers with it.
LEMMA FailedFacts ==
  ASSUME ControlInv, NEW a \in Task
  PROVE  /\ Failed(a) \in [Task -> TaskState]
         /\ \A b \in Task : Ending(a, b, Failed(a)[b])
<1>1. ASSUME NEW b \in Task PROVE Ending(a, b, Failed(a)[b])
  <2>1. Failed(a)[b] = IF b = Receiver /\ a = b /\ task[a].at \in {"boot", "booting"}
                       THEN [task[a] EXCEPT !.at = "boot"]
                       ELSE IF b = a \/ {a, b} \subseteq Drivers THEN Idle ELSE task[b]
    BY DEF Failed
  <2>2. task[a] \in TaskState /\ task[b] \in TaskState
    BY DEF ControlInv
  <2>3. CASE b = Receiver /\ a = b /\ task[a].at \in {"boot", "booting"}
    <3>1. PICK y, x : y = task[a] /\ x = [y EXCEPT !.at = "boot"]
      OBVIOUS
    <3>2. "boot" \in Place /\ y \in TaskState
      BY <2>2, <3>1 DEF Place
    <3>3. x \in TaskState /\ x.at = "boot"
      BY ONLY SMT, <3>1, <3>2 DEF TaskState
    <3>4. ~({a, b} \subseteq Drivers)
      BY <2>3, TaskNames
    <3>5. Failed(a)[b] = [task[a] EXCEPT !.at = "boot"]
      BY <2>1, <2>3, <3>4
    <3> QED BY <2>3, <3>1, <3>3, <3>5 DEF Ending
  <2>4. CASE ~(b = Receiver /\ a = b /\ task[a].at \in {"boot", "booting"})
             /\ (b = a \/ {a, b} \subseteq Drivers)
    <3>1. Failed(a)[b] = Idle
      BY <2>1, <2>4
    <3> QED BY <2>4, <3>1, IdleTask DEF Ending
  <2>5. CASE b # a /\ ~({a, b} \subseteq Drivers)
    <3>1. Failed(a)[b] = task[b]
      BY <2>1, <2>5
    <3> QED BY <2>2, <2>5, <3>1 DEF Ending
  <2> QED BY <2>3, <2>4, <2>5
<1>2. PICK f : f = Failed(a)
  OBVIOUS
<1>3. f = [b \in Task |-> f[b]]
  BY <1>2 DEF Failed
<1>4. \A b \in Task : f[b] \in TaskState
  BY <1>1, <1>2 DEF Ending
<1>5. f \in [Task -> TaskState]
  BY ONLY <1>3, <1>4
<1> QED BY <1>1, <1>2, <1>5

\* A task ends with an error; it does not hold the mutex, or gives it up.
LEMMA FailingControl ==
  ASSUME ControlInv, NEW a \in Task, task' = Failed(a),
         lock' = Unlocked \/ (lock' = lock /\ lock.by # a /\ ~({a, lock.by} \subseteq Drivers)),
         mem.known \subseteq mem'.known, transfer' = transfer, install' = install
  PROVE  ControlInv'
<1>1. task' \in [Task -> TaskState] /\ \A b \in Task : Ending(a, b, task'[b])
  BY FailedFacts
<1>2. \A b \in Task : task'[b].at = "call" => task'[b].slot \in Slot
  BY <1>1 DEF Ending, ControlInv
<1>3. /\ lock' \in [by : Task \union {<< >>}, todo : SUBSET Slot]
      /\ lock'.todo \subseteq mem'.known /\ (lock'.by = << >> => lock'.todo = {})
  <2>1. Unlocked \in [by : Task \union {<< >>}, todo : SUBSET Slot]
    BY DEF Unlocked
  <2> QED BY <2>1, IdleTask DEF ControlInv
<1>4. ASSUME lock'.by # << >>
      PROVE  task'[lock'.by].at \in Holding /\ (task'[lock'.by].at # "executing" => lock'.by = Receiver)
  <2>1. lock' = lock /\ lock.by # a /\ ~({a, lock.by} \subseteq Drivers)
    BY <1>4, IdleTask
  <2>2. lock.by \in Task
    BY <1>4, <2>1 DEF ControlInv
  <2>3. task'[lock.by] = task[lock.by]
    BY <1>1, <2>1, <2>2 DEF Ending
  <2> QED BY <1>4, <2>1, <2>3 DEF ControlInv
<1>5. ASSUME task'[Receiver].at \in {"boot", "booting"}
      PROVE  (\A b \in Task \ {Receiver} : Quiet(b)') /\ transfer' = Idle /\ install' = "off"
  <2>1. task[Receiver].at \in {"boot", "booting"}
    BY <1>1, <1>5, TaskNames DEF Ending
  <2>2. (\A b \in Task \ {Receiver} : Quiet(b)) /\ transfer = Idle /\ install = "off"
    BY <2>1 DEF ControlInv
  <2> QED BY <1>1, <2>2 DEF Ending, Quiet
<1> QED BY <1>1, <1>2, <1>3, <1>4, <1>5 DEF ControlInv

\* A task at work shows that the node serves.
LEMMA BusyOpen ==
  ASSUME ControlInv, NEW a \in Task, task[a].at \notin {"off", "answered", "boot", "booting"}
  PROVE  OpenToAll
BY DEF ControlInv, OpenToAll, Quiet

\* A task that does not hold the mutex goes on.
LEMMA TurnControl ==
  ASSUME ControlInv, NEW a \in Task, NEW r \in TaskState, task' = [task EXCEPT ![a] = r],
         r.at \notin Holding \union {"boot"}, r.at = "call" => r.slot \in Slot,
         lock' = lock, lock.by # a, mem.known \subseteq mem'.known,
         transfer' = transfer, OpenToAll
  PROVE  ControlInv'
<1>1. /\ task' \in [Task -> TaskState] /\ task'[a] = r
      /\ \A b \in Task : b # a => task'[b] = task[b]
  BY DEF ControlInv
<1>2. \A b \in Task : task'[b].at = "call" => task'[b].slot \in Slot
  BY <1>1 DEF ControlInv
<1>3. lock'.by # << >> => /\ task'[lock'.by].at \in Holding
                          /\ task'[lock'.by].at # "executing" => lock'.by = Receiver
  <2>1. lock.by # << >> => lock.by \in Task
    BY DEF ControlInv
  <2> QED BY <1>1, <2>1 DEF ControlInv
<1>4. task'[Receiver].at \notin {"boot", "booting"}
  BY <1>1, TaskNames DEF OpenToAll, Holding
<1>5. lock'.todo \subseteq mem'.known
  BY DEF ControlInv
<1> QED BY <1>1, <1>2, <1>3, <1>4, <1>5 DEF ControlInv

\* A task takes the mutex.
LEMMA TakesControl ==
  ASSUME ControlInv, NEW a \in Task, NEW at \in Holding, Goto(a, at), lock = Unlocked,
         NEW T \in SUBSET Slot, lock' = [by |-> a, todo |-> T], T \subseteq mem'.known,
         at = "executing" \/ a = Receiver,
         (OpenToAll /\ at # "booting") \/ (a = Receiver /\ task[a].at = "boot"),
         transfer' = transfer, install' = install
  PROVE  ControlInv'
<1>0. [at |-> at, slot |-> 0] \in TaskState /\ [at |-> at, slot |-> 0].at = at
  <2>1. at \in Place
    BY DEF Holding, Place
  <2> QED BY <2>1, IdleTask, TaskMade
<1>1. /\ task' \in [Task -> TaskState] /\ task'[a].at = at
      /\ \A b \in Task : b # a => task'[b] = task[b]
  BY <1>0 DEF ControlInv, Goto
<1>2. \A b \in Task : task'[b].at = "call" => task'[b].slot \in Slot
  BY <1>1 DEF ControlInv, Holding
<1>3. /\ lock' \in [by : Task \union {<< >>}, todo : SUBSET Slot] /\ lock'.by = a /\ lock'.todo = T
      /\ a # << >>
  <2>1. PICK l : l = [by |-> a, todo |-> T]
    OBVIOUS
  <2>2. l \in [by : Task \union {<< >>}, todo : SUBSET Slot] /\ l.by = a /\ l.todo = T
    BY SMT, <2>1
  <2> QED BY <2>1, <2>2, TaskNames
<1>4. ASSUME task'[Receiver].at \in {"boot", "booting"}
      PROVE  (\A b \in Task \ {Receiver} : Quiet(b)') /\ transfer' = Idle /\ install' = "off"
  <2>1. a = Receiver /\ task[Receiver].at = "boot"
    BY <1>1, <1>4, TaskNames DEF Holding, OpenToAll
  <2> QED BY <1>1, <2>1 DEF ControlInv, Quiet
<1> QED BY <1>1, <1>2, <1>3, <1>4 DEF ControlInv

\* A step that concerns no task.
LEMMA CallsControl ==
  ASSUME ControlInv, task' = task, lock' = lock, lock.todo \subseteq mem'.known,
         transfer' \in [at : {"off", "export", "prune"}, slot : 0 .. MaxSlot],
         transfer'.at # "off" => transfer'.slot \in Slot,
         OpenToAll \/ (transfer' = transfer /\ install' = install)
  PROVE  ControlInv'
BY DEF ControlInv, OpenToAll, Quiet

\* accept_decision in its outcomes: the task holds the mutex to execute, or ends.
AcceptTakes(a, s) ==
  /\ Goto(a, "executing") /\ faults' = faults
  /\ \/ /\ s \in mem.known /\ mem' \in ArmGapNoop(mem) /\ Arming(mem', mem) /\ disk' = disk
        /\ lock' = [by |-> a, todo |-> Ready(mem')]
     \/ /\ s \notin mem.known /\ Deciding(mem', mem, s) /\ disk' = mem'
        /\ lock' = [by |-> a, todo |-> NewlyCommitted(mem, mem')]

AcceptStops(a, s) ==
  /\ task' = Failed(a) /\ lock' = lock
  /\ \/ mem' = mem /\ disk' = disk /\ faults' = faults
     \/ mem' = mem /\ faults'.errors # 0 /\ (disk' = disk \/ Deciding(disk', mem, s))
     \/ ~NoopFits /\ Deciding(mem', mem, s) /\ disk' = disk /\ faults' = faults

\* An accepted decision is taken, or its task stops.
LEMMA AcceptShape ==
  ASSUME StandingInv, NEW a \in Task, NEW s \in Slot, Accept(a, s)
  PROVE  /\ AcceptTakes(a, s) \/ AcceptStops(a, s)
         /\ lock = Unlocked /\ late' = late /\ app' = app
         /\ transfer' = transfer /\ install' = install
<1>1. PICK batch \in Outcomes(s) :
         chosen' = [chosen EXCEPT ![s] = batch] /\ AcceptDecision(a, s, batch)
  BY DEF Accept
<1>2. lock = Unlocked /\ late' = late /\ app' = app /\ transfer' = transfer /\ install' = install
  BY DEF Accept, Free, calls
<1>3. WorldOK /\ faults \in Faults /\ Standing(mem, chosen)
  BY DEF StandingInv, WorldOK, States
<1>4. PICK k : Step(k)
  BY <1>3, AcceptStep
<1>5. Grows
  BY <1>4 DEF Step
<1>6. batch \in Seq(Values) /\ batch # << >> /\ chosen'[s] = batch
  BY <1>1, <1>3, OutcomesTyped DEF WorldOK
<1>7. PICK decided : decided = chosen'
  OBVIOUS
<1>8. Standing(mem, decided) /\ decided[s] = batch
  BY <1>3, <1>5, <1>6, <1>7, StandingGrows
<1>9. CASE s \in mem.known
  <2>1. \A n \in ArmGapNoop(mem) : Arming(n, mem)
    BY <1>8, ArmGapNoopFacts
  <2> QED BY <1>1, <1>2, <1>9, <2>1 DEF AcceptDecision, AcceptTakes, AcceptStops
<1>10. CASE s \notin mem.known
  <2>1. \A n \in Applied(mem, s, batch) : Deciding(n, mem, s) /\ Standing(n, decided)
    BY <1>6, <1>8, <1>10, AppliedFacts
  <2>2. \A n \in WithDecision(mem, s, batch) : Deciding(n, mem, s)
    BY <1>6, <1>8, <1>10, WithDecisionFacts
  <2>3. ASSUME NEW m \in WithDecision(mem, s, batch), Save(m),
               IF Saved
               THEN /\ lock' = [by |-> a, todo |-> NewlyCommitted(mem, m)]
                    /\ Goto(a, "executing")
               ELSE task' = Failed(a) /\ UNCHANGED lock
        PROVE  AcceptTakes(a, s) \/ AcceptStops(a, s)
    <3>1. \/ mem' = m /\ disk' = m /\ faults' = faults
          \/ mem' = mem /\ disk' \in {disk, m} /\ faults' # faults /\ faults'.errors # 0
      BY <1>2, <1>3, <2>3, SaveMoves
    <3> QED BY <1>10, <2>2, <2>3, <3>1 DEF Saved, AcceptTakes, AcceptStops
  <2>4. ASSUME WithDecision(mem, s, batch) = {},
               mem' \in IF Applied(mem, s, batch) = {} THEN {mem} ELSE Applied(mem, s, batch),
               task' = Failed(a), UNCHANGED <<disk, lock, faults>>
        PROVE  AcceptStops(a, s)
    <3>1. CASE Applied(mem, s, batch) = {}
      BY <2>4, <3>1 DEF AcceptStops
    <3>2. CASE Applied(mem, s, batch) # {}
      <4>1. mem' \in Applied(mem, s, batch)
        BY <2>4, <3>2
      <4>2. ArmGapNoop(mem') = {}
        BY <2>4, <4>1 DEF WithDecision
      <4>3. ~NoopFits
        <5>1. PICK n : n = mem'
          OBVIOUS
        <5> QED BY <2>1, <4>1, <4>2, <5>1, ArmGapNoopSucceeds
      <4> QED BY <2>1, <2>4, <4>1, <4>3 DEF AcceptStops
    <3> QED BY <3>1, <3>2
  <2> QED BY <1>1, <1>2, <1>10, <2>3, <2>4 DEF AcceptDecision
<1> QED BY <1>2, <1>9, <1>10

\* What is left to execute is known.
LEMMA TakenKnown ==
  ASSUME StandingInv, NEW a \in Task, NEW s \in Slot, AcceptTakes(a, s)
  PROVE  \E T \in SUBSET Slot : lock' = [by |-> a, todo |-> T] /\ T \subseteq mem'.known
<1>1. PICK n : n = mem'
  OBVIOUS
<1>2. n \in Node /\ n.known \subseteq Slot
  BY <1>1, NodeParts DEF AcceptTakes, Arming, Deciding
<1>3. CASE lock' = [by |-> a, todo |-> Ready(n)]
  BY <1>1, <1>2, <1>3 DEF Ready
<1>4. CASE Deciding(n, mem, s) /\ lock' = [by |-> a, todo |-> NewlyCommitted(mem, n)]
  BY <1>1, <1>2, <1>4 DEF NewlyCommitted, Deciding, CommittedThrough
<1> QED BY <1>1, <1>3, <1>4 DEF AcceptTakes

\* accept_decision keeps the order of the tasks.
LEMMA AcceptControl ==
  ASSUME StandingInv, ControlInv, NEW a \in Task, NEW s \in Slot, Accept(a, s), OpenToAll
  PROVE  ControlInv'
<1>1. /\ AcceptTakes(a, s) \/ AcceptStops(a, s)
      /\ lock = Unlocked /\ transfer' = transfer /\ install' = install
  BY AcceptShape
<1>2. CASE AcceptTakes(a, s)
  <2>1. PICK T \in SUBSET Slot : lock' = [by |-> a, todo |-> T] /\ T \subseteq mem'.known
    BY <1>2, TakenKnown
  <2>2. Goto(a, "executing") /\ "executing" \in Holding
    BY <1>2 DEF AcceptTakes, Holding
  <2> QED BY <1>1, <2>1, <2>2, TakesControl
<1>3. CASE AcceptStops(a, s)
  <2>1. mem.known \subseteq mem'.known
    BY <1>3 DEF AcceptStops, Deciding
  <2>2. task' = Failed(a) /\ lock' = Unlocked
    BY <1>1, <1>3 DEF AcceptStops
  <2> QED BY <1>1, <2>1, <2>2, FailingControl
<1> QED BY <1>1, <1>2, <1>3

\* What most steps keep of a state.
LEMMA OtherFields ==
  ASSUME NEW m \in Node, NEW c
  PROVE  /\ [m EXCEPT !.core = c].known = m.known /\ [m EXCEPT !.core = c].core = c
         /\ [m EXCEPT !.executed = c].known = m.known /\ [m EXCEPT !.executed = c].core = m.core
         /\ [m EXCEPT !.epoch = c].known = m.known /\ [m EXCEPT !.epoch = c].core = m.core
         /\ [m EXCEPT !.core = c].executed = m.executed /\ [m EXCEPT !.core = c].epoch = m.epoch
         /\ [m EXCEPT !.executed = c].executed = c /\ [m EXCEPT !.executed = c].epoch = m.epoch
         /\ [m EXCEPT !.epoch = c].executed = m.executed /\ [m EXCEPT !.epoch = c].epoch = c
BY SMT DEF Node

\* The node stops and restarts.
LEMMA RestartControl ==
  ASSUME ControlInv, Restart(disk)
  PROVE  ControlInv'
<1>1. [at |-> "boot", slot |-> 0] \in TaskState /\ [at |-> "boot", slot |-> 0].at = "boot"
  <2>1. "boot" \in Place
    BY DEF Place
  <2> QED BY <2>1, IdleTask, TaskMade
<1>2. \A a \in Task : task'[a] = IF a = Receiver THEN [at |-> "boot", slot |-> 0]
                                 ELSE IF task[a].at = "answered" THEN task[a] ELSE Idle
  BY DEF Restart
<1>3. task' = [a \in Task |-> task'[a]]
  BY <1>2 DEF Restart
<1>4. \A a \in Task : task'[a] \in TaskState
  BY <1>1, <1>2, IdleTask DEF ControlInv
<1>5. task' \in [Task -> TaskState]
  BY ONLY <1>3, <1>4
<1>6. \A a \in Task : task'[a].at # "call"
  BY <1>1, <1>2, IdleTask
<1>7. \A b \in Task \ {Receiver} : Quiet(b)'
  BY <1>2, IdleTask DEF Quiet
<1>8. /\ lock' \in [by : Task \union {<< >>}, todo : SUBSET Slot] /\ lock'.by = << >> /\ lock'.todo = {}
      /\ transfer' = Idle /\ install' = "off"
  <2>1. Unlocked \in [by : Task \union {<< >>}, todo : SUBSET Slot]
    BY DEF Unlocked
  <2> QED BY <2>1, IdleTask DEF Restart
<1>9. Idle \in [at : {"off", "export", "prune"}, slot : 0 .. MaxSlot]
  BY IdleTask DEF Idle
<1> QED BY <1>5, <1>6, <1>7, <1>8, <1>9, IdleTask DEF ControlInv

\* A task goes on to another place, or to a call.
LEMMA GotoControl ==
  ASSUME ControlInv, NEW a \in Task, NEW at \in Place \ (Holding \union {"boot", "call"}),
         Goto(a, at), lock' = lock, lock.by # a, mem.known \subseteq mem'.known,
         transfer' = transfer, OpenToAll
  PROVE  ControlInv'
<1>1. PICK r : r = [at |-> at, slot |-> 0]
  OBVIOUS
<1>2. r \in TaskState /\ r.at = at
  BY <1>1, IdleTask, TaskMade
<1>3. task' = [task EXCEPT ![a] = r]
  BY <1>1 DEF Goto
<1>4. r.at \notin Holding \union {"boot"} /\ (r.at = "call" => r.slot \in Slot)
  BY <1>2
<1> QED BY <1>2, <1>3, <1>4, TurnControl

\* A task that starts its consensus call keeps the control invariant.
LEMMA CallControl ==
  ASSUME ControlInv, NEW a \in Task, NEW s \in Slot, Call(a, s), lock' = lock, lock.by # a,
         mem.known \subseteq mem'.known, transfer' = transfer, OpenToAll
  PROVE  ControlInv'
<1>1. PICK r : r = [at |-> "call", slot |-> s]
  OBVIOUS
<1>2. r \in TaskState /\ r.at = "call" /\ r.slot = s
  <2>1. "call" \in Place /\ s \in 0 .. MaxSlot
    BY SMT, ReplicaConfigAssumption DEF Place, Slot
  <2> QED BY <1>1, <2>1, TaskMade
<1>3. task' = [task EXCEPT ![a] = r]
  BY <1>1 DEF Call
<1>4. r.at \notin Holding \union {"boot"} /\ (r.at = "call" => r.slot \in Slot)
  BY <1>2 DEF Holding
<1> QED BY <1>2, <1>3, <1>4, TurnControl

\* Saving a state that knows the same decisions.
LEMMA SaveKnown ==
  ASSUME faults \in Faults, NEW m, Save(m), late' = late, m.known = mem.known
  PROVE  mem'.known = mem.known
<1>1. mem' = m \/ mem' = mem
  BY SaveMoves
<1> QED BY <1>1

\* submit_inner up to its loop.
LEMMA SubmitControl ==
  ASSUME StandingInv, ControlInv, NEW i \in Request, Submit(i)
  PROVE  ControlInv'
<1>1. /\ mem \in Node /\ lock = Unlocked /\ OpenToAll /\ lock' = lock /\ faults \in Faults
      /\ transfer' = transfer /\ install' = install /\ late' = late
  BY DEF Submit, StandingInv, States, Standing, Free, Open, OpenToAll, calls, WorldOK
<1>2. Submitter(i) \in Task /\ lock.by # Submitter(i)
  BY ZenonT(40), <1>1, IdleTask, TaskNames
<1>3. CASE UNCHANGED <<mem, disk, task, accepted, faults>>
  BY <1>1, <1>3, CallsControl DEF ControlInv
<1>4. ASSUME NEW core, Save([mem EXCEPT !.core = core]),
             IF Saved THEN Goto(Submitter(i), "loop") ELSE UNCHANGED task
      PROVE  ControlInv'
  <2>1. PICK m : m = [mem EXCEPT !.core = core]
    OBVIOUS
  <2>2. m.known = mem.known
    BY ZenonT(40), <1>1, <2>1, OtherFields
  <2>3. mem'.known = mem.known
    BY <1>1, <1>4, <2>1, <2>2, SaveKnown
  <2>4. CASE Goto(Submitter(i), "loop")
    <3>1. "loop" \in Place \ (Holding \union {"boot", "call"})
      BY DEF Place, Holding
    <3> QED BY <1>1, <1>2, <2>3, <2>4, <3>1, GotoControl
  <2>5. CASE task' = task
    BY <1>1, <2>3, <2>5, CallsControl DEF ControlInv
  <2> QED BY <1>4, <2>4, <2>5
<1> QED BY <1>3, <1>4 DEF Submit

\* One pass of the loop of submit_inner.
LEMMA LoopControl ==
  ASSUME StandingInv, ControlInv, NEW i \in Request, Loop(i)
  PROVE  ControlInv'
<1>1. /\ mem \in Node /\ lock = Unlocked /\ lock' = lock /\ faults \in Faults
      /\ transfer' = transfer /\ install' = install /\ late' = late
  BY DEF Loop, StandingInv, States, Standing, Free, calls, WorldOK
<1>2. Submitter(i) \in Task /\ lock.by # Submitter(i) /\ OpenToAll
  <2>1. Submitter(i) \in Task /\ lock.by # Submitter(i)
    BY ZenonT(40), <1>1, IdleTask, TaskNames
  <2>2. task[Submitter(i)].at = "loop"
    BY DEF Loop
  <2> QED BY <2>1, <2>2, BusyOpen
<1>3. ASSUME mem' = mem, DecisionsFor(i) # {},
             task' = [task EXCEPT ![Submitter(i)] = [at |-> "answered", slot |-> Min(DecisionsFor(i))]]
      PROVE  ControlInv'
  <2>1. PICK s : s = Min(DecisionsFor(i))
    OBVIOUS
  <2>2. s \in 0 .. MaxSlot
    <3>1. DecisionsFor(i) \subseteq Slot
      BY <1>1, NodeParts DEF DecisionsFor
    <3>2. DecisionsFor(i) \in SUBSET Nat /\ DecisionsFor(i) # {}
      BY SMTT(20), <1>3, <3>1, ReplicaConfigAssumption DEF Slot
    <3>3. s \in DecisionsFor(i)
      BY <2>1, <3>2, MinIs
    <3> QED BY SMTT(20), <3>1, <3>3, ReplicaConfigAssumption DEF Slot
  <2>3. PICK r : r = [at |-> "answered", slot |-> s]
    OBVIOUS
  <2>4. r \in TaskState /\ r.at = "answered"
    <3>1. "answered" \in Place
      BY DEF Place
    <3> QED BY <2>2, <2>3, <3>1, TaskMade
  <2>5. task' = [task EXCEPT ![Submitter(i)] = r]
    BY <1>3, <2>1, <2>3
  <2>6. r.at \notin Holding \union {"boot"} /\ (r.at = "call" => r.slot \in Slot)
    BY <2>4 DEF Holding
  <2> QED BY <1>1, <1>2, <1>3, <2>4, <2>5, <2>6, TurnControl
<1>4. ASSUME mem' = mem, ProposalsFor(i) # {}, Call(Submitter(i), Min(ProposalsFor(i)))
      PROVE  ControlInv'
  <2>1. Min(ProposalsFor(i)) \in Slot
    <3>1. ProposalsFor(i) \subseteq Slot
      BY DEF ProposalsFor, Undecided
    <3>2. ProposalsFor(i) \in SUBSET Nat /\ ProposalsFor(i) # {}
      BY SMTT(20), <1>4, <3>1, ReplicaConfigAssumption DEF Slot
    <3> QED BY <3>1, <3>2, MinIs
  <2> QED BY <1>1, <1>2, <1>4, <2>1, CallControl
<1>5. ASSUME mem'.known = mem.known, task' = Failed(Submitter(i))
      PROVE  ControlInv'
  BY <1>1, <1>2, <1>5, FailingControl
<1>6. ASSUME mem' = mem, Goto(Submitter(i), "wait")
      PROVE  ControlInv'
  <2>1. "wait" \in Place \ (Holding \union {"boot", "call"})
    BY DEF Place, Holding
  <2> QED BY <1>1, <1>2, <1>6, <2>1, GotoControl
<1>7. ASSUME NEW core, NextOpenSlot(mem.core) <= MaxSlot, Save([mem EXCEPT !.core = core]),
             IF Saved THEN Call(Submitter(i), NextOpenSlot(mem.core))
             ELSE task' = Failed(Submitter(i))
      PROVE  ControlInv'
  <2>1. PICK m : m = [mem EXCEPT !.core = core]
    OBVIOUS
  <2>2. m.known = mem.known
    BY ZenonT(40), <1>1, <2>1, OtherFields
  <2>3. mem'.known = mem.known
    BY <1>1, <1>7, <2>1, <2>2, SaveKnown
  <2>4. NextOpenSlot(mem.core) \in Slot
    <3>1. Sound(mem.core, Values)
      BY DEF StandingInv, States, Standing
    <3>2. mem.core.next \in 1 .. MaxSlot + 1 /\ MaxSlot \in Nat
      BY <3>1, CoreParts, ReplicaConfigAssumption DEF Sound, Orderly
    <3>3. NextOpenSlot(mem.core) \in mem.core.next .. MaxSlot + 1
      BY <3>1, OpenSlot
    <3> QED BY SMTT(20), <1>7, <3>2, <3>3 DEF Slot
  <2> QED BY <1>1, <1>2, <1>5, <1>7, <2>3, <2>4, CallControl
<1>8. ASSUME mem' = [mem EXCEPT !.core = Drained(@)], task' = Failed(Submitter(i))
      PROVE  ControlInv'
  <2>1. mem' = [mem EXCEPT !.core = Drained(mem.core)]
    BY <1>8
  <2>2. mem'.known = mem.known
    BY ZenonT(40), <1>1, <2>1, OtherFields
  <2> QED BY <1>5, <1>8, <2>2
<1> QED BY <1>3, <1>4, <1>6, <1>7, <1>8 DEF Loop

\* execute_decisions.
LEMMA ExecuteControl ==
  ASSUME StandingInv, ControlInv, NEW a \in Task, Execute(a)
  PROVE  ControlInv'
<1>1. mem \in Node /\ lock.by = a
  BY DEF Execute, StandingInv, States, Standing
<1>2. PICK s, m : s = Min(lock.todo) /\ m = [mem EXCEPT !.executed = @ \union {s}]
  OBVIOUS
<1>3. m.known = mem.known
  <2>1. m = [mem EXCEPT !.executed = mem.executed \union {s}]
    BY <1>2
  <2> QED BY ZenonT(40), <1>1, <2>1, OtherFields
<1>4. CASE mem' = m /\ lock' = [lock EXCEPT !.todo = @ \ {s}] /\ UNCHANGED <<late, task, calls, faults>>
  <2>1. PICK l, k : l = lock /\ k = lock'
    OBVIOUS
  <2>2. l \in [by : Task \union {<< >>}, todo : SUBSET Slot] /\ k = [l EXCEPT !.todo = @ \ {s}]
    BY <1>4, <2>1 DEF ControlInv
  <2>3. /\ k \in [by : Task \union {<< >>}, todo : SUBSET Slot] /\ k.by = l.by
        /\ k.todo = l.todo \ {s}
    BY ONLY SMT, <2>2
  <2>4. lock'.todo \subseteq mem'.known /\ lock'.by # << >>
    BY <1>1, <1>3, <1>4, <2>1, <2>3, TaskNames DEF ControlInv
  <2> QED BY <1>4, <2>1, <2>3, <2>4 DEF ControlInv, calls, Quiet
<1>5. CASE mem' = m /\ lock' = Unlocked /\ task' = Failed(a) /\ UNCHANGED <<late, calls>>
  BY <1>3, <1>5, FailingControl DEF calls
<1>6. CASE Restart(disk)
  BY <1>6, RestartControl
<1> QED BY <1>2, <1>4, <1>5, <1>6 DEF Execute

\* The end of accept_decision.
LEMMA AcceptedControl ==
  ASSUME ControlInv, NEW a \in Task, Accepted(a)
  PROVE  ControlInv'
<1>1. /\ lock.by = a /\ lock.todo = {} /\ task[a].at = "executing" /\ lock' = Unlocked
      /\ mem' = mem /\ transfer' = transfer /\ install' = install
  BY DEF Accepted, calls
<1>2. OpenToAll
  BY <1>1, BusyOpen
<1>3. PICK at, x, y : /\ at = (IF a = Receiver THEN "recover" ELSE After(a))
                      /\ x = [at |-> at, slot |-> 0] /\ y = [at |-> "loop", slot |-> 0]
  OBVIOUS
<1>4. /\ x \in TaskState /\ x.at \in {"recover", "off", "loop"}
      /\ y \in TaskState /\ y.at = "loop"
  <2>1. at \in Place /\ "loop" \in Place /\ at \in {"recover", "off", "loop"}
    BY <1>3 DEF Place, After
  <2> QED BY <1>3, <2>1, IdleTask, TaskMade
<1>5. task' = [b \in Task |-> CASE b = a -> x
                                [] task[b].at = "wait" -> y
                                [] OTHER -> task[b]]
  BY <1>3 DEF Accepted
<1>6. \A b \in Task : task'[b] = x \/ task'[b] = y \/ task'[b] = task[b]
  BY SMT, <1>5
<1>7. \A b \in Task : task'[b] \in TaskState
  BY <1>4, <1>6 DEF ControlInv
<1>8. task' = [b \in Task |-> task'[b]]
  BY SMT, <1>5
<1>9. task' \in [Task -> TaskState]
  BY ONLY <1>7, <1>8
<1>10. task'[Receiver].at \notin {"boot", "booting"}
  BY <1>2, <1>4, <1>6, TaskNames DEF OpenToAll
<1>11. \A b \in Task : task'[b].at = "call" => task'[b].slot \in Slot
  BY <1>4, <1>6 DEF ControlInv
<1>12. Unlocked \in [by : Task \union {<< >>}, todo : SUBSET Slot]
  BY DEF Unlocked
<1> QED BY <1>1, <1>9, <1>10, <1>11, <1>12, IdleTask DEF ControlInv

\* recover_inner drives the pending proposals.
LEMMA DriveControl ==
  ASSUME ControlInv, Drive
  PROVE  ControlInv'
<1>1. lock' = Unlocked /\ mem' = mem /\ transfer' = transfer /\ install' = install
  BY DEF Drive, calls
<1>2. task' = [a \in Task |->
                CASE a = Receiver -> Idle
                  [] \E s \in Undecided(mem.core) : a = Driver(s) /\ task[a] = Idle ->
                        [at |-> "call", slot |-> a[2]]
                  [] OTHER -> task[a]]
  BY DEF Drive
<1>3. ASSUME NEW a \in Task
      PROVE  /\ task'[a] \in TaskState
             /\ task'[a].at = "call" => task'[a].slot \in Slot
             /\ a = Receiver => task'[a] = Idle
  <2>1. CASE a = Receiver
    <3>1. ~ \E s \in Undecided(mem.core) : a = Driver(s) /\ task[a] = Idle
      BY <2>1, TaskNames DEF Undecided
    <3>2. task'[a] = Idle
      BY <1>2, <2>1, <3>1
    <3> QED BY <3>2, IdleTask
  <2>2. CASE a # Receiver /\ \E s \in Undecided(mem.core) : a = Driver(s) /\ task[a] = Idle
    <3>1. PICK s \in Undecided(mem.core) : a = Driver(s)
      BY <2>2
    <3>2. s \in Slot /\ a[2] = s
      BY <3>1, TaskNames DEF Undecided
    <3>3. task'[a] = [at |-> "call", slot |-> s]
      BY <1>2, <2>2, <3>2
    <3>4. "call" \in Place /\ s \in 0 .. MaxSlot
      BY SMTT(20), <3>2, ReplicaConfigAssumption DEF Place, Slot
    <3>5. PICK r : r = [at |-> "call", slot |-> s]
      OBVIOUS
    <3>6. r \in TaskState /\ r.slot = s
      BY <3>4, <3>5, TaskMade
    <3> QED BY <2>2, <3>2, <3>3, <3>5, <3>6
  <2>3. CASE a # Receiver /\ ~ \E s \in Undecided(mem.core) : a = Driver(s) /\ task[a] = Idle
    <3>1. task'[a] = task[a]
      BY <1>2, <2>3
    <3> QED BY <2>3, <3>1 DEF ControlInv
  <2> QED BY <2>1, <2>2, <2>3
<1>4. task' = [a \in Task |-> task'[a]]
  BY SMT, <1>2
<1>5. task' \in [Task -> TaskState]
  BY ONLY <1>3, <1>4
<1>6. task'[Receiver].at = "off"
  BY <1>3, IdleTask, TaskNames
<1>7. Unlocked \in [by : Task \union {<< >>}, todo : SUBSET Slot]
  BY DEF Unlocked
<1> QED BY <1>1, <1>3, <1>5, <1>6, <1>7, IdleTask DEF ControlInv

\* recover_inner in its outcomes.
RecoverTakes ==
  /\ Arming(mem', mem) /\ faults' = faults /\ (disk' = mem' \/ (mem' = mem /\ disk' = disk))
  /\ lock' = [by |-> Receiver, todo |-> Ready(mem')]
  /\ Goto(Receiver, IF task[Receiver].at = "boot" THEN "booting" ELSE "resuming")

RecoverStops ==
  /\ task' = Failed(Receiver) /\ lock' = lock /\ mem' = mem
  /\ \/ faults'.errors # 0 /\ (disk' = disk \/ Arming(disk', mem))
     \/ disk' = disk /\ faults' = faults

\* A recovery takes the mutex, or stops.
LEMMA RecoverShape ==
  ASSUME StandingInv, Recover
  PROVE  /\ RecoverTakes \/ RecoverStops
         /\ lock = Unlocked /\ task[Receiver].at \in {"boot", "recover"}
         /\ late' = late /\ app' = app /\ transfer' = transfer /\ install' = install
<1>1. /\ lock = Unlocked /\ late' = late /\ app' = app /\ transfer' = transfer /\ install' = install
      /\ task[Receiver].at \in {"boot", "recover"}
  BY DEF Recover, Free, calls
<1>2. faults \in Faults /\ \A m \in ArmGapNoop(mem) : Arming(m, mem)
  BY ArmGapNoopFacts DEF StandingInv, States, WorldOK
<1>3. ASSUME NEW m \in ArmGapNoop(mem), IF m = mem THEN UNCHANGED <<mem, disk, faults>> ELSE Save(m),
             IF Saved
             THEN /\ lock' = [by |-> Receiver, todo |-> Ready(m)]
                  /\ Goto(Receiver, IF task[Receiver].at = "boot" THEN "booting" ELSE "resuming")
             ELSE task' = Failed(Receiver) /\ UNCHANGED lock
      PROVE  RecoverTakes \/ RecoverStops
  <2>1. CASE m = mem
    BY <1>2, <1>3, <2>1 DEF Saved, RecoverTakes
  <2>2. CASE m # mem
    <3>1. \/ mem' = m /\ disk' = m /\ faults' = faults
          \/ mem' = mem /\ disk' \in {disk, m} /\ faults' # faults /\ faults'.errors # 0
      BY <1>1, <1>2, <1>3, <2>2, SaveMoves
    <3> QED BY <1>2, <1>3, <3>1 DEF Saved, RecoverTakes, RecoverStops
  <2> QED BY <2>1, <2>2
<1>4. ASSUME task' = Failed(Receiver), UNCHANGED <<mem, disk, lock, faults>>
      PROVE  RecoverStops
  BY <1>4 DEF RecoverStops
<1> QED BY <1>1, <1>3, <1>4 DEF Recover

\* A recovery keeps the control invariant,
LEMMA RecoverControl ==
  ASSUME StandingInv, ControlInv, Recover
  PROVE  ControlInv'
<1>1. /\ RecoverTakes \/ RecoverStops
      /\ lock = Unlocked /\ task[Receiver].at \in {"boot", "recover"}
      /\ transfer' = transfer /\ install' = install /\ Receiver \in Task
  BY RecoverShape, TaskNames
<1>2. CASE RecoverTakes
  <2>1. PICK n, T : n = mem' /\ T = Ready(n)
    OBVIOUS
  <2>2. n \in Node /\ n.known \subseteq Slot
    BY <1>2, <2>1, NodeParts DEF RecoverTakes, Arming
  <2>3. T \in SUBSET Slot /\ lock' = [by |-> Receiver, todo |-> T] /\ T \subseteq mem'.known
    BY <1>2, <2>1, <2>2 DEF RecoverTakes, Ready
  <2>4. PICK at : at = IF task[Receiver].at = "boot" THEN "booting" ELSE "resuming"
    OBVIOUS
  <2>5. at \in Holding /\ Goto(Receiver, at)
    BY <1>2, <2>4 DEF Holding, RecoverTakes
  <2>6. (OpenToAll /\ at # "booting") \/ (Receiver = Receiver /\ task[Receiver].at = "boot")
    BY <1>1, <2>4 DEF OpenToAll
  <2> QED BY <1>1, <2>3, <2>5, <2>6, TakesControl
<1>3. CASE RecoverStops
  <2>1. task' = Failed(Receiver) /\ lock' = Unlocked /\ mem.known \subseteq mem'.known
    BY <1>1, <1>3 DEF RecoverStops
  <2> QED BY <1>1, <2>1, FailingControl
<1> QED BY <1>1, <1>2, <1>3

\* A recovered proposal fails, in its outcomes.
LEMMA RecoverFailsShape ==
  ASSUME StandingInv, ControlInv, NEW d \in Drivers, RecoverFails(d)
  PROVE  /\ task[d].at = "call" /\ task' = Failed(d) /\ faults'.errors # 0 /\ disk' = disk
         /\ lock' = (IF lock.by \in Drivers THEN Unlocked ELSE lock)
         /\ transfer' = transfer /\ install' = install
         /\ \/ mem' = mem /\ late' = late /\ app' = app
            \/ /\ \E s \in Slot : Deciding(mem', mem, s)
               /\ late' = late \union {mem'} /\ app' = app
            \/ /\ lock.todo # {} /\ app' = app \union {Min(lock.todo)}
               /\ \/ mem' = mem /\ late' = late
                  \/ /\ mem' = [mem EXCEPT !.executed = @ \union {Min(lock.todo)}]
                     /\ late' = late \union {mem'}
<1>1. /\ task[d].at = "call" /\ task' = Failed(d) /\ disk' = disk
      /\ lock' = (IF lock.by \in Drivers THEN Unlocked ELSE lock)
      /\ transfer' = transfer /\ install' = install /\ Err
  BY DEF RecoverFails, calls
<1>2. faults'.errors # 0
  BY <1>1, ErrCounts DEF StandingInv, WorldOK
<1>3. ASSUME NEW e \in Drivers, task[e].at = "call", task[e].slot \notin mem.known,
             NEW batch \in Outcomes(task[e].slot),
             chosen' = [chosen EXCEPT ![task[e].slot] = batch],
             mem' \in WithDecision(mem, task[e].slot, batch)
      PROVE  \E s \in Slot : Deciding(mem', mem, s)
  <2>1. PICK s : s = task[e].slot
    OBVIOUS
  <2>2. s \in Slot /\ s \notin mem.known /\ WorldOK
    BY <1>3, <2>1, TaskNames DEF ControlInv, StandingInv
  <2>3. batch \in Seq(Values) /\ batch # << >> /\ chosen'[s] = batch
    BY <1>3, <2>1, <2>2, OutcomesTyped DEF WorldOK
  <2>4. Grows
    <3>1. Next
      BY DEF Next
    <3>2. \E k : Step(k)
      BY <3>1, StepShape
    <3> QED BY <3>2 DEF Step
  <2>5. PICK decided, n : decided = chosen' /\ n = mem'
    OBVIOUS
  <2>6. Standing(mem, decided)
    BY <2>4, <2>5, StandingGrows DEF StandingInv, States
  <2>7. n \in WithDecision(mem, s, decided[s]) /\ decided[s] \in Seq(Values) /\ decided[s] # << >>
    BY <1>3, <2>1, <2>3, <2>5
  <2>8. Deciding(n, mem, s)
    BY <2>2, <2>6, <2>7, WithDecisionFacts
  <2> QED BY <2>2, <2>5, <2>8
<1> QED BY <1>1, <1>2, <1>3 DEF RecoverFails

\* and so does one that fails half way.
LEMMA RecoverFailsControl ==
  ASSUME StandingInv, ControlInv, NEW d \in Drivers, RecoverFails(d)
  PROVE  ControlInv'
<1>1. mem.known \subseteq mem'.known
  <2>1. CASE \E s \in Slot : Deciding(mem', mem, s)
    BY <2>1 DEF Deciding
  <2>2. ASSUME mem' = [mem EXCEPT !.executed = @ \union {Min(lock.todo)}]
        PROVE  mem'.known = mem.known
    <3>1. mem' = [mem EXCEPT !.executed = mem.executed \union {Min(lock.todo)}] /\ mem \in Node
      BY <2>2 DEF StandingInv, States, Standing
    <3> QED BY <3>1, OtherFields
  <2> QED BY <2>1, <2>2, RecoverFailsShape
<1>2. /\ task' = Failed(d) /\ transfer' = transfer /\ install' = install
      /\ lock' = (IF lock.by \in Drivers THEN Unlocked ELSE lock)
  BY RecoverFailsShape
<1>3. lock' = Unlocked \/ (lock' = lock /\ lock.by # d /\ ~({d, lock.by} \subseteq Drivers))
  BY <1>2
<1>4. d \in Task
  BY TaskNames
<1> QED BY <1>1, <1>2, <1>3, <1>4, FailingControl

\* State transfer and membership changes.
LEMMA CallsStep ==
  ASSUME StandingInv, ControlInv,
         \/ \E s \in Slot : BeginTransfer(s) \/ InstallTransfer(s)
         \/ Export \/ TransferFails \/ Prune \/ BeginInstall \/ OwnTimesOut
         \/ InstallMembership \/ InstallFails \/ LateSave
  PROVE  ControlInv'
<1>1. /\ transfer \in [at : {"off", "export", "prune"}, slot : 0 .. MaxSlot]
      /\ transfer.at # "off" => transfer.slot \in Slot
      /\ lock.todo \subseteq mem.known
  BY DEF ControlInv
<1>2. Idle \in [at : {"off", "export", "prune"}, slot : 0 .. MaxSlot] /\ Idle.at = "off"
  BY IdleTask DEF Idle
<1>3. transfer.at # "off" \/ install # "off" => OpenToAll
  BY IdleTask DEF ControlInv, OpenToAll
<1>4. lock = Unlocked => lock.todo \subseteq mem'.known
  BY IdleTask
<1>5. ASSUME NEW s \in Slot, BeginTransfer(s) PROVE ControlInv'
  <2>1. s \in 0 .. MaxSlot
    BY SMTT(20), ReplicaConfigAssumption DEF Slot
  <2>2. PICK t : t = [at |-> "export", slot |-> s]
    OBVIOUS
  <2>3. t \in [at : {"off", "export", "prune"}, slot : 0 .. MaxSlot] /\ t.slot = s
    BY SMT, <2>1, <2>2
  <2>4. task' = task /\ lock' = lock /\ mem' = mem /\ transfer' = t /\ OpenToAll
    BY <1>5, <2>2 DEF BeginTransfer, Open, OpenToAll
  <2> QED BY <1>1, <2>3, <2>4, CallsControl
<1>6. ASSUME NEW s \in Slot, InstallTransfer(s) PROVE ControlInv'
  <2>1. task' = task /\ lock' = lock /\ lock = Unlocked /\ transfer' = transfer /\ install' = install
    BY <1>6 DEF InstallTransfer, calls, Free
  <2> QED BY <1>1, <1>4, <2>1, CallsControl
<1>7. CASE Export
  <2>1. PICK t, u : t = transfer /\ u = transfer'
    OBVIOUS
  <2>2. /\ t \in [at : {"off", "export", "prune"}, slot : 0 .. MaxSlot] /\ u = [t EXCEPT !.at = "prune"]
        /\ t.at = "export" /\ task' = task /\ lock' = lock /\ mem' = mem
    BY <1>1, <1>7, <2>1 DEF Export
  <2>3. u \in [at : {"off", "export", "prune"}, slot : 0 .. MaxSlot] /\ u.slot = t.slot
    BY ONLY SMT, <2>2
  <2> QED BY <1>1, <1>3, <2>1, <2>2, <2>3, CallsControl
<1>8. CASE TransferFails
  <2>1. task' = task /\ lock' = lock /\ mem' = mem /\ transfer' = Idle /\ transfer.at = "export"
    BY <1>8 DEF TransferFails
  <2> QED BY <1>1, <1>2, <1>3, <2>1, CallsControl
<1>9. CASE Prune
  <2>1. task' = task /\ lock' = lock /\ lock = Unlocked /\ transfer' = Idle /\ transfer.at = "prune"
    BY <1>9 DEF Prune, Free
  <2> QED BY <1>1, <1>2, <1>3, <1>4, <2>1, CallsControl
<1>10. CASE BeginInstall
  <2>1. task' = task /\ lock' = lock /\ mem' = mem /\ transfer' = transfer /\ OpenToAll
    BY <1>10 DEF BeginInstall, Open, OpenToAll
  <2> QED BY <1>1, <2>1, CallsControl
<1>11. CASE OwnTimesOut \/ InstallFails
  <2>1. task' = task /\ lock' = lock /\ mem' = mem /\ transfer' = transfer /\ install = "announce"
    BY <1>11 DEF OwnTimesOut, InstallFails
  <2> QED BY <1>1, <1>3, <2>1, CallsControl
<1>12. CASE InstallMembership
  <2>1. /\ task' = task /\ lock' = lock /\ lock = Unlocked /\ transfer' = transfer
        /\ install = "announce"
    BY <1>12 DEF InstallMembership, Free
  <2> QED BY <1>1, <1>3, <1>4, <2>1, CallsControl
<1>13. CASE LateSave
  <2>1. task' = task /\ lock' = lock /\ mem' = mem /\ transfer' = transfer /\ install' = install
    BY <1>13 DEF LateSave, calls
  <2> QED BY <1>1, <2>1, CallsControl
<1> QED BY <1>5, <1>6, <1>7, <1>8, <1>9, <1>10, <1>11, <1>12, <1>13

\* Every step keeps the order of the tasks.
LEMMA ControlNext ==
  ASSUME StandingInv, ControlInv, [Next]_vars
  PROVE  ControlInv'
<1>1. CASE UNCHANGED vars
  BY <1>1 DEF ControlInv, vars, calls, Quiet
<1>2. ASSUME NEW i \in Request, ProposeFails(i) PROVE ControlInv'
  <2>1. /\ task' = Failed(Submitter(i)) /\ lock' = lock /\ mem' = mem /\ transfer' = transfer
        /\ install' = install /\ task[Submitter(i)].at = "call" /\ Submitter(i) \in Task
        /\ Submitter(i) \notin Drivers
    BY <1>2, TaskNames DEF ProposeFails, calls
  <2>2. lock.by # Submitter(i)
    BY <2>1, TaskNames DEF ControlInv, Holding
  <2> QED BY <2>1, <2>2, FailingControl
<1>3. ASSUME NEW a \in Task, StandDown(a) PROVE ControlInv'
  <2>1. /\ Goto(a, After(a)) /\ lock' = lock /\ mem' = mem /\ transfer' = transfer
        /\ lock = Unlocked /\ OpenToAll
    BY <1>3, BusyOpen DEF StandDown, calls, Free
  <2>2. lock.by # a /\ After(a) \in Place \ (Holding \union {"boot", "call"})
    BY <2>1, IdleTask, TaskNames DEF After, Place, Holding
  <2> QED BY <2>1, <2>2, GotoControl
<1>4. ASSUME NEW a \in Task, Decide(a) PROVE ControlInv'
  <2>1. task[a].at = "call" /\ task[a].slot \in Slot /\ Accept(a, task[a].slot)
    BY <1>4 DEF Decide, ControlInv
  <2>2. OpenToAll
    BY <2>1, BusyOpen
  <2> QED BY <2>1, <2>2, AcceptControl
<1>5. ASSUME NEW a \in Task, ExecuteFails(a) PROVE ControlInv'
  <2>1. /\ task' = Failed(a) /\ lock' = Unlocked /\ mem' = mem /\ transfer' = transfer
        /\ install' = install
    BY <1>5 DEF ExecuteFails, calls
  <2> QED BY <2>1, FailingControl
<1>6. ASSUME NEW s \in Slot, Receive(s) \/ ReceiveOwn(s) PROVE ControlInv'
  <2>1. Accept(Receiver, s) /\ OpenToAll
    BY <1>6 DEF Receive, ReceiveOwn, Open, OpenToAll
  <2> QED BY <2>1, AcceptControl, TaskNames
<1>7. CASE AnnounceAll
  <2>1. lock' = lock /\ lock = Unlocked /\ mem' = mem /\ transfer' = transfer /\ install = "gate"
    BY <1>7 DEF AnnounceAll, Free
  <2>2. OpenToAll
    BY <2>1 DEF ControlInv, OpenToAll
  <2>3. CASE task' = task
    BY <2>1, <2>2, <2>3, CallsControl DEF ControlInv
  <2>4. CASE Goto(Receiver, "gate")
    <3>1. "gate" \in Place \ (Holding \union {"boot", "call"}) /\ lock.by # Receiver
      BY <2>1, IdleTask, TaskNames DEF Place, Holding
    <3> QED BY <2>1, <2>2, <2>4, <3>1, GotoControl, TaskNames
  <2> QED BY <1>7, <2>3, <2>4 DEF AnnounceAll
<1>8. CASE Crash
  BY <1>8, RestartControl DEF Crash
<1> QED BY <1>1, <1>2, <1>3, <1>4, <1>5, <1>6, <1>7, <1>8, SubmitControl, LoopControl,
           ExecuteControl, AcceptedControl, RecoverControl, DriveControl, RecoverFailsControl,
           CallsStep DEF Next

\* The tasks start idle and the mutex free.
LEMMA ControlInit == Init => ControlInv
<1> SUFFICES ASSUME Init PROVE ControlInv
  OBVIOUS
<1>1. task = [a \in Task |-> Idle] /\ lock = Unlocked /\ transfer = Idle
  BY DEF Init
<1>2. Unlocked \in [by : Task \union {<< >>}, todo : SUBSET Slot]
  BY DEF Unlocked
<1>3. Idle \in [at : {"off", "export", "prune"}, slot : 0 .. MaxSlot]
  BY IdleTask DEF Idle
<1>4. \A b \in Task : task[b] = Idle /\ task[b].at = "off"
  BY <1>1, IdleTask
<1>5. task[Receiver].at = "off"
  BY <1>4, TaskNames
<1>6. task \in [Task -> TaskState]
  BY <1>1, IdleTask
<1> QED BY <1>1, <1>2, <1>3, <1>4, <1>5, <1>6, IdleTask DEF ControlInv

------------------------------------------------------------------------------
(* What every node keeps *)

BaseInv == StandingInv /\ ControlInv

\* The node's states pass restore and validate_state and agree with consensus,
\* and its tasks keep to the mutex and to the gate.
THEOREM Base == Spec => []BaseInv
<1>1. Init => BaseInv
  BY StandingInit, ControlInit DEF BaseInv
<1>2. BaseInv /\ [Next]_vars => BaseInv'
  BY StandingNext, ControlNext DEF BaseInv
<1> QED BY <1>1, <1>2, PTL DEF Spec

\* The tasks, the mutex and every state the node has or may come back to have
\* their types: in particular the log begins above its floor, and what is marked
\* as executed was decided.
THEOREM NodeTypeCorrect == Spec => []TypeOK
<1>1. BaseInv => TypeOK
  <2> SUFFICES ASSUME BaseInv PROVE TypeOK
    OBVIOUS
  <2>1. \A a \in Task : task[a].at \in Place
    BY SMT DEF BaseInv, ControlInv, TaskState
  <2>2. ASSUME NEW m \in States
        PROVE  /\ m.core.next \in 1 .. MaxSlot + 1 /\ m.core.floor < m.core.next
               /\ m.executed \subseteq m.known /\ m.known \subseteq Decided(m.core)
    <3>1. Standing(m, chosen)
      BY <2>2 DEF BaseInv, StandingInv
    <3>2. PICK c : c = m.core /\ c \in CoreSet(Values) /\ Sound(c, Values)
      BY <3>1, NodeParts DEF Standing
    <3>3. c.next \in 1 .. MaxSlot + 1 /\ c.floor < c.next
      BY SMTT(20), <3>2, CoreParts, ReplicaConfigAssumption DEF Sound, Orderly, Restorable
    <3> QED BY <3>1, <3>2, <3>3 DEF Standing
  <2> QED BY <2>1, <2>2 DEF BaseInv, StandingInv, ControlInv, WorldOK, States, Place, Holding, TypeOK
<1> QED BY <1>1, Base, PTL

\* The file passes restore and validate_state, unless it retains a decision of a
\* member that has been removed: the node can restart after any crash, whatever
\* failed before, and whatever a late save replaced.
THEOREM NodeRestores == Spec => []SnapshotRestores
<1>1. BaseInv => SnapshotRestores
  BY DEF BaseInv, StandingInv, States, Standing, Sound, Orderly, SnapshotRestores, RestorableNode
<1> QED BY <1>1, Base, PTL

------------------------------------------------------------------------------
(* Keeping values *)

\* Values are counted once in a node that configures no no-op and has a log as
\* long as the limits allow.
PlainQueue == Noop = {} /\ MaxLogSlots >= MaxSlot

Somewhere(v, decided) == \E s \in Slot : v \in Range(decided[s])

\* Every value the state has seen is decided or waits in it, once.
Keeping(m, decided) ==
  /\ Distinct(m.core)
  /\ \A v \in m.core.seen : Somewhere(v, decided) \/ v \in Live(m.core)

\* What was accepted is known to the memory and to the file.
KeepingInv ==
  /\ \A m \in States : Keeping(m, chosen)
  /\ ~faults.overtaken => accepted \subseteq mem.core.seen /\ accepted \subseteq disk.core.seen

\* What is decided stays so.
LEMMA KeepingGrows ==
  ASSUME NEW m, Keeping(m, chosen), Grows
  PROVE  Keeping(m, chosen')
<1>1. Range(<< >>) = {}
  BY SMT DEF Range
<1>2. \A v : Somewhere(v, chosen) => Somewhere(v, chosen')
  BY <1>1 DEF Somewhere, Grows
<1> QED BY <1>2 DEF Keeping

\* The operation on the core that a step of each kind makes.
LEMMA CoreReplaced ==
  ASSUME NEW m \in Node, NEW c
  PROVE  [m EXCEPT !.core = c].core = c
BY DEF Node

\* enqueue, in a submission.
LEMMA SubmitsCore ==
  ASSUME mem \in Node, NEW m, Submits(m)
  PROVE  \E i \in Request :
            /\ m.core \in Enqueue(mem.core, Ids[i])
            /\ accepted' = accepted \/ (accepted' = accepted \union Range(Ids[i]) /\ mem' = m /\ disk' = m)
<1>1. PICK i \in Request :
         /\ \E core \in Enqueue(mem.core, Ids[i]) : m = [mem EXCEPT !.core = core]
         /\ accepted' = accepted \/ (accepted' = accepted \union Range(Ids[i]) /\ mem' = m /\ disk' = m)
  BY DEF Submits
<1>2. PICK core \in Enqueue(mem.core, Ids[i]) : m = [mem EXCEPT !.core = core]
  BY <1>1
<1>3. m.core = core
  BY <1>2, CoreReplaced
<1> QED BY <1>1, <1>2, <1>3

\* next_proposal: it never drains the queue for nothing.
LEMMA ProposesCore ==
  ASSUME PlainQueue, Standing(mem, chosen), Distinct(mem.core), NEW m, Proposes(m) \/ Drains(m)
  PROVE  /\ Proposes(m) /\ m.core \in NextProposal(mem.core)
         /\ CanPropose(mem.core) /\ NextOpenSlot(mem.core) <= MaxSlot
<1>1. CanPropose(mem.core) /\ NextOpenSlot(mem.core) <= MaxSlot /\ Sound(mem.core, Values) /\ mem \in Node
  BY DEF Proposes, Drains, Standing
<1>2. NextProposal(mem.core) # {}
  BY <1>1, NextProposalSucceeds DEF PlainQueue
<1>3. PICK core \in NextProposal(mem.core) : m = [mem EXCEPT !.core = core]
  BY <1>2 DEF Proposes, Drains
<1>4. m.core = core
  BY <1>1, <1>3, CoreReplaced
<1> QED BY <1>1, <1>2, <1>3, <1>4 DEF Drains

\* apply_decision; a slot whose decision is in the log already changes nothing.
LEMMA DecidesCore ==
  ASSUME PlainQueue, Standing(mem, chosen'), Grows, NEW m, Decides(m)
  PROVE  \/ m.core = mem.core
         \/ \E slot \in Slot \ Decided(mem.core) :
               /\ chosen'[slot] \in Seq(Values) /\ chosen'[slot] # << >>
               /\ m.core \in ApplyDecision(mem.core, slot, chosen'[slot])
<1>1. PICK slot \in Slot \ mem.known :
         /\ chosen'[slot] # << >>
         /\ m \in Applied(mem, slot, chosen'[slot]) \union WithDecision(mem, slot, chosen'[slot])
  BY DEF Decides
<1>2. chosen'[slot] \in Seq(Values) /\ mem \in Node
  BY DEF Grows, Standing
<1>3. m \in Applied(mem, slot, chosen'[slot])
  <2>1. ASSUME m \in WithDecision(mem, slot, chosen'[slot]) PROVE m \in Applied(mem, slot, chosen'[slot])
    <3>1. PICK k \in Applied(mem, slot, chosen'[slot]) : m \in ArmGapNoop(k)
      BY <2>1 DEF WithDecision
    <3>2. ArmGapNoop(k) \subseteq {k}
      BY DEF ArmGapNoop, PlainQueue
    <3> QED BY <3>1, <3>2
  <2> QED BY <1>1, <2>1
<1>4. PICK c \in ApplyDecision(mem.core, slot, chosen'[slot]) :
         m = [mem EXCEPT !.core = c, !.known = @ \union {slot}]
  BY <1>3 DEF Applied
<1>5. m.core = c
  BY <1>2, <1>4 DEF Node
<1>6. CASE slot \in Decided(mem.core)
  BY <1>4, <1>5, <1>6 DEF ApplyDecision, Decided
<1> QED BY <1>1, <1>2, <1>4, <1>5, <1>6

\* The other steps leave the core alone.
LEMMA SameCore ==
  ASSUME PlainQueue, mem \in Node, NEW m, Stays(m) \/ Arms(m) \/ Executes(m) \/ Renumbers(m)
  PROVE  m.core = mem.core
<1>1. CASE Stays(m)
  BY <1>1 DEF Stays
<1>2. CASE Arms(m)
  BY <1>2 DEF Arms, ArmGapNoop, PlainQueue
<1>3. CASE Executes(m)
  BY <1>3 DEF Executes, Node
<1>4. CASE Renumbers(m)
  BY <1>4, OtherParts DEF Renumbers
<1> QED BY <1>1, <1>2, <1>3, <1>4

\* What a step computes keeps its values, and forgets none that was in memory.
LEMMA KeepingStep ==
  ASSUME PlainQueue, Standing(mem, chosen), Keeping(mem, chosen), NEW m, Step(m)
  PROVE  Keeping(m, chosen') /\ mem.core.seen \subseteq m.core.seen
<1>1. /\ Standing(mem, chosen') /\ Keeping(mem, chosen') /\ Grows /\ mem \in Node
      /\ Sound(mem.core, Values)
  BY StandingGrows, KeepingGrows DEF Step, Standing
<1>2. PICK b, d, decided : b = mem.core /\ d = m.core /\ decided = chosen'
  OBVIOUS
<1>3. /\ Sound(b, Values) /\ Distinct(b)
      /\ \A v \in b.seen : Somewhere(v, decided) \/ v \in Live(b)
  BY <1>1, <1>2 DEF Keeping
<1>4. SUFFICES /\ Distinct(d) /\ b.seen \subseteq d.seen
               /\ \A v \in d.seen : Somewhere(v, decided) \/ v \in Live(d)
  BY <1>2 DEF Keeping
<1>5. CASE Submits(m)
  <2>1. PICK i \in Request : m.core \in Enqueue(mem.core, Ids[i])
    BY <1>1, <1>5, SubmitsCore
  <2>2. PICK q : q = Ids[i]
    OBVIOUS
  <2>3. q \in Seq(Values) /\ IsInjective(q) /\ d \in Enqueue(b, q)
    BY <1>2, <2>1, <2>2, RequestBatch
  <2>4. /\ d.seen = b.seen \union Range(q) /\ Live(d) = Live(b) \union (Range(q) \ b.seen)
        /\ Distinct(b) => Distinct(d)
    BY ONLY SMTT(20), <1>3, <2>3, EnqueueFacts
  <2> QED BY <1>3, <2>4
<1>6. CASE Proposes(m) \/ Drains(m)
  <2>1. d \in NextProposal(b) /\ CanPropose(b) /\ NextOpenSlot(b) <= MaxSlot
    BY <1>2, <1>3, <1>6, ProposesCore
  <2>2. d.seen = b.seen /\ Live(d) = Live(b) /\ (Distinct(b) => Distinct(d))
    BY ONLY SMTT(20), <1>3, <2>1, NextProposalFacts
  <2> QED BY <1>3, <2>2
<1>7. CASE d = b
  BY <1>3, <1>7
<1>8. CASE Decides(m)
  <2>1. ASSUME NEW slot \in Slot \ Decided(mem.core), chosen'[slot] \in Seq(Values),
               chosen'[slot] # << >>, m.core \in ApplyDecision(mem.core, slot, chosen'[slot])
        PROVE  /\ Distinct(d) /\ b.seen \subseteq d.seen
               /\ \A v \in d.seen : Somewhere(v, decided) \/ v \in Live(d)
    <3>1. PICK values : values = decided[slot]
      OBVIOUS
    <3>2. /\ slot \in Slot /\ slot \notin Decided(b) /\ values \in Seq(Values) /\ values # << >>
          /\ d \in ApplyDecision(b, slot, values)
      BY <1>2, <2>1, <3>1
    <3>3. /\ d.seen = b.seen \union Range(values) /\ Live(b) \subseteq Live(d) \union Range(values)
          /\ Distinct(b) => Distinct(d)
      BY ONLY SMTT(20), <1>3, <3>2, ApplyDecisionFacts
    <3>4. \A v \in Range(values) : Somewhere(v, decided)
      BY <3>1, <3>2 DEF Somewhere
    <3> QED BY <1>3, <3>3, <3>4
  <2> QED BY <1>1, <1>2, <1>7, <1>8, <2>1, DecidesCore
<1>9. CASE Prunes(m)
  <2>1. PICK slot \in Slot : CanTransfer(mem, slot) /\ m = Pruned(mem, slot)
    BY <1>9 DEF Prunes
  <2>2. LeavesPruned(mem, slot, m, PruneThrough(mem.core, slot))
    BY <2>1, PrunesStand
  <2>3. d.seen = b.seen /\ Live(d) = Live(b) /\ (Distinct(b) => Distinct(d))
    BY <1>2, <2>2 DEF LeavesPruned
  <2> QED BY <1>3, <2>3
<1>10. CASE Installs(m)
  <2>1. PICK s \in Slot : m = Packaged(s) /\ RestorableNode(m)
    BY <1>10 DEF Installs
  <2>2. LeavesInstalled(m, s)
    BY <1>1, <2>1, PackagedStands DEF Grows
  <2>3. /\ d.pending = << >> /\ \A v \in d.seen : \E t \in 1 .. s : v \in Range(decided[t])
        /\ Undecided(d) = {} /\ \A t \in Slot : d.log[t] = NoEntry
    <3>1. m.core.seen = UNION {Range(chosen'[t]) : t \in 1 .. s}
      BY <2>2 DEF LeavesInstalled
    <3>2. \A v \in m.core.seen : \E t \in 1 .. s : v \in Range(chosen'[t])
      BY <3>1
    <3> QED BY <1>2, <2>2, <3>2 DEF LeavesInstalled
  <2>4. b.seen = {}
    BY <1>2, <1>10 DEF Installs, NewNode, NewReplica
  <2>5. 1 .. s \subseteq Slot
    BY SMT, ReplicaConfigAssumption DEF Slot
  <2>6. \A v \in d.seen : Somewhere(v, decided)
    BY <2>3, <2>5 DEF Somewhere
  <2>7. IsInjective(<< >>) /\ NoEntry.proposed = << >>
    <3>1. NoEntry.proposed = << >>
      BY DEF NoEntry
    <3> QED BY SMT, <3>1 DEF IsInjective
  <2>8. Distinct(d)
    BY <2>3, <2>7 DEF Distinct
  <2> QED BY <2>4, <2>6, <2>8
<1>11. CASE Stays(m) \/ Arms(m) \/ Executes(m) \/ Renumbers(m)
  BY <1>1, <1>2, <1>7, <1>11, SameCore
<1> QED BY <1>5, <1>6, <1>8, <1>9, <1>10, <1>11 DEF Step

\* Every step keeps the accepted values,
LEMMA KeepingNext ==
  ASSUME PlainQueue, BaseInv, KeepingInv, [Next]_vars
  PROVE  KeepingInv'
<1>1. StandingInv /\ ControlInv /\ Standing(mem, chosen) /\ Keeping(mem, chosen) /\ mem \in Node
  BY DEF BaseInv, StandingInv, States, Standing, KeepingInv
<1>2. PICK m : Step(m)
  BY <1>1, StepShape
<1>3. Keeping(m, chosen') /\ mem.core.seen \subseteq m.core.seen
  BY <1>1, <1>2, KeepingStep
<1>4. \A n \in States' : Keeping(n, chosen')
  <2>1. \A n \in States : Keeping(n, chosen')
    BY <1>2, KeepingGrows DEF KeepingInv, Step
  <2>2. \A n \in States' : n \in States \union {m}
    BY <1>2 DEF Step, Moves, States
  <2> QED BY <1>3, <2>1, <2>2
<1>5. ASSUME ~faults'.overtaken
      PROVE  accepted' \subseteq mem'.core.seen /\ accepted' \subseteq disk'.core.seen
  <2>1. accepted \subseteq mem.core.seen /\ accepted \subseteq disk.core.seen
    BY <1>2, <1>5 DEF KeepingInv, Step, Grows, Counts
  <2>2. mem' \in {mem, m, disk} /\ disk' \in {disk, m}
    BY <1>2, <1>5 DEF Step, Moves
  <2>3. CASE accepted' = accepted
    BY <1>3, <2>1, <2>2, <2>3
  <2>4. CASE accepted' # accepted
    <3>1. Submits(m)
      BY <1>2, <2>4 DEF Step
    <3>0. PICK i \in Request :
             /\ m.core \in Enqueue(mem.core, Ids[i])
             /\ accepted' = accepted \/ (accepted' = accepted \union Range(Ids[i]) /\ mem' = m /\ disk' = m)
      BY <1>1, <3>1, SubmitsCore
    <3>2. /\ m.core \in Enqueue(mem.core, Ids[i])
          /\ accepted' = accepted \union Range(Ids[i]) /\ mem' = m /\ disk' = m
      BY <2>4, <3>0
    <3>3. PICK b, d, q : b = mem.core /\ d = m.core /\ q = Ids[i]
      OBVIOUS
    <3>4. Sound(b, Values) /\ q \in Seq(Values) /\ IsInjective(q) /\ d \in Enqueue(b, q)
      BY <1>1, <3>2, <3>3, RequestBatch DEF Standing
    <3>5. d.seen = b.seen \union Range(q)
      BY ONLY SMTT(20), <3>4, EnqueueFacts
    <3> QED BY <2>1, <3>2, <3>3, <3>5
  <2> QED BY <2>3, <2>4
<1> QED BY <1>4, <1>5 DEF KeepingInv

\* of which there are none at first.
LEMMA KeepingInit == Init => KeepingInv
<1> SUFFICES ASSUME Init PROVE KeepingInv
  OBVIOUS
<1>1. States = {NewNode} /\ accepted = {}
  BY DEF Init, States
<1>2. NewNode.core = NewReplica /\ NewReplica.seen = {}
  BY DEF NewNode, NewReplica
<1>3. Distinct(NewReplica)
  BY NewSound
<1> QED BY <1>1, <1>2, <1>3 DEF KeepingInv, Keeping

\* A value whose submission was saved is decided, or waits in the queue or in a
\* proposal, in memory and in the file, whatever fails and whenever the node
\* restarts.  Without a no-op, and with a log that holds all slots (PlainQueue):
\* otherwise next_proposal may drain a batch that it then refuses to note.
THEOREM NodeLosesNoValue ==
  ASSUME PlainQueue
  PROVE  Spec => []NoValueLost
<1>1. Init => KeepingInv
  BY KeepingInit
<1>2. BaseInv /\ KeepingInv /\ [Next]_vars => KeepingInv'
  BY KeepingNext
<1>3. KeepingInv => NoValueLost
  <2> SUFFICES ASSUME KeepingInv, ~faults.overtaken, NEW v \in accepted
               PROVE  \/ \E s \in Slot : v \in Range(chosen[s])
                      \/ \A m \in {mem, disk} :
                            \/ v \in Range(m.core.pending)
                            \/ \E s \in Slot : v \in Range(m.core.log[s].proposed)
    BY DEF NoValueLost
  <2>1. ASSUME NEW m \in {mem, disk}
        PROVE  \/ Somewhere(v, chosen) \/ v \in Range(m.core.pending)
               \/ \E s \in Slot : v \in Range(m.core.log[s].proposed)
    <3>1. v \in m.core.seen /\ Keeping(m, chosen)
      BY <2>1 DEF KeepingInv, States
    <3>2. Somewhere(v, chosen) \/ v \in Live(m.core)
      BY <3>1 DEF Keeping
    <3> QED BY <3>2 DEF Live, Proposed, Undecided
  <2> QED BY <2>1 DEF Somewhere
<1> QED BY <1>1, <1>2, <1>3, Base, PTL DEF Spec

------------------------------------------------------------------------------
(* Deciding once *)

\* Nobody else proposes the values of this node's clients.
OwnIds == \A b \in Foreign : Range(b) \cap Value = {}

Own(b) == Range(b) \cap Value # {}

\* Core c against what consensus decided and was offered: it still holds each of
\* its proposals that may yet be decided, and what is decided waits nowhere
\* else.
Once(c, decided, offers) ==
  /\ \A s \in Slot : \A b \in offers[s] : decided[s] = << >> /\ Own(b) => c.log[s].proposed = b
  /\ \A t \in Slot : \A v \in Range(decided[t]) \cap Value :
        /\ v \in c.seen /\ v \notin Range(c.pending)
        /\ \A s \in Undecided(c) : v \in Range(c.log[s].proposed) => s = t

Disjoint(decided) ==
  \A s, t \in Slot : Range(decided[s]) \cap Range(decided[t]) \cap Value # {} => s = t

\* While nothing has failed, memory and file are the same.
OnceInv ==
  faults.errors = 0 =>
    mem = disk /\ late = {} /\ Once(mem.core, chosen, offered) /\ Disjoint(chosen)

\* Consensus decides more: what it newly decides of this node's values is a
\* proposal that the memory still holds.
LEMMA OnceGrows ==
  ASSUME OwnIds, WorldOK, Standing(mem, chosen), Distinct(mem.core), Grows,
         Once(mem.core, chosen, offered), Disjoint(chosen)
  PROVE  Once(mem.core, chosen', offered) /\ Disjoint(chosen')
<1>1. PICK c, old, new : c = mem.core /\ old = chosen /\ new = chosen'
  OBVIOUS
<1>2. Range(<< >>) = {}
  BY SMT DEF Range
<1>3. \A s \in Slot : \/ new[s] = old[s]
                      \/ old[s] = << >> /\ new[s] # << >> /\ new[s] \in Foreign \union offered[s]
  BY <1>1 DEF Grows
<1>4. ASSUME NEW t \in Slot, NEW v \in Range(new[t]) \cap Value, new[t] # old[t]
      PROVE  t \in Undecided(c) /\ c.log[t].proposed = new[t] /\ v \in Range(c.log[t].proposed)
  <2>1. old[t] = << >> /\ new[t] # << >> /\ new[t] \in Foreign \union offered[t]
    BY <1>3, <1>4
  <2>2. new[t] \in offered[t] /\ Own(new[t])
    BY <1>4, <2>1 DEF OwnIds, Own
  <2>3. c.log[t].proposed = new[t]
    BY <1>1, <2>1, <2>2 DEF Once
  <2>4. t \notin Decided(c)
    BY <1>1, <2>1 DEF Standing, Decided
  <2> QED BY <1>4, <2>1, <2>3, <2>4 DEF Undecided, Decided
<1>5. /\ \A s \in Slot : Range(c.log[s].proposed) \subseteq c.seen
      /\ \A s \in Undecided(c) : Range(c.log[s].proposed) \cap Range(c.pending) = {}
      /\ \A s, t \in Undecided(c) :
            s # t => Range(c.log[s].proposed) \cap Range(c.log[t].proposed) = {}
  BY <1>1 DEF Standing, Sound, Orderly, Restorable, Distinct
<1>6. ASSUME NEW t \in Slot, NEW v \in Range(new[t]) \cap Value
      PROVE  /\ v \in c.seen /\ v \notin Range(c.pending)
             /\ \A s \in Undecided(c) : v \in Range(c.log[s].proposed) => s = t
  <2>1. CASE new[t] = old[t]
    BY <1>1, <1>6, <2>1 DEF Once
  <2>2. CASE new[t] # old[t]
    <3>1. t \in Undecided(c) /\ v \in Range(c.log[t].proposed)
      BY <1>4, <1>6, <2>2
    <3> QED BY <1>5, <1>6, <3>1
  <2> QED BY <2>1, <2>2
<1>7. \A s \in Slot : \A b \in offered[s] : new[s] = << >> /\ Own(b) => c.log[s].proposed = b
  <2>1. \A s \in Slot : new[s] = << >> => old[s] = << >>
    BY <1>3
  <2> QED BY <1>1, <2>1 DEF Once
<1>8. Once(c, new, offered)
  BY <1>6, <1>7 DEF Once
<1>9. ASSUME NEW s \in Slot, NEW t \in Slot, NEW v \in Range(new[s]) \cap Range(new[t]) \cap Value,
             new[s] # old[s]
      PROVE  s = t
  <2>1. s \in Undecided(c) /\ v \in Range(c.log[s].proposed)
    BY <1>4, <1>9
  <2> QED BY <1>6, <1>9, <2>1
<1>10. ASSUME NEW s \in Slot, NEW t \in Slot, Range(new[s]) \cap Range(new[t]) \cap Value # {}
       PROVE  s = t
  <2>1. PICK v : v \in Range(new[s]) \cap Range(new[t]) \cap Value
    BY <1>10
  <2>2. CASE new[s] = old[s] /\ new[t] = old[t]
    BY <1>1, <1>10, <2>2 DEF Disjoint
  <2>3. CASE new[s] # old[s]
    BY <1>9, <2>1, <2>3
  <2>4. CASE new[t] # old[t]
    BY <1>9, <2>1, <2>4
  <2> QED BY <2>2, <2>3, <2>4
<1>11. Disjoint(new)
  BY <1>10 DEF Disjoint
<1> QED BY <1>1, <1>8, <1>11

\* Value v, decided in slot t, waits nowhere else in core c.
Alone(v, t, c) ==
  /\ v \in c.seen /\ v \notin Range(c.pending)
  /\ \A s \in Undecided(c) : v \in Range(c.log[s].proposed) => s = t

\* What an operation has to keep.
LEMMA OnceKept ==
  ASSUME NEW c, NEW d, NEW decided, NEW offers, Once(c, decided, offers),
         \A s \in Slot : << >> \notin offers[s],
         \A s \in Decided(c) : c.log[s].decision = decided[s],
         \A s \in Undecided(c) : decided[s] = << >> => d.log[s].proposed = c.log[s].proposed,
         \A t \in Slot : \A v \in Range(decided[t]) : Alone(v, t, c) => Alone(v, t, d)
  PROVE  Once(d, decided, offers)
<1>1. ASSUME NEW s \in Slot, NEW b \in offers[s], decided[s] = << >>, Own(b)
      PROVE  d.log[s].proposed = b
  <2>1. c.log[s].proposed = b /\ b # << >>
    BY <1>1 DEF Once
  <2>2. s \notin Decided(c)
    BY <1>1 DEF Decided
  <2>3. s \in Undecided(c)
    BY <2>1, <2>2 DEF Undecided, Decided
  <2> QED BY <1>1, <2>1, <2>3
<1>2. ASSUME NEW t \in Slot, NEW v \in Range(decided[t]) \cap Value PROVE Alone(v, t, d)
  <2>1. Alone(v, t, c)
    BY <1>2 DEF Once, Alone
  <2> QED BY <1>2, <2>1
<1> QED BY <1>1, <1>2 DEF Once, Alone

\* Every operation keeps it.
LEMMA OnceStep ==
  ASSUME PlainQueue, WorldOK, Standing(mem, chosen), Keeping(mem, chosen), NEW m, Step(m),
         Once(mem.core, chosen', offered)
  PROVE  Once(m.core, chosen', offered)
<1>1. /\ Standing(mem, chosen') /\ Grows /\ mem \in Node /\ Sound(mem.core, Values)
      /\ Distinct(mem.core)
  BY StandingGrows DEF Step, Standing, Keeping
<1>2. PICK b, d, decided : b = mem.core /\ d = m.core /\ decided = chosen'
  OBVIOUS
<1>3. /\ Sound(b, Values) /\ Distinct(b) /\ Once(b, decided, offered)
      /\ \A s \in Decided(b) : b.log[s].decision = decided[s]
      /\ \A s \in Slot : << >> \notin offered[s]
      /\ Undecided(b) \subseteq Slot
  BY <1>1, <1>2 DEF Standing, WorldOK, Undecided
<1>4. SUFFICES ASSUME d # b
               PROVE  \/ Once(d, decided, offered)
                      \/ /\ \A s \in Undecided(b) :
                               decided[s] = << >> => d.log[s].proposed = b.log[s].proposed
                         /\ \A t \in Slot : \A v \in Range(decided[t]) :
                               Alone(v, t, b) => Alone(v, t, d)
  BY <1>2, <1>3, OnceKept
<1>5. CASE Submits(m)
  <2>1. PICK i \in Request : m.core \in Enqueue(mem.core, Ids[i])
    BY <1>1, <1>5, SubmitsCore
  <2>2. PICK q : q = Ids[i]
    OBVIOUS
  <2>3. q \in Seq(Values) /\ IsInjective(q) /\ d \in Enqueue(b, q)
    BY <1>2, <2>1, <2>2, RequestBatch
  <2>4. /\ d.log = b.log /\ d.seen = b.seen \union Range(q)
        /\ Live(d) = Live(b) \union (Range(q) \ b.seen)
        /\ Distinct(b) => Distinct(d)
    BY ONLY SMTT(20), <1>3, <2>3, EnqueueFacts
  <2>5. Undecided(d) = Undecided(b) /\ Proposed(d) = Proposed(b)
    BY <2>4 DEF Undecided, Proposed
  <2>6. ASSUME NEW v \in b.seen, v \notin Range(b.pending) PROVE v \notin Range(d.pending)
    <3>1. CASE v \in Live(b)
      <4>1. v \in Proposed(d)
        BY <2>5, <2>6, <3>1 DEF Live
      <4>2. PICK s \in Undecided(d) : v \in Range(d.log[s].proposed)
        BY <4>1 DEF Proposed
      <4> QED BY <1>3, <2>4, <4>2 DEF Distinct
    <3>2. CASE v \notin Live(b)
      BY <2>4, <2>6, <3>2 DEF Live
    <3> QED BY <3>1, <3>2
  <2> QED BY <2>4, <2>5, <2>6 DEF Alone
<1>6. CASE Proposes(m) \/ Drains(m)
  <2>1. d \in NextProposal(b) /\ CanPropose(b) /\ NextOpenSlot(b) <= MaxSlot
    BY <1>2, <1>3, <1>6, ProposesCore
  <2>2. PICK slot : slot = NextOpenSlot(b) /\ slot \notin Undecided(b)
    BY <1>3, OpenSlot
  <2>3. /\ d.seen = b.seen /\ Live(d) = Live(b) /\ (Distinct(b) => Distinct(d))
        /\ Undecided(d) = Undecided(b) \union {slot}
        /\ \A s \in Slot : s # slot => d.log[s].proposed = b.log[s].proposed
    BY ONLY SMTT(20), <1>3, <2>1, <2>2, NextProposalFacts
  <2>4. \A s \in Undecided(b) : s \in Slot /\ s # slot /\ s \in Undecided(d)
                                /\ d.log[s].proposed = b.log[s].proposed
    BY <1>3, <2>2, <2>3
  <2>5. ASSUME NEW t \in Slot, NEW v, Alone(v, t, b), v \in Live(d)
        PROVE  t \in Undecided(d) /\ v \in Range(d.log[t].proposed)
    <3>1. v \in Proposed(b)
      BY <2>3, <2>5 DEF Live, Alone
    <3>2. PICK s \in Undecided(b) : v \in Range(b.log[s].proposed)
      BY <3>1 DEF Proposed
    <3>3. s = t
      BY <2>5, <3>2 DEF Alone
    <3> QED BY <2>4, <3>2, <3>3
  <2>6. ASSUME NEW t \in Slot, NEW v, Alone(v, t, b) PROVE Alone(v, t, d)
    <3>1. Distinct(d) /\ v \in d.seen
      BY <1>3, <2>3, <2>6 DEF Alone
    <3>2. ASSUME v \in Range(d.pending) PROVE FALSE
      <4>1. t \in Undecided(d) /\ v \in Range(d.log[t].proposed)
        BY <2>5, <2>6, <3>2 DEF Live
      <4> QED BY <3>1, <3>2, <4>1 DEF Distinct
    <3>3. ASSUME NEW s \in Undecided(d), v \in Range(d.log[s].proposed) PROVE s = t
      <4>1. v \in Live(d)
        BY <3>3 DEF Live, Proposed
      <4>2. t \in Undecided(d) /\ v \in Range(d.log[t].proposed)
        BY <2>5, <2>6, <4>1
      <4> QED BY <3>1, <3>3, <4>2 DEF Distinct
    <3> QED BY <3>1, <3>2, <3>3 DEF Alone
  <2> QED BY <2>4, <2>6
<1>7. CASE Decides(m)
  <2>1. PICK slot \in Slot \ Decided(mem.core) :
           /\ chosen'[slot] \in Seq(Values) /\ chosen'[slot] # << >>
           /\ m.core \in ApplyDecision(mem.core, slot, chosen'[slot])
    BY <1>1, <1>2, <1>4, <1>7, DecidesCore
  <2>2. PICK values : values = decided[slot]
    OBVIOUS
  <2>3. /\ slot \in Slot /\ slot \notin Decided(b) /\ values \in Seq(Values) /\ values # << >>
        /\ d \in ApplyDecision(b, slot, values)
    BY <1>2, <2>1, <2>2
  <2>4. /\ d.seen = b.seen \union Range(values) /\ Undecided(d) = Undecided(b) \ {slot}
        /\ \A s \in Undecided(d) : d.log[s].proposed = b.log[s].proposed
        /\ Range(d.pending) = Range(b.pending) \union (Range(b.log[slot].proposed) \ Range(values))
    <3>1. Sound(b, Values)
      BY <1>3
    <3>2. d.seen = b.seen \union Range(values) /\ Undecided(d) = Undecided(b) \ {slot}
      BY ONLY SMTT(20), <2>3, <3>1, ApplyDecisionFacts
    <3>3. \A s \in Undecided(d) : d.log[s].proposed = b.log[s].proposed
      BY ONLY SMTT(20), <2>3, <3>1, ApplyDecisionFacts
    <3>4. Range(d.pending) = Range(b.pending) \union (Range(b.log[slot].proposed) \ Range(values))
      BY ONLY SMTT(20), <2>3, <3>1, ApplyDecisionFacts
    <3> QED BY <3>2, <3>3, <3>4
  <2>5. \A s \in Undecided(b) : decided[s] = << >> => d.log[s].proposed = b.log[s].proposed
    BY <2>2, <2>3, <2>4
  <2>6. ASSUME NEW t \in Slot, NEW v \in Range(decided[t]), Alone(v, t, b) PROVE Alone(v, t, d)
    <3>1. ASSUME v \in Range(b.log[slot].proposed) PROVE v \in Range(values)
      <4>1. Range(<< >>) = {}
        BY SMT DEF Range
      <4>2. slot \in Undecided(b)
        BY <2>3, <3>1, <4>1 DEF Undecided, Decided
      <4>3. slot = t
        BY <2>6, <3>1, <4>2 DEF Alone
      <4> QED BY <2>2, <2>6, <4>3
    <3> QED BY <2>4, <2>6, <3>1 DEF Alone
  <2> QED BY <2>5, <2>6
<1>8. CASE Prunes(m)
  <2>1. PICK slot \in Slot : CanTransfer(mem, slot) /\ m = Pruned(mem, slot)
    BY <1>8 DEF Prunes
  <2>2. LeavesPruned(mem, slot, m, PruneThrough(mem.core, slot))
    BY <2>1, PrunesStand
  <2>3. /\ Sound(d, Values) /\ d.next = b.next /\ d.seen = b.seen /\ d.pending = b.pending
        /\ Undecided(d) = Undecided(b)
        /\ \A s \in Slot : s > d.floor \/ s <= b.floor => d.log[s] = b.log[s]
    BY <1>2, <2>2 DEF LeavesPruned
  <2>4. \A s \in Undecided(b) : s \in Slot /\ s > d.floor
    <3>1. /\ d.next \in Nat /\ d.floor \in Nat /\ d.next > d.floor /\ \A s \in Slot : s \in Nat
          /\ \A s \in Undecided(b) : s >= d.next /\ s \in Slot
      BY <1>3, <2>3, CoreParts DEF Sound, Orderly, Restorable
    <3> QED BY SMTT(20), <3>1
  <2> QED BY <2>3, <2>4 DEF Alone
<1>9. CASE Installs(m)
  <2>1. \A t \in Slot : b.log[t].proposed = << >>
    BY <1>2, <1>9 DEF Installs, NewNode, NewReplica, NoEntry
  <2>2. b.seen = {}
    BY <1>2, <1>9 DEF Installs, NewNode, NewReplica
  <2> QED BY <1>3, <2>1, <2>2 DEF Alone, Undecided
<1>10. CASE Stays(m) \/ Arms(m) \/ Executes(m) \/ Renumbers(m)
  BY <1>1, <1>2, <1>4, <1>10, SameCore
<1> QED BY <1>5, <1>6, <1>7, <1>8, <1>9, <1>10 DEF Step

\* While nothing fails, no step leaves the memory ahead of the file, or a save
\* behind.
LEMMA SavedNext ==
  ASSUME PlainQueue, BaseInv, Distinct(mem.core), [Next]_vars, faults'.errors = 0,
         mem = disk, late = {}
  PROVE  mem' = disk' /\ late' = {}
<1>1. faults \in Faults /\ Standing(mem, chosen) /\ Sound(mem.core, Values)
  BY DEF BaseInv, StandingInv, WorldOK, States, Standing
<1>2. ASSUME mem' = mem, disk' = disk, late' = late PROVE mem' = disk' /\ late' = {}
  BY <1>2
<1>3. ASSUME NEW m, Save(m), late' = late PROVE mem' = disk' /\ late' = {}
  BY <1>1, <1>3, SaveMoves
<1>4. ~Err
  BY <1>1, ErrCounts
<1>5. ASSUME Restart(disk) PROVE mem' = disk' /\ late' = {}
  BY <1>5 DEF Restart
<1>6. \A n : ArmGapNoop(n) = {n}
  BY DEF PlainQueue, ArmGapNoop
<1>7. CASE UNCHANGED vars
  BY <1>2, <1>7 DEF vars
<1>8. ASSUME NEW i \in Request, Submit(i) PROVE mem' = disk' /\ late' = {}
  BY <1>2, <1>3, <1>8 DEF Submit
<1>9. ASSUME NEW i \in Request, Loop(i) PROVE mem' = disk' /\ late' = {}
  <2>1. ASSUME CanPropose(mem.core), NextOpenSlot(mem.core) <= MaxSlot PROVE NextProposal(mem.core) # {}
    BY <1>1, <2>1, NextProposalSucceeds DEF PlainQueue
  <2> QED BY <1>2, <1>3, <1>9, <2>1 DEF Loop
<1>10. ASSUME NEW a, NEW s, Accept(a, s) PROVE mem' = disk' /\ late' = {}
  <2>1. PICK batch : AcceptDecision(a, s, batch)
    BY <1>10 DEF Accept
  <2>2. late' = late
    BY <1>10 DEF Accept
  <2>3. CASE s \in mem.known
    <3>1. \/ mem' \in ArmGapNoop(mem) /\ disk' = disk
          \/ mem' = mem /\ disk' = disk
      BY <2>1, <2>3 DEF AcceptDecision
    <3> QED BY <1>2, <1>6, <2>2, <3>1
  <2>4. CASE s \notin mem.known
    <3>1. \/ \E m : Save(m)
          \/ /\ WithDecision(mem, s, batch) = {} /\ disk' = disk
             /\ mem' \in IF Applied(mem, s, batch) = {} THEN {mem} ELSE Applied(mem, s, batch)
      BY <2>1, <2>4 DEF AcceptDecision
    <3>2. ASSUME WithDecision(mem, s, batch) = {} PROVE Applied(mem, s, batch) = {}
      <4>1. \A n \in Applied(mem, s, batch) : n \in WithDecision(mem, s, batch)
        BY <1>6 DEF WithDecision
      <4> QED BY <3>2, <4>1
    <3> QED BY <1>2, <1>3, <2>2, <3>1, <3>2
  <2> QED BY <2>3, <2>4
<1>11. ASSUME NEW a, Execute(a) PROVE mem' = disk' /\ late' = {}
  BY <1>4, <1>5, <1>11 DEF Execute
<1>12. CASE Recover
  BY <1>2, <1>3, <1>12 DEF Recover
<1>13. CASE Prune
  BY <1>2, <1>3, <1>13 DEF Prune
<1>14. ASSUME NEW s, InstallTransfer(s) PROVE mem' = disk' /\ late' = {}
  BY <1>3, <1>14 DEF InstallTransfer
<1>15. CASE InstallMembership
  BY <1>3, <1>15 DEF InstallMembership
<1>16. CASE \/ \E i \in Request : ProposeFails(i)
            \/ \E a \in Task : StandDown(a) \/ Accepted(a)
            \/ Drive \/ Export \/ TransferFails \/ BeginInstall \/ AnnounceAll \/ OwnTimesOut
            \/ \E s \in Slot : BeginTransfer(s)
  BY <1>2, <1>16 DEF ProposeFails, StandDown, Accepted, Drive, Export, TransferFails, BeginInstall,
                     AnnounceAll, OwnTimesOut, BeginTransfer
<1>17. CASE \/ \E a \in Task : ExecuteFails(a)
            \/ \E d \in Drivers : RecoverFails(d)
            \/ InstallFails \/ LateSave
  BY <1>4, <1>17 DEF ExecuteFails, RecoverFails, InstallFails, LateSave
<1>18. ASSUME NEW a \in Task, Decide(a) PROVE mem' = disk' /\ late' = {}
  BY <1>10, <1>18 DEF Decide
<1>19. ASSUME NEW s \in Slot, Receive(s) \/ ReceiveOwn(s) PROVE mem' = disk' /\ late' = {}
  BY <1>10, <1>19 DEF Receive, ReceiveOwn
<1>20. CASE Crash
  BY <1>5, <1>20 DEF Crash
<1> QED BY <1>7, <1>8, <1>9, <1>11, <1>12, <1>13, <1>14, <1>15, <1>16, <1>17, <1>18, <1>19, <1>20
           DEF Next

\* Every step keeps a value in one place.
LEMMA OnceNext ==
  ASSUME PlainQueue, OwnIds, BaseInv, KeepingInv, OnceInv, [Next]_vars
  PROVE  OnceInv'
<1> SUFFICES ASSUME faults'.errors = 0
             PROVE  /\ mem' = disk' /\ late' = {}
                    /\ Once(mem'.core, chosen', offered') /\ Disjoint(chosen')
  BY DEF OnceInv
<1>1. /\ StandingInv /\ ControlInv /\ WorldOK /\ Standing(mem, chosen) /\ Keeping(mem, chosen)
      /\ Distinct(mem.core)
  BY DEF BaseInv, StandingInv, States, KeepingInv, Keeping
<1>2. PICK m : Step(m)
  BY <1>1, StepShape
<1>3. faults.errors = 0
  <2>1. faults.errors \in Nat /\ faults'.errors >= faults.errors
    BY <1>1, <1>2, FaultParts DEF Counts, WorldOK, Step, Grows
  <2> QED BY SMT, <2>1
<1>4. mem = disk /\ late = {} /\ Once(mem.core, chosen, offered) /\ Disjoint(chosen)
  BY <1>3 DEF OnceInv
<1>5. mem' = disk' /\ late' = {}
  BY <1>1, <1>4, SavedNext
<1>6. Once(mem.core, chosen', offered) /\ Disjoint(chosen')
  BY <1>1, <1>2, <1>4, OnceGrows DEF Step
<1>7. Once(m.core, chosen', offered)
  BY <1>1, <1>2, <1>6, OnceStep
<1>8. Once(mem'.core, chosen', offered)
  <2>1. mem' \in {mem, m}
    BY <1>2, <1>4 DEF Step, Moves
  <2> QED BY <1>6, <1>7, <2>1
<1>9. ASSUME NEW s \in Slot, NEW b \in offered'[s], chosen'[s] = << >>, Own(b)
      PROVE  mem'.core.log[s].proposed = b
  <2>1. b \in offered[s] \/ b = mem'.core.log[s].proposed
    BY <1>2, <1>9 DEF Step, Offers
  <2> QED BY <1>8, <1>9, <2>1 DEF Once
<1>10. Once(mem'.core, chosen', offered')
  BY <1>8, <1>9 DEF Once
<1> QED BY <1>5, <1>6, <1>10

\* While nothing has failed, a value of this node is decided in one slot only,
\* although its clients retry and the node restarts: when nobody else proposes
\* it (OwnIds), without a no-op and with a log that holds all slots (PlainQueue).
THEOREM NodeDecidesOnce ==
  ASSUME PlainQueue, OwnIds
  PROVE  Spec => []DecidedOnce
<1>1. Init => KeepingInv /\ OnceInv
  <2>1. ASSUME Init PROVE OnceInv
    <3>1. Range(<< >>) = {}
      BY SMT DEF Range
    <3>2. \A s \in Slot : Range(chosen[s]) = {} /\ offered[s] = {}
      BY <2>1, <3>1 DEF Init
    <3> QED BY <2>1, <3>2 DEF Init, OnceInv, Once, Disjoint
  <2> QED BY <2>1, KeepingInit
<1>2. BaseInv /\ KeepingInv /\ OnceInv /\ [Next]_vars => KeepingInv' /\ OnceInv'
  BY KeepingNext, OnceNext
<1>3. OnceInv => DecidedOnce
  BY DEF OnceInv, Disjoint, DecidedOnce
<1> QED BY <1>1, <1>2, <1>3, Base, PTL DEF Spec
==============================================================================
