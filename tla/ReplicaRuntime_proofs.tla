----------------------- MODULE ReplicaRuntime_proofs -----------------------
(***************************************************************************)
(* The safety of a replica that fails and restarts (ReplicaRuntime), for   *)
(* any cluster, any limits, any values and any number of crashes and       *)
(* errors.                                                                 *)
(*                                                                         *)
(* Every step is described once, by Step: the runtime m it computes, which *)
(* memory and file then hold or not (Moves), and what the step does to the *)
(* application, to consensus and to the clients.  The invariants are about *)
(* one runtime, m, and hold of the one in memory and of the one in the     *)
(* file:                                                                   *)
(*   - Standing: m passes the validation of new, its decisions are those   *)
(*     consensus chose, and the recorders hold what m announced or pruned; *)
(*   - Executing: the application has executed what m marks executed or    *)
(*     has pruned;                                                         *)
(*   - Keeping: every value m has seen is chosen or waits in m, once.      *)
(***************************************************************************)
EXTENDS ReplicaRuntime, ReplicaCore_proofs

USE Zenon

\* All value IDs.
Values == Value \union Noop \union (UNION {Range(b) : b \in Foreign})

Runtime ==
  [core : CoreSet(Values), executed : SUBSET Slot, notified : SUBSET Slot,
   announced : [Slot -> SUBSET Member]]

Faults == [crashes : Nat, errors : Nat]

\* The types of what is outside the runtime.
WorldOK ==
  /\ app \subseteq Slot
  /\ offered \in [Slot -> SUBSET (Seq(Values) \ {<< >>})]
  /\ chosen \in [Slot -> Seq(Values)]
  /\ informed \in [Slot -> SUBSET Member]
  /\ faults \in Faults

\* What makes a runtime one that the cluster can rely on.
Standing(m, decided, told) ==
  /\ m \in Runtime
  /\ Sound(m.core, Values)
  /\ m.notified \subseteq m.executed /\ m.executed \subseteq Decided(m.core)
  /\ \A s \in Slot : m.announced[s] # {} => s \in Decided(m.core)
  /\ \A s \in Slot : m.announced[s] \subseteq told[s]
  /\ \A s \in Slot : s <= m.core.floor => told[s] = Member
  /\ \A s \in Decided(m.core) : s > m.core.floor /\ m.core.log[s].decision = decided[s]

StandingInv ==
  WorldOK /\ Standing(mem, chosen, informed) /\ Standing(disk, chosen, informed)

\* The application is where the runtime takes it to be.
Executing(m, done) ==
  m.executed \subseteq done /\ \A s \in Slot : s <= m.core.floor => s \in done

ExecutingInv == Executing(mem, app) /\ Executing(disk, app) /\ ExecutedInOrder

\* No value that the runtime has seen gets lost.
Somewhere(v, decided) == \E s \in Slot : v \in Range(decided[s])

Keeping(m, decided, taken) ==
  /\ Distinct(m.core)
  /\ taken \subseteq m.core.seen
  /\ \A v \in m.core.seen : Somewhere(v, decided) \/ v \in Live(m.core)

KeepingInv == Keeping(mem, chosen, accepted) /\ Keeping(disk, chosen, accepted)

------------------------------------------------------------------------------
(* arm_available *)

\* The states its loop goes through.
Arming(core, n, f) ==
  f = [i \in 0 .. n |-> IF i = 0 THEN [core |-> core, failed |-> FALSE] ELSE ArmOne(f[i - 1])]

\* The repeated arming of slots defines a function, however many slots it arms.
LEMMA ArmingExists ==
  ASSUME NEW core, NEW n \in Nat
  PROVE  \E f : Arming(core, n, f)
<1> DEFINE S == {k \in Nat : ~\E f : Arming(core, k, f)}
<1> SUFFICES ASSUME S # {} PROVE FALSE
  OBVIOUS
<1>1. PICK k \in S : \A m \in S : k <= m
  BY LeastNatural
<1>2. CASE k = 0
  <2>1. Arming(core, 0, [i \in 0 .. 0 |-> [core |-> core, failed |-> FALSE]])
    BY SMT DEF Arming
  <2> QED BY <1>2, <2>1
<1>3. CASE k # 0
  <2>1. k - 1 \in Nat /\ k - 1 \notin S
    BY SMT, <1>1, <1>3
  <2>2. PICK f : Arming(core, k - 1, f)
    BY <2>1
  <2> DEFINE W(h, i) == IF i = 0 THEN [core |-> core, failed |-> FALSE] ELSE ArmOne(h[i - 1])
             g == [i \in 0 .. k |-> W(f, i)]
  <2>3. ASSUME NEW i \in 0 .. k - 1 PROVE i \in 0 .. k /\ g[i] = f[i]
    <3>1. i \in 0 .. k /\ i \in 0 .. (k - 1)
      BY SMT, <2>1
    <3>2. f[i] = W(f, i)
      BY <2>2, <3>1 DEF Arming
    <3> QED BY <3>1, <3>2
  <2>4. ASSUME NEW i \in 0 .. k PROVE W(g, i) = W(f, i)
    <3>1. CASE i = 0
      BY <3>1
    <3>2. CASE i # 0
      <4>1. i - 1 \in 0 .. k - 1
        BY SMT, <2>1, <3>2
      <4>2. g[i - 1] = f[i - 1]
        BY <4>1, <2>3
      <4> HIDE DEF g
      <4> QED BY <4>2
    <3> QED BY <3>1, <3>2
  <2>5. g = [i \in 0 .. k |-> W(g, i)]
    <3>1. \A i \in 0 .. k : g[i] = W(g, i)
      BY <2>4
    <3>2. g = [i \in 0 .. k |-> g[i]]
      OBVIOUS
    <3> HIDE DEF g
    <3> QED BY <3>1, <3>2
  <2>6. Arming(core, k, g)
    BY <2>5 DEF Arming
  <2> QED BY <2>6
<1> QED BY <1>2, <1>3

\* ArmAll is its last value.
LEMMA ArmAllArming ==
  ASSUME NEW core
  PROVE  \E f : Arming(core, PipelineLen, f) /\ ArmAll(core) = f[PipelineLen]
<1>1. \E f : Arming(core, PipelineLen, f)
  BY ArmingExists, ReplicaConfigAssumption
<1> DEFINE g == CHOOSE f : Arming(core, PipelineLen, f)
<1>2. Arming(core, PipelineLen, g)
  BY <1>1
<1>3. ArmAll(core) = g[PipelineLen]
  BY DEF ArmAll, Arming
<1> QED BY <1>2, <1>3

\* Nothing can be proposed.
Stuck(c) == ~CanPropose(c) \/ NextOpenSlot(c) > MaxSlot

\* The loop after n calls: it keeps what is decided, and values unless a call
\* failed.  No call fails when no value waits twice and the log has room.
Armed(a, c, n) ==
  /\ a.failed \in BOOLEAN
  /\ Sound(a.core, Values)
  /\ a.core.next = c.next /\ a.core.floor = c.floor /\ a.core.seen = c.seen
  /\ Decided(a.core) = Decided(c)
  /\ \A s \in Slot : a.core.log[s].decision = c.log[s].decision
  /\ ~a.failed => Live(a.core) = Live(c) /\ (Distinct(c) => Distinct(a.core))
  /\ Distinct(c) /\ MaxLogSlots >= MaxSlot => ~a.failed
  /\ ~a.failed /\ Undecided(a.core) = {} => a.core = c /\ (n = 0 \/ Stuck(c))

\* One more armed slot keeps what the earlier ones left.
LEMMA ArmOneKeeps ==
  ASSUME NEW c, NEW n \in Nat, NEW a, Armed(a, c, n)
  PROVE  Armed(ArmOne(a), c, n + 1)
<1>0. MaxSlot \in Nat /\ (NextOpenSlot(a.core) > MaxSlot \/ NextOpenSlot(a.core) <= MaxSlot)
  <2>1. NextOpenSlot(a.core) \in a.core.next .. MaxSlot + 1 /\ a.core.next \in Nat /\ MaxSlot \in Nat
    BY OpenSlot, CoreParts, ReplicaConfigAssumption DEF Armed, Sound, Orderly
  <2> QED BY SMT, <2>1
<1>1. CASE a.failed
  <2>1. ArmOne(a) = a
    BY <1>1 DEF ArmOne
  <2> QED BY <1>1, <2>1 DEF Armed
<1>2. CASE ~a.failed /\ Stuck(a.core)
  <2>1. ArmOne(a) = a
    BY <1>2 DEF ArmOne, Stuck
  <2>2. Undecided(a.core) = {} => Stuck(c)
    BY <1>2 DEF Armed
  <2> QED BY <1>2, <2>1, <2>2 DEF Armed
<1>3. CASE ~a.failed /\ ~Stuck(a.core) /\ NextProposal(a.core) = {}
  <2>1. ArmOne(a) = [core |-> Drained(a.core), failed |-> TRUE]
    BY <1>3 DEF ArmOne, Stuck
  <2>2. PICK b : b = ArmOne(a)
    OBVIOUS
  <2>3. b.core = Drained(a.core) /\ b.failed = TRUE
    BY SMT, <2>1, <2>2
  <2>4. /\ Sound(b.core, Values)
        /\ b.core.log = a.core.log /\ b.core.next = a.core.next /\ b.core.floor = a.core.floor
        /\ b.core.seen = a.core.seen /\ Decided(b.core) = Decided(a.core)
    BY SMT, <1>3, <2>3, DrainedFacts DEF Armed, Stuck, CanPropose
  <2>5. ~(Distinct(c) /\ MaxLogSlots >= MaxSlot)
    BY <1>0, <1>3, NextProposalSucceeds DEF Armed, Stuck
  <2> QED BY <2>2, <2>3, <2>4, <2>5 DEF Armed
<1>4. CASE ~a.failed /\ ~Stuck(a.core) /\ NextProposal(a.core) # {}
  <2>1. PICK d : d = CHOOSE e \in NextProposal(a.core) : TRUE
    OBVIOUS
  <2>2. d \in NextProposal(a.core)
    BY <1>4, <2>1
  <2>3. ArmOne(a) = [core |-> d, failed |-> FALSE]
    BY <1>4, <2>1 DEF ArmOne, Stuck
  <2>4. PICK b : b = ArmOne(a)
    OBVIOUS
  <2>5. b.core = d /\ b.failed = FALSE
    BY SMT, <2>3, <2>4
  <2>6. /\ Sound(d, Values)
        /\ d.next = a.core.next /\ d.floor = a.core.floor /\ d.seen = a.core.seen
        /\ Decided(d) = Decided(a.core) /\ Undecided(d) # {}
        /\ \A s \in Slot : d.log[s].decision = a.core.log[s].decision
        /\ Live(d) = Live(a.core)
        /\ Distinct(a.core) => Distinct(d)
    BY SMT, <1>0, <1>4, <2>2, NextProposalFacts DEF Armed, Stuck
  <2> QED BY <1>4, <2>4, <2>5, <2>6 DEF Armed
<1>5. a.failed \in BOOLEAN
  BY DEF Armed
<1> QED BY <1>1, <1>2, <1>3, <1>4, <1>5

\* What arming the pipeline leaves of a core.
LEMMA ArmAllFacts ==
  ASSUME NEW c, Sound(c, Values)
  PROVE  Armed(ArmAll(c), c, PipelineLen)
<1>1. PICK f : Arming(c, PipelineLen, f) /\ ArmAll(c) = f[PipelineLen]
  BY ArmAllArming
<1>2. PICK P : P = PipelineLen /\ P \in Nat
  BY ReplicaConfigAssumption
<1>3. ASSUME NEW i \in 0 .. P
      PROVE  f[i] = IF i = 0 THEN [core |-> c, failed |-> FALSE] ELSE ArmOne(f[i - 1])
  BY <1>1, <1>2 DEF Arming
<1> DEFINE S == {k \in 0 .. P : ~Armed(f[k], c, k)}
<1>4. S = {}
  <2> SUFFICES ASSUME S # {} PROVE FALSE
    OBVIOUS
  <2>1. S \in SUBSET Nat
    BY SMT, <1>2
  <2>2. PICK k \in S : \A m \in S : k <= m
    BY <2>1, LeastNatural
  <2>3. CASE k = 0
    <3>1. PICK a : a = [core |-> c, failed |-> FALSE]
      OBVIOUS
    <3>2. a.core = c /\ a.failed = FALSE
      BY <3>1
    <3>3. Armed(a, c, 0)
      BY <3>2 DEF Armed
    <3> QED BY <1>2, <1>3, <2>2, <2>3, <3>1, <3>3
  <2>4. CASE k # 0
    <3>1. k - 1 \in Nat /\ k - 1 \in 0 .. P /\ k - 1 \notin S /\ k - 1 + 1 = k /\ k \in 0 .. P
      BY SMT, <1>2, <2>2, <2>4
    <3>2. Armed(f[k - 1], c, k - 1)
      BY <3>1
    <3>3. Armed(ArmOne(f[k - 1]), c, k - 1 + 1)
      BY <3>1, <3>2, ArmOneKeeps
    <3> QED BY <1>3, <2>2, <2>4, <3>1, <3>3
  <2> QED BY <2>3, <2>4
<1>5. P \in 0 .. P
  BY SMT, <1>2
<1> QED BY <1>1, <1>2, <1>4, <1>5

\* Some slot beyond the commit frontier is decided, the one at it is not.
Gap(c) == \E s \in Decided(c) : s > c.next

\* Behind a gap nothing is in flight unless a slot is undecided.
LEMMA GapIdle ==
  ASSUME NEW c, Sound(c, Values), Distinct(c), Undecided(c) = {}, Gap(c)
  PROVE  /\ c.next \in Slot /\ c.next \notin Decided(c)
         /\ NextOpenSlot(c) = c.next /\ NextOpenSlot(c) <= MaxSlot
         /\ \A t \in Slot : t >= c.next => c.log[t].proposed = << >>
         /\ InflightCount(c) = 0
<1>1. /\ c.next \in Nat /\ c.next >= 1 /\ MaxSlot \in Nat /\ c.next \notin Decided(c)
      /\ Decided(c) \subseteq Slot
  BY SMT, CoreParts, ReplicaConfigAssumption DEF Sound, Orderly, Decided
<1>2. c.next \in Slot /\ c.next <= MaxSlot
  BY SMT, <1>1 DEF Gap, Slot
<1>3. NextOpenSlot(c) = c.next
  <2>1. /\ NextOpenSlot(c) \in c.next .. MaxSlot + 1
        /\ \A s \in c.next .. NextOpenSlot(c) - 1 : s \in Decided(c) \union Undecided(c)
    BY OpenSlot
  <2>2. c.next \notin c.next .. NextOpenSlot(c) - 1
    BY <1>1, <2>1
  <2> QED BY SMT, <1>1, <2>1, <2>2
<1>4. ASSUME NEW t \in Slot, t >= c.next PROVE c.log[t].proposed = << >>
  <2> SUFFICES ASSUME c.log[t].proposed # << >> PROVE FALSE
    OBVIOUS
  <2>1. c.next .. t - 1 \subseteq Decided(c)
    BY <1>4 DEF Distinct
  <2>2. t \in Nat
    BY SMT, <1>1 DEF Slot
  <2>3. t = c.next
    <3>1. c.next \notin c.next .. t - 1
      BY <1>1, <2>1
    <3> QED BY SMT, <1>1, <1>4, <2>2, <3>1
  <2>4. c.log[t].decision # << >>
    BY DEF Undecided
  <2> QED BY <1>1, <2>3, <2>4 DEF Decided
<1>5. InflightCount(c) = 0
  <2>1. {s \in Slot : s >= c.next /\ ~c.log[s].committed /\ c.log[s].proposed # << >>} = {}
    BY <1>4
  <2> QED BY <2>1, FS_EmptySet DEF InflightCount
<1> QED BY <1>1, <1>2, <1>3, <1>4, <1>5

\* arm_gap_noop.
LEMMA ArmGapNoopFacts ==
  ASSUME NEW c, Sound(c, Values), NEW d \in ArmGapNoop(c)
  PROVE  /\ Sound(d, Values)
         /\ d.next = c.next /\ d.floor = c.floor
         /\ c.seen \subseteq d.seen /\ d.seen \subseteq c.seen \union Live(d)
         /\ Decided(d) = Decided(c)
         /\ \A s \in Slot : d.log[s].decision = c.log[s].decision
         /\ Distinct(c) /\ (Undecided(c) = {} /\ Gap(c) => c.pending = << >>)
              => Distinct(d) /\ Live(c) \subseteq Live(d)
<1>1. CASE d = c
  BY <1>1
<1>2. CASE d # c
  <2>1. PICK noop \in Noop : /\ Undecided(c) = {} /\ Gap(c)
                             /\ d \in NoteProposed(c, c.next, <<noop>>)
    BY <1>2 DEF ArmGapNoop, Gap
  <2>2. c.next \in Slot /\ c.next \in Nat /\ c.next \notin Decided(c)
    <3>1. /\ c.next \in Nat /\ c.next >= 1 /\ MaxSlot \in Nat /\ c.next \notin Decided(c)
          /\ Decided(c) \subseteq Slot
      BY SMT, CoreParts, ReplicaConfigAssumption DEF Sound, Orderly, Decided
    <3> QED BY SMT, <2>1, <3>1 DEF Gap, Slot
  <2>3. PICK q : q = <<noop>>
    OBVIOUS
  <2>4. q \in Seq(Values) /\ q # << >> /\ IsInjective(q) /\ Range(q) = {noop}
    <3>1. noop \in Values
      BY DEF Values
    <3>2. Len(q) = 1 /\ DOMAIN q = 1 .. 1 /\ q[1] = noop /\ q \in Seq(Values)
      BY SMT, <2>3, <3>1
    <3>3. \A i \in DOMAIN q : i = 1
      BY SMT, <3>2
    <3>4. IsInjective(q) /\ Range(q) = {noop}
      BY SMT, <3>2, <3>3 DEF IsInjective, Range
    <3>5. q # << >>
      BY <2>3
    <3> QED BY <3>2, <3>4, <3>5
  <2>5. /\ Sound(d, Values)
        /\ d.pending = c.pending /\ d.next = c.next /\ d.floor = c.floor
        /\ d.seen = c.seen \union Range(q)
        /\ Decided(d) = Decided(c) /\ Undecided(d) = Undecided(c) \union {c.next}
        /\ \A s \in Slot : /\ d.log[s].proposed = IF s = c.next THEN q ELSE c.log[s].proposed
                           /\ d.log[s].decision = c.log[s].decision
    <3>1. PICK slot : slot = c.next
      OBVIOUS
    <3>2. /\ slot \in Slot /\ slot >= c.next /\ slot \notin Decided(c)
          /\ d \in NoteProposed(c, slot, q)
      BY SMT, <2>1, <2>2, <2>3, <3>1
    <3>3. /\ Sound(d, Values)
          /\ d.pending = c.pending /\ d.next = c.next /\ d.floor = c.floor
          /\ d.seen = c.seen \union Range(q)
          /\ Decided(d) = Decided(c) /\ Undecided(d) = Undecided(c) \union {slot}
          /\ \A s \in Slot : /\ d.log[s].proposed = IF s = slot THEN q ELSE c.log[s].proposed
                             /\ d.log[s].decision = c.log[s].decision
      BY ONLY SMT, Sound(c, Values), <2>4, <3>2, NoteProposedFacts
    <3> QED BY <3>1, <3>3
  <2>6. Undecided(d) = {c.next} /\ d.log[c.next].proposed = q
    BY <2>1, <2>2, <2>5
  <2>7. Live(d) = Range(c.pending) \union Range(q)
    BY SMT, <2>5, <2>6 DEF Live, Proposed
  <2>8. Live(c) = Range(c.pending)
    BY <2>1 DEF Live, Proposed
  <2>9. ASSUME Distinct(c), c.pending = << >> PROVE Distinct(d)
    <3>1. \A t \in Slot : t >= c.next => c.log[t].proposed = << >>
      BY <2>1, <2>9, GapIdle
    <3>2. ASSUME NEW t \in Slot, t >= d.next, d.log[t].proposed # << >>
          PROVE  d.next .. t - 1 \subseteq Decided(d) \union Undecided(d)
      <4>1. t = d.next
        BY <2>5, <3>1, <3>2
      <4>2. d.next .. t - 1 = {}
        BY SMT, <2>2, <2>5, <4>1
      <4> QED BY <4>2
    <3>3. IsInjective(d.pending) /\ Range(d.pending) = {}
      BY SMT, <2>5, <2>9 DEF Distinct, Range
    <3> QED BY <2>4, <2>6, <3>2, <3>3 DEF Distinct
  <2> QED BY <2>1, <2>5, <2>7, <2>8, <2>9
<1> QED BY <1>1, <1>2

\* What arm_available leaves in the replica, whether it succeeds or not.
Arms(c, d) ==
  \/ d = ArmAll(c).core
  \/ ~ArmAll(c).failed /\ d \in ArmGapNoop(ArmAll(c).core)

\* It keeps every value when the log has room for all slots.
LEMMA ArmsFacts ==
  ASSUME NEW c, Sound(c, Values), NEW d, Arms(c, d)
  PROVE  /\ Sound(d, Values)
         /\ d.next = c.next /\ d.floor = c.floor /\ c.seen \subseteq d.seen
         /\ Decided(d) = Decided(c)
         /\ \A s \in Slot : d.log[s].decision = c.log[s].decision
         /\ Distinct(c) /\ MaxLogSlots >= MaxSlot /\ PipelineLen > 0
              => Distinct(d) /\ Live(c) \subseteq Live(d) /\ d.seen \subseteq c.seen \union Live(d)
<1>1. PICK a : a = ArmAll(c) /\ Armed(a, c, PipelineLen)
  BY ArmAllFacts
<1>2. CASE d = a.core
  BY <1>1, <1>2 DEF Armed
<1>3. CASE ~a.failed /\ d \in ArmGapNoop(a.core)
  <2>1. ASSUME Distinct(c), PipelineLen > 0, Undecided(a.core) = {}, Gap(a.core)
        PROVE  a.core.pending = << >>
    <3>1. a.core = c /\ Stuck(c)
      <4>1. PipelineLen # 0
        BY SMT, <2>1
      <4> QED BY <1>1, <1>3, <2>1, <4>1 DEF Armed
    <3>2. NextOpenSlot(c) = c.next /\ c.next \in Slot /\ InflightCount(c) = 0
      BY <2>1, <3>1, GapIdle
    <3>3. ~(NextOpenSlot(c) > MaxSlot) /\ InflightCount(c) < PipelineLen
      BY SMT, <2>1, <3>2, ReplicaConfigAssumption DEF Slot
    <3> QED BY <3>1, <3>3 DEF Stuck, CanPropose
  <2>2. /\ Sound(d, Values)
        /\ d.next = a.core.next /\ d.floor = a.core.floor
        /\ a.core.seen \subseteq d.seen /\ d.seen \subseteq a.core.seen \union Live(d)
        /\ Decided(d) = Decided(a.core)
        /\ \A s \in Slot : d.log[s].decision = a.core.log[s].decision
        /\ Distinct(a.core) /\ (Undecided(a.core) = {} /\ Gap(a.core) => a.core.pending = << >>)
             => Distinct(d) /\ Live(a.core) \subseteq Live(d)
    BY <1>1, <1>3, ArmGapNoopFacts DEF Armed
  <2> QED BY <1>1, <1>3, <2>1, <2>2 DEF Armed
<1> QED BY <1>1, <1>2, <1>3 DEF Arms

------------------------------------------------------------------------------
(* Steps *)

\* The handler computes m: it is then in memory, unless the process restarts
\* from its file, and in the file, if it was saved.
Moves(m) == mem' \in {m, disk} /\ disk' \in {m, disk}

\* Nothing that was chosen or told to a recorder is taken back.
Grows ==
  /\ WorldOK'
  /\ \A s \in Slot : /\ chosen[s] # << >> => chosen'[s] = chosen[s]
                     /\ informed[s] \subseteq informed'[s]

Stays(m) == m = mem /\ UNCHANGED <<app, informed, accepted>>

Submits(m) ==
  /\ UNCHANGED <<app, informed>>
  /\ \E v \in Value : \E core \in Enqueue(mem.core, <<v>>) :
        /\ m = [mem EXCEPT !.core = core]
        /\ \/ UNCHANGED accepted
           \/ accepted' = accepted \union {v} /\ mem' = m /\ disk' = m

Announces(m) ==
  /\ UNCHANGED <<app, accepted>>
  /\ \E heard \in [Decided(mem.core) -> SUBSET Member] :
        m = [mem EXCEPT !.announced =
               [s \in Slot |-> IF s \in Decided(mem.core) THEN @[s] \union heard[s] ELSE @[s]]]
  /\ informed' = [s \in Slot |-> informed[s] \union m.announced[s]]

Proposes(m) ==
  /\ UNCHANGED <<app, informed, accepted>>
  /\ \E core : Arms(mem.core, core) /\ m = [mem EXCEPT !.core = core]

Decides(m) ==
  /\ UNCHANGED <<app, informed, accepted>>
  /\ \E slot \in Slot :
        /\ slot > mem.core.floor /\ slot \notin Decided(mem.core)
        /\ chosen'[slot] # << >>
        /\ \E c \in ApplyDecision(mem.core, slot, chosen'[slot]) : m = [mem EXCEPT !.core = c]

Executes(m) ==
  LET s == Min(Undelivered(mem))
  IN  /\ UNCHANGED <<informed, accepted>>
      /\ Undelivered(mem) # {}
      /\ app' = app \union {s}
      /\ m = [mem EXCEPT !.executed = @ \union {s}]

Notifies(m) ==
  LET s == Min(Undelivered(mem))
  IN  /\ UNCHANGED <<app, informed, accepted>>
      /\ s \in mem.executed
      /\ m = [mem EXCEPT !.notified = @ \union {s}]

Prunes(m) ==
  /\ UNCHANGED <<app, informed, accepted>>
  /\ \E slot \in Slot : /\ CanCheckpoint(mem, slot)
                        /\ CarefulTransfer => 1 .. slot \subseteq app
                        /\ m = Pruned(mem, slot)

Step(m) ==
  /\ Moves(m)
  /\ Grows
  /\ \/ Stays(m) \/ Submits(m) \/ Announces(m) \/ Proposes(m)
     \/ Decides(m) \/ Executes(m) \/ Notifies(m) \/ Prunes(m)

\* persist, whatever becomes of it.
LEMMA SavesMove ==
  ASSUME NEW m, NEW next, faults \in Faults,
         Persist(m, next) \/ Continue(m, next) \/ PersistChange(m, next)
  PROVE  Moves(m) /\ faults' \in Faults
<1>1. CASE Persist(m, next)
  BY SMT, <1>1 DEF Persist, Moves, Faults
<1>2. CASE Continue(m, next)
  BY <1>2 DEF Continue, Moves
<1> QED BY <1>1, <1>2 DEF PersistChange

\* A submission succeeds when the save did.
LEMMA SavedSubmission ==
  ASSUME NEW m, NEW next, faults \in Faults, Persist(m, next), faults' = faults
  PROVE  mem' = m /\ disk' = m
<1>1. ASSUME faults' = [faults EXCEPT !.errors = @ + 1] PROVE FALSE
  <2>1. faults'.errors = faults.errors + 1 /\ faults.errors \in Nat
    BY <1>1 DEF Faults
  <2> QED BY SMT, <2>1
<1>2. ASSUME faults' = [faults EXCEPT !.crashes = @ + 1] PROVE FALSE
  <2>1. faults'.crashes = faults.crashes + 1 /\ faults.crashes \in Nat
    BY <1>2 DEF Faults
  <2> QED BY SMT, <2>1
<1> QED BY <1>1, <1>2 DEF Persist

\* What consensus holds when nothing outside the runtime changes.
LEMMA GrowsNot ==
  ASSUME WorldOK, UNCHANGED <<app, consensus, informed>>, faults' \in Faults
  PROVE  Grows
BY DEF WorldOK, Grows, consensus

\* flush_decision_notifications.
LEMMA FlushStep ==
  ASSUME StandingInv, NEW next, Flush(next)
  PROVE  \E m : Step(m)
<1> DEFINE Heard(heard) ==
             [mem EXCEPT !.announced =
                [s \in Slot |-> IF s \in Decided(mem.core) THEN @[s] \union heard[s] ELSE @[s]]]
<1>0. PICK heard \in [Decided(mem.core) -> SUBSET Member] :
        /\ informed' = [s \in Slot |-> informed[s] \union Heard(heard).announced[s]]
        /\ PersistChange(Heard(heard), next)
        /\ UNCHANGED <<app, consensus, accepted>>
  BY DEF Flush
<1>1. PICK m : /\ m = Heard(heard)
               /\ informed' = [s \in Slot |-> informed[s] \union m.announced[s]]
               /\ PersistChange(m, next)
               /\ UNCHANGED <<app, consensus, accepted>>
  BY <1>0
<1>2. mem \in Runtime /\ WorldOK /\ faults \in Faults
  BY DEF StandingInv, Standing, WorldOK
<1>3. \A s \in Slot : m.announced[s] \subseteq Member
  BY <1>1, <1>2 DEF Runtime, Decided
<1>4. Moves(m) /\ faults' \in Faults
  BY <1>1, <1>2, SavesMove
<1>5. Grows
  BY <1>1, <1>2, <1>3, <1>4 DEF Grows, WorldOK, consensus
<1>6. Announces(m)
  BY <1>1 DEF Announces
<1> QED BY <1>4, <1>5, <1>6 DEF Step

\* accept_decision.
LEMMA AcceptDecisionStep ==
  ASSUME StandingInv, NEW slot \in Slot, NEW batch, AcceptDecision(slot, batch),
         chosen'[slot] = batch, batch # << >>, faults' \in Faults => Grows,
         UNCHANGED <<app, informed, accepted>>
  PROVE  \E m : Step(m)
<1>1. faults \in Faults
  BY DEF StandingInv, WorldOK
<1>2. ASSUME NEW label, Continue(mem, label) PROVE Step(mem)
  BY <1>1, <1>2, SavesMove DEF Step, Stays
<1>3. CASE slot <= mem.core.floor /\ Continue(mem, "idle")
  BY <1>2, <1>3
<1>4. CASE slot \in Decided(mem.core) /\ Continue(mem, "dispatch")
  BY <1>2, <1>4
<1>5. ASSUME slot > mem.core.floor, slot \notin Decided(mem.core),
             NEW c \in ApplyDecision(mem.core, slot, batch),
             Persist([mem EXCEPT !.core = c], "dispatch")
      PROVE  Step([mem EXCEPT !.core = c])
  <2>1. Moves([mem EXCEPT !.core = c]) /\ faults' \in Faults
    BY <1>1, <1>5, SavesMove
  <2> QED BY <1>5, <2>1 DEF Step, Decides
<1>6. CASE Continue(mem, "idle")
  BY <1>2, <1>6
<1> QED BY <1>3, <1>4, <1>5, <1>6 DEF AcceptDecision

\* What a replica proposes for a slot.
LEMMA OfferTyped ==
  ASSUME StandingInv, NEW slot \in Undecided(mem.core), faults' \in Faults,
         offered' = [offered EXCEPT ![slot] = @ \union {mem.core.log[slot].proposed}],
         NEW batch \in Seq(Values), chosen' = [chosen EXCEPT ![slot] = batch] \/ chosen' = chosen,
         UNCHANGED <<app, informed>>
  PROVE  WorldOK'
<1>1. slot \in Slot /\ mem.core.log[slot].proposed \in Seq(Values) \ {<< >>}
  BY CoreParts DEF StandingInv, Standing, Sound, Orderly, Undecided
<1> QED BY <1>1 DEF StandingInv, WorldOK

\* Every step of the replica is a Step.
LEMMA StepShape ==
  ASSUME StandingInv, [Next]_vars
  PROVE  \E m : Step(m)
<1>1. WorldOK /\ faults \in Faults /\ mem \in Runtime /\ Sound(mem.core, Values)
  BY DEF StandingInv, Standing, WorldOK
<1>2. ASSUME NEW m, NEW next, UNCHANGED <<app, consensus, informed>>,
             Persist(m, next) \/ Continue(m, next) \/ PersistChange(m, next)
      PROVE  Moves(m) /\ Grows
  BY <1>1, <1>2, SavesMove, GrowsNot
<1>3. ASSUME UNCHANGED <<app, consensus, informed, accepted>>, faults' \in Faults,
             mem' \in {mem, disk}, disk' \in {mem, disk}
      PROVE  Step(mem)
  BY <1>1, <1>3, GrowsNot DEF Step, Moves, Stays
<1>4. ASSUME NEW next, UNCHANGED <<app, consensus, informed, accepted>>,
             Persist(mem, next) \/ Continue(mem, next)
      PROVE  Step(mem)
  BY <1>2, <1>4 DEF Step, Stays
<1>5. CASE UNCHANGED vars
  BY <1>1, <1>3, <1>5 DEF vars
<1>6. ASSUME NEW slot \in Slot, OthersDecide(slot) PROVE \E m : Step(m)
  <2>1. PICK batch \in Foreign \union offered[slot] : chosen' = [chosen EXCEPT ![slot] = batch]
    BY <1>6 DEF OthersDecide
  <2>2. batch \in Seq(Values)
    <3>1. ASSUME NEW b \in Foreign PROVE b \in Seq(Values)
      <4>1. b \in Seq(Range(b)) /\ Range(b) \subseteq Values
        BY <3>1, RuntimeAssumption DEF Values
      <4> QED BY SMT, <4>1
    <3> QED BY <1>1, <2>1, <3>1 DEF WorldOK
  <2>3. Grows
    BY <1>1, <1>6, <2>1, <2>2 DEF OthersDecide, Grows, WorldOK
  <2> QED BY <1>6, <2>3 DEF OthersDecide, Step, Moves, Stays
<1>7. ASSUME NEW v \in Value, Submit(v) PROVE \E m : Step(m)
  <2>1. PICK core \in Enqueue(mem.core, <<v>>) : Persist([mem EXCEPT !.core = core], "idle")
    BY <1>7 DEF Submit
  <2>2. PICK m : m = [mem EXCEPT !.core = core]
    OBVIOUS
  <2>3. Moves(m) /\ Grows
    BY <1>2, <1>7, <2>1, <2>2 DEF Submit
  <2>4. accepted' = accepted \/ (accepted' = accepted \union {v} /\ mem' = m /\ disk' = m)
    <3>1. CASE faults' = faults
      BY <1>1, <1>7, <2>1, <2>2, <3>1, SavedSubmission DEF Submit
    <3>2. CASE faults' # faults
      BY <1>7, <3>2 DEF Submit
    <3> QED BY <3>1, <3>2
  <2> QED BY <1>7, <2>1, <2>2, <2>3, <2>4 DEF Submit, Step, Submits
<1>8. CASE Poll \/ Announce \/ BeginCheckpoint
  BY <1>8, FlushStep DEF Poll, Announce, BeginCheckpoint
<1>9. CASE Arm
  <2>1. PICK core : /\ Arms(mem.core, core)
                    /\ \/ PersistChange([mem EXCEPT !.core = core], "propose")
                       \/ Continue([mem EXCEPT !.core = core], "idle")
    BY <1>9 DEF Arm, Arms
  <2>2. UNCHANGED <<app, consensus, informed, accepted>>
    BY <1>9 DEF Arm
  <2>3. Moves([mem EXCEPT !.core = core]) /\ Grows
    BY <1>2, <2>1, <2>2
  <2> QED BY <2>1, <2>2, <2>3 DEF Step, Proposes
<1>10. ASSUME NEW slot \in Slot, Propose(slot) PROVE \E m : Step(m)
  <2>1. /\ slot \in Undecided(mem.core)
        /\ offered' = [offered EXCEPT ![slot] = @ \union {mem.core.log[slot].proposed}]
        /\ UNCHANGED <<app, informed, accepted>>
    BY <1>10 DEF Propose
  <2>2. PICK batch \in IF chosen[slot] = << >> THEN offered'[slot] ELSE {chosen[slot]} :
           chosen' = [chosen EXCEPT ![slot] = batch] /\ AcceptDecision(slot, batch)
    BY <1>10 DEF Propose
  <2>3. batch \in Seq(Values) /\ batch # << >>
    <3>1. mem.core.log[slot].proposed \in Seq(Values) \ {<< >>}
      BY <1>1, <2>1, CoreParts DEF Sound, Orderly, Undecided
    <3> QED BY <1>1, <2>1, <2>2, <3>1 DEF WorldOK
  <2>4. /\ chosen'[slot] = batch
        /\ \A s \in Slot : chosen[s] # << >> => chosen'[s] = chosen[s]
    BY <1>1, <2>2 DEF WorldOK
  <2>5. ASSUME faults' \in Faults PROVE Grows
    <3>1. WorldOK'
      BY <2>1, <2>2, <2>3, <2>5, OfferTyped
    <3> QED BY <2>1, <2>4, <3>1 DEF Grows
  <2> QED BY SMT, <2>1, <2>2, <2>3, <2>4, <2>5, AcceptDecisionStep
<1>11. ASSUME NEW slot \in Slot, ProposeFails(slot) PROVE \E m : Step(m)
  <2>1. /\ slot \in Undecided(mem.core) /\ Continue(mem, "idle")
        /\ offered' = [offered EXCEPT ![slot] = @ \union {mem.core.log[slot].proposed}]
        /\ UNCHANGED <<chosen, app, informed, accepted>>
    BY <1>11 DEF ProposeFails
  <2>2. Moves(mem) /\ faults' \in Faults
    BY <1>1, <2>1, SavesMove
  <2>3. WorldOK'
    <3>1. << >> \in Seq(Values)
      BY SMT
    <3> QED BY <2>1, <2>2, <3>1, OfferTyped
  <2> QED BY <2>1, <2>2, <2>3 DEF Step, Stays, Grows
<1>12. ASSUME NEW slot \in Slot, ReceiveDecision(slot) PROVE \E m : Step(m)
  <2>1. /\ AcceptDecision(slot, chosen[slot]) /\ chosen[slot] # << >>
        /\ UNCHANGED <<app, consensus, informed, accepted>>
    BY <1>12 DEF ReceiveDecision
  <2>2. chosen'[slot] = chosen[slot] /\ (faults' \in Faults => Grows)
    BY <1>1, <2>1, GrowsNot DEF consensus
  <2> QED BY <2>1, <2>2, AcceptDecisionStep
<1>13. CASE Wait \/ Recover \/ CheckpointFails
  BY <1>4, <1>13 DEF Wait, Recover, CheckpointFails
<1>14. CASE SaveStatistics
  BY <1>4, <1>14 DEF SaveStatistics
<1>15. CASE Execute
  <2>1. PICK s : s = Min(Undelivered(mem))
    OBVIOUS
  <2>2. /\ Undelivered(mem) # {} /\ app' = app \union {s}
        /\ Persist([mem EXCEPT !.executed = @ \union {s}], "dispatch")
        /\ UNCHANGED <<consensus, informed, accepted>>
    BY <1>15, <2>1 DEF Execute
  <2>3. s \in Slot
    <3>1. PICK U : U = Undelivered(mem)
      OBVIOUS
    <3>2. U \subseteq Slot /\ U \in SUBSET Nat /\ U # {}
      BY SMT, <2>2, <3>1, ReplicaConfigAssumption DEF Undelivered, Decided, Slot
    <3> QED BY <2>1, <3>1, <3>2, MinIs
  <2>4. Moves([mem EXCEPT !.executed = @ \union {s}]) /\ faults' \in Faults
    BY <1>1, <2>2, SavesMove
  <2>5. Grows
    BY <1>1, <2>2, <2>3, <2>4 DEF Grows, WorldOK, consensus
  <2> QED BY <2>1, <2>2, <2>4, <2>5 DEF Step, Executes
<1>16. CASE Notify
  <2>1. PICK s : s = Min(Undelivered(mem))
    OBVIOUS
  <2>2. /\ s \in mem.executed
        /\ Persist([mem EXCEPT !.notified = @ \union {s}], "dispatch")
        /\ UNCHANGED <<app, consensus, informed, accepted>>
    BY <1>16, <2>1 DEF Notify
  <2>3. Moves([mem EXCEPT !.notified = @ \union {s}]) /\ Grows
    BY <1>2, <2>2
  <2> QED BY <2>1, <2>2, <2>3 DEF Step, Notifies
<1>17. CASE DispatchFails
  BY SMT, <1>1, <1>3, <1>17 DEF DispatchFails, Faults
<1>18. ASSUME NEW slot \in Slot, CheckpointThrough(slot) \/ CreateStateTransfer(slot)
       PROVE  \E m : Step(m)
  <2>1. /\ CanCheckpoint(mem, slot) /\ (CarefulTransfer => 1 .. slot \subseteq app)
        /\ Persist(Pruned(mem, slot), "idle")
        /\ UNCHANGED <<app, consensus, informed, accepted>>
    BY <1>18 DEF CheckpointThrough, CreateStateTransfer
  <2>2. Moves(Pruned(mem, slot)) /\ Grows
    BY <1>2, <2>1
  <2> QED BY <2>1, <2>2 DEF Step, Prunes
<1>19. CASE Crash
  BY SMT, <1>1, <1>3, <1>19 DEF Crash, Faults
<1> QED
  BY SMTT(20), <1>5, <1>6, <1>7, <1>8, <1>9, <1>10, <1>11, <1>12, <1>13, <1>14, <1>15, <1>16, <1>17,
     <1>18, <1>19 DEF Next

------------------------------------------------------------------------------
(* Standing *)

\* A runtime stays one to rely on while consensus and recorders learn more.
LEMMA StandingGrows ==
  ASSUME NEW m, Standing(m, chosen, informed), Grows
  PROVE  Standing(m, chosen', informed')
<1>1. \A s \in Decided(m.core) : s \in Slot /\ m.core.log[s].decision = chosen'[s]
  BY DEF Standing, Grows, Decided
<1>2. \A s \in Slot : informed[s] \subseteq informed'[s] /\ informed'[s] \subseteq Member
  BY DEF Grows, WorldOK
<1> QED BY <1>1, <1>2 DEF Standing

\* A runtime with another core.
LEMMA WithCore ==
  ASSUME NEW m \in Runtime, NEW core \in CoreSet(Values), NEW n, n = [m EXCEPT !.core = core]
  PROVE  /\ n \in Runtime /\ n.core = core
         /\ n.executed = m.executed /\ n.notified = m.notified /\ n.announced = m.announced
BY ONLY m \in Runtime, core \in CoreSet(Values), n = [m EXCEPT !.core = core] DEF Runtime

\* It is one to rely on if its core forgets no decision and learns only what
\* consensus chose.
LEMMA CoreStands ==
  ASSUME NEW m, NEW decided, NEW told, Standing(m, decided, told),
         NEW core, Sound(core, Values), core.floor = m.core.floor,
         Decided(m.core) \subseteq Decided(core),
         \A s \in Decided(core) : s > core.floor /\ core.log[s].decision = decided[s],
         NEW n, n = [m EXCEPT !.core = core]
  PROVE  Standing(n, decided, told)
<1>1. /\ n \in Runtime /\ n.core = core
      /\ n.executed = m.executed /\ n.notified = m.notified /\ n.announced = m.announced
  BY SMT, WithCore DEF Standing, Sound, Orderly
<1> QED BY <1>1 DEF Standing

\* The next slot to deliver.
LEMMA NextToDeliver ==
  ASSUME NEW m, m.core \in CoreSet(Values), Undelivered(m) # {}
  PROVE  LET s == Min(Undelivered(m))
         IN  s \in Undelivered(m) /\ s \in Slot /\ \A t \in Undelivered(m) : s <= t
<1>1. PICK U : U = Undelivered(m)
  OBVIOUS
<1>2. U \subseteq Slot /\ U \in SUBSET Nat /\ U # {}
  BY SMT, <1>1, ReplicaConfigAssumption DEF Undelivered, Decided, Slot
<1>3. Min(U) \in U /\ \A t \in U : Min(U) <= t
  BY <1>2, MinIs
<1> QED BY <1>1, <1>2, <1>3

\* What pruning leaves of m: n, with core d.
LeavesPruned(m, slot, n, d) ==
  /\ n \in Runtime /\ n.core = d
  /\ n.executed = {s \in m.executed : s > slot}
  /\ n.notified = {s \in m.notified : s > slot}
  /\ n.announced = [s \in Slot |-> IF s > slot THEN m.announced[s] ELSE {}]
  /\ Sound(d, Values) /\ d.floor \in {slot, m.core.floor}
  /\ d.next = m.core.next /\ d.seen = m.core.seen
  /\ Decided(d) = {s \in Decided(m.core) : s > slot}
  /\ \A s \in Decided(d) : s > d.floor /\ d.log[s].decision = m.core.log[s].decision
  /\ Live(d) = Live(m.core)
  /\ Distinct(m.core) => Distinct(d)

\* What prune_through leaves of a runtime.
LEMMA PrunedFacts ==
  ASSUME NEW m, NEW decided, NEW told, Standing(m, decided, told), NEW slot \in Slot,
         CanCheckpoint(m, slot)
  PROVE  LeavesPruned(m, slot, Pruned(m, slot), PruneThrough(m.core, slot))
<1>1. Sound(m.core, Values) /\ m \in Runtime /\ slot <= CommittedThrough(m.core)
  BY DEF Standing, CanCheckpoint
<1>2. PICK n, d : n = Pruned(m, slot) /\ d = PruneThrough(m.core, slot)
  OBVIOUS
<1>3. /\ Sound(d, Values) /\ d.next = m.core.next /\ d.seen = m.core.seen
      /\ d.floor \in {slot, m.core.floor} /\ d.floor >= slot /\ d.floor >= m.core.floor
      /\ Decided(d) = {s \in Decided(m.core) : s > d.floor \/ s <= m.core.floor}
      /\ \A s \in Slot : s > d.floor => d.log[s] = m.core.log[s]
      /\ Live(d) = Live(m.core)
      /\ Distinct(m.core) => Distinct(d)
  BY SMT, <1>1, <1>2, PruneThroughFacts
<1>4. d \in CoreSet(Values)
  BY <1>3 DEF Sound, Orderly
<1>5. PICK a : a = [s \in Slot |-> IF s > slot THEN m.announced[s] ELSE {}]
  OBVIOUS
<1>6. a \in [Slot -> SUBSET Member]
  BY <1>1, <1>5 DEF Runtime
<1>7. n = [core |-> d, executed |-> {s \in m.executed : s > slot},
           notified |-> {s \in m.notified : s > slot}, announced |-> a]
  BY <1>2, <1>5 DEF Pruned
<1>8. /\ n \in Runtime /\ n.core = d /\ n.announced = a
      /\ n.executed = {s \in m.executed : s > slot} /\ n.notified = {s \in m.notified : s > slot}
  BY <1>1, <1>4, <1>6, <1>7 DEF Runtime
<1>9. \A s \in Decided(m.core) : ~(s <= m.core.floor) /\ (s > slot <=> s > d.floor)
  <2>1. /\ m.core.floor \in Nat /\ slot \in Nat
        /\ \A s \in Decided(m.core) : s \in Slot /\ s \in Nat /\ ~(s <= m.core.floor)
    <3>1. m.core.floor \in Nat /\ \A s \in Slot : s \in Nat
      BY <1>1, CoreParts DEF Sound, Orderly
    <3>2. \A s \in Decided(m.core) : s \in Slot /\ s > m.core.floor
      BY DEF Standing, Decided
    <3> QED BY SMT, <3>1, <3>2
  <2> QED BY SMT, <1>3, <2>1
<1>10. /\ Decided(d) = {s \in Decided(m.core) : s > slot}
       /\ \A s \in Decided(d) : s > d.floor /\ d.log[s].decision = m.core.log[s].decision
  BY <1>3, <1>9 DEF Decided
<1> QED BY <1>2, <1>3, <1>5, <1>8, <1>10 DEF LeavesPruned

\* What a step computes is again a runtime to rely on.
LEMMA StandingStep ==
  ASSUME StandingInv, NEW m, Step(m)
  PROVE  Standing(m, chosen', informed')
<1>1. Standing(mem, chosen', informed') /\ Grows
  BY StandingGrows DEF StandingInv, Step
<1>2. mem \in Runtime /\ Sound(mem.core, Values) /\ mem.core \in CoreSet(Values)
  BY <1>1 DEF Standing, Sound, Orderly
<1>3. CASE Stays(m)
  BY <1>1, <1>3 DEF Stays
<1>4. CASE Submits(m)
  <2>0. PICK v \in Value : \E core \in Enqueue(mem.core, <<v>>) : m = [mem EXCEPT !.core = core]
    BY <1>4 DEF Submits
  <2>1. PICK core \in Enqueue(mem.core, <<v>>) : m = [mem EXCEPT !.core = core]
    BY <2>0
  <2>2. PICK q : q = <<v>>
    OBVIOUS
  <2>3. q \in Seq(Values) /\ IsInjective(q)
    BY SMT, <2>2 DEF Values, IsInjective
  <2>4. Sound(core, Values) /\ core.log = mem.core.log /\ core.floor = mem.core.floor
    <3>1. PICK c : c = mem.core
      OBVIOUS
    <3>2. Sound(c, Values) /\ core \in Enqueue(c, q)
      BY <1>2, <2>1, <2>2, <3>1
    <3>3. Sound(core, Values) /\ core.log = c.log /\ core.floor = c.floor
      BY ONLY SMT, <2>3, <3>2, EnqueueFacts
    <3> QED BY <3>1, <3>3
  <2>5. Decided(core) = Decided(mem.core)
    BY <2>4 DEF Decided
  <2>6. \A s \in Decided(core) : s > core.floor /\ core.log[s].decision = chosen'[s]
    BY <1>1, <2>4, <2>5 DEF Standing
  <2> QED BY <1>1, <2>1, <2>4, <2>5, <2>6, CoreStands
<1>5. CASE Announces(m)
  <2>1. PICK heard \in [Decided(mem.core) -> SUBSET Member] :
           m = [mem EXCEPT !.announced =
                  [s \in Slot |-> IF s \in Decided(mem.core) THEN @[s] \union heard[s] ELSE @[s]]]
    BY <1>5 DEF Announces
  <2>2. PICK a : a = [s \in Slot |-> IF s \in Decided(mem.core) THEN mem.announced[s] \union heard[s]
                                     ELSE mem.announced[s]]
    OBVIOUS
  <2>3. a \in [Slot -> SUBSET Member]
    BY <1>2, <2>2 DEF Runtime
  <2>4. m = [mem EXCEPT !.announced = a]
    BY <2>1, <2>2
  <2>5. /\ m \in Runtime /\ m.core = mem.core /\ m.announced = a
        /\ m.executed = mem.executed /\ m.notified = mem.notified
    BY ONLY <1>2, <2>3, <2>4 DEF Runtime
  <2>6. \A s \in Slot : a[s] \subseteq informed'[s] /\ (a[s] # {} => s \in Decided(mem.core))
    BY ZenonT(40), <1>1, <1>5, <2>2, <2>5 DEF Announces, Standing
  <2> QED BY <1>1, <2>5, <2>6 DEF Standing
<1>6. CASE Proposes(m)
  <2>1. PICK core : Arms(mem.core, core) /\ m = [mem EXCEPT !.core = core]
    BY <1>6 DEF Proposes
  <2>2. /\ Sound(core, Values) /\ core.floor = mem.core.floor /\ Decided(core) = Decided(mem.core)
        /\ \A s \in Slot : core.log[s].decision = mem.core.log[s].decision
    BY SMT, <1>2, <2>1, ArmsFacts
  <2>3. \A s \in Decided(core) : s > core.floor /\ core.log[s].decision = chosen'[s]
    BY <1>1, <2>2 DEF Standing, Decided
  <2> QED BY SMT, <1>1, <2>1, <2>2, <2>3, CoreStands
<1>7. CASE Decides(m)
  <2>0. PICK slot \in Slot :
           /\ slot > mem.core.floor /\ slot \notin Decided(mem.core) /\ chosen'[slot] # << >>
           /\ \E core \in ApplyDecision(mem.core, slot, chosen'[slot]) :
                 m = [mem EXCEPT !.core = core]
    BY <1>7 DEF Decides
  <2>1. PICK core \in ApplyDecision(mem.core, slot, chosen'[slot]) : m = [mem EXCEPT !.core = core]
    BY <2>0
  <2>2. chosen'[slot] \in Seq(Values)
    BY <1>1 DEF Grows, WorldOK
  <2>3. /\ Sound(core, Values) /\ core.floor = mem.core.floor
        /\ Decided(core) = Decided(mem.core) \union {slot}
        /\ \A s \in Slot : core.log[s].decision =
                             IF s = slot THEN chosen'[slot] ELSE mem.core.log[s].decision
    BY SMT, <1>2, <2>0, <2>1, <2>2, ApplyDecisionFacts
  <2>4. \A s \in Decided(core) : s > core.floor /\ core.log[s].decision = chosen'[s]
    BY <1>1, <2>0, <2>3 DEF Standing, Decided
  <2> QED BY <1>1, <2>1, <2>3, <2>4, CoreStands
<1>8. CASE Executes(m)
  <2>1. PICK s : s = Min(Undelivered(mem)) /\ m = [mem EXCEPT !.executed = @ \union {s}]
    BY <1>8 DEF Executes
  <2>2. s \in Decided(mem.core) /\ s \in Slot
    BY <1>2, <1>8, <2>1, NextToDeliver DEF Executes, Undelivered
  <2>3. /\ m \in Runtime /\ m.core = mem.core /\ m.executed = mem.executed \union {s}
        /\ m.notified = mem.notified /\ m.announced = mem.announced
    BY ONLY <1>2, <2>1, <2>2 DEF Runtime
  <2> QED BY <1>1, <2>2, <2>3 DEF Standing
<1>9. CASE Notifies(m)
  <2>1. PICK s : s \in mem.executed /\ m = [mem EXCEPT !.notified = @ \union {s}]
    BY <1>9 DEF Notifies
  <2>2. /\ m \in Runtime /\ m.core = mem.core /\ m.executed = mem.executed
        /\ m.notified = mem.notified \union {s} /\ m.announced = mem.announced
    BY ONLY <1>2, <2>1 DEF Runtime
  <2> QED BY <1>1, <2>1, <2>2 DEF Standing
<1>10. CASE Prunes(m)
  <2>1. PICK slot \in Slot : CanCheckpoint(mem, slot) /\ m = Pruned(mem, slot)
    BY <1>10 DEF Prunes
  <2>2. PICK d : d = PruneThrough(mem.core, slot)
    OBVIOUS
  <2>3. /\ m \in Runtime /\ m.core = d
        /\ m.executed = {s \in mem.executed : s > slot}
        /\ m.notified = {s \in mem.notified : s > slot}
        /\ m.announced = [s \in Slot |-> IF s > slot THEN mem.announced[s] ELSE {}]
        /\ Sound(d, Values) /\ d.floor \in {slot, mem.core.floor}
        /\ Decided(d) = {s \in Decided(mem.core) : s > slot}
        /\ \A s \in Decided(d) : s > d.floor /\ d.log[s].decision = mem.core.log[s].decision
    <3>1. LeavesPruned(mem, slot, m, d)
      BY <1>1, <2>1, <2>2, PrunedFacts
    <3> QED BY <3>1 DEF LeavesPruned
  <2>4. ASSUME NEW s \in Slot, s <= d.floor PROVE informed'[s] = Member
    <3>1. CASE s <= mem.core.floor
      BY <1>1, <3>1 DEF Standing
    <3>2. CASE ~(s <= mem.core.floor)
      <4>1. s <= slot
        BY <2>3, <2>4, <3>2
      <4>2. s \in mem.core.floor + 1 .. mem.core.next - 1
        BY SMTT(20), <1>2, <2>1, <3>2, <4>1, CoreParts, ReplicaConfigAssumption
           DEF CanCheckpoint, CommittedThrough, Slot
      <4>3. s \in Decided(mem.core)
        BY <1>2, <4>2 DEF Sound, Orderly, Restorable
      <4>4. mem.announced[s] = Member
        BY <2>1, <4>1, <4>3 DEF CanCheckpoint, FullyAnnounced
      <4>5. Member \subseteq informed'[s] /\ informed'[s] \subseteq Member
        BY <1>1, <4>4 DEF Standing, Grows, WorldOK
      <4> QED BY <4>5
    <3> QED BY <3>1, <3>2
  <2>5. \A s \in Slot : m.announced[s] # {} => s \in Decided(d)
    BY <1>1, <2>3 DEF Standing
  <2>6. \A s \in Slot : m.announced[s] \subseteq informed'[s]
    BY <1>1, <2>3 DEF Standing
  <2>7. m.notified \subseteq m.executed /\ m.executed \subseteq Decided(d)
    BY <1>1, <2>3 DEF Standing
  <2>8. \A s \in Decided(d) : d.log[s].decision = chosen'[s]
    BY SMT, <1>1, <2>3 DEF Standing
  <2> QED BY <2>3, <2>4, <2>5, <2>6, <2>7, <2>8 DEF Standing
<1> QED BY SMTT(20), <1>3, <1>4, <1>5, <1>6, <1>7, <1>8, <1>9, <1>10 DEF Step

\* The first state of the runtime stands.
LEMMA StandingInit == Init => StandingInv
<1> SUFFICES ASSUME Init PROVE StandingInv
  OBVIOUS
<1>1. PICK m : m = NewRuntime
  OBVIOUS
<1>2. Sound(NewReplica, Values) /\ NewReplica \in CoreSet(Values)
  BY NewSound DEF Sound, Orderly
<1>3. /\ m \in Runtime /\ m.core = NewReplica /\ m.executed = {} /\ m.notified = {}
      /\ \A s \in Slot : m.announced[s] = {}
  BY <1>1, <1>2 DEF NewRuntime, Runtime
<1>4. Decided(m.core) = {} /\ \A s \in Slot : ~(s <= m.core.floor)
  BY SMT, <1>3, ReplicaConfigAssumption DEF Decided, NewReplica, NoEntry, Slot
<1>5. Standing(m, chosen, informed)
  BY <1>2, <1>3, <1>4 DEF Standing
<1>6. WorldOK
  <2>1. << >> \in Seq(Values)
    BY SMT
  <2> QED BY <2>1 DEF Init, WorldOK, Faults
<1> QED BY <1>1, <1>5, <1>6 DEF Init, StandingInv

\* Whatever fails and whenever the replica restarts: the runtime in memory and
\* the one in the file pass validation, agree with consensus, and have announced
\* or pruned only what the recorders hold.
THEOREM StandingInvariant == Spec => []StandingInv
<1>1. ASSUME StandingInv, [Next]_vars PROVE StandingInv'
  <2>1. PICK m : Step(m)
    BY <1>1, StepShape
  <2>2. Standing(m, chosen', informed')
    BY <1>1, <2>1, StandingStep
  <2>3. Standing(disk, chosen', informed')
    BY <1>1, <2>1, StandingGrows DEF StandingInv, Step
  <2>4. mem' \in {m, disk} /\ disk' \in {m, disk} /\ WorldOK'
    BY <2>1 DEF Step, Moves, Grows
  <2> QED BY <2>2, <2>3, <2>4 DEF StandingInv
<1> QED BY <1>1, StandingInit, PTL DEF Spec

\* The file passes the validation of new, whatever save failed and wherever the
\* process stopped.
THEOREM FileRestores == Spec => []SnapshotRestores
<1>1. StandingInv => SnapshotRestores
  <2> SUFFICES ASSUME StandingInv PROVE SnapshotRestores
    OBVIOUS
  <2>1. Standing(disk, chosen, informed) /\ Sound(disk.core, Values)
    BY DEF StandingInv, Standing
  <2>2. \A s \in Undecided(disk.core) : s > CommittedThrough(disk.core)
    BY SMTT(20), <2>1, CoreParts DEF Sound, Orderly, CommittedThrough, Undecided
  <2> QED BY <2>1, <2>2 DEF SnapshotRestores, RestorableRuntime, Standing, Sound, Orderly
<1> QED BY <1>1, StandingInvariant, PTL

\* checkpoint_through prunes only slots whose decision every recorder holds.
THEOREM PrunedIsKnown == Spec => []PrunedKnown
<1>1. StandingInv => PrunedKnown
  <2> SUFFICES ASSUME StandingInv PROVE PrunedKnown
    OBVIOUS
  <2>1. mem.core.floor \in 0 .. MaxSlot /\ MaxSlot \in Nat
    BY CoreParts, ReplicaConfigAssumption DEF StandingInv, Standing, Sound, Orderly
  <2>2. \A s \in 1 .. mem.core.floor : s \in Slot /\ s <= mem.core.floor
    BY SMT, <2>1 DEF Slot
  <2> QED BY <2>2 DEF PrunedKnown, StandingInv, Standing
<1> QED BY <1>1, StandingInvariant, PTL

------------------------------------------------------------------------------
(* Execution *)

\* The lowest slot to deliver is the next one for the application.
LEMMA DeliveredBefore ==
  ASSUME NEW m, NEW decided, NEW told, NEW done, Standing(m, decided, told), Executing(m, done),
         Undelivered(m) # {}
  PROVE  LET s == Min(Undelivered(m)) IN s \in Slot /\ \A t \in 1 .. s - 1 : t \in done
<1>1. Sound(m.core, Values) /\ m.core \in CoreSet(Values) /\ m.notified \subseteq m.executed
  BY DEF Standing, Sound, Orderly
<1>2. PICK s : s = Min(Undelivered(m))
  OBVIOUS
<1>3. s \in Undelivered(m) /\ s \in Slot /\ \A t \in Undelivered(m) : s <= t
  BY <1>1, <1>2, NextToDeliver
<1>4. MaxSlot \in Nat /\ m.core.next \in Nat /\ m.core.floor \in Nat /\ s <= m.core.next - 1
  BY <1>1, <1>3, CoreParts, ReplicaConfigAssumption DEF Undelivered, CommittedThrough
<1>5. ASSUME NEW t \in 1 .. s - 1 PROVE t \in done
  <2>1. t \in Slot /\ t \in Nat /\ t < s
    BY SMT, <1>3, <1>4 DEF Slot
  <2>2. CASE t <= m.core.floor
    BY <2>1, <2>2 DEF Executing
  <2>3. CASE ~(t <= m.core.floor)
    <3>1. t \in m.core.floor + 1 .. m.core.next - 1 /\ t <= CommittedThrough(m.core)
      BY SMT, <1>3, <1>4, <2>1, <2>3 DEF CommittedThrough, Slot
    <3>2. t \in Decided(m.core)
      BY <1>1, <3>1 DEF Sound, Orderly, Restorable
    <3>3. t \notin Undelivered(m)
      BY SMT, <1>3, <1>4, <2>1 DEF Slot
    <3> QED BY <1>1, <3>1, <3>2, <3>3 DEF Undelivered, Executing
  <2> QED BY <2>2, <2>3
<1> QED BY <1>2, <1>3, <1>5

\* A step takes the application to the next slot or leaves it where it is.
LEMMA ExecutingStep ==
  ASSUME CarefulTransfer, StandingInv, ExecutingInv, NEW m, Step(m)
  PROVE  Executing(m, app') /\ app \subseteq app' /\ ExecutedInOrder'
<1>1. /\ Standing(mem, chosen, informed) /\ mem \in Runtime /\ Sound(mem.core, Values)
      /\ Executing(mem, app) /\ ExecutedInOrder /\ app \subseteq Slot
  BY DEF StandingInv, Standing, ExecutingInv, WorldOK
<1>2. ASSUME NEW core, Sound(core, Values), core.floor = mem.core.floor,
             m = [mem EXCEPT !.core = core], app' = app
      PROVE  Executing(m, app') /\ app \subseteq app' /\ ExecutedInOrder'
  <2>1. m.core = core /\ m.executed = mem.executed
    BY SMT, <1>1, <1>2, WithCore DEF Sound, Orderly
  <2> QED BY <1>1, <1>2, <2>1 DEF Executing, ExecutedInOrder
<1>3. CASE Stays(m)
  BY <1>1, <1>3 DEF Stays, ExecutedInOrder
<1>4. CASE Submits(m)
  <2>0. PICK v \in Value : \E core \in Enqueue(mem.core, <<v>>) : m = [mem EXCEPT !.core = core]
    BY <1>4 DEF Submits
  <2>1. PICK core \in Enqueue(mem.core, <<v>>) : m = [mem EXCEPT !.core = core]
    BY <2>0
  <2>2. PICK q, c : q = <<v>> /\ c = mem.core
    OBVIOUS
  <2>3. q \in Seq(Values) /\ IsInjective(q)
    BY SMT, <2>2 DEF Values, IsInjective
  <2>4. Sound(c, Values) /\ core \in Enqueue(c, q)
    BY <1>1, <2>1, <2>2
  <2>5. Sound(core, Values) /\ core.floor = c.floor
    BY ONLY SMT, <2>3, <2>4, EnqueueFacts
  <2> QED BY <1>2, <1>4, <2>1, <2>2, <2>5 DEF Submits
<1>5. CASE Announces(m)
  <2>1. m.core = mem.core /\ m.executed = mem.executed
    BY <1>1, <1>5 DEF Announces, Runtime
  <2> QED BY <1>1, <1>5, <2>1 DEF Announces, Executing, ExecutedInOrder
<1>6. CASE Proposes(m)
  <2>1. PICK core : Arms(mem.core, core) /\ m = [mem EXCEPT !.core = core]
    BY <1>6 DEF Proposes
  <2>2. Sound(core, Values) /\ core.floor = mem.core.floor
    BY <1>1, <2>1, ArmsFacts
  <2> QED BY <1>2, <1>6, <2>1, <2>2 DEF Proposes
<1>7. CASE Decides(m)
  <2>0. PICK slot \in Slot :
           /\ slot > mem.core.floor /\ slot \notin Decided(mem.core) /\ chosen'[slot] # << >>
           /\ \E core \in ApplyDecision(mem.core, slot, chosen'[slot]) :
                 m = [mem EXCEPT !.core = core]
    BY <1>7 DEF Decides
  <2>1. PICK core \in ApplyDecision(mem.core, slot, chosen'[slot]) : m = [mem EXCEPT !.core = core]
    BY <2>0
  <2>2. chosen'[slot] \in Seq(Values)
    BY DEF Step, Grows, WorldOK
  <2>3. Sound(core, Values) /\ core.floor = mem.core.floor
    BY SMTT(20), <1>1, <2>0, <2>1, <2>2, ApplyDecisionFacts
  <2> QED BY <1>2, <1>7, <2>1, <2>3 DEF Decides
<1>8. CASE Executes(m)
  <2>1. PICK s : s = Min(Undelivered(mem))
    OBVIOUS
  <2>2. /\ Undelivered(mem) # {} /\ app' = app \union {s}
        /\ m = [mem EXCEPT !.executed = @ \union {s}]
    BY <1>8, <2>1 DEF Executes
  <2>3. s \in Slot /\ \A t \in 1 .. s - 1 : t \in app
    BY <1>1, <2>1, <2>2, DeliveredBefore
  <2>4. m.core = mem.core /\ m.executed = mem.executed \union {s}
    BY <1>1, <2>2 DEF Runtime
  <2>5. 1 .. s \subseteq app'
    <3>1. \A t \in 1 .. s : t \in 1 .. s - 1 \/ t = s
      BY SMT, <2>3, ReplicaConfigAssumption DEF Slot
    <3> QED BY <2>2, <2>3, <3>1
  <2> QED BY <1>1, <2>2, <2>4, <2>5 DEF Executing, ExecutedInOrder
<1>9. CASE Notifies(m)
  <2>1. m.core = mem.core /\ m.executed = mem.executed
    BY <1>1, <1>9 DEF Notifies, Runtime
  <2> QED BY <1>1, <1>9, <2>1 DEF Notifies, Executing, ExecutedInOrder
<1>10. CASE Prunes(m)
  <2>1. PICK slot \in Slot : /\ CanCheckpoint(mem, slot) /\ m = Pruned(mem, slot)
                             /\ 1 .. slot \subseteq app
    BY <1>10 DEF Prunes
  <2>2. m.executed \subseteq mem.executed /\ m.core.floor \in {slot, mem.core.floor}
    <3>1. PICK d : d = PruneThrough(mem.core, slot)
      OBVIOUS
    <3>2. LeavesPruned(mem, slot, m, d)
      BY <1>1, <2>1, <3>1, PrunedFacts
    <3> QED BY <3>2 DEF LeavesPruned
  <2>3. \A s \in Slot : s <= slot => s \in 1 .. slot
    BY SMT, ReplicaConfigAssumption DEF Slot
  <2> QED BY <1>1, <1>10, <2>1, <2>2, <2>3 DEF Prunes, Executing, ExecutedInOrder
<1> QED BY SMTT(20), <1>3, <1>4, <1>5, <1>6, <1>7, <1>8, <1>9, <1>10 DEF Step

\* The application executes the log without gaps, whatever fails and whenever
\* the replica restarts or prunes its log, provided it exports a state only
\* when it has executed the slots that the state stands for.
THEOREM ExecutesInOrder == CarefulTransfer => (Spec => []ExecutedInOrder)
<1>1. Init => ExecutingInv
  <2> SUFFICES ASSUME Init PROVE ExecutingInv
    OBVIOUS
  <2>1. mem.executed = {} /\ disk.executed = {} /\ mem.core.floor = 0 /\ disk.core.floor = 0
    BY DEF Init, NewRuntime, NewReplica
  <2>2. \A s \in Slot : ~(s <= 0)
    BY SMT, ReplicaConfigAssumption DEF Slot
  <2> QED BY <2>1, <2>2 DEF Init, ExecutingInv, Executing, ExecutedInOrder
<1>2. ASSUME CarefulTransfer, StandingInv, ExecutingInv, [Next]_vars PROVE ExecutingInv'
  <2>1. PICK m : Step(m)
    BY <1>2, StepShape
  <2>2. Executing(m, app') /\ app \subseteq app' /\ ExecutedInOrder'
    BY <1>2, <2>1, ExecutingStep
  <2>3. Executing(disk, app')
    BY <1>2, <2>2 DEF ExecutingInv, Executing
  <2>4. mem' \in {m, disk} /\ disk' \in {m, disk}
    BY <2>1 DEF Step, Moves
  <2> QED BY <2>2, <2>3, <2>4 DEF ExecutingInv
<1>3. ExecutingInv => ExecutedInOrder
  BY DEF ExecutingInv
<1>4. ASSUME CarefulTransfer PROVE Spec => []ExecutedInOrder
  <2>1. StandingInv /\ ExecutingInv /\ [Next]_vars => ExecutingInv'
    BY <1>2, <1>4
  <2> QED BY <1>1, <1>3, <2>1, StandingInvariant, PTL DEF Spec
<1> QED BY <1>4

------------------------------------------------------------------------------
(* Values *)

\* A value that a slot decided stays decided.
LEMMA KeepingGrows ==
  ASSUME NEW m, NEW taken, Keeping(m, chosen, taken), Grows
  PROVE  Keeping(m, chosen', taken)
<1>1. ASSUME NEW v, Somewhere(v, chosen) PROVE Somewhere(v, chosen')
  <2>1. PICK s \in Slot : v \in Range(chosen[s])
    BY <1>1 DEF Somewhere
  <2>2. chosen[s] # << >>
    BY SMT, <2>1 DEF Range
  <2> QED BY <2>1, <2>2 DEF Somewhere, Grows
<1> QED BY <1>1 DEF Keeping

\* A step loses no value, if proposals are possible and the log has room for
\* all slots.
LEMMA KeepingStep ==
  ASSUME PipelineLen > 0, MaxLogSlots >= MaxSlot, StandingInv, KeepingInv, NEW m, Step(m)
  PROVE  /\ Keeping(m, chosen', accepted')
         /\ accepted' = accepted \/ (mem' = m /\ disk' = m)
<1>1. /\ Standing(mem, chosen, informed) /\ mem \in Runtime /\ Sound(mem.core, Values)
      /\ Keeping(mem, chosen', accepted) /\ Grows
  BY KeepingGrows DEF StandingInv, Standing, KeepingInv, Step
<1>3. ASSUME m.core = mem.core, accepted' = accepted PROVE Keeping(m, chosen', accepted')
  BY <1>1, <1>3 DEF Keeping
<1>4. CASE Stays(m)
  BY <1>3, <1>4 DEF Stays
<1>5. CASE Submits(m)
  <2>0. PICK v \in Value : \E core \in Enqueue(mem.core, <<v>>) :
           /\ m = [mem EXCEPT !.core = core]
           /\ \/ UNCHANGED accepted
              \/ accepted' = accepted \union {v} /\ mem' = m /\ disk' = m
    BY <1>5 DEF Submits
  <2>1. PICK core \in Enqueue(mem.core, <<v>>) :
           /\ m = [mem EXCEPT !.core = core]
           /\ \/ UNCHANGED accepted
              \/ accepted' = accepted \union {v} /\ mem' = m /\ disk' = m
    BY <2>0
  <2>2. PICK q, c : q = <<v>> /\ c = mem.core
    OBVIOUS
  <2>3. q \in Seq(Values) /\ IsInjective(q) /\ Range(q) = {v}
    BY SMT, <2>2 DEF Values, IsInjective, Range
  <2>4. Sound(c, Values) /\ core \in Enqueue(c, q)
    BY <1>1, <2>1, <2>2
  <2>5. /\ Sound(core, Values) /\ core.seen = c.seen \union Range(q)
        /\ Live(core) = Live(c) \union (Range(q) \ c.seen)
        /\ Distinct(c) => Distinct(core)
    BY ONLY SMT, <2>3, <2>4, EnqueueFacts
  <2>6. m.core = core
    BY SMT, <1>1, <2>1, <2>5, WithCore DEF Sound, Orderly
  <2>7. Distinct(core)
    BY <1>1, <2>2, <2>5 DEF Keeping
  <2>8. Keeping(m, chosen', accepted')
    <3>1. accepted' \subseteq core.seen
      BY <1>1, <2>1, <2>2, <2>3, <2>5 DEF Keeping
    <3>2. \A w \in core.seen : Somewhere(w, chosen') \/ w \in Live(core)
      BY <1>1, <2>2, <2>3, <2>5 DEF Keeping
    <3> QED BY <2>6, <2>7, <3>1, <3>2 DEF Keeping
  <2> QED BY <2>1, <2>8
<1>6. CASE Announces(m)
  <2>1. m.core = mem.core
    BY <1>1, <1>6 DEF Announces, Runtime
  <2> QED BY <1>3, <1>6, <2>1 DEF Announces
<1>7. CASE Proposes(m)
  <2>1. PICK core : Arms(mem.core, core) /\ m = [mem EXCEPT !.core = core]
    BY <1>7 DEF Proposes
  <2>2. /\ Sound(core, Values) /\ mem.core.seen \subseteq core.seen
        /\ Distinct(core) /\ Live(mem.core) \subseteq Live(core)
        /\ core.seen \subseteq mem.core.seen \union Live(core)
    BY <1>1, <2>1, ArmsFacts DEF Keeping
  <2>3. m.core = core
    BY SMTT(20), <1>1, <2>1, <2>2, WithCore DEF Sound, Orderly
  <2>4. accepted' = accepted
    BY <1>7 DEF Proposes
  <2> QED BY <1>1, <2>2, <2>3, <2>4 DEF Keeping
<1>8. CASE Decides(m)
  <2>0. PICK slot \in Slot :
           /\ slot > mem.core.floor /\ slot \notin Decided(mem.core) /\ chosen'[slot] # << >>
           /\ \E core \in ApplyDecision(mem.core, slot, chosen'[slot]) :
                 m = [mem EXCEPT !.core = core]
    BY <1>8 DEF Decides
  <2>1. PICK core \in ApplyDecision(mem.core, slot, chosen'[slot]) : m = [mem EXCEPT !.core = core]
    BY <2>0
  <2>2. chosen'[slot] \in Seq(Values)
    BY <1>1 DEF Grows, WorldOK
  <2>3. /\ Sound(core, Values) /\ core.seen = mem.core.seen \union Range(chosen'[slot])
        /\ Live(mem.core) \subseteq Live(core) \union Range(chosen'[slot])
        /\ Distinct(mem.core) => Distinct(core)
    BY SMTT(20), <1>1, <2>0, <2>1, <2>2, ApplyDecisionFacts
  <2>4. m.core = core
    BY SMTT(20), <1>1, <2>1, <2>3, WithCore DEF Sound, Orderly
  <2>5. \A v \in Range(chosen'[slot]) : Somewhere(v, chosen')
    BY DEF Somewhere
  <2>6. accepted' = accepted
    BY <1>8 DEF Decides
  <2> QED BY <1>1, <2>3, <2>4, <2>5, <2>6 DEF Keeping
<1>9. CASE Executes(m)
  <2>1. m.core = mem.core
    BY <1>1, <1>9 DEF Executes, Runtime
  <2> QED BY <1>3, <1>9, <2>1 DEF Executes
<1>10. CASE Notifies(m)
  <2>1. m.core = mem.core
    BY <1>1, <1>10 DEF Notifies, Runtime
  <2> QED BY <1>3, <1>10, <2>1 DEF Notifies
<1>11. CASE Prunes(m)
  <2>1. PICK slot \in Slot : CanCheckpoint(mem, slot) /\ m = Pruned(mem, slot)
    BY <1>11 DEF Prunes
  <2>2. PICK d : d = PruneThrough(mem.core, slot)
    OBVIOUS
  <2>3. /\ m.core = d /\ d.seen = mem.core.seen /\ Live(d) = Live(mem.core)
        /\ Distinct(mem.core) => Distinct(d)
    <3>1. LeavesPruned(mem, slot, m, d)
      BY <1>1, <2>1, <2>2, PrunedFacts
    <3> QED BY <3>1 DEF LeavesPruned
  <2>4. accepted' = accepted
    BY <1>11 DEF Prunes
  <2> QED BY <1>1, <2>3, <2>4 DEF Keeping
<1> QED BY ZenonT(40), <1>4, <1>5, <1>6, <1>7, <1>8, <1>9, <1>10, <1>11 DEF Step, Stays, Announces, Proposes,
          Decides, Executes, Notifies, Prunes

\* A value whose submission succeeded is decided, or waits in memory and in the
\* file, whatever fails and whenever the replica restarts: if the pipeline has
\* room for a proposal and the log for all slots.  (When the log is full,
\* next_proposal takes a batch from the queue and then fails.)
THEOREM ValuesAreKept ==
  PipelineLen > 0 /\ MaxLogSlots >= MaxSlot => (Spec => []NoValueLost)
<1>1. Init => KeepingInv
  <2> SUFFICES ASSUME Init PROVE KeepingInv
    OBVIOUS
  <2>1. mem.core = NewReplica /\ disk.core = NewReplica /\ accepted = {}
    BY DEF Init, NewRuntime
  <2>2. Distinct(NewReplica) /\ NewReplica.seen = {}
    BY NewSound DEF NewReplica
  <2> QED BY <2>1, <2>2 DEF KeepingInv, Keeping
<1>2. ASSUME PipelineLen > 0, MaxLogSlots >= MaxSlot, StandingInv, KeepingInv, [Next]_vars
      PROVE  KeepingInv'
  <2>1. PICK m : Step(m)
    BY <1>2, StepShape
  <2>2. Keeping(m, chosen', accepted') /\ (accepted' = accepted \/ (mem' = m /\ disk' = m))
    BY <1>2, <2>1, KeepingStep
  <2>3. Keeping(disk, chosen', accepted)
    BY <1>2, <2>1, KeepingGrows DEF KeepingInv, Step
  <2>4. mem' \in {m, disk} /\ disk' \in {m, disk}
    BY <2>1 DEF Step, Moves
  <2> QED BY <2>2, <2>3, <2>4 DEF KeepingInv
<1>3. KeepingInv => NoValueLost
  <2> SUFFICES ASSUME KeepingInv, NEW v \in accepted, ~Somewhere(v, chosen)
               PROVE  \A m \in {mem, disk} :
                         \/ v \in Range(m.core.pending)
                         \/ \E s \in Slot : v \in Range(m.core.log[s].proposed)
    BY DEF NoValueLost, Somewhere
  <2>1. \A m \in {mem, disk} : v \in Live(m.core)
    BY DEF KeepingInv, Keeping
  <2> QED BY <2>1 DEF Live, Proposed, Undecided
<1>4. ASSUME PipelineLen > 0, MaxLogSlots >= MaxSlot PROVE Spec => []NoValueLost
  <2>1. StandingInv /\ KeepingInv /\ [Next]_vars => KeepingInv'
    BY <1>2, <1>4
  <2> QED BY <1>1, <1>3, <2>1, StandingInvariant, PTL DEF Spec
<1> QED BY <1>4
==============================================================================
