----------------------- MODULE DurableRecorder_proofs -----------------------
(***************************************************************************)
(* What DurableRecorderCore (src/src/recorder.rs) has acknowledged survives *)
(* failed saves, crashes and restarts, for any requests, epochs and limits. *)
(*                                                                         *)
(* The argument has two parts.  Every operation of RecorderCore leaves a   *)
(* sound core (Sound: types, limits, and the tests of restore) that has    *)
(* grown (Grew): what the core before it shows for a slot above the floor, *)
(* the one after it shows too.  And the three outcomes of mutate leave     *)
(* only cores in memory and in the file that have grown from the ones      *)
(* before, so what was acknowledged stays reflected (IInv).                *)
(*                                                                         *)
(* The last part is about the configurations a recorder installs           *)
(* (Membership), for any replicas and fault budgets: the quorums of every  *)
(* epoch, and of any two successive ones, intersect.  One counting lemma,  *)
(* TwoThresholds, is applied to one voter set, the members of a stable     *)
(* epoch or the set two epochs share.  The type invariant is inductive as  *)
(* it stands, because is_successor_of demands a well-formed configuration. *)
(* quorum_size is exact because a quorum of each part of a joint epoch can *)
(* be chosen to overlap the other one as far as the parts do; the test     *)
(* is_successor_of is exact by cases.                                      *)
(***************************************************************************)
EXTENDS DurableRecorder, Membership, Lemmas

USE Zenon

------------------------------------------------------------------------------
(* Registers *)

\* Proposals have numbers for keys, and steps are numbers.
LEMMA KeyNumbers ==
  /\ \A x \in Proposals : x.priority \in Nat /\ x.proposer \in Nat
  /\ \A s \in RoundOnePhaseZero .. MaxStep : s \in Nat /\ s > InitialStep
  /\ Slot \subseteq Nat /\ MaxSlot \in Nat
<1>1. \A x \in Proposals : x.priority \in Nat /\ x.proposer \in Nat
  BY RequestsAssumption DEF Proposals
<1>2. \A s \in RoundOnePhaseZero .. MaxStep : s \in Nat /\ s > InitialStep
  BY SMT, LimitsAssumption DEF RoundOnePhaseZero, InitialStep
<1>3. Slot \subseteq Nat /\ MaxSlot \in Nat
  BY SMT, LimitsAssumption DEF Slot
<1> QED BY <1>1, <1>2, <1>3

\* The order of keys is reflexive, transitive and total.
LEMMA KeyOrder ==
  ASSUME NEW x \in Proposals, NEW y \in Proposals, NEW z \in Proposals
  PROVE  /\ KeyLeq(x, x)
         /\ KeyLeq(x, y) \/ KeyLeq(y, x)
         /\ KeyLeq(x, y) /\ KeyLeq(y, z) => KeyLeq(x, z)
<1>1. /\ x.priority \in Nat /\ x.proposer \in Nat
      /\ y.priority \in Nat /\ y.proposer \in Nat
      /\ z.priority \in Nat /\ z.proposer \in Nat
  BY KeyNumbers
<1> QED BY SMT, <1>1 DEF KeyLeq

\* A register after at least one call, and the calls it has taken into account.
Filled(reg) == reg \in Register /\ reg.first # {} /\ reg.current # {}

Covers(reg, s, x) ==
  \/ s < reg.step
  \/ s = reg.step /\ \E c \in reg.current : KeyLeq(x, c)

\* The fields of a register.
LEMMA RegisterFields ==
  ASSUME NEW reg \in Register
  PROVE  /\ reg.step \in RoundOnePhaseZero .. MaxStep /\ reg.step \in Nat
         /\ reg.first \in Option(Proposals) /\ reg.current \in Option(Proposals)
         /\ reg.prior \in Option(Proposals)
         /\ reg.current \subseteq Proposals
         /\ reg = [step |-> reg.step, first |-> reg.first,
                   current |-> reg.current, prior |-> reg.prior]
<1>1. /\ reg.step \in RoundOnePhaseZero .. MaxStep
      /\ reg.first \in Option(Proposals) /\ reg.current \in Option(Proposals)
      /\ reg.prior \in Option(Proposals)
  BY DEF Register
<1>2. reg = [step |-> reg.step, first |-> reg.first,
             current |-> reg.current, prior |-> reg.prior]
  BY DEF Register
<1>3. reg.current \subseteq Proposals
  BY <1>1 DEF Option
<1> QED BY <1>1, <1>2, <1>3, KeyNumbers

\* A call leaves a register as it is just when it is covered.
LEMMA NoopIsCovered ==
  ASSUME NEW reg, Filled(reg), NEW s \in Nat, NEW x \in Proposals
  PROVE  RecordISR(reg, s, x) = reg <=> Covers(reg, s, x)
<1>1. /\ reg.step \in Nat /\ reg.current \subseteq Proposals /\ reg.first # {}
      /\ reg = [step |-> reg.step, first |-> reg.first,
                current |-> reg.current, prior |-> reg.prior]
  BY RegisterFields DEF Filled
<1>2. CASE s < reg.step
  BY SMT, <1>1, <1>2 DEF RecordISR, Covers
<1>3. CASE s > reg.step
  <2>1. RecordISR(reg, s, x).step = s
    BY SMT, <1>1, <1>3 DEF RecordISR, RecordLaterStep
  <2> QED BY SMT, <1>1, <1>3, <2>1 DEF Covers
<1>4. CASE s = reg.step
  <2>1. RecordISR(reg, s, x) =
          [step |-> reg.step, first |-> reg.first,
           current |-> BestProposal(reg.current, x), prior |-> reg.prior]
    BY SMT, <1>1, <1>4 DEF RecordISR, RecordSameStep
  <2>2. RecordISR(reg, s, x) = reg <=> BestProposal(reg.current, x) = reg.current
    BY SMT, <1>1, <2>1
  <2>3. BestProposal(reg.current, x) = reg.current <=> \E c \in reg.current : KeyLeq(x, c)
    BY KeyOrder DEF BestProposal
  <2> QED BY SMT, <1>1, <1>4, <2>2, <2>3 DEF Covers
<1> QED BY SMT, <1>1, <1>2, <1>3, <1>4

\* best_proposal returns a proposal at least as large as both arguments.
LEMMA BestFacts ==
  ASSUME NEW current \in Option(Proposals), NEW x \in Proposals
  PROVE  /\ BestProposal(current, x) \in Option(Proposals)
         /\ BestProposal(current, x) \subseteq current \union {x}
         /\ \E c \in BestProposal(current, x) : KeyLeq(x, c)
         /\ \A y \in current : \E c \in BestProposal(current, x) : KeyLeq(y, c)
<1>0. \A y \in current : y \in Proposals
  BY DEF Option
<1>1. CASE \E c \in current : KeyLeq(x, c)
  <2>1. BestProposal(current, x) = current
    BY <1>1 DEF BestProposal
  <2>2. \A y \in current : KeyLeq(y, y)
    BY <1>0, KeyOrder
  <2> QED BY <1>1, <2>1, <2>2
<1>2. CASE ~\E c \in current : KeyLeq(x, c)
  <2>1. BestProposal(current, x) = {x}
    BY <1>2 DEF BestProposal
  <2>2. KeyLeq(x, x) /\ \A y \in current : KeyLeq(y, x)
    BY <1>0, <1>2, KeyOrder
  <2> QED BY <2>1, <2>2 DEF Option
<1> QED BY <1>1, <1>2

\* The proposals a register holds.
Held(reg) == reg.first \union reg.current \union reg.prior

\* record fills an empty register, covers its call and uncovers none.
LEMMA RecordFacts ==
  ASSUME NEW reg, reg = EmptyRegister \/ Filled(reg),
         NEW s \in RoundOnePhaseZero .. MaxStep, NEW x \in Proposals,
         NEW h, h = RecordISR(reg, s, x)
  PROVE  /\ Filled(h)
         /\ Held(h) \subseteq Held(reg) \union {x}
         /\ Covers(h, s, x)
         /\ Filled(reg) => \A t \in Nat : \A y \in Proposals : Covers(reg, t, y) => Covers(h, t, y)
<1>1. s \in Nat /\ s > InitialStep /\ InitialStep = 0 /\ KeyLeq(x, x)
  BY KeyNumbers, KeyOrder DEF InitialStep
<1>2. {x} \in Option(Proposals) /\ {} \in Option(Proposals)
  BY DEF Option
<1>3. CASE reg = EmptyRegister
  <2>1. /\ reg.step = 0 /\ reg.current = {} /\ reg.first = {}
        /\ EmptyRegister.step = 0
    BY <1>1, <1>3 DEF EmptyRegister
  <2>2. h = [step |-> s, first |-> {x}, current |-> {x}, prior |-> {}]
    BY SMT, <1>1, <1>3, <2>1 DEF RecordISR, RecordLaterStep
  <2>3. Filled(h)
    BY SMT, <1>2, <2>2 DEF Filled, Register
  <2>4. ~Filled(reg)
    BY <2>1 DEF Filled
  <2> QED BY SMT, <1>1, <2>2, <2>3, <2>4 DEF Covers, Held
<1>4. CASE Filled(reg)
  <2>1. /\ reg.step \in RoundOnePhaseZero .. MaxStep /\ reg.step \in Nat
        /\ reg.first \in Option(Proposals) /\ reg.current \in Option(Proposals)
        /\ reg.prior \in Option(Proposals) /\ reg.current \subseteq Proposals
        /\ reg.first # {} /\ reg.current # {}
    BY <1>4, RegisterFields DEF Filled
  <2>2. CASE s < reg.step
    BY SMT, <1>1, <1>4, <2>1, <2>2 DEF RecordISR, Covers, Held
  <2>3. CASE s > reg.step
    <3>1. h = [step |-> s, first |-> {x}, current |-> {x},
               prior |-> IF s = reg.step + 1 THEN reg.current ELSE {}]
      BY SMT, <1>1, <2>1, <2>3 DEF RecordISR, RecordLaterStep
    <3>2. h.prior \in Option(Proposals)
      BY SMT, <1>2, <2>1, <3>1
    <3>3. Filled(h)
      BY SMT, <1>2, <3>1, <3>2 DEF Filled, Register
    <3>4. \A t \in Nat : \A y \in Proposals : Covers(reg, t, y) => t < h.step
      BY SMT, <1>1, <2>1, <2>3, <3>1 DEF Covers
    <3> QED BY SMT, <1>1, <3>1, <3>3, <3>4 DEF Covers, Held
  <2>4. CASE s = reg.step
    <3>1. h = [step |-> reg.step, first |-> reg.first,
               current |-> BestProposal(reg.current, x), prior |-> reg.prior]
      BY SMT, <1>1, <2>1, <2>4 DEF RecordISR, RecordSameStep
    <3>2. /\ BestProposal(reg.current, x) \in Option(Proposals)
          /\ BestProposal(reg.current, x) \subseteq reg.current \union {x}
          /\ \E c \in BestProposal(reg.current, x) : KeyLeq(x, c)
          /\ \A y \in reg.current : \E c \in BestProposal(reg.current, x) : KeyLeq(y, c)
      BY <2>1, BestFacts
    <3>3. Filled(h)
      BY SMT, <2>1, <3>1, <3>2 DEF Filled, Register
    <3>4. ASSUME NEW t \in Nat, NEW y \in Proposals, Covers(reg, t, y) PROVE Covers(h, t, y)
      <4>1. CASE t < reg.step
        BY SMT, <3>1, <4>1 DEF Covers
      <4>2. CASE ~(t < reg.step)
        <5>1. PICK c \in reg.current : KeyLeq(y, c) /\ t = reg.step
          BY <3>4, <4>2 DEF Covers
        <5>2. PICK d \in BestProposal(reg.current, x) : KeyLeq(c, d)
          BY <3>2
        <5>3. c \in Proposals /\ d \in Proposals
          BY <2>1, <3>2
        <5>4. KeyLeq(y, d)
          BY <5>1, <5>2, <5>3, KeyOrder
        <5> QED BY SMT, <3>1, <5>1, <5>2, <5>4 DEF Covers
      <4> QED BY <4>1, <4>2
    <3> QED BY SMT, <2>4, <3>1, <3>2, <3>3, <3>4 DEF Covers, Held
  <2> QED BY SMT, <1>1, <2>1, <2>2, <2>3, <2>4
<1> QED BY <1>3, <1>4

------------------------------------------------------------------------------
(* Cores *)

\* Everyone who is a member in some epoch.
Everyone == UNION {Epochs[i].members : i \in DOMAIN Epochs}

Core ==
  [cluster : Range(Epochs), slots : [Slot -> Option(Register)],
   leaders : [Slot -> Option({q.leader : q \in Requests})],
   decisions : [Slot -> Option(Decided)], floor : 0 .. MaxSlot]

\* What restore tests, for the members of all epochs.
SlotSound(c, s) ==
  /\ c.slots[s] # {} <=> c.leaders[s] # {}
  /\ c.slots[s] # {} \/ c.decisions[s] # {} => s > c.floor
  /\ UNION c.leaders[s] \subseteq Everyone
  /\ \A reg \in c.slots[s] : Filled(reg) /\ \A x \in Held(reg) : x.proposer \in Everyone
  /\ \A d \in c.decisions[s] : d.slot = s /\ d.step <= MaxStep /\ d.proposer \in Everyone

Sound(c) ==
  /\ c \in Core
  /\ Cardinality(Occupied(c.slots)) <= MaxActiveSlots
  /\ Cardinality(Occupied(c.decisions)) <= MaxDecisions
  /\ \A s \in Slot : SlotSound(c, s)

\* What c shows for the slots that d has not pruned, d shows too.
SlotGrew(c, d, s) ==
  /\ c.leaders[s] # {} => d.leaders[s] = c.leaders[s]
  /\ \A e \in c.decisions[s] : \E g \in d.decisions[s] : g.value = e.value
  /\ \A reg \in c.slots[s] : \E r \in d.slots[s] :
        \A t \in Nat : \A x \in Proposals : Covers(reg, t, x) => Covers(r, t, x)

Grew(c, d) ==
  /\ c.cluster.epoch <= d.cluster.epoch
  /\ c.floor <= d.floor
  /\ \A s \in Slot : s > d.floor => SlotGrew(c, d, s)

\* A set of occupied slots is finite.
LEMMA OccupiedFinite ==
  ASSUME NEW field
  PROVE  IsFiniteSet(Occupied(field)) /\ Cardinality(Occupied(field)) \in Nat
<1>1. IsFiniteSet(Slot)
  BY SMT, LimitsAssumption, FS_Interval DEF Slot
<1>2. Occupied(field) \in SUBSET Slot
  BY DEF Occupied
<1> QED BY <1>1, <1>2, FS_Subset, FS_CardinalityType

\* The fields of a core.
LEMMA CoreFields ==
  ASSUME NEW c \in Core
  PROVE  /\ c.cluster \in Range(Epochs) /\ c.slots \in [Slot -> Option(Register)]
         /\ c.leaders \in [Slot -> Option({q.leader : q \in Requests})]
         /\ c.decisions \in [Slot -> Option(Decided)] /\ c.floor \in 0 .. MaxSlot
         /\ c.floor \in Nat /\ c.cluster.epoch \in Nat
         /\ c = [cluster |-> c.cluster, slots |-> c.slots, leaders |-> c.leaders,
                 decisions |-> c.decisions, floor |-> c.floor]
<1>1. /\ c.cluster \in Range(Epochs) /\ c.slots \in [Slot -> Option(Register)]
      /\ c.leaders \in [Slot -> Option({q.leader : q \in Requests})]
      /\ c.decisions \in [Slot -> Option(Decided)] /\ c.floor \in 0 .. MaxSlot
  BY DEF Core
<1>2. c = [cluster |-> c.cluster, slots |-> c.slots, leaders |-> c.leaders,
           decisions |-> c.decisions, floor |-> c.floor]
  BY DEF Core
<1>3. c.floor \in Nat /\ c.cluster.epoch \in Nat
  BY SMT, <1>1, LimitsAssumption, EpochsAssumption
<1> QED BY <1>1, <1>2, <1>3

\* The members of the configuration in force are among everyone.
LEMMA KnownIsSomeone ==
  ASSUME NEW c \in Core, NEW r, Known(c, r)
  PROVE  r \in Everyone
<1>1. PICK i \in DOMAIN Epochs : c.cluster = Epochs[i]
  BY CoreFields DEF Range
<1> QED BY <1>1 DEF Known, Everyone

\* A core that keeps its slots as they are has grown.
LEMMA GrewReflexive ==
  ASSUME NEW c \in Core
  PROVE  Grew(c, c)
BY SMT, CoreFields DEF Grew, SlotGrew

------------------------------------------------------------------------------
(* inform_decisions *)

\* What inform_decision leaves alone, and that it has taken note of d.
Informed(c, c2) ==
  /\ c2.cluster = c.cluster /\ c2.slots = c.slots
  /\ c2.leaders = c.leaders /\ c2.floor = c.floor
  /\ \A s \in Slot : c.decisions[s] # {} => c2.decisions[s] = c.decisions[s]

Tells(c, d) == d.slot <= c.floor \/ \E e \in c.decisions[d.slot] : e.value = d.value

\* What inform_decision makes of a sound core is sound, grew, and tells the decision.
LEMMA InformOne ==
  ASSUME NEW c, Sound(c), NEW d \in Decided, NEW c2 \in InformDecision(c, d)
  PROVE  Sound(c2) /\ Informed(c, c2) /\ Tells(c2, d)
<1>1. /\ c \in Core /\ d.slot \in Slot /\ d.slot \in Nat /\ c.floor \in Nat
      /\ c.decisions \in [Slot -> Option(Decided)]
  BY RequestsAssumption, CoreFields, KeyNumbers DEF Sound, Slot
<1>2. CASE d.slot <= c.floor \/ c.decisions[d.slot] # {}
  <2>1. /\ c2 = c
        /\ d.slot > c.floor => \A e \in c.decisions[d.slot] : e.value = d.value
    BY <1>2 DEF InformDecision
  <2>2. Tells(c, d)
    BY SMT, <1>1, <1>2, <2>1 DEF Tells
  <2> QED BY <2>1, <2>2 DEF Informed
<1>3. CASE ~(d.slot <= c.floor \/ c.decisions[d.slot] # {})
  <2>1. /\ c2 = [c EXCEPT !.decisions[d.slot] = {d}]
        /\ Known(c, d.proposer) /\ d.step <= MaxStep
        /\ Cardinality(Occupied(c.decisions)) # MaxDecisions
    BY <1>3 DEF InformDecision, ValidDecision
  <2>2. /\ c2 = [cluster |-> c.cluster, slots |-> c.slots, leaders |-> c.leaders,
                 decisions |-> [c.decisions EXCEPT ![d.slot] = {d}], floor |-> c.floor]
    <3>1. c = [cluster |-> c.cluster, slots |-> c.slots, leaders |-> c.leaders,
               decisions |-> c.decisions, floor |-> c.floor]
      BY <1>1, CoreFields
    <3> QED BY <2>1, <3>1
  <2>3. c2.decisions \in [Slot -> Option(Decided)] /\ c2.decisions = [c.decisions EXCEPT ![d.slot] = {d}]
    BY <1>1, <2>2 DEF Option
  <2>4. c2 \in Core
    BY <1>1, <2>2, <2>3, CoreFields DEF Core
  <2>5. Occupied(c2.decisions) = Occupied(c.decisions) \union {d.slot}
    BY SMT, <1>1, <2>3 DEF Occupied
  <2>6. Cardinality(Occupied(c2.decisions)) <= MaxDecisions
    <3>1. IsFiniteSet(Occupied(c.decisions)) /\ Cardinality(Occupied(c.decisions)) \in Nat
      BY OccupiedFinite
    <3>2. d.slot \notin Occupied(c.decisions)
      BY <1>3 DEF Occupied
    <3>3. Cardinality(Occupied(c2.decisions)) = Cardinality(Occupied(c.decisions)) + 1
      BY <2>5, <3>1, <3>2, FS_AddElement
    <3> QED BY SMT, <2>1, <3>1, <3>3, LimitsAssumption DEF Sound
  <2>7. d.proposer \in Everyone
    BY <1>1, <2>1, KnownIsSomeone
  <2>8. ASSUME NEW s \in Slot PROVE SlotSound(c2, s)
    <3>1. SlotSound(c, s)
      BY DEF Sound
    <3>2. CASE s = d.slot
      <4>1. c2.decisions[s] = {d}
        BY <1>1, <2>3, <3>2
      <4> QED BY SMT, <1>1, <1>3, <2>1, <2>2, <2>7, <3>1, <3>2, <4>1 DEF SlotSound
    <3>3. CASE s # d.slot
      <4>1. c2.decisions[s] = c.decisions[s]
        BY <1>1, <2>3, <3>3
      <4> QED BY <2>2, <3>1, <4>1 DEF SlotSound
    <3> QED BY <3>2, <3>3
  <2>9. Sound(c2)
    BY <2>2, <2>4, <2>6, <2>8 DEF Sound
  <2>10. Informed(c, c2)
    BY <1>1, <1>3, <2>2, <2>3 DEF Informed
  <2>11. Tells(c2, d)
    BY SMT, <1>1, <2>3 DEF Tells
  <2> QED BY <2>9, <2>10, <2>11
<1> QED BY <1>2, <1>3

\* The states inform_decisions goes through, one more for each decision.
Stage(c, ds, n, f) ==
  f = [i \in 0 .. n |->
         IF i = 0 THEN {c} ELSE UNION {InformDecision(c2, ds[i]) : c2 \in f[i - 1]}]

\* The stages of informing a core of a list of decisions exist.
LEMMA StagesExist ==
  ASSUME NEW c, NEW ds, NEW n \in Nat
  PROVE  \E f : Stage(c, ds, n, f)
<1> DEFINE S == {k \in Nat : ~\E f : Stage(c, ds, k, f)}
<1> SUFFICES ASSUME S # {} PROVE FALSE
  OBVIOUS
<1>1. PICK k \in S : \A m \in S : k <= m
  BY LeastNatural
<1>2. CASE k = 0
  <2>1. Stage(c, ds, 0, [i \in 0 .. 0 |-> {c}])
    BY SMT DEF Stage
  <2> QED BY <1>2, <2>1
<1>3. CASE k # 0
  <2>1. k - 1 \in Nat /\ k - 1 \notin S
    BY SMT, <1>1, <1>3
  <2>2. PICK f : Stage(c, ds, k - 1, f)
    BY <2>1
  <2> DEFINE g == [i \in 0 .. k |->
                     IF i = 0 THEN {c} ELSE UNION {InformDecision(c2, ds[i]) : c2 \in f[i - 1]}]
  <2>3. ASSUME NEW i \in 0 .. k - 1 PROVE i \in 0 .. k /\ g[i] = f[i]
    <3>1. i \in 0 .. k /\ i \in 0 .. (k - 1)
      BY SMT, <2>1
    <3>2. f[i] = IF i = 0 THEN {c} ELSE UNION {InformDecision(c2, ds[i]) : c2 \in f[i - 1]}
      BY <2>2, <3>1 DEF Stage
    <3> QED BY <3>1, <3>2
  <2>4. ASSUME NEW i \in 0 .. k, i # 0 PROVE g[i - 1] = f[i - 1]
    <3>1. i - 1 \in 0 .. k - 1
      BY SMT, <2>1, <2>4
    <3> QED BY <3>1, <2>3
  <2>5. Stage(c, ds, k, g)
    BY <2>4 DEF Stage
  <2> QED BY <2>5
<1> QED BY <1>2, <1>3

\* Informing a core of a list of decisions goes through the stages, to the last.
LEMMA InformStages ==
  ASSUME NEW c, NEW ds, Len(ds) \in Nat
  PROVE  \E f : Stage(c, ds, Len(ds), f) /\ InformDecisions(c, ds) = f[Len(ds)]
<1>1. \E f : Stage(c, ds, Len(ds), f)
  BY StagesExist
<1> DEFINE g == CHOOSE f : Stage(c, ds, Len(ds), f)
<1>2. Stage(c, ds, Len(ds), g)
  BY <1>1
<1>3. InformDecisions(c, ds) = g[Len(ds)]
  BY DEF InformDecisions, Stage
<1> QED BY <1>2, <1>3

\* Later decisions of the sequence leave what an earlier one did.
LEMMA InformedChain ==
  ASSUME NEW c, NEW c1, NEW c2, Informed(c, c1), Informed(c1, c2)
  PROVE  /\ Informed(c, c2)
         /\ \A d \in Decided : Tells(c1, d) => Tells(c2, d)
<1>1. Informed(c, c2)
  BY DEF Informed
<1>2. ASSUME NEW d \in Decided, Tells(c1, d) PROVE Tells(c2, d)
  <2>1. d.slot \in Slot
    BY RequestsAssumption DEF Slot
  <2> QED BY <1>2, <2>1 DEF Informed, Tells
<1> QED BY <1>1, <1>2

\* inform_decisions as a whole.
LEMMA InformAll ==
  ASSUME NEW c, Sound(c), NEW ds \in Seq(Decided), NEW c2 \in InformDecisions(c, ds)
  PROVE  Sound(c2) /\ Informed(c, c2) /\ \A i \in 1 .. Len(ds) : Tells(c2, ds[i])
<1>0. Len(ds) \in Nat /\ \A i \in 1 .. Len(ds) : ds[i] \in Decided
  BY SMT
<1>1. PICK f : Stage(c, ds, Len(ds), f) /\ InformDecisions(c, ds) = f[Len(ds)]
  BY <1>0, InformStages
<1> DEFINE Good(x, k) == /\ Sound(x) /\ Informed(c, x)
                         /\ \A i \in 1 .. k : Tells(x, ds[i])
           S == {k \in 0 .. Len(ds) : ~\A x \in f[k] : Good(x, k)}
<1>2. ASSUME S # {} PROVE FALSE
  <2>1. S \in SUBSET Nat
    BY SMT, <1>0
  <2>2. PICK k \in S : \A m \in S : k <= m
    <3> HIDE DEF S
    <3> QED BY <1>2, <2>1, LeastNatural
  <2>3. k \in 0 .. Len(ds) /\ k \in Nat
    BY SMT, <1>0
  <2>4. PICK x \in f[k] : ~Good(x, k)
    OBVIOUS
  <2>5. CASE k = 0
    <3>1. f[k] = {c}
      BY <1>1, <2>3, <2>5 DEF Stage
    <3>2. Good(c, 0)
      BY SMT DEF Informed
    <3> QED BY <2>4, <2>5, <3>1, <3>2
  <2>6. CASE k # 0
    <3>1. k - 1 \in 0 .. Len(ds) /\ k - 1 \notin S /\ k \in 1 .. Len(ds)
      BY SMT, <1>0, <2>2, <2>3, <2>6
    <3>2. f[k] = UNION {InformDecision(y, ds[k]) : y \in f[k - 1]}
      BY <1>1, <2>3, <2>6 DEF Stage
    <3>3. PICK y \in f[k - 1] : x \in InformDecision(y, ds[k])
      BY <2>4, <3>2
    <3>4. Good(y, k - 1)
      BY <3>1, <3>3
    <3>5. Sound(x) /\ Informed(y, x) /\ Tells(x, ds[k])
      BY <1>0, <3>1, <3>3, <3>4, InformOne
    <3>6. Informed(c, x) /\ \A d \in Decided : Tells(y, d) => Tells(x, d)
      BY <3>4, <3>5, InformedChain
    <3>7. ASSUME NEW i \in 1 .. k PROVE Tells(x, ds[i])
      <4>1. CASE i = k
        BY <3>5, <4>1
      <4>2. CASE i # k
        <5>1. i \in 1 .. k - 1 /\ i \in 1 .. Len(ds)
          BY SMT, <2>3, <4>2
        <5> QED BY <1>0, <3>4, <3>6, <5>1
      <4> QED BY <4>1, <4>2
    <3> QED BY <2>4, <3>5, <3>6, <3>7
  <2> QED BY <2>5, <2>6
<1>3. Len(ds) \notin S
  BY <1>2
<1>4. Good(c2, Len(ds))
  BY SMT, <1>0, <1>1, <1>3
<1> QED BY <1>4

\* A core that was told decisions has grown.
LEMMA InformedGrew ==
  ASSUME NEW c, NEW c2, c \in Core, Informed(c, c2)
  PROVE  Grew(c, c2)
<1>1. c2.cluster.epoch = c.cluster.epoch /\ c2.floor = c.floor /\ c.floor \in Nat
      /\ c.cluster.epoch \in Nat
  BY CoreFields DEF Informed
<1>2. ASSUME NEW s \in Slot PROVE SlotGrew(c, c2, s)
  BY DEF Informed, SlotGrew
<1> QED BY SMT, <1>1, <1>2 DEF Grew

------------------------------------------------------------------------------
(* The other operations of RecorderCore *)

\* record: sound, grown, and the call is reflected.
LEMMA RecordKeeps ==
  ASSUME NEW c, Sound(c), NEW q \in Requests, NEW h \in Record(c, q)
  PROVE  /\ Sound(h) /\ Grew(c, h)
         /\ h.cluster = c.cluster /\ h.floor = c.floor
         /\ q.slot \in Slot /\ q.step \in RoundOnePhaseZero .. MaxStep /\ q.slot > h.floor
         /\ h.leaders[q.slot] = {q.leader}
         /\ \E reg \in h.slots[q.slot] : Covers(reg, q.step, q.prop)
         /\ \A i \in 1 .. Len(q.known) : Tells(h, q.known[i])
<1>1. PICK b \in InformDecisions(c, q.known) :
        /\ Accepts(c, q) /\ HasRoom(b, q.slot)
        /\ h = [b EXCEPT !.leaders[q.slot] = {q.leader},
                         !.slots[q.slot] = {RecordISR(RegisterOf(b, q.slot), q.step, q.prop)}]
  BY DEF Record
<1> DEFINE s0 == q.slot
           old == RegisterOf(b, s0)
           new == RecordISR(old, q.step, q.prop)
<1>2. q.known \in Seq(Decided) /\ s0 \in Slot /\ s0 \in Nat /\ q.prop \in Proposals
  BY RequestsAssumption, KeyNumbers DEF Slot, Proposals
<1>3. Sound(b) /\ Informed(c, b) /\ \A i \in 1 .. Len(q.known) : Tells(b, q.known[i])
  BY <1>2, InformAll
<1>4. /\ c \in Core /\ b \in Core
      /\ b = [cluster |-> b.cluster, slots |-> b.slots, leaders |-> b.leaders,
              decisions |-> b.decisions, floor |-> b.floor]
      /\ b.slots \in [Slot -> Option(Register)] /\ b.floor \in Nat
      /\ b.leaders \in [Slot -> Option({r.leader : r \in Requests})]
  BY <1>3, CoreFields DEF Sound
<1>5. h = [cluster |-> b.cluster, slots |-> [b.slots EXCEPT ![s0] = {new}],
           leaders |-> [b.leaders EXCEPT ![s0] = {q.leader}],
           decisions |-> b.decisions, floor |-> b.floor]
  BY <1>1, <1>4
<1>6. /\ Known(c, q.prop.proposer) /\ \A leader \in q.leader : Known(c, leader)
      /\ q.step \in RoundOnePhaseZero .. MaxStep
      /\ s0 > c.floor /\ c.leaders[s0] \in {{}, {q.leader}}
  BY <1>1 DEF Accepts
<1>7. q.prop.proposer \in Everyone /\ q.leader \subseteq Everyone
  BY <1>4, <1>6, KnownIsSomeone
<1>8. SlotSound(b, s0)
  BY <1>2, <1>3 DEF Sound
<1>9. old = EmptyRegister \/ (Filled(old) /\ old \in b.slots[s0] /\ b.slots[s0] = {old})
  <2>1. b.slots[s0] \in Option(Register)
    BY <1>2, <1>4
  <2> QED BY <1>8, <2>1 DEF RegisterOf, SlotSound, Option
<1>10. /\ Filled(new) /\ Held(new) \subseteq Held(old) \union {q.prop}
       /\ Covers(new, q.step, q.prop)
       /\ Filled(old) => \A t \in Nat : \A y \in Proposals : Covers(old, t, y) => Covers(new, t, y)
  BY SMT, <1>2, <1>6, <1>9, RecordFacts
<1>11. \A x \in Held(new) : x.proposer \in Everyone
  <2>1. \A x \in Held(old) : x.proposer \in Everyone
    BY SMT, <1>8, <1>9 DEF SlotSound, Held, EmptyRegister
  <2> QED BY <1>7, <1>10, <2>1
<1> HIDE DEF new, old
<1>12. h \in Core
  <2>1. {new} \in Option(Register) /\ {q.leader} \in Option({r.leader : r \in Requests})
    BY <1>10 DEF Filled, Option
  <2>2. [b.slots EXCEPT ![s0] = {new}] \in [Slot -> Option(Register)]
    BY <1>4, <2>1
  <2>3. [b.leaders EXCEPT ![s0] = {q.leader}] \in [Slot -> Option({r.leader : r \in Requests})]
    BY <1>4, <2>1
  <2> QED BY <1>4, <1>5, <2>2, <2>3, CoreFields DEF Core
<1>13. Cardinality(Occupied(h.slots)) <= MaxActiveSlots
  <2>1. IsFiniteSet(Occupied(b.slots)) /\ Cardinality(Occupied(b.slots)) \in Nat
    BY OccupiedFinite
  <2>2. Occupied(h.slots) = Occupied(b.slots) \union {s0}
    BY <1>2, <1>4, <1>5 DEF Occupied
  <2>3. Cardinality(Occupied(b.slots)) <= MaxActiveSlots
    BY <1>3 DEF Sound
  <2>4. CASE s0 \in Occupied(b.slots)
    <3>1. Occupied(h.slots) = Occupied(b.slots)
      BY <2>2, <2>4
    <3> QED BY <2>3, <3>1
  <2>5. CASE s0 \notin Occupied(b.slots)
    <3>1. Cardinality(Occupied(h.slots)) = Cardinality(Occupied(b.slots)) + 1
      BY <2>1, <2>2, <2>5, FS_AddElement
    <3>2. Cardinality(Occupied(b.slots)) # MaxActiveSlots
      BY <1>1, <1>2, <2>5 DEF HasRoom, Occupied
    <3> QED BY SMT, <2>1, <2>3, <3>1, <3>2, LimitsAssumption
  <2> QED BY <2>4, <2>5
<1>14. /\ h.slots[s0] = {new} /\ h.leaders[s0] = {q.leader} /\ h.decisions = b.decisions
       /\ h.floor = b.floor /\ h.cluster = b.cluster
       /\ \A s \in Slot : s # s0 => h.slots[s] = b.slots[s] /\ h.leaders[s] = b.leaders[s]
  BY <1>2, <1>4, <1>5
<1>15. b.floor = c.floor /\ b.cluster = c.cluster /\ b.slots = c.slots /\ b.leaders = c.leaders
  BY <1>3 DEF Informed
<1>16. ASSUME NEW s \in Slot PROVE SlotSound(h, s)
  <2>1. SlotSound(b, s)
    BY <1>3 DEF Sound
  <2>2. CASE s = s0
    BY <1>6, <1>7, <1>10, <1>11, <1>14, <1>15, <2>1, <2>2 DEF SlotSound
  <2>3. CASE s # s0
    BY <1>14, <2>1, <2>3 DEF SlotSound
  <2> QED BY <2>2, <2>3
<1>17. Sound(h)
  BY <1>3, <1>12, <1>13, <1>14, <1>16 DEF Sound
<1>18. ASSUME NEW s \in Slot PROVE SlotGrew(c, h, s)
  <2>1. \A e \in c.decisions[s] : \E g \in h.decisions[s] : g.value = e.value
    BY <1>3, <1>14 DEF Informed
  <2>2. CASE s = s0
    <3>1. c.leaders[s] # {} => h.leaders[s] = c.leaders[s]
      BY <1>6, <1>14, <2>2
    <3>2. ASSUME NEW reg \in c.slots[s]
          PROVE  \A t \in Nat : \A x \in Proposals : Covers(reg, t, x) => Covers(new, t, x)
      <4>1. b.slots[s0] # {} /\ reg \in b.slots[s0]
        BY <1>15, <2>2, <3>2
      <4>2. Filled(old) /\ reg = old
        BY SMT, <1>4, <1>8, <1>9, <1>2, <4>1 DEF old, RegisterOf, SlotSound, Option
      <4> QED BY <1>10, <4>2
    <3> QED BY <1>14, <2>1, <2>2, <3>1, <3>2 DEF SlotGrew
  <2>3. CASE s # s0
    BY <1>14, <1>15, <2>1, <2>3 DEF SlotGrew
  <2> QED BY <2>2, <2>3
<1>19. Grew(c, h)
  <2>1. c.floor \in Nat /\ c.cluster.epoch \in Nat
    BY <1>4, CoreFields
  <2> QED BY SMT, <1>14, <1>15, <1>18, <2>1 DEF Grew
<1>20. \A i \in 1 .. Len(q.known) : Tells(h, q.known[i])
  BY <1>3, <1>14 DEF Tells
<1> QED BY <1>2, <1>6, <1>10, <1>14, <1>15, <1>17, <1>19, <1>20

\* prune_through: sound and grown, with the floor at the slot or above.
LEMMA PruneKeeps ==
  ASSUME NEW c, Sound(c), NEW slot \in Slot, NEW h, h = PruneThrough(c, slot)
  PROVE  Sound(h) /\ Grew(c, h) /\ slot <= h.floor /\ h.cluster = c.cluster
<1>1. /\ c \in Core /\ slot \in Nat
      /\ c = [cluster |-> c.cluster, slots |-> c.slots, leaders |-> c.leaders,
              decisions |-> c.decisions, floor |-> c.floor]
      /\ c.slots \in [Slot -> Option(Register)] /\ c.floor \in Nat
      /\ c.leaders \in [Slot -> Option({r.leader : r \in Requests})]
      /\ c.decisions \in [Slot -> Option(Decided)] /\ c.cluster.epoch \in Nat
      /\ c.floor \in 0 .. MaxSlot /\ slot \in 0 .. MaxSlot
  BY SMT, CoreFields, KeyNumbers DEF Sound, Slot
<1> DEFINE Retain(field) == [s \in Slot |-> IF s > slot THEN field[s] ELSE {}]
           top == IF slot > c.floor THEN slot ELSE c.floor
<1>2. h = [cluster |-> c.cluster, slots |-> Retain(c.slots), leaders |-> Retain(c.leaders),
           decisions |-> Retain(c.decisions), floor |-> top]
  BY <1>1 DEF PruneThrough
<1>3. top \in 0 .. MaxSlot /\ top \in Nat /\ slot <= top /\ c.floor <= top
  BY SMT, <1>1
<1>4. /\ h.cluster = c.cluster /\ h.floor = top /\ h.slots = Retain(c.slots)
      /\ h.leaders = Retain(c.leaders) /\ h.decisions = Retain(c.decisions)
      /\ \A s \in Slot : s > slot => /\ h.slots[s] = c.slots[s] /\ h.leaders[s] = c.leaders[s]
                                    /\ h.decisions[s] = c.decisions[s]
      /\ \A s \in Slot : s <= slot => /\ h.slots[s] = {} /\ h.leaders[s] = {}
                                     /\ h.decisions[s] = {}
  BY SMT, <1>1, <1>2, KeyNumbers
<1> HIDE DEF top
<1>5. h \in Core
  <2>1. /\ Retain(c.slots) \in [Slot -> Option(Register)]
        /\ Retain(c.leaders) \in [Slot -> Option({r.leader : r \in Requests})]
        /\ Retain(c.decisions) \in [Slot -> Option(Decided)]
    BY <1>1 DEF Option
  <2> QED BY <1>1, <1>2, <1>3, <2>1, CoreFields DEF Core
<1>6. /\ Cardinality(Occupied(h.slots)) <= MaxActiveSlots
      /\ Cardinality(Occupied(h.decisions)) <= MaxDecisions
  <2>1. Occupied(h.slots) \subseteq Occupied(c.slots) /\ Occupied(h.decisions) \subseteq Occupied(c.decisions)
    BY <1>4 DEF Occupied
  <2>2. /\ Cardinality(Occupied(h.slots)) <= Cardinality(Occupied(c.slots))
        /\ Cardinality(Occupied(h.decisions)) <= Cardinality(Occupied(c.decisions))
    BY <2>1, OccupiedFinite, FS_Subset
  <2> QED BY SMT, <2>2, OccupiedFinite, LimitsAssumption DEF Sound
<1>7. ASSUME NEW s \in Slot PROVE SlotSound(h, s)
  <2>1. SlotSound(c, s) /\ s \in Nat
    BY KeyNumbers DEF Sound
  <2>2. CASE s > slot
    <3>1. s > c.floor => s > top
      BY <1>1, <2>1, <2>2 DEF top
    <3> QED BY <1>4, <2>1, <2>2, <3>1 DEF SlotSound
  <2>3. CASE s <= slot
    BY <1>4, <2>3 DEF SlotSound
  <2> QED BY SMT, <1>1, <2>1, <2>2, <2>3
<1>8. Sound(h)
  BY <1>5, <1>6, <1>7 DEF Sound
<1>9. ASSUME NEW s \in Slot, s > h.floor PROVE SlotGrew(c, h, s)
  <2>1. s > slot
    BY SMT, <1>1, <1>3, <1>4, <1>9, KeyNumbers
  <2> QED BY <1>4, <2>1 DEF SlotGrew
<1>10. Grew(c, h)
  BY SMT, <1>1, <1>3, <1>4, <1>9 DEF Grew
<1> QED BY <1>3, <1>4, <1>8, <1>10

\* A core that only moves to a later configuration is sound and has grown.
LEMMA MoveKeeps ==
  ASSUME NEW c, Sound(c), NEW k \in Range(Epochs), c.cluster.epoch <= k.epoch,
         NEW h, h = [c EXCEPT !.cluster = k]
  PROVE  /\ Sound(h) /\ Grew(c, h)
         /\ h.cluster = k /\ h.slots = c.slots /\ h.leaders = c.leaders
         /\ h.decisions = c.decisions /\ h.floor = c.floor
<1>1. /\ c \in Core /\ c.floor \in Nat
      /\ c = [cluster |-> c.cluster, slots |-> c.slots, leaders |-> c.leaders,
              decisions |-> c.decisions, floor |-> c.floor]
  BY CoreFields DEF Sound
<1>2. h = [cluster |-> k, slots |-> c.slots, leaders |-> c.leaders,
           decisions |-> c.decisions, floor |-> c.floor]
  BY <1>1
<1>3. h \in Core
  BY <1>1, <1>2, CoreFields DEF Core
<1>4. Sound(h)
  BY <1>2, <1>3 DEF Sound, SlotSound
<1>5. Grew(c, h)
  BY SMT, <1>1, <1>2 DEF Grew, SlotGrew
<1> QED BY <1>2, <1>4, <1>5

------------------------------------------------------------------------------
(* The inductive invariant *)

NothingAcked == [calls |-> {}, decisions |-> {}, floor |-> 0, epoch |-> Epochs[1].epoch]

Call ==
  [slot : Slot, leader : {q.leader : q \in Requests}, step : RoundOnePhaseZero .. MaxStep,
   prop : Proposals, epoch : Nat]

Acked ==
  [calls : SUBSET Call, decisions : SUBSET [slot : Slot, value : {d.value : d \in Decided}],
   floor : 0 .. MaxSlot, epoch : Nat]

\* Holds, for a given history of acknowledgements.
Shows(k, c) ==
  /\ \A call \in k.calls : Reflects(c, call) /\ call.epoch <= c.cluster.epoch
  /\ \A d \in k.decisions :
        d.slot <= c.floor \/ \E e \in c.decisions[d.slot] : e.value = d.value
  /\ k.floor <= c.floor
  /\ k.epoch <= c.cluster.epoch

\* A slot that was answered in an epoch before the one c is in, and that c has
\* not pruned, is not after the slots that committed the epochs in between.
Anchored(k, c) ==
  \A a \in k.calls : a.slot > c.floor =>
     \A cl \in Range(Epochs) : a.epoch < cl.epoch /\ cl.epoch <= c.cluster.epoch =>
        \E d \in Decided : d.value = CommandOf[cl] /\ a.slot <= d.slot

Kept(k, c) == Sound(c) /\ Shows(k, c) /\ Anchored(k, c)

OneLeader(k) == \A a, b \in k.calls : a.slot = b.slot => a.leader = b.leader

NoOverlap(k) ==
  \A a, b \in k.calls : a.slot = b.slot =>
     \A c \in Range(Epochs) : a.epoch < c.epoch /\ c.epoch <= b.epoch =>
        \E d \in Decided : d.value = CommandOf[c] /\ a.slot <= d.slot

IInv ==
  /\ up \in BOOLEAN
  /\ acked \in Acked /\ OneLeader(acked) /\ NoOverlap(acked)
  /\ IF up THEN Kept(acked, core) ELSE core = NewCore(Epochs[1])
  /\ disk = {} => acked = NothingAcked
  /\ disk = {} \/ \E snapshot : disk = {snapshot}
  /\ \A snapshot \in disk : Kept(acked, snapshot)

------------------------------------------------------------------------------
(* Configurations are known by their epoch numbers *)

\* The epochs are numbered consecutively.
LEMMA EpochNumbers ==
  ASSUME NEW i \in 1 .. Len(Epochs)
  PROVE  Epochs[i].epoch = Epochs[1].epoch + i - 1
<1>0. /\ Len(Epochs) \in Nat /\ DOMAIN Epochs = 1 .. Len(Epochs) /\ 1 \in 1 .. Len(Epochs)
      /\ \A j \in 1 .. Len(Epochs) : Epochs[j] \in Range(Epochs)
  BY SMT, EpochsAssumption DEF Range
<1> DEFINE S == {j \in 1 .. Len(Epochs) : Epochs[j].epoch # Epochs[1].epoch + j - 1}
<1>1. ASSUME S # {} PROVE FALSE
  <2>1. S \in SUBSET Nat
    BY SMT, <1>0
  <2>2. PICK j \in S : \A m \in S : j <= m
    <3> HIDE DEF S
    <3> QED BY <1>1, <2>1, LeastNatural
  <2>3. Epochs[1].epoch \in Nat /\ j \in 1 .. Len(Epochs) /\ j \in Nat
    BY SMT, <1>0, EpochsAssumption
  <2>4. j # 1
    BY SMT, <2>3
  <2>5. j - 1 \in 1 .. Len(Epochs) - 1 /\ j - 1 \in 1 .. Len(Epochs) /\ j - 1 \notin S /\ (j - 1) + 1 = j
    BY SMT, <1>0, <2>2, <2>3, <2>4
  <2>6. Epochs[j].epoch = Epochs[j - 1].epoch + 1
    BY <2>5, EpochsAssumption DEF IsSuccessorOf
  <2>7. Epochs[j - 1].epoch = Epochs[1].epoch + (j - 1) - 1
    BY <2>5
  <2>8. Epochs[j].epoch # Epochs[1].epoch + j - 1
    BY <2>2
  <2> HIDE DEF S
  <2> QED BY SMT, <2>3, <2>6, <2>7, <2>8
<1> QED BY <1>1

\* An epoch number names one configuration.
LEMMA EpochNames ==
  ASSUME NEW a \in Range(Epochs), NEW b \in Range(Epochs), a.epoch = b.epoch
  PROVE  a = b
<1>1. DOMAIN Epochs = 1 .. Len(Epochs) /\ Len(Epochs) \in Nat
  BY SMT, EpochsAssumption
<1>2. PICK i \in 1 .. Len(Epochs), j \in 1 .. Len(Epochs) : a = Epochs[i] /\ b = Epochs[j]
  BY <1>1 DEF Range
<1>3. Epochs[1].epoch + i - 1 = Epochs[1].epoch + j - 1
  BY <1>2, EpochNumbers
<1>4. Epochs[1].epoch \in Nat
  BY SMT, <1>1, <1>2, EpochsAssumption DEF Range
<1> QED BY SMT, <1>1, <1>2, <1>3, <1>4

\* The first configuration is the earliest.
LEMMA FirstEpoch ==
  /\ Epochs[1] \in Range(Epochs) /\ Epochs[1].epoch \in Nat
  /\ \A c \in Range(Epochs) : c.epoch \in Nat
<1>1. DOMAIN Epochs = 1 .. Len(Epochs) /\ 1 \in 1 .. Len(Epochs)
  BY SMT, EpochsAssumption
<1> QED BY <1>1, EpochsAssumption DEF Range

------------------------------------------------------------------------------
(* What a grown core still shows *)

\* The fields of the history of acknowledgements.
LEMMA AckedFields ==
  ASSUME NEW k \in Acked
  PROVE  /\ k.calls \subseteq Call /\ k.floor \in Nat /\ k.floor \in 0 .. MaxSlot /\ k.epoch \in Nat
         /\ k.decisions \subseteq [slot : Slot, value : {d.value : d \in Decided}]
         /\ \A d \in k.decisions : d.slot \in Slot /\ d.slot \in Nat
         /\ k = [calls |-> k.calls, decisions |-> k.decisions, floor |-> k.floor, epoch |-> k.epoch]
         /\ \A a \in k.calls : /\ a.slot \in Slot /\ a.slot \in Nat /\ a.epoch \in Nat
                               /\ a.step \in Nat /\ a.prop \in Proposals
<1>1. /\ k.calls \subseteq Call /\ k.floor \in 0 .. MaxSlot /\ k.epoch \in Nat
      /\ k.decisions \subseteq [slot : Slot, value : {d.value : d \in Decided}]
  BY DEF Acked
<1>2. k = [calls |-> k.calls, decisions |-> k.decisions, floor |-> k.floor, epoch |-> k.epoch]
  BY DEF Acked
<1>3. \A a \in Call : /\ a.slot \in Slot /\ a.epoch \in Nat
                      /\ a.step \in RoundOnePhaseZero .. MaxStep /\ a.prop \in Proposals
  BY DEF Call
<1>4. \A d \in k.decisions : d.slot \in Slot
  BY <1>1
<1> QED BY SMT, <1>1, <1>2, <1>3, <1>4, KeyNumbers

\* For a sound core, Reflects says that the call is covered.
LEMMA ReflectsIsCovers ==
  ASSUME NEW c, Sound(c), NEW s \in Slot, NEW t \in Nat, NEW x \in Proposals,
         NEW reg \in c.slots[s]
  PROVE  RecordISR(reg, t, x) = reg <=> Covers(reg, t, x)
<1>1. Filled(reg)
  BY DEF Sound, SlotSound
<1> QED BY <1>1, NoopIsCovered

\* A core that grew still shows what was acknowledged.
LEMMA ShowsGrown ==
  ASSUME NEW k \in Acked, NEW c, NEW h, Sound(c), Sound(h), Shows(k, c), Grew(c, h)
  PROVE  Shows(k, h)
<1>1. /\ c.floor \in Nat /\ h.floor \in Nat /\ c.cluster.epoch \in Nat /\ h.cluster.epoch \in Nat
      /\ c.floor <= h.floor /\ c.cluster.epoch <= h.cluster.epoch
  BY CoreFields DEF Sound, Grew
<1>2. ASSUME NEW a \in k.calls PROVE Reflects(h, a) /\ a.epoch <= h.cluster.epoch
  <2>1. /\ a.slot \in Slot /\ a.slot \in Nat /\ a.epoch \in Nat
        /\ a.step \in Nat /\ a.prop \in Proposals
    BY AckedFields
  <2>2. Reflects(c, a) /\ a.epoch <= c.cluster.epoch
    BY DEF Shows
  <2>3. CASE a.slot <= h.floor
    BY SMT, <1>1, <2>1, <2>2, <2>3 DEF Reflects
  <2>4. CASE a.slot > h.floor
    <3>1. ~(a.slot <= c.floor)
      BY SMT, <1>1, <2>1, <2>4
    <3>2. SlotGrew(c, h, a.slot)
      BY <2>1, <2>4 DEF Grew
    <3>3. /\ c.leaders[a.slot] = {a.leader}
          /\ \E reg \in c.slots[a.slot] : RecordISR(reg, a.step, a.prop) = reg
      BY <2>2, <3>1 DEF Reflects
    <3>4. PICK reg \in c.slots[a.slot] : Covers(reg, a.step, a.prop)
      BY <2>1, <3>3, ReflectsIsCovers
    <3>5. PICK r \in h.slots[a.slot] : Covers(r, a.step, a.prop)
      BY <2>1, <3>2, <3>4 DEF SlotGrew
    <3>6. RecordISR(r, a.step, a.prop) = r
      BY SMT, <2>1, <3>5, ReflectsIsCovers
    <3>7. h.leaders[a.slot] = {a.leader}
      BY <3>2, <3>3 DEF SlotGrew
    <3> QED BY SMT, <1>1, <2>1, <2>2, <3>5, <3>6, <3>7 DEF Reflects
  <2> QED BY SMT, <1>1, <2>1, <2>3, <2>4
<1>3. ASSUME NEW d \in k.decisions
      PROVE  d.slot <= h.floor \/ \E e \in h.decisions[d.slot] : e.value = d.value
  <2>1. d.slot \in Slot /\ d.slot \in Nat
    BY AckedFields
  <2>2. CASE d.slot > h.floor
    <3>1. SlotGrew(c, h, d.slot) /\ ~(d.slot <= c.floor)
      BY SMT, <1>1, <2>1, <2>2 DEF Grew
    <3>2. PICK e \in c.decisions[d.slot] : e.value = d.value
      BY <3>1 DEF Shows
    <3> QED BY <3>1, <3>2 DEF SlotGrew
  <2> QED BY SMT, <1>1, <2>1, <2>2
<1>4. k.floor <= h.floor /\ k.epoch <= h.cluster.epoch
  BY SMT, <1>1, AckedFields DEF Shows
<1> QED BY <1>2, <1>3, <1>4 DEF Shows

\* Without a change of configuration the anchors stay.
LEMMA AnchoredGrown ==
  ASSUME NEW k \in Acked, NEW c, NEW h, Sound(c), Sound(h), Anchored(k, c), Grew(c, h),
         h.cluster = c.cluster
  PROVE  Anchored(k, h)
<1>1. c.floor \in Nat /\ h.floor \in Nat /\ c.floor <= h.floor
  BY CoreFields DEF Sound, Grew
<1>2. \A a \in k.calls : a.slot \in Nat
  BY AckedFields
<1> QED BY SMT, <1>1, <1>2 DEF Anchored

\* What a core keeps of the acknowledged calls, one that grew keeps.
LEMMA KeptGrown ==
  ASSUME NEW k \in Acked, NEW c, NEW h, Kept(k, c), Sound(h), Grew(c, h), h.cluster = c.cluster
  PROVE  Kept(k, h)
BY ShowsGrown, AnchoredGrown DEF Kept

------------------------------------------------------------------------------
(* The operations, with what they acknowledge *)

\* The decisions a call carries are among what the core has taken note of.
LEMMA OutcomesShown ==
  ASSUME NEW ds \in Seq(Decided), NEW c, \A i \in 1 .. Len(ds) : Tells(c, ds[i])
  PROVE  /\ Outcomes(ds) \subseteq [slot : Slot, value : {d.value : d \in Decided}]
         /\ \A o \in Outcomes(ds) :
               o.slot <= c.floor \/ \E e \in c.decisions[o.slot] : e.value = o.value
<1>1. \A o \in Outcomes(ds) : \E i \in 1 .. Len(ds) :
         o = [slot |-> ds[i].slot, value |-> ds[i].value]
  BY SMT DEF Outcomes, Range
<1>2. \A i \in 1 .. Len(ds) : ds[i] \in Decided /\ ds[i].slot \in Slot
  BY SMT, RequestsAssumption DEF Slot
<1>3. Outcomes(ds) \subseteq [slot : Slot, value : {d.value : d \in Decided}]
  BY SMT, <1>1, <1>2
<1> QED BY SMT, <1>1, <1>3 DEF Tells

\* More acknowledged decisions, of which the core has taken note.
LEMMA MoreDecisions ==
  ASSUME NEW k \in Acked, NEW c, Kept(k, c), NEW ds \in Seq(Decided),
         \A i \in 1 .. Len(ds) : Tells(c, ds[i]),
         NEW k2, k2 = [k EXCEPT !.decisions = @ \union Outcomes(ds)]
  PROVE  k2 \in Acked /\ Kept(k2, c) /\ k2.calls = k.calls
<1>1. k2 = [calls |-> k.calls, decisions |-> k.decisions \union Outcomes(ds),
            floor |-> k.floor, epoch |-> k.epoch]
  <2>1. k = [calls |-> k.calls, decisions |-> k.decisions, floor |-> k.floor, epoch |-> k.epoch]
    BY AckedFields
  <2> QED BY <2>1
<1>2. /\ k2.calls = k.calls /\ k2.decisions = k.decisions \union Outcomes(ds)
      /\ k2.floor = k.floor /\ k2.epoch = k.epoch
  BY <1>1
<1>3. k2 \in Acked
  BY ZenonT(40), <1>1, OutcomesShown, AckedFields DEF Acked
<1>4. Shows(k2, c)
  <2>1. \A o \in Outcomes(ds) :
          o.slot <= c.floor \/ \E e \in c.decisions[o.slot] : e.value = o.value
    BY SMT, OutcomesShown
  <2> QED BY <1>2, <2>1 DEF Kept, Shows
<1>5. Anchored(k2, c)
  BY <1>2 DEF Kept, Anchored
<1> QED BY <1>2, <1>3, <1>4, <1>5 DEF Kept

\* One more acknowledged call, which the core reflects, in its own epoch.
LEMMA OneMoreCall ==
  ASSUME NEW k \in Acked, NEW c, Kept(k, c), OneLeader(k), NoOverlap(k),
         NEW call \in Call, call.epoch = c.cluster.epoch, call.slot > c.floor,
         c.leaders[call.slot] = {call.leader},
         \E reg \in c.slots[call.slot] : Covers(reg, call.step, call.prop),
         NEW k2, k2 = [k EXCEPT !.calls = @ \union {call}]
  PROVE  k2 \in Acked /\ Kept(k2, c) /\ OneLeader(k2) /\ NoOverlap(k2) /\ k2.decisions = k.decisions
<1>1. k2 = [calls |-> k.calls \union {call}, decisions |-> k.decisions,
            floor |-> k.floor, epoch |-> k.epoch]
  <2>1. k = [calls |-> k.calls, decisions |-> k.decisions, floor |-> k.floor, epoch |-> k.epoch]
    BY AckedFields
  <2> QED BY <2>1
<1>2. /\ k2.calls = k.calls \union {call} /\ k2.decisions = k.decisions
      /\ k2.floor = k.floor /\ k2.epoch = k.epoch
  BY <1>1
<1>3. k2 \in Acked
  BY SMT, <1>1, AckedFields DEF Acked
<1>4. /\ call.slot \in Slot /\ call.slot \in Nat /\ call.step \in Nat
      /\ call.prop \in Proposals /\ call.epoch \in Nat
      /\ c.floor \in Nat /\ c.cluster.epoch \in Nat
  BY <1>2, <1>3, AckedFields, CoreFields DEF Kept, Sound
<1>5. Reflects(c, call) /\ call.epoch <= c.cluster.epoch
  <2>1. \E reg \in c.slots[call.slot] : RecordISR(reg, call.step, call.prop) = reg
    BY SMT, <1>4, ReflectsIsCovers DEF Kept
  <2> QED BY SMT, <1>4, <2>1 DEF Reflects
<1>6. Shows(k2, c)
  BY <1>2, <1>5 DEF Kept, Shows
<1>7. Anchored(k2, c)
  <2>1. ASSUME NEW cl \in Range(Epochs), call.epoch < cl.epoch, cl.epoch <= c.cluster.epoch
        PROVE  FALSE
    BY SMT, <1>4, <2>1, FirstEpoch
  <2> QED BY <1>2, <2>1 DEF Kept, Anchored
<1>8. ASSUME NEW a \in k.calls, a.slot = call.slot PROVE a.leader = call.leader
  <2>1. Reflects(c, a)
    BY DEF Kept, Shows
  <2> QED BY SMT, <1>4, <1>8, <2>1 DEF Reflects
<1>9. OneLeader(k2)
  BY SMT, <1>2, <1>8 DEF OneLeader
<1>10. ASSUME NEW a \in k2.calls, NEW b \in k2.calls, a.slot = b.slot,
              NEW cl \in Range(Epochs), a.epoch < cl.epoch, cl.epoch <= b.epoch
       PROVE  \E d \in Decided : d.value = CommandOf[cl] /\ a.slot <= d.slot
  <2>1. /\ a.epoch \in Nat /\ b.epoch \in Nat /\ cl.epoch \in Nat
        /\ b.epoch <= c.cluster.epoch
    BY <1>3, <1>6, AckedFields, FirstEpoch DEF Shows
  <2>2. CASE a = call
    BY SMT, <1>10, <1>4, <2>1, <2>2
  <2>3. CASE b = call /\ a # call
    <3>1. a \in k.calls /\ a.slot > c.floor /\ cl.epoch <= c.cluster.epoch
      BY <1>2, <1>4, <1>10, <2>1, <2>3
    <3> QED BY <1>10, <3>1 DEF Kept, Anchored
  <2>4. CASE a # call /\ b # call
    <3>1. a \in k.calls /\ b \in k.calls
      BY <1>2, <2>4
    <3> QED BY <1>10, <3>1 DEF NoOverlap
  <2> QED BY <2>2, <2>3, <2>4
<1>11. NoOverlap(k2)
  BY SMT, <1>10 DEF NoOverlap
<1> QED BY <1>2, <1>3, <1>6, <1>7, <1>9, <1>11 DEF Kept

\* What mutate needs of an operation that takes core c to h and whose reply
\* makes the history k2 of k: both cores that mutate may leave, the new one
\* and the one rolled back, keep what was acknowledged.
Transaction(k, c, h, k2) ==
  /\ Kept(k, h) /\ Kept(k, RollBack(h, c))
  /\ k2 \in Acked /\ OneLeader(k2) /\ NoOverlap(k2) /\ Kept(k2, h)

\* Rolling back a change that left the configuration alone is undoing it.
LEMMA RollBackSame ==
  ASSUME NEW c \in Core, NEW h, h.cluster = c.cluster
  PROVE  RollBack(h, c) = c
<1>1. c = [cluster |-> c.cluster, slots |-> c.slots, leaders |-> c.leaders,
           decisions |-> c.decisions, floor |-> c.floor]
  BY CoreFields
<1> QED BY <1>1 DEF RollBack

\* The call of a request, and the history its acknowledgement makes.
CallOf(c, q) ==
  [slot |-> q.slot, leader |-> q.leader, step |-> q.step, prop |-> q.prop,
   epoch |-> c.cluster.epoch]

WithCall(k, c, q) ==
  [k EXCEPT !.calls = @ \union {CallOf(c, q)}, !.decisions = @ \union Outcomes(q.known)]

\* A record request is a transaction that acknowledges its call.
LEMMA RecordTransaction ==
  ASSUME NEW k \in Acked, OneLeader(k), NoOverlap(k), NEW c, Kept(k, c),
         NEW q \in Requests, NEW h \in Record(c, q)
  PROVE  /\ Transaction(k, c, h, WithCall(k, c, q)) /\ CallOf(c, q).slot > k.floor
         /\ WithCall(k, c, q).calls = k.calls \union {CallOf(c, q)}
<1> DEFINE call == CallOf(c, q)
           k2 == WithCall(k, c, q)
<1>0. /\ call = [slot |-> q.slot, leader |-> q.leader, step |-> q.step, prop |-> q.prop,
                 epoch |-> c.cluster.epoch]
      /\ k2 = [k EXCEPT !.calls = @ \union {call}, !.decisions = @ \union Outcomes(q.known)]
  BY DEF CallOf, WithCall
<1> HIDE DEF call, k2
<1>1. /\ Sound(h) /\ Grew(c, h) /\ h.cluster = c.cluster /\ h.floor = c.floor
      /\ q.slot \in Slot /\ q.step \in RoundOnePhaseZero .. MaxStep /\ q.slot > h.floor
      /\ h.leaders[q.slot] = {q.leader}
      /\ \E reg \in h.slots[q.slot] : Covers(reg, q.step, q.prop)
      /\ \A i \in 1 .. Len(q.known) : Tells(h, q.known[i])
  BY SMT, RecordKeeps DEF Kept
<1>2. Kept(k, h)
  BY <1>1, KeptGrown
<1>3. c \in Core /\ c.cluster.epoch \in Nat /\ c.floor \in Nat /\ q.slot \in Nat
  BY <1>1, CoreFields, KeyNumbers DEF Kept, Sound
<1>4. call \in Call
  BY <1>0, <1>1, <1>3 DEF Call, Proposals
<1> DEFINE k1 == [k EXCEPT !.calls = @ \union {call}]
<1>5. /\ k1 \in Acked /\ Kept(k1, h) /\ OneLeader(k1) /\ NoOverlap(k1)
      /\ k1.decisions = k.decisions
  BY SMT, <1>0, <1>1, <1>2, <1>4, OneMoreCall
<1>6. q.known \in Seq(Decided)
  BY RequestsAssumption
<1>7. k2 = [k1 EXCEPT !.decisions = @ \union Outcomes(q.known)] /\ k1.calls = k.calls \union {call}
  <2>1. k = [calls |-> k.calls, decisions |-> k.decisions, floor |-> k.floor, epoch |-> k.epoch]
    BY AckedFields
  <2>2. k2 = [calls |-> k.calls \union {call}, decisions |-> k.decisions \union Outcomes(q.known),
              floor |-> k.floor, epoch |-> k.epoch]
    BY <1>0, <2>1
  <2>3. k1 = [calls |-> k.calls \union {call}, decisions |-> k.decisions,
              floor |-> k.floor, epoch |-> k.epoch]
    BY SMT, <2>1
  <2> HIDE DEF k1
  <2> QED BY SMT, <2>2, <2>3
<1> HIDE DEF k1
<1>8. k2 \in Acked /\ Kept(k2, h) /\ k2.calls = k1.calls
  <2>1. \A i \in 1 .. Len(q.known) : Tells(h, q.known[i])
    BY <1>1
  <2>2. k1 \in Acked /\ Kept(k1, h)
    BY <1>5
  <2>3. k2 = [k1 EXCEPT !.decisions = @ \union Outcomes(q.known)]
    BY <1>7
  <2> QED BY ONLY <2>1, <2>2, <2>3, <1>6, MoreDecisions
<1>9. OneLeader(k2) /\ NoOverlap(k2)
  BY <1>5, <1>8 DEF OneLeader, NoOverlap
<1>10. Kept(k, RollBack(h, c))
  BY <1>1, <1>3, RollBackSame
<1>11. call.slot > k.floor
  <2>1. k.floor <= c.floor /\ k.floor \in Nat
    BY AckedFields DEF Kept, Shows
  <2> QED BY SMT, <1>0, <1>1, <1>3, <2>1
<1>12. Transaction(k, c, h, k2) /\ call.slot > k.floor /\ k2.calls = k.calls \union {call}
  BY <1>2, <1>7, <1>8, <1>9, <1>10, <1>11 DEF Transaction
<1> QED BY <1>12 DEF call, k2

\* Informing of decisions is a transaction that acknowledges them.
LEMMA InformTransaction ==
  ASSUME NEW k \in Acked, OneLeader(k), NoOverlap(k), NEW c, Kept(k, c),
         NEW ds \in Announcements, NEW h \in InformDecisions(c, ds),
         NEW k2, k2 = [k EXCEPT !.decisions = @ \union Outcomes(ds)]
  PROVE  Transaction(k, c, h, k2) /\ k2.calls = k.calls
<1>1. ds \in Seq(Decided) /\ c \in Core
  BY RequestsAssumption DEF Kept, Sound
<1>2. Sound(h) /\ Informed(c, h) /\ \A i \in 1 .. Len(ds) : Tells(h, ds[i])
  BY <1>1, InformAll DEF Kept
<1>3. Kept(k, h) /\ h.cluster = c.cluster
  BY ZenonT(40), <1>1, <1>2, InformedGrew, KeptGrown DEF Informed
<1>4. k2 \in Acked /\ Kept(k2, h) /\ k2.calls = k.calls
  BY SMTT(20), <1>1, <1>2, <1>3, MoreDecisions
<1>5. OneLeader(k2) /\ NoOverlap(k2)
  BY SMT, <1>4 DEF OneLeader, NoOverlap
<1> QED BY <1>1, <1>3, <1>4, <1>5, RollBackSame DEF Transaction

\* Pruning is a transaction that raises the acknowledged floor.
LEMMA PruneTransaction ==
  ASSUME NEW k \in Acked, OneLeader(k), NoOverlap(k), NEW c, Kept(k, c),
         NEW slot \in Slot, NEW h, h = PruneThrough(c, slot),
         NEW k2, k2 = [k EXCEPT !.floor = IF slot > @ THEN slot ELSE @]
  PROVE  Transaction(k, c, h, k2) /\ k2.calls = k.calls
<1>1. Sound(h) /\ Grew(c, h) /\ slot <= h.floor /\ h.cluster = c.cluster
  BY PruneKeeps DEF Kept
<1>2. Kept(k, h) /\ c \in Core
  BY <1>1, KeptGrown DEF Kept, Sound
<1>3. k2 = [calls |-> k.calls, decisions |-> k.decisions,
            floor |-> IF slot > k.floor THEN slot ELSE k.floor, epoch |-> k.epoch]
  <2>1. k = [calls |-> k.calls, decisions |-> k.decisions, floor |-> k.floor, epoch |-> k.epoch]
    BY AckedFields
  <2> QED BY <2>1
<1>4. /\ k2.calls = k.calls /\ k2.decisions = k.decisions /\ k2.epoch = k.epoch
      /\ k2.floor = k.floor \/ k2.floor = slot
  BY <1>3
<1>5. k2 \in Acked
  <2>1. slot \in 0 .. MaxSlot /\ k.floor \in 0 .. MaxSlot
    BY SMT, KeyNumbers, AckedFields DEF Slot
  <2> QED BY <1>3, <2>1, AckedFields DEF Acked
<1>6. Kept(k2, h)
  BY <1>1, <1>2, <1>4 DEF Kept, Shows, Anchored
<1>7. OneLeader(k2) /\ NoOverlap(k2)
  BY SMT, <1>4 DEF OneLeader, NoOverlap
<1> QED BY <1>1, <1>2, <1>4, <1>5, <1>6, <1>7, RollBackSame DEF Transaction

\* install_membership: every slot that was answered, and not pruned, is at or
\* before the anchor, which is the decision that committed the new epoch.
LEMMA InstallTransaction ==
  ASSUME NEW k \in Acked, OneLeader(k), NoOverlap(k), NEW c, Kept(k, c),
         NEW anchor \in Decided, NEW next \in Range(Epochs),
         NEW h \in InstallMembership(c, anchor, next),
         NEW k2, k2 = [k EXCEPT !.epoch = next.epoch]
  PROVE  Transaction(k, c, h, k2) /\ k2.calls = k.calls
<1>1. /\ h = [c EXCEPT !.cluster = next] /\ anchor.value = CommandOf[next]
      /\ c.cluster # next =>
          /\ IsSuccessorOf(next, c.cluster)
          /\ \A s \in Occupied(c.slots) \union Occupied(c.decisions) : s <= anchor.slot
  BY DEF InstallMembership
<1>2. /\ c \in Core /\ Sound(c) /\ c.cluster \in Range(Epochs) /\ c.cluster.epoch \in Nat
      /\ next.epoch \in Nat /\ c.floor \in Nat
  BY CoreFields, FirstEpoch DEF Kept, Sound
<1>3. c.cluster # next => next.epoch = c.cluster.epoch + 1
  BY <1>1 DEF IsSuccessorOf
<1>4. c.cluster.epoch <= next.epoch
  BY SMT, <1>2, <1>3
<1>5. /\ Sound(h) /\ Grew(c, h)
      /\ h.cluster = next /\ h.slots = c.slots /\ h.leaders = c.leaders
      /\ h.decisions = c.decisions /\ h.floor = c.floor
  BY SMT, <1>1, <1>2, <1>4, MoveKeeps
<1>6. Shows(k, h)
  BY <1>2, <1>5, ShowsGrown DEF Kept
<1>7. Anchored(k, h)
  <2> SUFFICES ASSUME NEW a \in k.calls, a.slot > h.floor, NEW cl \in Range(Epochs),
                      a.epoch < cl.epoch, cl.epoch <= h.cluster.epoch
               PROVE  \E d \in Decided : d.value = CommandOf[cl] /\ a.slot <= d.slot
    BY DEF Anchored
  <2>1. /\ a.slot \in Slot /\ a.slot \in Nat /\ a.epoch \in Nat /\ cl.epoch \in Nat
        /\ a.slot > c.floor
    BY <1>5, AckedFields, FirstEpoch
  <2>2. CASE cl.epoch <= c.cluster.epoch
    BY <2>1, <2>2 DEF Kept, Anchored
  <2>3. CASE cl.epoch > c.cluster.epoch
    <3>1. c.cluster # next /\ cl.epoch = next.epoch
      BY SMT, <1>2, <1>3, <1>5, <2>1, <2>3
    <3>2. cl = next
      BY <3>1, EpochNames
    <3>3. c.leaders[a.slot] # {}
      <4>1. Reflects(c, a)
        BY DEF Kept, Shows
      <4> QED BY SMT, <1>2, <2>1, <4>1 DEF Reflects
    <3>4. a.slot \in Occupied(c.slots)
      BY <1>2, <2>1, <3>3 DEF Sound, SlotSound, Occupied
    <3> QED BY <1>1, <3>1, <3>2, <3>4
  <2> QED BY SMT, <1>2, <2>1, <2>2, <2>3
<1>8. k2 = [calls |-> k.calls, decisions |-> k.decisions, floor |-> k.floor, epoch |-> next.epoch]
  <2>1. k = [calls |-> k.calls, decisions |-> k.decisions, floor |-> k.floor, epoch |-> k.epoch]
    BY AckedFields
  <2> QED BY <2>1
<1>9. /\ k2.calls = k.calls /\ k2.decisions = k.decisions /\ k2.floor = k.floor
      /\ k2.epoch = next.epoch
  BY <1>8
<1>10. k2 \in Acked
  BY <1>2, <1>8, AckedFields DEF Acked
<1>11. Kept(k, h) /\ Kept(k2, h)
  BY SMT, <1>2, <1>5, <1>6, <1>7, <1>9 DEF Kept, Shows, Anchored
<1>12. OneLeader(k2) /\ NoOverlap(k2)
  BY SMT, <1>9 DEF OneLeader, NoOverlap
<1>13. RollBack(h, c) = h
  BY <1>1, <1>5 DEF RollBack
<1> QED BY <1>9, <1>10, <1>11, <1>12, <1>13 DEF Transaction

------------------------------------------------------------------------------
(* The steps of the recorder *)

\* A recorder that was just created is sound, and shows all that was
\* acknowledged when nothing was.
LEMMA NewCoreKept ==
  /\ Sound(NewCore(Epochs[1]))
  /\ NothingAcked \in Acked /\ OneLeader(NothingAcked) /\ NoOverlap(NothingAcked)
  /\ Kept(NothingAcked, NewCore(Epochs[1]))
<1> DEFINE c == NewCore(Epochs[1])
<1>1. /\ c.cluster = Epochs[1] /\ c.floor = 0
      /\ \A s \in Slot : c.slots[s] = {} /\ c.leaders[s] = {} /\ c.decisions[s] = {}
  BY DEF NewCore
<1>2. c \in Core
  <2>1. [s \in Slot |-> {}] \in [Slot -> Option(Register)]
    BY DEF Option
  <2>2. [s \in Slot |-> {}] \in [Slot -> Option({q.leader : q \in Requests})]
    BY DEF Option
  <2>3. [s \in Slot |-> {}] \in [Slot -> Option(Decided)]
    BY DEF Option
  <2>4. 0 \in 0 .. MaxSlot
    BY SMT, LimitsAssumption
  <2> QED BY <2>1, <2>2, <2>3, <2>4, FirstEpoch DEF NewCore, Core
<1>3. Occupied(c.slots) = {} /\ Occupied(c.decisions) = {}
  BY <1>1 DEF Occupied
<1>4. Cardinality({}) = 0
  BY FS_EmptySet
<1>5. \A s \in Slot : SlotSound(c, s)
  BY <1>1 DEF SlotSound
<1>6. Sound(c)
  BY SMT, <1>2, <1>3, <1>4, <1>5, LimitsAssumption DEF Sound
<1>7. /\ NothingAcked.calls = {} /\ NothingAcked.decisions = {} /\ NothingAcked.floor = 0
      /\ NothingAcked.epoch = Epochs[1].epoch
  BY DEF NothingAcked
<1>8. NothingAcked \in Acked
  <2>1. 0 \in 0 .. MaxSlot
    BY SMT, LimitsAssumption
  <2> QED BY <2>1, FirstEpoch DEF NothingAcked, Acked
<1>9. OneLeader(NothingAcked) /\ NoOverlap(NothingAcked) /\ Anchored(NothingAcked, c)
  BY <1>7 DEF OneLeader, NoOverlap, Anchored
<1> HIDE DEF c
<1>10. Shows(NothingAcked, c)
  BY SMT, <1>1, <1>7, FirstEpoch DEF Shows
<1> QED BY <1>6, <1>8, <1>9, <1>10 DEF Kept, c

\* mutate, whatever becomes of the save.
LEMMA MutateKeeps ==
  ASSUME IInv, NEW afters, NEW k2, Mutate(afters, k2),
         up => \A h \in afters : Transaction(acked, core, h, k2)
  PROVE  IInv' /\ acked' \in {acked, k2}
<1>1. PICK h \in afters : Acknowledge(h, k2) \/ SaveFails(h) \/ CrashInSave(h)
  BY DEF Mutate
<1>2. up = TRUE /\ Transaction(acked, core, h, k2)
  BY DEF Mutate, IInv
<1>3. CASE Acknowledge(h, k2)
  <2>1. /\ core' = h /\ disk' = {h} /\ acked' = k2 /\ up' = TRUE
    BY <1>2, <1>3 DEF Acknowledge
  <2>2. /\ k2 \in Acked /\ OneLeader(k2) /\ NoOverlap(k2) /\ Kept(k2, h)
    BY <1>2 DEF Transaction
  <2>3. acked' \in Acked /\ OneLeader(acked') /\ NoOverlap(acked') /\ Kept(acked', core')
    BY <2>1, <2>2
  <2> QED BY <2>1, <2>2, <2>3 DEF IInv
<1>4. ASSUME acked' = acked, disk' \in {disk, {h}}
      PROVE  /\ acked' \in Acked /\ OneLeader(acked') /\ NoOverlap(acked')
             /\ disk' = {} => acked' = NothingAcked
             /\ disk' = {} \/ \E snapshot : disk' = {snapshot}
             /\ \A snapshot \in disk' : Kept(acked', snapshot)
  <2>1. acked' \in Acked /\ OneLeader(acked') /\ NoOverlap(acked')
    BY <1>4 DEF IInv
  <2>2. CASE disk' = disk
    BY <1>4, <2>1, <2>2 DEF IInv
  <2>3. CASE disk' = {h}
    <3>1. Kept(acked', h)
      BY <1>2, <1>4 DEF Transaction
    <3> QED BY <2>1, <2>3, <3>1
  <2> QED BY <1>4, <2>2, <2>3
<1>5. CASE SaveFails(h)
  <2>1. /\ core' = RollBack(h, core) /\ disk' \in {disk, {h}} /\ acked' = acked /\ up' = TRUE
    BY <1>2, <1>5 DEF SaveFails
  <2>2. Kept(acked', core')
    BY <1>2, <2>1 DEF Transaction
  <2> QED BY <1>4, <2>1, <2>2 DEF IInv
<1>6. CASE CrashInSave(h)
  <2>1. /\ core' = NewCore(Epochs[1]) /\ disk' \in {disk, {h}} /\ acked' = acked /\ up' = FALSE
    BY <1>6 DEF CrashInSave
  <2> QED BY <1>4, <2>1 DEF IInv
<1>7. acked' \in {acked, k2}
  BY <1>1 DEF Acknowledge, SaveFails, CrashInSave
<1> QED BY <1>1, <1>3, <1>5, <1>6, <1>7

\* Every step keeps the invariant, and acknowledges no call at or below a floor
\* that was acknowledged.
LEMMA IInvStep ==
  ASSUME IInv, [Next]_vars
  PROVE  IInv' /\ \A call \in acked'.calls \ acked.calls : call.slot > acked.floor
<1>0. /\ acked \in Acked /\ OneLeader(acked) /\ NoOverlap(acked)
      /\ up => Kept(acked, core)
  BY DEF IInv
<1>1. ASSUME NEW q \in Requests, RecordRequest(q)
      PROVE  IInv' /\ \A a \in acked'.calls \ acked.calls : a.slot > acked.floor
  <2> DEFINE k2 == WithCall(acked, core, q)
  <2>1. Mutate(Record(core, q), k2)
    BY <1>1 DEF RecordRequest, WithCall, CallOf
  <2>2. ASSUME up, NEW h \in Record(core, q)
        PROVE  /\ Transaction(acked, core, h, k2) /\ CallOf(core, q).slot > acked.floor
               /\ k2.calls = acked.calls \union {CallOf(core, q)}
    BY <1>0, <2>2, RecordTransaction
  <2>3. up /\ \E h : h \in Record(core, q)
    BY <2>1 DEF Mutate
  <2> HIDE DEF k2
  <2>4. IInv' /\ acked' \in {acked, k2}
    BY <2>1, <2>2, MutateKeeps
  <2>5. CallOf(core, q).slot > acked.floor /\ k2.calls = acked.calls \union {CallOf(core, q)}
    BY <2>2, <2>3
  <2> QED BY <2>4, <2>5
<1>2. ASSUME NEW ds \in Announcements, Inform(ds)
      PROVE  IInv' /\ acked'.calls = acked.calls
  <2> DEFINE k2 == [acked EXCEPT !.decisions = @ \union Outcomes(ds)]
  <2>1. Mutate(InformDecisions(core, ds), k2)
    BY <1>2 DEF Inform
  <2>2. ASSUME up, NEW h \in InformDecisions(core, ds)
        PROVE  Transaction(acked, core, h, k2) /\ k2.calls = acked.calls
    BY <1>0, <2>2, InformTransaction
  <2>3. up /\ \E h : h \in InformDecisions(core, ds)
    BY <2>1 DEF Mutate
  <2> HIDE DEF k2
  <2>4. IInv' /\ acked' \in {acked, k2}
    BY <2>1, <2>2, MutateKeeps
  <2> QED BY <2>2, <2>3, <2>4
<1>3. ASSUME NEW slot \in Slot, Prune(slot)
      PROVE  IInv' /\ acked'.calls = acked.calls
  <2> DEFINE k2 == [acked EXCEPT !.floor = IF slot > @ THEN slot ELSE @]
  <2>1. Mutate({PruneThrough(core, slot)}, k2) /\ up
    BY <1>3 DEF Prune, Mutate
  <2>2. Transaction(acked, core, PruneThrough(core, slot), k2) /\ k2.calls = acked.calls
    BY <1>0, <2>1, PruneTransaction
  <2> HIDE DEF k2
  <2>3. IInv' /\ acked' \in {acked, k2}
    BY <2>1, <2>2, MutateKeeps
  <2> QED BY <2>2, <2>3
<1>4. ASSUME NEW anchor \in Decided, NEW next \in Range(Epochs), Install(anchor, next)
      PROVE  IInv' /\ acked'.calls = acked.calls
  <2> DEFINE k2 == [acked EXCEPT !.epoch = next.epoch]
  <2>1. Mutate(InstallMembership(core, anchor, next), k2)
    BY <1>4 DEF Install
  <2>2. ASSUME up, NEW h \in InstallMembership(core, anchor, next)
        PROVE  Transaction(acked, core, h, k2) /\ k2.calls = acked.calls
    BY SMT, <1>0, <2>2, InstallTransaction
  <2>3. up /\ \E h : h \in InstallMembership(core, anchor, next)
    BY <2>1 DEF Mutate
  <2> HIDE DEF k2
  <2>4. IInv' /\ acked' \in {acked, k2}
    BY <2>1, <2>2, MutateKeeps
  <2> QED BY <2>2, <2>3, <2>4
<1>5. CASE Crash
  BY <1>5 DEF Crash, IInv
<1>6. CASE Restart
  <2>1. up' = TRUE /\ disk' = disk /\ acked' = acked
    BY <1>6 DEF Restart
  <2>2. Kept(acked', core')
    <3>1. CASE disk = {} /\ core' = NewCore(Epochs[1])
      <4>1. acked' = NothingAcked
        BY <2>1, <3>1 DEF IInv
      <4> QED BY <3>1, <4>1, NewCoreKept
    <3>2. CASE \E snapshot \in disk : core' = snapshot
      BY <2>1, <3>2 DEF IInv
    <3> QED BY <1>6, <3>1, <3>2 DEF Restart
  <2> QED BY <2>1, <2>2 DEF IInv
<1>7. CASE UNCHANGED vars
  BY <1>7 DEF vars, IInv
<1>8. (Crash \/ Restart \/ UNCHANGED vars) => acked' = acked
  BY DEF Crash, Restart, vars
<1> QED BY <1>1, <1>2, <1>3, <1>4, <1>5, <1>6, <1>7, <1>8 DEF Next

\* The inductive invariant holds initially.
LEMMA IInvInit ==
  ASSUME Init
  PROVE  IInv
<1>1. acked = NothingAcked /\ core = NewCore(Epochs[1]) /\ up = TRUE /\ disk = {}
  BY DEF Init, NothingAcked
<1> QED BY <1>1, NewCoreKept DEF IInv

\* The inductive invariant.
THEOREM Invariance == Spec => []IInv
<1>1. IInv /\ [Next]_vars => IInv'
  BY IInvStep
<1> QED BY <1>1, IInvInit, PTL DEF Spec

------------------------------------------------------------------------------
(* The properties *)

\* The cores in memory and in the file have their types and stay within the
\* limits of RecorderLimits.
THEOREM TypeCorrect == Spec => []TypeOK
<1>1. ASSUME NEW c, Sound(c) PROVE CoreOK(c)
  BY <1>1, CoreFields DEF Sound, CoreOK
<1>2. IInv => TypeOK
  <2> SUFFICES ASSUME IInv PROVE TypeOK
    OBVIOUS
  <2>1. Sound(core)
    BY NewCoreKept DEF IInv, Kept
  <2>2. disk = {} \/ \E snapshot \in disk : disk = {snapshot} /\ CoreOK(snapshot)
    BY <1>1 DEF IInv, Kept
  <2> QED BY <1>1, <2>1, <2>2 DEF IInv, TypeOK
<1> QED BY <1>2, Invariance, PTL

\* Whatever the recorder has acknowledged (record calls, decisions, a pruning
\* floor, an epoch) its file reflects, and while it runs its memory, after any
\* failed saves, crashes and restarts.
THEOREM AcknowledgedSurvives == Spec => []AcknowledgedIsDurable
<1>1. ASSUME NEW c, Kept(acked, c) PROVE Holds(c)
  BY <1>1 DEF Kept, Shows, Holds
<1>2. IInv => AcknowledgedIsDurable
  BY <1>1 DEF IInv, AcknowledgedIsDurable, NothingAcked
<1> QED BY <1>2, Invariance, PTL

\* No slot is answered under two round-one leaders, also across restarts.
THEOREM LeaderIsBound == Spec => []OneLeaderPerSlot
<1>1. IInv => OneLeaderPerSlot
  BY DEF IInv, OneLeader, OneLeaderPerSlot
<1> QED BY <1>1, Invariance, PTL

\* A slot is answered in two epochs only when it is at or before the slots that
\* committed the epochs in between.
THEOREM EpochsAreFenced == Spec => []EpochsDoNotOverlap
<1>1. IInv => EpochsDoNotOverlap
  BY DEF IInv, NoOverlap, EpochsDoNotOverlap
<1> QED BY <1>1, Invariance, PTL

\* No record call is acknowledged for a slot at or below an acknowledged floor.
THEOREM PrunedIsSilent == Spec => PrunedSlotsAreSilent
<1>1. IInv /\ [Next]_vars => [\A call \in acked'.calls \ acked.calls : call.slot > acked.floor]_acked
  BY IInvStep
<1> QED BY <1>1, Invariance, PTL DEF Spec, PrunedSlotsAreSilent

\* The file passes the tests of restore in the epoch it names, unless it names
\* a replica that a later epoch has removed.
THEOREM FileRestores == Spec => []SnapshotsRestore
<1>1. ASSUME NEW c, Sound(c), Named(c) \intersect Removed(c) = {}
      PROVE  Restorable(c, c.cluster)
  <2> DEFINE At(s) ==
        (UNION c.leaders[s]) \union {d.proposer : d \in c.decisions[s]}
          \union (UNION {{x.proposer : x \in Held(reg)} : reg \in c.slots[s]})
  <2>0. Named(c) = UNION {At(s) : s \in Slot}
    BY DEF Named, Held
  <2> HIDE DEF At
  <2>1. \A s \in Slot : \A r \in Everyone : r \in At(s) => Known(c, r)
    <3>1. Removed(c) = Everyone \ c.cluster.members
      BY DEF Removed, Everyone
    <3> QED BY <1>1, <2>0, <3>1 DEF Known
  <2>2. ASSUME NEW s \in Slot
        PROVE  /\ \A d \in c.decisions[s] : d.slot = s /\ ValidDecision(c, d)
               /\ \A leader \in UNION c.leaders[s] : Known(c, leader)
               /\ \A reg \in c.slots[s] : ValidRegister(c, reg)
    <3>1. SlotSound(c, s)
      BY <1>1 DEF Sound
    <3>2. ASSUME NEW d \in c.decisions[s] PROVE d.slot = s /\ ValidDecision(c, d)
      <4>1. d.proposer \in At(s)
        BY DEF At
      <4> QED BY <2>1, <3>1, <4>1 DEF SlotSound, ValidDecision
    <3>3. ASSUME NEW leader \in UNION c.leaders[s] PROVE Known(c, leader)
      <4>1. leader \in At(s)
        BY DEF At
      <4> QED BY <2>1, <3>1, <4>1 DEF SlotSound
    <3>4. ASSUME NEW reg \in c.slots[s] PROVE ValidRegister(c, reg)
      <4>1. /\ Filled(reg) /\ \A x \in Held(reg) : x.proposer \in Everyone
        BY <3>1 DEF SlotSound
      <4>2. \A x \in Held(reg) : x.proposer \in At(s)
        BY SMT DEF At
      <4>3. /\ reg.step \in RoundOnePhaseZero .. MaxStep /\ reg.first # {} /\ reg.current # {}
        BY <4>1, RegisterFields DEF Filled
      <4> QED BY <2>1, <4>1, <4>2, <4>3 DEF ValidRegister, Held
    <3> QED BY <3>2, <3>3, <3>4
  <2>3. \A s \in Occupied(c.decisions) \union Occupied(c.slots) : s > c.floor
    BY <1>1 DEF Sound, SlotSound, Occupied
  <2>4. Occupied(c.leaders) = Occupied(c.slots)
    BY <1>1 DEF Sound, SlotSound, Occupied
  <2> QED BY <1>1, <2>2, <2>3, <2>4 DEF Restorable, Sound
<1>2. IInv => SnapshotsRestore
  BY <1>1 DEF IInv, Kept, SnapshotsRestore
<1> QED BY <1>2, Invariance, PTL

------------------------------------------------------------------------------
(* Quorums *)

\* Sets of replicas are finite, and their sizes are numbers.
LEMMA FiniteMembers ==
  ASSUME NEW S, S \subseteq Replica
  PROVE  IsFiniteSet(S) /\ Cardinality(S) \in Nat
BY ReplicaAssumption, FS_Subset, FS_CardinalityType

\* Two sets of n - f of the n voters meet, when n >= 2f + 1
\* (validate_fault_tolerance).
LEMMA TwoThresholds ==
  ASSUME NEW M, M \subseteq Replica, NEW f \in Nat, ToleratesFaults(M, f),
         NEW A, A \subseteq M, Cardinality(A) >= Threshold(M, f),
         NEW B, B \subseteq M, Cardinality(B) >= Threshold(M, f)
  PROVE  A \intersect B # {}
<1>1. /\ IsFiniteSet(M) /\ Cardinality(M) \in Nat
      /\ IsFiniteSet(A) /\ Cardinality(A) \in Nat
      /\ IsFiniteSet(B) /\ Cardinality(B) \in Nat
  BY FiniteMembers
<1>2. /\ Cardinality(A \union B) = Cardinality(A) + Cardinality(B) - Cardinality(A \intersect B)
  BY <1>1, FS_Union
<1>3. A \union B \subseteq M
  OBVIOUS
<1>4. Cardinality(A \union B) <= Cardinality(M)
  BY <1>1, <1>3, FS_Subset
<1>5. SUFFICES ASSUME A \intersect B = {}
               PROVE  FALSE
  OBVIOUS
<1>6. Cardinality(A \intersect B) = 0
  BY <1>5, FS_EmptySet
<1> QED BY SMT, <1>1, <1>2, <1>4, <1>6 DEF ToleratesFaults, Threshold

\* Removing at most f of n voters leaves n - f.
LEMMA RemainingVoters ==
  ASSUME NEW M, M \subseteq Replica, NEW f \in Nat, NEW S, Cardinality(S \intersect M) <= f
  PROVE  Cardinality(M \ S) >= Threshold(M, f)
<1>1. IsFiniteSet(M) /\ Cardinality(M) \in Nat
  BY FiniteMembers
<1>2. /\ Cardinality(M \ S) = Cardinality(M) - Cardinality(M \intersect S)
  BY <1>1, FS_Difference
<1>3. M \intersect S = S \intersect M /\ S \intersect M \subseteq Replica
  OBVIOUS
<1>4. Cardinality(S \intersect M) \in Nat
  BY <1>3, FiniteMembers
<1> QED BY SMT, <1>1, <1>2, <1>3, <1>4 DEF Threshold

------------------------------------------------------------------------------
(* Configurations *)

\* The JointMembership of a configuration is the one in its joint field.
LEMMA JointPartOf ==
  ASSUME NEW c, NEW j, c.joint = {j}
  PROVE  JointPart(c) = j /\ IsJoint(c)
BY DEF JointPart, IsJoint

\* The fields of the configuration in force, read off the type invariant.
LEMMA ClusterFacts ==
  ASSUME ClusterTypeOK
  PROVE  /\ cluster.epoch \in Nat
         /\ cluster.members \subseteq Replica /\ cluster.members # {}
         /\ cluster.maxFaults \in Nat
         /\ ~IsJoint(cluster) => /\ cluster.joint = {}
                                 /\ ToleratesFaults(cluster.members, cluster.maxFaults)
         /\ IsJoint(cluster) =>
              /\ JointPart(cluster).oldMembers \subseteq Replica
              /\ JointPart(cluster).newMembers \subseteq Replica
              /\ JointPart(cluster).newMembers \in MemberSet
              /\ JointPart(cluster).oldMaxFaults \in Nat
              /\ ToleratesFaults(JointPart(cluster).oldMembers, JointPart(cluster).oldMaxFaults)
              /\ ToleratesFaults(JointPart(cluster).newMembers, cluster.maxFaults)
              /\ cluster.members = JointPart(cluster).oldMembers \union JointPart(cluster).newMembers
<1>1. /\ cluster.epoch \in 0 .. MaxEpoch /\ cluster.members \in MemberSet
      /\ cluster.maxFaults \in 0 .. MaxFaults
      /\ cluster.joint \in {{}} \union {{j} : j \in JointMemberships}
      /\ IsWellFormed(cluster)
  BY DEF ClusterTypeOK
<1>2. /\ cluster.epoch \in Nat /\ cluster.maxFaults \in Nat
  BY SMT, <1>1, MaxEpochAssumption, MaxFaultsAssumption
<1>3. cluster.members \subseteq Replica /\ cluster.members # {}
  BY <1>1 DEF MemberSet
<1>4. CASE ~IsJoint(cluster)
  <2>1. cluster.joint = {}
    BY <1>4 DEF IsJoint
  <2>2. ToleratesFaults(cluster.members, cluster.maxFaults)
    BY <1>1, <1>4 DEF IsWellFormed
  <2> QED BY <1>2, <1>3, <1>4, <2>1, <2>2
<1>5. CASE IsJoint(cluster)
  <2>1. PICK j \in JointMemberships : cluster.joint = {j}
    BY <1>1, <1>5 DEF IsJoint
  <2>2. JointPart(cluster) = j
    BY <2>1, JointPartOf
  <2>3. /\ j.oldMembers \in MemberSet /\ j.newMembers \in MemberSet
        /\ j.oldMaxFaults \in 0 .. MaxFaults
    BY <2>1 DEF JointMemberships
  <2>4. j.oldMaxFaults \in Nat
    BY SMT, <2>3, MaxFaultsAssumption
  <2>5. j.oldMembers \subseteq Replica /\ j.newMembers \subseteq Replica
    BY <2>3 DEF MemberSet
  <2>6. /\ ToleratesFaults(j.oldMembers, j.oldMaxFaults)
        /\ ToleratesFaults(j.newMembers, cluster.maxFaults)
        /\ cluster.members = j.oldMembers \union j.newMembers
    BY <1>1, <1>5, <2>2 DEF IsWellFormed
  <2> QED BY <1>2, <1>3, <1>5, <2>2, <2>3, <2>4, <2>5, <2>6
<1> QED BY <1>4, <1>5

------------------------------------------------------------------------------
(* Invariants *)

\* A first configuration is well formed (ClusterIdentity::new).
LEMMA ClusterTypeInit == ClusterInit => ClusterTypeOK
<1> SUFFICES ASSUME ClusterInit PROVE ClusterTypeOK
  OBVIOUS
<1>1. PICK M \in MemberSet, f \in 0 .. MaxFaults :
         cluster = StableCluster(0, M, f) /\ ToleratesFaults(M, f)
  BY SMT DEF ClusterInit, StableClusters, StableCluster
<1>2. /\ cluster.epoch = 0 /\ cluster.members = M /\ cluster.maxFaults = f
      /\ cluster.joint = {}
  BY <1>1 DEF StableCluster
<1>3. ~IsJoint(cluster) /\ cluster.members # {}
  BY <1>2 DEF IsJoint, MemberSet
<1>4. IsWellFormed(cluster)
  BY <1>1, <1>2, <1>3 DEF IsWellFormed
<1>5. 0 \in 0 .. MaxEpoch
  BY SMT, MaxEpochAssumption
<1> QED BY <1>1, <1>2, <1>4, <1>5 DEF ClusterTypeOK

\* begin_joint followed by the successor test keeps the type invariant.
LEMMA TypeJoint ==
  ASSUME ClusterTypeOK, NEW M \in MemberSet, NEW f \in 0 .. MaxFaults, StableToJoint(M, f)
  PROVE  ClusterTypeOK'
<1>1. /\ cluster' = BeginJoint(cluster, M, f) /\ IsWellFormed(BeginJoint(cluster, M, f))
      /\ cluster.epoch < MaxEpoch
  BY DEF StableToJoint, InstallSuccessor, CanBeginJoint, IsSuccessorOf
<1>2. /\ cluster.epoch \in 0 .. MaxEpoch /\ cluster.members \in MemberSet
      /\ cluster.maxFaults \in 0 .. MaxFaults
  BY DEF ClusterTypeOK
<1>3. PICK j : j = [oldMembers |-> cluster.members, oldMaxFaults |-> cluster.maxFaults,
                    newMembers |-> M]
  OBVIOUS
<1>4. j \in JointMemberships
  BY <1>2, <1>3 DEF JointMemberships
<1>5. /\ cluster'.epoch = cluster.epoch + 1 /\ cluster'.members = cluster.members \union M
      /\ cluster'.maxFaults = f /\ cluster'.joint = {j}
  BY <1>1, <1>3 DEF BeginJoint
<1>6. cluster'.epoch \in 0 .. MaxEpoch
  BY SMT, <1>1, <1>2, <1>5, MaxEpochAssumption
<1>7. cluster'.members \in MemberSet
  BY <1>2, <1>5 DEF MemberSet
<1> QED BY <1>1, <1>4, <1>5, <1>6, <1>7 DEF ClusterTypeOK

\* finalize_joint followed by the successor test keeps the type invariant.
LEMMA TypeStable ==
  ASSUME ClusterTypeOK, JointToStable
  PROVE  ClusterTypeOK'
<1>1. /\ cluster' = FinalizeJoint(cluster) /\ IsWellFormed(FinalizeJoint(cluster))
      /\ cluster.epoch < MaxEpoch /\ IsJoint(cluster)
  BY DEF JointToStable, InstallSuccessor, CanFinalizeJoint, IsSuccessorOf
<1>2. cluster.epoch \in 0 .. MaxEpoch /\ cluster.maxFaults \in 0 .. MaxFaults
  BY DEF ClusterTypeOK
<1>3. JointPart(cluster).newMembers \in MemberSet
  BY <1>1, ClusterFacts
<1>4. /\ cluster'.epoch = cluster.epoch + 1 /\ cluster'.members = JointPart(cluster).newMembers
      /\ cluster'.maxFaults = cluster.maxFaults /\ cluster'.joint = {}
  BY <1>1 DEF FinalizeJoint, StableCluster
<1>5. cluster'.epoch \in 0 .. MaxEpoch
  BY SMT, <1>1, <1>2, <1>4, MaxEpochAssumption
<1> QED BY <1>1, <1>2, <1>3, <1>4, <1>5 DEF ClusterTypeOK

\* Every epoch the control plane reaches is a well-formed configuration: the
\* constructors of ClusterIdentity build what is_well_formed accepts.
THEOREM MembershipTypeCorrect == ClusterSpec => []ClusterTypeOK
<1>1. ClusterTypeOK /\ [ClusterNext]_cluster => ClusterTypeOK'
  <2> SUFFICES ASSUME ClusterTypeOK, [ClusterNext]_cluster PROVE ClusterTypeOK'
    OBVIOUS
  <2>1. CASE UNCHANGED cluster
    BY <2>1 DEF ClusterTypeOK, IsWellFormed, IsJoint, JointPart
  <2>2. CASE ClusterNext
    BY <2>2, TypeJoint, TypeStable DEF ClusterNext
  <2> QED BY <2>1, <2>2
<1> QED BY <1>1, ClusterTypeInit, PTL DEF ClusterSpec

\* The voters of a quorum within one voter set that has a threshold in c.
LEMMA StableQuorum ==
  ASSUME NEW c, ~IsJoint(c), NEW Q, HasQuorum(c, Q)
  PROVE  Q \subseteq c.members /\ Cardinality(Q) >= Threshold(c.members, c.maxFaults)
BY DEF HasQuorum, QuorumSize

\* A quorum of a joint epoch meets the thresholds of both voter sets.
LEMMA JointQuorum ==
  ASSUME NEW c, IsJoint(c), NEW Q, HasQuorum(c, Q)
  PROVE  /\ Cardinality(JointPart(c).oldMembers \intersect Q)
              >= Threshold(JointPart(c).oldMembers, JointPart(c).oldMaxFaults)
         /\ Cardinality(JointPart(c).newMembers \intersect Q)
              >= Threshold(JointPart(c).newMembers, c.maxFaults)
BY DEF HasQuorum

\* Two quorums of a well-formed configuration share a recorder.
LEMMA QuorumsMeet == ClusterTypeOK => QuorumsIntersect
<1> SUFFICES ASSUME ClusterTypeOK, NEW Q1 \in SUBSET cluster.members, NEW Q2 \in SUBSET cluster.members,
                    HasQuorum(cluster, Q1), HasQuorum(cluster, Q2)
             PROVE  Q1 \intersect Q2 # {}
  BY DEF QuorumsIntersect
<1>1. CASE ~IsJoint(cluster)
  <2>1. /\ cluster.members \subseteq Replica /\ cluster.maxFaults \in Nat
        /\ ToleratesFaults(cluster.members, cluster.maxFaults)
    BY <1>1, ClusterFacts
  <2>2. /\ Cardinality(Q1) >= Threshold(cluster.members, cluster.maxFaults)
        /\ Cardinality(Q2) >= Threshold(cluster.members, cluster.maxFaults)
    BY <1>1, StableQuorum
  <2> QED BY <2>1, <2>2, TwoThresholds
<1>2. CASE IsJoint(cluster)
  <2>1. PICK M \in SUBSET Replica, f \in Nat : /\ M = JointPart(cluster).newMembers /\ f = cluster.maxFaults
                                              /\ ToleratesFaults(M, f)
    BY <1>2, ClusterFacts
  <2>2. /\ Cardinality(M \intersect Q1) >= Threshold(M, f)
        /\ Cardinality(M \intersect Q2) >= Threshold(M, f)
    BY <1>2, <2>1, JointQuorum
  <2>3. (M \intersect Q1) \intersect (M \intersect Q2) # {}
    BY <2>1, <2>2, TwoThresholds
  <2> QED BY <2>3
<1> QED BY <1>1, <1>2

\* Every configuration survives the crashes its budgets allow.
LEMMA QuorumRemains == ClusterTypeOK => QuorumSurvivesFaults
<1> SUFFICES ASSUME ClusterTypeOK, NEW crashed \in SUBSET cluster.members,
                    IF IsJoint(cluster)
                    THEN /\ Cardinality(crashed \intersect JointPart(cluster).oldMembers)
                              <= JointPart(cluster).oldMaxFaults
                         /\ Cardinality(crashed \intersect JointPart(cluster).newMembers)
                              <= cluster.maxFaults
                    ELSE Cardinality(crashed) <= cluster.maxFaults
             PROVE  HasQuorum(cluster, cluster.members \ crashed)
  BY DEF QuorumSurvivesFaults
<1>1. CASE ~IsJoint(cluster)
  <2>1. cluster.members \subseteq Replica /\ cluster.maxFaults \in Nat
    BY ClusterFacts
  <2>2. crashed \intersect cluster.members = crashed
    OBVIOUS
  <2>3. Cardinality(crashed \intersect cluster.members) <= cluster.maxFaults
    BY <1>1, <2>2
  <2>4. Cardinality(cluster.members \ crashed) >= Threshold(cluster.members, cluster.maxFaults)
    BY <2>1, <2>3, RemainingVoters
  <2> QED BY <1>1, <2>4 DEF HasQuorum, QuorumSize
<1>2. CASE IsJoint(cluster)
  <2>1. PICK old \in SUBSET Replica, new \in SUBSET Replica, f1 \in Nat, f2 \in Nat :
           /\ old = JointPart(cluster).oldMembers /\ new = JointPart(cluster).newMembers
           /\ f1 = JointPart(cluster).oldMaxFaults /\ f2 = cluster.maxFaults
           /\ cluster.members = old \union new
    BY <1>2, ClusterFacts
  <2>2. Cardinality(crashed \intersect old) <= f1 /\ Cardinality(crashed \intersect new) <= f2
    BY <1>2, <2>1
  <2>3. Cardinality(old \ crashed) >= Threshold(old, f1)
    BY <2>1, <2>2, RemainingVoters
  <2>4. Cardinality(new \ crashed) >= Threshold(new, f2)
    BY <2>1, <2>2, RemainingVoters
  <2>5. /\ old \intersect (cluster.members \ crashed) = old \ crashed
        /\ new \intersect (cluster.members \ crashed) = new \ crashed
    BY <2>1
  <2> QED BY <1>2, <2>1, <2>3, <2>4, <2>5 DEF HasQuorum
<1> QED BY <1>1, <1>2

\* Of a configuration and its successor, quorums of either meet: both meet the
\* threshold of the voter set the two epochs share.
LEMMA SuccessorsMeet ==
  ASSUME ClusterTypeOK, ClusterNext, NEW Q1, HasQuorum(cluster, Q1), NEW Q2, HasQuorum(cluster', Q2)
  PROVE  Q1 \intersect Q2 # {}
<1>1. ASSUME NEW M \in MemberSet, NEW f \in 0 .. MaxFaults, StableToJoint(M, f)
      PROVE  Q1 \intersect Q2 # {}
  <2>1. /\ ~IsJoint(cluster) /\ cluster' = BeginJoint(cluster, M, f)
    BY <1>1 DEF StableToJoint, CanBeginJoint, InstallSuccessor
  <2>2. /\ cluster.members \subseteq Replica /\ cluster.maxFaults \in Nat
        /\ ToleratesFaults(cluster.members, cluster.maxFaults)
    BY <2>1, ClusterFacts
  <2>3. PICK j : j = [oldMembers |-> cluster.members, oldMaxFaults |-> cluster.maxFaults,
                      newMembers |-> M]
    OBVIOUS
  <2>4. PICK c : c = BeginJoint(cluster, M, f)
    OBVIOUS
  <2>5. c.joint = {j}
    BY <2>3, <2>4 DEF BeginJoint
  <2>6. IsJoint(c) /\ JointPart(c) = j
    BY <2>5, JointPartOf
  <2>7. HasQuorum(c, Q2)
    BY <2>1, <2>4
  <2>8. Cardinality(j.oldMembers \intersect Q2) >= Threshold(j.oldMembers, j.oldMaxFaults)
    BY <2>6, <2>7, JointQuorum
  <2>9. Cardinality(cluster.members \intersect Q2)
          >= Threshold(cluster.members, cluster.maxFaults)
    BY <2>3, <2>8
  <2>10. /\ Q1 \subseteq cluster.members
         /\ Cardinality(Q1) >= Threshold(cluster.members, cluster.maxFaults)
    BY <2>1, StableQuorum
  <2>11. Q1 \intersect (cluster.members \intersect Q2) # {}
    BY <2>2, <2>9, <2>10, TwoThresholds
  <2> QED BY <2>11
<1>2. ASSUME JointToStable
      PROVE  Q1 \intersect Q2 # {}
  <2>1. IsJoint(cluster) /\ cluster' = FinalizeJoint(cluster)
    BY <1>2 DEF JointToStable, CanFinalizeJoint, InstallSuccessor
  <2>2. PICK M \in SUBSET Replica, f \in Nat : /\ M = JointPart(cluster).newMembers /\ f = cluster.maxFaults
                                              /\ ToleratesFaults(M, f)
    BY <2>1, ClusterFacts
  <2>c. PICK c : c = FinalizeJoint(cluster)
    OBVIOUS
  <2>3. c.members = M /\ c.maxFaults = f /\ ~IsJoint(c) /\ HasQuorum(c, Q2)
    BY <2>c, <2>1, <2>2 DEF FinalizeJoint, StableCluster, IsJoint
  <2>4. Q2 \subseteq M /\ Cardinality(Q2) >= Threshold(M, f)
    BY <2>1, <2>3, StableQuorum
  <2>5. Cardinality(M \intersect Q1) >= Threshold(M, f)
    BY <2>1, <2>2, JointQuorum
  <2>6. (M \intersect Q1) \intersect Q2 # {}
    BY <2>2, <2>4, <2>5, TwoThresholds
  <2> QED BY <2>6
<1> QED BY <1>1, <1>2 DEF ClusterNext

------------------------------------------------------------------------------
(* The size of a smallest quorum *)

\* A set of replicas has subsets of every smaller size.
LEMMA SubsetOfSize ==
  ASSUME NEW S, S \subseteq Replica, NEW n \in Nat, n <= Cardinality(S)
  PROVE  \E T \in SUBSET S : Cardinality(T) = n
<1>1. Cardinality(S) \in Nat /\ ExistsBijection(1 .. Cardinality(S), S)
  BY FiniteMembers, FS_CardinalityType
<1>2. PICK f \in Bijection(1 .. Cardinality(S), S) : TRUE
  BY <1>1 DEF ExistsBijection
<1> DEFINE T == {f[i] : i \in 1 .. n}
           g == [i \in 1 .. n |-> f[i]]
<1>3. /\ f \in [1 .. Cardinality(S) -> S]
      /\ \A i, j \in 1 .. Cardinality(S) : f[i] = f[j] => i = j
  BY <1>2 DEF Bijection, Injection, Surjection, IsInjective
<1>4. 1 .. n \subseteq 1 .. Cardinality(S)
  BY SMT, <1>1
<1>5. T \subseteq S /\ g \in [1 .. n -> T]
  BY <1>3, <1>4
<1>6. g \in Bijection(1 .. n, T)
  BY <1>3, <1>4, <1>5 DEF Bijection, Injection, Surjection, IsInjective
<1>7. Cardinality(T) = n
  BY <1>6, FS_CountingElements DEF ExistsBijection
<1> QED BY <1>5, <1>7

\* The voters of two sets, counted.
LEMMA Voters ==
  ASSUME NEW O, O \subseteq Replica, NEW N, N \subseteq Replica
  PROVE  /\ Cardinality(O) \in Nat /\ Cardinality(N) \in Nat
         /\ Cardinality(O \intersect N) \in Nat
         /\ Cardinality(O \union N) = Cardinality(O) + Cardinality(N) - Cardinality(O \intersect N)
         /\ Cardinality(O \ N) = Cardinality(O) - Cardinality(O \intersect N)
         /\ Cardinality(N \ O) = Cardinality(N) - Cardinality(O \intersect N)
         /\ Cardinality(O \intersect N) <= Cardinality(O)
         /\ Cardinality(O \intersect N) <= Cardinality(N)
<1>1. /\ IsFiniteSet(O) /\ IsFiniteSet(N) /\ Cardinality(O) \in Nat /\ Cardinality(N) \in Nat
      /\ Cardinality(O \intersect N) \in Nat
  BY FiniteMembers
<1>2. Cardinality(O \union N) = Cardinality(O) + Cardinality(N) - Cardinality(O \intersect N)
  BY <1>1, FS_Union
<1>3. Cardinality(O \ N) = Cardinality(O) - Cardinality(O \intersect N)
  BY <1>1, FS_Difference
<1>4. Cardinality(N \ O) = Cardinality(N) - Cardinality(O \intersect N)
  <2>1. Cardinality(N \ O) = Cardinality(N) - Cardinality(N \intersect O)
    BY <1>1, FS_Difference
  <2>2. N \intersect O = O \intersect N
    OBVIOUS
  <2> QED BY <2>1, <2>2
<1>5. Cardinality(O \ N) \in Nat /\ Cardinality(N \ O) \in Nat
  BY FiniteMembers
<1>6. /\ Cardinality(O \intersect N) <= Cardinality(O)
      /\ Cardinality(O \intersect N) <= Cardinality(N)
  BY ONLY SMT, <1>1, <1>3, <1>4, <1>5
<1> QED BY <1>1, <1>2, <1>3, <1>4, <1>6

\* No set with a voters of one side and b of the other is smaller than
\* quorum_size says.
LEMMA QuorumAtLeast ==
  ASSUME NEW O, O \subseteq Replica, NEW N, N \subseteq Replica, NEW a \in Nat, NEW b \in Nat,
         NEW Q, Q \subseteq O \union N,
         Cardinality(O \intersect Q) >= a, Cardinality(N \intersect Q) >= b
  PROVE  Cardinality(Q) >= a + b - MinOf(MinOf(Cardinality(O \intersect N), a), b)
<1>a. PICK A : A = O \intersect Q
  OBVIOUS
<1>b. PICK B : B = N \intersect Q
  OBVIOUS
<1>1. A \subseteq Replica /\ B \subseteq Replica /\ A \union B = Q
  BY <1>a, <1>b
<1>2. PICK x, y, z : x = Cardinality(A) /\ y = Cardinality(B) /\ z = Cardinality(A \intersect B)
  OBVIOUS
<1>3. /\ x \in Nat /\ y \in Nat /\ z \in Nat /\ z <= x /\ z <= y
      /\ Cardinality(Q) = x + y - z
  BY <1>1, <1>2, Voters
<1>4. PICK sh : sh = Cardinality(O \intersect N)
  OBVIOUS
<1>5. A \intersect B \in SUBSET (O \intersect N) /\ IsFiniteSet(O \intersect N) /\ sh \in Nat
  BY <1>a, <1>b, <1>4, FiniteMembers
<1>6. z <= sh
  BY <1>2, <1>4, <1>5, FS_Subset
<1>7. x >= a /\ y >= b
  BY <1>a, <1>b, <1>2
<1>8. Cardinality(Q) >= a + b - MinOf(MinOf(sh, a), b)
  BY SMT, <1>3, <1>5, <1>6, <1>7 DEF MinOf
<1> QED BY <1>4, <1>8

\* When enough members are shared, the quorum of the larger threshold suffices.
LEMMA OneSidedQuorum ==
  ASSUME NEW O, O \subseteq Replica, NEW N, N \subseteq Replica, NEW a \in Nat, NEW b \in Nat,
         a <= Cardinality(O \intersect N), a <= b, b <= Cardinality(N)
  PROVE  \E Q \in SUBSET N : /\ Cardinality(Q) = b
                             /\ Cardinality(O \intersect Q) >= a /\ Cardinality(N \intersect Q) >= b
<1>1. PICK T \in SUBSET (O \intersect N) : Cardinality(T) = a
  BY SubsetOfSize
<1>2. /\ T \subseteq Replica /\ T \intersect N = T /\ Cardinality(N) \in Nat
      /\ Cardinality(N \ T) = Cardinality(N) - Cardinality(T \intersect N)
  BY <1>1, Voters
<1>3. b - a \in Nat /\ b - a <= Cardinality(N \ T)
  BY SMT, <1>1, <1>2
<1>4. PICK B \in SUBSET (N \ T) : Cardinality(B) = b - a
  BY <1>3, SubsetOfSize
<1>q. PICK Q : Q = T \union B
  OBVIOUS
<1>5. Cardinality(T \intersect B) = 0
  <2>1. T \intersect B = {}
    BY <1>4
  <2> QED BY <2>1, FS_EmptySet
<1>6. Cardinality(Q) = b
  <2>1. B \subseteq Replica
    BY <1>4
  <2>2. Cardinality(Q) = Cardinality(T) + Cardinality(B) - Cardinality(T \intersect B)
    BY <1>q, <1>2, <2>1, Voters
  <2> QED BY ONLY SMT, <1>1, <1>4, <1>5, <2>2, a \in Nat, b \in Nat
<1>7. Q \subseteq N /\ N \intersect Q = Q
  BY <1>q, <1>1, <1>4
<1>8. Cardinality(O \intersect Q) >= a
  <2>1. T \in SUBSET (O \intersect Q) /\ IsFiniteSet(O \intersect Q) /\ Cardinality(O \intersect Q) \in Nat
    BY <1>q, <1>1, FiniteMembers
  <2> QED BY <1>1, <2>1, FS_Subset
<1>9. Cardinality(N \intersect Q) >= b
  BY SMT, <1>6, <1>7
<1> QED BY <1>6, <1>7, <1>8, <1>9

\* Otherwise the shared members and what is missing of either side make one.
LEMMA TwoSidedQuorum ==
  ASSUME NEW O, O \subseteq Replica, NEW N, N \subseteq Replica, NEW a \in Nat, NEW b \in Nat,
         Cardinality(O \intersect N) <= a, Cardinality(O \intersect N) <= b,
         a <= Cardinality(O), b <= Cardinality(N)
  PROVE  \E Q \in SUBSET (O \union N) :
            /\ Cardinality(Q) = a + b - Cardinality(O \intersect N)
            /\ Cardinality(O \intersect Q) >= a /\ Cardinality(N \intersect Q) >= b
<1>0. PICK sh : sh = Cardinality(O \intersect N)
  OBVIOUS
<1>1. /\ sh \in Nat /\ Cardinality(O) \in Nat /\ Cardinality(N) \in Nat
      /\ Cardinality(O \ N) = Cardinality(O) - sh /\ Cardinality(N \ O) = Cardinality(N) - sh
  BY <1>0, Voters
<1>2. PICK A \in SUBSET (O \ N) : Cardinality(A) = a - sh
  <2>1. a - sh \in Nat /\ a - sh <= Cardinality(O \ N)
    BY SMT, <1>0, <1>1
  <2> QED BY <2>1, SubsetOfSize
<1>3. PICK B \in SUBSET (N \ O) : Cardinality(B) = b - sh
  <2>1. b - sh \in Nat /\ b - sh <= Cardinality(N \ O)
    BY SMT, <1>0, <1>1
  <2> QED BY <2>1, SubsetOfSize
<1>t. PICK T, U, V : T = O \intersect N /\ U = A \union T /\ V = T \union B
  OBVIOUS
<1>q. PICK Q : Q = U \union B
  OBVIOUS
<1>4. /\ A \intersect T = {} /\ U \intersect B = {} /\ T \intersect B = {}
      /\ O \intersect Q = U /\ N \intersect Q = V /\ Q \subseteq O \union N
      /\ A \subseteq Replica /\ B \subseteq Replica /\ T \subseteq Replica /\ U \subseteq Replica
  BY <1>2, <1>3, <1>t, <1>q
<1>e. /\ Cardinality(A \intersect T) = 0 /\ Cardinality(U \intersect B) = 0
      /\ Cardinality(T \intersect B) = 0 /\ Cardinality(T) = sh
  BY <1>0, <1>4, <1>t, FS_EmptySet
<1>5. Cardinality(U) = a
  <2>1. Cardinality(A \union T) = Cardinality(A) + Cardinality(T) - Cardinality(A \intersect T)
    BY ONLY <1>4, Voters
  <2> QED BY ONLY SMTT(20), <1>1, <1>2, <1>t, <1>e, <2>1, a \in Nat
<1>6. Cardinality(V) = b
  <2>1. Cardinality(T \union B) = Cardinality(T) + Cardinality(B) - Cardinality(T \intersect B)
    BY ONLY <1>4, Voters
  <2> QED BY ONLY SMTT(20), <1>1, <1>3, <1>t, <1>e, <2>1, b \in Nat
<1>7. Cardinality(Q) = a + b - sh
  <2>1. Cardinality(U \union B) = Cardinality(U) + Cardinality(B) - Cardinality(U \intersect B)
    BY ONLY <1>4, Voters
  <2> QED BY ONLY SMT, <1>1, <1>3, <1>q, <1>e, <1>5, <2>1, a \in Nat, b \in Nat
<1>8. Cardinality(O \intersect Q) >= a /\ Cardinality(N \intersect Q) >= b
  BY SMT, <1>4, <1>5, <1>6
<1>9. Q \in SUBSET (O \union N)
  BY <1>4
<1> QED BY <1>0, <1>7, <1>8, <1>9

\* quorum_size of a well-formed configuration is that of a smallest quorum.
LEMMA SizeIsExact == ClusterTypeOK => QuorumSizeIsExact
<1> SUFFICES ASSUME ClusterTypeOK
             PROVE  /\ \E Q \in SUBSET cluster.members :
                          HasQuorum(cluster, Q) /\ Cardinality(Q) = QuorumSize(cluster)
                    /\ \A Q \in SUBSET cluster.members :
                          HasQuorum(cluster, Q) => QuorumSize(cluster) <= Cardinality(Q)
  BY DEF QuorumSizeIsExact
<1>1. CASE ~IsJoint(cluster)
  <2>1. /\ cluster.members \subseteq Replica /\ cluster.maxFaults \in Nat
        /\ ToleratesFaults(cluster.members, cluster.maxFaults)
    BY <1>1, ClusterFacts
  <2>2. /\ Threshold(cluster.members, cluster.maxFaults) \in Nat
        /\ Threshold(cluster.members, cluster.maxFaults) <= Cardinality(cluster.members)
    BY SMT, <2>1, FiniteMembers DEF ToleratesFaults, Threshold
  <2>3. QuorumSize(cluster) = Threshold(cluster.members, cluster.maxFaults)
    BY <1>1 DEF QuorumSize
  <2>4. PICK Q \in SUBSET cluster.members :
           Cardinality(Q) = Threshold(cluster.members, cluster.maxFaults)
    BY <2>1, <2>2, SubsetOfSize
  <2>5. HasQuorum(cluster, Q)
    BY SMT, <1>1, <2>2, <2>3, <2>4 DEF HasQuorum
  <2>6. ASSUME NEW R \in SUBSET cluster.members, HasQuorum(cluster, R)
        PROVE  QuorumSize(cluster) <= Cardinality(R)
    <3>1. Cardinality(R) >= QuorumSize(cluster) /\ Cardinality(R) \in Nat
      BY <1>1, <2>1, <2>6, FiniteMembers DEF HasQuorum
    <3> QED BY <2>2, <2>3, <3>1
  <2> QED BY <2>3, <2>4, <2>5, <2>6
<1>2. CASE IsJoint(cluster)
  <2>1. PICK O \in SUBSET Replica, N \in SUBSET Replica, f1 \in Nat, f2 \in Nat :
           /\ O = JointPart(cluster).oldMembers /\ N = JointPart(cluster).newMembers
           /\ f1 = JointPart(cluster).oldMaxFaults /\ f2 = cluster.maxFaults
           /\ cluster.members = O \union N
           /\ ToleratesFaults(O, f1) /\ ToleratesFaults(N, f2)
    BY <1>2, ClusterFacts
  <2>a. PICK a, b, sh : a = Threshold(O, f1) /\ b = Threshold(N, f2) /\ sh = Cardinality(O \intersect N)
    OBVIOUS
  <2>2. /\ a \in Nat /\ b \in Nat /\ sh \in Nat /\ Cardinality(O) \in Nat /\ Cardinality(N) \in Nat
        /\ a <= Cardinality(O) /\ b <= Cardinality(N)
    <3>1. Cardinality(O) \in Nat /\ Cardinality(N) \in Nat /\ sh \in Nat
      BY <2>a, Voters
    <3> QED BY SMT, <2>1, <2>a, <3>1 DEF ToleratesFaults, Threshold
  <2>3. QuorumSize(cluster) = a + b - MinOf(MinOf(sh, a), b)
    BY <1>2, <2>1, <2>a DEF QuorumSize
  <2>4. \A Q : HasQuorum(cluster, Q) <=> /\ Cardinality(O \intersect Q) >= a
                                         /\ Cardinality(N \intersect Q) >= b
    BY <1>2, <2>1, <2>a DEF HasQuorum
  <2>5. ASSUME NEW R \in SUBSET cluster.members, HasQuorum(cluster, R)
        PROVE  QuorumSize(cluster) <= Cardinality(R)
    <3>1. Cardinality(R) >= a + b - MinOf(MinOf(sh, a), b)
      BY <2>1, <2>a, <2>2, <2>4, <2>5, QuorumAtLeast
    <3>2. Cardinality(R) \in Nat /\ a + b - MinOf(MinOf(sh, a), b) \in Int
      BY SMT, <2>1, <2>2, FiniteMembers DEF MinOf
    <3> QED BY <2>3, <3>1, <3>2
  <2>6. CASE sh <= a /\ sh <= b
    <3>1. MinOf(MinOf(sh, a), b) = sh
      BY <2>2, <2>6 DEF MinOf
    <3>2. PICK Q \in SUBSET (O \union N) :
            /\ Cardinality(Q) = a + b - sh
            /\ Cardinality(O \intersect Q) >= a /\ Cardinality(N \intersect Q) >= b
      BY <2>a, <2>2, <2>6, TwoSidedQuorum
    <3> QED BY <2>1, <2>3, <2>4, <2>5, <3>1, <3>2
  <2>7. CASE a <= sh /\ a <= b
    <3>1. a + b - MinOf(MinOf(sh, a), b) = b
      BY SMT, <2>2, <2>7 DEF MinOf
    <3>2. PICK Q \in SUBSET N :
            /\ Cardinality(Q) = b
            /\ Cardinality(O \intersect Q) >= a /\ Cardinality(N \intersect Q) >= b
      BY <2>a, <2>2, <2>7, OneSidedQuorum
    <3> QED BY <2>1, <2>3, <2>4, <2>5, <3>1, <3>2
  <2>8. CASE b <= sh /\ b <= a
    <3>1. a + b - MinOf(MinOf(sh, a), b) = a
      BY SMT, <2>2, <2>8 DEF MinOf
    <3>2. PICK Q \in SUBSET O :
            /\ Cardinality(Q) = a
            /\ Cardinality(N \intersect Q) >= b /\ Cardinality(O \intersect Q) >= a
      <4>1. O \intersect N = N \intersect O
        OBVIOUS
      <4> QED BY <2>a, <2>2, <2>8, <4>1, OneSidedQuorum
    <3> QED BY <2>1, <2>3, <2>4, <2>5, <3>1, <3>2
  <2> QED BY SMT, <2>2, <2>6, <2>7, <2>8
<1> QED BY <1>1, <1>2

------------------------------------------------------------------------------
(* The configurations a node accepts as the next one *)

\* What begin_joint and finalize_joint build from the configuration in force.
BuiltJoint(c) ==
  \E M \in MemberSet, f \in 0 .. MaxFaults :
     CanBeginJoint(cluster, M, f, cluster.epoch + 1) /\ c = BeginJoint(cluster, M, f)
BuiltStable(c) == CanFinalizeJoint(cluster, cluster.epoch + 1) /\ c = FinalizeJoint(cluster)

\* Both constructors build a successor.
LEMMA BuiltAreSuccessors ==
  ASSUME ClusterTypeOK, NEW c, BuiltJoint(c) \/ BuiltStable(c)
  PROVE  IsSuccessorOf(c, cluster)
<1>1. IsWellFormed(cluster)
  BY DEF ClusterTypeOK
<1>2. CASE BuiltJoint(c)
  <2>1. PICK M \in MemberSet, f \in 0 .. MaxFaults :
           CanBeginJoint(cluster, M, f, cluster.epoch + 1) /\ c = BeginJoint(cluster, M, f)
    BY <1>2 DEF BuiltJoint
  <2>2. PICK j : j = [oldMembers |-> cluster.members, oldMaxFaults |-> cluster.maxFaults,
                      newMembers |-> M]
    OBVIOUS
  <2>3. /\ c.epoch = cluster.epoch + 1 /\ c.members = cluster.members \union M
        /\ c.maxFaults = f /\ c.joint = {j}
    BY <2>1, <2>2 DEF BeginJoint
  <2>4. IsJoint(c) /\ JointPart(c) = j
    BY <2>3, JointPartOf
  <2>5. ~IsJoint(cluster) /\ M # {} /\ ToleratesFaults(M, f)
    BY <2>1 DEF CanBeginJoint
  <2>6. /\ cluster.members # {} /\ ToleratesFaults(cluster.members, cluster.maxFaults)
    BY <2>5, ClusterFacts
  <2>7. IsWellFormed(c)
    BY SMT, <2>2, <2>3, <2>4, <2>5, <2>6 DEF IsWellFormed
  <2> QED BY SMTT(20), <1>1, <2>2, <2>3, <2>4, <2>5, <2>7 DEF IsSuccessorOf
<1>3. CASE BuiltStable(c)
  <2>1. /\ IsJoint(cluster) /\ JointPart(cluster).newMembers # {}
        /\ ToleratesFaults(JointPart(cluster).newMembers, cluster.maxFaults)
    BY <1>3 DEF BuiltStable, CanFinalizeJoint
  <2>2. /\ c.epoch = cluster.epoch + 1 /\ c.members = JointPart(cluster).newMembers
        /\ c.maxFaults = cluster.maxFaults /\ c.joint = {}
    BY <1>3 DEF BuiltStable, FinalizeJoint, StableCluster
  <2>3. ~IsJoint(c)
    BY <2>2 DEF IsJoint
  <2> QED BY <1>1, <2>1, <2>2, <2>3 DEF IsSuccessorOf, IsWellFormed
<1> QED BY <1>2, <1>3

\* A stable configuration that is_successor_of accepts is the one
\* finalize_joint builds.
LEMMA StableSuccessor ==
  ASSUME ClusterTypeOK, NEW e, NEW M, NEW f, NEW c, c = StableCluster(e, M, f), IsSuccessorOf(c, cluster)
  PROVE  BuiltStable(c)
<1>1. c.epoch = e /\ c.members = M /\ c.maxFaults = f /\ c.joint = {} /\ ~IsJoint(c)
  BY DEF StableCluster, IsJoint
<1>2. /\ IsJoint(cluster) /\ e = cluster.epoch + 1 /\ M = JointPart(cluster).newMembers
      /\ f = cluster.maxFaults
  BY <1>1 DEF IsSuccessorOf
<1>3. /\ cluster.epoch \in Nat /\ JointPart(cluster).newMembers \in MemberSet
      /\ ToleratesFaults(JointPart(cluster).newMembers, cluster.maxFaults)
  BY <1>2, ClusterFacts
<1>4. CanFinalizeJoint(cluster, cluster.epoch + 1)
  BY SMT, <1>2, <1>3 DEF CanFinalizeJoint, MemberSet
<1> QED BY <1>2, <1>4 DEF BuiltStable, FinalizeJoint

\* A joint configuration that is_successor_of accepts is one begin_joint builds.
LEMMA JointSuccessor ==
  ASSUME ClusterTypeOK, NEW e, NEW M, NEW f \in 0 .. MaxFaults, NEW j \in JointMemberships,
         NEW c, c = [epoch |-> e, members |-> M, maxFaults |-> f, joint |-> {j}],
         IsSuccessorOf(c, cluster)
  PROVE  BuiltJoint(c)
<1>1. c.epoch = e /\ c.members = M /\ c.maxFaults = f /\ c.joint = {j}
  OBVIOUS
<1>2. IsJoint(c) /\ JointPart(c) = j
  BY <1>1, JointPartOf
<1>3. /\ ~IsJoint(cluster) /\ e = cluster.epoch + 1 /\ j.oldMembers = cluster.members
      /\ j.oldMaxFaults = cluster.maxFaults
      /\ j.newMembers # {} /\ ToleratesFaults(j.newMembers, f)
      /\ M = j.oldMembers \union j.newMembers
  BY <1>1, <1>2 DEF IsSuccessorOf, IsWellFormed
<1>4. /\ j.newMembers \in MemberSet
      /\ j = [oldMembers |-> j.oldMembers, oldMaxFaults |-> j.oldMaxFaults,
              newMembers |-> j.newMembers]
  BY DEF JointMemberships
<1>5. cluster.epoch \in Nat
  BY ClusterFacts
<1>6. CanBeginJoint(cluster, j.newMembers, f, cluster.epoch + 1)
  BY SMT, <1>3, <1>5 DEF CanBeginJoint
<1>7. c = BeginJoint(cluster, j.newMembers, f)
  BY <1>3, <1>4 DEF BeginJoint
<1> QED BY <1>4, <1>6, <1>7 DEF BuiltJoint

\* The configurations that is_valid_successor accepts are those the operations build.
LEMMA SuccessorsBuilt == ClusterTypeOK => SuccessorsAreTheBuiltOnes
<1> SUFFICES ASSUME ClusterTypeOK PROVE SuccessorsAreTheBuiltOnes
  OBVIOUS
<1> DEFINE e2 == {cluster.epoch, cluster.epoch + 1}
           stable == StableClusters(e2)
           joint == {[epoch |-> e, members |-> M, maxFaults |-> f, joint |-> {j}] :
                       e \in e2, M \in {cluster.members, Replica},
                       f \in 0 .. MaxFaults, j \in JointMemberships}
           begun == {BeginJoint(cluster, a[1], a[2]) :
                       a \in {b \in MemberSet \X (0 .. MaxFaults) :
                                CanBeginJoint(cluster, b[1], b[2], cluster.epoch + 1)}}
           finalized == {FinalizeJoint(c) :
                           c \in {d \in {cluster} : CanFinalizeJoint(d, cluster.epoch + 1)}}
<1>1. ASSUME NEW c \in stable, IsSuccessorOf(c, cluster) PROVE BuiltStable(c)
  <2>1. PICK e, M, f : c = StableCluster(e, M, f)
    BY SMT DEF StableClusters
  <2> QED BY <1>1, <2>1, StableSuccessor
<1>2. ASSUME NEW c \in joint, IsSuccessorOf(c, cluster) PROVE BuiltJoint(c)
  <2>1. PICK e \in e2, M \in {cluster.members, Replica}, f \in 0 .. MaxFaults, j \in JointMemberships :
           c = [epoch |-> e, members |-> M, maxFaults |-> f, joint |-> {j}]
    BY SMT
  <2> HIDE DEF e2, joint
  <2> QED BY <1>2, <2>1, JointSuccessor
<1>3. ASSUME NEW c PROVE c \in begun <=> BuiltJoint(c)
  <2>1. ASSUME c \in begun PROVE BuiltJoint(c)
    <3>1. PICK a \in MemberSet \X (0 .. MaxFaults) :
            /\ CanBeginJoint(cluster, a[1], a[2], cluster.epoch + 1)
            /\ c = BeginJoint(cluster, a[1], a[2])
      BY <2>1
    <3> QED BY <3>1 DEF BuiltJoint
  <2>2. ASSUME BuiltJoint(c) PROVE c \in begun
    <3>1. PICK M \in MemberSet, f \in 0 .. MaxFaults :
            CanBeginJoint(cluster, M, f, cluster.epoch + 1) /\ c = BeginJoint(cluster, M, f)
      BY <2>2 DEF BuiltJoint
    <3>2. PICK a \in MemberSet \X (0 .. MaxFaults) : a = <<M, f>>
      OBVIOUS
    <3>3. a[1] = M /\ a[2] = f
      BY <3>2
    <3> QED BY <3>1, <3>3
  <2> QED BY <2>1, <2>2
<1>4. \A c : c \in finalized <=> BuiltStable(c)
  BY DEF BuiltStable
<1>5. \A c \in (stable \union joint) \union (begun \union finalized) :
        IsSuccessorOf(c, cluster) <=> c \in begun \union finalized
  <2> HIDE DEF stable, joint, begun, finalized
  <2> QED BY <1>1, <1>2, <1>3, <1>4, BuiltAreSuccessors
<1> QED BY SMT, <1>5 DEF SuccessorsAreTheBuiltOnes

------------------------------------------------------------------------------
(* Theorems *)

\* In every epoch the control plane reaches, stable or joint, any two sets of
\* recorders that has_quorum accepts share a recorder.
THEOREM QuorumIntersection == ClusterSpec => []QuorumsIntersect
BY MembershipTypeCorrect, QuorumsMeet, PTL

\* In every epoch the members that remain after the crashes the fault budgets
\* allow are accepted by has_quorum.
THEOREM QuorumAvailability == ClusterSpec => []QuorumSurvivesFaults
BY MembershipTypeCorrect, QuorumRemains, PTL

\* No reconfiguration step, begin_joint or finalize_joint, moves between two
\* configurations with disjoint quorums.
THEOREM SuccessiveIntersection == ClusterSpec => SuccessiveQuorumsIntersect
<1>1. ClusterTypeOK /\ [ClusterNext]_cluster =>
        [\A Q1 \in SUBSET cluster.members, Q2 \in SUBSET cluster'.members :
            HasQuorum(cluster, Q1) /\ HasQuorum(cluster', Q2)
               => Q1 \intersect Q2 # {}]_cluster
  BY SuccessorsMeet
<1> QED BY <1>1, MembershipTypeCorrect, PTL DEF ClusterSpec, SuccessiveQuorumsIntersect

\* The sets of recorders at which collect_quorum of the proposers stops share
\* a recorder, in every epoch: what the proofs about one slot assume of Quorum.
THEOREM ReplySetsIntersect ==
  ClusterSpec => [](\A Q1, Q2 \in ReplySets(cluster) : Q1 \intersect Q2 # {})
<1>1. QuorumsIntersect => \A Q1, Q2 \in ReplySets(cluster) : Q1 \intersect Q2 # {}
  BY DEF QuorumsIntersect, ReplySets, StopsAt
<1> QED BY <1>1, QuorumIntersection, PTL

\* In every epoch quorum_size is the size of a smallest set has_quorum accepts:
\* collect_quorum gives up only when no quorum can be completed any more.
THEOREM QuorumSizeExact == ClusterSpec => []QuorumSizeIsExact
BY MembershipTypeCorrect, SizeIsExact, PTL

\* A node accepts as the next configuration exactly what begin_joint or
\* finalize_joint builds from its own, in every epoch.
THEOREM SuccessorTestIsExact == ClusterSpec => []SuccessorsAreTheBuiltOnes
BY MembershipTypeCorrect, SuccessorsBuilt, PTL
==============================================================================
