------------------------- MODULE ReplicaCore_proofs -------------------------
(***************************************************************************)
(* What the operations of ReplicaCore (src/src/replica.rs) preserve, for   *)
(* any limits, any length of the log and any values: the runtimes over it  *)
(* rest on these lemmas.                                                   *)
(*                                                                         *)
(* A core is Sound when restore would accept it and its commit frontier is *)
(* where commit_ready leaves it; every operation keeps it so.  A core is   *)
(* Distinct when no value waits twice, in the queue or in proposals, and   *)
(* no own proposal lies behind a slot that nobody claimed.                 *)
(***************************************************************************)
EXTENDS ReplicaCore, Lemmas

USE Zenon

Entry(V) == [proposed : Seq(V), decision : Seq(V), committed : BOOLEAN]

CoreSet(V) ==
  [log : [Slot -> Entry(V)], pending : Seq(V), next : 1 .. MaxSlot + 1, floor : 0 .. MaxSlot,
   seen : SUBSET V]

\* All but the place of the commit frontier.
Orderly(c, V) ==
  /\ c \in CoreSet(V) /\ IsFiniteSet(c.seen)
  /\ Restorable(c)
  /\ \A s \in Slot : s <= c.floor => c.log[s].proposed = << >> /\ ~c.log[s].committed
  /\ \A s \in Undecided(c) : s >= c.next

Sound(c, V) == Orderly(c, V) /\ c.next \notin Decided(c)

\* The values that wait to be decided.
Proposed(c) == UNION {Range(c.log[s].proposed) : s \in Undecided(c)}
Live(c) == Range(c.pending) \union Proposed(c)

Distinct(c) ==
  /\ IsInjective(c.pending)
  /\ \A s \in Undecided(c) : /\ IsInjective(c.log[s].proposed)
                             /\ Range(c.log[s].proposed) \cap Range(c.pending) = {}
  /\ \A s, t \in Undecided(c) :
        s # t => Range(c.log[s].proposed) \cap Range(c.log[t].proposed) = {}
  /\ \A t \in Slot : t >= c.next /\ c.log[t].proposed # << >>
                       => c.next .. t - 1 \subseteq Decided(c) \union Undecided(c)

\* The parts of a core.
LEMMA CoreParts ==
  ASSUME NEW V, NEW c \in CoreSet(V)
  PROVE  /\ c.log \in [Slot -> Entry(V)] /\ c.pending \in Seq(V)
         /\ c.next \in 1 .. MaxSlot + 1 /\ c.next \in Nat
         /\ c.floor \in 0 .. MaxSlot /\ c.floor \in Nat
         /\ c.seen \subseteq V
         /\ \A s \in Slot : /\ c.log[s] \in Entry(V) /\ s \in Nat /\ s >= 1 /\ s <= MaxSlot
                            /\ c.log[s].proposed \in Seq(V) /\ c.log[s].decision \in Seq(V)
                            /\ c.log[s].committed \in BOOLEAN
BY SMTT(20), ReplicaConfigAssumption DEF CoreSet, Entry, Slot

\* Slots are finite in number.
LEMMA SlotsFinite ==
  /\ IsFiniteSet(Slot) /\ Cardinality(Slot) = MaxSlot
  /\ \A S \in SUBSET Slot : IsFiniteSet(S) /\ Cardinality(S) \in Nat /\ Cardinality(S) <= MaxSlot
<1>1. MaxSlot \in Nat
  BY ReplicaConfigAssumption
<1>2. IsFiniteSet(1 .. MaxSlot) /\ Cardinality(1 .. MaxSlot) = IF 1 > MaxSlot THEN 0 ELSE MaxSlot - 1 + 1
  BY SMT, <1>1, FS_Interval
<1>3. IsFiniteSet(Slot) /\ Cardinality(Slot) = MaxSlot
  BY SMT, <1>1, <1>2 DEF Slot
<1>4. ASSUME NEW S \in SUBSET Slot
      PROVE  IsFiniteSet(S) /\ Cardinality(S) \in Nat /\ Cardinality(S) <= MaxSlot
  BY <1>3, FS_Subset, FS_CardinalityType
<1> QED BY <1>3, <1>4

\* A new replica.
LEMMA NewSound == ASSUME NEW V PROVE Sound(NewReplica, V) /\ Distinct(NewReplica) /\ Live(NewReplica) = {}
<1> DEFINE c == NewReplica
<1>1. << >> \in Seq(V) /\ Range(<< >>) = {} /\ IsInjective(<< >>) /\ Len(<< >>) = 0
  BY SMT DEF Range, IsInjective
<1>2. NoEntry \in Entry(V)
  BY <1>1 DEF NoEntry, Entry
<1>3. /\ c.log = [s \in Slot |-> NoEntry] /\ c.pending = << >> /\ c.next = 1 /\ c.floor = 0
      /\ c.seen = {}
  BY DEF NewReplica
<1>4. c \in CoreSet(V)
  BY SMT, <1>1, <1>2, ReplicaConfigAssumption DEF NewReplica, CoreSet
<1>5. Retained(c) = {} /\ Decided(c) = {} /\ Undecided(c) = {}
  BY SMT, <1>3 DEF Retained, Decided, Undecided, NoEntry
<1>6. IsFiniteSet({}) /\ Cardinality({}) = 0
  BY FS_EmptySet
<1>7. \A s \in Slot : c.log[s] = NoEntry /\ c.log[s].proposed = << >> /\ c.log[s].decision = << >>
                      /\ c.log[s].committed = FALSE
  BY SMT, <1>3 DEF NoEntry
<1> HIDE DEF c
<1>8. Restorable(c)
  <2>1. c.floor + 1 .. c.next - 1 = {} /\ c.next > c.floor
    BY SMT, <1>3
  <2>2. Len(c.pending) <= MaxPendingValues /\ 0 <= MaxLogSlots /\ 0 <= MaxTrackedValues
    BY SMT, <1>1, <1>3, ReplicaConfigAssumption
  <2> QED BY <1>1, <1>3, <1>5, <1>6, <1>7, <2>1, <2>2 DEF Restorable
<1>9. Sound(c, V)
  BY <1>3, <1>4, <1>5, <1>6, <1>7, <1>8 DEF Sound, Orderly
<1>10. Distinct(c) /\ Live(c) = {}
  BY <1>1, <1>3, <1>5, <1>7 DEF Distinct, Live, Proposed
<1> QED BY <1>9, <1>10 DEF c

------------------------------------------------------------------------------
(* The limits *)

\* ensure_log_capacity leaves room for the slot.
LEMMA RoomStays ==
  ASSUME NEW c, NEW d, NEW slot \in Slot, EnsureLogCapacity(c, slot),
         Cardinality(Retained(c)) <= MaxLogSlots, Retained(d) \subseteq Retained(c) \union {slot}
  PROVE  Cardinality(Retained(d)) <= MaxLogSlots
<1>1. Retained(c) \subseteq Slot /\ Retained(d) \subseteq Slot
  BY DEF Retained
<1>2. /\ IsFiniteSet(Retained(c)) /\ IsFiniteSet(Retained(c) \union {slot})
      /\ Cardinality(Retained(c)) \in Nat /\ Cardinality(Retained(d)) \in Nat
      /\ Cardinality(Retained(c) \union {slot}) \in Nat /\ MaxLogSlots \in Nat
  BY <1>1, SlotsFinite, ReplicaConfigAssumption
<1>3. Cardinality(Retained(d)) <= Cardinality(Retained(c) \union {slot})
  BY <1>2, FS_Subset
<1>4. Cardinality(Retained(c) \union {slot}) =
         IF slot \in Retained(c) THEN Cardinality(Retained(c)) ELSE Cardinality(Retained(c)) + 1
  BY <1>2, FS_AddElement
<1> QED BY SMT, <1>2, <1>3, <1>4 DEF EnsureLogCapacity

\* A part of the log fits where the log did.
LEMMA RoomShrinks ==
  ASSUME NEW c, NEW d, Cardinality(Retained(c)) <= MaxLogSlots, Retained(d) \subseteq Retained(c)
  PROVE  Cardinality(Retained(d)) <= MaxLogSlots
<1>1. Retained(c) \subseteq Slot /\ Retained(d) \subseteq Slot
  BY DEF Retained
<1>2. /\ IsFiniteSet(Retained(c)) /\ MaxLogSlots \in Nat
      /\ Cardinality(Retained(c)) \in Nat /\ Cardinality(Retained(d)) \in Nat
  BY <1>1, SlotsFinite, ReplicaConfigAssumption
<1>3. Cardinality(Retained(d)) <= Cardinality(Retained(c))
  BY <1>2, FS_Subset
<1> QED BY SMT, <1>2, <1>3

\* enqueue counts every new value.
LEMMA SeenCount ==
  ASSUME NEW V, NEW q \in Seq(V), NEW S, IsFiniteSet(S)
  PROVE  /\ IsFiniteSet(S \union Range(q))
         /\ Cardinality(S) + Len(q) <= MaxTrackedValues
              => Cardinality(S \union Range(q)) <= MaxTrackedValues
<1>1. IsFiniteSet(Range(q)) /\ Cardinality(Range(q)) <= Len(q)
  BY RangeIs
<1>2. /\ IsFiniteSet(S \union Range(q))
      /\ Cardinality(S \union Range(q)) =
           Cardinality(S) + Cardinality(Range(q)) - Cardinality(S \cap Range(q))
  BY <1>1, FS_Union
<1>3. IsFiniteSet(S \cap Range(q))
  BY <1>1, FS_Intersection
<1>4. /\ Cardinality(S) \in Nat /\ Cardinality(Range(q)) \in Nat /\ Len(q) \in Nat
      /\ Cardinality(S \cap Range(q)) \in Nat /\ MaxTrackedValues \in Nat
  BY SMT, <1>1, <1>3, FS_CardinalityType, ReplicaConfigAssumption
<1> QED BY SMT, <1>1, <1>2, <1>4

------------------------------------------------------------------------------
(* enqueue *)

\* A core whose log is that of another one is as orderly, if queue and table of
\* seen values fit.
LEMMA SameLog ==
  ASSUME NEW V, NEW c, NEW d \in CoreSet(V), Sound(c, V),
         d.log = c.log, d.next = c.next, d.floor = c.floor,
         c.seen \subseteq d.seen, IsFiniteSet(d.seen),
         Cardinality(d.seen) <= MaxTrackedValues,
         Range(d.pending) \subseteq d.seen, Len(d.pending) <= MaxPendingValues
  PROVE  /\ Sound(d, V)
         /\ Undecided(d) = Undecided(c) /\ Decided(d) = Decided(c) /\ Retained(d) = Retained(c)
         /\ Proposed(d) = Proposed(c)
<1>1. /\ Undecided(d) = Undecided(c) /\ Decided(d) = Decided(c) /\ Retained(d) = Retained(c)
      /\ Proposed(d) = Proposed(c)
  BY DEF Undecided, Decided, Retained, Proposed
<1>2. Restorable(d)
  BY <1>1 DEF Sound, Orderly, Restorable
<1> QED BY <1>1, <1>2 DEF Sound, Orderly

\* enqueue appends the new values to the queue and leaves the log alone.
LEMMA EnqueueFacts ==
  ASSUME NEW V, NEW c, Sound(c, V), NEW values \in Seq(V), IsInjective(values),
         NEW d \in Enqueue(c, values)
  PROVE  /\ Sound(d, V)
         /\ d.log = c.log /\ d.next = c.next /\ d.floor = c.floor
         /\ d.seen = c.seen \union Range(values)
         /\ Live(d) = Live(c) \union (Range(values) \ c.seen)
         /\ Distinct(c) => Distinct(d)
<1>1. c \in CoreSet(V) /\ IsFiniteSet(c.seen) /\ c.pending \in Seq(V) /\ c.seen \subseteq V
  BY CoreParts DEF Sound, Orderly
<1>2. PICK new : new = Unseen(values, c.seen)
  OBVIOUS
<1>3. /\ new \in Seq(V) /\ Range(new) = Range(values) \ c.seen /\ IsInjective(new)
      /\ Range(values) \subseteq V
  BY <1>2, UnseenFacts, RangeIs
<1>4. /\ Len(c.pending) + Len(new) <= MaxPendingValues
      /\ Cardinality(c.seen) + Len(new) <= MaxTrackedValues
      /\ d = [c EXCEPT !.pending = c.pending \o new, !.seen = c.seen \union Range(new)]
  BY <1>2 DEF Enqueue
<1>5. /\ c.pending \o new \in Seq(V) /\ Len(c.pending \o new) = Len(c.pending) + Len(new)
      /\ Range(c.pending \o new) = Range(c.pending) \union Range(new)
      /\ IsInjective(c.pending) /\ Range(c.pending) \cap Range(new) = {}
           => IsInjective(c.pending \o new)
  BY SMT, <1>1, <1>3, JoinFacts
<1>6. PICK q : q = c.pending \o new
  OBVIOUS
<1>7. /\ d \in CoreSet(V) /\ d.pending = q /\ d.seen = c.seen \union Range(values)
      /\ d.log = c.log /\ d.next = c.next /\ d.floor = c.floor
  <2>1. c.seen \union Range(new) = c.seen \union Range(values) /\ c.seen \union Range(values) \in SUBSET V
    BY <1>1, <1>3
  <2>2. q \in Seq(V) /\ d = [c EXCEPT !.pending = q, !.seen = c.seen \union Range(values)]
    BY <1>4, <1>5, <1>6, <2>1
  <2> QED BY ONLY <1>1, <2>1, <2>2 DEF CoreSet
<1>8. IsFiniteSet(d.seen) /\ Cardinality(d.seen) <= MaxTrackedValues
  <2>1. c.seen \union Range(new) = d.seen
    BY <1>3, <1>7
  <2>2. /\ IsFiniteSet(c.seen \union Range(new))
        /\ Cardinality(c.seen \union Range(new)) <= MaxTrackedValues
    BY <1>1, <1>3, <1>4, SeenCount
  <2> QED BY <2>1, <2>2
<1>9. Range(c.pending) \subseteq c.seen
  BY DEF Sound, Orderly, Restorable
<1>10. Range(d.pending) \subseteq d.seen /\ Len(d.pending) <= MaxPendingValues
  BY <1>3, <1>4, <1>5, <1>6, <1>7, <1>9
<1>11. /\ Sound(d, V) /\ Undecided(d) = Undecided(c) /\ Decided(d) = Decided(c)
       /\ Proposed(d) = Proposed(c)
  BY <1>7, <1>8, <1>10, SameLog
<1>12. Live(d) = Live(c) \union (Range(values) \ c.seen)
  BY <1>3, <1>5, <1>6, <1>7, <1>11 DEF Live
<1>13. ASSUME Distinct(c) PROVE Distinct(d)
  <2>1. IsInjective(d.pending)
    BY <1>3, <1>5, <1>6, <1>7, <1>9, <1>13 DEF Distinct
  <2>2. \A s \in Undecided(c) : Range(c.log[s].proposed) \subseteq c.seen
    BY DEF Sound, Orderly, Restorable, Undecided
  <2>3. \A s \in Undecided(d) : Range(d.log[s].proposed) \cap Range(d.pending) = {}
    BY <1>3, <1>5, <1>6, <1>7, <1>11, <1>13, <2>2 DEF Distinct
  <2> QED BY <1>7, <1>11, <1>13, <2>1, <2>3 DEF Distinct
<1> QED BY <1>7, <1>11, <1>12, <1>13

------------------------------------------------------------------------------
(* next_proposal *)

\* next_open_slot finds the first slot that nobody claimed.
LEMMA OpenSlot ==
  ASSUME NEW V, NEW c, Sound(c, V)
  PROVE  /\ NextOpenSlot(c) \in c.next .. MaxSlot + 1
         /\ NextOpenSlot(c) \notin Decided(c) \union Undecided(c)
         /\ \A s \in c.next .. NextOpenSlot(c) - 1 : s \in Decided(c) \union Undecided(c)
<1>1. c.next \in 1 .. MaxSlot + 1 /\ c.next \in Nat /\ MaxSlot \in Nat
  BY CoreParts, ReplicaConfigAssumption DEF Sound, Orderly
<1> DEFINE S == {s \in c.next .. MaxSlot + 1 : s \in Slot => s \notin Decided(c) \union Undecided(c)}
<1>2. S \in SUBSET Nat
  BY SMT, <1>1
<1>3. MaxSlot + 1 \in S
  BY SMT, <1>1 DEF Slot
<1>4. Min(S) \in S /\ \A m \in S : Min(S) <= m
  BY <1>2, <1>3, MinIs
<1>5. NextOpenSlot(c) = Min(S)
  BY DEF NextOpenSlot
<1>6. Decided(c) \subseteq Slot /\ Undecided(c) \subseteq Slot
  BY DEF Decided, Undecided
<1>7. ASSUME NEW s \in c.next .. Min(S) - 1 PROVE s \in Decided(c) \union Undecided(c)
  <2>1. s \in c.next .. MaxSlot + 1 /\ ~(Min(S) <= s)
    BY SMT, <1>1, <1>2, <1>4
  <2>2. s \notin S
    BY <1>4, <2>1
  <2> QED BY <2>1, <2>2
<1> QED BY <1>4, <1>5, <1>6, <1>7

\* note_proposed, for a slot from the commit frontier on.
LEMMA NoteProposedFacts ==
  ASSUME NEW V, NEW c, Sound(c, V), NEW slot \in Slot, slot >= c.next, slot \notin Decided(c),
         NEW values \in Seq(V), values # << >>, NEW d \in NoteProposed(c, slot, values)
  PROVE  /\ Sound(d, V)
         /\ d.pending = c.pending /\ d.next = c.next /\ d.floor = c.floor
         /\ d.seen = c.seen \union Range(values)
         /\ Decided(d) = Decided(c) /\ Undecided(d) = Undecided(c) \union {slot}
         /\ \A s \in Slot : /\ d.log[s].proposed = IF s = slot THEN values ELSE c.log[s].proposed
                            /\ d.log[s].decision = c.log[s].decision
                            /\ d.log[s].committed = c.log[s].committed
<1>1. c \in CoreSet(V) /\ IsFiniteSet(c.seen)
  BY DEF Sound, Orderly
<1>2. /\ c.log \in [Slot -> Entry(V)] /\ c.next \in Nat /\ c.floor \in Nat
      /\ Range(values) \subseteq V /\ IsFiniteSet(Range(values))
  BY <1>1, CoreParts, RangeIs
<1>3. /\ Cardinality(c.seen \union Range(values)) <= MaxTrackedValues
      /\ EnsureLogCapacity(c, slot)
      /\ d = [c EXCEPT !.seen = c.seen \union Range(values), !.log[slot].proposed = values]
  BY DEF NoteProposed
<1>4. PICK log : log = [c.log EXCEPT ![slot].proposed = values]
  OBVIOUS
<1>5. /\ log \in [Slot -> Entry(V)]
      /\ \A s \in Slot : /\ log[s].proposed = IF s = slot THEN values ELSE c.log[s].proposed
                         /\ log[s].decision = c.log[s].decision
                         /\ log[s].committed = c.log[s].committed
                         /\ s # slot => log[s] = c.log[s]
  BY <1>2, <1>4 DEF Entry
<1>6. c.seen \union Range(values) \in SUBSET V
  BY <1>1, <1>2, CoreParts
<1>7. /\ d \in CoreSet(V) /\ d.log = log /\ d.seen = c.seen \union Range(values)
      /\ d.pending = c.pending /\ d.next = c.next /\ d.floor = c.floor
  BY <1>1, <1>3, <1>4, <1>5, <1>6 DEF CoreSet
<1>8. Decided(d) = Decided(c)
  BY <1>5, <1>7 DEF Decided
<1>9. Undecided(d) = Undecided(c) \union {slot}
  BY SMT, <1>5, <1>7 DEF Undecided, Decided
<1>10. Cardinality(Retained(d)) <= MaxLogSlots
  <2>1. Retained(d) \subseteq Retained(c) \union {slot}
    BY <1>5, <1>7 DEF Retained
  <2> QED BY <1>3, <2>1, RoomStays DEF Sound, Orderly, Restorable
<1>11. IsFiniteSet(d.seen)
  BY ZenonT(40), <1>1, <1>2, <1>7, FS_Union
<1>12. Restorable(d)
  <2>1. Restorable(c)
    BY DEF Sound, Orderly
  <2>2. /\ Len(d.pending) <= MaxPendingValues /\ Cardinality(d.seen) <= MaxTrackedValues
        /\ Range(d.pending) \subseteq d.seen /\ d.next > d.floor
    BY <1>3, <1>7, <2>1 DEF Restorable
  <2>3. \A s \in Slot : Range(d.log[s].proposed) \union Range(d.log[s].decision) \subseteq d.seen
    BY <1>5, <1>7, <2>1 DEF Restorable
  <2>4. \A s \in d.floor + 1 .. d.next - 1 : d.log[s].committed /\ s \in Decided(d)
    <3>1. \A s \in c.floor + 1 .. c.next - 1 : c.log[s].committed /\ s \in Decided(c)
      BY <2>1 DEF Restorable
    <3>2. \A s \in Decided(c) : s \in Slot
      BY DEF Decided
    <3> QED BY <1>5, <1>7, <1>8, <3>1, <3>2
  <2>5. \A s \in Slot : s >= d.next => ~d.log[s].committed
    BY <1>5, <1>7, <2>1 DEF Restorable
  <2> QED BY <1>10, <2>2, <2>3, <2>4, <2>5 DEF Restorable
<1>13. \A s \in Slot : s <= d.floor => d.log[s].proposed = << >> /\ ~d.log[s].committed
  <2>1. c.next > c.floor
    BY DEF Sound, Orderly, Restorable
  <2>2. \A s \in Slot : s <= c.floor => /\ s # slot /\ c.log[s].proposed = << >>
                                         /\ ~c.log[s].committed
    BY SMT, <1>2, <2>1 DEF Sound, Orderly, Slot
  <2> QED BY <1>5, <1>7, <2>2
<1>14. Sound(d, V)
  BY <1>7, <1>8, <1>9, <1>11, <1>12, <1>13 DEF Sound, Orderly
<1> QED BY <1>5, <1>7, <1>8, <1>9, <1>14

\* The next batch is a part of the queue that is not empty.
LEMMA BatchTaken ==
  ASSUME NEW V, NEW c, c.pending \in Seq(V), c.pending # << >>
  PROVE  TakeBatch(c) \in 1 .. Len(c.pending)
<1>1. PICK n \in Nat : n = Len(c.pending) /\ n >= 1
  <2>1. Len(c.pending) # 0
    BY SMT
  <2> QED BY SMT, <2>1
<1>2. BatchSize \in Nat
  BY ReplicaConfigAssumption
<1>3. PICK k : k = Min({BatchSize, n})
  OBVIOUS
<1>4. k \in {BatchSize, n} /\ k <= n
  BY <1>2, <1>3, MinIs
<1>5. PICK b \in Nat : b >= 1 /\ b >= k /\ k \in Nat
  BY <1>1, <1>2, <1>4
<1>6. Max({1, k}) \in {1, k} /\ \A m \in {1, k} : m <= Max({1, k})
  <2>1. PICK S : S = {1, k}
    OBVIOUS
  <2>2. S \in SUBSET Int /\ S # {} /\ b \in Int /\ \A m \in S : m <= b
    BY SMT, <1>5, <2>1
  <2>3. Max(S) \in S /\ \A m \in S : m <= Max(S)
    BY <2>2, MaxIs
  <2> QED BY <2>1, <2>3
<1> QED BY SMT, <1>1, <1>3, <1>4, <1>5, <1>6 DEF TakeBatch

\* What is left when the next batch has left the queue.
LEMMA DrainedFacts ==
  ASSUME NEW V, NEW c, Sound(c, V), c.pending # << >>
  PROVE  LET d == Drained(c)
             batch == SubSeq(c.pending, 1, TakeBatch(c))
         IN  /\ Sound(d, V)
             /\ d.log = c.log /\ d.next = c.next /\ d.floor = c.floor /\ d.seen = c.seen
             /\ Undecided(d) = Undecided(c) /\ Decided(d) = Decided(c) /\ Retained(d) = Retained(c)
             /\ Proposed(d) = Proposed(c)
             /\ batch \in Seq(V) /\ batch # << >>
             /\ Range(c.pending) = Range(batch) \union Range(d.pending)
             /\ IsInjective(c.pending) => /\ IsInjective(batch) /\ IsInjective(d.pending)
                                          /\ Range(batch) \cap Range(d.pending) = {}
             /\ Distinct(c) => Distinct(d)
<1>1. c \in CoreSet(V) /\ c.pending \in Seq(V)
  BY CoreParts DEF Sound, Orderly
<1>2. PICK k : k = TakeBatch(c)
  OBVIOUS
<1>3. k \in 1 .. Len(c.pending) /\ k \in 0 .. Len(c.pending) /\ k \in Nat /\ Len(c.pending) \in Nat
  BY SMT, <1>1, <1>2, BatchTaken
<1>4. PICK batch, rest : batch = SubSeq(c.pending, 1, k) /\ rest = SubSeq(c.pending, k + 1, Len(c.pending))
  OBVIOUS
<1>5. /\ batch \in Seq(V) /\ rest \in Seq(V) /\ Len(batch) = k /\ Len(rest) = Len(c.pending) - k
      /\ Range(c.pending) = Range(batch) \union Range(rest)
      /\ IsInjective(c.pending) => /\ IsInjective(batch) /\ IsInjective(rest)
                                   /\ Range(batch) \cap Range(rest) = {}
  BY SMT, <1>1, <1>3, <1>4, SplitFacts
<1>6. batch # << >>
  <2>1. Len(batch) # 0 /\ Len(<< >>) = 0
    BY SMT, <1>3, <1>5
  <2> QED BY <2>1
<1>7. PICK d : d = Drained(c)
  OBVIOUS
<1>8. d = [c EXCEPT !.pending = rest]
  BY <1>2, <1>4, <1>7 DEF Drained
<1>9. /\ d \in CoreSet(V) /\ d.log = c.log /\ d.next = c.next /\ d.floor = c.floor
      /\ d.seen = c.seen /\ d.pending = rest
  BY ONLY <1>1, <1>5, <1>8 DEF CoreSet
<1>10. /\ Range(rest) \subseteq c.seen /\ Len(rest) <= MaxPendingValues
       /\ IsFiniteSet(c.seen) /\ Cardinality(c.seen) <= MaxTrackedValues
  <2>1. Len(c.pending) <= MaxPendingValues /\ MaxPendingValues \in Nat
    BY ReplicaConfigAssumption DEF Sound, Orderly, Restorable
  <2> QED BY SMT, <1>3, <1>5, <2>1 DEF Sound, Orderly, Restorable
<1>11. /\ Sound(d, V)
       /\ Undecided(d) = Undecided(c) /\ Decided(d) = Decided(c) /\ Retained(d) = Retained(c)
       /\ Proposed(d) = Proposed(c)
  BY <1>9, <1>10, SameLog
<1>12. ASSUME Distinct(c) PROVE Distinct(d)
  <2>1. /\ IsInjective(c.pending)
        /\ \A s \in Undecided(c) : /\ IsInjective(c.log[s].proposed)
                                   /\ Range(c.log[s].proposed) \cap Range(c.pending) = {}
    BY <1>12 DEF Distinct
  <2>2. IsInjective(rest) /\ Range(rest) \subseteq Range(c.pending)
    BY <1>5, <2>1
  <2>3. \A s \in Undecided(c) : Range(c.log[s].proposed) \cap Range(rest) = {}
    BY <2>1, <2>2
  <2> QED BY ONLY <1>9, <1>11, <1>12, <2>1, <2>2, <2>3 DEF Distinct
<1> QED BY <1>2, <1>4, <1>5, <1>6, <1>7, <1>9, <1>11, <1>12

\* next_proposal moves the next batch from the queue to the first open slot.
LEMMA NextProposalFacts ==
  ASSUME NEW V, NEW c, Sound(c, V), CanPropose(c), NextOpenSlot(c) <= MaxSlot,
         NEW d \in NextProposal(c)
  PROVE  /\ Sound(d, V)
         /\ d.next = c.next /\ d.floor = c.floor /\ d.seen = c.seen
         /\ Decided(d) = Decided(c) /\ Undecided(d) = Undecided(c) \union {NextOpenSlot(c)}
         /\ NextOpenSlot(c) \in Slot
         /\ \A s \in Slot : /\ d.log[s].decision = c.log[s].decision
                            /\ s # NextOpenSlot(c) => d.log[s].proposed = c.log[s].proposed
         /\ Live(d) = Live(c)
         /\ Distinct(c) => Distinct(d)
<1>1. PICK slot, batch, e : /\ slot = NextOpenSlot(c) /\ e = Drained(c)
                            /\ batch = SubSeq(c.pending, 1, TakeBatch(c))
  OBVIOUS
<1>2. c.next \in Nat /\ c.next >= 1 /\ MaxSlot \in Nat /\ c.pending # << >>
  BY SMT, CoreParts, ReplicaConfigAssumption DEF Sound, Orderly, CanPropose
<1>3. /\ slot \in c.next .. MaxSlot + 1 /\ slot \notin Decided(c) \union Undecided(c)
      /\ \A s \in c.next .. slot - 1 : s \in Decided(c) \union Undecided(c)
  BY <1>1, OpenSlot
<1>4. slot \in Slot /\ slot >= c.next /\ slot \in Nat
  BY SMT, <1>1, <1>2, <1>3 DEF Slot
<1>5. /\ Sound(e, V)
      /\ e.log = c.log /\ e.next = c.next /\ e.floor = c.floor /\ e.seen = c.seen
      /\ Undecided(e) = Undecided(c) /\ Decided(e) = Decided(c) /\ Proposed(e) = Proposed(c)
      /\ batch \in Seq(V) /\ batch # << >>
      /\ Range(c.pending) = Range(batch) \union Range(e.pending)
      /\ IsInjective(c.pending) => /\ IsInjective(batch) /\ IsInjective(e.pending)
                                   /\ Range(batch) \cap Range(e.pending) = {}
      /\ Distinct(c) => Distinct(e)
  BY ZenonT(40), <1>1, <1>2, DrainedFacts
<1>6. d \in NoteProposed(e, slot, batch)
  BY <1>1 DEF NextProposal
<1>7. /\ Sound(d, V)
      /\ d.pending = e.pending /\ d.next = e.next /\ d.floor = e.floor
      /\ d.seen = e.seen \union Range(batch)
      /\ Decided(d) = Decided(e) /\ Undecided(d) = Undecided(e) \union {slot}
      /\ \A s \in Slot : /\ d.log[s].proposed = IF s = slot THEN batch ELSE e.log[s].proposed
                         /\ d.log[s].decision = e.log[s].decision
  BY SMT, <1>3, <1>4, <1>5, <1>6, NoteProposedFacts
<1>8. Undecided(c) \subseteq Slot
  BY DEF Undecided
<1>9. Range(batch) \subseteq c.seen
  BY <1>5 DEF Sound, Orderly, Restorable
<1>10. Proposed(d) = Proposed(c) \union Range(batch)
  <2>1. \A s \in Undecided(c) : s # slot /\ d.log[s].proposed = c.log[s].proposed
    BY <1>3, <1>5, <1>7, <1>8
  <2>2. d.log[slot].proposed = batch
    BY <1>4, <1>7
  <2> QED BY SMT, <1>5, <1>7, <2>1, <2>2 DEF Proposed
<1>11. Live(d) = Live(c)
  BY <1>5, <1>7, <1>10 DEF Live
<1>12. ASSUME Distinct(c) PROVE Distinct(d)
  <2>1. Distinct(e) /\ IsInjective(c.pending)
    BY <1>5, <1>12 DEF Distinct
  <2>2. IsInjective(d.pending)
    BY <1>5, <1>7, <2>1
  <2>3. \A s \in Undecided(d) : s \in Slot /\ (s = slot \/ (s \in Undecided(c) /\ s # slot))
    BY <1>3, <1>4, <1>5, <1>7, <1>8
  <2>4. \A s \in Undecided(c) : /\ IsInjective(c.log[s].proposed)
                                /\ Range(c.log[s].proposed) \cap Range(batch) = {}
                                /\ Range(c.log[s].proposed) \cap Range(e.pending) = {}
    BY <1>5, <1>12 DEF Distinct
  <2>5. \A s \in Undecided(d) : /\ IsInjective(d.log[s].proposed)
                                /\ Range(d.log[s].proposed) \cap Range(d.pending) = {}
    BY SMT, <1>5, <1>7, <2>1, <2>3, <2>4
  <2>6. ASSUME NEW s \in Undecided(d), NEW t \in Undecided(d), s # t
        PROVE  Range(d.log[s].proposed) \cap Range(d.log[t].proposed) = {}
    <3>1. \A x, y \in Undecided(c) :
             x # y => Range(c.log[x].proposed) \cap Range(c.log[y].proposed) = {}
      BY <1>12 DEF Distinct
    <3>2. CASE s = slot
      BY <1>5, <1>7, <2>3, <2>4, <2>6, <3>2
    <3>3. CASE t = slot
      BY <1>5, <1>7, <2>3, <2>4, <2>6, <3>3
    <3>4. CASE s # slot /\ t # slot
      <4>1. s \in Undecided(c) /\ t \in Undecided(c) /\ s \in Slot /\ t \in Slot
        BY <2>3, <2>6, <3>4
      <4>2. d.log[s].proposed = c.log[s].proposed /\ d.log[t].proposed = c.log[t].proposed
        BY <1>5, <1>7, <3>4, <4>1
      <4> QED BY <2>6, <3>1, <4>1, <4>2
    <3> QED BY <3>2, <3>3, <3>4
  <2>7. ASSUME NEW t \in Slot, t >= d.next, d.log[t].proposed # << >>
        PROVE  d.next .. t - 1 \subseteq Decided(d) \union Undecided(d)
    <3>1. CASE t = slot
      BY <1>3, <1>5, <1>7, <3>1
    <3>2. CASE t # slot
      BY <1>5, <1>7, <1>12, <2>7, <3>2 DEF Distinct
    <3> QED BY <3>1, <3>2
  <2> QED BY ONLY <2>2, <2>5, <2>6, <2>7 DEF Distinct
<1> QED BY SMT, <1>1, <1>4, <1>5, <1>7, <1>9, <1>11, <1>12

\* It succeeds when no value waits twice and the log has room.
LEMMA NextProposalSucceeds ==
  ASSUME NEW V, NEW c, Sound(c, V), Distinct(c), CanPropose(c), NextOpenSlot(c) <= MaxSlot,
         MaxLogSlots >= MaxSlot
  PROVE  NextProposal(c) # {}
<1>1. PICK slot, batch, e : /\ slot = NextOpenSlot(c) /\ e = Drained(c)
                            /\ batch = SubSeq(c.pending, 1, TakeBatch(c))
  OBVIOUS
<1>2. c.pending # << >>
  BY DEF CanPropose
<1>3. /\ Sound(e, V) /\ e.seen = c.seen /\ batch \in Seq(V) /\ IsInjective(batch)
      /\ Range(c.pending) = Range(batch) \union Range(e.pending)
  BY <1>1, <1>2, DrainedFacts DEF Distinct
<1>4. Cardinality(Range(batch)) = Len(batch)
  BY <1>3, RangeIs
<1>5. Cardinality(e.seen \union Range(batch)) <= MaxTrackedValues
  <2>1. Range(batch) \subseteq c.seen /\ Cardinality(c.seen) <= MaxTrackedValues
    BY <1>3 DEF Sound, Orderly, Restorable
  <2>2. e.seen \union Range(batch) = c.seen
    BY <1>3, <2>1
  <2> QED BY <2>1, <2>2
<1>6. slot \in Slot
  <2>1. slot \in c.next .. MaxSlot + 1 /\ c.next \in Nat /\ c.next >= 1 /\ MaxSlot \in Nat
    BY SMT, <1>1, OpenSlot, CoreParts, ReplicaConfigAssumption DEF Sound, Orderly
  <2> QED BY SMT, <1>1, <2>1 DEF Slot
<1>7. EnsureLogCapacity(e, slot)
  <2>1. ASSUME slot \notin Retained(e) PROVE Cardinality(Retained(e)) < MaxLogSlots
    <3>1. Retained(e) \subseteq Slot /\ Retained(e) \union {slot} \subseteq Slot
      BY <1>6 DEF Retained
    <3>2. /\ IsFiniteSet(Retained(e)) /\ Cardinality(Retained(e)) \in Nat
          /\ Cardinality(Retained(e) \union {slot}) <= MaxSlot
      BY <3>1, SlotsFinite
    <3>3. Cardinality(Retained(e) \union {slot}) = Cardinality(Retained(e)) + 1
      BY <2>1, <3>2, FS_AddElement
    <3> QED BY SMT, <3>2, <3>3, ReplicaConfigAssumption
  <2> QED BY <2>1 DEF EnsureLogCapacity
<1> QED BY <1>1, <1>4, <1>5, <1>7 DEF NextProposal, NoteProposed

------------------------------------------------------------------------------
(* apply_decision *)

\* commit_ready commits the decided slots at the frontier and nothing else.
LEMMA CommitReadyFacts ==
  ASSUME NEW V, NEW c, Orderly(c, V)
  PROVE  LET d == CommitReady(c)
         IN  /\ Sound(d, V)
             /\ d.pending = c.pending /\ d.floor = c.floor /\ d.seen = c.seen /\ d.next >= c.next
             /\ \A s \in c.next .. d.next - 1 : s \in Decided(c)
             /\ Decided(d) = Decided(c) /\ Undecided(d) = Undecided(c)
             /\ \A s \in Slot : /\ d.log[s].decision = c.log[s].decision
                                /\ s \in Undecided(c) \/ s >= d.next
                                     => d.log[s].proposed = c.log[s].proposed
<1>1. /\ c \in CoreSet(V) /\ c.log \in [Slot -> Entry(V)] /\ MaxSlot \in Nat
      /\ c.next \in 1 .. MaxSlot + 1 /\ c.next \in Nat /\ c.floor \in Nat
      /\ Restorable(c)
  BY CoreParts, ReplicaConfigAssumption DEF Orderly
<1> DEFINE S == {s \in c.next - 1 .. MaxSlot : c.next .. s \subseteq Decided(c)}
<1>2. S \in SUBSET Int /\ \A s \in S : s <= MaxSlot
  BY SMT, <1>1
<1>3. c.next - 1 \in S
  <2>1. c.next .. c.next - 1 = {}
    BY SMT, <1>1
  <2> QED BY SMT, <1>1, <2>1
<1>4. PICK end : end = Max(S)
  OBVIOUS
<1>5. end \in S /\ \A m \in S : m <= end
  <2>1. MaxSlot \in Int /\ S # {}
    BY SMT, <1>1, <1>3
  <2> HIDE DEF S
  <2>2. Max(S) \in S /\ \A m \in S : m <= Max(S)
    BY ONLY <1>2, <2>1, MaxIs
  <2> QED BY <1>4, <2>2
<1>6. /\ end \in Int /\ end >= c.next - 1 /\ end <= MaxSlot
      /\ \A s \in c.next .. end : s \in Decided(c)
  BY SMT, <1>1, <1>5
<1>7. end + 1 \notin Decided(c)
  <2>1. ASSUME end + 1 \in Decided(c) PROVE FALSE
    <3>1. end + 1 \in c.next - 1 .. MaxSlot
      BY SMT, <1>1, <1>6, <2>1 DEF Decided, Slot
    <3>2. \A s \in c.next .. end + 1 : s \in c.next .. end \/ s = end + 1
      BY SMT, <1>1, <1>6
    <3>3. end + 1 \in S
      BY <1>6, <2>1, <3>1, <3>2
    <3> QED BY SMT, <1>5, <1>6, <3>3
  <2> QED BY <2>1
<1>8. PICK log : log = [s \in Slot |->
                          IF s \in c.next .. end
                          THEN [c.log[s] EXCEPT !.committed = TRUE, !.proposed = << >>]
                          ELSE c.log[s]]
  OBVIOUS
<1>9. PICK d : d = CommitReady(c)
  OBVIOUS
<1>10. d = [c EXCEPT !.log = log, !.next = end + 1]
  BY <1>4, <1>8, <1>9 DEF CommitReady
<1> HIDE DEF S
<1>11. /\ log \in [Slot -> Entry(V)]
       /\ \A s \in Slot :
             /\ log[s].decision = c.log[s].decision
             /\ s \notin c.next .. end => log[s] = c.log[s]
             /\ s \in c.next .. end => log[s].committed = TRUE /\ log[s].proposed = << >>
  <2>1. << >> \in Seq(V)
    BY SMT
  <2>2. ASSUME NEW s \in Slot
        PROVE  /\ log[s] \in Entry(V) /\ log[s].decision = c.log[s].decision
               /\ s \notin c.next .. end => log[s] = c.log[s]
               /\ s \in c.next .. end => log[s].committed = TRUE /\ log[s].proposed = << >>
    <3>1. c.log[s] \in Entry(V)
      BY <1>1
    <3>2. log[s] = IF s \in c.next .. end
                   THEN [c.log[s] EXCEPT !.committed = TRUE, !.proposed = << >>]
                   ELSE c.log[s]
      BY <1>8
    <3> QED BY ONLY <2>1, <3>1, <3>2 DEF Entry
  <2>3. DOMAIN log = Slot /\ log = [s \in Slot |-> log[s]]
    BY <1>8
  <2> QED BY <2>2, <2>3
<1>12. end + 1 \in 1 .. MaxSlot + 1
  BY SMT, <1>1, <1>6
<1>13. /\ d \in CoreSet(V) /\ d.log = log /\ d.next = end + 1
       /\ d.pending = c.pending /\ d.floor = c.floor /\ d.seen = c.seen
  BY ONLY <1>1, <1>10, <1>11, <1>12 DEF CoreSet
<1>14. Decided(d) = Decided(c)
  BY <1>11, <1>13 DEF Decided
<1>15. Undecided(d) = Undecided(c)
  <2>1. \A s \in Slot : s \in c.next .. end => c.log[s].decision # << >>
    BY <1>6 DEF Decided
  <2> QED BY SMT, <1>11, <1>13, <2>1 DEF Undecided
<1>16. \A s \in Slot : s \in Undecided(c) \/ s >= d.next => d.log[s].proposed = c.log[s].proposed
  <2>1. \A s \in Slot : s \in Undecided(c) \/ s >= d.next => s \notin c.next .. end
    BY SMT, <1>6, <1>13 DEF Undecided, Decided, Slot
  <2> QED BY <1>11, <1>13, <2>1
<1>17. Restorable(d)
  <2>1. Retained(d) \subseteq Retained(c)
    <3>1. ASSUME NEW s \in Slot, c.log[s] = NoEntry PROVE d.log[s] = NoEntry
      <4>1. c.log[s].decision = << >>
        BY SMT, <3>1 DEF NoEntry
      <4>2. s \notin c.next .. end
        BY <1>6, <4>1 DEF Decided
      <4> QED BY <1>11, <1>13, <3>1, <4>2
    <3> QED BY <3>1 DEF Retained
  <2>2. Cardinality(Retained(d)) <= MaxLogSlots
    BY <1>1, <2>1, RoomShrinks DEF Restorable
  <2>3. /\ Len(d.pending) <= MaxPendingValues /\ Cardinality(d.seen) <= MaxTrackedValues
        /\ Range(d.pending) \subseteq d.seen
    BY <1>1, <1>13 DEF Restorable
  <2>4. d.next > d.floor
    BY SMT, <1>1, <1>6, <1>13 DEF Restorable
  <2>5. \A s \in Slot : Range(d.log[s].proposed) \union Range(d.log[s].decision) \subseteq d.seen
    <3>1. Range(<< >>) = {}
      BY SMT DEF Range
    <3> QED BY <1>1, <1>11, <1>13, <3>1 DEF Restorable
  <2>6. ASSUME NEW s \in d.floor + 1 .. d.next - 1 PROVE d.log[s].committed /\ s \in Decided(d)
    <3>1. s \in c.floor + 1 .. c.next - 1 \/ s \in c.next .. end
      BY SMT, <1>1, <1>6, <1>13
    <3>2. s \in Slot
      BY SMT, <1>1, <1>6, <1>13 DEF Slot
    <3>3. CASE s \in c.next .. end
      BY <1>6, <1>11, <1>13, <1>14, <3>2, <3>3
    <3>4. CASE s \in c.floor + 1 .. c.next - 1
      <4>1. c.log[s].committed /\ s \in Decided(c) /\ s \notin c.next .. end
        BY SMT, <1>1, <3>4 DEF Restorable
      <4> QED BY <1>11, <1>13, <1>14, <3>2, <4>1
    <3> QED BY <3>1, <3>3, <3>4
  <2>7. ASSUME NEW s \in Slot, s >= d.next PROVE ~d.log[s].committed
    <3>1. s >= c.next /\ s \notin c.next .. end
      BY SMT, <1>1, <1>6, <1>13, <2>7 DEF Slot
    <3> QED BY <1>1, <1>11, <1>13, <3>1 DEF Restorable
  <2> QED BY <2>2, <2>3, <2>4, <2>5, <2>6, <2>7 DEF Restorable
<1>18. \A s \in Slot : s <= d.floor => d.log[s].proposed = << >> /\ ~d.log[s].committed
  <2>1. ASSUME NEW s \in Slot, s <= c.floor
        PROVE  s \notin c.next .. end /\ c.log[s].proposed = << >> /\ ~c.log[s].committed
    BY SMT, <1>1, <2>1 DEF Restorable, Orderly, Slot
  <2> QED BY <1>11, <1>13, <2>1
<1>19. \A s \in Undecided(d) : s >= d.next
  <2>1. \A s \in Undecided(c) : s \in Slot /\ s >= c.next /\ s \notin Decided(c)
    BY DEF Orderly, Undecided, Decided
  <2>2. \A s \in Undecided(c) : s >= end + 1
    BY SMT, <1>1, <1>6, <2>1 DEF Slot
  <2> QED BY <1>13, <1>15, <2>2
<1>20. Sound(d, V)
  BY <1>7, <1>13, <1>14, <1>17, <1>18, <1>19 DEF Sound, Orderly
<1>21. d.next >= c.next /\ \A s \in c.next .. d.next - 1 : s \in Decided(c)
  BY SMT, <1>1, <1>6, <1>13
<1> QED BY <1>9, <1>11, <1>13, <1>14, <1>15, <1>16, <1>20, <1>21

\* The core between the two halves of apply_decision: the decision is noted, the
\* frontier not yet moved.
Noted(c, slot, values, q) ==
  [c EXCEPT !.pending = q, !.log[slot].decision = values, !.seen = c.seen \union Range(values)]

MayNote(c, V, slot, values, q) ==
  /\ Sound(c, V) /\ slot \in Slot /\ slot \notin Decided(c)
  /\ values \in Seq(V) /\ values # << >>
  /\ Cardinality(c.seen \union Range(values)) <= MaxTrackedValues
  /\ EnsureLogCapacity(c, slot)
  /\ q \in Seq(V) /\ Range(q) \subseteq c.seen /\ Len(q) <= MaxPendingValues

NotedIn(c, V, slot, values, q, d) ==
  /\ Orderly(d, V)
  /\ d.pending = q /\ d.floor = c.floor /\ d.next = c.next
  /\ d.seen = c.seen \union Range(values)
  /\ Decided(d) = Decided(c) \union {slot} /\ Undecided(d) = Undecided(c) \ {slot}
  /\ \A s \in Slot : /\ d.log[s].decision = IF s = slot THEN values ELSE c.log[s].decision
                     /\ d.log[s].proposed = c.log[s].proposed

\* What noting a decision leaves of the core.
LEMMA DecisionNoted ==
  ASSUME NEW V, NEW c, NEW slot, NEW values, NEW q, MayNote(c, V, slot, values, q)
  PROVE  NotedIn(c, V, slot, values, q, Noted(c, slot, values, q))
<1> USE DEF MayNote
<1>0. PICK d : d = Noted(c, slot, values, q)
  OBVIOUS
<1>1. /\ c \in CoreSet(V) /\ IsFiniteSet(c.seen) /\ c.log \in [Slot -> Entry(V)]
      /\ c.next \in Nat /\ c.floor \in Nat /\ Restorable(c) /\ c.seen \subseteq V
      /\ Range(values) \subseteq V /\ IsFiniteSet(Range(values)) /\ slot \in Nat
  BY CoreParts, RangeIs DEF Sound, Orderly
<1>3. PICK log, seen : /\ log = [c.log EXCEPT ![slot].decision = values]
                       /\ seen = c.seen \union Range(values)
  OBVIOUS
<1>4. /\ log \in [Slot -> Entry(V)]
      /\ \A s \in Slot : /\ log[s].decision = IF s = slot THEN values ELSE c.log[s].decision
                         /\ log[s].proposed = c.log[s].proposed
                         /\ log[s].committed = c.log[s].committed
                         /\ s # slot => log[s] = c.log[s]
  BY <1>1, <1>3 DEF Entry
<1>5. seen \in SUBSET V /\ IsFiniteSet(seen)
  BY <1>1, <1>3, FS_Union
<1>6. d = [c EXCEPT !.pending = q, !.log = log, !.seen = seen]
  BY <1>0, <1>1, <1>3 DEF CoreSet, Noted
<1>7. /\ d \in CoreSet(V) /\ d.log = log /\ d.pending = q /\ d.seen = seen
      /\ d.next = c.next /\ d.floor = c.floor
  BY ONLY <1>1, <1>4, <1>5, <1>6, q \in Seq(V) DEF CoreSet
<1>8. Decided(d) = Decided(c) \union {slot} /\ Undecided(d) = Undecided(c) \ {slot}
  BY SMT, <1>4, <1>7 DEF Decided, Undecided
<1>9. Restorable(d)
  <2>1. Retained(d) \subseteq Retained(c) \union {slot}
    BY <1>4, <1>7 DEF Retained
  <2>2. Cardinality(Retained(d)) <= MaxLogSlots
    BY <1>1, <2>1, RoomStays DEF Restorable
  <2>3. /\ Len(d.pending) <= MaxPendingValues /\ Cardinality(d.seen) <= MaxTrackedValues
        /\ Range(d.pending) \subseteq d.seen /\ d.next > d.floor
    BY <1>1, <1>3, <1>7 DEF Restorable
  <2>4. \A s \in Slot : Range(d.log[s].proposed) \union Range(d.log[s].decision) \subseteq d.seen
    BY SMT, <1>1, <1>3, <1>4, <1>7 DEF Restorable
  <2>5. \A s \in d.floor + 1 .. d.next - 1 : d.log[s].committed /\ s \in Decided(d)
    <3>1. \A s \in c.floor + 1 .. c.next - 1 : c.log[s].committed /\ s \in Decided(c)
      BY <1>1 DEF Restorable
    <3>2. \A s \in Decided(c) : s \in Slot
      BY DEF Decided
    <3> QED BY <1>4, <1>7, <1>8, <3>1, <3>2
  <2>6. \A s \in Slot : s >= d.next => ~d.log[s].committed
    BY <1>1, <1>4, <1>7 DEF Restorable
  <2> QED BY <2>2, <2>3, <2>4, <2>5, <2>6 DEF Restorable
<1>10. \A s \in Slot : s <= d.floor => d.log[s].proposed = << >> /\ ~d.log[s].committed
  BY <1>4, <1>7 DEF Sound, Orderly
<1>11. \A s \in Undecided(d) : s >= d.next
  BY <1>7, <1>8 DEF Sound, Orderly
<1>12. Orderly(d, V)
  BY <1>5, <1>7, <1>9, <1>10, <1>11 DEF Orderly
<1> QED BY <1>0, <1>3, <1>4, <1>7, <1>8, <1>12 DEF NotedIn

\* apply_decision of a slot that had no decision: the values of its own proposal
\* that lost go back to the queue.
LEMMA ApplyDecisionFacts ==
  ASSUME NEW V, NEW c, Sound(c, V), NEW slot \in Slot, slot \notin Decided(c),
         NEW values \in Seq(V), values # << >>, NEW d \in ApplyDecision(c, slot, values)
  PROVE  /\ Sound(d, V)
         /\ d.floor = c.floor /\ d.next >= c.next /\ d.seen = c.seen \union Range(values)
         /\ \A s \in c.next .. d.next - 1 : s \in Decided(d)
         /\ Decided(d) = Decided(c) \union {slot} /\ Undecided(d) = Undecided(c) \ {slot}
         /\ \A s \in Slot : d.log[s].decision = IF s = slot THEN values ELSE c.log[s].decision
         /\ \A s \in Undecided(d) : d.log[s].proposed = c.log[s].proposed
         /\ Live(c) \subseteq Live(d) \union Range(values)
         /\ Range(d.pending) = Range(c.pending) \union (Range(c.log[slot].proposed) \ Range(values))
         /\ Distinct(c) => Distinct(d)
<1>1. c.log[slot].decision = << >>
  BY DEF Decided
<1>2. c.pending \in Seq(V) /\ c.log[slot].proposed \in Seq(V) /\ c.next \in Nat
  BY CoreParts DEF Sound, Orderly
<1>3. PICK back, q, e : /\ back = Requeue(c, slot, values) /\ q = back \o c.pending
                        /\ e = [c EXCEPT !.pending = back \o c.pending,
                                         !.log[slot].decision = values,
                                         !.seen = c.seen \union Range(values)]
  OBVIOUS
<1>4. /\ Cardinality(c.seen \union Range(values)) <= MaxTrackedValues
      /\ EnsureLogCapacity(c, slot)
      /\ back = << >> \/ Len(c.pending) + Len(back) <= MaxPendingValues
      /\ d = CommitReady(e)
  BY <1>1, <1>3 DEF ApplyDecision
<1>5. /\ back \in Seq(V) /\ Range(back) = Range(c.log[slot].proposed) \ Range(values)
      /\ IsInjective(c.log[slot].proposed) => IsInjective(back)
  BY SMT, <1>2, <1>3, UnseenFacts DEF Requeue
<1>6. /\ q \in Seq(V) /\ Len(q) = Len(back) + Len(c.pending)
      /\ Range(q) = Range(back) \union Range(c.pending)
      /\ IsInjective(back) /\ IsInjective(c.pending) /\ Range(back) \cap Range(c.pending) = {}
           => IsInjective(q)
  BY SMT, <1>2, <1>3, <1>5, JoinFacts
<1>7. Range(q) \subseteq c.seen
  BY <1>5, <1>6 DEF Sound, Orderly, Restorable
<1>8. Len(q) <= MaxPendingValues
  <2>1. Len(c.pending) <= MaxPendingValues /\ MaxPendingValues \in Nat
    BY ReplicaConfigAssumption DEF Sound, Orderly, Restorable
  <2>2. Len(c.pending) \in Nat /\ Len(back) \in Nat /\ Len(<< >>) = 0
    BY SMT, <1>2, <1>5
  <2>3. CASE back = << >>
    BY SMT, <1>6, <2>1, <2>2, <2>3
  <2>4. CASE Len(c.pending) + Len(back) <= MaxPendingValues
    BY SMT, <1>6, <2>2, <2>4
  <2> QED BY <1>4, <2>3, <2>4
<1>9. e = Noted(c, slot, values, q)
  BY <1>3 DEF Noted
<1>10. /\ Orderly(e, V)
       /\ e.pending = q /\ e.floor = c.floor /\ e.next = c.next
       /\ e.seen = c.seen \union Range(values)
       /\ Decided(e) = Decided(c) \union {slot} /\ Undecided(e) = Undecided(c) \ {slot}
       /\ \A s \in Slot : /\ e.log[s].decision = IF s = slot THEN values ELSE c.log[s].decision
                          /\ e.log[s].proposed = c.log[s].proposed
  <2>1. MayNote(c, V, slot, values, q)
    BY <1>4, <1>6, <1>7, <1>8 DEF MayNote
  <2>2. NotedIn(c, V, slot, values, q, e)
    BY <1>9, <2>1, DecisionNoted
  <2> QED BY <2>2 DEF NotedIn
<1>11. /\ Sound(d, V)
       /\ d.pending = e.pending /\ d.floor = e.floor /\ d.seen = e.seen /\ d.next >= e.next
       /\ \A s \in e.next .. d.next - 1 : s \in Decided(e)
       /\ Decided(d) = Decided(e) /\ Undecided(d) = Undecided(e)
       /\ \A s \in Slot : /\ d.log[s].decision = e.log[s].decision
                          /\ s \in Undecided(e) \/ s >= d.next
                               => d.log[s].proposed = e.log[s].proposed
  BY SMT, <1>4, <1>10, CommitReadyFacts
<1>12. Undecided(c) \subseteq Slot
  BY DEF Undecided
<1>13. \A s \in Undecided(d) : d.log[s].proposed = c.log[s].proposed
  BY <1>10, <1>11, <1>12
<1>14. Live(c) \subseteq Live(d) \union Range(values)
  <2>1. ASSUME NEW s \in Undecided(c), NEW v \in Range(c.log[s].proposed)
        PROVE  v \in Live(d) \union Range(values)
    <3>1. CASE s = slot
      BY <1>5, <1>6, <1>10, <1>11, <2>1, <3>1 DEF Live
    <3>2. CASE s # slot
      <4>1. s \in Undecided(d) /\ v \in Range(d.log[s].proposed)
        BY <1>10, <1>11, <1>13, <2>1, <3>2
      <4> QED BY <4>1 DEF Live, Proposed
    <3> QED BY <3>1, <3>2
  <2> QED BY SMT, <1>6, <1>10, <1>11, <2>1 DEF Live, Proposed
<1>15. ASSUME Distinct(c) PROVE Distinct(d)
  <2>1. /\ IsInjective(c.pending)
        /\ \A s \in Undecided(c) : /\ IsInjective(c.log[s].proposed)
                                   /\ Range(c.log[s].proposed) \cap Range(c.pending) = {}
        /\ \A s, t \in Undecided(c) :
              s # t => Range(c.log[s].proposed) \cap Range(c.log[t].proposed) = {}
    BY <1>15 DEF Distinct
  <2>2. back = << >> \/ slot \in Undecided(c)
    <3>1. CASE c.log[slot].proposed = << >>
      <4>1. Range(back) = {}
        BY SMT, <1>5, <3>1 DEF Range
      <4>2. back = << >>
        <5>1. Len(back) \in Nat /\ \A i \in 1 .. Len(back) : back[i] \in Range(back)
          BY SMT, <1>5, RangeIs
        <5>2. Len(back) = 0
          BY SMT, <4>1, <5>1
        <5> QED BY SMT, <1>5, <5>2
      <4> QED BY <4>2
    <3>2. CASE c.log[slot].proposed # << >>
      BY <1>1, <3>2 DEF Undecided
    <3> QED BY <3>1, <3>2
  <2>3. Range(<< >>) = {} /\ IsInjective(<< >>)
    BY SMT DEF Range, IsInjective
  <2>4. IsInjective(back) /\ Range(back) \cap Range(c.pending) = {}
    BY <1>5, <2>1, <2>2, <2>3
  <2>5. IsInjective(d.pending)
    BY <1>6, <1>10, <1>11, <2>1, <2>4
  <2>6. \A s \in Undecided(d) : s \in Undecided(c) /\ s # slot
    BY <1>10, <1>11
  <2>7. \A s \in Undecided(d) : Range(back) \cap Range(c.log[s].proposed) = {}
    BY <1>5, <2>1, <2>2, <2>3, <2>6
  <2>8. \A s \in Undecided(d) : /\ IsInjective(d.log[s].proposed)
                                /\ Range(d.log[s].proposed) \cap Range(d.pending) = {}
    BY <1>6, <1>10, <1>11, <1>13, <2>1, <2>6, <2>7
  <2>9. \A s, t \in Undecided(d) :
           s # t => Range(d.log[s].proposed) \cap Range(d.log[t].proposed) = {}
    BY <1>13, <2>1, <2>6
  <2>10. ASSUME NEW t \in Slot, t >= d.next, d.log[t].proposed # << >>
         PROVE  d.next .. t - 1 \subseteq Decided(d) \union Undecided(d)
    <3>1. d.next \in Nat /\ t \in Nat
      BY <1>11, CoreParts DEF Sound, Orderly, Slot
    <3>2. c.log[t].proposed # << >> /\ t >= c.next
      BY SMT, <1>2, <1>10, <1>11, <2>10, <3>1
    <3>3. c.next .. t - 1 \subseteq Decided(c) \union Undecided(c)
      BY <1>15, <3>2 DEF Distinct
    <3>4. \A s \in d.next .. t - 1 : s \in c.next .. t - 1
      BY SMT, <1>2, <1>10, <1>11, <3>1
    <3> QED BY <1>10, <1>11, <3>3, <3>4
  <2> QED BY ONLY <2>5, <2>8, <2>9, <2>10 DEF Distinct
<1>16. Range(d.pending) = Range(c.pending) \union (Range(c.log[slot].proposed) \ Range(values))
  BY <1>5, <1>6, <1>10, <1>11
<1> QED BY <1>10, <1>11, <1>13, <1>14, <1>15, <1>16

------------------------------------------------------------------------------
(* prune_through *)

\* prune_through drops committed slots and changes nothing else.
LEMMA PruneThroughFacts ==
  ASSUME NEW V, NEW c, Sound(c, V), NEW slot \in Slot, slot <= CommittedThrough(c)
  PROVE  LET d == PruneThrough(c, slot)
         IN  /\ Sound(d, V)
             /\ d.pending = c.pending /\ d.next = c.next /\ d.seen = c.seen
             /\ d.floor \in {slot, c.floor} /\ d.floor >= slot /\ d.floor >= c.floor
             /\ Decided(d) = {s \in Decided(c) : s > d.floor \/ s <= c.floor}
             /\ Undecided(d) = Undecided(c)
             /\ \A s \in Slot : s > d.floor \/ s <= c.floor => d.log[s] = c.log[s]
             /\ Live(d) = Live(c)
             /\ Distinct(c) => Distinct(d)
<1>1. /\ c \in CoreSet(V) /\ IsFiniteSet(c.seen) /\ c.log \in [Slot -> Entry(V)]
      /\ c.next \in Nat /\ c.floor \in Nat /\ c.floor \in 0 .. MaxSlot /\ Restorable(c)
      /\ slot \in Nat /\ slot \in 0 .. MaxSlot /\ slot <= c.next - 1 /\ MaxSlot \in Nat
  BY SMT, CoreParts, ReplicaConfigAssumption DEF Sound, Orderly, CommittedThrough, Slot
<1>2. PICK through : through = Max({slot, c.floor})
  OBVIOUS
<1>3. through \in {slot, c.floor} /\ through >= slot /\ through >= c.floor
  <2>1. PICK S : S = {slot, c.floor}
    OBVIOUS
  <2>2. S \in SUBSET Int /\ S # {} /\ MaxSlot \in Int /\ \A m \in S : m <= MaxSlot
    BY SMT, <1>1, <2>1
  <2>3. Max(S) \in S /\ \A m \in S : m <= Max(S)
    BY <2>2, MaxIs
  <2> QED BY <1>1, <1>2, <2>1, <2>3
<1>4. through \in Nat /\ through \in 0 .. MaxSlot /\ through <= c.next - 1
  BY SMT, <1>1, <1>3 DEF Restorable
<1>5. PICK d, log : /\ d = PruneThrough(c, slot)
                    /\ log = [s \in Slot |-> IF s <= through /\ c.log[s].committed THEN NoEntry
                                             ELSE c.log[s]]
  OBVIOUS
<1>6. d = [c EXCEPT !.log = log, !.floor = through]
  BY <1>2, <1>5 DEF PruneThrough
<1>7. \A s \in Slot : s <= through /\ ~(s <= c.floor) => log[s] = NoEntry
  <2>1. ASSUME NEW s \in Slot, s <= through, ~(s <= c.floor) PROVE c.log[s].committed
    <3>1. s \in c.floor + 1 .. c.next - 1
      BY SMT, <1>1, <1>4, <2>1 DEF Slot
    <3> QED BY <1>1, <3>1 DEF Restorable
  <2> QED BY <1>5, <2>1
<1>8. \A s \in Slot : s > through \/ s <= c.floor => log[s] = c.log[s]
  <2>1. \A s \in Slot : s <= c.floor => ~c.log[s].committed
    BY DEF Sound, Orderly
  <2> QED BY SMT, <1>4, <1>5, <2>1 DEF Slot
<1>9. NoEntry \in Entry(V) /\ NoEntry.proposed = << >> /\ NoEntry.decision = << >> /\ NoEntry.committed = FALSE
  <2>1. << >> \in Seq(V)
    BY SMT
  <2> QED BY <2>1 DEF NoEntry, Entry
<1>10. log \in [Slot -> Entry(V)]
  BY <1>1, <1>5, <1>9
<1>11. /\ d \in CoreSet(V) /\ d.log = log /\ d.floor = through
       /\ d.pending = c.pending /\ d.next = c.next /\ d.seen = c.seen
  <2>1. PICK L, Q, N, F, S : /\ L = [Slot -> Entry(V)] /\ Q = Seq(V) /\ N = 1 .. MaxSlot + 1
                             /\ F = 0 .. MaxSlot /\ S = SUBSET V
    OBVIOUS
  <2>2. c \in [log : L, pending : Q, next : N, floor : F, seen : S] /\ log \in L /\ through \in F
    BY ONLY <1>1, <1>4, <1>10, <2>1 DEF CoreSet
  <2>3. PICK e : e = [c EXCEPT !.log = log]
    OBVIOUS
  <2>4. /\ e \in [log : L, pending : Q, next : N, floor : F, seen : S] /\ e.log = log
        /\ e.pending = c.pending /\ e.next = c.next /\ e.seen = c.seen
    BY ONLY SMTT(20), <2>2, <2>3
  <2>5. d = [e EXCEPT !.floor = through]
    BY ONLY <1>6, <2>3
  <2>6. /\ d \in [log : L, pending : Q, next : N, floor : F, seen : S] /\ d.log = e.log
        /\ d.pending = e.pending /\ d.next = e.next /\ d.seen = e.seen /\ d.floor = through
    BY ONLY SMTT(20), <2>2, <2>4, <2>5
  <2> QED BY ONLY <2>1, <2>4, <2>6 DEF CoreSet
<1>12. \A s \in Slot : \/ s <= through /\ ~(s <= c.floor) /\ ~(s > through)
                       \/ s > through
                       \/ s <= c.floor
  BY SMT, <1>1, <1>4 DEF Slot
<1>13. Decided(d) = {s \in Decided(c) : s > through \/ s <= c.floor}
  BY <1>7, <1>8, <1>9, <1>11, <1>12 DEF Decided
<1>14. \A s \in Undecided(c) : s \in Slot /\ s > through /\ d.log[s] = c.log[s]
  <2>1. \A s \in Undecided(c) : s \in Slot /\ s >= c.next
    BY DEF Sound, Orderly, Undecided
  <2> QED BY SMT, <1>1, <1>4, <1>8, <1>11, <2>1 DEF Slot
<1>15. Undecided(d) = Undecided(c)
  <2>1. \A s \in Undecided(d) : s \in Undecided(c)
    BY <1>7, <1>8, <1>9, <1>11, <1>12 DEF Undecided
  <2>2. \A s \in Undecided(c) : s \in Undecided(d)
    BY <1>14 DEF Undecided
  <2> QED BY <2>1, <2>2
<1>16. Restorable(d)
  <2>1. Retained(d) \subseteq Retained(c)
    BY <1>7, <1>8, <1>11, <1>12 DEF Retained
  <2>2. Cardinality(Retained(d)) <= MaxLogSlots
    BY <1>1, <2>1, RoomShrinks DEF Restorable
  <2>3. /\ Len(d.pending) <= MaxPendingValues /\ Cardinality(d.seen) <= MaxTrackedValues
        /\ Range(d.pending) \subseteq d.seen
    BY <1>1, <1>11 DEF Restorable
  <2>4. d.next > d.floor
    BY SMT, <1>1, <1>4, <1>11
  <2>5. \A s \in Slot : Range(d.log[s].proposed) \union Range(d.log[s].decision) \subseteq d.seen
    <3>1. Range(<< >>) = {}
      BY SMT DEF Range
    <3> QED BY <1>1, <1>7, <1>8, <1>9, <1>11, <1>12, <3>1 DEF Restorable
  <2>6. ASSUME NEW s \in d.floor + 1 .. d.next - 1 PROVE d.log[s].committed /\ s \in Decided(d)
    <3>1. s \in c.floor + 1 .. c.next - 1 /\ s > through
      BY SMT, <1>1, <1>3, <1>4, <1>11
    <3>2. c.log[s].committed /\ s \in Decided(c) /\ s \in Slot
      BY <1>1, <3>1 DEF Restorable, Decided
    <3> QED BY <1>8, <1>11, <1>13, <3>1, <3>2
  <2>7. ASSUME NEW s \in Slot, s >= d.next PROVE ~d.log[s].committed
    <3>1. s > through /\ s >= c.next
      BY SMT, <1>1, <1>4, <1>11, <2>7 DEF Slot
    <3> QED BY <1>1, <1>8, <1>11, <3>1 DEF Restorable
  <2> QED BY <2>2, <2>3, <2>4, <2>5, <2>6, <2>7 DEF Restorable
<1>17. Sound(d, V)
  <2>1. \A s \in Undecided(d) : s >= d.next
    BY <1>11, <1>15 DEF Sound, Orderly
  <2>2. d.next \notin Decided(d)
    BY <1>11, <1>13 DEF Sound
  <2>3. \A s \in Slot : s <= c.floor => c.log[s].proposed = << >> /\ ~c.log[s].committed
    BY DEF Sound, Orderly
  <2>4. \A s \in Slot : s <= d.floor => d.log[s].proposed = << >> /\ ~d.log[s].committed
    BY <1>7, <1>8, <1>9, <1>11, <2>3
  <2> QED BY <1>1, <1>11, <1>16, <2>1, <2>2, <2>4 DEF Sound, Orderly
<1>18. Live(d) = Live(c)
  BY <1>11, <1>14, <1>15 DEF Live, Proposed
<1>19. ASSUME Distinct(c) PROVE Distinct(d)
  <2>1. ASSUME NEW t \in Slot, t >= d.next, d.log[t].proposed # << >>
        PROVE  d.next .. t - 1 \subseteq Decided(d) \union Undecided(d)
    <3>1. t > through /\ t >= c.next /\ c.log[t].proposed # << >>
      BY SMT, <1>1, <1>4, <1>8, <1>11, <2>1 DEF Slot
    <3>2. c.next .. t - 1 \subseteq Decided(c) \union Undecided(c)
      BY <1>19, <3>1 DEF Distinct
    <3>3. \A s \in c.next .. t - 1 : s > through
      BY SMT, <1>1, <1>4
    <3> QED BY <1>11, <1>13, <1>15, <3>2, <3>3
  <2>2. /\ IsInjective(d.pending)
        /\ \A s \in Undecided(d) : /\ IsInjective(d.log[s].proposed)
                                   /\ Range(d.log[s].proposed) \cap Range(d.pending) = {}
        /\ \A s, t \in Undecided(d) :
              s # t => Range(d.log[s].proposed) \cap Range(d.log[t].proposed) = {}
    BY <1>11, <1>14, <1>15, <1>19 DEF Distinct
  <2> QED BY ONLY <2>1, <2>2 DEF Distinct
<1> QED BY <1>3, <1>5, <1>8, <1>11, <1>13, <1>15, <1>17, <1>18, <1>19
==============================================================================
