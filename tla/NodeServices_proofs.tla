------------------------- MODULE NodeServices_proofs -------------------------
(***************************************************************************)
(* Proofs about NodeServices and RequestJournal for any members, batches,  *)
(* requests, calls and numbers of faults.                                  *)
(*                                                                         *)
(* Retries.  The answers to a request agree because of the order of writes *)
(* alone: file, memory, answer.  That calls take turns rests on the map of *)
(* locks: while any call refers to a lock of its request, the map holds    *)
(* that same lock.                                                         *)
(*                                                                         *)
(* Payloads.  The argument is about values that are settled: every active  *)
(* member has executed them, and a node that joins with the current        *)
(* package will regard them as executed.  A value leaves a batch store     *)
(* only once it is settled, and it stays settled.                          *)
(*                                                                         *)
(* Execution.  At a founder the file of the application holds whatever its *)
(* memory holds, and memory holds every value of the slots that the        *)
(* runtime has marked; memory only grows, crashes included.                *)
(***************************************************************************)
EXTENDS NodeServices, Lemmas

USE Zenon

------------------------------------------------------------------------------
(* The request journal *)

\* A call holds a reference exactly while it is under way, and the map then has
\* the lock it refers to.
LockInv ==
  \A c \in Call :
     /\ (arc[c] = None) <=> (pc[c] \in {"new", "done"})
     /\ arc[c] # None => locks[For[c]] = arc[c]

\* Memory never runs ahead of the file, answers never ahead of memory.
OutcomeInv ==
  /\ \A r \in Request : outcomes[r] # None => outcomes[r] = file[r]
  /\ \A r \in Request : \A o \in answers[r] : outcomes[r] = o
  /\ \A c \in Call : pc[c] \in {"new", "queued", "inner"} => result[c] = None
  /\ \A c \in Call : pc[c] = "cleanup" /\ result[c] # None => outcomes[For[c]] = result[c]

\* The inductive invariant.
JInv == JTypeOK /\ LockInv /\ OneInnerCall /\ OutcomeInv

\* The invariant of the journal holds initially.
LEMMA JInitInv == JInit => JInv
BY SMT, JournalAssumption
   DEF JInit, JInv, JTypeOK, LockInv, OneInnerCall, OutcomeInv, Guarded

\* Every step keeps the types.
LEMMA TypeStep == JTypeOK /\ [JNext]_jvars => JTypeOK'
<1> SUFFICES ASSUME JTypeOK, [JNext]_jvars
             PROVE  JTypeOK'
  OBVIOUS
<1> USE JournalAssumption DEF JTypeOK, Goto, journal
<1>1. ASSUME NEW c \in Call, Enter(c) PROVE JTypeOK'
  BY <1>1 DEF Enter
<1>2. ASSUME NEW c \in Call, Look(c) PROVE JTypeOK'
  BY <1>2 DEF Look
<1>3. ASSUME NEW c \in Call, NEW o \in Outcome, InnerReturns(c, o) PROVE JTypeOK'
  BY <1>3 DEF InnerReturns
<1>4. ASSUME NEW c \in Call, InnerFails(c) PROVE JTypeOK'
  BY <1>4 DEF InnerFails
<1>5. ASSUME NEW c \in Call, Put(c) PROVE JTypeOK'
  BY SMT, <1>5 DEF Put
<1>6. ASSUME NEW c \in Call, PutFails(c) PROVE JTypeOK'
  BY <1>6 DEF PutFails
<1>7. ASSUME NEW c \in Call, Return(c) PROVE JTypeOK'
  <2>1. {result[c]} \ {None} \subseteq Outcome
    OBVIOUS
  <2>2. answers' \in [Request -> SUBSET Outcome]
    BY <1>7, <2>1 DEF Return
  <2> QED
    BY <1>7, <2>2 DEF Return
<1>8. ASSUME JRestart PROVE JTypeOK'
  BY <1>8 DEF JRestart
<1>9. ASSUME UNCHANGED jvars PROVE JTypeOK'
  BY <1>9 DEF jvars
<1> QED
  BY <1>1, <1>2, <1>3, <1>4, <1>5, <1>6, <1>7, <1>8, <1>9 DEF JNext

\* Every step keeps the map of locks in line with the references.
LEMMA LockStep == JTypeOK /\ LockInv /\ [JNext]_jvars => LockInv'
<1> SUFFICES ASSUME JTypeOK, LockInv, [JNext]_jvars
             PROVE  LockInv'
  OBVIOUS
<1> USE JournalAssumption DEF JTypeOK, LockInv, Goto, journal
<1>1. ASSUME NEW c \in Call, Enter(c) PROVE LockInv'
  <2>1. \A d \in Call \ {c} : arc'[d] = arc[d] /\ pc'[d] = pc[d]
    BY <1>1 DEF Enter
  <2>2. \A d \in Call \ {c} : arc[d] # None => locks'[For[d]] = locks[For[d]]
    BY <1>1 DEF Enter
  <2>3. arc'[c] = locks'[For[c]] /\ arc'[c] # None /\ pc'[c] = "queued"
    BY <1>1 DEF Enter
  <2> QED
    BY <2>1, <2>2, <2>3
<1>2. ASSUME NEW c \in Call, Look(c) PROVE LockInv'
  BY SMT, <1>2 DEF Look
<1>3. ASSUME NEW c \in Call, NEW o \in Outcome, InnerReturns(c, o) PROVE LockInv'
  BY <1>3 DEF InnerReturns
<1>4. ASSUME NEW c \in Call, InnerFails(c) PROVE LockInv'
  BY <1>4 DEF InnerFails
<1>5. ASSUME NEW c \in Call, Put(c) PROVE LockInv'
  BY <1>5 DEF Put
<1>6. ASSUME NEW c \in Call, PutFails(c) PROVE LockInv'
  BY <1>6 DEF PutFails
<1>7. ASSUME NEW c \in Call, Return(c) PROVE LockInv'
  <2>1. \A d \in Call \ {c} : arc'[d] = arc[d] /\ pc'[d] = pc[d]
    BY <1>7 DEF Return
  <2>2. ASSUME NEW d \in Call \ {c}, arc[d] # None
        PROVE  locks'[For[d]] = locks[For[d]]
    <3>1. For[d] = For[c] => ~DropLock(c)
      BY <2>2 DEF DropLock
    <3> QED
      BY <1>7, <3>1 DEF Return
  <2>3. arc'[c] = None /\ pc'[c] = "done"
    BY <1>7 DEF Return
  <2> QED
    BY <2>1, <2>2, <2>3
<1>8. ASSUME JRestart PROVE LockInv'
  BY <1>8 DEF JRestart
<1>9. ASSUME UNCHANGED jvars PROVE LockInv'
  BY <1>9 DEF jvars
<1> QED
  BY <1>1, <1>2, <1>3, <1>4, <1>5, <1>6, <1>7, <1>8, <1>9 DEF JNext

\* Every step leaves at most one call of a request with the inner handler.
LEMMA TurnStep == JTypeOK /\ LockInv /\ OneInnerCall /\ [JNext]_jvars => OneInnerCall'
<1> SUFFICES ASSUME JTypeOK, LockInv, OneInnerCall, [JNext]_jvars
             PROVE  OneInnerCall'
  OBVIOUS
<1> USE JournalAssumption DEF JTypeOK, OneInnerCall, Guarded, Goto
<1>1. ASSUME NEW c \in Call, Enter(c) PROVE OneInnerCall'
  BY <1>1 DEF Enter
<1>2. ASSUME NEW c \in Call, Look(c) PROVE OneInnerCall'
  <2>1. \A d \in Call : For[d] = For[c] => ~Guarded(d)
    BY SMT, <1>2 DEF Look, LockInv
  <2> QED
    BY SMT, <1>2, <2>1 DEF Look
<1>3. ASSUME NEW c \in Call, NEW o \in Outcome, InnerReturns(c, o) PROVE OneInnerCall'
  BY <1>3 DEF InnerReturns
<1>4. ASSUME NEW c \in Call, InnerFails(c) PROVE OneInnerCall'
  BY <1>4 DEF InnerFails
<1>5. ASSUME NEW c \in Call, Put(c) PROVE OneInnerCall'
  BY <1>5 DEF Put
<1>6. ASSUME NEW c \in Call, PutFails(c) PROVE OneInnerCall'
  BY <1>6 DEF PutFails
<1>7. ASSUME NEW c \in Call, Return(c) PROVE OneInnerCall'
  BY <1>7 DEF Return
<1>8. ASSUME JRestart PROVE OneInnerCall'
  BY <1>8 DEF JRestart
<1>9. ASSUME UNCHANGED jvars PROVE OneInnerCall'
  BY <1>9 DEF jvars
<1> QED
  BY SMT, <1>1, <1>2, <1>3, <1>4, <1>5, <1>6, <1>7, <1>8, <1>9 DEF JNext

\* Every step keeps the order of file, memory and answers.
LEMMA OutcomeStep == JTypeOK /\ OutcomeInv /\ [JNext]_jvars => OutcomeInv'
<1> SUFFICES ASSUME JTypeOK, OutcomeInv, [JNext]_jvars
             PROVE  OutcomeInv'
  OBVIOUS
<1> USE JournalAssumption DEF JTypeOK, OutcomeInv, Goto, journal
<1>1. ASSUME NEW c \in Call, Enter(c) PROVE OutcomeInv'
  BY <1>1 DEF Enter
<1>2. ASSUME NEW c \in Call, Look(c) PROVE OutcomeInv'
  BY SMT, <1>2 DEF Look
<1>3. ASSUME NEW c \in Call, NEW o \in Outcome, InnerReturns(c, o) PROVE OutcomeInv'
  BY <1>3 DEF InnerReturns
<1>4. ASSUME NEW c \in Call, InnerFails(c) PROVE OutcomeInv'
  BY <1>4 DEF InnerFails
<1>5. ASSUME NEW c \in Call, Put(c) PROVE OutcomeInv'
  <2>1. CASE outcomes[For[c]] = None
    <3>1. answers[For[c]] = {}
      BY SMT, <2>1
    <3>2. \A d \in Call : pc[d] = "cleanup" /\ For[d] = For[c] => result[d] = None
      BY <2>1
    <3> QED
      BY SMT, <1>5, <2>1, <3>1, <3>2 DEF Put
  <2>2. CASE outcomes[For[c]] # None
    BY SMT, <1>5, <2>2 DEF Put
  <2> QED
    BY <2>1, <2>2
<1>6. ASSUME NEW c \in Call, PutFails(c) PROVE OutcomeInv'
  BY <1>6 DEF PutFails
<1>7. ASSUME NEW c \in Call, Return(c) PROVE OutcomeInv'
  <2>1. \A o \in answers'[For[c]] : o \in answers[For[c]] \/ (o = result[c] /\ o # None)
    BY <1>7 DEF Return
  <2>2. \A r \in Request \ {For[c]} : answers'[r] = answers[r]
    BY <1>7 DEF Return
  <2> QED
    BY SMT, <1>7, <2>1, <2>2 DEF Return
<1>8. ASSUME JRestart PROVE OutcomeInv'
  BY SMT, <1>8 DEF JRestart
<1>9. ASSUME UNCHANGED jvars PROVE OutcomeInv'
  BY <1>9 DEF jvars
<1> QED
  BY <1>1, <1>2, <1>3, <1>4, <1>5, <1>6, <1>7, <1>8, <1>9 DEF JNext

\* The inductive invariant holds in every state.
THEOREM JournalInvariant == JSpec => []JInv
<1>1. JInv /\ [JNext]_jvars => JInv'
  BY TypeStep, LockStep, TurnStep, OutcomeStep DEF JInv
<1> QED
  BY JInitInv, <1>1, PTL DEF JSpec

\* "Retrying the same pair through the same node returns the journaled outcome":
\* for any number of calls, restarts and failed saves.
THEOREM OutcomesAgree == JSpec => []SameOutcome
<1>1. JInv => SameOutcome
  BY DEF JInv, OutcomeInv, SameOutcome
<1> QED
  BY JournalInvariant, <1>1, PTL

\* "Serializes same-node retries": whichever calls create and drop the locks.
THEOREM RetriesTakeTurns == JSpec => []OneInnerCall
<1>1. JInv => OneInnerCall
  BY DEF JInv
<1> QED
  BY JournalInvariant, <1>1, PTL

------------------------------------------------------------------------------
(* The payloads *)

Settled(v) ==
  /\ \A m \in active : Done(m, v)
  /\ package.at = "ready" => \E s \in Slots \cap package.marks : v \in Range(log[s])

Store == [memory : SUBSET Value, file : SUBSET Value]

TypeInv ==
  /\ log \in Seq(Batch)
  /\ batches \in [Member -> Store]
  /\ acks \in [Batch -> SUBSET Member]
  /\ values \in [Member -> SUBSET Value]
  /\ vouched \in [Member -> SUBSET Value]
  /\ executed \in [Member -> SUBSET Nat]
  /\ active \subseteq Member
  /\ package = [at |-> package.at, from |-> package.from, through |-> package.through,
                application |-> package.application, marks |-> package.marks]
  /\ package.marks \subseteq Nat /\ package.from \in Member /\ package.through \in Nat

\* The slots of a package are executed wherever it matters.
PackageInv ==
  package.at # "none" =>
     /\ package.from \in active
     /\ 1 .. package.through \subseteq Slots
     /\ \A m \in active : 1 .. package.through \subseteq executed[m]
     /\ package.at = "ready" => 1 .. package.through \subseteq package.marks

\* Memory runs ahead of the file only for settled values.
StoreInv ==
  \A q \in Member : \A v \in batches[q].memory : v \in batches[q].file \/ Settled(v)

\* What was acknowledged, fetched, vouched for or decided has a holder, or is
\* settled.
AckInv ==
  \A b \in Batch : \A m \in acks[b], v \in Range(b) : m \in Holders(v) \/ Settled(v)
ValueInv ==
  \A m \in Member : \A v \in values[m] \union vouched[m] : Holders(v) # {} \/ Settled(v)
LogInv ==
  \A s \in Slots : \A v \in Range(log[s]) : Holders(v) # {} \/ Settled(v)

\* The inductive invariant.
PayloadInv == TypeInv /\ PackageInv /\ StoreInv /\ AckInv /\ ValueInv /\ LogInv

------------------------------------------------------------------------------
(* The initial state and types *)

\* The invariant of the payloads holds initially.
LEMMA InitPayloads == Init => PayloadInv
<1> SUFFICES ASSUME Init PROVE PayloadInv
  OBVIOUS
<1> USE ServicesAssumption DEF Init
<1>1. TypeInv
  BY SMT DEF TypeInv, Store
<1>2. Slots = {}
  BY SMT DEF Slots
<1> QED
  BY <1>1, <1>2 DEF PayloadInv, PackageInv, StoreInv, AckInv, ValueInv, LogInv

\* A batch is a set of values.
LEMMA BatchValues == ASSUME NEW b \in Batch PROVE Range(b) \subseteq Value
BY SMT, ServicesAssumption DEF Range

\* What a save does to a store.
LEMMA SaveEffects ==
  ASSUME NEW s \in Store, NEW next \in SUBSET Value
  PROVE  /\ Saved(s, next) \in Store
         /\ Saved(s, next).memory = next /\ Saved(s, next).file = next
         /\ \A x \in SaveFailed(s, next) :
               x \in Store /\ x.memory = s.memory /\ (x.file = s.file \/ x.file = next)
BY DEF Store, Saved, SaveFailed

\* The part of a batch that a publication has stored when it fails at value k.
LEMMA BatchPrefix ==
  ASSUME NEW b \in Batch, NEW k \in DOMAIN b, NEW S \in SUBSET Value
  PROVE  LET before == S \union Range(SubSeq(b, 1, k - 1))
         IN  before \in SUBSET Value /\ before \union {b[k]} \in SUBSET Value
<1>1. b \in Seq(Value)
  BY ServicesAssumption
<1>2. k - 1 \in 0 .. Len(b) /\ b[k] \in Value
  <2>1. PICK n \in Nat : DOMAIN b = 1 .. n /\ Len(b) = n
    BY ONLY SMT, <1>1
  <2>2. k \in 1 .. n
    BY <2>1
  <2> QED BY ONLY SMT, <1>1, <2>1, <2>2
<1>3. Range(SubSeq(b, 1, k - 1)) \subseteq Range(b)
  <2>1. PICK j \in 0 .. Len(b) : j = k - 1
    BY <1>2
  <2>2. Range(b) = Range(SubSeq(b, 1, j)) \union Range(SubSeq(b, j + 1, Len(b)))
    BY <1>1, SplitFacts
  <2> QED BY <2>1, <2>2
<1>4. Range(b) \subseteq Value
  BY BatchValues
<1> QED BY <1>2, <1>3, <1>4

\* Every step keeps the types.
LEMMA TypePayloads == TypeInv /\ PackageInv /\ [Next]_vars => TypeInv'
<1> SUFFICES ASSUME TypeInv, PackageInv, [Next]_vars PROVE TypeInv'
  OBVIOUS
<1> USE ServicesAssumption DEF TypeInv, payloads, state
<1>1. CASE Journal \/ JournalFails \/ UNCHANGED vars
  BY <1>1 DEF Journal, JournalFails, vars
<1>2. ASSUME NEW m \in Member, NEW b \in Batch, Publish(m, b) PROVE TypeInv'
  BY ZenonT(40), <1>2, BatchValues DEF Publish, Saved, Store
<1>3. ASSUME NEW m \in Member, NEW b \in Batch, PublishFails(m, b) PROVE TypeInv'
  <2> DEFINE before(k) == batches[m].memory \union Range(SubSeq(b, 1, k - 1))
             reached(k) == IF before(k) = batches[m].memory THEN batches[m]
                           ELSE Saved(batches[m], before(k))
  <2>1. PICK k \in DOMAIN b :
           \E x \in SaveFailed(reached(k), before(k) \union {b[k]}) :
              batches' = [batches EXCEPT ![m] = x]
    BY <1>3 DEF PublishFails
  <2>2. before(k) \in SUBSET Value /\ before(k) \union {b[k]} \in SUBSET Value
    <3>1. batches[m].memory \in SUBSET Value
      BY DEF Store
    <3> QED BY <2>1, <3>1, BatchPrefix
  <2>3. reached(k) \in Store
    BY <2>2, SaveEffects
  <2>4. PICK x \in SaveFailed(reached(k), before(k) \union {b[k]}) :
           batches' = [batches EXCEPT ![m] = x]
    BY <2>1
  <2>5. x \in Store
    BY <2>2, <2>3, SaveEffects
  <2> QED
    BY <1>3, <2>4, <2>5 DEF PublishFails
<1>4. ASSUME NEW m \in Member, NEW b \in Batch, Record(m, b) PROVE TypeInv'
  BY <1>4, BatchValues DEF Record, EnsureAvailable
<1>5. ASSUME NEW b \in Batch, Decide(b) PROVE TypeInv'
  BY SMT, <1>5 DEF Decide
<1>6. ASSUME NEW m \in Member, NEW s \in 1 .. MaxSlot, Execute(m, s) PROVE TypeInv'
  <2>1. s \in Nat
    BY SMT, <1>6 DEF Execute, Due, Slots
  <2> QED
    BY <1>6, <2>1 DEF Execute
<1>7. ASSUME NEW m \in Member, NEW s \in 1 .. MaxSlot, ExecuteUnmarked(m, s) \/ ExecuteFails(m, s)
      PROVE  TypeInv'
  BY <1>7 DEF ExecuteUnmarked, ExecuteFails
<1>8. ASSUME NEW m \in Member, NEW s \in 1 .. MaxSlot, Export(m, s) PROVE TypeInv'
  <2>1. s \in Nat
    BY SMT, <1>8 DEF Export, Slots
  <2> QED
    BY SMT, <1>8, <2>1 DEF Export
<1>9. ASSUME Package PROVE TypeInv'
  BY <1>9 DEF Package
<1>10. ASSUME NEW m \in Member, PruneBatches(m) PROVE TypeInv'
  <2>1. batches' \in [Member -> Store]
    <3>1. batches[m].memory \ Covered \in SUBSET Value
      BY DEF Store
    <3>2. PICK x \in {Saved(batches[m], batches[m].memory \ Covered)}
                       \union SaveFailed(batches[m], batches[m].memory \ Covered) :
             batches' = [batches EXCEPT ![m] = x]
      BY <1>10 DEF PruneBatches
    <3>3. x \in Store
      BY SMT, <3>1, <3>2, SaveEffects
    <3> QED
      BY <3>2, <3>3
  <2> QED
    BY <1>10, <2>1 DEF PruneBatches
<1>11. ASSUME NEW m \in Member, Join(m) PROVE TypeInv'
  BY <1>11 DEF Join
<1>12. ASSUME NEW m \in Member, Crash(m) PROVE TypeInv'
  BY ZenonT(40), <1>12 DEF Crash, Saved, Store
<1> QED
  BY <1>1, <1>2, <1>3, <1>4, <1>5, <1>6, <1>7, <1>8, <1>9, <1>10, <1>11, <1>12 DEF Next
------------------------------------------------------------------------------
(* What is settled stays settled *)

\* Slots, execution marks and members only grow, and a member that is new has the
\* marks of the package.
Grows ==
  /\ \A s \in Slots : s \in Slots' /\ log'[s] = log[s]
  /\ active \subseteq active'
  /\ \A m \in active : executed[m] \subseteq executed'[m]
  /\ \A m \in active' \ active : package.at = "ready" /\ executed'[m] = package.marks
  /\ package'.at = "ready" =>
        \/ package.at = "ready" /\ package'.marks = package.marks
        \/ package.from \in active /\ package'.marks = executed[package.from]

\* Every step is of this kind.
LEMMA StepGrows == TypeInv /\ PackageInv /\ [Next]_vars => Grows
<1> SUFFICES ASSUME TypeInv, PackageInv, [Next]_vars PROVE Grows
  OBVIOUS
<1> USE DEF TypeInv, Grows, Slots, payloads, state
<1>1. CASE Journal \/ JournalFails \/ UNCHANGED vars
  BY <1>1 DEF Journal, JournalFails, vars
<1>2. ASSUME NEW m \in Member, NEW b \in Batch,
             Publish(m, b) \/ PublishFails(m, b) \/ Record(m, b)
      PROVE  Grows
  BY <1>2 DEF Publish, PublishFails, Record
<1>3. ASSUME NEW b \in Batch, Decide(b) PROVE Grows
  BY SMT, <1>3 DEF Decide
<1>4. ASSUME NEW m \in Member, NEW s \in 1 .. MaxSlot, Execute(m, s) PROVE Grows
  BY <1>4 DEF Execute
<1>5. ASSUME NEW m \in Member, NEW s \in 1 .. MaxSlot, ExecuteUnmarked(m, s) \/ ExecuteFails(m, s)
      PROVE  Grows
  BY <1>5 DEF ExecuteUnmarked, ExecuteFails
<1>6. ASSUME NEW m \in Member, NEW s \in 1 .. MaxSlot, Export(m, s) PROVE Grows
  BY SMT, <1>6 DEF Export
<1>7. ASSUME Package PROVE Grows
  BY <1>7 DEF Package, PackageInv
<1>8. ASSUME NEW m \in Member, PruneBatches(m) PROVE Grows
  BY <1>8 DEF PruneBatches
<1>9. ASSUME NEW m \in Member, Join(m) PROVE Grows
  BY <1>9 DEF Join
<1>10. ASSUME NEW m \in Member, Crash(m) PROVE Grows
  BY <1>10 DEF Crash
<1> QED
  BY <1>1, <1>2, <1>3, <1>4, <1>5, <1>6, <1>7, <1>8, <1>9, <1>10 DEF Next

\* A settled value stays settled.
LEMMA SettledStays == Grows => \A v : Settled(v) => Settled(v)'
<1> SUFFICES ASSUME Grows, NEW v, Settled(v) PROVE Settled(v)'
  OBVIOUS
<1>1. ASSUME NEW m \in active PROVE Done(m, v)'
  BY <1>1 DEF Grows, Settled, Done
<1>2. ASSUME NEW m \in active' \ active PROVE Done(m, v)'
  BY <1>2 DEF Grows, Settled, Done
<1>3. ASSUME package'.at = "ready"
      PROVE  \E s \in Slots' \cap package'.marks : v \in Range(log'[s])
  <2>1. CASE package.at = "ready" /\ package'.marks = package.marks
    BY <2>1 DEF Grows, Settled
  <2>2. CASE package.from \in active /\ package'.marks = executed[package.from]
    BY <2>2 DEF Grows, Settled, Done
  <2> QED
    BY <1>3, <2>1, <2>2 DEF Grows
<1> QED
  BY <1>1, <1>2, <1>3 DEF Settled

\* The slots of the package stay executed.
LEMMA PackageStep == TypeInv /\ PackageInv /\ [Next]_vars => PackageInv'
<1> SUFFICES ASSUME TypeInv, PackageInv, [Next]_vars PROVE PackageInv'
  OBVIOUS
<1>0. Grows
  BY StepGrows
<1>1. ASSUME package' = package PROVE PackageInv'
  BY <1>0, <1>1 DEF Grows, PackageInv
<1>2. ASSUME NEW m \in Member, NEW s \in 1 .. MaxSlot, Export(m, s) PROVE PackageInv'
  BY SMT, <1>2 DEF Export, Acknowledged, PackageInv, Slots, TypeInv
<1>3. ASSUME Package PROVE PackageInv'
  BY <1>3 DEF Package, PackageInv, TypeInv, Slots
<1>4. ASSUME NEW m \in Member, Crash(m) PROVE PackageInv'
  <2>1. CASE package' = package
    BY <1>1, <2>1
  <2>2. CASE package'.at = "none"
    BY <2>2 DEF PackageInv
  <2> QED
    BY <1>4, <2>1, <2>2 DEF Crash, TypeInv
<1> QED
  BY ZenonT(40), <1>1, <1>2, <1>3, <1>4
     DEF Next, Journal, JournalFails, Publish, PublishFails, Record, Decide, Execute,
         ExecuteUnmarked, ExecuteFails, PruneBatches, Join, vars, state, payloads
------------------------------------------------------------------------------
(* Payloads stay until they are settled *)

\* What a ready package covers is settled.
LEMMA CoveredSettled ==
  TypeInv /\ PackageInv /\ package.at = "ready" => \A v \in Covered : Settled(v)
<1> SUFFICES ASSUME TypeInv, PackageInv, package.at = "ready", NEW v \in Covered
             PROVE  Settled(v)
  OBVIOUS
<1>1. PICK s \in 1 .. package.through : v \in Range(log[s])
  BY DEF Covered
<1>2. s \in Slots /\ s \in package.marks /\ \A m \in active : s \in executed[m]
  BY <1>1 DEF PackageInv
<1> QED
  BY <1>1, <1>2 DEF Settled, Done

\* A store gives up only settled values, and saves what it takes in.
KeepsPayloads ==
  \A q \in Member :
     /\ \A v \in batches[q].memory \cap batches[q].file :
           (v \in batches'[q].memory /\ v \in batches'[q].file) \/ Settled(v)
     /\ \A v \in batches'[q].memory : v \in batches'[q].file \/ Settled(v)

\* Every step is of this kind.
LEMMA StepKeeps == TypeInv /\ PackageInv /\ StoreInv /\ [Next]_vars => KeepsPayloads
<1> SUFFICES ASSUME TypeInv, PackageInv, StoreInv, [Next]_vars PROVE KeepsPayloads
  OBVIOUS
<1>1. ASSUME batches' = batches PROVE KeepsPayloads
  BY <1>1 DEF KeepsPayloads, StoreInv
<1>2. ASSUME NEW m \in Member, NEW x \in Store, batches' = [batches EXCEPT ![m] = x],
             \A v \in batches[m].memory \cap batches[m].file :
                (v \in x.memory /\ v \in x.file) \/ Settled(v),
             \A v \in x.memory : v \in x.file \/ Settled(v)
      PROVE  KeepsPayloads
  BY <1>2 DEF KeepsPayloads, StoreInv, TypeInv
<1>3. ASSUME NEW m \in Member, NEW b \in Batch, Publish(m, b) PROVE KeepsPayloads
  <2> DEFINE next == batches[m].memory \union Range(b)
  <2>1. CASE next = batches[m].memory
    <3>1. batches' = batches
      BY <1>3, <2>1 DEF Publish, TypeInv
    <3> QED
      BY <1>1, <3>1
  <2>2. CASE next # batches[m].memory
    <3>1. batches' = [batches EXCEPT ![m] = Saved(batches[m], next)]
      BY <1>3, <2>2 DEF Publish
    <3>2. batches[m] \in Store /\ next \in SUBSET Value
      BY BatchValues DEF TypeInv, Store
    <3>3. /\ Saved(batches[m], next) \in Store
          /\ Saved(batches[m], next).memory = next /\ Saved(batches[m], next).file = next
      BY SMT, <3>2, SaveEffects
    <3> QED
      BY <1>2, <3>1, <3>3
  <2> QED
    BY <2>1, <2>2
<1>4. ASSUME NEW m \in Member, NEW b \in Batch, PublishFails(m, b) PROVE KeepsPayloads
  <2> DEFINE before(k) == batches[m].memory \union Range(SubSeq(b, 1, k - 1))
             reached(k) == IF before(k) = batches[m].memory THEN batches[m]
                           ELSE Saved(batches[m], before(k))
  <2>1. PICK k \in DOMAIN b :
           \E x \in SaveFailed(reached(k), before(k) \union {b[k]}) :
              batches' = [batches EXCEPT ![m] = x]
    BY <1>4 DEF PublishFails
  <2>2. batches[m] \in Store /\ before(k) \in SUBSET Value /\ before(k) \union {b[k]} \in SUBSET Value
    <3>1. batches[m] \in Store
      BY DEF TypeInv
    <3>2. batches[m].memory \in SUBSET Value
      BY <3>1 DEF Store
    <3> QED BY <2>1, <3>1, <3>2, BatchPrefix
  <2>3. reached(k) \in Store /\ reached(k).memory = before(k)
        /\ (reached(k) = batches[m] \/ reached(k).file = before(k))
    BY <2>2, SaveEffects
  <2>4. PICK x \in SaveFailed(reached(k), before(k) \union {b[k]}) :
           batches' = [batches EXCEPT ![m] = x]
    BY <2>1
  <2>5. x \in Store /\ x.memory = before(k)
        /\ (x.file = reached(k).file \/ x.file = before(k) \union {b[k]})
    BY SMT, <2>2, <2>3, SaveEffects
  <2>6. \A v \in batches[m].memory : v \in batches[m].file \/ Settled(v)
    BY DEF StoreInv
  <2>7. /\ \A v \in batches[m].memory \cap batches[m].file : v \in x.memory /\ v \in x.file
        /\ \A v \in x.memory : v \in x.file \/ Settled(v)
    BY <2>3, <2>5, <2>6
  <2> QED
    BY <1>2, <2>4, <2>5, <2>7
<1>5. ASSUME NEW m \in Member, PruneBatches(m) PROVE KeepsPayloads
  <2> DEFINE left == batches[m].memory \ Covered
  <2>1. \A v \in Covered : Settled(v)
    BY <1>5, CoveredSettled DEF PruneBatches
  <2>2. batches[m] \in Store /\ left \in SUBSET Value
    BY DEF TypeInv, Store
  <2>3. PICK x \in {Saved(batches[m], left)} \union SaveFailed(batches[m], left) :
           batches' = [batches EXCEPT ![m] = x]
    BY <1>5 DEF PruneBatches
  <2>4. /\ x \in Store
        /\ x.memory = left \/ x.memory = batches[m].memory
        /\ x.file = left \/ (x.file = batches[m].file /\ x.memory = batches[m].memory)
    BY SMT, <2>2, <2>3, SaveEffects
  <2>5. \A v \in batches[m].memory : v \in batches[m].file \/ Settled(v)
    BY DEF StoreInv
  <2>6. /\ \A v \in batches[m].memory \cap batches[m].file :
              (v \in x.memory /\ v \in x.file) \/ Settled(v)
        /\ \A v \in x.memory : v \in x.file \/ Settled(v)
    BY <2>1, <2>4, <2>5
  <2> QED
    BY <1>2, <2>3, <2>4, <2>6
<1>6. ASSUME NEW m \in Member, Crash(m) PROVE KeepsPayloads
  <2>1. batches' = [batches EXCEPT ![m] = Saved(batches[m], batches[m].file)]
    BY <1>6 DEF Crash
  <2>2. batches[m] \in Store /\ batches[m].file \in SUBSET Value
    BY DEF TypeInv, Store
  <2>3. /\ Saved(batches[m], batches[m].file) \in Store
        /\ Saved(batches[m], batches[m].file).memory = batches[m].file
        /\ Saved(batches[m], batches[m].file).file = batches[m].file
    BY <2>2, SaveEffects
  <2> QED
    BY <1>2, <2>1, <2>3
<1> QED
  BY SMT, <1>1, <1>3, <1>4, <1>5, <1>6
     DEF Next, Journal, JournalFails, Record, Decide, Execute, ExecuteUnmarked, ExecuteFails,
         Export, Package, Join, vars, state, payloads

\* A holder stays one, or its value is settled.
LEMMA HolderStays ==
  TypeInv /\ PackageInv /\ StoreInv /\ [Next]_vars =>
     \A v : \A q \in Holders(v) : q \in Holders(v)' \/ Settled(v)'
BY StepGrows, SettledStays, StepKeeps DEF Holders, KeepsPayloads

\* A value with a holder or settled stays so.
LEMMA SafeStays ==
  TypeInv /\ PackageInv /\ StoreInv /\ [Next]_vars =>
     \A v : Holders(v) # {} \/ Settled(v) => Holders(v)' # {} \/ Settled(v)'
BY StepGrows, SettledStays, HolderStays

\* Every step keeps what memory mentions durable or settled.
LEMMA StoreStep == TypeInv /\ PackageInv /\ StoreInv /\ [Next]_vars => StoreInv'
BY StepGrows, SettledStays, StepKeeps DEF StoreInv, KeepsPayloads

\* Every step keeps what was acknowledged durable or settled.
LEMMA AckStep == TypeInv /\ PackageInv /\ StoreInv /\ AckInv /\ [Next]_vars => AckInv'
<1> SUFFICES ASSUME TypeInv, PackageInv, StoreInv, AckInv, [Next]_vars PROVE AckInv'
  OBVIOUS
<1>1. \A v : Settled(v) => Settled(v)'
  BY StepGrows, SettledStays
<1>2. ASSUME acks' = acks PROVE AckInv'
  BY <1>1, <1>2, HolderStays DEF AckInv
<1>3. ASSUME NEW m \in Member, NEW b \in Batch, Publish(m, b) PROVE AckInv'
  <2>1. \A c \in Batch : acks'[c] \subseteq acks[c] \union (IF c = b THEN {m} ELSE {})
    BY <1>3 DEF Publish, TypeInv
  <2>2. \A v \in Range(b) : v \in batches'[m].memory
    BY <1>3 DEF Publish, Saved, TypeInv, Store
  <2>3. \A v \in Range(b) : m \in Holders(v)' \/ Settled(v)'
    BY <1>1, <2>2, StepKeeps DEF KeepsPayloads, Holders
  <2> QED
    BY <1>1, <2>1, <2>3, HolderStays DEF AckInv
<1> QED
  BY ZenonT(40), <1>2, <1>3
     DEF Next, Journal, JournalFails, PublishFails, Record, Decide, Execute, ExecuteUnmarked,
         ExecuteFails, Export, Package, PruneBatches, Join, Crash, vars, state, payloads

\* Every step keeps what value stores and recorders vouch for durable or settled.
LEMMA ValueStep == TypeInv /\ PackageInv /\ StoreInv /\ ValueInv /\ [Next]_vars => ValueInv'
<1> SUFFICES ASSUME TypeInv, PackageInv, StoreInv, ValueInv, [Next]_vars PROVE ValueInv'
  OBVIOUS
<1>1. ASSUME \A m \in Member : \A v \in values'[m] \union vouched'[m] :
                Holders(v) # {} \/ Settled(v)
      PROVE  ValueInv'
  BY <1>1, SafeStays DEF ValueInv
<1>2. ASSUME values' = values, vouched' = vouched PROVE ValueInv'
  BY <1>1, <1>2 DEF ValueInv
<1>3. ASSUME NEW m \in Member, NEW b \in Batch, Record(m, b) PROVE ValueInv'
  <2>1. ASSUME NEW v \in Range(b) \ values[m] PROVE Holders(v) # {} \/ Settled(v)
    <3>1. PICK q \in Member : v \in batches[q].memory
      BY <1>3, <2>1 DEF Record, EnsureAvailable, FetchValues, Sources
    <3> QED
      BY <3>1 DEF StoreInv, Holders
  <2>2. \A v \in Range(b) : Holders(v) # {} \/ Settled(v)
    BY <2>1 DEF ValueInv
  <2>3. \A n \in Member : /\ values'[n] \subseteq values[n] \union Range(b)
                          /\ vouched'[n] \subseteq vouched[n] \union Range(b)
    BY <1>3 DEF Record, EnsureAvailable, TypeInv
  <2> QED
    BY <1>1, <2>2, <2>3 DEF ValueInv
<1>4. ASSUME NEW m \in Member, Crash(m) PROVE ValueInv'
  <2>1. \A n \in Member : values'[n] \subseteq values[n] /\ vouched'[n] = vouched[n]
    BY <1>4 DEF Crash, TypeInv
  <2> QED
    BY <1>1, <2>1 DEF ValueInv
<1> QED
  BY ZenonT(40), <1>2, <1>3, <1>4
     DEF Next, Journal, JournalFails, Publish, PublishFails, Decide, Execute, ExecuteUnmarked,
         ExecuteFails, Export, Package, PruneBatches, Join, vars, state, payloads

\* Every step keeps what was decided durable or settled.
LEMMA LogStep == TypeInv /\ PackageInv /\ StoreInv /\ ValueInv /\ LogInv /\ [Next]_vars => LogInv'
<1> SUFFICES ASSUME TypeInv, PackageInv, StoreInv, ValueInv, LogInv, [Next]_vars PROVE LogInv'
  OBVIOUS
<1>1. ASSUME log' = log PROVE LogInv'
  BY <1>1, SafeStays DEF LogInv, Slots
<1>2. ASSUME NEW b \in Batch, Decide(b) PROVE LogInv'
  <2>1. PICK m \in Member : Range(b) \subseteq vouched[m]
    BY <1>2, ServicesAssumption DEF Decide, TypeInv
  <2>2. \A v \in Range(b) : Holders(v)' # {} \/ Settled(v)'
    BY <2>1, SafeStays DEF ValueInv
  <2>3. \A s \in Slots' : (s \in Slots /\ log'[s] = log[s]) \/ log'[s] = b
    BY SMT, <1>2 DEF Decide, Slots, TypeInv
  <2> QED
    BY <2>2, <2>3, SafeStays DEF LogInv
<1> QED
  BY ZenonT(40), <1>1, <1>2
     DEF Next, Journal, JournalFails, Publish, PublishFails, Record, Execute, ExecuteUnmarked,
         ExecuteFails, Export, Package, PruneBatches, Join, Crash, vars, state, payloads

------------------------------------------------------------------------------
(* Execution *)

\* An application in memory and in its file, no value twice.
Once(x) ==
  /\ x = [memory |-> x.memory, file |-> x.file]
  /\ x.memory \in Seq(Value) /\ x.file \in Seq(Value)
  /\ IsInjective(x.memory) /\ IsInjective(x.file)

\* The inductive invariant of the applications.
ApplicationInv ==
  /\ executor \in [Member -> {executor[m] : m \in Member}]
  /\ \A m \in Member : Once(executor[m])
  /\ package.application \in Seq(Value) /\ IsInjective(package.application)
  /\ Founders \subseteq active
  /\ \A m \in Founders :
        /\ executed[m] \subseteq Slots
        /\ Range(executor[m].memory) \subseteq Range(executor[m].file)
        /\ \A s \in executed[m] : Range(log[s]) \subseteq Range(executor[m].memory)

\* What a save does to an application.
LEMMA ApplicationSaves ==
  ASSUME NEW x, Once(x), NEW next \in Seq(Value), IsInjective(next)
  PROVE  /\ Once(Saved(x, next))
         /\ Saved(x, next).memory = next /\ Saved(x, next).file = next
         /\ \A y \in SaveFailed(x, next) :
               Once(y) /\ y.memory = x.memory /\ (y.file = x.file \/ y.file = next)
<1>1. PICK a, b : x = [memory |-> a, file |-> b]
  BY DEF Once
<1>2. Saved(x, next) = [memory |-> next, file |-> next]
  <2>1. x \in [memory : Seq(Value), file : Seq(Value)]
    BY DEF Once
  <2>2. /\ Saved(x, next) \in [memory : Seq(Value), file : Seq(Value)]
        /\ Saved(x, next).memory = next /\ Saved(x, next).file = next
    BY <2>1 DEF Saved
  <2> QED BY <2>2
<1>3. SaveFailed(x, next) = {x, [memory |-> x.memory, file |-> next]}
  BY SMT, <1>1 DEF SaveFailed
<1> QED BY SMT, <1>2, <1>3 DEF Once

\* The application of one member changes: no value twice, and at a founder memory
\* keeps what it has and the file follows.
Moves(m, x) ==
  /\ executor' = [executor EXCEPT ![m] = x]
  /\ Once(x)
  /\ m \in Founders => /\ Range(executor[m].memory) \subseteq Range(x.memory)
                       /\ Range(x.memory) \subseteq Range(x.file)

\* A step that only moves the application of one member keeps the invariant.
LEMMA MovesKeep ==
  ASSUME ApplicationInv, NEW m \in Member, NEW x, Moves(m, x),
         package'.application \in Seq(Value), IsInjective(package'.application),
         active \subseteq active', log' = log,
         \A q \in Founders : executed'[q] = executed[q]
  PROVE  ApplicationInv'
<1>1. executor' \in [Member -> {executor'[q] : q \in Member}]
  BY DEF ApplicationInv, Moves
<1>2. \A q \in Member : executor'[q] = IF q = m THEN x ELSE executor[q]
  BY DEF ApplicationInv, Moves
<1>3. \A q \in Member : Once(executor'[q])
  BY <1>2 DEF ApplicationInv, Moves
<1>4. Founders \subseteq Member
  BY ServicesAssumption
<1>5. ASSUME NEW q \in Founders
      PROVE  /\ executed'[q] \subseteq Slots'
             /\ Range(executor'[q].memory) \subseteq Range(executor'[q].file)
             /\ \A s \in executed'[q] : Range(log'[s]) \subseteq Range(executor'[q].memory)
  BY <1>2, <1>4 DEF ApplicationInv, Moves, Slots
<1> QED BY <1>1, <1>3, <1>5 DEF ApplicationInv

\* What execute_once has not seen of a decision.
LEMMA FreshFacts ==
  ASSUME TypeInv, ApplicationInv, NEW m \in Member, NEW s \in Slots
  PROVE  /\ Fresh(m, s) \in Seq(Value) /\ IsInjective(Fresh(m, s))
         /\ Range(Fresh(m, s)) = Range(log[s]) \ Range(executor[m].memory)
         /\ executor[m].memory \o Fresh(m, s) \in Seq(Value)
         /\ IsInjective(executor[m].memory \o Fresh(m, s))
         /\ Range(executor[m].memory \o Fresh(m, s)) = Range(executor[m].memory) \union Range(log[s])
<1>1. log[s] \in Seq(Value) /\ IsInjective(log[s])
  BY SMT, ServicesAssumption DEF TypeInv, Slots
<1>2. /\ Fresh(m, s) \in Seq(Value) /\ IsInjective(Fresh(m, s))
      /\ Range(Fresh(m, s)) = Range(log[s]) \ Range(executor[m].memory)
  BY SMT, <1>1, UnseenFacts DEF Fresh
<1>3. executor[m].memory \in Seq(Value) /\ IsInjective(executor[m].memory)
  BY DEF ApplicationInv, Once
<1>4. Range(executor[m].memory) \cap Range(Fresh(m, s)) = {}
  BY <1>2
<1>5. /\ executor[m].memory \o Fresh(m, s) \in Seq(Value)
      /\ IsInjective(executor[m].memory \o Fresh(m, s))
      /\ Range(executor[m].memory \o Fresh(m, s)) = Range(executor[m].memory) \union Range(Fresh(m, s))
  BY SMT, <1>2, <1>3, <1>4, JoinFacts
<1> QED BY <1>2, <1>5

\* The values before the k-th, and the k-th.
LEMMA PartFacts ==
  ASSUME NEW a \in Seq(Value), NEW w \in Seq(Value), IsInjective(a), IsInjective(w),
         Range(a) \cap Range(w) = {}, NEW k \in DOMAIN w
  PROVE  LET before == a \o SubSeq(w, 1, k - 1)
         IN  /\ before \in Seq(Value) /\ IsInjective(before)
             /\ Range(a) \subseteq Range(before)
             /\ Append(before, w[k]) \in Seq(Value) /\ IsInjective(Append(before, w[k]))
             /\ Range(before) \subseteq Range(Append(before, w[k]))
<1>1. k - 1 \in 0 .. Len(w) /\ k \in 1 .. Len(w) /\ w[k] \in Value /\ Len(w) \in Nat
  BY SMT
<1>2. PICK p, r : p = SubSeq(w, 1, k - 1) /\ r = SubSeq(w, (k - 1) + 1, Len(w))
  OBVIOUS
<1>3. /\ p \in Seq(Value) /\ r \in Seq(Value) /\ IsInjective(p) /\ Range(p) \cap Range(r) = {}
      /\ Range(w) = Range(p) \union Range(r) /\ Len(r) = Len(w) - (k - 1)
  BY SMTT(20), <1>1, <1>2, SplitFacts
<1>4. w[k] \in Range(r)
  <2>1. 1 \in 1 .. Len(r) /\ r[1] = w[k]
    BY SMTT(20), <1>1, <1>2, <1>3
  <2> QED BY <1>3, <2>1, RangeIs
<1>5. PICK b : b = a \o p
  OBVIOUS
<1>6. b \in Seq(Value) /\ IsInjective(b) /\ Range(b) = Range(a) \union Range(p)
  BY SMT, <1>3, <1>5, JoinFacts
<1>7. w[k] \notin Range(b)
  BY <1>3, <1>4, <1>6
<1>8. /\ Append(b, w[k]) \in Seq(Value) /\ IsInjective(Append(b, w[k]))
      /\ Range(Append(b, w[k])) = Range(b) \union {w[k]}
  BY SMT, <1>1, <1>6, <1>7, AppendFacts
<1> QED BY <1>2, <1>5, <1>6, <1>8

\* Executing a slot keeps the invariant.
LEMMA ExecuteKeeps ==
  ASSUME TypeInv, ApplicationInv, NEW m \in Member, NEW s \in 1 .. MaxSlot, Execute(m, s)
  PROVE  ApplicationInv'
<1>1. s \in Slots /\ m \in active
  BY DEF Execute, Due
<1>2. PICK next : next = executor[m].memory \o Fresh(m, s)
  OBVIOUS
<1>3. /\ next \in Seq(Value) /\ IsInjective(next)
      /\ Range(next) = Range(executor[m].memory) \union Range(log[s])
      /\ Range(Fresh(m, s)) = Range(log[s]) \ Range(executor[m].memory)
  BY <1>1, <1>2, FreshFacts
<1>4. Once(executor[m])
  BY DEF ApplicationInv
<1>5. PICK x : x = IF Fresh(m, s) = << >> THEN executor[m] ELSE Saved(executor[m], next)
  OBVIOUS
<1>6. executor' = [executor EXCEPT ![m] = x]
  BY <1>2, <1>5 DEF Execute
<1>7. /\ Once(x) /\ Range(executor[m].memory) \union Range(log[s]) \subseteq Range(x.memory)
      /\ m \in Founders => Range(x.memory) \subseteq Range(x.file)
  <2>1. CASE Fresh(m, s) = << >>
    <3>1. Range(Fresh(m, s)) = {}
      BY SMT, <2>1 DEF Range
    <3> QED BY <1>3, <1>4, <1>5, <2>1, <3>1 DEF ApplicationInv
  <2>2. CASE Fresh(m, s) # << >>
    BY SMT, <1>3, <1>4, <1>5, <2>2, ApplicationSaves
  <2> QED BY <2>1, <2>2
<1>8. \A q \in Member : executor'[q] = IF q = m THEN x ELSE executor[q]
  BY <1>6 DEF ApplicationInv
<1>9. \A q \in Member : executed'[q] = IF q = m THEN executed[q] \union {s} ELSE executed[q]
  BY DEF Execute, TypeInv
<1>10. executor' \in [Member -> {executor'[q] : q \in Member}]
  BY <1>6 DEF ApplicationInv
<1>11. Founders \subseteq Member
  BY ServicesAssumption
<1>12. log' = log /\ active' = active /\ package' = package
  BY DEF Execute
<1>13. ASSUME NEW q \in Founders
       PROVE  /\ executed'[q] \subseteq Slots'
              /\ Range(executor'[q].memory) \subseteq Range(executor'[q].file)
              /\ \A t \in executed'[q] : Range(log'[t]) \subseteq Range(executor'[q].memory)
  <2>1. q \in Member
    BY <1>11
  <2>2. CASE q = m
    BY ZenonT(40), <1>1, <1>7, <1>8, <1>9, <1>12, <2>1, <2>2 DEF ApplicationInv, Slots
  <2>3. CASE q # m
    BY <1>8, <1>9, <1>12, <2>1, <2>3 DEF ApplicationInv, Slots
  <2> QED BY <2>2, <2>3
<1>14. \A q \in Member : Once(executor'[q])
  BY <1>7, <1>8 DEF ApplicationInv
<1> QED BY <1>10, <1>12, <1>13, <1>14 DEF ApplicationInv

\* So does executing a slot whose mark is lost.
LEMMA ExecuteUnmarkedKeeps ==
  ASSUME TypeInv, ApplicationInv, NEW m \in Member, NEW s \in 1 .. MaxSlot,
         ExecuteUnmarked(m, s)
  PROVE  ApplicationInv'
<1>1. s \in Slots
  BY DEF ExecuteUnmarked, Due
<1>2. PICK next : next = executor[m].memory \o Fresh(m, s)
  OBVIOUS
<1>3. /\ next \in Seq(Value) /\ IsInjective(next)
      /\ Range(next) = Range(executor[m].memory) \union Range(log[s])
  BY <1>1, <1>2, FreshFacts
<1>4. Once(executor[m])
  BY DEF ApplicationInv
<1>5. Moves(m, Saved(executor[m], next))
  <2>1. executor' = [executor EXCEPT ![m] = Saved(executor[m], next)]
    BY <1>2 DEF ExecuteUnmarked
  <2>2. /\ Once(Saved(executor[m], next))
        /\ Saved(executor[m], next).memory = next /\ Saved(executor[m], next).file = next
    BY <1>3, <1>4, ApplicationSaves
  <2> QED BY <1>3, <2>1, <2>2 DEF Moves
<1> QED BY <1>5, MovesKeep DEF ExecuteUnmarked, ApplicationInv

\* So does an execution whose save fails.
LEMMA ExecuteFailsKeeps ==
  ASSUME TypeInv, ApplicationInv, NEW m \in Member, NEW s \in 1 .. MaxSlot, ExecuteFails(m, s)
  PROVE  ApplicationInv'
<1>1. s \in Slots
  BY DEF ExecuteFails, Due
<1>2. PICK w, a : w = Fresh(m, s) /\ a = executor[m].memory
  OBVIOUS
<1>3. /\ w \in Seq(Value) /\ IsInjective(w) /\ Range(a) \cap Range(w) = {}
      /\ a \in Seq(Value) /\ IsInjective(a) /\ Once(executor[m])
  <2>1. /\ Fresh(m, s) \in Seq(Value) /\ IsInjective(Fresh(m, s))
        /\ Range(Fresh(m, s)) = Range(log[s]) \ Range(executor[m].memory)
    BY <1>1, FreshFacts
  <2>2. Once(executor[m])
    BY DEF ApplicationInv
  <2>3. a \in Seq(Value) /\ IsInjective(a)
    BY <1>2, <2>2 DEF Once
  <2> QED BY <1>2, <2>1, <2>2, <2>3
<1>4. PICK k \in DOMAIN w :
         LET before == a \o SubSeq(w, 1, k - 1)
             reached == IF k = 1 THEN executor[m] ELSE Saved(executor[m], before)
         IN  executor' \in {[executor EXCEPT ![m] = x] :
                              x \in SaveFailed(reached, Append(before, w[k]))}
  BY <1>2 DEF ExecuteFails
<1>5. PICK before, after : before = a \o SubSeq(w, 1, k - 1) /\ after = Append(before, w[k])
  OBVIOUS
<1>6. /\ before \in Seq(Value) /\ IsInjective(before) /\ Range(a) \subseteq Range(before)
      /\ after \in Seq(Value) /\ IsInjective(after) /\ Range(before) \subseteq Range(after)
  BY <1>3, <1>5, PartFacts
<1>7. k = 1 => before = a
  BY SMT, <1>3, <1>5
<1>8. PICK reached : reached = IF k = 1 THEN executor[m] ELSE Saved(executor[m], before)
  OBVIOUS
<1>9. /\ Once(reached) /\ reached.memory = before
      /\ m \in Founders => Range(before) \subseteq Range(reached.file)
  <2>1. CASE k = 1
    BY <1>2, <1>3, <1>7, <1>8, <2>1 DEF ApplicationInv
  <2>2. CASE k # 1
    BY <1>3, <1>6, <1>8, <2>2, ApplicationSaves
  <2> QED BY <2>1, <2>2
<1>10. PICK x \in SaveFailed(reached, after) : executor' = [executor EXCEPT ![m] = x]
  BY <1>4, <1>5, <1>8
<1>11. Once(x) /\ x.memory = before /\ (x.file = reached.file \/ x.file = after)
  BY SMT, <1>6, <1>9, <1>10, ApplicationSaves
<1>12. Moves(m, x)
  BY <1>2, <1>6, <1>9, <1>10, <1>11 DEF Moves
<1> QED BY <1>12, MovesKeep DEF ExecuteFails, ApplicationInv

\* So does exporting a package.
LEMMA ExportKeeps ==
  ASSUME TypeInv, ApplicationInv, NEW m \in Member, NEW s \in 1 .. MaxSlot, Export(m, s)
  PROVE  ApplicationInv'
<1>1. Once(executor[m]) /\ (m \in Founders => Range(executor[m].memory) \subseteq Range(executor[m].file))
  BY DEF ApplicationInv
<1>2. executor[m].memory \in Seq(Value) /\ IsInjective(executor[m].memory)
  BY <1>1 DEF Once
<1>3. PICK x \in {Saved(executor[m], executor[m].memory)}
                   \union SaveFailed(executor[m], executor[m].memory) :
         executor' = [executor EXCEPT ![m] = x]
  BY DEF Export
<1>4. Moves(m, x)
  BY SMT, <1>1, <1>2, <1>3, ApplicationSaves DEF Moves
<1>5. package'.application \in Seq(Value) /\ IsInjective(package'.application)
  BY SMT, <1>2 DEF Export, ApplicationInv
<1> QED BY <1>4, <1>5, MovesKeep DEF Export

\* So does joining from a package.
LEMMA JoinKeeps ==
  ASSUME TypeInv, ApplicationInv, NEW m \in Member, Join(m)
  PROVE  ApplicationInv'
<1>1. Once(executor[m]) /\ package.application \in Seq(Value) /\ IsInjective(package.application)
  BY DEF ApplicationInv
<1>2. m \notin Founders /\ Founders \subseteq Member
  BY ServicesAssumption DEF Join, ApplicationInv
<1>3. PICK x \in {Saved(executor[m], package.application)}
                   \union SaveFailed(executor[m], package.application) :
         executor' = [executor EXCEPT ![m] = x]
  BY DEF Join
<1>4. Moves(m, x)
  BY SMT, <1>1, <1>2, <1>3, ApplicationSaves DEF Moves
<1>5. \A q \in Founders : executed'[q] = executed[q]
  BY <1>2 DEF Join, TypeInv
<1> QED BY <1>1, <1>4, <1>5, MovesKeep DEF Join

\* So does a restart.
LEMMA RestartKeeps ==
  ASSUME TypeInv, ApplicationInv, NEW m \in Member, Crash(m)
  PROVE  ApplicationInv'
<1>1. Once(executor[m]) /\ (m \in Founders => Range(executor[m].memory) \subseteq Range(executor[m].file))
  BY DEF ApplicationInv
<1>2. executor[m].file \in Seq(Value) /\ IsInjective(executor[m].file)
  BY <1>1 DEF Once
<1>3. Moves(m, Saved(executor[m], executor[m].file))
  BY SMT, <1>1, <1>2, ApplicationSaves DEF Moves, Crash
<1>4. package'.application = package.application
  BY DEF Crash, TypeInv
<1> QED BY <1>3, <1>4, MovesKeep DEF Crash, ApplicationInv

\* Every step keeps the applications right.
LEMMA ApplicationStep == TypeInv /\ ApplicationInv /\ [Next]_vars => ApplicationInv'
<1> SUFFICES ASSUME TypeInv, ApplicationInv, [Next]_vars PROVE ApplicationInv'
  OBVIOUS
<1>1. ASSUME UNCHANGED <<executor, executed, active>>, log' = log,
             package'.application = package.application
      PROVE  ApplicationInv'
  BY <1>1 DEF ApplicationInv, Slots
<1>2. ASSUME NEW b \in Batch, Decide(b) PROVE ApplicationInv'
  <2>1. \A s \in Slots : s \in Slots' /\ log'[s] = log[s]
    BY SMT, <1>2 DEF Decide, Slots, TypeInv
  <2>2. executor' = executor /\ executed' = executed /\ active' = active /\ package' = package
    BY <1>2 DEF Decide, state
  <2> QED BY <2>1, <2>2 DEF ApplicationInv
<1>3. ASSUME Package PROVE ApplicationInv'
  <2>1. package'.application = package.application
    BY <1>3 DEF Package, TypeInv
  <2> QED BY <1>1, <1>3, <2>1 DEF Package
<1>4. CASE Journal \/ JournalFails \/ UNCHANGED vars
  BY <1>1, <1>4 DEF Journal, JournalFails, vars, state
<1>5. ASSUME NEW m \in Member, NEW b \in Batch,
             Publish(m, b) \/ PublishFails(m, b) \/ Record(m, b)
      PROVE  ApplicationInv'
  BY <1>1, <1>5 DEF Publish, PublishFails, Record, state
<1>6. ASSUME NEW m \in Member, PruneBatches(m) PROVE ApplicationInv'
  BY <1>1, <1>6 DEF PruneBatches, state
<1> QED
  BY <1>2, <1>3, <1>4, <1>5, <1>6, ExecuteKeeps, ExecuteUnmarkedKeeps, ExecuteFailsKeeps,
     ExportKeeps, JoinKeeps, RestartKeeps DEF Next

------------------------------------------------------------------------------
(* Theorems *)

\* The inductive invariant holds in every state.
THEOREM PayloadInvariant == Spec => []PayloadInv
<1>1. PayloadInv /\ [Next]_vars => PayloadInv'
  BY TypePayloads, PackageStep, StoreStep, AckStep, ValueStep, LogStep DEF PayloadInv
<1> QED
  BY InitPayloads, <1>1, PTL DEF Spec

\* Consensus never decides what nobody can fetch, and prune_state_transfer never
\* removes what an active member needs, whatever fails and restarts.
THEOREM PayloadsStayAvailable == Spec => []PayloadsAvailable
<1>1. PayloadInv => PayloadsAvailable
  BY DEF PayloadInv, LogInv, Settled, PayloadsAvailable
<1> QED
  BY PayloadInvariant, <1>1, PTL

\* What TlsBatchPublisher reported as published keeps its number of holders until
\* every active member has executed it.
THEOREM PublicationsSurvive == Spec => []PublishedSurvives
<1>1. ASSUME PayloadInv PROVE PublishedSurvives
  <2> SUFFICES ASSUME NEW b \in Batch, Published(b), NEW v \in Range(b),
                      ~ \A m \in active : Done(m, v)
               PROVE  Cardinality(Holders(v)) >= Threshold
    BY DEF PublishedSurvives
  <2>1. acks[b] \subseteq Holders(v)
    BY <1>1 DEF PayloadInv, AckInv, Settled
  <2>2. Holders(v) \subseteq Member
    BY DEF Holders
  <2>3. IsFiniteSet(Holders(v))
    BY <2>2, FS_Subset, ServicesAssumption
  <2>4. Cardinality(acks[b]) <= Cardinality(Holders(v)) /\ IsFiniteSet(acks[b])
    BY <2>1, <2>3, FS_Subset
  <2>5. Cardinality(acks[b]) \in Nat /\ Cardinality(Holders(v)) \in Nat /\ Threshold \in Nat
    BY SMT, <2>3, <2>4, FS_CardinalityType, ServicesAssumption
  <2> QED
    BY SMT, <2>4, <2>5 DEF Published
<1> QED
  BY PayloadInvariant, <1>1, PTL

\* The inductive invariant of the applications holds in every state.
THEOREM ApplicationInvariant == Spec => []ApplicationInv
<1>1. Init => ApplicationInv
  <2> SUFFICES ASSUME Init PROVE ApplicationInv
    OBVIOUS
  <2>1. << >> \in Seq(Value) /\ IsInjective(<< >>)
    BY SMT DEF IsInjective
  <2>2. \A m \in Member : executor[m] = [memory |-> << >>, file |-> << >>] /\ executed[m] = {}
    BY DEF Init
  <2>3. ASSUME NEW m \in Member PROVE Once(executor[m])
    <3>1. /\ executor[m] = [memory |-> << >>, file |-> << >>]
          /\ executor[m].memory = << >> /\ executor[m].file = << >>
      BY SMT, <2>2
    <3> QED BY <2>1, <3>1 DEF Once
  <2> QED
    BY <2>1, <2>2, <2>3, ServicesAssumption DEF Init, ApplicationInv
<1>2. TypeInv /\ ApplicationInv /\ [Next]_vars => ApplicationInv'
  BY ApplicationStep
<1>3. Spec => []TypeInv
  BY PayloadInvariant, PTL DEF PayloadInv
<1> QED
  BY <1>1, <1>2, <1>3, PTL DEF Spec

\* DeduplicatingStateMachine applies no value twice, and what a founder's runtime
\* marked as executed is in the file of its application, whatever fails and
\* restarts.
THEOREM ExecutedOnce == Spec => []AppliedOnce
<1>1. ApplicationInv => AppliedOnce
  BY DEF ApplicationInv, Once, AppliedOnce
<1> QED
  BY ApplicationInvariant, <1>1, PTL

\* In the composed node, retries behave as RequestJournal says, so that its
\* theorems hold of the node.
THEOREM NodeKeepsJournal == Spec => JSpec
<1>1. Init => JInit
  BY DEF Init
<1>2. [Next]_vars => [JNext]_jvars
  <2> SUFFICES ASSUME [Next]_vars PROVE [JNext]_jvars
    OBVIOUS
  <2>1. CASE Journal
    BY <2>1 DEF Journal, JNext, Answer
  <2>2. CASE JournalFails
    BY <2>2 DEF JournalFails, JNext
  <2>3. ASSUME NEW m \in Member, Crash(m) PROVE [JNext]_jvars
    BY <2>3 DEF Crash, JNext
  <2>4. CASE UNCHANGED jvars
    BY <2>4
  <2> QED
    BY ZenonT(40), <2>1, <2>2, <2>3, <2>4
       DEF Next, Publish, PublishFails, Record, Decide, Execute, ExecuteUnmarked, ExecuteFails,
           Export, Package, PruneBatches, Join, vars
<1> QED
  BY <1>1, <1>2, PTL DEF Spec, JSpec
==============================================================================
