--------------------------- MODULE QuePaxa_proofs ----------------------------
(***************************************************************************)
(* Safety of one slot, for every set of recorders and proposers, every     *)
(* choice of batches, priorities and schedules, and every intersecting     *)
(* family of quorums.                                                      *)
(*                                                                         *)
(* In this order: the inductive invariant; the facts about its parts that  *)
(* do not depend on a step (the order of proposals, the register, types,   *)
(* what a propose call may conclude from the replies of a quorum), and     *)
(* what no step undoes; that every step preserves the invariant, one lemma *)
(* for each kind of step; and what the invariant means.                    *)
(*                                                                         *)
(* The last part is about the register alone (ISRHistory), under any       *)
(* sequence of calls: it only moves forward, a record call can be repeated *)
(* at any time without effect, and the summary it returns is that of all   *)
(* calls made.  Two inductive invariants carry this: CoverInv says that    *)
(* the register covers every call made, having left its step or being at   *)
(* it with an aggregate that is at least its proposal; HistoryInv says     *)
(* which call was the first at the register's step and which calls the two *)
(* aggregates are over.                                                    *)
(***************************************************************************)
EXTENDS QuePaxa, ISRHistory, TLAPS

USE Zenon

Agg(r, s) == hist[r][s].agg
First(r, s) == hist[r][s].first

------------------------------------------------------------------------------
(* The inductive invariant *)

\* A register is the last entry of its history: it keeps the summary of its
\* step and the aggregate of the step before.
RegisterInv ==
  \A r \in Recorder :
     /\ isr[r].first = First(r, isr[r].step)
     /\ isr[r].current = Agg(r, isr[r].step)
     /\ isr[r].step # 0 =>
           /\ isr[r].prior = Agg(r, isr[r].step - 1)
           /\ isr[r].first # {}
           /\ bound[r] # {}
     /\ isr[r].step = 0 => isr[r].first = {}
     /\ \A s \in 0 .. MaxStep :
           /\ First(r, s) = {} <=> Agg(r, s) = {}
           /\ s > isr[r].step => First(r, s) = {}

\* Everything recorded was requested, under the leader the recorder is bound to.
RecordedInv ==
  \A r \in Recorder, s \in 0 .. MaxStep : \A x \in First(r, s) \union Agg(r, s) :
     \E m \in sent : /\ m.step = s
                     /\ m.prop = x
                     /\ bound[r] = {Leader[m.from]}

\* A request carries a batch its proposer has proposed, and the reserved priority
\* identifies its leader.
KeyInv ==
  \A m \in sent :
     /\ m.prop.value \in Proposed(m.prop.proposer)
     /\ m.step = RoundOnePhaseZero =>
           /\ m.prop.proposer = m.from
           /\ m.prop.priority = MaxPriority => Leader[m.from] = {m.from}

\* No request of the running call is ahead of it, and those of its step carry
\* its proposal.
RequestInv ==
  \A m \in sent :
     /\ m.attempt <= attempt[m.from]
     /\ m.attempt = attempt[m.from] /\ step[m.from] # 0 =>
           /\ m.step <= step[m.from]
           /\ m.step = step[m.from] /\ Phase(m.step) # 0 => m.prop = proposal[m.from]

\* A running call has not decided and has sent the requests of its step.
CallInv ==
  \A p \in Proposer :
     /\ step[p] = 0 => replies[p] = {}
     /\ step[p] # 0 =>
           /\ decided[p] = {}
           /\ \E m \in sent : /\ m.step = step[p]
                              /\ m.prop.value = proposal[p].value
                              /\ m.prop.proposer = proposal[p].proposer
                              /\ Phase(step[p]) # 0 => m.prop = proposal[p]

\* What a collected reply says about its recorder stays true.
ReplyInv ==
  \A p \in Proposer : \A reply \in replies[p] :
     /\ step[p] <= reply.step
     /\ isr[reply.recorder].step >= reply.step
     /\ bound[reply.recorder] = {Leader[p]}
     /\ reply.first = First(reply.recorder, reply.step)
     /\ reply.first # {}
     /\ reply.prior = Agg(reply.recorder, reply.step - 1)
     /\ reply.decision \subseteq known[reply.recorder]
     /\ Phase(step[p]) # 0 /\ reply.step = step[p] =>
           \E y \in Agg(reply.recorder, step[p]) : KeyLeq(proposal[p], y)

(* Where a proposal x at step s comes from. *)

\* A step past the first one rests on a quorum that reached the step before.
Reached(s) ==
  s > RoundOnePhaseZero => \E Q \in Quorum : \A r \in Q : Agg(r, s - 1) # {}

\* A proposal in phase two was spread to a quorum in phase one.
Spread(s, x) ==
  Phase(s) = 2 =>
     \E Q \in Quorum : \A r \in Q : \E y \in Agg(r, s - 1) : KeyLeq(x, y)

\* A proposer whose batch enters a later round made the best proposal of phase
\* two at a quorum.
Gathered(s, q) ==
  Phase(s) = 0 /\ s > RoundOnePhaseZero =>
     \E k \in sent : \E Q \in Quorum :
        /\ k.step = s - 2
        /\ k.prop.proposer = q
        /\ \A r \in Q : /\ isr[r].step >= s - 1
                        /\ \A y \in Agg(r, s - 2) : KeyLeq(y, k.prop)

\* A proposal that leaves phase zero of round one is the best of the firsts of
\* a quorum bound to one leader.
Opened(s, x) ==
  s = RoundOnePhaseZero + 1 =>
     \E k \in sent : \E Q \in Quorum :
        /\ k.step = RoundOnePhaseZero
        /\ k.prop = x
        /\ \A r \in Q : /\ bound[r] = {Leader[k.from]}
                        /\ First(r, RoundOnePhaseZero) # {}
                        /\ \A y \in First(r, RoundOnePhaseZero) : KeyLeq(y, x)

\* The steps every proposal must pass: the one after phase zero of round one, and
\* phase zero of every later round.
Gate(s) == s = RoundOnePhaseZero + 1 \/ (Phase(s) = 0 /\ s > RoundOnePhaseZero)

\* No proposer's batch gets past a gate without having been requested there.
Passed(s, q) ==
  \A g \in Steps : Gate(g) /\ g < s => \E k \in sent : k.step = g /\ k.prop.proposer = q

Origin(s, x) ==
  /\ Reached(s)
  /\ Spread(s, x)
  /\ Gathered(s, x.proposer)
  /\ Opened(s, x)
  /\ Passed(s, x.proposer)

OriginInv == \A m \in sent : Origin(m.step, m.prop)

\* What the fast path saw.
FastEvidence(d) ==
  \E Q \in Quorum : \A r \in Q :
     /\ bound[r] = {{d.proposer}}
     /\ \E x \in First(r, RoundOnePhaseZero) :
           x.priority = MaxPriority /\ x.proposer = d.proposer

\* What a decision in phase two saw.
SlowEvidence(d) ==
  \E k \in sent : \E Q \in Quorum :
     /\ k.step = d.step /\ k.prop.proposer = d.proposer /\ k.prop.value = d.value
     /\ \A r \in Q : /\ isr[r].step >= d.step
                     /\ \E y \in Agg(r, d.step) : KeyLeq(k.prop, y)
                     /\ \A y \in Agg(r, d.step - 1) : KeyLeq(y, k.prop)

Evidence(d) ==
  /\ d.value \in Proposed(d.proposer)
  /\ \/ d.step = RoundOnePhaseZero /\ FastEvidence(d)
     \/ Phase(d.step) = 2 /\ SlowEvidence(d)

DecisionInv ==
  /\ \A p \in Proposer : \A d \in decided[p] : Evidence(d)
  /\ \A r \in Recorder : \A d \in known[r] : Evidence(d)

IInv ==
  /\ TypeOK
  /\ RegisterInv
  /\ RecordedInv
  /\ KeyInv
  /\ RequestInv
  /\ CallInv
  /\ ReplyInv
  /\ OriginInv
  /\ DecisionInv

------------------------------------------------------------------------------
(* The order of proposals and the register *)

Register ==
  [step : {InitialStep} \union Steps, first : Option(Proposal),
   current : Option(Proposal), prior : Option(Proposal)]

\* The components of a key are numbers.
LEMMA ProposalType ==
  \A x \in Proposal : /\ x.proposer \in Nat /\ x.proposer \in Proposer
                      /\ x.priority \in Nat /\ x.priority <= MaxPriority
<1> TAKE x \in Proposal
<1>1. x.proposer \in Proposer /\ x.priority \in 1 .. MaxPriority
  BY DEF Proposal
<1> QED BY SMT, <1>1, ProposerAssumption, PriorityAssumption

\* Keys are totally ordered (ProposalKey derives Ord).
LEMMA KeyTransitive ==
  ASSUME NEW x \in Proposal, NEW y \in Proposal, NEW z \in Proposal,
         KeyLeq(x, y), KeyLeq(y, z)
  PROVE  KeyLeq(x, z)
BY SMT, ProposalType DEF KeyLeq

\* ProposalKey's order is reflexive.
LEMMA KeyReflexive ==
  ASSUME NEW x \in Proposal
  PROVE  KeyLeq(x, x)
BY SMT, ProposalType DEF KeyLeq

\* Any two proposals can be compared by key (ProposalKey derives Ord).
LEMMA KeyTotal ==
  ASSUME NEW x \in Proposal, NEW y \in Proposal
  PROVE  KeyLeq(x, y) \/ KeyLeq(y, x)
BY SMT, ProposalType DEF KeyLeq

\* Two proposals each at most the other have the same key.
LEMMA KeyAntisymmetric ==
  ASSUME NEW x \in Proposal, NEW y \in Proposal, KeyLeq(x, y), KeyLeq(y, x)
  PROVE  SameKey(x, y)
BY SMT, ProposalType DEF KeyLeq, SameKey

\* Nothing is above the reserved priority.
LEMMA KeyOfReserved ==
  ASSUME NEW x \in Proposal, NEW y \in Proposal,
         x.priority = MaxPriority, KeyLeq(x, y)
  PROVE  y.priority = MaxPriority
BY SMT, ProposalType, PriorityAssumption DEF KeyLeq

\* best_proposal keeps the incumbent or takes the challenger, and what it
\* returns is at least both of them.
LEMMA BestProposalFacts ==
  ASSUME NEW c \in Option(Proposal), NEW x \in Proposal
  PROVE  /\ BestProposal(c, x) \in Option(Proposal)
         /\ BestProposal(c, x) # {}
         /\ BestProposal(c, x) \subseteq c \union {x}
         /\ \E y \in BestProposal(c, x) : KeyLeq(x, y)
         /\ \A z \in c : \E y \in BestProposal(c, x) : KeyLeq(z, y)
<1>1. CASE \E y \in c : KeyLeq(x, y)
  <2>1. BestProposal(c, x) = c
    BY <1>1 DEF BestProposal
  <2>2. \A z \in c : z \in Proposal
    BY DEF Option
  <2> QED BY <1>1, <2>1, <2>2, KeyReflexive
<1>2. CASE ~ \E y \in c : KeyLeq(x, y)
  <2>1. BestProposal(c, x) = {x}
    BY <1>2 DEF BestProposal
  <2>2. \A z \in c : z \in Proposal
    BY DEF Option
  <2>3. \A z \in c : KeyLeq(z, x)
    BY <1>2, <2>2, KeyTotal
  <2> QED BY <2>1, <2>3, KeyReflexive DEF Option
<1> QED BY <1>1, <1>2

\* The steps a proposer runs: numbers from round one on, within the step limit.
LEMMA StepFacts ==
  \A s \in Steps : /\ s \in Nat /\ s >= 4 /\ s <= MaxStep
                   /\ s \in 0 .. MaxStep /\ s - 1 \in 0 .. MaxStep
BY SMT, StepAssumption DEF Steps, RoundOnePhaseZero

\* The three cases of IntervalSummaryRegister::record.
LEMMA RecordISRFacts ==
  ASSUME NEW reg \in Register, NEW s \in Steps, NEW x \in Proposal
  PROVE  /\ RecordISR(reg, s, x) \in Register
         /\ s < reg.step => RecordISR(reg, s, x) = reg
         /\ s = reg.step => RecordISR(reg, s, x) = RecordSameStep(reg, x)
         /\ s > reg.step => RecordISR(reg, s, x) = RecordLaterStep(reg, s, x)
<1>1. reg.step \in Nat /\ s \in Nat
  <2>1. reg.step \in {InitialStep} \union Steps
    BY DEF Register
  <2> QED BY SMT, <2>1, StepFacts DEF InitialStep
<1>2. CASE s < reg.step
  <2>1. RecordISR(reg, s, x) = reg
    BY SMT, <1>1, <1>2 DEF RecordISR
  <2> QED BY SMT, <1>1, <1>2, <2>1
<1>3. CASE s = reg.step
  <2>1. RecordISR(reg, s, x) = RecordSameStep(reg, x)
    BY SMT, <1>1, <1>3 DEF RecordISR
  <2>2. BestProposal(reg.current, x) \in Option(Proposal)
    BY BestProposalFacts DEF Register
  <2>3. RecordSameStep(reg, x) \in Register
    BY <2>2 DEF RecordSameStep, Register, Option
  <2> QED BY SMT, <1>1, <1>3, <2>1, <2>3
<1>4. CASE s > reg.step
  <2>1. RecordISR(reg, s, x) = RecordLaterStep(reg, s, x)
    BY SMT, <1>1, <1>4 DEF RecordISR
  <2>2. RecordLaterStep(reg, s, x) \in Register
    BY DEF RecordLaterStep, Register, Option
  <2> QED BY SMT, <1>1, <1>4, <2>1, <2>2
<1> QED BY SMT, <1>1, <1>2, <1>3, <1>4

------------------------------------------------------------------------------
(* Type correctness *)

\* The components of the state, element by element.
LEMMA TypeFacts ==
  ASSUME TypeOK
  PROVE  /\ \A r \in Recorder : /\ isr[r] \in Register
                                /\ bound[r] \in Option({Leader[p] : p \in Proposer})
                                /\ known[r] \in Option(Decision)
         /\ \A p \in Proposer : /\ attempt[p] \in Nat
                                /\ step[p] \in {0} \union Steps
                                /\ proposal[p] \in Proposal
                                /\ decided[p] \in Option(Decision)
         /\ \A r \in Recorder, s \in 0 .. MaxStep :
               First(r, s) \in Option(Proposal) /\ Agg(r, s) \in Option(Proposal)
BY DEF TypeOK, Register, First, Agg

\* A request that was sent is a well-formed RecordRequest.
LEMMA SentFacts ==
  ASSUME TypeOK, NEW m \in sent
  PROVE  /\ m.from \in Proposer /\ m.to \in Recorder /\ m.attempt \in Nat
         /\ m.step \in Steps /\ m.prop \in Proposal
<1>1. m \in Request
  BY DEF TypeOK
<1> QED BY <1>1 DEF Request

\* A reply a proposer has collected is a well-formed RecordReply.
LEMMA ReplyFacts ==
  ASSUME TypeOK, NEW p \in Proposer, NEW reply \in replies[p]
  PROVE  /\ reply.recorder \in Recorder /\ reply.step \in Steps
         /\ reply.first \in Option(Proposal) /\ reply.prior \in Option(Proposal)
         /\ reply.decision \in Option(Decision)
<1>1. reply \in Reply
  BY DEF TypeOK
<1> QED BY <1>1 DEF Reply

\* The fields of a recorder's register have the types of isr.rs.
LEMMA RegisterFacts ==
  ASSUME NEW reg \in Register
  PROVE  /\ reg.step \in {InitialStep} \union Steps /\ reg.step \in Nat
         /\ reg.step \in 0 .. MaxStep
         /\ reg.first \in Option(Proposal) /\ reg.current \in Option(Proposal)
         /\ reg.prior \in Option(Proposal)
<1>1. /\ reg.step \in {InitialStep} \union Steps
      /\ reg.first \in Option(Proposal) /\ reg.current \in Option(Proposal)
      /\ reg.prior \in Option(Proposal)
  BY DEF Register
<1> QED BY SMT, <1>1, StepFacts, StepAssumption DEF InitialStep

\* What the proposer reads out of the replies of a quorum.
LEMMA CollectionFacts ==
  ASSUME TypeOK, NEW p \in Proposer, NEW R \in Collections(p)
  PROVE  /\ R \subseteq replies[p]
         /\ Recorders(R) \in Quorum
         /\ \A x \in Firsts(R) : x \in Proposal /\ \E reply \in R : x \in reply.first
         /\ \A x \in Priors(R) : x \in Proposal /\ \E reply \in R : x \in reply.prior
         /\ \A d \in Decisions(R) : d \in Decision /\ \E reply \in R : d \in reply.decision
<1>1. R \subseteq replies[p] /\ Recorders(R) \in Quorum
  BY DEF Collections
<1>2. \A x \in Firsts(R) : \E reply \in R : x \in reply.first
  BY DEF Firsts
<1>3. \A x \in Priors(R) : \E reply \in R : x \in reply.prior
  BY DEF Priors
<1>4. \A d \in Decisions(R) : \E reply \in R : d \in reply.decision
  BY DEF Decisions
<1>5. \A reply \in R : /\ reply.first \in Option(Proposal)
                       /\ reply.prior \in Option(Proposal)
                       /\ reply.decision \in Option(Decision)
  BY <1>1, ReplyFacts
<1> QED BY SMT, <1>1, <1>2, <1>3, <1>4, <1>5 DEF Option

\* A propose call starts from a proposal at Priority::MAX.
LEMMA OwnProposalType ==
  ASSUME NEW p \in Proposer
  PROVE  /\ \A a \in 1 .. MaxAttempts[p] : OwnProposal(p, a) \in Proposal
         /\ OwnProposal(p, 1) \in Proposal
<1>1. \A a \in 1 .. MaxAttempts[p] : OwnProposal(p, a) \in Proposal
  <2>1. \A a \in 1 .. MaxAttempts[p] : Batch[p][a] \in Value
    BY BatchAssumption
  <2> QED BY SMT, <2>1, PriorityAssumption DEF OwnProposal, Proposal
<1>2. 1 \in 1 .. MaxAttempts[p]
  BY SMT, BatchAssumption, AttemptsAssumption
<1> QED BY <1>1, <1>2

\* The type invariant holds before any propose call.
LEMMA TypeInit == Init => TypeOK
<1>1. \A p \in Proposer : OwnProposal(p, 1) \in Proposal
  BY OwnProposalType
<1> QED BY SMT, <1>1, StepAssumption
           DEF Init, TypeOK, EmptyRegister, Option, Steps, InitialStep, RoundOnePhaseZero

\* A propose call that returns keeps the types of the proposer's state.
LEMMA ReturnType ==
  ASSUME TypeOK, NEW p \in Proposer, Return(p)
  PROVE  /\ step' \in [Proposer -> {0} \union Steps]
         /\ proposal' \in [Proposer -> Proposal]
         /\ replies' \in [Proposer -> SUBSET Reply]
         /\ sent' \in SUBSET Request
BY OwnProposalType DEF Return, TypeOK

\* The request of one step: its priority is a draw below Priority::MAX or the
\* proposal's own.
LEMMA RequestFacts ==
  ASSUME NEW p \in Proposer, NEW a \in Nat, NEW s \in Steps, NEW x \in Proposal,
         NEW r \in Recorder, NEW priorities \in Priorities(p, s, x)
  PROVE  /\ RequestTo(p, a, r, s, x, priorities) \in Request
         /\ RequestTo(p, a, r, s, x, priorities).from = p
         /\ RequestTo(p, a, r, s, x, priorities).attempt = a
         /\ RequestTo(p, a, r, s, x, priorities).step = s
         /\ RequestTo(p, a, r, s, x, priorities).prop.value = x.value
         /\ RequestTo(p, a, r, s, x, priorities).prop.proposer = x.proposer
         /\ Phase(s) # 0 => RequestTo(p, a, r, s, x, priorities).prop = x
         /\ Phase(s) = 0 /\ (s > RoundOnePhaseZero \/ Leader[p] # {p}) =>
               RequestTo(p, a, r, s, x, priorities).prop.priority < MaxPriority
<1> DEFINE prop == [x EXCEPT !.priority = priorities[r]]
<1>1. priorities[r] \in 1 .. MaxPriority
  BY SMT, PriorityAssumption DEF Priorities, Proposal
<1>2. prop \in Proposal /\ prop.value = x.value /\ prop.proposer = x.proposer
      /\ prop.priority = priorities[r]
  BY <1>1 DEF Proposal
<1>3. Phase(s) # 0 => prop = x
  <2>1. SUFFICES ASSUME Phase(s) # 0 PROVE prop = x
    OBVIOUS
  <2>2. priorities[r] = x.priority
    BY <2>1 DEF Priorities
  <2> QED BY <2>2 DEF Proposal
<1>4. Phase(s) = 0 /\ (s > RoundOnePhaseZero \/ Leader[p] # {p}) => priorities[r] < MaxPriority
  BY SMT, PriorityAssumption DEF Priorities
<1> QED BY <1>2, <1>3, <1>4 DEF RequestTo, Request

\* The head of the proposer's loop keeps the types of the proposer's state.
LEMMA EnterType ==
  ASSUME TypeOK, NEW p \in Proposer, NEW a \in Nat, NEW s \in Nat, NEW x \in Proposal,
         s >= RoundOnePhaseZero, Enter(p, a, s, x)
  PROVE  /\ step' \in [Proposer -> {0} \union Steps]
         /\ proposal' \in [Proposer -> Proposal]
         /\ replies' \in [Proposer -> SUBSET Reply]
         /\ sent' \in SUBSET Request
<1>1. CASE s <= MaxStep
  <2>1. s \in Steps
    BY SMT, <1>1, StepAssumption DEF Steps, RoundOnePhaseZero
  <2>2. PICK priorities \in Priorities(p, s, x) :
           sent' = sent \union {RequestTo(p, a, r, s, x, priorities) : r \in Recorder}
    BY <1>1 DEF Enter
  <2>3. sent' \in SUBSET Request
    BY SMT, <2>1, <2>2, RequestFacts DEF TypeOK
  <2> QED BY <1>1, <2>1, <2>3 DEF Enter, TypeOK
<1>2. CASE ~(s <= MaxStep)
  BY <1>2, ReturnType DEF Enter
<1> QED BY <1>1, <1>2

\* A record call returns a summary at the requested step or a later one.
LEMMA RecordType ==
  ASSUME TypeOK, NEW m \in sent, Record(m)
  PROVE  TypeOK'
<1> DEFINE reg == RecordISR(isr[m.to], m.step, m.prop)
           reply == [recorder |-> m.to, step |-> reg.step, first |-> reg.first,
                     prior |-> reg.prior, decision |-> known[m.to]]
<1>0. /\ m.from \in Proposer /\ m.to \in Recorder /\ m.step \in Steps /\ m.prop \in Proposal
      /\ isr[m.to] \in Register /\ known[m.to] \in Option(Decision)
  BY SentFacts, TypeFacts
<1>1. reg \in Register
  BY <1>0, RecordISRFacts
<1>2. reg.step \in Steps
  <2>1. isr[m.to].step \in {InitialStep} \union Steps
    BY <1>0, RegisterFacts
  <2>2. /\ m.step < isr[m.to].step => reg = isr[m.to]
        /\ m.step = isr[m.to].step => reg = RecordSameStep(isr[m.to], m.prop)
        /\ m.step > isr[m.to].step => reg = RecordLaterStep(isr[m.to], m.step, m.prop)
    BY <1>0, RecordISRFacts
  <2>3. m.step = isr[m.to].step => reg.step = m.step
    BY SMT, <1>0, <2>2 DEF RecordSameStep, Register
  <2>4. m.step > isr[m.to].step => reg.step = m.step
    BY SMT, <1>0, <2>2 DEF RecordLaterStep
  <2>5. m.step \in Nat /\ m.step >= 4 /\ isr[m.to].step \in Nat
    BY <1>0, StepFacts, RegisterFacts
  <2>6. m.step < isr[m.to].step => isr[m.to].step \in Steps
    BY SMT, <2>1, <2>5 DEF InitialStep
  <2> HIDE DEF reg
  <2> QED BY SMT, <1>0, <2>2, <2>3, <2>4, <2>5, <2>6
<1>3. reply \in Reply
  <2>1. reg.first \in Option(Proposal) /\ reg.prior \in Option(Proposal)
    BY <1>1, RegisterFacts
  <2> HIDE DEF reg
  <2> QED BY <1>0, <1>2, <2>1 DEF Reply
<1>4. isr' \in [Recorder -> Register]
  BY <1>0, <1>1 DEF Record, TypeOK, Register
<1>5. bound' \in [Recorder -> Option({Leader[p] : p \in Proposer})]
  <2>1. {Leader[m.from]} \in Option({Leader[p] : p \in Proposer})
    BY <1>0 DEF Option
  <2>2. bound' = [bound EXCEPT ![m.to] = {Leader[m.from]}]
    BY DEF Record
  <2> QED BY <1>0, <2>1, <2>2 DEF TypeOK
<1>6. hist' \in [Recorder -> [0 .. MaxStep -> [first : Option(Proposal), agg : Option(Proposal)]]]
  <2>1. [first |-> reg.first, agg |-> reg.current] \in [first : Option(Proposal), agg : Option(Proposal)]
    BY <1>1, RegisterFacts
  <2>2. hist' = [hist EXCEPT ![m.to][reg.step] = [first |-> reg.first, agg |-> reg.current]]
    BY DEF Record
  <2>3. reg.step \in 0 .. MaxStep
    BY <1>2, StepFacts
  <2> HIDE DEF reg
  <2> QED BY <1>0, <2>1, <2>2, <2>3 DEF TypeOK
<1>7. replies' \in [Proposer -> SUBSET Reply]
  <2>1. replies' = IF Awaited(m) THEN [replies EXCEPT ![m.from] = @ \union {reply}] ELSE replies
    BY DEF Record
  <2> HIDE DEF reply
  <2> QED BY <1>0, <1>3, <2>1 DEF TypeOK
<1>8. UNCHANGED <<known, attempt, step, proposal, decided, sent>>
  BY DEF Record
<1> QED BY <1>4, <1>5, <1>6, <1>7, <1>8 DEF TypeOK, Register

------------------------------------------------------------------------------
(* What a propose call does with the replies of a quorum *)

\* Replies exist only while the call runs.
LEMMA Running ==
  ASSUME IInv, NEW p \in Proposer, NEW R \in Collections(p)
  PROVE  step[p] \in Steps
<1>1. Recorders(R) # {}
  BY SMT, CollectionFacts, QuorumAssumption DEF IInv
<1>2. R # {}
  BY <1>1 DEF Recorders
<1>3. step[p] # 0
  BY <1>2, CollectionFacts DEF IInv, CallInv
<1> QED BY <1>3, TypeFacts DEF IInv

\* The replies of a quorum at the proposer's step show the registers and the
\* bindings of that quorum.
LEMMA QuorumAtStep ==
  ASSUME IInv, NEW p \in Proposer, NEW R \in Collections(p),
         \A reply \in R : reply.step = step[p]
  PROVE  /\ Recorders(R) \in Quorum
         /\ Recorders(R) \subseteq Recorder
         /\ \A r \in Recorders(R) :
               /\ isr[r].step >= step[p]
               /\ bound[r] = {Leader[p]}
               /\ First(r, step[p]) # {} /\ First(r, step[p]) \subseteq Firsts(R)
               /\ Agg(r, step[p]) # {}
               /\ Agg(r, step[p] - 1) \subseteq Priors(R)
               /\ Phase(step[p]) # 0 => \E y \in Agg(r, step[p]) : KeyLeq(proposal[p], y)
         /\ \A x \in Firsts(R) : \E r \in Recorders(R) : x \in First(r, step[p])
         /\ \A x \in Priors(R) : \E r \in Recorders(R) : x \in Agg(r, step[p] - 1)
<1>1. R \subseteq replies[p] /\ Recorders(R) \in Quorum
  BY CollectionFacts DEF IInv
<1>2. \A reply \in R : /\ reply.recorder \in Recorders(R)
                       /\ reply.recorder \in Recorder
                       /\ isr[reply.recorder].step >= step[p]
                       /\ bound[reply.recorder] = {Leader[p]}
                       /\ reply.first = First(reply.recorder, step[p])
                       /\ reply.first # {}
                       /\ reply.prior = Agg(reply.recorder, step[p] - 1)
                       /\ Phase(step[p]) # 0 =>
                            \E y \in Agg(reply.recorder, step[p]) : KeyLeq(proposal[p], y)
  BY SMT, <1>1, ReplyFacts DEF IInv, ReplyInv, Recorders
<1>3. \A r \in Recorders(R) : \E reply \in R : reply.recorder = r
  BY DEF Recorders
<1>4. \A reply \in R : reply.first \subseteq Firsts(R) /\ reply.prior \subseteq Priors(R)
  BY DEF Firsts, Priors
<1>5. step[p] \in 0 .. MaxStep
  BY Running, StepFacts
<1>6. \A r \in Recorders(R) : Agg(r, step[p]) # {}
  BY SMT, <1>2, <1>3, <1>5 DEF IInv, RegisterInv
<1>7. \A x \in Firsts(R) : \E reply \in R : x \in reply.first
  BY DEF Firsts
<1>8. \A x \in Priors(R) : \E reply \in R : x \in reply.prior
  BY DEF Priors
<1> QED BY SMT, <1>1, <1>2, <1>3, <1>4, <1>6, <1>7, <1>8

\* A batch credited to the replica that proposed it.
Sound(x) == x.value \in Proposed(x.proposer)

\* What a replica has proposed it has proposed for good.
LEMMA ProposedGrows ==
  ASSUME TypeOK, TypeOK', NEW q \in Proposer, attempt'[q] >= attempt[q]
  PROVE  Proposed(q) \subseteq Proposed(q)'
<1>1. attempt[q] \in Nat /\ attempt'[q] \in Nat
  BY DEF TypeOK
<1>2. \A a \in 1 .. attempt[q] : a \in 1 .. attempt'[q]
  BY SMT, <1>1
<1> QED BY <1>2 DEF Proposed

\* A step that neither starts a propose call nor sends a request.
LEMMA SameKeys == KeyInv /\ attempt' = attempt /\ sent' = sent => KeyInv'
BY DEF KeyInv, Proposed

\* Whatever a recorder holds at a step was requested there, and came there the
\* way every proposal comes.
LEMMA RecordedOrigin ==
  ASSUME IInv, NEW r \in Recorder, NEW s \in 0 .. MaxStep,
         NEW x \in First(r, s) \union Agg(r, s)
  PROVE  /\ x \in Proposal /\ s \in Steps /\ Sound(x) /\ Origin(s, x)
         /\ \E k \in sent : k.step = s /\ k.prop = x /\ bound[r] = {Leader[k.from]}
<1>1. PICK k \in sent : k.step = s /\ k.prop = x /\ bound[r] = {Leader[k.from]}
  BY SMT DEF IInv, RecordedInv
<1>2. x \in Proposal /\ s \in Steps
  BY <1>1, SentFacts DEF IInv
<1>3. Sound(x)
  BY <1>1 DEF IInv, KeyInv, Sound
<1>4. Origin(s, x)
  BY <1>1 DEF IInv, OriginInv
<1> QED BY <1>1, <1>2, <1>3, <1>4

\* The proposal of a running call was requested at its step.
LEMMA CurrentOrigin ==
  ASSUME IInv, NEW p \in Proposer, step[p] \in Steps
  PROVE  /\ proposal[p] \in Proposal /\ Sound(proposal[p])
         /\ \E k \in sent : /\ k.step = step[p]
                            /\ k.prop.proposer = proposal[p].proposer
                            /\ Phase(step[p]) # 0 => k.prop = proposal[p]
         /\ Passed(step[p], proposal[p].proposer)
<1>1. step[p] # 0
  BY SMT, StepFacts
<1>2. PICK k \in sent : /\ k.step = step[p]
                        /\ k.prop.value = proposal[p].value
                        /\ k.prop.proposer = proposal[p].proposer
                        /\ Phase(step[p]) # 0 => k.prop = proposal[p]
  BY <1>1 DEF IInv, CallInv
<1>3. Sound(proposal[p])
  BY <1>2 DEF IInv, KeyInv, Sound
<1>4. Passed(step[p], proposal[p].proposer)
  BY <1>2 DEF IInv, OriginInv, Origin
<1> QED BY <1>2, <1>3, <1>4, TypeFacts DEF IInv

\* A proposer at one step passes on to the next one.
LEMMA PassedNext ==
  ASSUME TypeOK, NEW s \in Steps, NEW q, Passed(s, q), NEW k \in sent,
         k.step = s, k.prop.proposer = q
  PROVE  Passed(s + 1, q)
BY SMT, StepFacts DEF Passed

\* The four phases of a round follow one another (Step::phase, Step::next).
LEMMA PhaseFacts ==
  \A s \in Nat : /\ Phase(s) \in 0 .. 3
                 /\ Phase(s) = 0 => Phase(s + 1) = 1
                 /\ Phase(s) = 1 => Phase(s + 1) = 2
                 /\ Phase(s) = 2 => Phase(s + 1) = 3
                 /\ Phase(s) = 3 => Phase(s + 1) = 0
                 /\ s = 4 => Phase(s) = 0
                 /\ s = 5 => Phase(s) = 1
BY SMT DEF Phase

\* Phase zero moves to phase one with the best first of a quorum.
LEMMA PhaseZeroOrigin ==
  ASSUME IInv, NEW p \in Proposer, NEW R \in Collections(p), InStep(p, R, 0),
         NEW x \in MaxByKey(Firsts(R))
  PROVE  x \in Proposal /\ Sound(x) /\ Origin(step[p] + 1, x)
<1> DEFINE s == step[p]
           Q == Recorders(R)
<1>1. s \in Steps /\ s \in Nat /\ s \in 0 .. MaxStep /\ s + 1 - 1 = s
  BY SMT, Running, StepFacts
<1>2. Phase(s) = 0 /\ Phase(s + 1) = 1 /\ \A reply \in R : reply.step = step[p]
  BY <1>1, PhaseFacts DEF InStep
<1>3. Q \in Quorum /\ Q \subseteq Recorder
  BY <1>2, QuorumAtStep
<1>4. \A r \in Q : /\ bound[r] = {Leader[p]}
                   /\ First(r, s) # {} /\ First(r, s) \subseteq Firsts(R)
                   /\ Agg(r, s) # {}
  BY <1>2, QuorumAtStep
<1>5. x \in Firsts(R) /\ \A y \in Firsts(R) : KeyLeq(y, x)
  BY DEF MaxByKey
<1>6. PICK q \in Q : x \in First(q, s)
  BY <1>2, <1>5, QuorumAtStep
<1>7. x \in Proposal /\ Sound(x) /\ Origin(s, x)
  BY <1>1, <1>3, <1>6, RecordedOrigin
<1>8. PICK k \in sent : k.step = s /\ k.prop = x /\ bound[q] = {Leader[k.from]}
  BY SMT, <1>1, <1>3, <1>6, RecordedOrigin
<1> HIDE DEF s, Q
<1>9. Reached(s + 1)
  BY SMT, <1>1, <1>3, <1>4 DEF Reached
<1>10. Spread(s + 1, x) /\ Gathered(s + 1, x.proposer)
  BY SMT, <1>2 DEF Spread, Gathered
<1>11. Opened(s + 1, x)
  <2> SUFFICES ASSUME s + 1 = RoundOnePhaseZero + 1
               PROVE  Opened(s + 1, x)
    BY DEF Opened
  <2>1. s = RoundOnePhaseZero
    BY SMT, <1>1 DEF RoundOnePhaseZero
  <2>2. \A r \in Q : /\ bound[r] = {Leader[k.from]}
                     /\ First(r, RoundOnePhaseZero) # {}
                     /\ \A y \in First(r, RoundOnePhaseZero) : KeyLeq(y, x)
    BY <1>4, <1>5, <1>6, <1>8, <2>1
  <2> QED BY <1>3, <1>8, <2>1, <2>2 DEF Opened
<1>12. Passed(s + 1, x.proposer)
  BY <1>1, <1>7, <1>8, PassedNext DEF Origin, IInv
<1> QED BY <1>7, <1>9, <1>10, <1>11, <1>12 DEF Origin, s

\* Phases one and two move on with their own proposal; phase one has spread it.
LEMMA PhaseOneTwoOrigin ==
  ASSUME IInv, NEW p \in Proposer, NEW R \in Collections(p),
         InStep(p, R, 1) \/ InStep(p, R, 2)
  PROVE  proposal[p] \in Proposal /\ Sound(proposal[p]) /\ Origin(step[p] + 1, proposal[p])
<1> DEFINE s == step[p]
           x == proposal[p]
           Q == Recorders(R)
<1>1. s \in Steps /\ s \in Nat /\ s \in 0 .. MaxStep /\ s + 1 - 1 = s
  BY SMT, Running, StepFacts
<1>2. /\ Phase(s) \in {1, 2}
      /\ Phase(s + 1) \in {2, 3} /\ (Phase(s + 1) = 2 => Phase(s) = 1)
      /\ \A reply \in R : reply.step = step[p]
  BY <1>1, PhaseFacts DEF InStep
<1>3. Q \in Quorum /\ Q \subseteq Recorder
  BY <1>2, QuorumAtStep
<1>4. \A r \in Q : Agg(r, s) # {} /\ \E y \in Agg(r, s) : KeyLeq(x, y)
  BY SMT, <1>2, QuorumAtStep
<1>5. x \in Proposal /\ Sound(x) /\ Passed(s, x.proposer)
  BY <1>1, CurrentOrigin
<1>6. PICK k \in sent : k.step = s /\ k.prop.proposer = x.proposer
  BY <1>1, CurrentOrigin
<1> HIDE DEF s, Q, x
<1>7. Reached(s + 1)
  BY SMT, <1>1, <1>3, <1>4 DEF Reached
<1>8. Spread(s + 1, x)
  BY SMT, <1>1, <1>3, <1>4 DEF Spread
<1>9. Gathered(s + 1, x.proposer)
  BY SMT, <1>2 DEF Gathered
<1>10. Opened(s + 1, x)
  BY SMT, <1>1, <1>2, PhaseFacts DEF Opened, RoundOnePhaseZero
<1>11. Passed(s + 1, x.proposer)
  BY <1>1, <1>5, <1>6, PassedNext DEF IInv
<1> QED BY <1>5, <1>7, <1>8, <1>9, <1>10, <1>11 DEF Origin, s, x

\* A quorum in phase two or three reports the aggregate of the step before.
LEMMA GatherFindsPrior ==
  ASSUME IInv
  PROVE  GatherSeesPrior
<1> SUFFICES ASSUME NEW p \in Proposer, NEW R \in Collections(p),
                    \A reply \in R : reply.step = step[p], Phase(step[p]) \in {2, 3}
             PROVE  Priors(R) # {}
  BY DEF GatherSeesPrior
<1> DEFINE s == step[p]
<1>1. s \in Steps /\ s \in Nat /\ s > RoundOnePhaseZero
  BY SMT, Running, StepFacts, PhaseFacts DEF RoundOnePhaseZero
<1>2. PICK k \in sent : k.step = s
  BY <1>1, CurrentOrigin
<1>3. PICK Q \in Quorum : \A r \in Q : Agg(r, s - 1) # {}
  BY <1>1, <1>2 DEF IInv, OriginInv, Origin, Reached
<1>4. PICK r \in Q : r \in Recorders(R)
  BY SMT, <1>3, QuorumAtStep, QuorumAssumption
<1>5. Agg(r, s - 1) \subseteq Priors(R)
  BY <1>4, QuorumAtStep
<1> QED BY <1>3, <1>4, <1>5

\* Phase three moves to the next round with the best of phase two.
LEMMA PhaseThreeOrigin ==
  ASSUME IInv, NEW p \in Proposer, NEW R \in Collections(p), InStep(p, R, 3),
         NEW x \in MaxByKey(Priors(R))
  PROVE  x \in Proposal /\ Sound(x) /\ Origin(step[p] + 1, x)
<1> DEFINE s == step[p]
           Q == Recorders(R)
<1>1. s \in Steps /\ s \in Nat /\ s - 1 \in 0 .. MaxStep /\ s + 1 - 1 = s /\ s + 1 - 2 = s - 1
  BY SMT, Running, StepFacts
<1>2. Phase(s) = 3 /\ Phase(s + 1) = 0 /\ \A reply \in R : reply.step = step[p]
  BY <1>1, PhaseFacts DEF InStep
<1>3. Q \in Quorum /\ Q \subseteq Recorder
  BY <1>2, QuorumAtStep
<1>4. \A r \in Q : /\ isr[r].step >= s
                   /\ Agg(r, s) # {}
                   /\ Agg(r, s - 1) \subseteq Priors(R)
  BY <1>2, QuorumAtStep
<1>5. x \in Priors(R) /\ \A y \in Priors(R) : KeyLeq(y, x)
  BY DEF MaxByKey
<1>6. PICK q \in Q : x \in Agg(q, s - 1)
  BY <1>2, <1>5, QuorumAtStep
<1>7. x \in Proposal /\ Sound(x) /\ s - 1 \in Steps /\ Passed(s - 1, x.proposer)
  BY <1>1, <1>3, <1>6, RecordedOrigin DEF Origin
<1>8. PICK k \in sent : k.step = s - 1 /\ k.prop = x
  BY SMT, <1>1, <1>3, <1>6, RecordedOrigin
<1> HIDE DEF s, Q
<1>9. Reached(s + 1)
  BY SMT, <1>1, <1>3, <1>4 DEF Reached
<1>10. Spread(s + 1, x)
  BY SMT, <1>2 DEF Spread
<1>11. Gathered(s + 1, x.proposer)
  BY SMT, <1>1, <1>3, <1>4, <1>5, <1>8 DEF Gathered
<1>12. Opened(s + 1, x)
  BY SMT, <1>1, <1>2, PhaseFacts DEF Opened, RoundOnePhaseZero
<1>13. Passed(s + 1, x.proposer)
  <2>1. Passed(s, x.proposer)
    BY SMT, <1>1, <1>7, <1>8, PassedNext DEF IInv
  <2>2. ~Gate(s)
    BY SMT, <1>1, <1>2, PhaseFacts DEF Gate, RoundOnePhaseZero
  <2> QED BY SMT, <1>1, <2>1, <2>2, StepFacts DEF Passed
<1> QED BY <1>7, <1>9, <1>10, <1>11, <1>12, <1>13 DEF Origin, s

\* A recorder that is ahead hands over what it saw first at its step.
LEMMA CatchUpOrigin ==
  ASSUME IInv, NEW p \in Proposer, NEW R \in Collections(p), NEW ahead \in R,
         NEW x \in ahead.first
  PROVE  x \in Proposal /\ Sound(x) /\ Origin(ahead.step, x) /\ ahead.step \in Steps
<1>1. ahead \in replies[p]
  BY CollectionFacts DEF IInv
<1>2. ahead.recorder \in Recorder /\ ahead.step \in Steps
  BY <1>1, ReplyFacts DEF IInv
<1>3. x \in First(ahead.recorder, ahead.step)
  BY <1>1 DEF IInv, ReplyInv
<1>4. ahead.step \in 0 .. MaxStep
  BY <1>2, StepFacts
<1> QED BY <1>2, <1>3, <1>4, RecordedOrigin

\* The fast path decides on what its evidence says.
LEMMA FastPathEvidence ==
  ASSUME IInv, NEW p \in Proposer, NEW R \in Collections(p), InStep(p, R, 0),
         NEW x \in FastPathWinners(p, R)
  PROVE  LET d == [value |-> x.value, proposer |-> x.proposer, step |-> step[p]]
         IN  d \in Decision /\ Evidence(d)
<1> DEFINE d == [value |-> x.value, proposer |-> x.proposer, step |-> step[p]]
           Q == Recorders(R)
<1>1. /\ x \in Firsts(R) /\ step[p] = RoundOnePhaseZero /\ x.priority = MaxPriority
      /\ Leader[p] = {x.proposer}
      /\ \A reply \in R : \E y \in reply.first : SameKey(x, y)
  BY DEF FastPathWinners
<1>2. \A reply \in R : reply.step = step[p]
  BY DEF InStep
<1>3. step[p] \in Steps /\ step[p] \in 0 .. MaxStep
  BY Running, StepFacts
<1>4. PICK q \in Q : x \in First(q, step[p])
  BY <1>1, <1>2, QuorumAtStep
<1>5. x \in Proposal /\ Sound(x)
  BY <1>2, <1>3, <1>4, QuorumAtStep, RecordedOrigin
<1>6. d \in Decision
  BY <1>3, <1>5 DEF Decision, Proposal
<1>7. \A r \in Q : \E y \in First(r, RoundOnePhaseZero) : SameKey(x, y)
  <2> TAKE r \in Q
  <2>1. PICK reply \in R : reply.recorder = r
    BY DEF Recorders
  <2>2. reply.first = First(r, step[p])
    BY SMT, <1>2, <2>1, CollectionFacts DEF IInv, ReplyInv
  <2> QED BY <1>1, <2>1, <2>2
<1>8. \A r \in Q : bound[r] = {{x.proposer}}
  <2>1. \A r \in Q : bound[r] = {Leader[p]}
    BY <1>2, QuorumAtStep
  <2> QED BY <1>1, <2>1
<1>9. Q \in Quorum
  BY <1>2, QuorumAtStep
<1>10. FastEvidence(d)
  BY <1>1, <1>7, <1>8, <1>9 DEF FastEvidence, SameKey
<1>11. Evidence(d)
  BY <1>1, <1>5, <1>10 DEF Evidence, Sound
<1> QED BY <1>6, <1>11

\* So does phase two.
LEMMA PhaseTwoEvidence ==
  ASSUME IInv, NEW p \in Proposer, NEW R \in Collections(p), InStep(p, R, 2),
         proposal[p] \in MaxByKey(Priors(R))
  PROVE  LET d == [value |-> proposal[p].value, proposer |-> proposal[p].proposer,
                   step |-> step[p]]
         IN  d \in Decision /\ Evidence(d)
<1> DEFINE x == proposal[p]
           d == [value |-> x.value, proposer |-> x.proposer, step |-> step[p]]
           Q == Recorders(R)
<1>1. step[p] \in Steps
  BY Running
<1>2. Phase(step[p]) = 2 /\ \A reply \in R : reply.step = step[p]
  BY DEF InStep
<1>3. x \in Proposal /\ Sound(x)
  BY <1>1, CurrentOrigin
<1>4. PICK k \in sent : k.step = step[p] /\ k.prop = x
  BY SMT, <1>1, <1>2, CurrentOrigin
<1>5. \A y \in Priors(R) : KeyLeq(y, x)
  BY DEF MaxByKey
<1>6. Q \in Quorum
  BY <1>2, QuorumAtStep
<1>7. \A r \in Q : /\ isr[r].step >= step[p]
                   /\ \E y \in Agg(r, step[p]) : KeyLeq(x, y)
                   /\ \A y \in Agg(r, step[p] - 1) : KeyLeq(y, x)
  BY SMT, <1>2, <1>5, QuorumAtStep
<1>8. d \in Decision
  BY <1>1, <1>3 DEF Decision, Proposal
<1>9. SlowEvidence(d)
  BY <1>4, <1>6, <1>7 DEF SlowEvidence
<1>10. Evidence(d)
  BY <1>2, <1>3, <1>9 DEF Evidence, Sound
<1> QED BY <1>8, <1>10

\* A decision found in a reply is one a recorder retains.
LEMMA AdoptedEvidence ==
  ASSUME IInv, NEW p \in Proposer, NEW R \in Collections(p), NEW d \in Decisions(R)
  PROVE  d \in Decision /\ Evidence(d)
<1>1. d \in Decision /\ \E reply \in R : d \in reply.decision
  BY CollectionFacts DEF IInv
<1>2. PICK reply \in R : d \in reply.decision
  BY <1>1
<1>3. reply \in replies[p]
  BY CollectionFacts DEF IInv
<1>4. reply.recorder \in Recorder
  BY <1>3, ReplyFacts DEF IInv
<1>5. d \in known[reply.recorder]
  BY <1>2, <1>3 DEF IInv, ReplyInv
<1> QED BY <1>1, <1>4, <1>5 DEF IInv, DecisionInv

\* A propose call that continues decides something it has evidence for, or
\* enters a later step with a proposal of known origin.
EntersLaterStep(p) ==
  \E s \in Nat, x \in Proposal :
     /\ s > step[p]
     /\ s >= RoundOnePhaseZero
     /\ Enter(p, attempt[p], s, x)
     /\ UNCHANGED <<attempt, decided, recorderVars>>
     /\ Sound(x)
     /\ Origin(s, x)

\* What a propose call does with a quorum of replies, in one of two ways: it
\* decides with evidence for the decision, or it goes on to a later step.
LEMMA ContinueCases ==
  ASSUME IInv, NEW p \in Proposer, NEW R \in Collections(p), Continue(p, R)
  PROVE  \/ \E d \in Decision : Decide(p, d) /\ Evidence(d)
         \/ EntersLaterStep(p)
<1>0. step[p] \in Steps /\ step[p] \in Nat
  BY Running, StepFacts
<1>1. step[p] + 1 \in Nat /\ step[p] + 1 > step[p] /\ step[p] + 1 >= RoundOnePhaseZero
  BY SMT, <1>0, StepFacts DEF RoundOnePhaseZero
<1>2. ASSUME NEW x \in Proposal, Advance(p, x), Sound(x), Origin(step[p] + 1, x)
      PROVE  EntersLaterStep(p)
  BY <1>1, <1>2 DEF Advance, EntersLaterStep
<1>3. CASE AdoptDecision(p, R)
  BY <1>3, AdoptedEvidence DEF AdoptDecision
<1>4. CASE FastPath(p, R)
  BY <1>4, FastPathEvidence DEF FastPath
<1>5. CASE PhaseZero(p, R)
  BY <1>2, <1>5, PhaseZeroOrigin DEF PhaseZero
<1>6. CASE PhaseOne(p, R)
  BY <1>2, <1>6, PhaseOneTwoOrigin DEF PhaseOne
<1>7. CASE PhaseTwoDecide(p, R)
  BY <1>7, PhaseTwoEvidence DEF PhaseTwoDecide
<1>8. CASE PhaseTwo(p, R)
  BY <1>2, <1>8, PhaseOneTwoOrigin DEF PhaseTwo
<1>9. CASE PhaseThree(p, R)
  <2>1. Priors(R) # {}
    BY <1>9, GatherFindsPrior DEF PhaseThree, GatherSeesPrior, InStep
  <2> QED BY <1>2, <1>9, <2>1, PhaseThreeOrigin DEF PhaseThree
<1>10. CASE CatchUp(p, R)
  <2>1. PICK ahead \in R :
           /\ ahead.step > step[p]
           /\ \E x \in ahead.first : Enter(p, attempt[p], ahead.step, x)
    BY <1>10 DEF CatchUp
  <2>2. PICK x \in ahead.first : Enter(p, attempt[p], ahead.step, x)
    BY <2>1
  <2>3. x \in Proposal /\ Sound(x) /\ Origin(ahead.step, x) /\ ahead.step \in Steps
    BY CatchUpOrigin
  <2>4. ahead.step \in Nat /\ ahead.step >= RoundOnePhaseZero
    BY <2>3, StepFacts DEF RoundOnePhaseZero
  <2>5. UNCHANGED <<attempt, decided, recorderVars>>
    BY <1>10 DEF CatchUp
  <2> QED BY <2>1, <2>2, <2>3, <2>4, <2>5 DEF EntersLaterStep
<1> QED BY <1>3, <1>4, <1>5, <1>6, <1>7, <1>8, <1>9, <1>10 DEF Continue

------------------------------------------------------------------------------
(* What every step preserves *)

\* Requests and calls are only added, registers move forward, a binding never
\* changes, and what a register held at a step it has left is settled.
Forward ==
  /\ sent \subseteq sent'
  /\ \A p \in Proposer : attempt'[p] >= attempt[p]
  /\ \A r \in Recorder :
        /\ isr'[r].step >= isr[r].step
        /\ bound[r] # {} => bound'[r] = bound[r]
        /\ \A s \in 0 .. MaxStep :
              /\ First(r, s) # {} => First(r, s)' = First(r, s)
              /\ s < isr[r].step => Agg(r, s)' = Agg(r, s)
              /\ \A y \in Agg(r, s) : \E z \in Agg(r, s)' : KeyLeq(y, z)

\* The step of a register is a number.
LEMMA StepOfRegister ==
  ASSUME TypeOK, NEW r \in Recorder
  PROVE  isr[r].step \in Nat
BY TypeFacts, RegisterFacts

\* The step of a register is a number in the next state too.
LEMMA StepOfRegisterNext ==
  ASSUME TypeOK', NEW r \in Recorder
  PROVE  isr'[r].step \in Nat
<1>1. isr'[r] \in Register
  BY DEF TypeOK, Register
<1> QED BY <1>1, RegisterFacts

\* What a register aggregated at a step is made of proposals.
LEMMA AggregateType ==
  ASSUME TypeOK, NEW r \in Recorder, NEW s \in 0 .. MaxStep
  PROVE  \A y \in Agg(r, s) : y \in Proposal
BY SMT, TypeFacts DEF Option

\* An aggregate above x stays above x.
LEMMA AboveStable ==
  ASSUME TypeOK, TypeOK', Forward, NEW r \in Recorder, NEW s \in 0 .. MaxStep,
         NEW x \in Proposal, \E y \in Agg(r, s) : KeyLeq(x, y)
  PROVE  \E y \in Agg(r, s)' : KeyLeq(x, y)
<1>1. PICK y \in Agg(r, s) : KeyLeq(x, y)
  OBVIOUS
<1>2. PICK z \in Agg(r, s)' : KeyLeq(y, z)
  BY <1>1 DEF Forward
<1>3. y \in Proposal
  BY <1>1, AggregateType
<1>4. hist'[r][s].agg \in Option(Proposal)
  <2>0. hist' \in [Recorder -> [0 .. MaxStep -> [first : Option(Proposal), agg : Option(Proposal)]]]
    BY DEF TypeOK
  <2>1. hist'[r][s] \in [first : Option(Proposal), agg : Option(Proposal)]
    BY <2>0
  <2> QED BY <2>1
<1>5. z \in Proposal
  BY <1>2, <1>4 DEF Agg, Option
<1> QED BY <1>1, <1>2, <1>3, <1>5, KeyTransitive

\* Where a proposal of a step came from stays true while registers move forward.
LEMMA OriginStable ==
  ASSUME TypeOK, TypeOK', Forward, NEW s \in Steps, NEW x \in Proposal, Origin(s, x)
  PROVE  Origin(s, x)'
<1>0. s \in Nat /\ s >= 4 /\ s - 1 \in 0 .. MaxStep /\ s - 2 \in 0 .. MaxStep
  BY SMT, StepFacts, StepAssumption
<1>1. \A Q \in Quorum : Q \subseteq Recorder
  BY QuorumAssumption
<1>2. Reached(s)'
  <2> SUFFICES ASSUME s > RoundOnePhaseZero
               PROVE  \E Q \in Quorum : \A r \in Q : Agg(r, s - 1)' # {}
    BY DEF Reached
  <2>1. PICK Q \in Quorum : \A r \in Q : Agg(r, s - 1) # {}
    BY DEF Origin, Reached
  <2>2. \A r \in Q : Agg(r, s - 1)' # {}
    BY <1>0, <1>1, <2>1 DEF Forward
  <2> QED BY <2>2
<1>3. Spread(s, x)'
  <2> SUFFICES ASSUME Phase(s) = 2
               PROVE  \E Q \in Quorum : \A r \in Q : \E y \in Agg(r, s - 1)' : KeyLeq(x, y)
    BY DEF Spread
  <2>1. PICK Q \in Quorum : \A r \in Q : \E y \in Agg(r, s - 1) : KeyLeq(x, y)
    BY DEF Origin, Spread
  <2>2. \A r \in Q : \E y \in Agg(r, s - 1)' : KeyLeq(x, y)
    BY <1>0, <1>1, <2>1, AboveStable
  <2> QED BY <2>2
<1>4. Gathered(s, x.proposer)'
  <2> SUFFICES ASSUME Phase(s) = 0, s > RoundOnePhaseZero
               PROVE  \E k \in sent' : \E Q \in Quorum :
                         /\ k.step = s - 2
                         /\ k.prop.proposer = x.proposer
                         /\ \A r \in Q : /\ isr'[r].step >= s - 1
                                         /\ \A y \in Agg(r, s - 2)' : KeyLeq(y, k.prop)
    BY DEF Gathered
  <2>1. PICK k \in sent : \E Q \in Quorum :
           /\ k.step = s - 2
           /\ k.prop.proposer = x.proposer
           /\ \A r \in Q : /\ isr[r].step >= s - 1
                           /\ \A y \in Agg(r, s - 2) : KeyLeq(y, k.prop)
    BY DEF Origin, Gathered
  <2>2. PICK Q \in Quorum :
           \A r \in Q : /\ isr[r].step >= s - 1
                        /\ \A y \in Agg(r, s - 2) : KeyLeq(y, k.prop)
    BY <2>1
  <2>3. ASSUME NEW r \in Q
        PROVE  isr'[r].step >= s - 1 /\ \A y \in Agg(r, s - 2)' : KeyLeq(y, k.prop)
    <3>1. r \in Recorder
      BY <1>1
    <3>2. isr[r].step \in Nat /\ isr'[r].step >= isr[r].step /\ isr[r].step >= s - 1
      BY <2>2, <3>1, StepOfRegister DEF Forward
    <3>3. isr'[r].step \in Nat
      BY <3>1, StepOfRegisterNext
    <3>4. s - 2 < isr[r].step /\ isr'[r].step >= s - 1
      BY SMT, <1>0, <3>2, <3>3
    <3>5. Agg(r, s - 2)' = Agg(r, s - 2)
      BY <1>0, <3>1, <3>4 DEF Forward
    <3> QED BY <2>2, <3>4, <3>5
  <2> QED BY <2>1, <2>3 DEF Forward
<1>5. Opened(s, x)'
  <2> SUFFICES ASSUME s = RoundOnePhaseZero + 1
               PROVE  \E k \in sent' : \E Q \in Quorum :
                         /\ k.step = RoundOnePhaseZero
                         /\ k.prop = x
                         /\ \A r \in Q :
                               /\ bound'[r] = {Leader[k.from]}
                               /\ First(r, RoundOnePhaseZero)' # {}
                               /\ \A y \in First(r, RoundOnePhaseZero)' : KeyLeq(y, x)
    BY DEF Opened
  <2>1. PICK k \in sent : \E Q \in Quorum :
           /\ k.step = RoundOnePhaseZero
           /\ k.prop = x
           /\ \A r \in Q : /\ bound[r] = {Leader[k.from]}
                           /\ First(r, RoundOnePhaseZero) # {}
                           /\ \A y \in First(r, RoundOnePhaseZero) : KeyLeq(y, x)
    BY DEF Origin, Opened
  <2>2. RoundOnePhaseZero \in 0 .. MaxStep
    BY SMT, StepAssumption DEF RoundOnePhaseZero
  <2>3. PICK Q \in Quorum :
           \A r \in Q : /\ bound[r] = {Leader[k.from]}
                        /\ First(r, RoundOnePhaseZero) # {}
                        /\ \A y \in First(r, RoundOnePhaseZero) : KeyLeq(y, x)
    BY <2>1
  <2>4. \A r \in Q : /\ bound'[r] = {Leader[k.from]}
                     /\ First(r, RoundOnePhaseZero)' = First(r, RoundOnePhaseZero)
    BY <1>1, <2>2, <2>3 DEF Forward
  <2> QED BY SMT, <2>1, <2>3, <2>4 DEF Forward
<1>6. Passed(s, x.proposer)'
  BY DEF Origin, Passed, Forward, Gate
<1> QED BY <1>2, <1>3, <1>4, <1>5, <1>6 DEF Origin

\* What shows that a decision was justified stays true while registers move
\* forward: no later record call can take it back.
LEMMA EvidenceStable ==
  ASSUME TypeOK, TypeOK', Forward, NEW d \in Decision, Evidence(d)
  PROVE  Evidence(d)'
<1>0. d.step \in Steps /\ d.proposer \in Proposer
  BY DEF Decision
<1>1. \A Q \in Quorum : Q \subseteq Recorder
  BY QuorumAssumption
<1>2. /\ d.step \in Nat /\ d.step - 1 \in 0 .. MaxStep /\ d.step \in 0 .. MaxStep
      /\ d.step - 1 < d.step
  BY SMT, <1>0, StepFacts
<1>3. d.value \in Proposed(d.proposer)'
  BY <1>0, ProposedGrows DEF Evidence, Forward
<1>4. ASSUME FastEvidence(d)
      PROVE  FastEvidence(d)'
  <2>1. PICK Q \in Quorum : \A r \in Q :
           /\ bound[r] = {{d.proposer}}
           /\ \E x \in First(r, RoundOnePhaseZero) :
                 x.priority = MaxPriority /\ x.proposer = d.proposer
    BY <1>4 DEF FastEvidence
  <2>2. RoundOnePhaseZero \in 0 .. MaxStep
    BY SMT, StepAssumption DEF RoundOnePhaseZero
  <2>3. \A r \in Q : /\ bound'[r] = {{d.proposer}}
                     /\ First(r, RoundOnePhaseZero)' = First(r, RoundOnePhaseZero)
    BY <1>1, <2>1, <2>2 DEF Forward
  <2> QED BY SMT, <2>1, <2>3 DEF FastEvidence
<1>5. ASSUME SlowEvidence(d)
      PROVE  SlowEvidence(d)'
  <2>1. PICK k \in sent : \E Q \in Quorum :
           /\ k.step = d.step /\ k.prop.proposer = d.proposer /\ k.prop.value = d.value
           /\ \A r \in Q : /\ isr[r].step >= d.step
                           /\ \E y \in Agg(r, d.step) : KeyLeq(k.prop, y)
                           /\ \A y \in Agg(r, d.step - 1) : KeyLeq(y, k.prop)
    BY <1>5 DEF SlowEvidence
  <2>2. PICK Q \in Quorum :
           \A r \in Q : /\ isr[r].step >= d.step
                        /\ \E y \in Agg(r, d.step) : KeyLeq(k.prop, y)
                        /\ \A y \in Agg(r, d.step - 1) : KeyLeq(y, k.prop)
    BY <2>1
  <2>3. k.prop \in Proposal
    BY SentFacts
  <2>4. ASSUME NEW r \in Q
        PROVE  /\ isr'[r].step >= d.step
               /\ \E y \in Agg(r, d.step)' : KeyLeq(k.prop, y)
               /\ \A y \in Agg(r, d.step - 1)' : KeyLeq(y, k.prop)
    <3>1. r \in Recorder
      BY <1>1
    <3>2. isr[r].step \in Nat /\ isr'[r].step >= isr[r].step /\ isr[r].step >= d.step
      BY <2>2, <3>1, StepOfRegister DEF Forward
    <3>3. isr'[r].step \in Nat
      BY <3>1, StepOfRegisterNext
    <3>4. d.step - 1 < isr[r].step /\ isr'[r].step >= d.step
      BY SMT, <1>2, <3>2, <3>3
    <3>5. Agg(r, d.step - 1)' = Agg(r, d.step - 1)
      BY <1>2, <3>1, <3>4 DEF Forward
    <3>6. \E y \in Agg(r, d.step)' : KeyLeq(k.prop, y)
      BY <1>2, <2>2, <2>3, <3>1, AboveStable
    <3> QED BY <2>2, <3>4, <3>5, <3>6
  <2>5. k \in sent'
    BY DEF Forward
  <2> QED BY <2>1, <2>4, <2>5 DEF SlowEvidence
<1> QED BY <1>3, <1>4, <1>5 DEF Evidence

\* A step that leaves the registers alone moves nothing back.
LEMMA QuietForward ==
  ASSUME TypeOK, UNCHANGED <<isr, bound, hist>>, sent \subseteq sent',
         \A p \in Proposer : attempt'[p] >= attempt[p]
  PROVE  Forward
<1>1. \A r \in Recorder : isr'[r].step >= isr[r].step
  BY SMT, StepOfRegister
<1>2. \A r \in Recorder, s \in 0 .. MaxStep : \A y \in Agg(r, s) : KeyLeq(y, y)
  BY AggregateType, KeyReflexive
<1>3. \A r \in Recorder, s \in 0 .. MaxStep :
         First(r, s)' = First(r, s) /\ Agg(r, s)' = Agg(r, s)
  BY DEF First, Agg
<1> QED BY <1>1, <1>2, <1>3 DEF Forward

\* Such a step keeps the parts of the invariant that are about the recorders,
\* the old requests and the old decisions.
LEMMA QuietStep ==
  ASSUME IInv, TypeOK', UNCHANGED <<isr, bound, hist>>, sent \subseteq sent',
         \A p \in Proposer : attempt'[p] >= attempt[p]
  PROVE  /\ RegisterInv'
         /\ RecordedInv'
         /\ \A m \in sent : m.prop.value \in Proposed(m.prop.proposer)'
         /\ \A m \in sent : Origin(m.step, m.prop)'
         /\ \A p \in Proposer : \A d \in decided[p] : Evidence(d)'
         /\ \A r \in Recorder : \A d \in known[r] : Evidence(d)'
<1>0. TypeOK
  BY DEF IInv
<1>1. Forward
  BY <1>0, QuietForward
<1>2. RegisterInv'
  BY DEF IInv, RegisterInv, First, Agg
<1>3. RecordedInv'
  BY SMT DEF IInv, RecordedInv, First, Agg
<1>4. ASSUME NEW m \in sent
      PROVE  m.prop.value \in Proposed(m.prop.proposer)'
  <2>1. m.prop.proposer \in Proposer
    BY <1>0, SentFacts, ProposalType
  <2>2. m.prop.value \in Proposed(m.prop.proposer)
    BY DEF IInv, KeyInv
  <2> QED BY <1>0, <2>1, <2>2, ProposedGrows
<1>5. \A m \in sent : Origin(m.step, m.prop)'
  BY <1>0, <1>1, SentFacts, OriginStable DEF IInv, OriginInv
<1>6. \A p \in Proposer : \A d \in decided[p] : Evidence(d)'
  BY SMT, <1>0, <1>1, TypeFacts, EvidenceStable DEF IInv, DecisionInv, Option
<1>7. \A r \in Recorder : \A d \in known[r] : Evidence(d)'
  BY SMT, <1>0, <1>1, TypeFacts, EvidenceStable DEF IInv, DecisionInv, Option
<1> QED BY <1>2, <1>3, <1>4, <1>5, <1>6, <1>7

------------------------------------------------------------------------------
(* The steps *)

\* A propose call starts, or goes on to a later step.
LEMMA EnterStep ==
  ASSUME IInv, NEW p \in Proposer, NEW a \in Nat, NEW s \in Steps, NEW x \in Proposal,
         Enter(p, a, s, x), attempt' = [attempt EXCEPT ![p] = a],
         UNCHANGED <<decided, recorderVars>>, decided[p] = {},
         a > attempt[p] \/ (a = attempt[p] /\ step[p] # 0 /\ s > step[p]),
         x.value \in Proposed(x.proposer)',
         s = RoundOnePhaseZero => x.proposer = p,
         Origin(s, x)
  PROVE  IInv'
<1>0. TypeOK /\ s \in Nat /\ s <= MaxStep /\ s >= RoundOnePhaseZero /\ s # 0
  BY SMT, StepFacts DEF IInv, RoundOnePhaseZero
<1>1. PICK priorities \in Priorities(p, s, x) :
         sent' = sent \union {RequestTo(p, a, r, s, x, priorities) : r \in Recorder}
  BY <1>0 DEF Enter
<1> DEFINE new(r) == RequestTo(p, a, r, s, x, priorities)
<1>2. \A m \in sent' : m \in sent \/ \E r \in Recorder : m = new(r)
  BY <1>1
<1>3. \A r \in Recorder :
         /\ new(r) \in sent'
         /\ new(r).from = p /\ new(r).attempt = a /\ new(r).step = s
         /\ new(r).prop.value = x.value /\ new(r).prop.proposer = x.proposer
         /\ new(r).prop \in Proposal
         /\ Phase(s) # 0 => new(r).prop = x
         /\ Phase(s) = 0 /\ (s > RoundOnePhaseZero \/ Leader[p] # {p}) =>
               new(r).prop.priority < MaxPriority
  <2>1. \A r \in Recorder : new(r) \in sent'
    BY <1>1
  <2>2. ASSUME NEW r \in Recorder
        PROVE  new(r).prop \in Proposal
    <3>1. new(r) \in Request
      BY RequestFacts
    <3> HIDE DEF new
    <3> QED BY <3>1 DEF Request
  <2> QED BY SMT, <2>1, <2>2, RequestFacts
<1> HIDE DEF new
<1>4. TypeOK'
  <2>1. /\ step' \in [Proposer -> {0} \union Steps]
        /\ proposal' \in [Proposer -> Proposal]
        /\ replies' \in [Proposer -> SUBSET Reply]
        /\ sent' \in SUBSET Request
    BY <1>0, EnterType
  <2>2. attempt' \in [Proposer -> Nat]
    BY <1>0 DEF TypeOK
  <2> QED BY <1>0, <2>1, <2>2 DEF TypeOK, recorderVars
<1>5. \A q \in Proposer : attempt'[q] >= attempt[q]
  <2>1. attempt[p] \in Nat /\ a >= attempt[p]
    BY SMT, <1>0, TypeFacts
  <2> QED BY SMT, <1>0, <2>1 DEF TypeOK
<1>6. sent \subseteq sent'
  BY <1>1
<1>7. UNCHANGED <<isr, bound, hist>> /\ known' = known /\ decided' = decided
  BY DEF recorderVars
<1>8. /\ RegisterInv' /\ RecordedInv'
      /\ \A m \in sent : m.prop.value \in Proposed(m.prop.proposer)'
      /\ \A m \in sent : Origin(m.step, m.prop)'
      /\ \A q \in Proposer : \A d \in decided[q] : Evidence(d)'
      /\ \A r \in Recorder : \A d \in known[r] : Evidence(d)'
  BY <1>4, <1>5, <1>6, <1>7, QuietStep
<1>9. /\ step' = [step EXCEPT ![p] = s]
      /\ proposal' = [proposal EXCEPT ![p] = x]
      /\ replies' = [replies EXCEPT ![p] = {}]
  BY <1>0 DEF Enter
<1>10. /\ step'[p] = s /\ proposal'[p] = x /\ replies'[p] = {} /\ attempt'[p] = a
       /\ \A q \in Proposer \ {p} : /\ step'[q] = step[q] /\ proposal'[q] = proposal[q]
                                    /\ replies'[q] = replies[q] /\ attempt'[q] = attempt[q]
  BY <1>0, <1>9 DEF TypeOK
<1>11. KeyInv'
  <2>1. ASSUME NEW m \in sent
        PROVE  /\ m.prop.value \in Proposed(m.prop.proposer)'
               /\ m.step = RoundOnePhaseZero =>
                     /\ m.prop.proposer = m.from
                     /\ m.prop.priority = MaxPriority => Leader[m.from] = {m.from}
    BY <1>8 DEF IInv, KeyInv
  <2>2. ASSUME NEW r \in Recorder
        PROVE  /\ new(r).prop.value \in Proposed(new(r).prop.proposer)'
               /\ new(r).step = RoundOnePhaseZero =>
                     /\ new(r).prop.proposer = new(r).from
                     /\ new(r).prop.priority = MaxPriority => Leader[new(r).from] = {new(r).from}
    <3>1. new(r).prop.priority \in Nat
      BY <1>3, ProposalType
    <3>2. s = RoundOnePhaseZero => Phase(s) = 0
      BY <1>0, PhaseFacts DEF RoundOnePhaseZero
    <3>3. s = RoundOnePhaseZero /\ new(r).prop.priority = MaxPriority => Leader[p] = {p}
      BY SMT, <1>3, <3>1, <3>2, PriorityAssumption
    <3> QED BY <1>3, <3>3
  <2> QED BY SMT, <1>2, <2>1, <2>2 DEF KeyInv
<1>12. RequestInv'
  <2>1. ASSUME NEW m \in sent
        PROVE  /\ m.attempt <= attempt'[m.from]
               /\ m.attempt = attempt'[m.from] /\ step'[m.from] # 0 =>
                     /\ m.step <= step'[m.from]
                     /\ m.step = step'[m.from] /\ Phase(m.step) # 0 => m.prop = proposal'[m.from]
    <3>1. m.from \in Proposer /\ m.attempt \in Nat /\ m.step \in Nat
      BY <1>0, SentFacts, StepFacts
    <3>2. /\ m.attempt <= attempt[m.from]
          /\ m.attempt = attempt[m.from] /\ step[m.from] # 0 =>
                /\ m.step <= step[m.from]
                /\ m.step = step[m.from] /\ Phase(m.step) # 0 => m.prop = proposal[m.from]
      BY DEF IInv, RequestInv
    <3>3. CASE m.from # p
      BY <1>10, <3>1, <3>2, <3>3
    <3>4. CASE m.from = p
      <4>1. attempt[p] \in Nat /\ step[p] \in {0} \union Steps
        BY <1>0, TypeFacts
      <4>2. step[p] \in Nat
        BY SMTT(20), <4>1, StepFacts
      <4>3. m.attempt <= a /\ (m.attempt = a => m.step < s)
        BY SMT, <1>0, <3>1, <3>2, <3>4, <4>1, <4>2
      <4> QED BY SMT, <1>0, <1>10, <3>1, <3>4, <4>3
    <3> QED BY <3>3, <3>4
  <2>2. ASSUME NEW r \in Recorder
        PROVE  /\ new(r).attempt <= attempt'[new(r).from]
               /\ new(r).step <= step'[new(r).from]
               /\ Phase(new(r).step) # 0 => new(r).prop = proposal'[new(r).from]
    BY SMT, <1>0, <1>3, <1>10
  <2> QED BY <1>2, <2>1, <2>2 DEF RequestInv
<1>13. CallInv'
  <2>1. PICK r \in Recorder : TRUE
    BY RecorderAssumption
  <2>2. /\ step'[p] # 0
        /\ \E m \in sent' : /\ m.step = step'[p]
                            /\ m.prop.value = proposal'[p].value
                            /\ m.prop.proposer = proposal'[p].proposer
                            /\ Phase(step'[p]) # 0 => m.prop = proposal'[p]
    BY <1>0, <1>3, <1>10, <2>1
  <2> QED BY SMT, <1>6, <1>7, <1>10, <2>2 DEF IInv, CallInv
<1>14. ReplyInv'
  BY SMT, <1>7, <1>10 DEF IInv, ReplyInv, First, Agg
<1>15. OriginInv'
  <2>1. ASSUME NEW r \in Recorder
        PROVE  Origin(new(r).step, new(r).prop)'
    <3>1. Forward
      BY <1>0, <1>5, <1>6, <1>7, QuietForward
    <3>2. Origin(s, x)'
      BY <1>0, <1>4, <3>1, OriginStable
    <3>3. CASE Phase(s) # 0
      BY <1>3, <3>2, <3>3
    <3>4. CASE Phase(s) = 0
      <4>1. s # RoundOnePhaseZero + 1
        BY SMTT(20), <1>0, <3>4, PhaseFacts DEF RoundOnePhaseZero
      <4>2. Spread(s, new(r).prop)' /\ Opened(s, new(r).prop)'
        BY SMT, <3>4, <4>1 DEF Spread, Opened
      <4>3. Reached(s)' /\ Gathered(s, new(r).prop.proposer)' /\ Passed(s, new(r).prop.proposer)'
        BY <1>3, <3>2 DEF Origin
      <4> QED BY <1>3, <4>2, <4>3 DEF Origin
    <3> QED BY <3>3, <3>4
  <2> QED BY <1>2, <1>8, <2>1 DEF OriginInv
<1>16. DecisionInv'
  BY <1>7, <1>8 DEF DecisionInv
<1> QED BY <1>4, <1>8, <1>11, <1>12, <1>13, <1>14, <1>15, <1>16 DEF IInv

\* A propose call returns, with a decision it has evidence for or with none.
LEMMA ReturnStep ==
  ASSUME IInv, NEW p \in Proposer, Return(p), UNCHANGED <<attempt, recorderVars>>,
         decided' \in [Proposer -> Option(Decision)],
         \A q \in Proposer \ {p} : decided'[q] = decided[q],
         \A d \in decided'[p] : d \in decided[p] \/ Evidence(d)
  PROVE  IInv'
<1>0. TypeOK
  BY DEF IInv
<1>1. TypeOK'
  BY <1>0, ReturnType DEF TypeOK, recorderVars
<1>2. UNCHANGED <<isr, bound, hist>> /\ known' = known /\ attempt' = attempt /\ sent' = sent
  BY DEF recorderVars, Return
<1>3. \A q \in Proposer : attempt'[q] >= attempt[q]
  BY SMT, <1>0, <1>2, TypeFacts
<1>4. /\ RegisterInv' /\ RecordedInv'
      /\ \A m \in sent : m.prop.value \in Proposed(m.prop.proposer)'
      /\ \A m \in sent : Origin(m.step, m.prop)'
      /\ \A q \in Proposer : \A d \in decided[q] : Evidence(d)'
      /\ \A r \in Recorder : \A d \in known[r] : Evidence(d)'
  BY <1>1, <1>2, <1>3, QuietStep
<1>5. /\ step'[p] = 0 /\ replies'[p] = {}
      /\ \A q \in Proposer \ {p} : /\ step'[q] = step[q] /\ proposal'[q] = proposal[q]
                                   /\ replies'[q] = replies[q]
  BY <1>0 DEF TypeOK, Return
<1>6. KeyInv'
  BY <1>2, <1>4 DEF IInv, KeyInv
<1>7. RequestInv'
  BY ZenonT(40), <1>0, <1>2, <1>5, SentFacts DEF IInv, RequestInv
<1>8. CallInv'
  <2>1. CallInv
    BY DEF IInv
  <2>2. ASSUME NEW q \in Proposer
        PROVE  /\ step'[q] = 0 => replies'[q] = {}
               /\ step'[q] # 0 =>
                     /\ decided'[q] = {}
                     /\ \E m \in sent : /\ m.step = step'[q]
                                        /\ m.prop.value = proposal'[q].value
                                        /\ m.prop.proposer = proposal'[q].proposer
                                        /\ Phase(step'[q]) # 0 => m.prop = proposal'[q]
    <3>1. CASE q = p
      BY <1>5, <3>1
    <3>2. CASE q # p
      <4>1. /\ step'[q] = step[q] /\ proposal'[q] = proposal[q]
            /\ replies'[q] = replies[q] /\ decided'[q] = decided[q]
        BY <1>5, <3>2
      <4> QED BY ZenonT(40), <2>1, <4>1 DEF CallInv
    <3> QED BY <3>1, <3>2
  <2> QED BY ONLY Zenon, <1>2, <2>2 DEF CallInv
<1>9. ReplyInv'
  <2>1. \A r, s : First(r, s)' = First(r, s) /\ Agg(r, s)' = Agg(r, s)
    BY <1>2 DEF First, Agg
  <2>2. ASSUME NEW q \in Proposer, NEW reply \in replies'[q]
        PROVE  step'[q] = step[q] /\ proposal'[q] = proposal[q] /\ reply \in replies[q]
    BY <1>5
  <2> QED BY ZenonT(40), <1>2, <2>1, <2>2 DEF IInv, ReplyInv
<1>10. OriginInv'
  BY <1>2, <1>4 DEF OriginInv
<1>11. DecisionInv'
  <2>1. Forward
    BY <1>0, <1>2, <1>3, QuietForward
  <2>2. ASSUME NEW q \in Proposer, NEW d \in decided'[q], Evidence(d)
        PROVE  Evidence(d)'
    <3>1. d \in Decision
      BY DEF Option
    <3> QED BY <1>0, <1>1, <2>1, <2>2, <3>1, EvidenceStable
  <2> QED BY <1>2, <1>4, <2>2 DEF DecisionInv
<1> QED BY <1>1, <1>4, <1>6, <1>7, <1>8, <1>9, <1>10, <1>11 DEF IInv

\* A propose call returns a decision that a quorum's registers justify.
LEMMA DecideStep ==
  ASSUME IInv, NEW p \in Proposer, NEW d \in Decision, Decide(p, d), Evidence(d)
  PROVE  IInv'
<1>1. decided' = [decided EXCEPT ![p] = {d}]
  BY DEF Decide
<1>2. decided' \in [Proposer -> Option(Decision)]
  BY <1>1 DEF IInv, TypeOK, Option
<1>3. decided'[p] = {d} /\ \A q \in Proposer \ {p} : decided'[q] = decided[q]
  BY <1>1 DEF IInv, TypeOK
<1> QED BY <1>2, <1>3, ReturnStep DEF Decide

\* inform_decision hands a justified decision to a recorder.
LEMMA InformStep ==
  ASSUME IInv, NEW p \in Proposer, NEW r \in Recorder, InformDecision(p, r)
  PROVE  IInv'
<1>0. TypeOK
  BY DEF IInv
<1>1. /\ known' = [known EXCEPT ![r] = decided[p]] /\ known[r] = {}
      /\ UNCHANGED <<isr, bound, hist>>
      /\ attempt' = attempt /\ step' = step /\ proposal' = proposal /\ replies' = replies
      /\ decided' = decided /\ sent' = sent
  BY DEF InformDecision, proposerVars
<1>2. TypeOK'
  BY <1>0, <1>1 DEF TypeOK
<1>3. \A q \in Proposer : attempt'[q] >= attempt[q]
  BY SMT, <1>0, <1>1, TypeFacts
<1>4. /\ RegisterInv' /\ RecordedInv'
      /\ \A m \in sent : Origin(m.step, m.prop)'
      /\ \A q \in Proposer : \A d \in decided[q] : Evidence(d)'
      /\ \A q \in Recorder : \A d \in known[q] : Evidence(d)'
  BY <1>1, <1>2, <1>3, QuietStep
<1>5. \A q \in Recorder : known'[q] = known[q] \/ (q = r /\ known'[q] = decided[p])
  BY <1>0, <1>1 DEF TypeOK
<1>6. KeyInv' /\ RequestInv' /\ CallInv'
  BY <1>1, SameKeys DEF IInv, RequestInv, CallInv
<1>7. ReplyInv'
  <2>1. \A q \in Proposer : \A reply \in replies[q] : known[reply.recorder] \subseteq known'[reply.recorder]
    BY <1>0, <1>1, <1>5, ReplyFacts
  <2>2. ReplyInv
    BY DEF IInv
  <2>3. \A q, s : First(q, s)' = First(q, s) /\ Agg(q, s)' = Agg(q, s)
    BY <1>1 DEF First, Agg
  <2>4. step' = step /\ proposal' = proposal /\ replies' = replies /\ isr' = isr /\ bound' = bound
    BY <1>1
  <2> QED BY ONLY ZenonT(40), <2>1, <2>2, <2>3, <2>4 DEF ReplyInv
<1>8. OriginInv'
  BY <1>1, <1>4 DEF OriginInv
<1>9. DecisionInv'
  BY <1>1, <1>4, <1>5 DEF DecisionInv
<1> QED BY <1>2, <1>4, <1>6, <1>7, <1>8, <1>9 DEF IInv

\* What a record call does to a register whose history is known: the register
\* stays at its step or moves to the requested one, keeps what it settled, and
\* still holds the aggregate of the step before.
LEMMA RecordEffect ==
  ASSUME IInv, NEW m \in sent, NEW reg, reg = RecordISR(isr[m.to], m.step, m.prop)
  PROVE  /\ reg \in Register /\ reg.step \in Steps
         /\ reg.step >= m.step /\ reg.step >= isr[m.to].step
         /\ reg.first # {} /\ reg.current # {}
         /\ First(m.to, reg.step) # {} => /\ reg.step = isr[m.to].step
                                          /\ reg.first = First(m.to, reg.step)
         /\ \A y \in Agg(m.to, reg.step) : \E z \in reg.current : KeyLeq(y, z)
         /\ \A x \in reg.first \union reg.current :
               \/ x \in First(m.to, reg.step) \union Agg(m.to, reg.step)
               \/ x = m.prop /\ reg.step = m.step
         /\ reg.step = m.step => \E y \in reg.current : KeyLeq(m.prop, y)
         /\ reg.prior = Agg(m.to, reg.step - 1)
<1> DEFINE old == isr[m.to]
<1>0. /\ m.to \in Recorder /\ m.step \in Steps /\ m.prop \in Proposal /\ old \in Register
      /\ m.step \in Nat /\ m.step >= 4 /\ m.step \in 0 .. MaxStep /\ m.step - 1 \in 0 .. MaxStep
  BY SentFacts, TypeFacts, StepFacts DEF IInv
<1>1. /\ old.step \in {InitialStep} \union Steps /\ old.step \in Nat /\ old.step \in 0 .. MaxStep
      /\ old.current \in Option(Proposal)
  BY <1>0, RegisterFacts
<1>2. /\ old.first = First(m.to, old.step)
      /\ old.current = Agg(m.to, old.step)
      /\ old.step # 0 => old.prior = Agg(m.to, old.step - 1) /\ old.first # {}
      /\ \A s \in 0 .. MaxStep : /\ First(m.to, s) = {} <=> Agg(m.to, s) = {}
                                 /\ s > old.step => First(m.to, s) = {}
  BY <1>0 DEF IInv, RegisterInv
<1>3. /\ m.step < old.step => reg = old
      /\ m.step = old.step => reg = RecordSameStep(old, m.prop)
      /\ m.step > old.step => reg = RecordLaterStep(old, m.step, m.prop)
      /\ reg \in Register
  BY <1>0, RecordISRFacts
<1> HIDE DEF old
<1>4. CASE m.step < old.step
  <2>1. reg = old /\ old.step \in Steps /\ old.step # 0 /\ reg.step # m.step
    BY SMT, <1>0, <1>1, <1>3, <1>4 DEF InitialStep
  <2>2. old.current # {} /\ \A y \in old.current : KeyLeq(y, y)
    BY <1>1, <1>2, <2>1, KeyReflexive DEF Option
  <2>3. reg.step >= m.step /\ reg.step >= old.step
    BY SMT, <1>0, <1>1, <1>4, <2>1
  <2>4. /\ First(m.to, reg.step) = reg.first /\ reg.first # {}
        /\ Agg(m.to, reg.step) = reg.current /\ reg.current # {}
        /\ reg.prior = Agg(m.to, reg.step - 1)
    BY <1>2, <2>1, <2>2
  <2>5. \A y \in Agg(m.to, reg.step) : \E z \in reg.current : KeyLeq(y, z)
    BY <2>1, <2>2, <2>4
  <2> QED BY <1>3, <2>1, <2>3, <2>4, <2>5 DEF old
<1>5. CASE m.step = old.step
  <2>1. /\ reg.step = old.step /\ reg.first = old.first /\ reg.prior = old.prior
        /\ reg.current = BestProposal(old.current, m.prop)
    BY SMTT(30), <1>0, <1>1, <1>2, <1>3, <1>5 DEF RecordSameStep, Register
  <2>2. /\ reg.current # {}
        /\ reg.current \subseteq old.current \union {m.prop}
        /\ \E y \in reg.current : KeyLeq(m.prop, y)
        /\ \A z \in old.current : \E y \in reg.current : KeyLeq(z, y)
    BY SMT, <1>0, <1>1, <2>1, BestProposalFacts
  <2>3. reg.step >= m.step /\ reg.step >= old.step /\ old.step # 0 /\ reg.step \in Steps
    BY SMT, <1>0, <1>1, <1>5, <2>1
  <2> QED BY <1>2, <1>3, <1>5, <2>1, <2>2, <2>3 DEF old
<1>6. CASE m.step > old.step
  <2>1. /\ reg.step = m.step /\ reg.first = {m.prop} /\ reg.current = {m.prop}
        /\ reg.prior = IF m.step = old.step + 1 THEN old.current ELSE {}
    BY SMT, <1>3, <1>6 DEF RecordLaterStep
  <2>2. First(m.to, reg.step) = {} /\ Agg(m.to, reg.step) = {}
    BY <1>0, <1>2, <1>6, <2>1
  <2>3. reg.prior = Agg(m.to, reg.step - 1)
    <3>1. CASE m.step = old.step + 1
      <4>1. m.step - 1 = old.step
        BY SMT, <1>1, <3>1
      <4> QED BY <1>2, <2>1, <3>1, <4>1
    <3>2. CASE m.step # old.step + 1
      <4>1. m.step - 1 > old.step
        BY SMT, <1>0, <1>1, <1>6, <3>2
      <4>2. Agg(m.to, m.step - 1) = {}
        BY <1>0, <1>2, <4>1
      <4> QED BY <2>1, <3>2, <4>2
    <3> QED BY <3>1, <3>2
  <2>4. KeyLeq(m.prop, m.prop)
    BY <1>0, KeyReflexive
  <2>5. reg.step >= m.step /\ reg.step >= old.step
    BY SMT, <1>0, <1>1, <1>6, <2>1
  <2> QED BY <1>0, <1>3, <2>1, <2>2, <2>3, <2>4, <2>5 DEF old
<1>7. m.step < old.step \/ m.step = old.step \/ m.step > old.step
  BY SMT, <1>0, <1>1
<1> QED BY <1>4, <1>5, <1>6, <1>7, Zenon

\* RecorderCore::record preserves the invariant, whenever the request was sent.
LEMMA RecordStep ==
  ASSUME IInv, NEW m \in sent, Record(m)
  PROVE  IInv'
<1> DEFINE r0 == m.to
<1>reg. PICK reg : reg = RecordISR(isr[m.to], m.step, m.prop)
  OBVIOUS
<1> DEFINE reply0 == [recorder |-> m.to, step |-> reg.step, first |-> reg.first,
                      prior |-> reg.prior, decision |-> known[m.to]]
<1>0. /\ TypeOK
      /\ r0 \in Recorder /\ m.from \in Proposer /\ m.step \in Steps /\ m.prop \in Proposal
      /\ m.step \in Nat /\ m.step # 0
  BY SMT, SentFacts, StepFacts DEF IInv
<1>1. TypeOK'
  BY <1>0, RecordType
<1>2. /\ bound[r0] \in {{}, {Leader[m.from]}}
      /\ bound' = [bound EXCEPT ![r0] = {Leader[m.from]}]
      /\ isr' = [isr EXCEPT ![r0] = reg]
      /\ hist' = [hist EXCEPT ![r0][reg.step] = [first |-> reg.first, agg |-> reg.current]]
      /\ replies' = IF Awaited(m) THEN [replies EXCEPT ![m.from] = @ \union {reply0}]
                                 ELSE replies
      /\ known' = known /\ attempt' = attempt /\ step' = step /\ proposal' = proposal
      /\ decided' = decided /\ sent' = sent
  BY <1>reg DEF Record
<1>3. /\ reg \in Register /\ reg.step \in Steps
      /\ reg.step >= m.step /\ reg.step >= isr[r0].step
      /\ reg.first # {} /\ reg.current # {}
      /\ First(r0, reg.step) # {} => /\ reg.step = isr[r0].step
                                     /\ reg.first = First(r0, reg.step)
      /\ \A y \in Agg(r0, reg.step) : \E z \in reg.current : KeyLeq(y, z)
      /\ \A x \in reg.first \union reg.current :
            \/ x \in First(r0, reg.step) \union Agg(r0, reg.step)
            \/ x = m.prop /\ reg.step = m.step
      /\ reg.step = m.step => \E y \in reg.current : KeyLeq(m.prop, y)
      /\ reg.prior = Agg(r0, reg.step - 1)
  BY ZenonT(60), <1>reg, RecordEffect
<1>4. /\ reply0.recorder = r0 /\ reply0.step = reg.step /\ reply0.first = reg.first
      /\ reply0.prior = reg.prior /\ reply0.decision = known[r0]
  OBVIOUS
<1> HIDE DEF r0, reply0
<1>5. reg.step \in Nat /\ reg.step \in 0 .. MaxStep /\ reg.step # 0 /\ reg.step - 1 # reg.step
      /\ reg.step - 1 \in 0 .. MaxStep
  BY SMT, <1>3, StepFacts
<1>6. /\ isr'[r0] = reg /\ \A r \in Recorder \ {r0} : isr'[r] = isr[r]
      /\ bound'[r0] = {Leader[m.from]} /\ \A r \in Recorder \ {r0} : bound'[r] = bound[r]
      /\ \A r \in Recorder : bound[r] # {} => bound'[r] = bound[r]
  BY <1>0, <1>2 DEF TypeOK
<1>7. /\ hist'[r0][reg.step] = [first |-> reg.first, agg |-> reg.current]
      /\ \A s \in 0 .. MaxStep : s # reg.step => hist'[r0][s] = hist[r0][s]
      /\ \A r \in Recorder \ {r0} : hist'[r] = hist[r]
  BY <1>0, <1>2, <1>5 DEF TypeOK
<1>8. /\ First(r0, reg.step)' = reg.first /\ Agg(r0, reg.step)' = reg.current
      /\ \A s \in 0 .. MaxStep : s # reg.step => /\ First(r0, s)' = First(r0, s)
                                                 /\ Agg(r0, s)' = Agg(r0, s)
      /\ \A r \in Recorder \ {r0}, s \in 0 .. MaxStep : /\ First(r, s)' = First(r, s)
                                                        /\ Agg(r, s)' = Agg(r, s)
  <2>1. hist'[r0][reg.step].first = reg.first /\ hist'[r0][reg.step].agg = reg.current
    BY SMT, <1>7
  <2>2. First(r0, reg.step)' = reg.first /\ Agg(r0, reg.step)' = reg.current
    BY <2>1 DEF First, Agg
  <2> QED BY <1>7, <2>2 DEF First, Agg
<1>9. Forward
  <2>1. sent \subseteq sent' /\ \A p \in Proposer : attempt'[p] >= attempt[p]
    BY SMT, <1>0, <1>2, TypeFacts
  <2>2. \A r \in Recorder : isr'[r].step >= isr[r].step
    BY SMT, <1>0, <1>3, <1>6, StepOfRegister
  <2>3. \A r \in Recorder, s \in 0 .. MaxStep : \A y \in Agg(r, s) : KeyLeq(y, y)
    BY <1>0, AggregateType, KeyReflexive
  <2>4. isr[r0].step \in Nat
    BY <1>0, StepOfRegister
  <2>5. ASSUME NEW r \in Recorder, NEW s \in 0 .. MaxStep
        PROVE  /\ First(r, s) # {} => First(r, s)' = First(r, s)
               /\ s < isr[r].step => Agg(r, s)' = Agg(r, s)
               /\ \A y \in Agg(r, s) : \E z \in Agg(r, s)' : KeyLeq(y, z)
    <3>1. CASE r # r0 \/ s # reg.step
      BY <1>8, <2>3, <3>1
    <3>2. CASE r = r0 /\ s = reg.step
      <4>1. ~(s < isr[r].step)
        BY SMTT(20), <1>3, <1>5, <2>4, <3>2
      <4> QED BY <1>3, <1>8, <3>2, <4>1
    <3> QED BY <3>1, <3>2
  <2> QED BY <1>6, <2>1, <2>2, <2>5 DEF Forward
<1>10. RegisterInv'
  <2>1. ASSUME NEW r \in Recorder \ {r0}
        PROVE  /\ isr'[r].first = hist'[r][isr'[r].step].first
               /\ isr'[r].current = hist'[r][isr'[r].step].agg
               /\ isr'[r].step # 0 => /\ isr'[r].prior = hist'[r][isr'[r].step - 1].agg
                                      /\ isr'[r].first # {}
                                      /\ bound'[r] # {}
               /\ isr'[r].step = 0 => isr'[r].first = {}
               /\ \A s \in 0 .. MaxStep : /\ First(r, s)' = {} <=> Agg(r, s)' = {}
                                          /\ s > isr'[r].step => First(r, s)' = {}
    BY SMT, <1>6, <1>7 DEF IInv, RegisterInv, First, Agg
  <2>2. /\ reg.first = First(r0, reg.step)' /\ reg.current = Agg(r0, reg.step)'
        /\ reg.prior = Agg(r0, reg.step - 1)' /\ reg.first # {} /\ bound'[r0] # {}
    BY <1>3, <1>5, <1>6, <1>8
  <2>3. ASSUME NEW s \in 0 .. MaxStep
        PROVE  /\ First(r0, s)' = {} <=> Agg(r0, s)' = {}
               /\ s > reg.step => First(r0, s)' = {}
    <3>1. CASE s = reg.step
      BY SMT, <1>3, <1>5, <1>8, <3>1
    <3>2. CASE s # reg.step
      <4>1. s > reg.step => s > isr[r0].step
        BY SMT, <1>0, <1>3, <1>5, StepOfRegister
      <4> QED BY SMTT(20), <1>0, <1>8, <3>2, <4>1 DEF IInv, RegisterInv
    <3> QED BY <3>1, <3>2
  <2>4. isr'[r0] = reg /\ reg.step # 0
    BY <1>5, <1>6
  <2> QED BY SMTT(20), <2>1, <2>2, <2>3, <2>4 DEF RegisterInv, First, Agg
<1>11. RecordedInv'
  <2>1. ASSUME NEW r \in Recorder, NEW s \in 0 .. MaxStep,
               NEW x \in First(r, s)' \union Agg(r, s)'
        PROVE  \E k \in sent' : k.step = s /\ k.prop = x /\ bound'[r] = {Leader[k.from]}
    <3>1. CASE x \in First(r, s) \union Agg(r, s)
      <4>1. PICK k \in sent : k.step = s /\ k.prop = x /\ bound[r] = {Leader[k.from]}
        BY SMT, <3>1 DEF IInv, RecordedInv
      <4>2. bound'[r] = bound[r]
        BY <1>6, <4>1
      <4> QED BY <1>2, <4>1, <4>2
    <3>2. CASE x \notin First(r, s) \union Agg(r, s)
      <4>1. r = r0 /\ s = reg.step
        BY <1>8, <2>1, <3>2
      <4>2. x = m.prop /\ reg.step = m.step
        BY <1>3, <1>8, <2>1, <3>2, <4>1
      <4> QED BY <1>2, <1>6, <4>1, <4>2
    <3> QED BY <3>1, <3>2
  <2> QED BY SMT, <2>1 DEF RecordedInv
<1>12. KeyInv' /\ RequestInv'
  BY <1>2, SameKeys DEF IInv, RequestInv
<1>13. CallInv'
  <2>1. \A p \in Proposer : step'[p] = 0 => replies'[p] = replies[p]
    BY <1>0, <1>2 DEF Awaited, TypeOK
  <2> QED BY <1>2, <2>1 DEF IInv, CallInv
<1>14. \A p \in Proposer : \A d \in decided'[p] : Evidence(d)'
  BY SMT, <1>0, <1>1, <1>2, <1>9, TypeFacts, EvidenceStable DEF IInv, DecisionInv, Option
<1>15. \A r \in Recorder : \A d \in known'[r] : Evidence(d)'
  BY SMT, <1>0, <1>1, <1>2, <1>9, TypeFacts, EvidenceStable DEF IInv, DecisionInv, Option
<1>16. OriginInv'
  BY <1>0, <1>1, <1>2, <1>9, SentFacts, OriginStable DEF IInv, OriginInv
<1>17. ReplyInv'
  <2> DEFINE Says(p, reply) ==
        /\ step'[p] <= reply.step
        /\ isr'[reply.recorder].step >= reply.step
        /\ bound'[reply.recorder] = {Leader[p]}
        /\ reply.first = hist'[reply.recorder][reply.step].first
        /\ reply.first # {}
        /\ reply.prior = hist'[reply.recorder][reply.step - 1].agg
        /\ reply.decision \subseteq known'[reply.recorder]
        /\ Phase(step'[p]) # 0 /\ reply.step = step'[p] =>
              \E y \in hist'[reply.recorder][step'[p]].agg : KeyLeq(proposal'[p], y)
  <2>0. step' = step /\ proposal' = proposal /\ known' = known
    BY <1>2
  <2>1. ASSUME NEW p \in Proposer, NEW reply \in replies[p]
        PROVE  Says(p, reply)
    <3> DEFINE q == reply.recorder
    <3>1. /\ q \in Recorder /\ reply.step \in Steps
          /\ reply.step \in Nat /\ reply.step \in 0 .. MaxStep /\ reply.step - 1 \in 0 .. MaxStep
      BY <1>0, ReplyFacts, StepFacts
    <3>2. /\ step[p] <= reply.step
          /\ isr[q].step >= reply.step
          /\ bound[q] = {Leader[p]}
          /\ reply.first = First(q, reply.step)
          /\ reply.first # {}
          /\ reply.prior = Agg(q, reply.step - 1)
          /\ reply.decision \subseteq known[q]
          /\ Phase(step[p]) # 0 /\ reply.step = step[p] =>
                \E y \in Agg(q, step[p]) : KeyLeq(proposal[p], y)
      BY DEF IInv, ReplyInv
    <3> HIDE DEF q
    <3>3. /\ isr[q].step \in Nat /\ isr'[q].step \in Nat /\ isr'[q].step >= isr[q].step
          /\ proposal[p] \in Proposal
      BY <1>0, <1>1, <1>9, <3>1, StepOfRegister, StepOfRegisterNext, TypeFacts DEF Forward
    <3>4. isr'[q].step >= reply.step /\ reply.step - 1 < isr[q].step
      <4>1. reply.step \in Nat /\ isr[q].step >= reply.step
        BY <3>1, <3>2
      <4>2. isr[q].step \in Nat /\ isr'[q].step \in Nat /\ isr'[q].step >= isr[q].step
        BY <3>3
      <4> QED BY SMT, <4>1, <4>2
    <3>5. /\ bound'[q] = {Leader[p]}
          /\ reply.first = First(q, reply.step)'
          /\ reply.prior = Agg(q, reply.step - 1)'
      BY <1>9, <3>1, <3>2, <3>4 DEF Forward
    <3>6. ASSUME Phase(step[p]) # 0, reply.step = step[p]
          PROVE  \E y \in Agg(q, reply.step)' : KeyLeq(proposal[p], y)
      BY <1>0, <1>1, <1>9, <3>1, <3>2, <3>3, <3>6, AboveStable
    <3> QED BY <2>0, <3>2, <3>4, <3>5, <3>6 DEF q, First, Agg
  <2>2. ASSUME Awaited(m)
        PROVE  Says(m.from, reply0)
    <3>1. step[m.from] = m.step /\ attempt[m.from] = m.attempt
      BY <2>2 DEF Awaited
    <3>2. Phase(m.step) # 0 => m.prop = proposal[m.from]
      BY <1>0, <3>1 DEF IInv, RequestInv
    <3>3. /\ m.step <= reg.step
          /\ isr'[r0].step >= reg.step
      BY SMT, <1>0, <1>3, <1>5, <1>6
    <3>4. /\ hist'[r0][reg.step].first = reg.first
          /\ hist'[r0][reg.step].agg = reg.current
          /\ hist'[r0][reg.step - 1].agg = reg.prior
      BY <1>3, <1>5, <1>8 DEF First, Agg
    <3>5. ASSUME Phase(m.step) # 0, reg.step = m.step
          PROVE  \E y \in hist'[r0][m.step].agg : KeyLeq(proposal'[m.from], y)
      BY <1>3, <2>0, <3>2, <3>4, <3>5
    <3>6. /\ step'[m.from] <= reply0.step
          /\ isr'[reply0.recorder].step >= reply0.step
          /\ bound'[reply0.recorder] = {Leader[m.from]}
      BY <1>4, <1>6, <2>0, <3>1, <3>3
    <3>7. /\ reply0.first = hist'[reply0.recorder][reply0.step].first
          /\ reply0.first # {}
          /\ reply0.prior = hist'[reply0.recorder][reply0.step - 1].agg
          /\ reply0.decision \subseteq known'[reply0.recorder]
      BY <1>3, <1>4, <2>0, <3>4
    <3>8. Phase(step'[m.from]) # 0 /\ reply0.step = step'[m.from] =>
             \E y \in hist'[reply0.recorder][step'[m.from]].agg : KeyLeq(proposal'[m.from], y)
      BY <1>4, <2>0, <3>1, <3>5
    <3> QED BY <3>6, <3>7, <3>8
  <2>3. \A p \in Proposer : \A reply \in replies'[p] :
           reply \in replies[p] \/ (Awaited(m) /\ p = m.from /\ reply = reply0)
    BY <1>0, <1>2 DEF TypeOK
  <2>4. \A p \in Proposer : \A reply \in replies'[p] : Says(p, reply)
    BY SMTT(30), <2>1, <2>2, <2>3
  <2> QED BY <2>4 DEF ReplyInv, First, Agg
<1> QED BY <1>1, <1>10, <1>11, <1>12, <1>13, <1>14, <1>15, <1>16, <1>17 DEF IInv, DecisionInv

\* A propose call starts, for the first time or after a failed one.
LEMMA ProposeStep ==
  ASSUME IInv, NEW p \in Proposer, Propose(p)
  PROVE  IInv'
<1> DEFINE s == RoundOnePhaseZero
<1>0. PICK a, x : a = attempt[p] + 1 /\ x = OwnProposal(p, a)
  OBVIOUS
<1>1. /\ TypeOK /\ attempt[p] \in Nat /\ a \in Nat /\ a > attempt[p]
      /\ a \in 1 .. a /\ a \in 1 .. MaxAttempts[p]
  BY SMT, <1>0, TypeFacts, AttemptsAssumption DEF IInv, Propose
<1>2. s \in Steps
  BY SMT, StepAssumption DEF Steps, RoundOnePhaseZero
<1>3. x \in Proposal /\ x.proposer = p /\ x.value = Batch[p][a]
  BY <1>0, <1>1, OwnProposalType DEF OwnProposal
<1>4. Enter(p, a, s, x) /\ attempt' = [attempt EXCEPT ![p] = a]
      /\ UNCHANGED <<decided, recorderVars>> /\ decided[p] = {}
  BY <1>0 DEF Propose
<1>5. x.value \in Proposed(x.proposer)'
  <2>1. attempt'[p] = a
    BY <1>1, <1>4 DEF TypeOK
  <2>2. Batch[p][a] \in Proposed(p)'
    BY <1>1, <2>1 DEF Proposed
  <2> QED BY <1>3, <2>2
<1>6. Origin(s, x)
  <2>1. Reached(s) /\ Gathered(s, x.proposer)
    BY SMT DEF Reached, Gathered, RoundOnePhaseZero
  <2>2. Spread(s, x) /\ Opened(s, x)
    BY SMT, PhaseFacts DEF Spread, Opened, RoundOnePhaseZero
  <2>3. Passed(s, x.proposer)
    BY SMT, StepFacts DEF Passed, RoundOnePhaseZero
  <2> QED BY <2>1, <2>2, <2>3 DEF Origin
<1> HIDE DEF s
<1> QED BY <1>1, <1>2, <1>3, <1>4, <1>5, <1>6, EnterStep

\* A propose call takes up a quorum of replies: each branch of its loop body.
LEMMA ContinueStep ==
  ASSUME IInv, NEW p \in Proposer, NEW R \in Collections(p), Continue(p, R)
  PROVE  IInv'
<1>0. TypeOK /\ step[p] \in Steps /\ step[p] \in Nat /\ step[p] # 0 /\ step[p] >= 4
  BY SMT, Running, StepFacts DEF IInv
<1>a. decided[p] = {}
  BY <1>0 DEF IInv, CallInv
<1>1. CASE \E d \in Decision : Decide(p, d) /\ Evidence(d)
  BY <1>1, DecideStep
<1>2. CASE EntersLaterStep(p)
  <2>1. PICK s \in Nat, x \in Proposal :
           /\ s > step[p]
           /\ s >= RoundOnePhaseZero
           /\ Enter(p, attempt[p], s, x)
           /\ UNCHANGED <<attempt, decided, recorderVars>>
           /\ Sound(x)
           /\ Origin(s, x)
    BY <1>2 DEF EntersLaterStep
  <2>2. CASE s <= MaxStep
    <3>1. s \in Steps /\ s # RoundOnePhaseZero
      BY SMT, <1>0, <2>1, <2>2, StepAssumption DEF Steps, RoundOnePhaseZero
    <3>2. attempt' = [attempt EXCEPT ![p] = attempt[p]] /\ attempt[p] \in Nat
      BY <1>0, <2>1 DEF TypeOK
    <3>3. x.value \in Proposed(x.proposer)'
      BY <2>1 DEF Sound, Proposed
    <3> QED BY <1>0, <1>a, <2>1, <3>1, <3>2, <3>3, EnterStep
  <2>3. CASE ~(s <= MaxStep)
    <3>1. Return(p) /\ UNCHANGED <<attempt, recorderVars>> /\ decided' = decided
      BY <2>1, <2>3 DEF Enter
    <3>2. decided' \in [Proposer -> Option(Decision)]
      BY <1>0, <3>1 DEF TypeOK
    <3> QED BY <3>1, <3>2, ReturnStep
  <2> QED BY <2>2, <2>3
<1> QED BY <1>1, <1>2, ContinueCases

\* A call that fails, or that a recorder refuses, leaves no trace but its
\* requests.
LEMMA FailStep ==
  ASSUME IInv, NEW p \in Proposer, Return(p), UNCHANGED <<attempt, decided, recorderVars>>
  PROVE  IInv'
<1>1. decided' = decided /\ UNCHANGED <<attempt, recorderVars>>
  OBVIOUS
<1>2. decided' \in [Proposer -> Option(Decision)]
  BY <1>1 DEF IInv, TypeOK
<1> QED BY <1>1, <1>2, ReturnStep

\* Nothing happens in the slot.
LEMMA StutterStep ==
  ASSUME IInv, UNCHANGED vars
  PROVE  IInv'
<1>1. /\ isr' = isr /\ bound' = bound /\ known' = known /\ attempt' = attempt /\ step' = step
      /\ proposal' = proposal /\ replies' = replies /\ decided' = decided /\ sent' = sent
      /\ hist' = hist
  BY DEF vars
<1>2. TypeOK'
  BY <1>1 DEF IInv, TypeOK
<1>3. \A q \in Proposer : attempt'[q] >= attempt[q]
  BY SMT, <1>1, TypeFacts DEF IInv
<1>4. /\ RegisterInv' /\ RecordedInv'
      /\ \A m \in sent : Origin(m.step, m.prop)'
      /\ \A q \in Proposer : \A d \in decided[q] : Evidence(d)'
      /\ \A r \in Recorder : \A d \in known[r] : Evidence(d)'
  BY <1>1, <1>2, <1>3, QuietStep
<1>5. KeyInv' /\ RequestInv' /\ CallInv'
  BY <1>1, SameKeys DEF IInv, RequestInv, CallInv
<1>6. ReplyInv'
  <2>1. ReplyInv
    BY DEF IInv
  <2>2. \A r, s : First(r, s)' = First(r, s) /\ Agg(r, s)' = Agg(r, s)
    BY <1>1 DEF First, Agg
  <2>3. /\ step' = step /\ proposal' = proposal /\ replies' = replies
        /\ isr' = isr /\ bound' = bound /\ known' = known
    BY <1>1
  <2> QED BY ONLY Zenon, <2>1, <2>2, <2>3 DEF ReplyInv
<1> QED BY <1>1, <1>2, <1>4, <1>5, <1>6 DEF IInv, OriginInv, DecisionInv

\* The invariant holds before any propose call.
LEMMA InvariantInit == Init => IInv
<1> SUFFICES ASSUME Init PROVE IInv
  OBVIOUS
<1>1. TypeOK
  BY TypeInit
<1>2. \A r \in Recorder : /\ isr[r].step = 0 /\ isr[r].first = {} /\ isr[r].current = {}
                          /\ known[r] = {}
  BY DEF Init, EmptyRegister, InitialStep
<1>3. \A r \in Recorder, s \in 0 .. MaxStep : First(r, s) = {} /\ Agg(r, s) = {}
  BY DEF Init, First, Agg
<1>4. 0 \in 0 .. MaxStep
  BY SMT, StepAssumption
<1>5. RegisterInv
  <2> SUFFICES ASSUME NEW r \in Recorder
               PROVE  RegisterInv!(r)
    BY DEF RegisterInv
  <2>1. isr[r].step = 0 /\ isr[r].first = {} /\ isr[r].current = {}
    BY <1>2
  <2>2. First(r, 0) = {} /\ Agg(r, 0) = {}
    BY <1>3, <1>4
  <2> QED BY <2>1, <2>2, <1>3
<1>6. RecordedInv
  BY <1>3 DEF RecordedInv
<1>7. KeyInv /\ RequestInv /\ OriginInv
  BY DEF Init, KeyInv, RequestInv, OriginInv
<1>8. CallInv /\ ReplyInv
  BY DEF Init, CallInv, ReplyInv
<1>9. DecisionInv
  BY <1>2 DEF Init, DecisionInv
<1> QED BY <1>1, <1>5, <1>6, <1>7, <1>8, <1>9 DEF IInv

\* Every step of a proposer or recorder preserves the invariant.
LEMMA InvariantStep == IInv /\ [Next]_vars => IInv'
<1> SUFFICES ASSUME IInv, [Next]_vars PROVE IInv'
  OBVIOUS
<1>1. ASSUME NEW p \in Proposer, Propose(p) PROVE IInv'
  BY <1>1, ProposeStep
<1>2. ASSUME NEW p \in Proposer, NEW R \in Collections(p), Continue(p, R) PROVE IInv'
  BY <1>2, ContinueStep
<1>3. ASSUME NEW p \in Proposer, GiveUp(p) PROVE IInv'
  BY <1>3, FailStep DEF GiveUp
<1>4. ASSUME NEW p \in Proposer, NEW r \in Recorder, InformDecision(p, r) PROVE IInv'
  BY <1>4, InformStep
<1>5. ASSUME NEW m \in sent, Record(m) PROVE IInv'
  BY <1>5, RecordStep
<1>6. ASSUME NEW m \in sent, ScheduleMismatch(m) PROVE IInv'
  <2>1. m.from \in Proposer
    BY SentFacts DEF IInv
  <2> QED BY <1>6, <2>1, FailStep DEF ScheduleMismatch
<1>7. CASE UNCHANGED vars
  BY <1>7, StutterStep
<1> QED BY <1>1, <1>2, <1>3, <1>4, <1>5, <1>6, <1>7 DEF Next

------------------------------------------------------------------------------
(* What the invariant means *)

\* Two quorums share a recorder.
LEMMA Shared ==
  ASSUME NEW Q1 \in Quorum, NEW Q2 \in Quorum
  PROVE  \E r \in Recorder : r \in Q1 /\ r \in Q2
BY QuorumAssumption

\* A decision some replica holds is well formed and justified.
LEMMA DecisionFacts ==
  ASSUME IInv, NEW d \in AllDecisions
  PROVE  /\ d \in Decision /\ Evidence(d)
         /\ d.step \in Steps /\ d.step \in Nat /\ d.step >= 4 /\ d.step - 1 \in 0 .. MaxStep
         /\ d.step \in 0 .. MaxStep
<1>1. (\E p \in Proposer : d \in decided[p]) \/ (\E r \in Recorder : d \in known[r])
  BY DEF AllDecisions
<1>2. d \in Decision
  BY SMT, <1>1, TypeFacts DEF IInv, Option
<1>3. Evidence(d)
  BY <1>1 DEF IInv, DecisionInv
<1>4. d.step \in Steps
  BY <1>2 DEF Decision
<1> QED BY <1>2, <1>3, <1>4, StepFacts

\* Proposals that are equal in key have the same proposer.
LEMMA KeyIdentifiesProposer ==
  ASSUME IInv, NEW k1 \in sent, NEW k2 \in sent,
         KeyLeq(k1.prop, k2.prop), KeyLeq(k2.prop, k1.prop)
  PROVE  k1.prop.proposer = k2.prop.proposer
<1>1. k1.prop \in Proposal /\ k2.prop \in Proposal
  BY SentFacts DEF IInv
<1> QED BY <1>1, KeyAntisymmetric DEF SameKey

\* After the fast path, nothing but its proposer's batch leaves phase zero of round one.
LEMMA FastLock ==
  ASSUME IInv, NEW d \in AllDecisions, d.step = RoundOnePhaseZero,
         NEW k \in sent, k.step = RoundOnePhaseZero + 1
  PROVE  k.prop.proposer = d.proposer
<1>1. FastEvidence(d)
  BY SMT, DecisionFacts, PhaseFacts DEF Evidence, RoundOnePhaseZero
<1>2. PICK Q1 \in Quorum : \A r \in Q1 :
         /\ bound[r] = {{d.proposer}}
         /\ \E x \in First(r, RoundOnePhaseZero) :
               x.priority = MaxPriority /\ x.proposer = d.proposer
  BY <1>1 DEF FastEvidence
<1>3. PICK k0 \in sent : \E Q \in Quorum :
         /\ k0.step = RoundOnePhaseZero
         /\ k0.prop = k.prop
         /\ \A r \in Q : /\ bound[r] = {Leader[k0.from]}
                         /\ First(r, RoundOnePhaseZero) # {}
                         /\ \A y \in First(r, RoundOnePhaseZero) : KeyLeq(y, k.prop)
  BY DEF IInv, OriginInv, Origin, Opened
<1>4. PICK Q2 \in Quorum :
         \A r \in Q2 : /\ bound[r] = {Leader[k0.from]}
                       /\ \A y \in First(r, RoundOnePhaseZero) : KeyLeq(y, k.prop)
  BY <1>3
<1>5. PICK r \in Recorder : r \in Q1 /\ r \in Q2
  BY Shared
<1>6. PICK x \in First(r, RoundOnePhaseZero) : x.priority = MaxPriority
  BY <1>2, <1>5
<1>7. RoundOnePhaseZero \in 0 .. MaxStep
  BY SMTT(20), StepAssumption DEF RoundOnePhaseZero
<1>8. x \in Proposal /\ k.prop \in Proposal
  BY SMT, <1>6, <1>7, TypeFacts, SentFacts DEF IInv, Option
<1>9. k0.prop.priority = MaxPriority
  BY <1>3, <1>4, <1>5, <1>6, <1>8, KeyOfReserved
<1>10. Leader[k0.from] = {k0.from} /\ k0.prop.proposer = k0.from
  BY <1>3, <1>9 DEF IInv, KeyInv
<1>11. k0.from = d.proposer
  BY <1>2, <1>4, <1>5, <1>10
<1> QED BY <1>3, <1>10, <1>11

\* After a decision in phase two, nothing but its proposer's batch reaches the
\* next round.
LEMMA SlowLock ==
  ASSUME IInv, NEW d \in AllDecisions, Phase(d.step) = 2,
         NEW k \in sent, k.step = d.step + 2
  PROVE  k.prop.proposer = d.proposer
<1>0. d.step \in Nat /\ d.step >= 4 /\ d.step \in Steps /\ d.step \in 0 .. MaxStep
      /\ d.step - 1 \in 0 .. MaxStep /\ d.step + 2 - 2 = d.step
  BY SMT, DecisionFacts
<1>1. SlowEvidence(d)
  BY SMT, <1>0, DecisionFacts, PhaseFacts DEF Evidence, RoundOnePhaseZero
<1>2. PICK kd \in sent : \E Q \in Quorum :
         /\ kd.step = d.step /\ kd.prop.proposer = d.proposer /\ kd.prop.value = d.value
         /\ \A r \in Q : /\ isr[r].step >= d.step
                         /\ \E y \in Agg(r, d.step) : KeyLeq(kd.prop, y)
                         /\ \A y \in Agg(r, d.step - 1) : KeyLeq(y, kd.prop)
  BY <1>1 DEF SlowEvidence
<1>3. PICK Q1 \in Quorum :
         \A r \in Q1 : /\ \E y \in Agg(r, d.step) : KeyLeq(kd.prop, y)
                       /\ \A y \in Agg(r, d.step - 1) : KeyLeq(y, kd.prop)
  BY <1>2
<1>4. Gathered(k.step, k.prop.proposer) /\ Phase(k.step) = 0 /\ k.step > RoundOnePhaseZero
  <2>1. Phase(d.step + 2) = 0
    BY SMT, <1>0 DEF Phase
  <2> QED BY SMT, <1>0, <2>1 DEF IInv, OriginInv, Origin, RoundOnePhaseZero
<1>5. PICK kg \in sent : \E Q \in Quorum :
         /\ kg.step = d.step
         /\ kg.prop.proposer = k.prop.proposer
         /\ \A r \in Q : \A y \in Agg(r, d.step) : KeyLeq(y, kg.prop)
  BY SMT, <1>0, <1>4 DEF Gathered
<1>6. PICK Q2 \in Quorum : \A r \in Q2 : \A y \in Agg(r, d.step) : KeyLeq(y, kg.prop)
  BY <1>5
<1>7. PICK Q3 \in Quorum : \A r \in Q3 : \E y \in Agg(r, d.step - 1) : KeyLeq(kg.prop, y)
  BY <1>5 DEF IInv, OriginInv, Origin, Spread
<1>8. kd.prop \in Proposal /\ kg.prop \in Proposal
  BY SentFacts DEF IInv
<1>9. KeyLeq(kd.prop, kg.prop)
  <2>1. PICK r \in Recorder : r \in Q1 /\ r \in Q2
    BY Shared
  <2>2. PICK y \in Agg(r, d.step) : KeyLeq(kd.prop, y)
    BY <1>3, <2>1
  <2>3. KeyLeq(y, kg.prop) /\ y \in Proposal
    BY <1>0, <1>6, <2>1, AggregateType DEF IInv
  <2> QED BY <1>8, <2>2, <2>3, KeyTransitive
<1>10. KeyLeq(kg.prop, kd.prop)
  <2>1. PICK r \in Recorder : r \in Q1 /\ r \in Q3
    BY Shared
  <2>2. PICK y \in Agg(r, d.step - 1) : KeyLeq(kg.prop, y)
    BY <1>7, <2>1
  <2>3. KeyLeq(y, kd.prop) /\ y \in Proposal
    BY <1>0, <1>3, <2>1, AggregateType DEF IInv
  <2> QED BY <1>8, <2>2, <2>3, KeyTransitive
<1> QED BY <1>2, <1>5, <1>9, <1>10, KeyIdentifiesProposer

\* Past its binding step, every request carries a batch of the decided proposer.
LEMMA Locked ==
  ASSUME IInv, NEW d \in AllDecisions, NEW k \in sent, k.step >= BindingStep(d)
  PROVE  k.prop.proposer = d.proposer
<1> DEFINE g == BindingStep(d)
<1>0. /\ d.step \in Nat /\ d.step >= 4 /\ k.step \in Nat /\ k.step <= MaxStep
      /\ d.step = RoundOnePhaseZero \/ Phase(d.step) = 2
  BY DecisionFacts, SentFacts, StepFacts DEF IInv, Evidence
<1>1. /\ g \in Nat /\ g >= 4 /\ Gate(g)
      /\ d.step = RoundOnePhaseZero => g = RoundOnePhaseZero + 1
      /\ d.step # RoundOnePhaseZero => g = d.step + 2
  BY SMT, <1>0 DEF BindingStep, Gate, Phase, RoundOnePhaseZero
<1>2. g \in Steps
  BY SMT, <1>0, <1>1, StepAssumption DEF Steps, RoundOnePhaseZero
<1>3. ASSUME NEW k0 \in sent, k0.step = g
      PROVE  k0.prop.proposer = d.proposer
  <2>1. CASE d.step = RoundOnePhaseZero
    BY <1>1, <1>3, <2>1, FastLock
  <2>2. CASE d.step # RoundOnePhaseZero
    BY <1>0, <1>1, <1>3, <2>2, SlowLock
  <2> QED BY <2>1, <2>2
<1>4. CASE k.step = g
  BY <1>3, <1>4
<1>5. CASE k.step # g
  <2>1. g < k.step
    BY SMT, <1>0, <1>1, <1>5
  <2>2. PICK k0 \in sent : k0.step = g /\ k0.prop.proposer = k.prop.proposer
    BY <1>1, <1>2, <2>1 DEF IInv, OriginInv, Origin, Passed
  <2> QED BY <1>3, <2>2
<1> QED BY <1>4, <1>5

\* A decision in phase two was requested at its step, above everything its
\* quorum saw in phase one.
LEMMA SlowRequest ==
  ASSUME IInv, NEW d \in AllDecisions, Phase(d.step) = 2
  PROVE  \E k \in sent, Q \in Quorum :
            /\ k.step = d.step /\ k.prop.proposer = d.proposer
            /\ \A r \in Q : \A y \in Agg(r, d.step - 1) : KeyLeq(y, k.prop)
<1>1. d.step # RoundOnePhaseZero
  BY SMT, DecisionFacts, PhaseFacts DEF RoundOnePhaseZero
<1> QED BY <1>1, DecisionFacts DEF Evidence, SlowEvidence

\* Of two decisions in phase two of one round, neither proposal is above the
\* other.
LEMMA SameRoundBelow ==
  ASSUME IInv, NEW d \in AllDecisions, Phase(d.step) = 2,
         NEW k1 \in sent, NEW k2 \in sent, k1.step = d.step, NEW Q \in Quorum,
         \A r \in Q : \A y \in Agg(r, d.step - 1) : KeyLeq(y, k2.prop)
  PROVE  KeyLeq(k1.prop, k2.prop)
<1>1. PICK Q1 \in Quorum : \A r \in Q1 : \E y \in Agg(r, d.step - 1) : KeyLeq(k1.prop, y)
  BY DEF IInv, OriginInv, Origin, Spread
<1>2. PICK r \in Recorder : r \in Q1 /\ r \in Q
  BY Shared
<1>3. PICK y \in Agg(r, d.step - 1) : KeyLeq(k1.prop, y)
  BY <1>1, <1>2
<1>4. d.step - 1 \in 0 .. MaxStep
  BY DecisionFacts
<1>5. y \in Proposal /\ k1.prop \in Proposal /\ k2.prop \in Proposal
  BY <1>2, <1>3, <1>4, AggregateType, SentFacts DEF IInv
<1>6. KeyLeq(y, k2.prop)
  BY <1>2, <1>3
<1> QED BY <1>3, <1>5, <1>6, KeyTransitive

\* Two decisions credit the same replica, the earlier one first.
LEMMA OrderedAgreement ==
  ASSUME IInv, NEW d1 \in AllDecisions, NEW d2 \in AllDecisions, d1.step <= d2.step
  PROVE  d1.proposer = d2.proposer
<1>0. /\ d1.step \in Nat /\ d1.step >= 4 /\ d2.step \in Nat /\ d2.step >= 4
      /\ d1.step = RoundOnePhaseZero \/ Phase(d1.step) = 2
      /\ d2.step = RoundOnePhaseZero \/ Phase(d2.step) = 2
  BY DecisionFacts DEF Evidence
<1>1. CASE d1.step = RoundOnePhaseZero /\ d2.step = RoundOnePhaseZero
  <2>1. FastEvidence(d1) /\ FastEvidence(d2)
    BY SMT, <1>1, DecisionFacts, PhaseFacts DEF Evidence, RoundOnePhaseZero
  <2>2. PICK Q1 \in Quorum : \A r \in Q1 : bound[r] = {{d1.proposer}}
    BY <2>1 DEF FastEvidence
  <2>3. PICK Q2 \in Quorum : \A r \in Q2 : bound[r] = {{d2.proposer}}
    BY <2>1 DEF FastEvidence
  <2>4. {{d1.proposer}} = {{d2.proposer}}
    BY <2>2, <2>3, Shared
  <2>5. {d1.proposer} = {d2.proposer}
    BY <2>4
  <2> QED BY <2>5
<1>2. CASE d1.step = d2.step /\ Phase(d1.step) = 2
  <2>1. PICK k1 \in sent, Q1 \in Quorum :
           /\ k1.step = d1.step /\ k1.prop.proposer = d1.proposer
           /\ \A r \in Q1 : \A y \in Agg(r, d1.step - 1) : KeyLeq(y, k1.prop)
    BY <1>2, SlowRequest
  <2>2. PICK k2 \in sent, Q2 \in Quorum :
           /\ k2.step = d1.step /\ k2.prop.proposer = d2.proposer
           /\ \A r \in Q2 : \A y \in Agg(r, d1.step - 1) : KeyLeq(y, k2.prop)
    BY <1>2, SlowRequest
  <2>3. KeyLeq(k1.prop, k2.prop) /\ KeyLeq(k2.prop, k1.prop)
    BY <1>2, <2>1, <2>2, SameRoundBelow
  <2> QED BY <2>1, <2>2, <2>3, KeyIdentifiesProposer
<1>3. CASE d1.step # d2.step
  <2>1. Phase(d2.step) = 2 /\ d2.step >= BindingStep(d1)
    BY SMT, <1>0, <1>3 DEF BindingStep, Phase, RoundOnePhaseZero
  <2>2. PICK k \in sent : k.step = d2.step /\ k.prop.proposer = d2.proposer
    BY <2>1, SlowRequest
  <2> QED BY <2>1, <2>2, Locked
<1> QED BY <1>0, <1>1, <1>2, <1>3, PhaseFacts DEF RoundOnePhaseZero

\* The invariant implies agreement: of two decisions the later was driven by a
\* proposer that carried a batch of the earlier one's proposer.
LEMMA InvariantAgreement == IInv => Agreement
<1> SUFFICES ASSUME IInv, NEW d1 \in AllDecisions, NEW d2 \in AllDecisions
             PROVE  /\ d1.proposer = d2.proposer
                    /\ d1.value = d2.value \/ ProposedTwo(d1.proposer)
  BY DEF Agreement
<1>1. d1.step \in Nat /\ d2.step \in Nat
  BY DecisionFacts
<1>2. d1.step <= d2.step \/ d2.step <= d1.step
  BY SMT, <1>1
<1>3. d1.proposer = d2.proposer
  BY <1>2, OrderedAgreement
<1>4. d1.value \in Proposed(d1.proposer) /\ d2.value \in Proposed(d2.proposer)
  BY DecisionFacts DEF Evidence
<1> QED BY <1>3, <1>4 DEF ProposedTwo

\* The invariant implies that a decision is carried by every later step.
LEMMA InvariantCarried == IInv => DecisionIsCarried
<1> SUFFICES ASSUME IInv, NEW d \in AllDecisions, NEW p \in Proposer,
                    step[p] >= BindingStep(d)
             PROVE  /\ proposal[p].proposer = d.proposer
                    /\ proposal[p].value = d.value \/ ProposedTwo(d.proposer)
  BY DEF DecisionIsCarried
<1>1. step[p] # 0 /\ step[p] \in Steps
  <2>1. d.step \in Nat
    BY DecisionFacts
  <2>2. BindingStep(d) \in Nat /\ BindingStep(d) > 0
    BY SMT, <2>1 DEF BindingStep
  <2>3. step[p] \in {0} \union Steps
    BY TypeFacts DEF IInv
  <2> QED BY SMT, <2>2, <2>3
<1>2. PICK k \in sent : k.step = step[p] /\ k.prop.proposer = proposal[p].proposer
  BY <1>1, CurrentOrigin
<1>3. proposal[p].proposer = d.proposer
  BY <1>2, Locked
<1>4. proposal[p].value \in Proposed(proposal[p].proposer) /\ d.value \in Proposed(d.proposer)
  BY <1>1, CurrentOrigin, DecisionFacts DEF Evidence, Sound
<1> QED BY <1>3, <1>4 DEF ProposedTwo

\* The invariant implies that a quorum shows the reserved priority of one
\* leader only, because recorders bind the slot to the first.
LEMMA InvariantReserved == IInv => ReservedPriorityIsUnique
<1> SUFFICES ASSUME IInv, NEW p \in Proposer, step[p] = RoundOnePhaseZero,
                    NEW R \in Collections(p),
                    NEW x \in Firsts({r \in R : r.step = step[p]}),
                    NEW y \in Firsts({r \in R : r.step = step[p]}),
                    x.priority = MaxPriority, y.priority = MaxPriority
             PROVE  x.proposer = y.proposer
  BY DEF ReservedPriorityIsUnique
<1>1. RoundOnePhaseZero \in 0 .. MaxStep
  BY SMT, StepAssumption DEF RoundOnePhaseZero
<1>2. ASSUME NEW z \in Firsts({r \in R : r.step = step[p]}), z.priority = MaxPriority
      PROVE  Leader[p] = {z.proposer}
  <2>1. PICK reply \in R : z \in reply.first /\ reply.step = RoundOnePhaseZero
    BY DEF Firsts
  <2>2. reply \in replies[p]
    BY CollectionFacts DEF IInv
  <2>3. /\ reply.recorder \in Recorder
        /\ z \in First(reply.recorder, RoundOnePhaseZero)
        /\ bound[reply.recorder] = {Leader[p]}
    BY <2>1, <2>2, ReplyFacts DEF IInv, ReplyInv
  <2>4. PICK k \in sent : /\ k.step = RoundOnePhaseZero /\ k.prop = z
                          /\ bound[reply.recorder] = {Leader[k.from]}
    BY SMT, <1>1, <2>3, RecordedOrigin
  <2>5. Leader[k.from] = {k.from} /\ z.proposer = k.from
    BY <1>2, <2>4 DEF IInv, KeyInv
  <2>6. Leader[p] = Leader[k.from]
    BY <2>3, <2>4
  <2> QED BY <2>5, <2>6
<1>3. {x.proposer} = {y.proposer}
  BY <1>2
<1> QED BY <1>3

\* Nothing a replica decided or retains is given up.
LEMMA DecisionsGrow == IInv /\ [Next]_vars => AllDecisions \subseteq AllDecisions'
<1> SUFFICES ASSUME IInv, [Next]_vars PROVE AllDecisions \subseteq AllDecisions'
  OBVIOUS
<1>0. TypeOK
  BY DEF IInv
<1>1. ASSUME NEW p \in Proposer, NEW d, decided[p] = {}, Decide(p, d)
      PROVE  known' = known /\ \A q \in Proposer : decided[q] \subseteq decided'[q]
  BY <1>0, <1>1 DEF Decide, recorderVars, TypeOK
<1>2. ASSUME NEW p \in Proposer, NEW R \in Collections(p), Continue(p, R)
      PROVE  known' = known /\ \A q \in Proposer : decided[q] \subseteq decided'[q]
  <2>1. decided[p] = {}
    <3>1. step[p] # 0
      BY SMT, Running, StepFacts
    <3> QED BY <3>1 DEF IInv, CallInv
  <2>2. CASE EntersLaterStep(p)
    BY <2>2 DEF EntersLaterStep, recorderVars
  <2> QED BY <1>1, <1>2, <2>1, <2>2, ContinueCases
<1>3. ASSUME NEW p \in Proposer, NEW r \in Recorder, InformDecision(p, r)
      PROVE  decided' = decided /\ \A q \in Recorder : known[q] \subseteq known'[q]
  BY <1>0, <1>3 DEF InformDecision, proposerVars, TypeOK
<1>4. /\ \A q \in Proposer : decided[q] \subseteq decided'[q]
      /\ \A q \in Recorder : known[q] \subseteq known'[q]
  <2>1. ASSUME NEW p \in Proposer, Propose(p) \/ GiveUp(p)
        PROVE  decided' = decided /\ known' = known
    BY <2>1 DEF Propose, GiveUp, recorderVars
  <2>2. ASSUME NEW m \in sent, Record(m) \/ ScheduleMismatch(m)
        PROVE  decided' = decided /\ known' = known
    BY <2>2 DEF Record, ScheduleMismatch, recorderVars
  <2>3. CASE UNCHANGED vars
    BY <2>3 DEF vars
  <2> QED BY <1>2, <1>3, <2>1, <2>2, <2>3 DEF Next
<1> QED BY <1>4 DEF AllDecisions

------------------------------------------------------------------------------
(* The theorems *)

\* The inductive invariant holds in every reachable state.
THEOREM Invariance == Spec => []IInv
BY InvariantInit, InvariantStep, PTL DEF Spec

\* Every variable of proposers and recorders keeps its type.
THEOREM TypeCorrect == Spec => []TypeOK
<1>1. IInv => TypeOK
  BY DEF IInv
<1> QED BY <1>1, Invariance, PTL

\* Agreement: all decisions of the slot credit one replica and carry one value,
\* unless that replica has proposed two batches for the slot.  For every quorum
\* system, schedule, priority draw, loss, delay, retry and restart, and whatever
\* batches the retries carry.
THEOREM AgreementHolds == Spec => []Agreement
BY InvariantAgreement, Invariance, PTL

\* A decision carries a batch that the replica it credits has proposed.
THEOREM Validity == Spec => []DecisionsAreProposed
<1>1. IInv => DecisionsAreProposed
  BY DecisionFacts DEF DecisionsAreProposed, Evidence
<1> QED BY <1>1, Invariance, PTL

\* Proposers past the deciding round carry a batch of the decided replica, the
\* decided one unless that replica has proposed two.
THEOREM CarriedForward == Spec => []DecisionIsCarried
BY InvariantCarried, Invariance, PTL

\* The gather phases never meet a quorum without a prior aggregate.
THEOREM GatherFinds == Spec => []GatherSeesPrior
BY GatherFindsPrior, Invariance, PTL

\* The reserved priority has one holder in every quorum of replies, whatever
\* schedules the proposers follow.
THEOREM ReservedUnique == Spec => []ReservedPriorityIsUnique
BY InvariantReserved, Invariance, PTL

\* Decisions stay well formed.
LEMMA DecisionsTyped ==
  ASSUME TypeOK'
  PROVE  \A d \in AllDecisions' : d \in Decision
<1>1. /\ \A p \in Proposer : decided'[p] \in Option(Decision)
      /\ \A r \in Recorder : known'[r] \in Option(Decision)
  BY DEF TypeOK
<1> QED BY SMT, <1>1 DEF AllDecisions, Option

\* No replica holds a decision before any propose call.
LEMMA NoDecisionYet == Init => AllDecisions = {}
BY DEF Init, AllDecisions

\* The protocol implements consensus on the replica whose batch the slot takes,
\* whatever batches the propose calls carry.
THEOREM Refinement == Spec => ImplementsConsensus
<1>1. Init => W!Init
  BY NoDecisionYet DEF W!Init, Winner
<1>2. IInv /\ IInv' /\ [Next]_vars => [W!Choose]_Winner
  <2> SUFFICES ASSUME IInv, IInv', [Next]_vars, Winner' # Winner
               PROVE  W!Choose
    OBVIOUS
  <2>1. AllDecisions \subseteq AllDecisions'
    BY DecisionsGrow
  <2>2. Winner \subseteq Winner'
    BY <2>1 DEF Winner
  <2>3. Agreement'
    BY InvariantAgreement, PTL
  <2>4. \A v, w \in Winner' : v = w
    BY <2>3 DEF Agreement, Winner
  <2>5. PICK v \in Winner' : v \notin Winner
    BY <2>2
  <2>6. Winner' = {v} /\ Winner = {}
    BY <2>2, <2>4, <2>5
  <2>7. v \in Proposer
    BY <2>5, DecisionsTyped DEF Winner, Decision, IInv
  <2> QED BY <2>6, <2>7 DEF W!Choose
<1> QED BY <1>1, <1>2, Invariance, PTL DEF Spec, ImplementsConsensus, W!Spec

\* A replica makes the propose calls its bound allows, and no more.
Bounded == \A p \in Proposer : attempt[p] <= MaxAttempts[p]

\* No replica has made a call at first.
LEMMA BoundedInit == Init => Bounded
BY SMT, AttemptsAssumption DEF Init, Bounded

\* Only Propose makes a call, below the bound.
LEMMA BoundedStep == IInv /\ Bounded /\ [Next]_vars => Bounded'
<1> SUFFICES ASSUME IInv, Bounded, [Next]_vars PROVE Bounded'
  OBVIOUS
<1>1. ASSUME NEW p \in Proposer, Propose(p) PROVE Bounded'
  <2>1. /\ attempt \in [Proposer -> Nat] /\ attempt' = [attempt EXCEPT ![p] = @ + 1]
        /\ attempt[p] < MaxAttempts[p]
    BY <1>1 DEF IInv, TypeOK, Propose
  <2>2. \A q \in Proposer : /\ attempt[q] \in Nat /\ MaxAttempts[q] \in Nat
                            /\ attempt[q] <= MaxAttempts[q]
                            /\ attempt'[q] = IF q = p THEN attempt[q] + 1 ELSE attempt[q]
    BY <2>1, AttemptsAssumption DEF Bounded
  <2>3. \A q \in Proposer : attempt'[q] <= MaxAttempts[q]
    BY SMT, <2>1, <2>2
  <2> QED BY <2>3 DEF Bounded
<1>2. ASSUME NEW p \in Proposer, NEW R \in Collections(p), Continue(p, R)
      PROVE  attempt' = attempt
  BY <1>2 DEF Continue, AdoptDecision, FastPath, PhaseZero, PhaseOne, PhaseTwoDecide, PhaseTwo,
              PhaseThree, CatchUp, Decide, Advance
<1>3. ASSUME NEW m \in sent, Record(m) \/ ScheduleMismatch(m) PROVE attempt' = attempt
  BY <1>3 DEF Record, ScheduleMismatch
<1>4. ASSUME NEW p \in Proposer, GiveUp(p) PROVE attempt' = attempt
  BY <1>4 DEF GiveUp
<1>5. ASSUME NEW p \in Proposer, NEW r \in Recorder, InformDecision(p, r)
      PROVE  attempt' = attempt
  BY <1>5 DEF InformDecision, proposerVars
<1>6. CASE attempt' = attempt
  BY <1>6 DEF Bounded
<1>7. CASE UNCHANGED vars
  BY <1>6, <1>7 DEF vars
<1> QED BY <1>1, <1>2, <1>3, <1>4, <1>5, <1>6, <1>7 DEF Next

\* With one batch per replica no replica ever proposes two.
LEMMA OneBatchEach ==
  OneBatch /\ TypeOK /\ Bounded => \A p \in Proposer : ~ProposedTwo(p)
<1> SUFFICES ASSUME OneBatch, TypeOK, Bounded, NEW p \in Proposer
             PROVE  ~ProposedTwo(p)
  OBVIOUS
<1>1. attempt[p] \in Nat /\ MaxAttempts[p] \in Nat /\ attempt[p] <= MaxAttempts[p]
  BY AttemptsAssumption DEF TypeOK, Bounded
<1>2. \A a \in 1 .. attempt[p] : a \in 1 .. MaxAttempts[p]
  BY SMT, <1>1
<1> QED BY <1>2 DEF ProposedTwo, Proposed, OneBatch

\* The protocol implements consensus on the batch itself, when every replica
\* proposes the same batch in all its calls for the slot.
THEOREM BatchConsensus == Spec => ChoosesOneBatch
<1> SUFFICES ASSUME OneBatch PROVE Spec => C!Spec
  BY DEF ChoosesOneBatch
<1>1. Spec => []Bounded
  BY BoundedInit, BoundedStep, Invariance, PTL DEF Spec
<1>2. Init => C!Init
  BY NoDecisionYet DEF C!Init, Chosen
<1>3. IInv /\ IInv' /\ Bounded' /\ [Next]_vars => [C!Choose]_Chosen
  <2> SUFFICES ASSUME IInv, IInv', Bounded', [Next]_vars, Chosen' # Chosen
               PROVE  C!Choose
    OBVIOUS
  <2>1. AllDecisions \subseteq AllDecisions'
    BY DecisionsGrow
  <2>2. Chosen \subseteq Chosen'
    BY <2>1 DEF Chosen
  <2>3. Agreement' /\ TypeOK'
    BY InvariantAgreement, PTL DEF IInv
  <2>4. (\A p \in Proposer : ~ProposedTwo(p))'
    BY <2>3, OneBatchEach, PTL
  <2>5. \A d \in AllDecisions' : d.value \in Value /\ d.proposer \in Proposer
    BY <2>3, DecisionsTyped DEF Decision
  <2>6. \A v, w \in Chosen' : v = w
    BY <2>3, <2>4, <2>5 DEF Agreement, Chosen
  <2>7. PICK v \in Chosen' : v \notin Chosen
    BY <2>2
  <2>8. Chosen' = {v} /\ Chosen = {} /\ v \in Value
    BY <2>2, <2>5, <2>6, <2>7 DEF Chosen
  <2> QED BY <2>8 DEF C!Choose
<1> QED BY <1>1, <1>2, <1>3, Invariance, PTL DEF Spec, C!Spec

------------------------------------------------------------------------------
(* The register *)

RegisterState ==
  [step : {InitialStep} \union CallSteps, first : AtMostOne(CallProposal),
   current : AtMostOne(CallProposal), prior : AtMostOne(CallProposal)]

\* A call at s with x has been taken into account by the register g.
Covered(g, s, x) ==
  \/ s < g.step
  \/ s = g.step /\ g.first # {} /\ \E c \in g.current : KeyLeq(x, c)

AllCovered == \A i \in 1 .. Len(calls) : Covered(register, calls[i][1], calls[i][2])

CoverInv == RegisterTypeOK /\ AllCovered

\* The steps of the calls are numbers.
LEMMA StepNumbers == InitialStep = 0 /\ \A s \in {InitialStep} \union CallSteps : s \in Nat
BY SMT, MaxCallStepAssumption DEF CallSteps, RoundOnePhaseZero, InitialStep

\* The fields of a register have the types of IntervalSummaryRegister.
LEMMA RegisterFields ==
  ASSUME NEW g \in RegisterState
  PROVE  /\ g.step \in {InitialStep} \union CallSteps /\ g.step \in Nat
         /\ g.first \in AtMostOne(CallProposal) /\ g.current \in AtMostOne(CallProposal)
         /\ g.prior \in AtMostOne(CallProposal)
         /\ g = [step |-> g.step, first |-> g.first, current |-> g.current, prior |-> g.prior]
<1>1. /\ g.step \in {InitialStep} \union CallSteps
      /\ g.first \in AtMostOne(CallProposal) /\ g.current \in AtMostOne(CallProposal)
      /\ g.prior \in AtMostOne(CallProposal)
  BY DEF RegisterState
<1>2. g = [step |-> g.step, first |-> g.first, current |-> g.current, prior |-> g.prior]
  BY DEF RegisterState
<1> QED BY <1>1, <1>2, StepNumbers

\* The order of keys is reflexive, transitive and total (ProposalKey).
LEMMA KeyOrder ==
  ASSUME NEW x \in CallProposal, NEW y \in CallProposal, NEW z \in CallProposal
  PROVE  /\ KeyLeq(x, x)
         /\ KeyLeq(x, y) \/ KeyLeq(y, x)
         /\ KeyLeq(x, y) /\ KeyLeq(y, z) => KeyLeq(x, z)
<1>1. /\ x.priority \in Nat /\ x.proposer \in Nat
      /\ y.priority \in Nat /\ y.proposer \in Nat
      /\ z.priority \in Nat /\ z.proposer \in Nat
  BY CallProposalAssumption
<1> QED BY SMT, <1>1 DEF KeyLeq

\* best_proposal returns a proposal at least as large as both arguments.
LEMMA BestFacts ==
  ASSUME NEW current \in AtMostOne(CallProposal), NEW x \in CallProposal
  PROVE  /\ BestProposal(current, x) \in AtMostOne(CallProposal)
         /\ \E c \in BestProposal(current, x) : KeyLeq(x, c)
         /\ \A y \in current : \E c \in BestProposal(current, x) : KeyLeq(y, c)
<1>1. CASE \E c \in current : KeyLeq(x, c)
  <2>1. BestProposal(current, x) = current
    BY <1>1 DEF BestProposal
  <2>2. \A y \in current : y \in CallProposal
    BY DEF AtMostOne
  <2>3. \A y \in current : KeyLeq(y, y)
    BY <2>2, KeyOrder
  <2> QED BY <1>1, <2>1, <2>3
<1>2. CASE ~\E c \in current : KeyLeq(x, c)
  <2>1. BestProposal(current, x) = {x}
    BY <1>2 DEF BestProposal
  <2>2. \A y \in current : y \in CallProposal
    BY DEF AtMostOne
  <2>3. \A y \in current : KeyLeq(y, x)
    BY <1>2, <2>2, KeyOrder
  <2>4. KeyLeq(x, x)
    BY KeyOrder
  <2> QED BY <2>1, <2>3, <2>4 DEF AtMostOne
<1> QED BY <1>1, <1>2

\* record keeps the types, moves forward, and covers its call.
LEMMA RecordFacts ==
  ASSUME NEW g \in RegisterState, NEW s \in CallSteps, NEW x \in CallProposal,
         NEW h, h = RecordISR(g, s, x)
  PROVE  /\ h \in RegisterState
         /\ h.step >= g.step
         /\ h.step = g.step =>
              /\ h.prior = g.prior
              /\ g.first # {} => h.first = g.first
              /\ \A y \in g.current : \E c \in h.current : KeyLeq(y, c)
         /\ Covered(h, s, x)
<1>1. s \in Nat /\ g.step \in Nat
  BY RegisterFields, StepNumbers
<1>2. /\ g.first \in AtMostOne(CallProposal) /\ g.current \in AtMostOne(CallProposal)
      /\ g.prior \in AtMostOne(CallProposal) /\ g.step \in {InitialStep} \union CallSteps
  BY RegisterFields
<1>3. CASE s = g.step
  <2>1. /\ h.step = g.step /\ h.prior = g.prior
        /\ h.first = (IF g.first = {} THEN {x} ELSE g.first)
        /\ h.current = BestProposal(g.current, x)
        /\ h = RecordSameStep(g, x)
    BY SMT, <1>1, <1>3 DEF RecordISR, RecordSameStep
  <2>2. h.first \in AtMostOne(CallProposal) /\ h.first # {}
    BY <1>2, <2>1 DEF AtMostOne
  <2>3. h \in RegisterState
    BY <1>2, <2>1, <2>2, BestFacts DEF RecordSameStep, RegisterState
  <2>4. /\ \E c \in h.current : KeyLeq(x, c)
        /\ \A y \in g.current : \E c \in h.current : KeyLeq(y, c)
    BY <1>2, <2>1, BestFacts
  <2> QED BY SMT, <1>1, <1>3, <2>1, <2>2, <2>3, <2>4 DEF Covered
<1>4. CASE s > g.step
  <2>1. /\ h.step = s /\ h.first = {x} /\ h.current = {x}
        /\ h = RecordLaterStep(g, s, x)
    BY SMT, <1>1, <1>4 DEF RecordISR, RecordLaterStep
  <2>2. {x} \in AtMostOne(CallProposal) /\ {} \in AtMostOne(CallProposal)
    BY DEF AtMostOne
  <2>3. h \in RegisterState
    BY SMT, <1>2, <2>1, <2>2 DEF RecordLaterStep, RegisterState
  <2>4. Covered(h, s, x)
    BY <2>1, KeyOrder DEF Covered
  <2> QED BY SMT, <1>1, <1>4, <2>1, <2>3, <2>4
<1>5. CASE s < g.step
  <2>1. h = g
    BY SMT, <1>1, <1>5 DEF RecordISR
  <2>2. \A y \in g.current : y \in CallProposal
    BY <1>2 DEF AtMostOne
  <2>3. \A y \in g.current : KeyLeq(y, y)
    BY <2>2, KeyOrder
  <2> QED BY SMT, <1>1, <1>5, <2>1, <2>3 DEF Covered
<1> QED BY SMT, <1>1, <1>3, <1>4, <1>5

\* A covered call stays covered: later record calls cannot uncover it.
LEMMA StaysCovered ==
  ASSUME NEW g \in RegisterState, NEW s \in CallSteps, NEW x \in CallProposal,
         NEW t \in CallSteps, NEW y \in CallProposal, Covered(g, t, y)
  PROVE  Covered(RecordISR(g, s, x), t, y)
<1>0. PICK h : h = RecordISR(g, s, x)
  OBVIOUS
<1>1. t \in Nat /\ g.step \in Nat /\ h \in RegisterState /\ h.step \in Nat
  BY <1>0, RegisterFields, RecordFacts, StepNumbers
<1>2. h.step >= g.step
  BY <1>0, RecordFacts
<1>3. CASE t < h.step
  BY <1>0, <1>3 DEF Covered
<1>4. CASE ~(t < h.step)
  <2>1. t = g.step /\ h.step = g.step
    BY SMT, <1>1, <1>2, <1>4 DEF Covered
  <2>2. g.first # {} /\ \E c \in g.current : KeyLeq(y, c)
    BY SMT, <1>1, <2>1 DEF Covered
  <2>3. PICK c \in g.current : KeyLeq(y, c)
    BY <2>2
  <2>4. /\ h.first = g.first
        /\ \E d \in h.current : KeyLeq(c, d)
    BY SMTT(20), <1>0, <2>1, <2>2, <2>3, RecordFacts
  <2>5. PICK d \in h.current : KeyLeq(c, d)
    BY <2>4
  <2>6. c \in CallProposal /\ d \in CallProposal
    BY SMT, <1>1, RegisterFields DEF AtMostOne
  <2>7. KeyLeq(y, d)
    BY <2>3, <2>5, <2>6, KeyOrder
  <2> QED BY <1>0, <2>1, <2>2, <2>4, <2>7 DEF Covered
<1> QED BY <1>3, <1>4

\* Repeating a covered call leaves the register as it is.
LEMMA CoveredIsNoop ==
  ASSUME NEW g \in RegisterState, NEW s \in CallSteps, NEW x \in CallProposal, Covered(g, s, x)
  PROVE  RecordISR(g, s, x) = g
<1>1. s \in Nat /\ g.step \in Nat
  BY RegisterFields, StepNumbers
<1>2. CASE s < g.step
  BY SMT, <1>1, <1>2 DEF RecordISR
<1>3. CASE s = g.step
  <2>1. g.first # {} /\ BestProposal(g.current, x) = g.current
    BY SMT, <1>1, <1>3 DEF Covered, BestProposal
  <2>2. RecordISR(g, s, x) =
          [step |-> g.step, first |-> g.first, current |-> g.current, prior |-> g.prior]
    BY SMT, <1>1, <1>3, <2>1 DEF RecordISR, RecordSameStep
  <2> QED BY <2>2, RegisterFields
<1> QED BY <1>1, <1>2, <1>3 DEF Covered

\* The call that was just made is the last of the history.
LEMMA HistoryGrows ==
  ASSUME RegisterTypeOK, NEW s \in CallSteps, NEW x \in CallProposal, calls' = Append(calls, <<s, x>>)
  PROVE  /\ calls' \in Seq(CallSteps \X CallProposal)
         /\ \A i \in 1 .. Len(calls') : \/ i \in 1 .. Len(calls) /\ calls'[i] = calls[i]
                                        \/ calls'[i] = <<s, x>>
         /\ \A i \in 1 .. Len(calls) : calls[i][1] \in CallSteps /\ calls[i][2] \in CallProposal
<1>1. calls \in Seq(CallSteps \X CallProposal) /\ <<s, x>> \in CallSteps \X CallProposal
  BY DEF RegisterTypeOK
<1>2. \A i \in 1 .. Len(calls) : calls[i] \in CallSteps \X CallProposal
  BY SMT, <1>1
<1> QED BY SMT, <1>1, <1>2

\* The invariant holds for a register that was never called.
LEMMA CoverInit == RegisterInit => CoverInv
BY SMT DEF RegisterInit, CoverInv, RegisterTypeOK, AllCovered, EmptyRegister, InitialStep, AtMostOne

\* A record call preserves the invariant.
LEMMA CoverNext ==
  ASSUME CoverInv, NEW s \in CallSteps, NEW x \in CallProposal, RecordCall(s, x)
  PROVE  CoverInv'
<1>1. register \in RegisterState /\ AllCovered /\ RegisterTypeOK
  BY DEF CoverInv, RegisterTypeOK, RegisterState
<1>2. register' = RecordISR(register, s, x) /\ calls' = Append(calls, <<s, x>>)
  BY DEF RecordCall
<1>3. register' \in RegisterState /\ Covered(register', s, x)
  BY <1>1, <1>2, RecordFacts
<1>4. /\ calls' \in Seq(CallSteps \X CallProposal)
      /\ \A i \in 1 .. Len(calls') : \/ i \in 1 .. Len(calls) /\ calls'[i] = calls[i]
                                     \/ calls'[i] = <<s, x>>
      /\ \A i \in 1 .. Len(calls) : calls[i][1] \in CallSteps /\ calls[i][2] \in CallProposal
  BY <1>1, <1>2, HistoryGrows
<1>5. \A i \in 1 .. Len(calls) : Covered(register', calls[i][1], calls[i][2])
  BY <1>1, <1>2, <1>4, StaysCovered DEF AllCovered
<1>6. \A i \in 1 .. Len(calls') : Covered(register', calls'[i][1], calls'[i][2])
  BY SMT, <1>3, <1>4, <1>5
<1> QED BY <1>3, <1>4, <1>6 DEF CoverInv, RegisterTypeOK, AllCovered, RegisterState

------------------------------------------------------------------------------
(* Theorems *)

\* The register covers every call ever made.
THEOREM RegisterCovers == RegisterSpec => []CoverInv
<1>1. CoverInv /\ [RegisterNext]_registerVars => CoverInv'
  <2> SUFFICES ASSUME CoverInv, [RegisterNext]_registerVars PROVE CoverInv'
    OBVIOUS
  <2>1. CASE RegisterNext
    BY <2>1, CoverNext DEF RegisterNext
  <2>2. CASE UNCHANGED registerVars
    BY <2>2 DEF registerVars, CoverInv, RegisterTypeOK, AllCovered
  <2> QED BY <2>1, <2>2
<1> QED BY <1>1, CoverInit, PTL DEF RegisterSpec

\* A record request that is delivered again, at any time, has no effect: what
\* retries and the worker threads that outlive their quorum rely on.
THEOREM Idempotence == RegisterSpec => []DuplicatesAreHarmless
<1>1. CoverInv => DuplicatesAreHarmless
  <2> SUFFICES ASSUME CoverInv, NEW i \in 1 .. Len(calls)
               PROVE  RecordISR(register, calls[i][1], calls[i][2]) = register
    BY DEF DuplicatesAreHarmless
  <2>1. register \in RegisterState /\ Covered(register, calls[i][1], calls[i][2])
    BY DEF CoverInv, RegisterTypeOK, AllCovered, RegisterState
  <2>2. calls \in Seq(CallSteps \X CallProposal)
    BY DEF CoverInv, RegisterTypeOK
  <2>3. calls[i] \in CallSteps \X CallProposal
    BY SMT, <2>2
  <2>4. calls[i][1] \in CallSteps /\ calls[i][2] \in CallProposal
    BY <2>3
  <2> QED BY <2>1, <2>4, CoveredIsNoop
<1> QED BY <1>1, RegisterCovers, PTL

\* A register never goes back, keeps what it saw first at its step, and its
\* aggregate only grows while it stays there.
THEOREM RegisterForward == RegisterSpec => OnlyForward
<1>1. CoverInv /\ [RegisterNext]_registerVars =>
        [/\ register'.step >= register.step
         /\ register'.step = register.step =>
              /\ register'.prior = register.prior
              /\ register.first # {} => register'.first = register.first
              /\ \A x \in register.current : \E y \in register'.current : KeyLeq(x, y)]_registerVars
  <2> SUFFICES ASSUME CoverInv, NEW s \in CallSteps, NEW x \in CallProposal, RecordCall(s, x)
               PROVE  /\ register'.step >= register.step
                      /\ register'.step = register.step =>
                           /\ register'.prior = register.prior
                           /\ register.first # {} => register'.first = register.first
                           /\ \A y \in register.current : \E z \in register'.current : KeyLeq(y, z)
    BY DEF RegisterNext
  <2>1. register \in RegisterState /\ register' = RecordISR(register, s, x)
    BY DEF CoverInv, RegisterTypeOK, RegisterState, RecordCall
  <2> QED BY SMT, <2>1, RecordFacts
<1> QED BY <1>1, RegisterCovers, PTL DEF RegisterSpec, OnlyForward

------------------------------------------------------------------------------
(* The register summarises its history *)

\* The proposals of the calls of q at step s among the first n.
At(q, s, n) == {q[i][2] : i \in {j \in 1 .. n : q[j][1] = s}}

\* Call k of q was the first at the step of g, and g is what the n calls of q
\* leave: no call was at a later step, first is the proposal of call k,
\* current the largest proposal at the step and prior the largest one at the
\* step before among the calls before k.
Summarises(g, q, n, k) ==
  /\ k \in 1 .. n /\ q[k][1] = g.step
  /\ \A i \in 1 .. n : q[i][1] <= g.step
  /\ \A i \in 1 .. n : i < k => q[i][1] < g.step
  /\ g.first = {q[k][2]}
  /\ g.current # {} /\ g.current = MaxByKey(At(q, g.step, n))
  /\ g.prior = MaxByKey(At(q, g.step - 1, k - 1))

HistoryInv ==
  /\ RegisterTypeOK
  /\ IF calls = << >> THEN register = EmptyRegister ELSE \E k : Summarises(register, calls, Len(calls), k)

\* best_proposal keeps a largest proposal the largest.
LEMMA BestIsMax ==
  ASSUME NEW P, P \subseteq CallProposal, NEW x \in CallProposal, MaxByKey(P) # {}
  PROVE  /\ BestProposal(MaxByKey(P), x) = MaxByKey(P \union {x})
         /\ MaxByKey(P \union {x}) # {}
<1>1. PICK c \in MaxByKey(P) : TRUE
  OBVIOUS
<1>2. c \in P /\ c \in CallProposal /\ \A y \in P : KeyLeq(y, c)
  BY <1>1 DEF MaxByKey
<1>3. \A y \in CallProposal, z \in CallProposal : KeyLeq(y, z) /\ KeyLeq(z, y) => y = z
  BY SMT, CallProposalAssumption DEF KeyLeq, SameKey
<1>4. MaxByKey(P) = {c}
  BY <1>1, <1>2, <1>3 DEF MaxByKey
<1>5. CASE KeyLeq(x, c)
  <2>1. BestProposal(MaxByKey(P), x) = {c}
    BY <1>4, <1>5 DEF BestProposal
  <2>2. MaxByKey(P \union {x}) = {c}
    BY <1>2, <1>3, <1>5 DEF MaxByKey
  <2> QED BY <2>1, <2>2
<1>6. CASE ~KeyLeq(x, c)
  <2>1. BestProposal(MaxByKey(P), x) = {x}
    BY <1>4, <1>6 DEF BestProposal
  <2>2. KeyLeq(x, x) /\ \A y \in P : KeyLeq(y, x)
    BY <1>2, <1>6, KeyOrder
  <2>3. \A y \in P : ~KeyLeq(x, y)
    BY <1>2, <1>6, KeyOrder
  <2>4. MaxByKey(P \union {x}) = {x}
    BY <2>2, <2>3 DEF MaxByKey
  <2> QED BY <2>1, <2>4
<1> QED BY <1>5, <1>6

\* A history q2 of one more call than the n calls of q, and its proposals.
Extends(q, n, q2, s, x) ==
  /\ q2[n + 1][1] = s /\ q2[n + 1][2] = x
  /\ \A i \in 1 .. n : q2[i] = q[i] /\ q[i][1] \in Nat
  /\ \A t : \A m \in 0 .. n : At(q2, t, m) = At(q, t, m) /\ At(q, t, m) \subseteq CallProposal
  /\ \A t : At(q2, t, n + 1) = IF t = s THEN At(q, t, n) \union {x} ELSE At(q, t, n)

\* A longer history has the earlier records and the new one.
LEMMA AppendExtends ==
  ASSUME NEW q \in Seq(CallSteps \X CallProposal), NEW s \in CallSteps, NEW x \in CallProposal,
         NEW q2, q2 = Append(q, <<s, x>>)
  PROVE  Len(q2) = Len(q) + 1 /\ Len(q) \in Nat /\ Extends(q, Len(q), q2, s, x)
<1>1. /\ Len(q2) = Len(q) + 1 /\ Len(q) \in Nat /\ q2[Len(q) + 1] = <<s, x>>
      /\ \A i \in 1 .. Len(q) : q2[i] = q[i] /\ q[i] \in CallSteps \X CallProposal
  BY SMT
<1>2. \A i \in 1 .. Len(q) : q[i][1] \in CallSteps /\ q[i][2] \in CallProposal
  BY <1>1
<1>3. \A i \in 1 .. Len(q) : q[i][1] \in Nat
  BY <1>2, StepNumbers
<1>4. ASSUME NEW t, NEW n \in 0 .. Len(q)
      PROVE  At(q2, t, n) = At(q, t, n) /\ At(q, t, n) \subseteq CallProposal
  <2>1. \A i \in 1 .. n : i \in 1 .. Len(q)
    BY SMT, <1>1
  <2> QED BY SMT, <1>1, <1>2, <2>1 DEF At
<1>5. q2[Len(q) + 1][1] = s /\ q2[Len(q) + 1][2] = x
  BY SMT, <1>1
<1>6. ASSUME NEW t
      PROVE  At(q2, t, Len(q) + 1) = IF t = s THEN At(q, t, Len(q)) \union {x} ELSE At(q, t, Len(q))
  <2>1. 1 .. Len(q) + 1 = (1 .. Len(q)) \union {Len(q) + 1} /\ Len(q) + 1 \notin 1 .. Len(q)
    BY SMT, <1>1
  <2>2. ASSUME NEW y PROVE y \in At(q2, t, Len(q) + 1) <=> (y \in At(q, t, Len(q)) \/ (t = s /\ y = x))
    BY SMT, <1>1, <1>5, <2>1 DEF At
  <2>3. CASE t = s
    BY <2>2, <2>3
  <2>4. CASE t # s
    BY <2>2, <2>4
  <2> QED BY <2>3, <2>4
<1> QED BY <1>1, <1>3, <1>4, <1>5, <1>6 DEF Extends

\* The first call of all.
LEMMA FirstSummary ==
  ASSUME NEW q \in Seq(CallSteps \X CallProposal), q = << >>, NEW s \in CallSteps, NEW x \in CallProposal,
         NEW q2, q2 = Append(q, <<s, x>>)
  PROVE  Summarises(RecordISR(EmptyRegister, s, x), q2, Len(q2), 1)
<1>1. s \in Nat /\ s >= 4 /\ EmptyRegister.step = 0
  BY SMT, StepNumbers, MaxCallStepAssumption DEF CallSteps, RoundOnePhaseZero, EmptyRegister
<1>2. PICK h : h = RecordISR(EmptyRegister, s, x)
  OBVIOUS
<1>3. /\ h.step = s /\ h.first = {x} /\ h.current = {x} /\ h.prior = {}
  BY SMT, <1>1, <1>2 DEF RecordISR, RecordLaterStep
<1>4. Len(q) = 0 /\ Len(q2) = 1 /\ q2[1] = <<s, x>> /\ q2[1][1] = s /\ q2[1][2] = x
  BY SMT
<1>5. \A i \in 1 .. Len(q2) : i = 1
  BY SMT, <1>4
<1>6. At(q2, s, 1) = {x} /\ At(q2, s - 1, 0) = {}
  BY SMT, <1>4, <1>5 DEF At
<1>7. MaxByKey({x}) = {x} /\ MaxByKey({}) = {}
  BY KeyOrder DEF MaxByKey
<1>8. /\ 1 \in 1 .. 1 /\ \A i \in 1 .. 1 : i = 1 /\ ~(i < 1)
      /\ s <= s /\ 1 - 1 = 0
  BY SMT, <1>1
<1>9. Summarises(h, q2, 1, 1)
  BY ONLY <1>3, <1>4, <1>6, <1>7, <1>8 DEF Summarises
<1> QED BY <1>2, <1>4, <1>9

\* Every further call.
LEMMA NextSummary ==
  ASSUME NEW g \in RegisterState, NEW q, NEW n \in Nat, NEW k, Summarises(g, q, n, k),
         NEW s \in CallSteps, NEW x \in CallProposal, NEW q2, Extends(q, n, q2, s, x)
  PROVE  \E k2 : Summarises(RecordISR(g, s, x), q2, n + 1, k2)
<1>0. /\ q2[n + 1][1] = s /\ q2[n + 1][2] = x
      /\ \A i \in 1 .. n : q2[i] = q[i] /\ q[i][1] \in Nat
      /\ \A t : \A m \in 0 .. n : At(q2, t, m) = At(q, t, m) /\ At(q, t, m) \subseteq CallProposal
      /\ \A t : At(q2, t, n + 1) = IF t = s THEN At(q, t, n) \union {x} ELSE At(q, t, n)
  BY DEF Extends
<1>1. /\ k \in 1 .. n /\ q[k][1] = g.step
      /\ \A i \in 1 .. n : q[i][1] <= g.step
      /\ \A i \in 1 .. n : i < k => q[i][1] < g.step
      /\ g.first = {q[k][2]}
      /\ g.current # {} /\ g.current = MaxByKey(At(q, g.step, n))
      /\ g.prior = MaxByKey(At(q, g.step - 1, k - 1))
  BY DEF Summarises
<1>2. /\ s \in Nat /\ g.step \in Nat /\ k \in Nat /\ k \in 1 .. n + 1 /\ k - 1 \in 0 .. n
      /\ n \in 0 .. n /\ n + 1 \in 1 .. n + 1
      /\ \A i \in 1 .. n + 1 : i \in Nat /\ (i \in 1 .. n \/ i = n + 1)
  BY SMT, <1>0, <1>1, RegisterFields, StepNumbers
<1>3. PICK h : h = RecordISR(g, s, x)
  OBVIOUS
<1>4. CASE s < g.step
  <2>1. h = g
    BY SMT, <1>2, <1>3, <1>4 DEF RecordISR
  <2>2. At(q2, g.step, n + 1) = At(q, g.step, n) /\ At(q2, g.step - 1, k - 1) = At(q, g.step - 1, k - 1)
    <3>1. g.step # s
      BY SMTT(20), <1>2, <1>4
    <3> QED BY <1>0, <1>2, <3>1
  <2>3. \A i \in 1 .. n + 1 : q2[i][1] <= g.step /\ (i < k => q2[i][1] < g.step)
    BY SMT, <1>0, <1>1, <1>2, <1>4
  <2>4. q2[k] = q[k]
    BY <1>0, <1>1
  <2>5. Summarises(h, q2, n + 1, k)
    BY <1>0, <1>1, <1>2, <2>1, <2>2, <2>3, <2>4 DEF Summarises
  <2> QED BY <1>3, <2>5
<1>5. CASE s = g.step
  <2>1. /\ h.step = g.step /\ h.prior = g.prior /\ h.first = g.first
        /\ h.current = BestProposal(g.current, x)
    <3>1. g.first # {}
      BY <1>1
    <3>2. h = RecordSameStep(g, x)
      BY SMT, <1>2, <1>3, <1>5 DEF RecordISR
    <3> QED BY <3>1, <3>2 DEF RecordSameStep
  <2>2. /\ At(q2, g.step, n + 1) = At(q, g.step, n) \union {x}
        /\ At(q2, g.step - 1, k - 1) = At(q, g.step - 1, k - 1)
        /\ At(q, g.step, n) \subseteq CallProposal
    BY <1>0, <1>2, <1>5
  <2>3. \A i \in 1 .. n + 1 : q2[i][1] <= g.step /\ (i < k => q2[i][1] < g.step)
    <3>1. ASSUME NEW i \in 1 .. n PROVE q2[i][1] <= g.step /\ (i < k => q2[i][1] < g.step)
      BY <1>0, <1>1
    <3>2. g.step <= g.step /\ ~(n + 1 < k)
      BY ONLY SMT, n \in Nat, <1>2
    <3> QED BY <1>0, <1>2, <1>5, <3>1, <3>2
  <2>4. q2[k] = q[k]
    BY <1>0, <1>1
  <2>5. h.current = MaxByKey(At(q2, g.step, n + 1)) /\ h.current # {}
    <3>1. PICK P : P = At(q, g.step, n)
      OBVIOUS
    <3>2. /\ P \subseteq CallProposal /\ MaxByKey(P) # {} /\ g.current = MaxByKey(P)
          /\ At(q2, g.step, n + 1) = P \union {x}
      BY <1>1, <2>2, <3>1
    <3>3. /\ BestProposal(MaxByKey(P), x) = MaxByKey(P \union {x})
          /\ MaxByKey(P \union {x}) # {}
      BY ONLY Zenon, x \in CallProposal, <3>2, BestIsMax
    <3> QED BY <2>1, <3>2, <3>3
  <2>6. Summarises(h, q2, n + 1, k)
    BY <1>0, <1>1, <1>2, <2>1, <2>2, <2>3, <2>4, <2>5 DEF Summarises
  <2> QED BY <1>3, <2>6
<1>6. CASE s > g.step
  <2>1. /\ h.step = s /\ h.first = {x} /\ h.current = {x}
        /\ h.prior = IF s = g.step + 1 THEN g.current ELSE {}
    BY SMTT(20), <1>2, <1>3, <1>6 DEF RecordISR, RecordLaterStep
  <2>2. At(q, s, n) = {}
    <3>1. ASSUME NEW i \in 1 .. n PROVE q[i][1] # s
      <4>1. PICK a : a = q[i][1]
        OBVIOUS
      <4>2. a \in Nat /\ a <= g.step
        BY <1>0, <1>1, <4>1
      <4>3. a # s
        BY ONLY SMT, <1>2, <1>6, <4>2
      <4> QED BY <4>1, <4>3
    <3> QED BY <3>1 DEF At
  <2>3. At(q2, s, n + 1) = {x} /\ At(q2, s - 1, n) = At(q, s - 1, n)
    BY <1>0, <1>2, <2>2
  <2>4. MaxByKey({x}) = {x} /\ MaxByKey({}) = {}
    BY KeyOrder DEF MaxByKey
  <2>5. h.prior = MaxByKey(At(q2, s - 1, n))
    <3>1. CASE s = g.step + 1
      <4>1. s - 1 = g.step
        BY SMT, <1>2, <3>1
      <4> QED BY <1>1, <2>1, <2>3, <3>1, <4>1
    <3>2. CASE s # g.step + 1
      <4>1. At(q, s - 1, n) = {}
        <5>1. ASSUME NEW i \in 1 .. n PROVE q[i][1] # s - 1
          <6>1. PICK a : a = q[i][1]
            OBVIOUS
          <6>2. a \in Nat /\ a <= g.step
            BY <1>0, <1>1, <6>1
          <6>3. a # s - 1
            BY ONLY SMT, <1>2, <1>6, <3>2, <6>2
          <6> QED BY <6>1, <6>3
        <5> QED BY <5>1 DEF At
      <4> QED BY <2>1, <2>3, <2>4, <3>2, <4>1
    <3> QED BY <3>1, <3>2
  <2>6. \A i \in 1 .. n + 1 : q2[i][1] <= s /\ (i < n + 1 => q2[i][1] < s)
    <3>1. ASSUME NEW i \in 1 .. n PROVE q2[i][1] <= s /\ q2[i][1] < s
      <4>1. PICK a : a = q2[i][1]
        OBVIOUS
      <4>2. a \in Nat /\ a <= g.step
        BY <1>0, <1>1, <4>1
      <4>3. a <= s /\ a < s
        BY ONLY SMT, <1>2, <1>6, <4>2
      <4> QED BY <4>1, <4>3
    <3>2. s <= s /\ ~(n + 1 < n + 1)
      BY ONLY SMT, n \in Nat, <1>2
    <3> QED BY <1>0, <1>2, <3>1, <3>2
  <2>7. (n + 1) - 1 = n
    BY SMT, <1>0
  <2>8. Summarises(h, q2, n + 1, n + 1)
    BY <1>0, <1>2, <2>1, <2>3, <2>4, <2>5, <2>6, <2>7 DEF Summarises
  <2> QED BY <1>3, <2>8
<1> QED BY SMT, <1>2, <1>4, <1>5, <1>6

\* The register of every history of calls summarises it.
THEOREM RegisterSummarises == RegisterSpec => []HistoryInv
<1>1. RegisterInit => HistoryInv
  BY CoverInit DEF CoverInv, RegisterInit, HistoryInv
<1>2. HistoryInv /\ RegisterTypeOK' /\ [RegisterNext]_registerVars => HistoryInv'
  <2> SUFFICES ASSUME HistoryInv, RegisterTypeOK', [RegisterNext]_registerVars PROVE HistoryInv'
    OBVIOUS
  <2>1. CASE UNCHANGED registerVars
    BY <2>1 DEF registerVars, HistoryInv
  <2>2. ASSUME NEW s \in CallSteps, NEW x \in CallProposal, RecordCall(s, x) PROVE HistoryInv'
    <3>1. /\ register' = RecordISR(register, s, x) /\ calls' = Append(calls, <<s, x>>)
          /\ register \in RegisterState /\ calls \in Seq(CallSteps \X CallProposal)
      BY <2>2 DEF RecordCall, HistoryInv, RegisterTypeOK, RegisterState
    <3>2. calls' # << >>
      BY SMT, <3>1
    <3>3. CASE calls = << >>
      <4>1. register = EmptyRegister
        BY <3>3 DEF HistoryInv
      <4>2. Summarises(register', calls', Len(calls'), 1)
        BY <3>1, <3>3, <4>1, FirstSummary
      <4> QED BY <3>2, <4>2 DEF HistoryInv
    <3>4. CASE calls # << >>
      <4>1. PICK k : Summarises(register, calls, Len(calls), k)
        BY <3>4 DEF HistoryInv
      <4>2. /\ Len(calls') = Len(calls) + 1 /\ Len(calls) \in Nat
            /\ Extends(calls, Len(calls), calls', s, x)
        BY <3>1, AppendExtends
      <4>3. \E k2 : Summarises(register', calls', Len(calls) + 1, k2)
        BY <3>1, <4>1, <4>2, NextSummary
      <4> QED BY <3>2, <4>2, <4>3 DEF HistoryInv
    <3> QED BY <3>3, <3>4
  <2> QED BY <2>1, <2>2 DEF RegisterNext
<1>3. CoverInv => RegisterTypeOK
  BY DEF CoverInv
<1> QED BY <1>1, <1>2, <1>3, RegisterCovers, PTL DEF RegisterSpec

\* The summary a record call returns is that of the whole history of calls.
THEOREM SummaryOfHistory == RegisterSpec => []SummaryIsOfHistory
<1>1. HistoryInv => SummaryIsOfHistory
  <2> SUFFICES ASSUME HistoryInv PROVE SummaryIsOfHistory
    OBVIOUS
  <2>1. CASE calls = << >>
    <3>1. /\ register = [step |-> InitialStep, first |-> {}, current |-> {}, prior |-> {}]
          /\ HistorySummary = [step |-> InitialStep, first |-> {}, prior |-> {}]
      BY <2>1 DEF HistoryInv, HistorySummary, EmptyRegister
    <3>2. register.step = InitialStep /\ register.first = {} /\ register.prior = {}
      BY <3>1
    <3> QED BY <3>1, <3>2 DEF SummaryIsOfHistory, Summary
  <2>2. CASE calls # << >>
    <3>1. PICK k : Summarises(register, calls, Len(calls), k)
      BY <2>2 DEF HistoryInv
    <3>2. calls \in Seq(CallSteps \X CallProposal) /\ register \in RegisterState
      BY DEF HistoryInv, RegisterTypeOK, RegisterState
    <3>3. /\ k \in 1 .. Len(calls) /\ calls[k][1] = register.step /\ Len(calls) \in Nat
          /\ \A i \in 1 .. Len(calls) : calls[i][1] <= register.step
          /\ \A i \in 1 .. Len(calls) : i < k => calls[i][1] < register.step
          /\ register.first = {calls[k][2]}
          /\ register.prior = MaxByKey(At(calls, register.step - 1, k - 1))
      BY SMTT(20), <3>1, <3>2 DEF Summarises
    <3>4. /\ register.step \in Nat
          /\ \A i \in 1 .. Len(calls) : calls[i][1] \in CallSteps /\ calls[i][1] \in Nat /\ calls[i][1] >= 4
      <4>1. \A i \in 1 .. Len(calls) : calls[i] \in CallSteps \X CallProposal
        BY SMT, <3>2
      <4>2. \A i \in 1 .. Len(calls) : calls[i][1] \in CallSteps
        BY <4>1
      <4> QED BY SMT, <3>2, <4>2, RegisterFields, StepNumbers, MaxCallStepAssumption DEF CallSteps, RoundOnePhaseZero
    <3>5. LastStep = register.step
      <4>1. ASSUME NEW t \in {InitialStep} \union {calls[i][1] : i \in 1 .. Len(calls)},
                   \A i \in 1 .. Len(calls) : calls[i][1] <= t
            PROVE  t = register.step
        <5>1. t \in Nat /\ register.step <= t
          BY <3>3, <3>4, <4>1, StepNumbers
        <5>2. t # InitialStep
          BY SMT, <3>3, <3>4, <5>1, StepNumbers
        <5>3. t <= register.step
          BY <3>3, <5>2
        <5> QED BY SMT, <3>4, <5>1, <5>3
      <4>2. register.step \in {calls[i][1] : i \in 1 .. Len(calls)}
        BY <3>3
      <4> QED BY <3>3, <4>1, <4>2 DEF LastStep
    <3>6. FirstCall(register.step) = k
      <4>1. k \in CallsAt(register.step, Len(calls))
        BY <3>3 DEF CallsAt
      <4>2. \A j \in CallsAt(register.step, Len(calls)) : j \in Nat /\ k <= j
        BY SMT, <3>3, <3>4 DEF CallsAt
      <4>3. ASSUME NEW j \in CallsAt(register.step, Len(calls)),
                   \A m \in CallsAt(register.step, Len(calls)) : j <= m
            PROVE  j = k
        <5>1. j \in Nat /\ k \in Nat /\ k <= j /\ j <= k
          BY <4>1, <4>2, <4>3
        <5> QED BY SMT, <5>1
      <4> QED BY <4>1, <4>2, <4>3 DEF FirstCall
    <3>7. ProposalsAt(register.step - 1, k - 1) = At(calls, register.step - 1, k - 1)
      BY DEF ProposalsAt, CallsAt, At
    <3> QED BY <2>2, <3>3, <3>5, <3>6, <3>7 DEF SummaryIsOfHistory, HistorySummary, Summary
  <2> QED BY <2>1, <2>2
<1> QED BY <1>1, RegisterSummarises, PTL
==============================================================================
