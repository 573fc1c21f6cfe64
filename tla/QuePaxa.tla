------------------------------ MODULE QuePaxa ------------------------------
(***************************************************************************)
(* Consensus on one slot: the proposers of src/src/proposer.rs and         *)
(* src/src/network/async_proposer.rs (Algorithm 4 of the QuePaxa paper)    *)
(* against the recorders of src/src/recorder.rs.                           *)
(*                                                                         *)
(* Requests are never removed from sent.  A request can therefore reach    *)
(* its recorder late (after the proposer moved on, gave up or decided),    *)
(* out of order, several times, or never, which is what worker threads     *)
(* that outlive their quorum, cancelled connections, retries and restarts  *)
(* produce.  A reply counts only for the propose call and step it answers, *)
(* and a slow or lost reply is one that is in no quorum the proposer       *)
(* collects.                                                               *)
(***************************************************************************)
EXTENDS ISR

CONSTANTS
  Recorder,     \* the members in their role as recorders
  Proposer,     \* the ids, numbers, of the members that drive the slot
  Value,        \* batches
  Batch,        \* the batch each propose call of each proposer drives: the same in
                \* the calls of one process, and after a restart that finds it saved
  Leader,       \* the round-one leader each proposer's schedule names, if any
  Quorum,       \* the sets of recorders at which collect_quorum stops
  MaxPriority,  \* Priority::MAX, reserved for the leader
  MaxStep,      \* max_steps of the proposers, max_step of the recorders
  MaxAttempts,  \* bound on the propose calls of each proposer
  MaxInformed   \* bound on the recorders a decision is announced to

ASSUME RecorderAssumption == Recorder # {}
ASSUME ProposerAssumption == \A p \in Proposer : p \in Nat
ASSUME BatchAssumption ==
  \A p \in Proposer : MaxAttempts[p] > 0 /\ Batch[p] \in [1 .. MaxAttempts[p] -> Value]
ASSUME LeaderAssumption ==
  /\ Leader \in [Proposer -> SUBSET Nat]
  /\ \A p \in Proposer : \A l1, l2 \in Leader[p] : l1 = l2
ASSUME QuorumAssumption ==
  /\ Quorum \subseteq SUBSET Recorder
  /\ \A Q1, Q2 \in Quorum : Q1 \intersect Q2 # {}
ASSUME PriorityAssumption == MaxPriority \in Nat /\ MaxPriority > 1
ASSUME StepAssumption == MaxStep \in Nat /\ MaxStep >= RoundOnePhaseZero
ASSUME AttemptsAssumption == MaxAttempts \in [Proposer -> Nat]
ASSUME InformedAssumption == MaxInformed \in Nat

VARIABLES
  isr,       \* the slot's register at each recorder
  bound,     \* the round-one leader each recorder bound the slot to, if any
  known,     \* the decision each recorder retains, if any
  attempt,   \* the number of propose calls each proposer has made
  step,      \* the step of the running propose call, 0 when none runs
  proposal,  \* its current proposal
  replies,   \* the replies collect_quorum has for that step
  decided,   \* the decision a propose call returned, if any
  sent,      \* every record request ever sent
  hist       \* history: what each register last held at each step

recorderVars == <<isr, bound, known, hist>>
proposerVars == <<attempt, step, proposal, replies, decided>>
vars == <<isr, bound, known, attempt, step, proposal, replies, decided, sent, hist>>

Steps == RoundOnePhaseZero .. MaxStep

Proposal == [priority : 1 .. MaxPriority, proposer : Proposer, value : Value]
Decision == [value : Value, proposer : Proposer, step : Steps]
Option(S) == {{}} \union {{x} : x \in S}

Request ==
  [from : Proposer, to : Recorder, attempt : Nat, step : Steps, prop : Proposal]

Reply ==
  [recorder : Recorder, step : Steps, first : Option(Proposal),
   prior : Option(Proposal), decision : Option(Decision)]

\* The proposal the propose call numbered a starts from.
OwnProposal(p, a) == [priority |-> MaxPriority, proposer |-> p, value |-> Batch[p][a]]

Init ==
  /\ isr = [r \in Recorder |-> EmptyRegister]
  /\ bound = [r \in Recorder |-> {}]
  /\ known = [r \in Recorder |-> {}]
  /\ attempt = [p \in Proposer |-> 0]
  /\ step = [p \in Proposer |-> 0]
  /\ proposal = [p \in Proposer |-> OwnProposal(p, 1)]
  /\ replies = [p \in Proposer |-> {}]
  /\ decided = [p \in Proposer |-> {}]
  /\ sent = {}
  /\ hist = [r \in Recorder |-> [s \in 0 .. MaxStep |-> [first |-> {}, agg |-> {}]]]

------------------------------------------------------------------------------
(* Proposers *)

\* The priorities the requests of one step may carry.  In phase zero each
\* recorder is sent an independent draw below Priority::MAX, except by the
\* round-one leader in round one; in the other phases the proposal's own.
Priorities(p, s, x) ==
  IF Phase(s) = 0 /\ (s > RoundOnePhaseZero \/ Leader[p] # {p})
  THEN [Recorder -> 1 .. MaxPriority - 1]
  ELSE {[r \in Recorder |-> x.priority]}

RequestTo(p, a, r, s, x, priorities) ==
  [from |-> p, to |-> r, attempt |-> a, step |-> s,
   prop |-> [x EXCEPT !.priority = priorities[r]]]

\* The propose call returns: nothing is in progress at p.
Return(p) ==
  /\ step' = [step EXCEPT ![p] = 0]
  /\ proposal' = [proposal EXCEPT ![p] = OwnProposal(p, 1)]
  /\ replies' = [replies EXCEPT ![p] = {}]
  /\ UNCHANGED sent

\* The head of the proposer's loop: requests for step s go to every recorder,
\* or the call fails with StepLimitExceeded.
Enter(p, a, s, x) ==
  IF s <= MaxStep
  THEN /\ step' = [step EXCEPT ![p] = s]
       /\ proposal' = [proposal EXCEPT ![p] = x]
       /\ replies' = [replies EXCEPT ![p] = {}]
       /\ \E priorities \in Priorities(p, s, x) :
             sent' = sent \union {RequestTo(p, a, r, s, x, priorities) : r \in Recorder}
  ELSE Return(p)

\* propose: the first call, or the retry of one that failed.  A process proposes
\* the batch it holds for the slot again and again.  After a restart the batch
\* may be another one: arm_available leaves a batch that it could not save in
\* memory, where the next poll proposes it, and a network node that hears of a
\* known decision arms a no-op that it does not save.
Propose(p) ==
  /\ step[p] = 0
  /\ decided[p] = {}
  /\ attempt[p] < MaxAttempts[p]
  /\ attempt' = [attempt EXCEPT ![p] = @ + 1]
  /\ Enter(p, attempt[p] + 1, RoundOnePhaseZero, OwnProposal(p, attempt[p] + 1))
  /\ UNCHANGED <<decided, recorderVars>>

Recorders(R) == {reply.recorder : reply \in R}
Firsts(R) == UNION {reply.first : reply \in R}
Priors(R) == UNION {reply.prior : reply \in R}
Decisions(R) == UNION {reply.decision : reply \in R}

\* What collect_quorum may return: the replies of a quorum, which of them come
\* first being the network's choice.
Collections(p) == {R \in SUBSET replies[p] : Recorders(R) \in Quorum}

Decide(p, d) ==
  /\ decided' = [decided EXCEPT ![p] = {d}]
  /\ Return(p)
  /\ UNCHANGED <<attempt, recorderVars>>

\* A reply carries the slot's decision: adopt it.
AdoptDecision(p, R) == \E d \in Decisions(R) : Decide(p, d)

\* Every reply is at the proposer's step and none carries a decision.
InStep(p, R, phase) ==
  /\ Decisions(R) = {}
  /\ \A reply \in R : reply.step = step[p]
  /\ Phase(step[p]) = phase

\* Fault: one recorder that saw the leader first is taken for a quorum.
FastPathWinnersOfOne(p, R) ==
  {x \in Firsts(R) :
     step[p] = RoundOnePhaseZero /\ x.priority = MaxPriority /\ Leader[p] = {x.proposer}}

\* fast_path_winner: the agreed leader's proposal was recorded first by the
\* whole quorum in round one.  The replies are compared by key only.
FastPathWinners(p, R) ==
  {x \in Firsts(R) :
     /\ step[p] = RoundOnePhaseZero
     /\ x.priority = MaxPriority
     /\ Leader[p] = {x.proposer}
     /\ \A reply \in R : \E y \in reply.first : SameKey(x, y)}

FastPath(p, R) ==
  /\ InStep(p, R, 0)
  /\ \E x \in FastPathWinners(p, R) :
        Decide(p, [value |-> x.value, proposer |-> x.proposer, step |-> step[p]])

Advance(p, x) ==
  /\ Enter(p, attempt[p], step[p] + 1, x)
  /\ UNCHANGED <<attempt, decided, recorderVars>>

\* Fault: the proposer keeps its own proposal after phase zero.
PhaseZeroKeepsOwn(p, R) ==
  /\ InStep(p, R, 0)
  /\ FastPathWinners(p, R) = {}
  /\ Advance(p, proposal[p])

\* Phase zero without a fast path: take the best of the firsts.
PhaseZero(p, R) ==
  /\ InStep(p, R, 0)
  /\ FastPathWinners(p, R) = {}
  /\ \E x \in MaxByKey(Firsts(R)) : Advance(p, x)

\* Phase one only spreads the proposal.
PhaseOne(p, R) ==
  /\ InStep(p, R, 1)
  /\ Advance(p, proposal[p])

\* Fault: the decision credits the replica that drove the slot.
PhaseTwoCreditsDriver(p, R) ==
  /\ InStep(p, R, 2)
  /\ proposal[p] \in MaxByKey(Priors(R))
  /\ Decide(p, [value |-> proposal[p].value, proposer |-> p, step |-> step[p]])

\* Phase two: decide when the proposal is the best any recorder of the quorum
\* saw in phase one.  The best is one of those with the highest key.
PhaseTwoDecide(p, R) ==
  /\ InStep(p, R, 2)
  /\ proposal[p] \in MaxByKey(Priors(R))
  /\ Decide(p, [value |-> proposal[p].value, proposer |-> proposal[p].proposer,
                step |-> step[p]])

PhaseTwo(p, R) ==
  /\ InStep(p, R, 2)
  /\ MaxByKey(Priors(R)) # {proposal[p]}
  /\ Advance(p, proposal[p])

\* Phase three: carry the best proposal of phase two into the next round.
PhaseThree(p, R) ==
  /\ InStep(p, R, 3)
  /\ IF Priors(R) = {}
     THEN Advance(p, proposal[p])
     ELSE \E x \in MaxByKey(Priors(R)) : Advance(p, x)

\* Fault: the jump to a later step keeps the proposal of the earlier one.
CatchUpKeepsProposal(p, R) ==
  /\ Decisions(R) = {}
  /\ \E ahead \in R :
        /\ ahead.step > step[p]
        /\ \A reply \in R : reply.step <= ahead.step
        /\ Enter(p, attempt[p], ahead.step, proposal[p])
  /\ UNCHANGED <<attempt, decided, recorderVars>>

\* Some recorder is ahead: jump to the highest step reported, with what that
\* recorder saw first there.
CatchUp(p, R) ==
  /\ Decisions(R) = {}
  /\ \E ahead \in R :
        /\ ahead.step > step[p]
        /\ \A reply \in R : reply.step <= ahead.step
        /\ \E x \in ahead.first : Enter(p, attempt[p], ahead.step, x)
  /\ UNCHANGED <<attempt, decided, recorderVars>>

\* The call fails: QuorumNotReached after a timeout or too many errors, or the
\* process restarts.  A call that fails and is never retried is one that takes
\* no further step, so only failures the bound lets p retry are taken.
GiveUp(p) ==
  /\ step[p] # 0
  /\ attempt[p] < MaxAttempts[p]
  /\ Return(p)
  /\ UNCHANGED <<attempt, decided, recorderVars>>

------------------------------------------------------------------------------
(* Recorders *)

\* The sender still waits for this recorder's reply to this request.
Awaited(m) ==
  /\ attempt[m.from] = m.attempt
  /\ step[m.from] = m.step
  /\ m.to \notin Recorders(replies[m.from])

\* Fault: requests under any leader are recorded.
RecordUnderAnyLeader(m) ==
  LET reg   == RecordISR(isr[m.to], m.step, m.prop)
      reply == [recorder |-> m.to, step |-> reg.step, first |-> reg.first,
                prior |-> reg.prior, decision |-> known[m.to]]
  IN  /\ bound' = [bound EXCEPT ![m.to] = {Leader[m.from]}]
      /\ isr' = [isr EXCEPT ![m.to] = reg]
      /\ hist' = [hist EXCEPT ![m.to][reg.step] = [first |-> reg.first, agg |-> reg.current]]
      /\ replies' = IF Awaited(m) THEN [replies EXCEPT ![m.from] = @ \union {reply}]
                                 ELSE replies
      /\ UNCHANGED <<known, attempt, step, proposal, decided, sent>>

\* RecorderCore::record for a request under the leader the recorder is bound
\* to, or for the first request of the slot, which binds it.
Record(m) ==
  LET reg   == RecordISR(isr[m.to], m.step, m.prop)
      reply == [recorder |-> m.to, step |-> reg.step, first |-> reg.first,
                prior |-> reg.prior, decision |-> known[m.to]]
  IN  /\ bound[m.to] \in {{}, {Leader[m.from]}}
      /\ bound' = [bound EXCEPT ![m.to] = {Leader[m.from]}]
      /\ isr' = [isr EXCEPT ![m.to] = reg]
      /\ hist' = [hist EXCEPT ![m.to][reg.step] = [first |-> reg.first, agg |-> reg.current]]
      /\ replies' = IF Awaited(m) THEN [replies EXCEPT ![m.from] = @ \union {reply}]
                                 ELSE replies
      /\ UNCHANGED <<known, attempt, step, proposal, decided, sent>>

\* record rejects a request under another leader, and the sender's propose
\* call fails with ScheduleMismatch if it still collects replies.
ScheduleMismatch(m) ==
  /\ bound[m.to] \notin {{}, {Leader[m.from]}}
  /\ Awaited(m)
  /\ Return(m.from)
  /\ UNCHANGED <<attempt, decided, recorderVars>>

\* Delivering m once more would change nothing, now or later: nobody awaits its
\* reply, and the recorder refuses it or its register already covers it.
Spent(m) ==
  /\ ~Awaited(m)
  /\ bound[m.to] # {}
  /\ \/ bound[m.to] # {Leader[m.from]}
     \/ RecordISR(isr[m.to], m.step, m.prop) = isr[m.to]

\* A replica announces its decision to a recorder (inform_decision).  A
\* recorder that retains one keeps it, whether the two agree or not.
InformDecision(p, r) ==
  /\ known[r] = {}
  /\ Cardinality({q \in Recorder : known[q] # {}}) < MaxInformed
  /\ decided[p] # {}
  /\ known' = [known EXCEPT ![r] = decided[p]]
  /\ UNCHANGED <<isr, bound, hist, proposerVars, sent>>

------------------------------------------------------------------------------

\* A propose call continues with the replies of a quorum.
Continue(p, R) ==
  \/ AdoptDecision(p, R)
  \/ FastPath(p, R)
  \/ PhaseZero(p, R)
  \/ PhaseOne(p, R)
  \/ PhaseTwoDecide(p, R)
  \/ PhaseTwo(p, R)
  \/ PhaseThree(p, R)
  \/ CatchUp(p, R)

Next ==
  \/ \E p \in Proposer :
        \/ Propose(p)
        \/ \E R \in Collections(p) : Continue(p, R)
        \/ GiveUp(p)
        \/ \E r \in Recorder : InformDecision(p, r)
  \/ \E m \in sent : ~Spent(m) /\ (Record(m) \/ ScheduleMismatch(m))

Spec == Init /\ [][Next]_vars

------------------------------------------------------------------------------
(* Properties *)

TypeOK ==
  /\ isr \in [Recorder -> [step : {InitialStep} \union Steps, first : Option(Proposal),
                          current : Option(Proposal), prior : Option(Proposal)]]
  /\ bound \in [Recorder -> Option({Leader[p] : p \in Proposer})]
  /\ known \in [Recorder -> Option(Decision)]
  /\ attempt \in [Proposer -> Nat]
  /\ step \in [Proposer -> {0} \union Steps]
  /\ proposal \in [Proposer -> Proposal]
  /\ replies \in [Proposer -> SUBSET Reply]
  /\ decided \in [Proposer -> Option(Decision)]
  /\ sent \in SUBSET Request
  /\ hist \in [Recorder -> [0 .. MaxStep -> [first : Option(Proposal), agg : Option(Proposal)]]]

\* Every decision some replica holds.
AllDecisions == UNION ({decided[p] : p \in Proposer} \union {known[r] : r \in Recorder})

\* The batches p has proposed so far, and whether it has proposed more than one:
\* the rule for a key, "(priority, proposer_id, lane_id)", to "identify at most
\* one value for a slot" then no longer holds for its reserved key.
Proposed(p) == {Batch[p][a] : a \in 1 .. attempt[p]}
ProposedTwo(p) == \E v, w \in Proposed(p) : v # w

\* Agreement: all decisions of the slot credit one replica, and they carry one
\* value unless that replica has proposed two batches for the slot.  Whether a
\* propose call decided them on the fast path, in phase two of any round, or
\* adopted them, and whatever schedules the proposers follow.
Agreement ==
  \A d1, d2 \in AllDecisions :
     d1.proposer = d2.proposer /\ (d1.value = d2.value \/ ProposedTwo(d1.proposer))

\* A decision credits the replica whose batch it carries, and that replica did
\* propose it.
DecisionsAreProposed == \A d \in AllDecisions : d.value \in Proposed(d.proposer)

\* The first step at which every proposer carries the value decided by d: the
\* step after the fast path, or phase zero of the next round.
BindingStep(d) == IF d.step = RoundOnePhaseZero THEN d.step + 1 ELSE d.step + 2

\* A decision is carried forward: a proposer that got past the deciding round,
\* by whatever quorums, late replies and jumps, holds a proposal of the decided
\* replica, and the decided value unless that replica has proposed two batches.
DecisionIsCarried ==
  \A d \in AllDecisions, p \in Proposer :
     step[p] >= BindingStep(d) =>
        /\ proposal[p].proposer = d.proposer
        /\ proposal[p].value = d.value \/ ProposedTwo(d.proposer)

\* The gather phases always find something to gather: whatever recorders
\* skipped steps, a quorum that answers in phase two or three of a step reports
\* a prior aggregate.  The code's fallback for none is never needed.
GatherSeesPrior ==
  \A p \in Proposer : \A R \in Collections(p) :
     /\ \A reply \in R : reply.step = step[p]
     /\ Phase(step[p]) \in {2, 3}
     => Priors(R) # {}

\* No quorum of replies shows the reserved priority with two proposers, even
\* when replicas follow different schedules: recorders bind the first leader
\* they accept and reject the others (ScheduleMismatch).
ReservedPriorityIsUnique ==
  \A p \in Proposer : step[p] = RoundOnePhaseZero =>
     \A R \in Collections(p) : \A x, y \in Firsts({r \in R : r.step = step[p]}) :
        x.priority = MaxPriority /\ y.priority = MaxPriority => x.proposer = y.proposer

\* The statistics behind derived schedules add up the decided_step of each
\* committed slot, so replicas that hold the slot's decision must hold the same
\* step (EpochStat: "every replica computes identical values").
DecidedStepAgreed == \A d1, d2 \in AllDecisions : d1.step = d2.step

------------------------------------------------------------------------------
(* What the slot promises: at most one value is ever chosen. *)

Chosen == {d.value : d \in AllDecisions}
Winner == {d.proposer : d \in AllDecisions}

C == INSTANCE Consensus WITH chosen <- Chosen
W == INSTANCE Consensus WITH Value <- Proposer, chosen <- Winner

\* The protocol implements consensus on the replica whose batch the slot takes:
\* the replicas that decisions credit change from none to one, once.
ImplementsConsensus == W!Spec

\* When every replica proposes one batch for the slot, the protocol implements
\* consensus on the batch.
OneBatch == \A p \in Proposer : \A a, b \in 1 .. MaxAttempts[p] : Batch[p][a] = Batch[p][b]
ChoosesOneBatch == OneBatch => C!Spec
==============================================================================
