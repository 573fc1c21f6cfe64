--------------------------------- MODULE ISR ---------------------------------
(***************************************************************************)
(* Proposals, their total order, and the interval summary register a       *)
(* recorder keeps for a slot (src/src/isr.rs, and the proposal types of    *)
(* src/src/types.rs).                                                      *)
(*                                                                         *)
(* An Option<T> of the code is a set with at most one element, so None is  *)
(* the empty set and the proposals of several replies are a UNION.         *)
(***************************************************************************)
EXTENDS Integers, FiniteSets

\* Steps count 4 * round + phase; a slot starts at round one, phase zero.
InitialStep == 0
RoundOnePhaseZero == 4
Phase(s) == s % 4

\* A proposal is [priority, proposer, value].  Keys are ordered by priority,
\* then by proposer id.  The lane id, the third component in the code, is
\* fixed for each replica and never decides a comparison of two replicas.
KeyLeq(x, y) ==
  \/ x.priority < y.priority
  \/ x.priority = y.priority /\ x.proposer <= y.proposer

SameKey(x, y) == x.priority = y.priority /\ x.proposer = y.proposer

\* Fault: the last proposal wins.
BestProposalLast(current, x) == {x}

\* best_proposal: an incumbent survives a challenger that is not larger.
BestProposal(current, x) ==
  IF \E c \in current : KeyLeq(x, c) THEN current ELSE {x}

\* max_proposal_by_key: the largest of some proposals, {} if there is none.
MaxByKey(S) == {x \in S : \A y \in S : KeyLeq(y, x)}

\* IntervalSummaryRegister::default.
EmptyRegister ==
  [step |-> InitialStep, first |-> {}, current |-> {}, prior |-> {}]

\* A record call at the register's own step.
RecordSameStep(reg, x) ==
  [step    |-> reg.step,
   first   |-> IF reg.first = {} THEN {x} ELSE reg.first,
   current |-> BestProposal(reg.current, x),
   prior   |-> reg.prior]

\* Fault: the aggregate is kept also when steps are skipped.
RecordLaterStepKeeps(reg, s, x) ==
  [step |-> s, first |-> {x}, current |-> {x}, prior |-> reg.current]

\* Fault: the aggregate is kept when a step is skipped, not when none is.
RecordLaterStepSwapped(reg, s, x) ==
  [step    |-> s,
   first   |-> {x},
   current |-> {x},
   prior   |-> IF s = reg.step + 1 THEN {} ELSE reg.current]

\* A record call at a later step.  The aggregate of the step just left is kept
\* only when no step is skipped.
RecordLaterStep(reg, s, x) ==
  [step    |-> s,
   first   |-> {x},
   current |-> {x},
   prior   |-> IF s = reg.step + 1 THEN reg.current ELSE {}]

\* Fault: a late call moves the register back.
RecordISRBackwards(reg, s, x) ==
  IF s = reg.step THEN RecordSameStep(reg, x) ELSE RecordLaterStep(reg, s, x)

\* IntervalSummaryRegister::record; a call at an earlier step changes nothing.
RecordISR(reg, s, x) ==
  CASE s = reg.step -> RecordSameStep(reg, x)
    [] s > reg.step -> RecordLaterStep(reg, s, x)
    [] s < reg.step -> reg

\* The summary every record call returns.
Summary(reg) == [step |-> reg.step, first |-> reg.first, prior |-> reg.prior]
==============================================================================
