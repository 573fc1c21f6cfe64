----------------------------- MODULE ISRHistory -----------------------------
(***************************************************************************)
(* One interval summary register under an arbitrary sequence of record     *)
(* calls (src/src/isr.rs), compared with what a summary of the whole       *)
(* sequence would be.  The register keeps four fields; calls keeps all.    *)
(***************************************************************************)
EXTENDS ISR, Sequences

CONSTANTS
  CallProposal,  \* the proposals the calls may carry, [priority, proposer, value]
  MaxCallStep,   \* the largest step of a call
  MaxCalls   \* bound on the number of calls

ASSUME CallProposalAssumption ==
  \A x \in CallProposal : /\ x.priority \in Nat /\ x.proposer \in Nat
                      /\ \A y \in CallProposal : SameKey(x, y) => x = y
ASSUME MaxCallStepAssumption == MaxCallStep \in Nat
ASSUME MaxCallsAssumption == MaxCalls \in Nat

VARIABLES
  register, \* the register
  calls     \* every call made, in order: <<step, proposal>>

registerVars == <<register, calls>>

CallSteps == RoundOnePhaseZero .. MaxCallStep
AtMostOne(S) == {{}} \union {{x} : x \in S}

RegisterInit ==
  /\ register = EmptyRegister
  /\ calls = << >>

RecordCall(s, x) ==
  /\ Len(calls) < MaxCalls
  /\ register' = RecordISR(register, s, x)
  /\ calls' = Append(calls, <<s, x>>)

RegisterNext == \E s \in CallSteps, x \in CallProposal : RecordCall(s, x)

RegisterSpec == RegisterInit /\ [][RegisterNext]_registerVars

------------------------------------------------------------------------------
(* Properties *)

RegisterTypeOK ==
  /\ register \in [step : {InitialStep} \union CallSteps, first : AtMostOne(CallProposal),
              current : AtMostOne(CallProposal), prior : AtMostOne(CallProposal)]
  /\ calls \in Seq(CallSteps \X CallProposal)

\* What a summary of all calls holds.  The last step reached; the first call
\* made at it; and the largest proposal of the calls at the step before it
\* that were made before the last step was reached.
CallsAt(s, n) == {i \in 1 .. n : calls[i][1] = s}
ProposalsAt(s, n) == {calls[i][2] : i \in CallsAt(s, n)}
LastStep == CHOOSE s \in {InitialStep} \union {calls[i][1] : i \in 1 .. Len(calls)} :
              \A i \in 1 .. Len(calls) : calls[i][1] <= s
FirstCall(s) == CHOOSE i \in CallsAt(s, Len(calls)) :
                  \A j \in CallsAt(s, Len(calls)) : i <= j

HistorySummary ==
  IF calls = << >>
  THEN [step |-> InitialStep, first |-> {}, prior |-> {}]
  ELSE [step  |-> LastStep,
        first |-> {calls[FirstCall(LastStep)][2]},
        prior |-> MaxByKey(ProposalsAt(LastStep - 1, FirstCall(LastStep) - 1))]

\* The summary a record call returns is the summary of the whole history of
\* calls, though the register forgets all but four fields of it: late calls,
\* skipped steps and calls in any order included.
SummaryIsOfHistory == Summary(register) = HistorySummary

\* A request that is delivered once more, at any later time, changes nothing
\* and so may be retried: record is idempotent over the whole history.
DuplicatesAreHarmless ==
  \A i \in 1 .. Len(calls) : RecordISR(register, calls[i][1], calls[i][2]) = register

\* The register only moves forward: the step never decreases, and while it
\* stays what was first stays and the aggregate never gets smaller.  What a
\* proposer has read off a quorum therefore stays true.
OnlyForward ==
  [][/\ register'.step >= register.step
     /\ register'.step = register.step =>
          /\ register'.prior = register.prior
          /\ register.first # {} => register'.first = register.first
          /\ \A x \in register.current : \E y \in register'.current : KeyLeq(x, y)]_registerVars
==============================================================================
