---------------------------- MODULE MCEpochTuner ----------------------------
EXTENDS EpochTuner

\* Slots of the first ranked epochs are decided on the fast path or in phase two
\* of round one; the others on the fast path.
MCSteps == [s \in 1 .. MaxSlot |-> IF s \in {8, 11} THEN {4, 6} ELSE {4}]
MCOldMembers == <<1, 2>>
MCNewMembers == <<2, 3>>
==============================================================================
