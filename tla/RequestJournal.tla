--------------------------- MODULE RequestJournal ---------------------------
(***************************************************************************)
(* The retries of client requests at one node: the                         *)
(* DeduplicatingSubmissionHandler of src/src/network/dedupe.rs around a    *)
(* FileSubmissionJournal.  Calls that carry the same request take turns on *)
(* a lock that is created for the request and dropped with its last call;  *)
(* the outcome is in the file before any call returns it.                  *)
(*                                                                         *)
(* A lock object is named after the call that created it.                  *)
(***************************************************************************)
EXTENDS Naturals

CONSTANTS
  Call,     \* the submit calls that reach the node
  Request,  \* the (client, request) pairs
  For,      \* the request each call carries
  Outcome,  \* the decisions the inner handler may return
  None      \* no outcome, no lock

ASSUME JournalAssumption ==
  /\ For \in [Call -> Request]
  /\ None \notin Outcome /\ None \notin Call

VARIABLES
  pc,       \* where each call is
  arc,      \* the lock object each call holds a reference to
  locks,    \* request_locks: the lock object of each request
  result,   \* what each call is about to return, None for an error
  outcomes, \* the journal in memory
  file,     \* the journal in the file
  answers   \* the decisions that calls have returned for each request

journal == <<outcomes, file>>
jvars == <<pc, arc, locks, result, journal, answers>>

JInit ==
  /\ pc = [c \in Call |-> "new"]
  /\ arc = [c \in Call |-> None]
  /\ locks = [r \in Request |-> None]
  /\ result = [c \in Call |-> None]
  /\ outcomes = [r \in Request |-> None]
  /\ file = [r \in Request |-> None]
  /\ answers = [r \in Request |-> {}]

Goto(c, at) == pc' = [pc EXCEPT ![c] = at]

\* Fault: every call makes a lock of its own.
EnterAlone(c) ==
  /\ pc[c] = "new"
  /\ locks' = [locks EXCEPT ![For[c]] = c]
  /\ arc' = [arc EXCEPT ![c] = c]
  /\ Goto(c, "queued")
  /\ UNCHANGED <<result, journal, answers>>

\* submit takes its reference under the lock of the map.
Enter(c) ==
  /\ pc[c] = "new"
  /\ locks' = [locks EXCEPT ![For[c]] = IF @ = None THEN c ELSE @]
  /\ arc' = [arc EXCEPT ![c] = locks'[For[c]]]
  /\ Goto(c, "queued")
  /\ UNCHANGED <<result, journal, answers>>

\* The calls between request_lock.lock() and the drop of the guard.
Guarded(c) == pc[c] \in {"inner", "put"}

\* It has the request lock and looks into the journal.
Look(c) ==
  /\ pc[c] = "queued"
  /\ \A d \in Call : arc[d] = arc[c] => ~Guarded(d)
  /\ IF outcomes[For[c]] # None
     THEN result' = [result EXCEPT ![c] = outcomes[For[c]]] /\ Goto(c, "cleanup")
     ELSE Goto(c, "inner") /\ UNCHANGED result
  /\ UNCHANGED <<arc, locks, journal, answers>>

\* inner.submit returns the decision o ...
InnerReturns(c, o) ==
  /\ pc[c] = "inner"
  /\ result' = [result EXCEPT ![c] = o]
  /\ Goto(c, "put")
  /\ UNCHANGED <<arc, locks, journal, answers>>

\* ... or an error.
InnerFails(c) ==
  /\ pc[c] = "inner"
  /\ Goto(c, "cleanup")
  /\ UNCHANGED <<arc, locks, result, journal, answers>>

\* Fault: the outcome is not saved.
PutUnsaved(c) ==
  /\ pc[c] = "put"
  /\ Goto(c, "cleanup")
  /\ outcomes' = [outcomes EXCEPT ![For[c]] = result[c]]
  /\ UNCHANGED <<arc, locks, result, file, answers>>

\* put: an outcome that is there already must be the same one.
Put(c) ==
  /\ pc[c] = "put"
  /\ Goto(c, "cleanup")
  /\ IF outcomes[For[c]] = None
     THEN /\ outcomes' = [outcomes EXCEPT ![For[c]] = result[c]]
          /\ file' = [file EXCEPT ![For[c]] = result[c]]
          /\ UNCHANGED result
     ELSE /\ result' = [result EXCEPT ![c] = IF outcomes[For[c]] = @ THEN @ ELSE None]
          /\ UNCHANGED journal
  /\ UNCHANGED <<arc, locks, answers>>

\* The save within put fails; the file may have been replaced all the same.
PutFails(c) ==
  /\ pc[c] = "put"
  /\ outcomes[For[c]] = None
  /\ file' \in {file, [file EXCEPT ![For[c]] = result[c]]}
  /\ result' = [result EXCEPT ![c] = None]
  /\ Goto(c, "cleanup")
  /\ UNCHANGED <<arc, locks, outcomes, answers>>

\* Arc::strong_count is two: only the map and this call refer to the lock.
DropLock(c) ==
  /\ locks[For[c]] = arc[c]
  /\ \A d \in Call \ {c} : arc[d] # arc[c]

\* The guard is gone: the lock is dropped if nobody else needs it, and the
\* call returns.
Return(c) ==
  /\ pc[c] = "cleanup"
  /\ locks' = IF DropLock(c) THEN [locks EXCEPT ![For[c]] = None] ELSE locks
  /\ arc' = [arc EXCEPT ![c] = None]
  /\ answers' = [answers EXCEPT ![For[c]] = @ \union ({result[c]} \ {None})]
  /\ Goto(c, "done")
  /\ UNCHANGED <<result, journal>>

\* The node stops: its calls are lost, and it reopens the file.
JRestart ==
  /\ pc' = [c \in Call |-> IF pc[c] = "new" THEN "new" ELSE "done"]
  /\ arc' = [c \in Call |-> None]
  /\ locks' = [r \in Request |-> None]
  /\ result' = [c \in Call |-> None]
  /\ outcomes' = file
  /\ UNCHANGED <<file, answers>>

JNext ==
  \/ \E c \in Call :
        \/ Enter(c) \/ Look(c) \/ InnerFails(c) \/ Put(c) \/ PutFails(c) \/ Return(c)
        \/ \E o \in Outcome : InnerReturns(c, o)
  \/ JRestart

JSpec == JInit /\ [][JNext]_jvars

------------------------------------------------------------------------------
(* Properties *)

JTypeOK ==
  /\ pc \in [Call -> {"new", "queued", "inner", "put", "cleanup", "done"}]
  /\ arc \in [Call -> Call \union {None}]
  /\ locks \in [Request -> Call \union {None}]
  /\ result \in [Call -> Outcome \union {None}]
  /\ outcomes \in [Request -> Outcome \union {None}]
  /\ file \in [Request -> Outcome \union {None}]
  /\ answers \in [Request -> SUBSET Outcome]

\* "Retrying the same pair through the same node returns the journaled outcome":
\* all the answers to a request name the same decision, across restarts and
\* saves that fail.
SameOutcome == \A r \in Request : \A o, p \in answers[r] : o = p

\* "Serializes same-node retries": the inner handler never works on two calls
\* of one request at a time, however locks come and go.
OneInnerCall ==
  \A c, d \in Call : Guarded(c) /\ Guarded(d) /\ For[c] = For[d] => c = d
==============================================================================
