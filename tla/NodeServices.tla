---------------------------- MODULE NodeServices ----------------------------
(***************************************************************************)
(* The services that a networked node keeps beside consensus, at every     *)
(* member: the batch service that holds payloads                           *)
(* (src/src/network/batch.rs), the availability check of the recorder and  *)
(* its value store (src/src/store.rs), and the exactly-once executor of    *)
(* the application (src/src/network/dedupe.rs); at member Home also the    *)
(* request journal of RequestJournal.  Each service has a file of its own, *)
(* written apart from the snapshot of the runtime: they go through every   *)
(* combination of saves that fail and restarts.                            *)
(*                                                                         *)
(* A payload is determined by its value ID (BatchVerifier), so a store is  *)
(* a set of IDs; the state of the application is the sequence of values    *)
(* applied to it, and the table of seen IDs is the range of that sequence. *)
(***************************************************************************)
EXTENDS RequestJournal, Filter, FiniteSets, Functions

CONSTANTS
  Member,    \* the nodes
  Founders,  \* the members of the first configuration
  Home,      \* the member whose journal is modelled
  Value,     \* value IDs
  Wanted,    \* the value IDs of each request
  Batch,     \* the sequences of IDs that are proposed
  Quorum,    \* the sets of members that decide
  Threshold, \* required_acknowledgements of the publisher
  MaxSlot,   \* bound on the log
  MaxCrashes, MaxErrors  \* bounds on crashes and on saves and callbacks that fail

ASSUME ServicesAssumption ==
  /\ IsFiniteSet(Member) /\ Founders \subseteq Member /\ Home \in Founders
  /\ Outcome = 1 .. MaxSlot
  /\ Wanted \in [Request -> SUBSET Value]
  /\ \A b \in Batch : b \in Seq(Value) /\ IsInjective(b) /\ b # << >>
  /\ {} \notin Quorum
  /\ Threshold \in 1 .. Cardinality(Member)
  /\ {MaxCrashes, MaxErrors} \subseteq Nat

VARIABLES
  log,       \* external: the decided batches
  batches,   \* each batch store, in memory and in its file
  acks,      \* the members that acknowledged the publication of each batch
  values,    \* the value store of each recorder
  vouched,   \* the values in proposals that each recorder has acknowledged
  executor,  \* each application, in memory and in its file
  executed,  \* the slots that each runtime has marked as executed, in its file
  active,    \* the members of the current configuration
  package,   \* the last state transfer that was created
  faults     \* crashes and errors so far, and the members whose execution failed

payloads == <<batches, acks, values, vouched>>
state == <<executor, executed, active, package>>
vars == <<jvars, log, payloads, state, faults>>

Init ==
  /\ JInit
  /\ log = << >>
  /\ batches = [m \in Member |-> [memory |-> {}, file |-> {}]]
  /\ acks = [b \in Batch |-> {}]
  /\ values = [m \in Member |-> {}]
  /\ vouched = [m \in Member |-> {}]
  /\ executor = [m \in Member |-> [memory |-> << >>, file |-> << >>]]
  /\ executed = [m \in Member |-> {}]
  /\ active = Founders
  /\ package = [at |-> "none", from |-> Home, through |-> 0, application |-> << >>, marks |-> {}]
  /\ faults = [crashes |-> 0, errors |-> 0, failed |-> {}]

Err == /\ faults.errors < MaxErrors
       /\ faults' = [faults EXCEPT !.errors = @ + 1]

ExecutionErr(m) ==
  /\ faults.errors < MaxErrors
  /\ faults' = [faults EXCEPT !.errors = @ + 1, !.failed = @ \union {m}]

------------------------------------------------------------------------------
(* Payloads *)

\* Fault: memory first, and the file when there is time.
SavedInMemory(s, next) == [s EXCEPT !.memory = next]

\* save replaces the file, then memory follows.
Saved(s, next) == [s EXCEPT !.memory = next, !.file = next]

\* A save that fails may have replaced the file.
SaveFailed(s, next) == {s, [s EXCEPT !.file = next]}

\* The publisher has its required acknowledgements.
Published(batch) == Cardinality(acks[batch]) >= Threshold

\* publish of the payloads of a batch at member m, for TlsBatchPublisher: put
\* saves one after the other and leaves those it has.
Publish(m, batch) ==
  LET next == batches[m].memory \union Range(batch)
  IN  /\ m \in Founders
      /\ m \notin acks[batch] \/ next # batches[m].memory
      /\ batches' = [batches EXCEPT ![m] = IF next = @.memory THEN @ ELSE Saved(@, next)]
      /\ acks' = [acks EXCEPT ![batch] = @ \union {m}]
      /\ UNCHANGED <<jvars, log, values, vouched, state, faults>>

\* The k-th put fails: the file is full or cannot be written.  The earlier ones
\* stay.
PublishFails(m, batch) ==
  /\ m \in Founders
  /\ Err
  /\ \E k \in DOMAIN batch :
        LET before == batches[m].memory \union Range(SubSeq(batch, 1, k - 1))
            reached == IF before = batches[m].memory THEN batches[m] ELSE Saved(batches[m], before)
        IN  /\ batch[k] \notin before
            /\ batches' \in {[batches EXCEPT ![m] = x] :
                               x \in SaveFailed(reached, before \union {batch[k]})}
  /\ UNCHANGED <<jvars, log, acks, values, vouched, state>>

\* fetch of one source answers with all of the IDs or with an error.
Sources(missing) == {q \in Member : missing \subseteq batches[q].memory}

\* fetch_values asks one source after the other.
FetchValues(missing) == Sources(missing) # {}

\* Fault: whatever a source has is good enough.
EnsureSome(m, batch) ==
  /\ \E q \in Member : batches[q].memory \cap Range(batch) # {}
  /\ values' = [values EXCEPT ![m] = @ \union Range(batch)]

\* ensure_available: the missing payloads come from the first source that has
\* them all.
EnsureAvailable(m, batch) ==
  LET missing == Range(batch) \ values[m]
  IN  /\ missing # {} => FetchValues(missing)
      /\ values' = [values EXCEPT ![m] = @ \union missing]

\* record of a recorder: the payloads of a proposal are there before it is
\* acknowledged.
Record(m, batch) ==
  /\ m \in active
  /\ ~(Range(batch) \subseteq vouched[m])
  /\ EnsureAvailable(m, batch)
  /\ vouched' = [vouched EXCEPT ![m] = @ \union Range(batch)]
  /\ UNCHANGED <<jvars, log, batches, acks, state, faults>>

\* External: a quorum of recorders has acknowledged the batch, and its slot
\* decides it.
Decide(batch) ==
  /\ Len(log) < MaxSlot
  /\ \E Q \in Quorum : Q \subseteq active /\ \A m \in Q : Range(batch) \subseteq vouched[m]
  /\ log' = Append(log, batch)
  /\ UNCHANGED <<jvars, payloads, state, faults>>

------------------------------------------------------------------------------
(* Execution *)

Slots == DOMAIN log

\* Fault: the table of seen IDs is not asked.
FreshAll(m, s) == log[s]

\* The values of the decision that execute_once has not seen.
Fresh(m, s) == Unseen(log[s], Range(executor[m].memory))

\* The runtime executes the log in order; once an execution has failed it may
\* pass over a slot (see NetworkNode).
Due(m, s) ==
  /\ m \in active /\ s \in Slots \ executed[m]
  /\ m \notin faults.failed => 1 .. s - 1 \subseteq executed[m]

\* DeduplicatingStateMachine::execute: every value and its application are saved
\* before the next one; then the runtime saves its mark.
Execute(m, s) ==
  /\ Due(m, s)
  /\ executor' = [executor EXCEPT ![m] = IF Fresh(m, s) = << >> THEN @
                                         ELSE Saved(@, @.memory \o Fresh(m, s))]
  /\ executed' = [executed EXCEPT ![m] = @ \union {s}]
  /\ UNCHANGED <<jvars, log, payloads, active, package, faults>>

\* The same when the runtime fails to save its mark.
ExecuteUnmarked(m, s) ==
  /\ Due(m, s) /\ Fresh(m, s) # << >>
  /\ ExecutionErr(m)
  /\ executor' = [executor EXCEPT ![m] = Saved(@, @.memory \o Fresh(m, s))]
  /\ UNCHANGED <<jvars, log, payloads, executed, active, package>>

\* The k-th value fails, in the callback or in the save.
ExecuteFails(m, s) ==
  /\ Due(m, s)
  /\ ExecutionErr(m)
  /\ \E k \in DOMAIN Fresh(m, s) :
        LET before == executor[m].memory \o SubSeq(Fresh(m, s), 1, k - 1)
            reached == IF k = 1 THEN executor[m] ELSE Saved(executor[m], before)
        IN  executor' \in {[executor EXCEPT ![m] = x] :
                             x \in SaveFailed(reached, Append(before, Fresh(m, s)[k]))}
  /\ UNCHANGED <<jvars, log, payloads, executed, active, package>>

------------------------------------------------------------------------------
(* State transfer *)

\* disseminate_all: every recorder has acknowledged the decisions.  A server
\* answers once its node has accepted and executed them; so has the source,
\* whose client for its own recorder calls its own server.
Acknowledged(m, s) == \A q \in active : 1 .. s \subseteq executed[q]

\* create_state_transfer at member m through slot s, up to export_checkpoint,
\* which saves the application before it answers.
Export(m, s) ==
  /\ m \in active /\ s \in Slots
  /\ s > package.through /\ package.at # "exported"
  /\ Acknowledged(m, s)
  /\ \/ /\ executor' = [executor EXCEPT ![m] = Saved(@, @.memory)]
        /\ package' = [at |-> "exported", from |-> m, through |-> s,
                       application |-> executor[m].memory, marks |-> {}]
        /\ UNCHANGED faults
     \/ /\ Err
        /\ executor' \in {[executor EXCEPT ![m] = x] : x \in SaveFailed(executor[m], executor[m].memory)}
        /\ UNCHANGED package
  /\ UNCHANGED <<jvars, log, payloads, executed, active>>

\* The rest of it: the snapshot of the runtime joins the package.
Package ==
  /\ package.at = "exported"
  /\ package' = [package EXCEPT !.at = "ready", !.marks = executed[package.from]]
  /\ UNCHANGED <<jvars, log, payloads, executor, executed, active, faults>>

\* checkpointed_value_ids
Covered == UNION {Range(log[t]) : t \in 1 .. package.through}

\* prune_state_transfer at the source of the package: remove_many saves what is
\* left.
PruneBatches(m) ==
  LET left == batches[m].memory \ Covered
  IN  /\ package.at = "ready" /\ m = package.from
      /\ left # batches[m].memory
      /\ \/ /\ batches' = [batches EXCEPT ![m] = Saved(@, left)]
            /\ UNCHANGED faults
         \/ /\ Err
            /\ batches' \in {[batches EXCEPT ![m] = x] : x \in SaveFailed(batches[m], left)}
      /\ UNCHANGED <<jvars, log, acks, values, vouched, state>>

\* install_state_transfer at a node that joins: import_checkpoint replaces file
\* and memory of the application, then the runtime takes over the snapshot.
Join(m) ==
  LET imported == Saved(executor[m], package.application)
  IN  /\ m \notin active /\ package.at = "ready"
      /\ \/ /\ executor' = [executor EXCEPT ![m] = imported]
            /\ executed' = [executed EXCEPT ![m] = package.marks]
            /\ active' = active \union {m}
            /\ UNCHANGED faults
         \/ /\ Err
            /\ executor' \in {[executor EXCEPT ![m] = x] :
                                x \in {imported} \union SaveFailed(executor[m], package.application)}
            /\ UNCHANGED <<executed, active>>
      /\ UNCHANGED <<jvars, log, payloads, package>>

------------------------------------------------------------------------------
(* Submissions and restarts *)

\* The inner handler answers a call with a decision that holds its values.
Answer(c, s) ==
  /\ s \in Slots /\ Wanted[For[c]] \subseteq Range(log[s])
  /\ InnerReturns(c, s)

Journal ==
  /\ \E c \in Call :
        \/ Enter(c) \/ Look(c) \/ InnerFails(c) \/ Put(c) \/ Return(c)
        \/ \E s \in Outcome : Answer(c, s)
  /\ UNCHANGED <<log, payloads, state, faults>>

JournalFails ==
  /\ Err
  /\ \E c \in Call : PutFails(c)
  /\ UNCHANGED <<log, payloads, state>>

\* A node stops and opens its files; its value store starts empty.
Crash(m) ==
  /\ faults.crashes < MaxCrashes
  /\ faults' = [faults EXCEPT !.crashes = @ + 1]
  /\ batches' = [batches EXCEPT ![m] = Saved(@, @.file)]
  /\ executor' = [executor EXCEPT ![m] = Saved(@, @.file)]
  /\ values' = [values EXCEPT ![m] = {}]
  /\ package' = IF package.at = "exported" /\ m = package.from
                THEN [package EXCEPT !.at = "none", !.through = 0] ELSE package
  /\ IF m = Home THEN JRestart ELSE UNCHANGED jvars
  /\ UNCHANGED <<log, acks, vouched, executed, active>>

Next ==
  \/ Journal
  \/ JournalFails
  \/ \E m \in Member, b \in Batch : Publish(m, b) \/ PublishFails(m, b) \/ Record(m, b)
  \/ \E b \in Batch : Decide(b)
  \/ \E m \in Member, s \in 1 .. MaxSlot :
        Execute(m, s) \/ ExecuteUnmarked(m, s) \/ ExecuteFails(m, s) \/ Export(m, s)
  \/ Package
  \/ \E m \in Member : PruneBatches(m) \/ Join(m) \/ Crash(m)

Spec == Init /\ [][Next]_vars

------------------------------------------------------------------------------
(* Properties *)

\* "the ExactlyOnceExecutor is the final duplicate-execution boundary": no
\* application holds a value twice, and at a founder a value whose slot the
\* runtime regards as executed is in the file of the application, so that no
\* restart undoes it.
AppliedOnce ==
  /\ \A m \in Member : IsInjective(executor[m].memory) /\ IsInjective(executor[m].file)
  /\ \A m \in Founders, s \in Slots :
        s \in executed[m] => Range(log[s]) \subseteq Range(executor[m].file)

\* create_state_transfer "returns the application checkpoint with the matching
\* consensus snapshot": what the runtime of a node that joined regards as
\* executed is in its application.
TransfersMatch ==
  \A m \in active, s \in Slots :
     s \in executed[m] => Range(log[s]) \subseteq Range(executor[m].file)

\* What the properties say of a value: a runtime has executed a slot that holds
\* it; a batch store keeps its payload across a restart.
Done(m, v) == \E s \in Slots \cap executed[m] : v \in Range(log[s])
Holders(v) == {q \in Member : v \in batches[q].memory /\ v \in batches[q].file}

\* The payload of a decided value that an active member has yet to execute is in
\* a batch store, in memory and in its file: consensus never decides what nobody
\* can fetch, and no checkpoint prunes what somebody needs.
PayloadsAvailable ==
  \A m \in active, s \in Slots : \A v \in Range(log[s]) : Done(m, v) \/ Holders(v) # {}

\* "acknowledged publishes survive process restart": a value whose publication
\* reached its threshold stays at that many members until every active member
\* has executed a slot that holds it.
PublishedSurvives ==
  \A b \in Batch : Published(b) => \A v \in Range(b) :
     (\A m \in active : Done(m, v)) \/ Cardinality(Holders(v)) >= Threshold
==============================================================================
